------------------------- MODULE LoadCascadeProofs -------------------------
(***************************************************************************)
(* Proofs about the load cascade, for every model with finitely many       *)
(* joists and posts, whatever rests on what: the order of the transfer,    *)
(* and that the transfer neither loses nor doubles a load.                 *)
(*                                                                         *)
(* First come the facts about exact fractions and about sums over sets and *)
(* lists that the second part adds up with.                                *)
(***************************************************************************)
EXTENDS LoadCascade, FiniteSetTheorems, SequenceTheorems, WellFoundedInduction, TLAPS

-----------------------------------------------------------------------------
(* Euclid's algorithm *)

LEMMA StrongInduction ==
  ASSUME NEW S, \A n \in Nat : (\A j \in 0..n - 1 : j \in S) => n \in S
  PROVE  \A n \in Nat : n \in S
<1> DEFINE T == Nat \ S
<1> DEFINE R == OpToRel(<, Nat)
<1>1. ASSUME T # {} PROVE FALSE
  <2>1. PICK d \in T : \A e \in T : <<e, d>> \notin R
    <3> HIDE DEF R
    <3>1. IsWellFoundedOn(R, Nat)
      BY NatLessThanWellFounded DEF R
    <3> QED BY <1>1, <3>1, WFMin
  <2>2. ASSUME NEW j \in 0..d - 1, j \notin S PROVE FALSE
    <3>1. j \in T /\ j < d
      BY <2>2
    <3> QED BY <3>1, <2>1 DEF OpToRel
  <2> QED BY <2>2
<1> QED BY <1>1

Remainder(f, n) == [m \in Nat |-> IF n = 0 THEN m ELSE f[m % n][n]]
Steps == [Nat -> Nat]
Euclidean(f, b) == \A n \in 0..b : f[n] = Remainder(f, n)

LEMMA RemainderSmaller ==
  \A m \in Nat, n \in Nat : n # 0 => m % n \in 0..n - 1
OBVIOUS

LEMMA EuclidUpTo ==
  \A b \in Nat : \E f \in [0..b -> Steps] : \A n \in 0..b : f[n] = Remainder(f, n)
<1> DEFINE Good(f, b) == \A n \in 0..b : f[n] = Remainder(f, n)
<1> DEFINE S == {b \in Nat : \E f \in [0..b -> Steps] : Good(f, b)}
<1>1. ASSUME NEW b \in Nat, \A j \in 0..b - 1 : j \in S PROVE b \in S
  <2>1. PICK g \in [0..b - 1 -> Steps] : Good(g, b - 1)
    <3>1. CASE b = 0
      <4> DEFINE none == [n \in 0..b - 1 |-> [m \in Nat |-> 0]]
      <4>1. none \in [0..b - 1 -> Steps]
        BY DEF Steps
      <4>2. Good(none, b - 1)
        BY <3>1
      <4> QED BY <4>1, <4>2
    <3>2. CASE b # 0
      BY <3>2, <1>1
    <3> QED BY <3>1, <3>2
  <2> DEFINE f == [n \in 0..b |-> IF n = b THEN Remainder(g, b) ELSE g[n]]
  <2>2. Remainder(g, b) \in Steps
    <3> SUFFICES ASSUME NEW m \in Nat PROVE (IF b = 0 THEN m ELSE g[m % b][b]) \in Nat
      BY DEF Remainder, Steps
    <3>1. b # 0 => g[m % b] \in Steps
      BY RemainderSmaller
    <3> QED BY <3>1 DEF Steps
  <2>3. f \in [0..b -> Steps]
    BY <2>2
  <2>4. ASSUME NEW n \in 0..b PROVE f[n] = Remainder(f, n)
    <3>1. Remainder(f, n) = Remainder(g, n)
      <4>1. ASSUME NEW m \in Nat, n # 0 PROVE f[m % n] = g[m % n]
        <5>1. m % n \in 0..n - 1
          BY <4>1, RemainderSmaller
        <5> QED BY <5>1
      <4> QED BY <4>1 DEF Remainder
    <3>2. CASE n = b
      BY <3>1, <3>2
    <3>3. CASE n # b
      BY <3>1, <3>3, <2>1
    <3> QED BY <3>2, <3>3
  <2> HIDE DEF f
  <2> QED BY <2>3, <2>4
<1> HIDE DEF S
<1>2. \A b \in Nat : b \in S
  BY <1>1, StrongInduction
<1> QED BY <1>2 DEF S

LEMMA EuclidUnique ==
  ASSUME NEW b \in Nat, NEW c \in Nat, NEW f, NEW g,
         Euclidean(f, b), Euclidean(g, c)
  PROVE  \A n \in Nat : n <= b /\ n <= c => f[n] = g[n]
<1> DEFINE S == {n \in Nat : n <= b /\ n <= c => f[n] = g[n]}
<1>1. ASSUME NEW n \in Nat, \A j \in 0..n - 1 : j \in S, n <= b /\ n <= c PROVE f[n] = g[n]
  <2>1. ASSUME NEW m \in Nat, n # 0 PROVE f[m % n] = g[m % n]
    <3>1. m % n \in 0..n - 1
      BY <2>1, RemainderSmaller
    <3> QED BY <3>1, <1>1
  <2>2. Remainder(f, n) = Remainder(g, n)
    BY <2>1 DEF Remainder
  <2> QED BY <2>2, <1>1 DEF Euclidean
<1>2. ASSUME NEW n \in Nat, \A j \in 0..n - 1 : j \in S PROVE n \in S
  BY <1>1, <1>2
<1> HIDE DEF S
<1>3. \A n \in Nat : n \in S
  BY <1>2, StrongInduction
<1> QED BY <1>3 DEF S

LEMMA GcdIs ==
  /\ gcd \in [Nat -> Steps]
  /\ \A n \in Nat, m \in Nat : gcd[n][m] = IF n = 0 THEN m ELSE gcd[m % n][n]
<1> DEFINE Good(f, b) == f \in [0..b -> Steps] /\ \A n \in 0..b : f[n] = Remainder(f, n)
<1> DEFINE upto == [b \in Nat |-> CHOOSE f : Good(f, b)]
<1> DEFINE g == [n \in Nat |-> upto[n][n]]
<1>1. \A b \in Nat : Good(upto[b], b)
  BY EuclidUpTo
<1> HIDE DEF upto
<1>2. ASSUME NEW b \in Nat, NEW n \in 0..b PROVE upto[b][n] = g[n]
  <2>1. Euclidean(upto[b], b)
    BY <1>1 DEF Euclidean
  <2>2. n \in Nat /\ n <= b /\ n <= n /\ Euclidean(upto[n], n)
    BY <1>1 DEF Euclidean
  <2>3. upto[b][n] = upto[n][n]
    BY <2>1, <2>2, EuclidUnique
  <2> QED BY <2>2, <2>3
<1>3. \A n \in Nat : g[n] \in Steps
  BY <1>1
<1>4. ASSUME NEW n \in Nat PROVE g[n] = Remainder(g, n)
  <2>1. g[n] = Remainder(upto[n], n)
    BY <1>1
  <2>2. ASSUME NEW m \in Nat, n # 0 PROVE upto[n][m % n] = g[m % n]
    <3>1. m % n \in 0..n
      BY <2>2, RemainderSmaller
    <3> QED BY <3>1, <1>2
  <2>3. Remainder(upto[n], n) = Remainder(g, n)
    <3> HIDE DEF g
    <3> QED BY <2>2 DEF Remainder
  <2> QED BY <2>1, <2>3
<1>5. g = [n \in Nat |-> Remainder(g, n)]
  <2>1. g = [n \in Nat |-> g[n]]
    OBVIOUS
  <2> HIDE DEF g
  <2> QED BY <2>1, <1>4
<1>6. gcd = [n \in Nat |-> Remainder(gcd, n)]
  <2>1. gcd = CHOOSE f : f = [n \in Nat |-> Remainder(f, n)]
    BY DEF gcd, Remainder
  <2> HIDE DEF g
  <2> QED BY <1>5, <2>1
<1>7. \A n \in Nat : gcd[n] = Remainder(gcd, n)
  BY <1>6
<1>8. \A n \in Nat : gcd[n] \in Steps
  <2>1. ASSUME NEW n \in Nat PROVE gcd[n] = g[n]
    <3>1. Euclidean(gcd, n)
      BY <1>7 DEF Euclidean
    <3>2. Euclidean(g, n)
      BY <1>4 DEF Euclidean
    <3> HIDE DEF g
    <3>3. n <= n
      OBVIOUS
    <3> QED BY <3>1, <3>2, <3>3, EuclidUnique
  <2> QED BY <2>1, <1>3
<1>9. gcd \in [Nat -> Steps]
  BY <1>6, <1>8
<1> QED BY <1>7, <1>9 DEF Remainder

LEMMA GcdPositive ==
  \A n \in Nat, m \in Nat : n # 0 \/ m # 0 => gcd[n][m] \in Nat \ {0}
<1> DEFINE S == {n \in Nat : \A m \in Nat : n # 0 \/ m # 0 => gcd[n][m] \in Nat \ {0}}
<1>1. ASSUME NEW n \in Nat, \A j \in 0..n - 1 : j \in S PROVE n \in S
  <2> SUFFICES ASSUME NEW m \in Nat, n # 0 \/ m # 0 PROVE gcd[n][m] \in Nat \ {0}
    OBVIOUS
  <2>1. CASE n = 0
    BY <2>1, GcdIs
  <2>2. CASE n # 0
    <3>1. m % n \in 0..n - 1
      BY <2>2, RemainderSmaller
    <3>2. m % n \in S
      BY <3>1, <1>1
    <3> QED BY <2>2, <3>1, <3>2, GcdIs
  <2> QED BY <2>1, <2>2
<1> HIDE DEF S
<1>2. \A n \in Nat : n \in S
  BY <1>1, StrongInduction
<1> QED BY <1>2 DEF S

Divides(g, m) == \E q \in Nat : m = q * g

LEMMA Division ==
  \A m \in Nat, n \in Nat : n # 0 => m \div n \in Nat /\ m = (m \div n) * n + (m % n)
OBVIOUS

LEMMA DividesSum ==
  ASSUME NEW g \in Nat, NEW m \in Nat, NEW k \in Nat, NEW q \in Nat,
         Divides(g, m), Divides(g, k)
  PROVE  Divides(g, q * m + k)
<1>1. PICK a \in Nat : m = a * g
  BY DEF Divides
<1>2. PICK c \in Nat : k = c * g
  BY DEF Divides
<1>3. q * a + c \in Nat
  OBVIOUS
<1>4. q * m + k = (q * a + c) * g
  BY <1>1, <1>2
<1> QED BY <1>3, <1>4 DEF Divides

LEMMA GcdDivides ==
  \A n \in Nat, m \in Nat : Divides(gcd[n][m], n) /\ Divides(gcd[n][m], m)
<1> DEFINE S == {n \in Nat : \A m \in Nat : Divides(gcd[n][m], n) /\ Divides(gcd[n][m], m)}
<1>1. ASSUME NEW n \in Nat, \A j \in 0..n - 1 : j \in S PROVE n \in S
  <2> SUFFICES ASSUME NEW m \in Nat PROVE Divides(gcd[n][m], n) /\ Divides(gcd[n][m], m)
    OBVIOUS
  <2>1. CASE n = 0
    <3>1. gcd[n][m] = m /\ n = 0 * m /\ m = 1 * m
      BY <2>1, GcdIs
    <3> QED BY <3>1 DEF Divides
  <2>2. CASE n # 0
    <3>1. m % n \in 0..n - 1
      BY <2>2, RemainderSmaller
    <3>2. m % n \in S
      BY <3>1, <1>1
    <3>3. gcd[n][m] = gcd[m % n][n]
      BY <2>2, GcdIs
    <3>4. Divides(gcd[n][m], n) /\ Divides(gcd[n][m], m % n)
      BY <3>2, <3>3
    <3>5. gcd[n][m] \in Nat
      BY <2>2, GcdPositive
    <3>6. m \div n \in Nat /\ m = (m \div n) * n + (m % n) /\ m % n \in Nat
      BY <2>2, <3>1, Division
    <3> QED BY <3>4, <3>5, <3>6, DividesSum
  <2> QED BY <2>1, <2>2
<1> HIDE DEF S
<1>2. \A n \in Nat : n \in S
  BY <1>1, StrongInduction
<1> QED BY <1>2 DEF S

LEMMA RemainderScales ==
  ASSUME NEW k \in Nat \ {0}, NEW n \in Nat \ {0}, NEW m \in Nat
  PROVE  (k * m) % (k * n) = k * (m % n)
<1> DEFINE q == m \div n
           r == m % n
<1>1. q \in Nat /\ m = q * n + r /\ r \in 0..n - 1
  BY Division, RemainderSmaller
<1> HIDE DEF q, r
<1>2. k * n \in Nat \ {0} /\ k * m \in Nat
  OBVIOUS
<1>3. k * m = q * (k * n) + k * r
  BY <1>1
<1>4. k * r \in 0..(k * n) - 1
  <2>1. k * (n - r) >= k
    BY <1>1
  <2>2. k * (n - r) = k * n - k * r
    BY <1>1
  <2>3. k * r \in Nat /\ k * n \in Nat
    BY <1>1
  <2> QED BY <2>1, <2>2, <2>3
<1>5. \A a \in Nat, b \in Nat \ {0}, s \in Nat, t \in Nat : t < b /\ a = s * b + t => a % b = t
  OBVIOUS
<1>6. (k * m) % (k * n) = k * r
  <2>1. k * r \in Nat /\ k * r < k * n
    BY <1>1, <1>2, <1>4
  <2> HIDE <1>4
  <2> QED BY <1>1, <1>2, <1>3, <2>1, <1>5
<1> QED BY <1>6 DEF r

LEMMA GcdScales ==
  ASSUME NEW k \in Nat \ {0}
  PROVE  \A n \in Nat, m \in Nat : gcd[k * n][k * m] = k * gcd[n][m]
<1> DEFINE S == {n \in Nat : \A m \in Nat : gcd[k * n][k * m] = k * gcd[n][m]}
<1>1. ASSUME NEW n \in Nat, \A j \in 0..n - 1 : j \in S PROVE n \in S
  <2> SUFFICES ASSUME NEW m \in Nat PROVE gcd[k * n][k * m] = k * gcd[n][m]
    OBVIOUS
  <2>1. k * n \in Nat /\ k * m \in Nat
    OBVIOUS
  <2>2. CASE n = 0
    <3>1. k * n = 0
      BY <2>2
    <3> QED BY <2>1, <2>2, <3>1, GcdIs
  <2>3. CASE n # 0
    <3>1. m % n \in 0..n - 1
      BY <2>3, RemainderSmaller
    <3>2. m % n \in S
      BY <3>1, <1>1
    <3>3. gcd[n][m] = gcd[m % n][n]
      BY <2>3, GcdIs
    <3>4. k * n # 0
      BY <2>3
    <3>5. gcd[k * n][k * m] = gcd[(k * m) % (k * n)][k * n]
      BY <2>1, <3>4, GcdIs
    <3>6. (k * m) % (k * n) = k * (m % n)
      BY <2>3, RemainderScales
    <3> QED BY <3>2, <3>3, <3>5, <3>6
  <2> QED BY <2>2, <2>3
<1> HIDE DEF S
<1>2. \A n \in Nat : n \in S
  BY <1>1, StrongInduction
<1> QED BY <1>2 DEF S

-----------------------------------------------------------------------------
(* Fractions *)

Positive == Nat \ {0}
NonZero == Int \ {0}

LEMMA ExactDivision ==
  \A a \in Int, g \in Positive : (a * g) \div g = a
<1>1. \A n \in Int, q \in Int, g \in Positive : n = q * g => n \div g = q
  BY DEF Positive
<1> QED BY <1>1 DEF Positive

LEMMA MagnitudeIs ==
  \A n \in Int : Magnitude(n) \in Nat /\ (n # 0 => Magnitude(n) # 0)
BY DEF Magnitude

LEMMA MagnitudeScales ==
  \A k \in Positive, n \in Int : Magnitude(k * n) = k * Magnitude(n)
<1> SUFFICES ASSUME NEW k \in Positive, NEW n \in Int PROVE Magnitude(k * n) = k * Magnitude(n)
  OBVIOUS
<1>1. CASE n < 0
  <2>1. k * n < 0
    BY <1>1 DEF Positive
  <2> QED BY <1>1, <2>1 DEF Magnitude, Positive
<1>2. CASE ~(n < 0)
  <2>1. ~(k * n < 0)
    BY <1>2 DEF Positive
  <2> QED BY <1>2, <2>1 DEF Magnitude, Positive
<1> QED BY <1>1, <1>2

(* A fraction is a multiple of what it is reduced to. *)
LEMMA FracReduces ==
  ASSUME NEW n \in Int, NEW d \in NonZero
  PROVE  \E g \in NonZero : /\ Frac(n, d) \in Int \X Positive
                            /\ n = Frac(n, d)[1] * g /\ d = Frac(n, d)[2] * g
<1> DEFINE g == gcd[Magnitude(d)][Magnitude(n)]
<1> DEFINE s == IF d < 0 THEN -1 ELSE 1
<1>1. g \in Positive
  BY GcdPositive, MagnitudeIs DEF NonZero, Positive
<1>2. PICK a \in Nat : Magnitude(n) = a * g
  BY GcdDivides, MagnitudeIs DEF Divides, NonZero
<1>3. PICK b \in Nat : Magnitude(d) = b * g
  BY GcdDivides, MagnitudeIs DEF Divides, NonZero
<1>4. Frac(n, d) = <<s * (n \div g), s * (d \div g)>>
  BY DEF Frac
<1> HIDE DEF g
<1>5. PICK x \in Int : n = x * g
  <2>1. n = a * g \/ n = (-a) * g
    BY <1>1, <1>2 DEF Magnitude, Positive
  <2> QED BY <2>1
<1>6. PICK y \in Int : d = y * g
  <2>1. d = b * g \/ d = (-b) * g
    BY <1>1, <1>3 DEF Magnitude, Positive, NonZero
  <2> QED BY <2>1
<1>7. n \div g = x /\ d \div g = y
  BY <1>1, <1>5, <1>6, ExactDivision
<1>8. s * y \in Positive
  BY <1>1, <1>6 DEF NonZero, Positive
<1>9. /\ s * g \in NonZero
      /\ n = (s * x) * (s * g) /\ d = (s * y) * (s * g)
  BY <1>1, <1>5, <1>6 DEF NonZero, Positive
<1>10. s * x \in Int
  OBVIOUS
<1> HIDE DEF s
<1> DEFINE h == s * g
<1>11. /\ Frac(n, d) = <<s * x, s * y>>
       /\ h \in NonZero /\ n = (s * x) * h /\ d = (s * y) * h
  BY <1>4, <1>7, <1>9
<1> HIDE DEF h
<1> QED BY <1>8, <1>10, <1>11

LEMMA FracIs ==
  ASSUME NEW n \in Int, NEW d \in NonZero
  PROVE  Frac(n, d) \in Int \X Positive /\ Frac(n, d)[1] * d = n * Frac(n, d)[2]
<1>1. PICK g \in NonZero : /\ Frac(n, d) \in Int \X Positive
                            /\ n = Frac(n, d)[1] * g /\ d = Frac(n, d)[2] * g
  BY FracReduces
<1> DEFINE a == Frac(n, d)[1]
           b == Frac(n, d)[2]
<1>2. a \in Int /\ b \in Int /\ g \in Int /\ n = a * g /\ d = b * g
  BY <1>1 DEF Positive, NonZero
<1> HIDE DEF a, b
<1>3. a * d = n * b
  BY <1>2
<1> QED BY <1>1, <1>3 DEF a, b

LEMMA FracScales ==
  ASSUME NEW n \in Int, NEW d \in NonZero, NEW k \in Positive
  PROVE  Frac(k * n, k * d) = Frac(n, d)
<1> DEFINE g == gcd[Magnitude(d)][Magnitude(n)]
<1> DEFINE s == IF d < 0 THEN -1 ELSE 1
<1>1. g \in Positive
  BY GcdPositive, MagnitudeIs DEF NonZero, Positive
<1>2. gcd[Magnitude(k * d)][Magnitude(k * n)] = k * g
  <2>1. Magnitude(k * d) = k * Magnitude(d) /\ Magnitude(k * n) = k * Magnitude(n)
    BY MagnitudeScales DEF NonZero
  <2>2. Magnitude(d) \in Nat /\ Magnitude(n) \in Nat /\ k \in Nat \ {0}
    BY MagnitudeIs DEF NonZero, Positive
  <2> QED BY <2>1, <2>2, GcdScales
<1>3. PICK a \in Nat : Magnitude(n) = a * g
  BY GcdDivides, MagnitudeIs DEF Divides, NonZero
<1>4. PICK b \in Nat : Magnitude(d) = b * g
  BY GcdDivides, MagnitudeIs DEF Divides, NonZero
<1>5. (k * d < 0) <=> (d < 0)
  BY DEF Positive, NonZero
<1>6. Frac(n, d) = <<s * (n \div g), s * (d \div g)>>
  BY DEF Frac
<1>7. Frac(k * n, k * d) = <<s * ((k * n) \div (k * g)), s * ((k * d) \div (k * g))>>
  BY <1>2, <1>5 DEF Frac
<1> HIDE DEF g
<1>8. k * g \in Positive
  BY <1>1 DEF Positive
<1>9. (k * n) \div (k * g) = n \div g
  <2>1. PICK x \in Int : n = x * g
    <3>1. n = a * g \/ n = (-a) * g
      BY <1>1, <1>3 DEF Magnitude, Positive
    <3> QED BY <3>1
  <2>2. k * n = x * (k * g)
    BY <1>1, <2>1 DEF Positive
  <2> QED BY <1>1, <1>8, <2>1, <2>2, ExactDivision
<1>10. (k * d) \div (k * g) = d \div g
  <2>1. PICK x \in Int : d = x * g
    <3>1. d = b * g \/ d = (-b) * g
      BY <1>1, <1>4 DEF Magnitude, Positive, NonZero
    <3> QED BY <3>1
  <2>2. k * d = x * (k * g)
    BY <1>1, <2>1 DEF Positive
  <2> QED BY <1>1, <1>8, <2>1, <2>2, ExactDivision
<1> QED BY <1>6, <1>7, <1>9, <1>10

LEMMA FracFlips ==
  ASSUME NEW n \in Int, NEW d \in NonZero
  PROVE  Frac(-n, -d) = Frac(n, d)
<1> DEFINE g == gcd[Magnitude(d)][Magnitude(n)]
<1>1. g \in Positive
  BY GcdPositive, MagnitudeIs DEF NonZero, Positive
<1>2. Magnitude(-n) = Magnitude(n) /\ Magnitude(-d) = Magnitude(d)
  BY DEF Magnitude, NonZero
<1>3. PICK a \in Nat : Magnitude(n) = a * g
  BY GcdDivides, MagnitudeIs DEF Divides, NonZero
<1>4. PICK b \in Nat : Magnitude(d) = b * g
  BY GcdDivides, MagnitudeIs DEF Divides, NonZero
<1>5. Frac(n, d) = LET s == IF d < 0 THEN -1 ELSE 1 IN <<s * (n \div g), s * (d \div g)>>
  BY DEF Frac
<1>6. Frac(-n, -d) = LET s == IF -d < 0 THEN -1 ELSE 1 IN <<s * ((-n) \div g), s * ((-d) \div g)>>
  BY <1>2 DEF Frac
<1> HIDE DEF g
<1>7. PICK x \in Int : n = x * g
  <2>1. n = a * g \/ n = (-a) * g
    BY <1>1, <1>3 DEF Magnitude, Positive
  <2> QED BY <2>1
<1>8. PICK y \in Int : d = y * g
  <2>1. d = b * g \/ d = (-b) * g
    BY <1>1, <1>4 DEF Magnitude, Positive, NonZero
  <2> QED BY <2>1
<1>9. n \div g = x /\ d \div g = y
  BY <1>1, <1>7, <1>8, ExactDivision
<1>10. (-n) \div g = -x /\ (-d) \div g = -y
  <2>1. -n = (-x) * g /\ -d = (-y) * g
    BY <1>1, <1>7, <1>8 DEF Positive
  <2> QED BY <1>1, <2>1, ExactDivision
<1> QED BY <1>5, <1>6, <1>9, <1>10 DEF NonZero

(* Two quotients of one value are one fraction. *)
LEMMA FracEqual ==
  ASSUME NEW n \in Int, NEW d \in NonZero, NEW m \in Int, NEW e \in NonZero, n * e = m * d
  PROVE  Frac(n, d) = Frac(m, e)
<1>1. ASSUME NEW a \in Int, NEW b \in NonZero, NEW k \in NonZero PROVE Frac(k * a, k * b) = Frac(a, b)
  <2>1. CASE k > 0
    <3>1. k \in Positive
      BY <2>1 DEF NonZero, Positive
    <3> QED BY <3>1, FracScales
  <2>2. CASE k < 0
    <3>1. -k \in Positive
      BY <2>2 DEF Positive, NonZero
    <3>2. Frac((-k) * a, (-k) * b) = Frac(a, b)
      BY <3>1, FracScales
    <3>3. (-k) * a = -(k * a) /\ (-k) * b = -(k * b)
      BY DEF NonZero
    <3>4. k * a \in Int /\ k * b \in NonZero
      BY DEF NonZero
    <3> QED BY <3>2, <3>3, <3>4, FracFlips
  <2> QED BY <2>1, <2>2 DEF NonZero
<1>2. Frac(e * n, e * d) = Frac(n, d) /\ Frac(d * m, d * e) = Frac(m, e)
  BY <1>1
<1>3. e * n = d * m /\ e * d = d * e
  BY DEF NonZero
<1> QED BY <1>2, <1>3

LEMMA FracTyped ==
  ASSUME NEW n \in Int, NEW d \in NonZero
  PROVE  Frac(n, d) \in Fractions
<1> DEFINE q == Frac(n, d)
<1>1. q \in Int \X Positive /\ q[1] * d = n * q[2]
  BY FracIs
<1>2. q[1] \in Int /\ q[2] \in NonZero
  BY <1>1 DEF Positive, NonZero
<1> HIDE DEF q
<1>3. Frac(q[1], q[2]) = Frac(n, d)
  BY <1>1, <1>2, FracEqual
<1> QED BY <1>1, <1>3 DEF Fractions, Positive, q

LEMMA FractionParts ==
  ASSUME NEW q \in Fractions
  PROVE  /\ q[1] \in Int /\ q[2] \in Positive /\ q[2] \in NonZero /\ q[2] \in Int
         /\ q = Frac(q[1], q[2])
BY DEF Fractions, Positive, NonZero

(* Fractions are equal when their cross products are.                     *)
LEMMA FractionsEqual ==
  ASSUME NEW q \in Fractions, NEW r \in Fractions, q[1] * r[2] = r[1] * q[2]
  PROVE  q = r
BY FractionParts, FracEqual

(* q has the value n / d.                                                *)
Worth(q, n, d) == q \in Fractions /\ d \in NonZero /\ n \in Int /\ q[1] * d = n * q[2]

LEMMA WorthFrac ==
  ASSUME NEW n \in Int, NEW d \in NonZero
  PROVE  Worth(Frac(n, d), n, d)
BY FracTyped, FracIs DEF Worth

LEMMA WorthSelf ==
  ASSUME NEW q \in Fractions
  PROVE  Worth(q, q[1], q[2])
BY FractionParts DEF Worth

LEMMA WorthIsFrac ==
  ASSUME NEW q, NEW n, NEW d, Worth(q, n, d)
  PROVE  q = Frac(n, d)
<1>1. q \in Fractions /\ q[1] \in Int /\ q[2] \in NonZero /\ q = Frac(q[1], q[2])
  BY FractionParts DEF Worth
<1> QED BY <1>1, FracEqual DEF Worth

LEMMA WorthEqual ==
  ASSUME NEW q, NEW r, NEW n, NEW d, NEW m, NEW e,
         Worth(q, n, d), Worth(r, m, e), n * e = m * d
  PROVE  q = r
<1>1. q = Frac(n, d) /\ r = Frac(m, e)
  BY WorthIsFrac
<1> QED BY <1>1, FracEqual DEF Worth

LEMMA CrossProducts ==
  ASSUME NEW a \in Int, NEW b \in Int, NEW n \in Int, NEW d \in Int, a * d = n * b,
         NEW x \in Int, NEW y \in Int, NEW m \in Int, NEW e \in Int, x * e = m * y
  PROVE  /\ (a * y + x * b) * (d * e) = (n * e + m * d) * (b * y)
         /\ (a * y - x * b) * (d * e) = (n * e - m * d) * (b * y)
         /\ (a * x) * (d * e) = (n * m) * (b * y)
<1>1. (a * d) * (y * e) = (n * b) * (y * e)
  OBVIOUS
<1>2. (x * e) * (b * d) = (m * y) * (b * d)
  OBVIOUS
<1>3. (a * d) * (x * e) = (n * b) * (m * y)
  OBVIOUS
<1> QED BY <1>1, <1>2, <1>3

LEMMA NonZeroProduct ==
  \A a \in NonZero, b \in NonZero : a * b \in NonZero
BY DEF NonZero

LEMMA WorthResults ==
  ASSUME NEW q, NEW n, NEW d, NEW r, NEW m, NEW e, Worth(q, n, d), Worth(r, m, e)
  PROVE  /\ Worth(Plus(q, r), n * e + m * d, d * e)
         /\ Worth(Minus(q, r), n * e - m * d, d * e)
         /\ Worth(Times(q, r), n * m, d * e)
<1> DEFINE a == q[1]
           b == q[2]
           x == r[1]
           y == r[2]
<1>1. /\ a \in Int /\ b \in NonZero /\ x \in Int /\ y \in NonZero
      /\ n \in Int /\ d \in NonZero /\ m \in Int /\ e \in NonZero
      /\ a * d = n * b /\ x * e = m * y
  BY FractionParts DEF Worth
<1> HIDE DEF a, b, x, y
<1>2. b * y \in NonZero /\ d * e \in NonZero
  BY <1>1, NonZeroProduct
<1>3. /\ a * y + x * b \in Int /\ a * y - x * b \in Int /\ a * x \in Int
      /\ n * e + m * d \in Int /\ n * e - m * d \in Int /\ n * m \in Int
  BY <1>1 DEF NonZero
<1>4. /\ (a * y + x * b) * (d * e) = (n * e + m * d) * (b * y)
      /\ (a * y - x * b) * (d * e) = (n * e - m * d) * (b * y)
      /\ (a * x) * (d * e) = (n * m) * (b * y)
  BY <1>1, CrossProducts DEF NonZero
<1>5. /\ Plus(q, r) = Frac(a * y + x * b, b * y)
      /\ Minus(q, r) = Frac(a * y - x * b, b * y)
      /\ Times(q, r) = Frac(a * x, b * y)
  BY DEF Plus, Minus, Times, a, b, x, y
<1>6. /\ Plus(q, r) = Frac(n * e + m * d, d * e)
      /\ Minus(q, r) = Frac(n * e - m * d, d * e)
      /\ Times(q, r) = Frac(n * m, d * e)
  BY <1>2, <1>3, <1>4, <1>5, FracEqual
<1> QED BY <1>2, <1>3, <1>6, WorthFrac

LEMMA WholeIsFrac ==
  \A n \in Int : Whole(n) = Frac(n, 1) /\ Worth(Whole(n), n, 1) /\ Whole(n) \in Fractions
<1> SUFFICES ASSUME NEW n \in Int
             PROVE  Whole(n) = Frac(n, 1) /\ Worth(Whole(n), n, 1) /\ Whole(n) \in Fractions
  OBVIOUS
<1>1. 1 \in NonZero
  BY DEF NonZero
<1>2. Frac(n, 1) \in Fractions /\ Worth(Frac(n, 1), n, 1)
  BY <1>1, FracTyped, WorthFrac
<1>3. gcd[1][Magnitude(n)] = 1
  <2>1. \A m \in Nat : m % 1 = 0
    OBVIOUS
  <2> QED BY <2>1, GcdIs, MagnitudeIs
<1>4. n \div 1 = n /\ 1 \div 1 = 1 /\ Magnitude(1) = 1
  BY DEF Magnitude
<1>5. Frac(n, 1) = <<n, 1>>
  BY <1>3, <1>4 DEF Frac
<1> QED BY <1>2, <1>5 DEF Whole

LEMMA Constants ==
  /\ Zero \in Fractions /\ Worth(Zero, 0, 1)
  /\ One \in Fractions /\ Worth(One, 1, 1)
BY WholeIsFrac DEF Zero, One

LEMMA WorthTyped ==
  ASSUME NEW q, NEW n, NEW d, Worth(q, n, d)
  PROVE  q \in Fractions
BY DEF Worth

LEMMA ResultsTyped ==
  ASSUME NEW x \in Fractions, NEW y \in Fractions
  PROVE  Plus(x, y) \in Fractions /\ Minus(x, y) \in Fractions /\ Times(x, y) \in Fractions
<1>1. Worth(x, x[1], x[2]) /\ Worth(y, y[1], y[2])
  BY WorthSelf
<1> QED BY <1>1, WorthResults, WorthTyped

LEMMA PlusCommutes ==
  ASSUME NEW x \in Fractions, NEW y \in Fractions
  PROVE  Plus(x, y) = Plus(y, x)
<1>1. x[1] \in Int /\ x[2] \in Int /\ y[1] \in Int /\ y[2] \in Int
  BY FractionParts
<1>2. x[1] * y[2] + y[1] * x[2] = y[1] * x[2] + x[1] * y[2] /\ x[2] * y[2] = y[2] * x[2]
  BY <1>1
<1> QED BY <1>2 DEF Plus

LEMMA TimesCommutes ==
  ASSUME NEW x \in Fractions, NEW y \in Fractions
  PROVE  Times(x, y) = Times(y, x)
<1>1. x[1] \in Int /\ x[2] \in Int /\ y[1] \in Int /\ y[2] \in Int
  BY FractionParts
<1>2. x[1] * y[1] = y[1] * x[1] /\ x[2] * y[2] = y[2] * x[2]
  BY <1>1
<1> QED BY <1>2 DEF Times

LEMMA PlusZero ==
  ASSUME NEW x \in Fractions
  PROVE  Plus(x, Zero) = x /\ Plus(Zero, x) = x
<1>1. Worth(x, x[1], x[2])
  BY WorthSelf
<1>2. Worth(Plus(x, Zero), x[1] * 1 + 0 * x[2], x[2] * 1)
  BY <1>1, Constants, WorthResults
<1>3. x[1] \in Int /\ x[2] \in Int
  BY FractionParts
<1>4. (x[1] * 1 + 0 * x[2]) * x[2] = x[1] * (x[2] * 1)
  BY <1>3
<1>5. Plus(x, Zero) = x
  BY <1>1, <1>2, <1>4, WorthEqual
<1> QED BY <1>5, PlusCommutes, Constants

LEMMA TimesZero ==
  ASSUME NEW x \in Fractions
  PROVE  Times(Zero, x) = Zero /\ Times(x, Zero) = Zero
<1>1. Worth(x, x[1], x[2])
  BY WorthSelf
<1>2. Worth(Times(x, Zero), x[1] * 0, x[2] * 1)
  BY <1>1, Constants, WorthResults
<1>3. x[1] \in Int /\ x[2] \in Int
  BY FractionParts
<1>4. (x[1] * 0) * 1 = 0 * (x[2] * 1)
  BY <1>3
<1>5. Times(x, Zero) = Zero
  BY <1>2, <1>4, Constants, WorthEqual
<1> QED BY <1>5, TimesCommutes, Constants

LEMMA TimesOne ==
  ASSUME NEW x \in Fractions
  PROVE  Times(x, One) = x
<1>1. Worth(x, x[1], x[2])
  BY WorthSelf
<1>2. Worth(Times(x, One), x[1] * 1, x[2] * 1)
  BY <1>1, Constants, WorthResults
<1>3. x[1] \in Int /\ x[2] \in Int
  BY FractionParts
<1>4. (x[1] * 1) * x[2] = x[1] * (x[2] * 1)
  BY <1>3
<1> QED BY <1>1, <1>2, <1>4, WorthEqual

LEMMA PlusAssociates ==
  ASSUME NEW x \in Fractions, NEW y \in Fractions, NEW z \in Fractions
  PROVE  Plus(Plus(x, y), z) = Plus(x, Plus(y, z))
<1> DEFINE a == x[1]
           b == x[2]
           c == y[1]
           d == y[2]
           e == z[1]
           f == z[2]
<1>1. Worth(x, a, b) /\ Worth(y, c, d) /\ Worth(z, e, f)
  BY WorthSelf
<1>2. a \in Int /\ b \in Int /\ c \in Int /\ d \in Int /\ e \in Int /\ f \in Int
  BY FractionParts
<1> HIDE DEF a, b, c, d, e, f
<1>3. Worth(Plus(x, y), a * d + c * b, b * d) /\ Worth(Plus(y, z), c * f + e * d, d * f)
  BY <1>1, WorthResults
<1>4. Worth(Plus(Plus(x, y), z), (a * d + c * b) * f + e * (b * d), (b * d) * f)
  BY <1>1, <1>3, WorthResults
<1>5. Worth(Plus(x, Plus(y, z)), a * (d * f) + (c * f + e * d) * b, b * (d * f))
  BY <1>1, <1>3, WorthResults
<1>6. ((a * d + c * b) * f + e * (b * d)) * (b * (d * f))
        = (a * (d * f) + (c * f + e * d) * b) * ((b * d) * f)
  BY <1>2
<1> QED BY <1>4, <1>5, <1>6, WorthEqual

LEMMA TimesAssociates ==
  ASSUME NEW x \in Fractions, NEW y \in Fractions, NEW z \in Fractions
  PROVE  Times(Times(x, y), z) = Times(x, Times(y, z))
<1> DEFINE a == x[1]
           b == x[2]
           c == y[1]
           d == y[2]
           e == z[1]
           f == z[2]
<1>1. Worth(x, a, b) /\ Worth(y, c, d) /\ Worth(z, e, f)
  BY WorthSelf
<1>2. a \in Int /\ b \in Int /\ c \in Int /\ d \in Int /\ e \in Int /\ f \in Int
  BY FractionParts
<1> HIDE DEF a, b, c, d, e, f
<1>3. Worth(Times(x, y), a * c, b * d) /\ Worth(Times(y, z), c * e, d * f)
  BY <1>1, WorthResults
<1>4. Worth(Times(Times(x, y), z), (a * c) * e, (b * d) * f)
  BY <1>1, <1>3, WorthResults
<1>5. Worth(Times(x, Times(y, z)), a * (c * e), b * (d * f))
  BY <1>1, <1>3, WorthResults
<1>6. ((a * c) * e) * (b * (d * f)) = (a * (c * e)) * ((b * d) * f)
  BY <1>2
<1> QED BY <1>4, <1>5, <1>6, WorthEqual

LEMMA TimesDistributes ==
  ASSUME NEW x \in Fractions, NEW y \in Fractions, NEW z \in Fractions
  PROVE  /\ Times(Plus(x, y), z) = Plus(Times(x, z), Times(y, z))
         /\ Times(z, Plus(x, y)) = Plus(Times(z, x), Times(z, y))
<1> DEFINE a == x[1]
           b == x[2]
           c == y[1]
           d == y[2]
           e == z[1]
           f == z[2]
<1>1. Worth(x, a, b) /\ Worth(y, c, d) /\ Worth(z, e, f)
  BY WorthSelf
<1>2. a \in Int /\ b \in Int /\ c \in Int /\ d \in Int /\ e \in Int /\ f \in Int
  BY FractionParts
<1> HIDE DEF a, b, c, d, e, f
<1>3. Worth(Plus(x, y), a * d + c * b, b * d)
      /\ Worth(Times(x, z), a * e, b * f) /\ Worth(Times(y, z), c * e, d * f)
  BY <1>1, WorthResults
<1>4. Worth(Times(Plus(x, y), z), (a * d + c * b) * e, (b * d) * f)
  BY <1>1, <1>3, WorthResults
<1>5. Worth(Plus(Times(x, z), Times(y, z)), (a * e) * (d * f) + (c * e) * (b * f), (b * f) * (d * f))
  BY <1>1, <1>3, WorthResults
<1>6. ((a * d + c * b) * e) * ((b * f) * (d * f))
        = ((a * e) * (d * f) + (c * e) * (b * f)) * ((b * d) * f)
  BY <1>2
<1>7. Times(Plus(x, y), z) = Plus(Times(x, z), Times(y, z))
  BY <1>4, <1>5, <1>6, WorthEqual
<1> QED BY <1>7, ResultsTyped, TimesCommutes

(* Four summands, paired differently.                                     *)
LEMMA PlusExchanges ==
  ASSUME NEW w \in Fractions, NEW x \in Fractions, NEW y \in Fractions, NEW z \in Fractions
  PROVE  Plus(Plus(w, x), Plus(y, z)) = Plus(Plus(w, y), Plus(x, z))
<1>1. Plus(Plus(w, x), Plus(y, z)) = Plus(w, Plus(x, Plus(y, z)))
  BY ResultsTyped, PlusAssociates
<1>2. Plus(x, Plus(y, z)) = Plus(Plus(y, x), z)
  BY ResultsTyped, PlusAssociates, PlusCommutes
<1>3. Plus(Plus(y, x), z) = Plus(y, Plus(x, z))
  BY PlusAssociates
<1>4. Plus(w, Plus(y, Plus(x, z))) = Plus(Plus(w, y), Plus(x, z))
  BY ResultsTyped, PlusAssociates
<1> QED BY <1>1, <1>2, <1>3, <1>4

(* The lever rule takes nothing from a force ...                          *)
LEMMA LeverForce ==
  ASSUME NEW p \in Fractions, NEW t \in Fractions
  PROVE  Plus(Times(p, Minus(One, t)), Times(p, t)) = p
<1> DEFINE c == t[1]
           d == t[2]
<1>1. Worth(t, c, d) /\ c \in Int /\ d \in Int
  BY WorthSelf, FractionParts
<1> HIDE DEF c, d
<1>2. Worth(Minus(One, t), 1 * d - c * 1, 1 * d)
  BY <1>1, Constants, WorthResults
<1>3. Worth(Plus(Minus(One, t), t), (1 * d - c * 1) * d + c * (1 * d), (1 * d) * d)
  BY <1>1, <1>2, WorthResults
<1>4. ((1 * d - c * 1) * d + c * (1 * d)) * 1 = 1 * ((1 * d) * d)
  BY <1>1
<1>5. Plus(Minus(One, t), t) = One
  BY <1>3, <1>4, Constants, WorthEqual
<1>6. Times(p, Plus(Minus(One, t), t)) = Plus(Times(p, Minus(One, t)), Times(p, t))
  <2>1. Minus(One, t) \in Fractions
    BY ResultsTyped, Constants
  <2> QED BY <2>1, TimesDistributes
<1> QED BY <1>5, <1>6, TimesOne

(* ... nor from its moment.                                               *)
LEMMA LeverMoment ==
  ASSUME NEW p \in Fractions, NEW t \in Fractions, NEW a \in Int, NEW b \in Int
  PROVE  Plus(Times(Times(p, Minus(One, t)), Whole(a)), Times(Times(p, t), Whole(b)))
           = Times(p, Plus(Whole(a), Times(t, Whole(b - a))))
<1> DEFINE c == t[1]
           d == t[2]
           m == p[1]
           n == p[2]
<1>1. Worth(t, c, d) /\ c \in Int /\ d \in Int /\ Worth(p, m, n) /\ m \in Int /\ n \in Int
  BY WorthSelf, FractionParts
<1>2. Worth(Whole(a), a, 1) /\ Worth(Whole(b), b, 1) /\ Worth(Whole(b - a), b - a, 1)
  BY WholeIsFrac
<1> HIDE DEF c, d, m, n
<1>3. Worth(Minus(One, t), 1 * d - c * 1, 1 * d)
  BY <1>1, Constants, WorthResults
<1>4. Worth(Times(p, Minus(One, t)), m * (1 * d - c * 1), n * (1 * d)) /\ Worth(Times(p, t), m * c, n * d)
  BY <1>1, <1>3, WorthResults
<1> DEFINE u == (m * (1 * d - c * 1)) * a
           v == (n * (1 * d)) * 1
           w == (m * c) * b
           x == (n * d) * 1
<1>5. /\ Worth(Times(Times(p, Minus(One, t)), Whole(a)), u, v)
      /\ Worth(Times(Times(p, t), Whole(b)), w, x)
  BY <1>2, <1>4, WorthResults
<1>6. Worth(Plus(Times(Times(p, Minus(One, t)), Whole(a)), Times(Times(p, t), Whole(b))),
            u * x + w * v, v * x)
  <2> HIDE DEF u, v, w, x
  <2> QED BY <1>5, WorthResults
<1>7. Worth(Times(t, Whole(b - a)), c * (b - a), d * 1)
  BY <1>1, <1>2, WorthResults
<1>8. Worth(Plus(Whole(a), Times(t, Whole(b - a))), a * (d * 1) + (c * (b - a)) * 1, 1 * (d * 1))
  BY <1>2, <1>7, WorthResults
<1>9. Worth(Times(p, Plus(Whole(a), Times(t, Whole(b - a)))),
            m * (a * (d * 1) + (c * (b - a)) * 1), n * (1 * (d * 1)))
  BY <1>1, <1>8, WorthResults
<1>10. (u * x + w * v) * (n * (1 * (d * 1))) = (m * (a * (d * 1) + (c * (b - a)) * 1)) * (v * x)
  BY <1>1
<1> QED BY <1>6, <1>9, <1>10, WorthEqual

-----------------------------------------------------------------------------
(* Sums over sets *)

Choice(T) == CHOOSE x \in T : TRUE
Added(w, f, T) == IF T = {} THEN Zero ELSE Plus(w[Choice(T)], f[T \ {Choice(T)}])
Summing(f, w, S) == f = [T \in SUBSET S |-> Added(w, f, T)]

LEMMA TotalIs ==
  ASSUME NEW S, NEW w
  PROVE  Total(S, w) = (CHOOSE f : Summing(f, w, S))[S]
BY DEF Total, FoldFunctionOnSet, MapThenFoldSet, Summing, Added, Choice

LEMMA ChoiceIn ==
  ASSUME NEW T, T # {}
  PROVE  Choice(T) \in T
BY DEF Choice

LEMMA OneLess ==
  ASSUME NEW T, IsFiniteSet(T), NEW x \in T
  PROVE  IsFiniteSet(T \ {x}) /\ Cardinality(T) \in Nat /\ Cardinality(T \ {x}) = Cardinality(T) - 1
BY FS_RemoveElement, FS_CardinalityType

Weighing(w, S) == \A x \in S : w[x] \in Fractions

LEMMA SummingExists ==
  ASSUME NEW S, IsFiniteSet(S), NEW w, Weighing(w, S)
  PROVE  \E f \in [SUBSET S -> Fractions] : Summing(f, w, S)
<1> DEFINE Good(f, n) == \A T \in SUBSET S : Cardinality(T) <= n => f[T] = Added(w, f, T)
<1> DEFINE N == {n \in Nat : \E f \in [SUBSET S -> Fractions] : Good(f, n)}
<1>1. ASSUME NEW f \in [SUBSET S -> Fractions], NEW T \in SUBSET S PROVE Added(w, f, T) \in Fractions
  <2>1. CASE T = {}
    BY <2>1, Constants DEF Added
  <2>2. CASE T # {}
    <3>1. Choice(T) \in S /\ T \ {Choice(T)} \in SUBSET S
      BY <2>2, ChoiceIn
    <3>2. w[Choice(T)] \in Fractions /\ f[T \ {Choice(T)}] \in Fractions
      BY <3>1 DEF Weighing
    <3> QED BY <2>2, <3>2, ResultsTyped DEF Added
  <2> QED BY <2>1, <2>2
<1>2. ASSUME NEW n \in Nat, \A j \in 0..n - 1 : j \in N PROVE n \in N
  <2>1. CASE n = 0
    <3> DEFINE f == [T \in SUBSET S |-> Zero]
    <3>1. f \in [SUBSET S -> Fractions]
      BY Constants
    <3>2. ASSUME NEW T \in SUBSET S, Cardinality(T) <= 0 PROVE f[T] = Added(w, f, T)
      <4>1. IsFiniteSet(T) /\ Cardinality(T) \in Nat
        BY FS_Subset, FS_CardinalityType
      <4>2. T = {}
        BY <3>2, <4>1, FS_EmptySet
      <4> QED BY <4>2 DEF Added
    <3> HIDE DEF f
    <3> QED BY <2>1, <3>1, <3>2
  <2>2. CASE n # 0
    <3>1. n - 1 \in N /\ n - 1 \in Nat
      <4>1. n - 1 \in 0..n - 1
        BY <2>2
      <4> QED BY <1>2, <4>1
    <3>2. PICK g \in [SUBSET S -> Fractions] : Good(g, n - 1)
      BY <3>1
    <3> DEFINE f == [T \in SUBSET S |-> Added(w, g, T)]
    <3>3. f \in [SUBSET S -> Fractions]
      BY <1>1
    <3>4. ASSUME NEW T \in SUBSET S, Cardinality(T) <= n PROVE f[T] = Added(w, f, T)
      <4>1. CASE T = {}
        BY <4>1 DEF Added
      <4>2. CASE T # {}
        <5> DEFINE U == T \ {Choice(T)}
        <5>1. Choice(T) \in T /\ IsFiniteSet(T)
          BY <4>2, ChoiceIn, FS_Subset
        <5>2. U \in SUBSET S /\ Cardinality(U) <= n - 1
          BY <3>4, <5>1, OneLess
        <5>3. f[U] = g[U]
          BY <3>2, <5>2
        <5> QED BY <4>2, <5>3 DEF Added
      <4> QED BY <4>1, <4>2
    <3> HIDE DEF f
    <3> QED BY <3>3, <3>4
  <2> QED BY <2>1, <2>2
<1> HIDE DEF N
<1>3. \A n \in Nat : n \in N
  BY <1>2, StrongInduction
<1>4. Cardinality(S) \in N
  BY <1>3, FS_CardinalityType
<1>5. PICK f \in [SUBSET S -> Fractions] : Good(f, Cardinality(S))
  BY <1>4 DEF N
<1>6. ASSUME NEW T \in SUBSET S PROVE f[T] = Added(w, f, T)
  BY <1>5, FS_Subset
<1>7. f = [T \in SUBSET S |-> f[T]]
  OBVIOUS
<1>8. f = [T \in SUBSET S |-> Added(w, f, T)]
  BY <1>6, <1>7
<1> QED BY <1>8 DEF Summing

LEMMA SummingUnique ==
  ASSUME NEW S, IsFiniteSet(S), NEW R, NEW w, NEW v, NEW f, NEW g,
         Summing(f, w, S), Summing(g, v, R), \A x \in S \intersect R : w[x] = v[x]
  PROVE  \A T \in SUBSET (S \intersect R) : f[T] = g[T]
<1> DEFINE N == {n \in Nat : \A T \in SUBSET (S \intersect R) : Cardinality(T) = n => f[T] = g[T]}
<1>1. \A T \in SUBSET S : f[T] = Added(w, f, T)
  BY DEF Summing
<1>2. \A T \in SUBSET R : g[T] = Added(v, g, T)
  BY DEF Summing
<1>3. ASSUME NEW n \in Nat, \A j \in 0..n - 1 : j \in N PROVE n \in N
  <2> SUFFICES ASSUME NEW T \in SUBSET (S \intersect R), Cardinality(T) = n PROVE f[T] = g[T]
    OBVIOUS
  <2>1. CASE T = {}
    BY <2>1, <1>1, <1>2 DEF Added
  <2>2. CASE T # {}
    <3> DEFINE U == T \ {Choice(T)}
    <3>1. Choice(T) \in T /\ IsFiniteSet(T)
      BY <2>2, ChoiceIn, FS_Subset
    <3>2. U \in SUBSET (S \intersect R) /\ Cardinality(U) = n - 1 /\ n \in Nat \ {0}
      <4>1. Cardinality(U) = n - 1 /\ IsFiniteSet(U)
        BY <3>1, OneLess
      <4>2. Cardinality(U) \in Nat
        BY <4>1, FS_CardinalityType
      <4> QED BY <4>1, <4>2
    <3>3. f[U] = g[U]
      BY <1>3, <3>2
    <3>4. w[Choice(T)] = v[Choice(T)]
      BY <3>1
    <3>5. T \in SUBSET S /\ T \in SUBSET R
      OBVIOUS
    <3>6. f[T] = Added(w, f, T) /\ g[T] = Added(v, g, T)
      BY <1>1, <1>2, <3>5
    <3> QED BY <2>2, <3>3, <3>4, <3>6 DEF Added
  <2> QED BY <2>1, <2>2
<1> HIDE DEF N
<1>4. \A n \in Nat : n \in N
  BY <1>3, StrongInduction
<1>5. ASSUME NEW T \in SUBSET (S \intersect R) PROVE f[T] = g[T]
  <2>1. Cardinality(T) \in N
    BY <1>4, FS_Subset, FS_CardinalityType
  <2> QED BY <2>1 DEF N
<1> QED BY <1>5

Totals(f, w, S) ==
  /\ f \in [SUBSET S -> Fractions] /\ Summing(f, w, S)
  /\ \A T \in SUBSET S : Total(T, w) = f[T]

LEMMA TotalSums ==
  ASSUME NEW S, IsFiniteSet(S), NEW w, Weighing(w, S)
  PROVE  \E f : Totals(f, w, S)
<1>1. PICK f \in [SUBSET S -> Fractions] : Summing(f, w, S)
  BY SummingExists
<1>2. ASSUME NEW T \in SUBSET S PROVE Total(T, w) = f[T]
  <2>1. IsFiniteSet(T) /\ Weighing(w, T)
    BY FS_Subset DEF Weighing
  <2>2. PICK h : Summing(h, w, T)
    BY <2>1, SummingExists
  <2> DEFINE g == CHOOSE e : Summing(e, w, T)
  <2>3. Summing(g, w, T)
    BY <2>2
  <2>4. Total(T, w) = g[T]
    BY TotalIs
  <2> HIDE DEF g
  <2>5. f[T] = g[T]
    BY <1>1, <2>3, SummingUnique
  <2> QED BY <2>4, <2>5
<1> QED BY <1>1, <1>2 DEF Totals

LEMMA TotalEmpty ==
  ASSUME NEW w
  PROVE  Total({}, w) = Zero
<1>1. IsFiniteSet({}) /\ Weighing(w, {})
  BY FS_EmptySet DEF Weighing
<1>2. PICK f : Totals(f, w, {})
  BY <1>1, TotalSums
<1> QED BY <1>2 DEF Totals, Summing, Added

LEMMA TotalTyped ==
  ASSUME NEW S, IsFiniteSet(S), NEW w, Weighing(w, S)
  PROVE  Total(S, w) \in Fractions
<1>1. PICK f : Totals(f, w, S)
  BY TotalSums
<1> QED BY <1>1 DEF Totals

LEMMA TotalSame ==
  ASSUME NEW S, IsFiniteSet(S), NEW w, NEW v, Weighing(w, S), \A x \in S : w[x] = v[x]
  PROVE  Total(S, w) = Total(S, v)
<1>1. PICK f : Totals(f, w, S)
  BY TotalSums
<1>2. Weighing(v, S)
  BY DEF Weighing
<1>3. PICK g : Totals(g, v, S)
  BY <1>2, TotalSums
<1>4. f[S] = g[S]
  BY <1>1, <1>3, SummingUnique DEF Totals
<1> QED BY <1>1, <1>3, <1>4 DEF Totals

LEMMA TotalStep ==
  ASSUME NEW S, IsFiniteSet(S), NEW w, Weighing(w, S), S # {}
  PROVE  Choice(S) \in S /\ Total(S, w) = Plus(w[Choice(S)], Total(S \ {Choice(S)}, w))
<1>1. PICK f : Totals(f, w, S)
  BY TotalSums
<1>2. f[S] = Added(w, f, S)
  BY <1>1 DEF Totals, Summing
<1>3. Choice(S) \in S
  BY ChoiceIn
<1> QED BY <1>1, <1>2, <1>3 DEF Totals, Added

(* The order does not matter.                                             *)
LEMMA TotalAdds ==
  ASSUME NEW S, IsFiniteSet(S), NEW w, Weighing(w, S), NEW x \in S
  PROVE  Total(S, w) = Plus(w[x], Total(S \ {x}, w))
<1> DEFINE N == {n \in Nat : \A T \in SUBSET S : Cardinality(T) = n =>
                    \A y \in T : Total(T, w) = Plus(w[y], Total(T \ {y}, w))}
<1>1. ASSUME NEW n \in Nat, \A j \in 0..n - 1 : j \in N PROVE n \in N
  <2> SUFFICES ASSUME NEW T \in SUBSET S, Cardinality(T) = n, NEW y \in T
               PROVE  Total(T, w) = Plus(w[y], Total(T \ {y}, w))
    OBVIOUS
  <2> DEFINE c == Choice(T)
             U == T \ {c}
             V == T \ {y}
  <2>1. IsFiniteSet(T) /\ Weighing(w, T)
    BY FS_Subset DEF Weighing
  <2>2. c \in T /\ Total(T, w) = Plus(w[c], Total(U, w))
    BY <2>1, TotalStep
  <2> HIDE DEF c
  <2>3. CASE c = y
    BY <2>2, <2>3
  <2>4. CASE c # y
    <3>1. y \in U /\ c \in V /\ U \ {y} = V \ {c}
      BY <2>2, <2>4
    <3>2. Cardinality(U) = n - 1 /\ Cardinality(V) = n - 1 /\ IsFiniteSet(U) /\ IsFiniteSet(V)
      BY <2>1, <2>2, OneLess
    <3>3. Cardinality(U) \in Nat
      BY <3>2, FS_CardinalityType
    <3>4. n - 1 \in N
      BY <1>1, <3>2, <3>3
    <3>5. Total(U, w) = Plus(w[y], Total(U \ {y}, w)) /\ Total(V, w) = Plus(w[c], Total(V \ {c}, w))
      BY <3>1, <3>2, <3>4
    <3>6. IsFiniteSet(V \ {c}) /\ Weighing(w, V \ {c})
      BY <3>1, <3>2, OneLess DEF Weighing
    <3> DEFINE rest == Total(V \ {c}, w)
    <3>7. rest \in Fractions /\ w[y] \in Fractions /\ w[c] \in Fractions
      BY <2>2, <3>6, TotalTyped DEF Weighing
    <3>8. Total(T, w) = Plus(w[c], Plus(w[y], rest)) /\ Total(V, w) = Plus(w[c], rest)
      BY <2>2, <3>1, <3>5
    <3> HIDE DEF rest
    <3>9. Plus(w[c], Plus(w[y], rest)) = Plus(Plus(w[c], w[y]), rest)
      BY <3>7, PlusAssociates
    <3>10. Plus(Plus(w[c], w[y]), rest) = Plus(Plus(w[y], w[c]), rest)
      BY <3>7, PlusCommutes
    <3>11. Plus(Plus(w[y], w[c]), rest) = Plus(w[y], Plus(w[c], rest))
      BY <3>7, PlusAssociates
    <3> QED BY <3>8, <3>9, <3>10, <3>11
  <2> QED BY <2>3, <2>4
<1> HIDE DEF N
<1>2. \A n \in Nat : n \in N
  BY <1>1, StrongInduction
<1>3. Cardinality(S) \in N
  BY <1>2, FS_CardinalityType
<1> QED BY <1>3 DEF N

LEMMA SubsetInduction ==
  ASSUME NEW S, IsFiniteSet(S), NEW N, {} \in N,
         \A T \in SUBSET S : \A x \in S \ T : T \in N => T \union {x} \in N
  PROVE  S \in N
<1> DEFINE I == {n \in Nat : \A T \in SUBSET S : Cardinality(T) = n => T \in N}
<1>1. ASSUME NEW n \in Nat, \A j \in 0..n - 1 : j \in I PROVE n \in I
  <2> SUFFICES ASSUME NEW T \in SUBSET S, Cardinality(T) = n PROVE T \in N
    OBVIOUS
  <2>1. CASE T = {}
    BY <2>1
  <2>2. CASE T # {}
    <3>1. PICK x : x \in T
      BY <2>2
    <3> DEFINE U == T \ {x}
    <3>2. Cardinality(U) = n - 1 /\ IsFiniteSet(U)
      BY <3>1, OneLess, FS_Subset
    <3>3. n - 1 \in 0..n - 1
      BY <3>2, FS_CardinalityType
    <3>4. U \in N
      BY <1>1, <3>2, <3>3
    <3>5. T = U \union {x} /\ x \in S \ U /\ U \in SUBSET S
      BY <3>1
    <3> HIDE DEF U
    <3> QED BY <3>4, <3>5
  <2> QED BY <2>1, <2>2
<1> HIDE DEF I
<1>2. \A n \in Nat : n \in I
  BY <1>1, StrongInduction
<1>3. Cardinality(S) \in I
  BY <1>2, FS_CardinalityType
<1> QED BY <1>3 DEF I

(* One element more                                                       *)
LEMMA TotalMore ==
  ASSUME NEW T, IsFiniteSet(T), NEW x, x \notin T, NEW w, Weighing(w, T \union {x})
  PROVE  Total(T \union {x}, w) = Plus(w[x], Total(T, w))
<1>1. IsFiniteSet(T \union {x}) /\ x \in T \union {x} /\ (T \union {x}) \ {x} = T
  BY FS_AddElement
<1> QED BY <1>1, TotalAdds

LEMMA TotalPlus ==
  ASSUME NEW S, IsFiniteSet(S), NEW u, NEW v, NEW w, Weighing(u, S), Weighing(v, S),
         \A x \in S : w[x] = Plus(u[x], v[x])
  PROVE  Total(S, w) = Plus(Total(S, u), Total(S, v))
<1> DEFINE N == {T \in SUBSET S : Total(T, w) = Plus(Total(T, u), Total(T, v))}
<1>1. {} \in N
  BY TotalEmpty, PlusZero, Constants
<1>2. ASSUME NEW T \in SUBSET S, NEW x \in S \ T, T \in N PROVE T \union {x} \in N
  <2>1. /\ IsFiniteSet(T)
        /\ Weighing(u, T) /\ Weighing(v, T)
        /\ Weighing(u, T \union {x}) /\ Weighing(v, T \union {x}) /\ Weighing(w, T \union {x})
    BY FS_Subset, ResultsTyped DEF Weighing
  <2>2. /\ Total(T \union {x}, u) = Plus(u[x], Total(T, u))
        /\ Total(T \union {x}, v) = Plus(v[x], Total(T, v))
        /\ Total(T \union {x}, w) = Plus(w[x], Total(T, w))
    BY <2>1, TotalMore
  <2>3. /\ u[x] \in Fractions /\ v[x] \in Fractions /\ w[x] = Plus(u[x], v[x])
        /\ Total(T, u) \in Fractions /\ Total(T, v) \in Fractions
    BY <2>1, TotalTyped DEF Weighing
  <2>4. Total(T, w) = Plus(Total(T, u), Total(T, v))
    BY <1>2
  <2>5. Plus(Plus(u[x], v[x]), Plus(Total(T, u), Total(T, v)))
          = Plus(Plus(u[x], Total(T, u)), Plus(v[x], Total(T, v)))
    BY <2>3, PlusExchanges
  <2>6. Total(T \union {x}, w) = Plus(Total(T \union {x}, u), Total(T \union {x}, v))
    BY <2>2, <2>3, <2>4, <2>5
  <2> QED BY <2>6
<1> HIDE DEF N
<1>3. S \in N
  BY <1>1, <1>2, SubsetInduction
<1> QED BY <1>3 DEF N

LEMMA TotalZero ==
  ASSUME NEW S, IsFiniteSet(S), NEW w, \A x \in S : w[x] = Zero
  PROVE  Total(S, w) = Zero
<1> DEFINE N == {T \in SUBSET S : Total(T, w) = Zero}
<1>1. {} \in N
  BY TotalEmpty
<1>2. ASSUME NEW T \in SUBSET S, NEW x \in S \ T, T \in N PROVE T \union {x} \in N
  <2>1. IsFiniteSet(T) /\ Weighing(w, T \union {x})
    BY FS_Subset, Constants DEF Weighing
  <2>2. Total(T \union {x}, w) = Plus(w[x], Total(T, w))
    BY <2>1, TotalMore
  <2>3. Total(T \union {x}, w) = Zero
    BY <1>2, <2>2, PlusZero, Constants
  <2> QED BY <2>3
<1> HIDE DEF N
<1>3. S \in N
  BY <1>1, <1>2, SubsetInduction
<1> QED BY <1>3 DEF N

LEMMA TotalOfOne ==
  ASSUME NEW S, IsFiniteSet(S), NEW w, NEW x \in S, w[x] \in Fractions, \A y \in S \ {x} : w[y] = Zero
  PROVE  Total(S, w) = w[x]
<1>1. Weighing(w, S)
  BY Constants DEF Weighing
<1>2. IsFiniteSet(S \ {x})
  BY OneLess
<1>3. Total(S \ {x}, w) = Zero
  BY <1>2, TotalZero
<1>4. Total(S, w) = Plus(w[x], Total(S \ {x}, w))
  BY <1>1, TotalAdds
<1> QED BY <1>3, <1>4, PlusZero

LEMMA TotalUnion ==
  ASSUME NEW A, IsFiniteSet(A), NEW B, IsFiniteSet(B), A \intersect B = {},
         NEW w, Weighing(w, A \union B)
  PROVE  Total(A \union B, w) = Plus(Total(A, w), Total(B, w))
<1> DEFINE N == {T \in SUBSET B : Total(A \union T, w) = Plus(Total(A, w), Total(T, w))}
<1>0. Weighing(w, A) /\ Total(A, w) \in Fractions
  <2>1. Weighing(w, A)
    BY DEF Weighing
  <2> QED BY <2>1, TotalTyped
<1>1. {} \in N
  <2>1. Total(A \union {}, w) = Plus(Total(A, w), Total({}, w))
    <3>1. A \union {} = A
      OBVIOUS
    <3> QED BY <1>0, <3>1, TotalEmpty, PlusZero
  <2> QED BY <2>1
<1>2. ASSUME NEW T \in SUBSET B, NEW x \in B \ T, T \in N PROVE T \union {x} \in N
  <2>1. /\ IsFiniteSet(T) /\ IsFiniteSet(A \union T) /\ x \notin T /\ x \notin A \union T
        /\ Weighing(w, T) /\ Weighing(w, T \union {x}) /\ Weighing(w, (A \union T) \union {x})
    BY FS_Subset, FS_Union DEF Weighing
  <2>2. /\ Total(T \union {x}, w) = Plus(w[x], Total(T, w))
        /\ Total((A \union T) \union {x}, w) = Plus(w[x], Total(A \union T, w))
    BY <2>1, TotalMore
  <2>3. /\ w[x] \in Fractions /\ Total(T, w) \in Fractions
        /\ Total(A \union T, w) = Plus(Total(A, w), Total(T, w))
    BY <1>2, <2>1, TotalTyped DEF Weighing
  <2> DEFINE a == Total(A, w)
             t == Total(T, w)
  <2>4. Plus(w[x], Plus(a, t)) = Plus(a, Plus(w[x], t))
    <3> HIDE DEF a, t
    <3>1. a \in Fractions /\ t \in Fractions
      BY <1>0, <2>3 DEF a, t
    <3>2. Plus(w[x], Plus(a, t)) = Plus(Plus(w[x], a), t)
      BY <2>3, <3>1, PlusAssociates
    <3>3. Plus(Plus(w[x], a), t) = Plus(Plus(a, w[x]), t)
      BY <2>3, <3>1, PlusCommutes
    <3>4. Plus(Plus(a, w[x]), t) = Plus(a, Plus(w[x], t))
      BY <2>3, <3>1, PlusAssociates
    <3> QED BY <3>2, <3>3, <3>4
  <2>5. A \union (T \union {x}) = (A \union T) \union {x}
    OBVIOUS
  <2>6. Total(A \union (T \union {x}), w) = Plus(Total(A, w), Total(T \union {x}, w))
    BY <2>2, <2>3, <2>4, <2>5
  <2> QED BY <2>6
<1> HIDE DEF N
<1>3. B \in N
  BY <1>1, <1>2, SubsetInduction
<1> QED BY <1>3 DEF N

LEMMA TotalOfPart ==
  ASSUME NEW S, IsFiniteSet(S), NEW T \in SUBSET S, NEW w, Weighing(w, T),
         \A x \in S \ T : w[x] = Zero
  PROVE  Total(S, w) = Total(T, w)
<1>1. IsFiniteSet(T) /\ IsFiniteSet(S \ T) /\ T \intersect (S \ T) = {} /\ S = T \union (S \ T)
  BY FS_Subset
<1>2. Weighing(w, T \union (S \ T))
  BY Constants DEF Weighing
<1>3. Total(S, w) = Plus(Total(T, w), Total(S \ T, w))
  BY <1>1, <1>2, TotalUnion
<1>4. Total(S \ T, w) = Zero
  BY <1>1, TotalZero
<1> QED BY <1>1, <1>3, <1>4, TotalTyped, PlusZero

(* Two entries for each member                                            *)
LEMMA TotalOfPairs ==
  ASSUME NEW S, IsFiniteSet(S), NEW w, Weighing(w, S \X (1..2)), NEW v,
         \A k \in S : v[k] = Plus(w[<<k, 1>>], w[<<k, 2>>])
  PROVE  Total(S \X (1..2), w) = Total(S, v)
<1> DEFINE N == {T \in SUBSET S : IsFiniteSet(T \X (1..2)) /\ Total(T \X (1..2), w) = Total(T, v)}
<1>1. {} \in N
  <2>1. {} \X (1..2) = {}
    OBVIOUS
  <2> QED BY <2>1, TotalEmpty, FS_EmptySet
<1>2. ASSUME NEW T \in SUBSET S, NEW k \in S \ T, T \in N PROVE T \union {k} \in N
  <2> DEFINE P == T \X (1..2)
             Q == (T \union {k}) \X (1..2)
             a == <<k, 1>>
             b == <<k, 2>>
  <2>1. a # b /\ a \notin P /\ b \notin P /\ b \notin P \union {a}
    OBVIOUS
  <2>2. Q = (P \union {a}) \union {b}
    <3>1. 1..2 = {1, 2}
      OBVIOUS
    <3> QED BY <3>1
  <2>3. Q \subseteq S \X (1..2) /\ k \in S
    OBVIOUS
  <2> HIDE DEF Q
  <2>4. /\ w[a] \in Fractions /\ w[b] \in Fractions
        /\ Weighing(w, P) /\ Weighing(w, P \union {a}) /\ Weighing(w, (P \union {a}) \union {b})
    BY <2>2, <2>3 DEF Weighing
  <2>5. IsFiniteSet(P) /\ Total(P, w) = Total(T, v)
    BY <1>2
  <2>6. IsFiniteSet(P \union {a}) /\ IsFiniteSet(Q)
    <3>1. IsFiniteSet(P \union {a})
      BY <2>5, FS_AddElement
    <3> QED BY <2>2, <3>1, FS_AddElement
  <2>7. /\ IsFiniteSet(T) /\ k \notin T /\ Weighing(v, T \union {k}) /\ v[k] = Plus(w[a], w[b])
    <3>1. \A j \in S : v[j] \in Fractions
      <4> SUFFICES ASSUME NEW j \in S PROVE v[j] \in Fractions
        OBVIOUS
      <4>1. <<j, 1>> \in S \X (1..2) /\ <<j, 2>> \in S \X (1..2)
        OBVIOUS
      <4> QED BY <4>1, ResultsTyped DEF Weighing
    <3> QED BY <3>1, FS_Subset DEF Weighing
  <2> HIDE DEF P, a, b
  <2>8. Total(T \union {k}, v) = Plus(v[k], Total(T, v))
    BY <2>7, TotalMore
  <2>9. Total(P \union {a}, w) = Plus(w[a], Total(P, w))
    BY <2>1, <2>4, <2>5, TotalMore
  <2>10. Total((P \union {a}) \union {b}, w) = Plus(w[b], Total(P \union {a}, w))
    BY <2>1, <2>4, <2>6, TotalMore
  <2>11. Total(P, w) \in Fractions
    BY <2>4, <2>5, TotalTyped
  <2>12. Plus(w[b], Plus(w[a], Total(P, w))) = Plus(Plus(w[b], w[a]), Total(P, w))
    BY <2>4, <2>11, PlusAssociates
  <2>13. Plus(w[b], w[a]) = Plus(w[a], w[b])
    BY <2>4, PlusCommutes
  <2>14. Total(Q, w) = Total(T \union {k}, v)
    BY <2>2, <2>5, <2>7, <2>8, <2>9, <2>10, <2>12, <2>13
  <2> QED BY <2>6, <2>14 DEF Q
<1> HIDE DEF N
<1>3. S \in N
  BY <1>1, <1>2, SubsetInduction
<1> QED BY <1>3 DEF N

-----------------------------------------------------------------------------
(* Sums over lists *)

LEMMA StepInduction ==
  ASSUME NEW S, 0 \in S, \A n \in Nat : n \in S => n + 1 \in S
  PROVE  \A n \in Nat : n \in S
<1>1. ASSUME NEW n \in Nat, \A j \in 0..n - 1 : j \in S PROVE n \in S
  <2>1. CASE n = 0
    BY <2>1
  <2>2. CASE n # 0
    <3>1. n - 1 \in 0..n - 1 /\ n - 1 \in Nat /\ (n - 1) + 1 = n
      BY <2>2
    <3> QED BY <1>1, <3>1
  <2> QED BY <2>1, <2>2
<1> QED BY <1>1, StrongInduction

Entering(s, q, i) == IF i = 0 THEN Zero ELSE Plus(s[i - 1], q[i])
Running(s, q, n) == s = [i \in 0..n |-> Entering(s, q, i)]

LEMMA SumIs ==
  ASSUME NEW q
  PROVE  SumOf(q) = (CHOOSE s : Running(s, q, Len(q)))[Len(q)]
BY DEF SumOf, Running, Entering

(* s is the list of the sums of q up to each of its entries.              *)
Sums(s, q) ==
  /\ s \in [0..Len(q) -> Fractions] /\ s[0] = Zero
  /\ \A i \in 1..Len(q) : s[i] = Plus(s[i - 1], q[i])

LEMMA RunningExists ==
  ASSUME NEW q \in Seq(Fractions)
  PROVE  \E s \in [0..Len(q) -> Fractions] : Running(s, q, Len(q))
<1> DEFINE n == Len(q)
           Good(s, m) == \A i \in 0..n : i <= m => s[i] = Entering(s, q, i)
           S == {m \in Nat : \E s \in [0..n -> Fractions] : Good(s, m)}
<1>0. n \in Nat /\ \A i \in 1..n : q[i] \in Fractions
  OBVIOUS
<1> HIDE DEF n
<1>1. 0 \in S
  <2> DEFINE s == [i \in 0..n |-> Zero]
  <2>1. s \in [0..n -> Fractions] /\ Good(s, 0)
    BY <1>0, Constants DEF Entering
  <2> HIDE DEF s
  <2> QED BY <2>1
<1>2. ASSUME NEW m \in Nat, m \in S PROVE m + 1 \in S
  <2>1. PICK r \in [0..n -> Fractions] : Good(r, m)
    BY <1>2
  <2> DEFINE s == [i \in 0..n |-> Entering(r, q, i)]
  <2>2. s \in [0..n -> Fractions]
    <3> SUFFICES ASSUME NEW i \in 0..n PROVE Entering(r, q, i) \in Fractions
      OBVIOUS
    <3>1. CASE i = 0
      BY <3>1, Constants DEF Entering
    <3>2. CASE i # 0
      <4>1. r[i - 1] \in Fractions /\ q[i] \in Fractions
        BY <1>0, <3>2
      <4> QED BY <3>2, <4>1, ResultsTyped DEF Entering
    <3> QED BY <3>1, <3>2
  <2>3. ASSUME NEW i \in 0..n, i <= m + 1 PROVE s[i] = Entering(s, q, i)
    <3>1. CASE i = 0
      BY <3>1 DEF Entering
    <3>2. CASE i # 0
      <4>1. i - 1 \in 0..n /\ i - 1 <= m
        BY <1>0, <2>3, <3>2
      <4>2. s[i - 1] = r[i - 1]
        BY <2>1, <4>1
      <4> QED BY <3>2, <4>2 DEF Entering
    <3> QED BY <3>1, <3>2
  <2>4. Good(s, m + 1)
    BY <2>3
  <2> HIDE DEF s
  <2>5. \E t \in [0..n -> Fractions] : Good(t, m + 1)
    BY <2>2, <2>4
  <2> HIDE DEF Good
  <2> QED BY <2>5
<1> HIDE DEF S
<1>3. n \in S
  BY <1>0, <1>1, <1>2, StepInduction
<1>4. PICK s \in [0..n -> Fractions] : Good(s, n)
  BY <1>3 DEF S
<1>5. s = [i \in 0..n |-> s[i]]
  OBVIOUS
<1>6. s = [i \in 0..n |-> Entering(s, q, i)]
  BY <1>0, <1>4, <1>5
<1> QED BY <1>6 DEF Running, n

LEMMA SumsExist ==
  ASSUME NEW q \in Seq(Fractions)
  PROVE  \E s : Sums(s, q) /\ SumOf(q) = s[Len(q)]
<1> DEFINE s == CHOOSE r : Running(r, q, Len(q))
<1>1. PICK r \in [0..Len(q) -> Fractions] : Running(r, q, Len(q))
  BY RunningExists
<1>2. Running(s, q, Len(q))
  BY <1>1
<1>3. SumOf(q) = s[Len(q)]
  BY SumIs
<1> HIDE DEF s
<1>4. Len(q) \in Nat
  OBVIOUS
<1>5. s[0] = Zero /\ \A i \in 1..Len(q) : s[i] = Plus(s[i - 1], q[i])
  BY <1>2, <1>4 DEF Running, Entering
<1>6. \A i \in 0..Len(q) : s[i] \in Fractions
  <2> DEFINE S == {i \in Nat : i <= Len(q) => s[i] \in Fractions}
  <2>1. 0 \in S
    BY <1>5, Constants
  <2>2. ASSUME NEW i \in Nat, i \in S PROVE i + 1 \in S
    <3> SUFFICES ASSUME i + 1 <= Len(q) PROVE s[i + 1] \in Fractions
      OBVIOUS
    <3>1. i + 1 \in 1..Len(q) /\ (i + 1) - 1 = i /\ s[i] \in Fractions /\ q[i + 1] \in Fractions
      BY <1>4, <2>2
    <3> QED BY <1>5, <3>1, ResultsTyped
  <2> HIDE DEF S
  <2>3. \A i \in Nat : i \in S
    BY <2>1, <2>2, StepInduction
  <2> QED BY <1>4, <2>3 DEF S
<1>7. DOMAIN s = 0..Len(q) /\ s = [i \in 0..Len(q) |-> s[i]]
  BY <1>2 DEF Running
<1>8. s \in [0..Len(q) -> Fractions]
  BY <1>6, <1>7
<1> QED BY <1>3, <1>5, <1>8 DEF Sums

LEMMA SumTyped ==
  ASSUME NEW q \in Seq(Fractions)
  PROVE  SumOf(q) \in Fractions
<1>1. PICK s : Sums(s, q) /\ SumOf(q) = s[Len(q)]
  BY SumsExist
<1>2. Len(q) \in 0..Len(q)
  OBVIOUS
<1> QED BY <1>1, <1>2 DEF Sums

LEMMA SumEmpty == SumOf(<<>>) = Zero
<1>1. <<>> \in Seq(Fractions) /\ Len(<<>>) = 0
  OBVIOUS
<1>2. PICK s : Sums(s, <<>>) /\ SumOf(<<>>) = s[Len(<<>>)]
  BY <1>1, SumsExist
<1> QED BY <1>1, <1>2 DEF Sums

(* Sums of lists that agree up to i                                       *)
LEMMA SumsAgree ==
  ASSUME NEW q \in Seq(Fractions), NEW r \in Seq(Fractions), NEW s, NEW t, Sums(s, q), Sums(t, r),
         NEW n \in Nat, n <= Len(q), n <= Len(r), \A i \in 1..n : q[i] = r[i]
  PROVE  s[n] = t[n]
<1> DEFINE S == {i \in Nat : i <= n => s[i] = t[i]}
<1>1. 0 \in S
  BY DEF Sums
<1>2. ASSUME NEW i \in Nat, i \in S PROVE i + 1 \in S
  <2> SUFFICES ASSUME i + 1 <= n PROVE s[i + 1] = t[i + 1]
    OBVIOUS
  <2>1. /\ i + 1 \in 1..Len(q) /\ i + 1 \in 1..Len(r) /\ i + 1 \in 1..n /\ (i + 1) - 1 = i
        /\ s[i] = t[i]
    BY <1>2
  <2> QED BY <2>1 DEF Sums
<1> HIDE DEF S
<1>3. n \in S
  BY <1>1, <1>2, StepInduction
<1> QED BY <1>3 DEF S

LEMMA SumAppend ==
  ASSUME NEW q \in Seq(Fractions), NEW x \in Fractions
  PROVE  SumOf(Append(q, x)) = Plus(SumOf(q), x)
<1> DEFINE r == Append(q, x)
           n == Len(q)
<1>1. r \in Seq(Fractions) /\ Len(r) = n + 1 /\ n \in Nat /\ r[n + 1] = x /\ \A i \in 1..n : r[i] = q[i]
  OBVIOUS
<1>2. PICK s : Sums(s, q) /\ SumOf(q) = s[Len(q)]
  BY SumsExist
<1> HIDE DEF r
<1>3. PICK t : Sums(t, r) /\ SumOf(r) = t[Len(r)]
  BY <1>1, SumsExist
<1>4. s[n] = t[n]
  BY <1>1, <1>2, <1>3, SumsAgree
<1>5. t[n + 1] = Plus(t[n], r[n + 1])
  <2>1. n + 1 \in 1..Len(r) /\ (n + 1) - 1 = n
    BY <1>1
  <2> QED BY <1>3, <2>1 DEF Sums
<1> QED BY <1>1, <1>2, <1>3, <1>4, <1>5 DEF r

LEMMA SumPlus ==
  ASSUME NEW q \in Seq(Fractions), NEW r \in Seq(Fractions), NEW u \in Seq(Fractions),
         Len(r) = Len(q), Len(u) = Len(q), \A i \in 1..Len(q) : u[i] = Plus(q[i], r[i])
  PROVE  SumOf(u) = Plus(SumOf(q), SumOf(r))
<1> DEFINE n == Len(q)
<1>1. PICK a : Sums(a, q) /\ SumOf(q) = a[Len(q)]
  BY SumsExist
<1>2. PICK b : Sums(b, r) /\ SumOf(r) = b[Len(r)]
  BY SumsExist
<1>3. PICK c : Sums(c, u) /\ SumOf(u) = c[Len(u)]
  BY SumsExist
<1> DEFINE S == {i \in Nat : i <= n => c[i] = Plus(a[i], b[i])}
<1>4. 0 \in S
  BY <1>1, <1>2, <1>3, PlusZero, Constants DEF Sums
<1>5. ASSUME NEW i \in Nat, i \in S PROVE i + 1 \in S
  <2> SUFFICES ASSUME i + 1 <= n PROVE c[i + 1] = Plus(a[i + 1], b[i + 1])
    OBVIOUS
  <2> DEFINE j == i + 1
  <2>1. /\ j \in 1..Len(q) /\ j \in 1..Len(r) /\ j \in 1..Len(u) /\ j - 1 = i /\ i \in 0..Len(q)
        /\ c[i] = Plus(a[i], b[i])
    BY <1>5
  <2> HIDE DEF j
  <2>2. a[j] = Plus(a[i], q[j]) /\ b[j] = Plus(b[i], r[j]) /\ c[j] = Plus(c[i], u[j])
    BY <1>1, <1>2, <1>3, <2>1 DEF Sums
  <2>3. a[i] \in Fractions /\ b[i] \in Fractions /\ q[j] \in Fractions /\ r[j] \in Fractions
    BY <1>1, <1>2, <2>1 DEF Sums
  <2>4. u[j] = Plus(q[j], r[j])
    BY <2>1
  <2>5. Plus(Plus(a[i], b[i]), Plus(q[j], r[j])) = Plus(Plus(a[i], q[j]), Plus(b[i], r[j]))
    <3> DEFINE w == a[i]
               x == b[i]
               y == q[j]
               z == r[j]
    <3>1. w \in Fractions /\ x \in Fractions /\ y \in Fractions /\ z \in Fractions
      BY <2>3
    <3> HIDE DEF w, x, y, z
    <3>2. Plus(Plus(w, x), Plus(y, z)) = Plus(Plus(w, y), Plus(x, z))
      BY <3>1, PlusExchanges
    <3> QED BY <3>2 DEF w, x, y, z
  <2>6. c[j] = Plus(a[j], b[j])
    BY <2>1, <2>2, <2>4, <2>5
  <2> QED BY <2>6 DEF j
<1> HIDE DEF S
<1>6. n \in Nat
  OBVIOUS
<1>7. n \in S
  BY <1>4, <1>5, <1>6, StepInduction
<1>8. c[n] = Plus(a[n], b[n])
  BY <1>6, <1>7 DEF S
<1> QED BY <1>1, <1>2, <1>3, <1>8

LEMMA SumTimes ==
  ASSUME NEW q \in Seq(Fractions), NEW u \in Seq(Fractions), NEW x \in Fractions,
         Len(u) = Len(q), \A i \in 1..Len(q) : u[i] = Times(q[i], x)
  PROVE  SumOf(u) = Times(SumOf(q), x)
<1> DEFINE n == Len(q)
<1>1. PICK a : Sums(a, q) /\ SumOf(q) = a[Len(q)]
  BY SumsExist
<1>2. PICK c : Sums(c, u) /\ SumOf(u) = c[Len(u)]
  BY SumsExist
<1> DEFINE S == {i \in Nat : i <= n => c[i] = Times(a[i], x)}
<1>3. 0 \in S
  BY <1>1, <1>2, TimesZero DEF Sums
<1>4. ASSUME NEW i \in Nat, i \in S PROVE i + 1 \in S
  <2> SUFFICES ASSUME i + 1 <= n PROVE c[i + 1] = Times(a[i + 1], x)
    OBVIOUS
  <2> DEFINE j == i + 1
  <2>1. /\ j \in 1..Len(q) /\ j \in 1..Len(u) /\ j - 1 = i /\ i \in 0..Len(q)
        /\ c[i] = Times(a[i], x)
    BY <1>4
  <2> HIDE DEF j
  <2>2. a[j] = Plus(a[i], q[j]) /\ c[j] = Plus(c[i], u[j])
    BY <1>1, <1>2, <2>1 DEF Sums
  <2>3. a[i] \in Fractions /\ q[j] \in Fractions
    BY <1>1, <2>1 DEF Sums
  <2>4. u[j] = Times(q[j], x)
    BY <2>1
  <2>5. Times(Plus(a[i], q[j]), x) = Plus(Times(a[i], x), Times(q[j], x))
    BY <2>3, TimesDistributes
  <2>6. c[j] = Times(a[j], x)
    BY <2>1, <2>2, <2>4, <2>5
  <2> QED BY <2>6 DEF j
<1> HIDE DEF S
<1>5. n \in Nat
  OBVIOUS
<1>6. n \in S
  BY <1>3, <1>4, <1>5, StepInduction
<1>7. c[n] = Times(a[n], x)
  BY <1>5, <1>6 DEF S
<1> QED BY <1>1, <1>2, <1>7

-----------------------------------------------------------------------------

(* The supports stay what they are; the lists hold members. *)
OrderTypeOK ==
  /\ model \in Models
  /\ supports = SupportsOf(model)
  /\ phase \in {"order", "transfer", "done"}
  /\ pending \in [Members -> Int]
  /\ order \in Seq(Members)
  /\ ready \in Seq(Members)

(* Every end counts until its member is in the order. *)
Uncounted(r) == {x \in Resting(supports, r) : x[1] \notin Listed(order)}
PendingCountsEnds == \A r \in Members : pending[r] = Cardinality(Uncounted(r))

(* Nothing is pending on exactly the members of the order and of the stack. *)
ReadyWhenFree ==
  \A r \in Members : pending[r] = 0 <=> r \in Listed(order) \union Listed(ready)

Distinct(q) == \A i, j \in DOMAIN q : i # j => q[i] # q[j]
(* The code's guard against members that come up again is never needed. *)
NoneTwice ==
  /\ Distinct(order) /\ Distinct(ready)
  /\ Listed(order) \intersect Listed(ready) = {}

StackEmptied == phase # "order" => ready = <<>>

Inv ==
  /\ OrderTypeOK
  /\ PendingCountsEnds
  /\ ReadyWhenFree
  /\ NoneTwice
  /\ CarriersComeLater
  /\ StackEmptied
-----------------------------------------------------------------------------
(* Sequences and what they list *)

LEMMA ListedAppend ==
  ASSUME NEW S, NEW q \in Seq(S), NEW k \in S
  PROVE  Listed(Append(q, k)) = Listed(q) \union {k}
<1>1. DOMAIN q = 1..Len(q) /\ DOMAIN Append(q, k) = 1..Len(q) + 1
  OBVIOUS
<1>2. \A i \in 1..Len(q) : Append(q, k)[i] = q[i]
  OBVIOUS
<1>3. Append(q, k)[Len(q) + 1] = k
  OBVIOUS
<1>4. 1..Len(q) + 1 = (1..Len(q)) \union {Len(q) + 1}
  OBVIOUS
<1> QED
  BY <1>1, <1>2, <1>3, <1>4 DEF Listed

LEMMA DistinctAppend ==
  ASSUME NEW S, NEW q \in Seq(S), NEW k \in S, Distinct(q), k \notin Listed(q)
  PROVE  Distinct(Append(q, k))
<1>1. DOMAIN q = 1..Len(q) /\ DOMAIN Append(q, k) = 1..Len(q) + 1
  OBVIOUS
<1>2. \A i \in 1..Len(q) : Append(q, k)[i] = q[i]
  OBVIOUS
<1>3. Append(q, k)[Len(q) + 1] = k
  OBVIOUS
<1> QED
  BY <1>1, <1>2, <1>3 DEF Distinct, Listed

(* Popping the last of a list without repetitions leaves the others. *)
LEMMA PoppedRest ==
  ASSUME NEW S, NEW q \in Seq(S), q # <<>>, Distinct(q)
  PROVE  LET rest == SubSeq(q, 1, Len(q) - 1)
         IN  /\ rest \in Seq(S) /\ Distinct(rest)
             /\ q[Len(q)] \in S /\ q[Len(q)] \in Listed(q)
             /\ Listed(rest) = Listed(q) \ {q[Len(q)]}
<1> DEFINE rest == SubSeq(q, 1, Len(q) - 1)
<1>1. Len(q) \in Nat \ {0} /\ DOMAIN q = 1..Len(q)
  OBVIOUS
<1>2. rest \in Seq(S) /\ Len(rest) = Len(q) - 1 /\ DOMAIN rest = 1..Len(q) - 1
  BY <1>1
<1>3. \A i \in 1..Len(q) - 1 : rest[i] = q[i]
  BY <1>1
<1>4. Distinct(rest)
  BY <1>1, <1>2, <1>3 DEF Distinct
<1>5. q[Len(q)] \in S /\ q[Len(q)] \in Listed(q)
  BY <1>1 DEF Listed
<1>6. Listed(rest) = Listed(q) \ {q[Len(q)]}
  <2>1. ASSUME NEW s \in Listed(rest) PROVE s \in Listed(q) \ {q[Len(q)]}
    BY <2>1, <1>1, <1>2, <1>3 DEF Listed, Distinct
  <2>2. ASSUME NEW s \in Listed(q), s # q[Len(q)] PROVE s \in Listed(rest)
    <3>1. PICK i \in 1..Len(q) : s = q[i]
      BY <1>1 DEF Listed
    <3>2. i \in 1..Len(q) - 1
      BY <2>2, <3>1, <1>1
    <3> QED
      BY <3>1, <3>2, <1>2, <1>3 DEF Listed
  <2> QED
    BY <2>1, <2>2
<1> QED
  BY <1>2, <1>4, <1>5, <1>6

LEMMA ListedConcat ==
  ASSUME NEW S, NEW p \in Seq(S), NEW q \in Seq(S)
  PROVE  /\ p \o q \in Seq(S)
         /\ Listed(p \o q) = Listed(p) \union Listed(q)
         /\ Distinct(p) /\ Distinct(q) /\ Listed(p) \intersect Listed(q) = {}
              => Distinct(p \o q)
<1>1. /\ DOMAIN p = 1..Len(p) /\ DOMAIN q = 1..Len(q)
      /\ DOMAIN (p \o q) = 1..Len(p) + Len(q)
      /\ Len(p) \in Nat /\ Len(q) \in Nat
  OBVIOUS
<1>2. \A i \in 1..Len(p) : (p \o q)[i] = p[i]
  OBVIOUS
<1>3. \A i \in 1..Len(q) : (p \o q)[Len(p) + i] = q[i]
  OBVIOUS
<1>4. \A i \in 1..Len(p) + Len(q) :
        i \in 1..Len(p) \/ \E j \in 1..Len(q) : i = Len(p) + j
  <2> SUFFICES ASSUME NEW i \in 1..Len(p) + Len(q), i \notin 1..Len(p)
               PROVE  \E j \in 1..Len(q) : i = Len(p) + j
    OBVIOUS
  <2> WITNESS i - Len(p) \in 1..Len(q)
  <2> QED
    BY <1>1
<1>5. Listed(p \o q) = Listed(p) \union Listed(q)
  <2>1. ASSUME NEW s \in Listed(p \o q) PROVE s \in Listed(p) \union Listed(q)
    <3>1. PICK i \in 1..Len(p) + Len(q) : s = (p \o q)[i]
      BY <1>1 DEF Listed
    <3>2. CASE i \in 1..Len(p)
      BY <3>1, <3>2, <1>1, <1>2 DEF Listed
    <3>3. CASE \E j \in 1..Len(q) : i = Len(p) + j
      BY <3>1, <3>3, <1>1, <1>3 DEF Listed
    <3> QED
      BY <3>2, <3>3, <1>4
  <2>2. \A j \in 1..Len(q) : Len(p) + j \in 1..Len(p) + Len(q)
    BY <1>1
  <2>3. \A j \in 1..Len(p) : j \in 1..Len(p) + Len(q)
    BY <1>1
  <2>4. ASSUME NEW s \in Listed(p) \union Listed(q) PROVE s \in Listed(p \o q)
    BY <2>4, <2>2, <2>3, <1>1, <1>2, <1>3 DEF Listed
  <2> QED
    BY <2>1, <2>4
<1>6. ASSUME Distinct(p), Distinct(q), Listed(p) \intersect Listed(q) = {}
      PROVE  Distinct(p \o q)
  <2> SUFFICES ASSUME NEW i \in 1..Len(p) + Len(q), NEW j \in 1..Len(p) + Len(q), i # j
               PROVE  (p \o q)[i] # (p \o q)[j]
    BY <1>1 DEF Distinct
  <2>1. CASE i \in 1..Len(p) /\ j \in 1..Len(p)
    BY <2>1, <1>1, <1>2, <1>6 DEF Distinct
  <2>2. CASE i \in 1..Len(p) /\ j \notin 1..Len(p)
    <3>1. PICK c \in 1..Len(q) : j = Len(p) + c
      BY <2>2, <1>4
    <3>2. (p \o q)[j] \in Listed(q)
      BY <3>1, <1>1, <1>3 DEF Listed
    <3>3. (p \o q)[i] \in Listed(p)
      BY <2>2, <1>1, <1>2 DEF Listed
    <3> QED
      BY <3>2, <3>3, <1>6
  <2>3. CASE i \notin 1..Len(p) /\ j \in 1..Len(p)
    <3>1. PICK c \in 1..Len(q) : i = Len(p) + c
      BY <2>3, <1>4
    <3>2. (p \o q)[i] \in Listed(q)
      BY <3>1, <1>1, <1>3 DEF Listed
    <3>3. (p \o q)[j] \in Listed(p)
      BY <2>3, <1>1, <1>2 DEF Listed
    <3> QED
      BY <3>2, <3>3, <1>6
  <2>4. CASE i \notin 1..Len(p) /\ j \notin 1..Len(p)
    <3>1. PICK c \in 1..Len(q) : i = Len(p) + c
      BY <2>4, <1>4
    <3>2. PICK d \in 1..Len(q) : j = Len(p) + d
      BY <2>4, <1>4
    <3>3. c # d
      BY <3>1, <3>2
    <3> QED
      BY <3>1, <3>2, <3>3, <1>1, <1>3, <1>6 DEF Distinct
  <2> QED
    BY <2>1, <2>2, <2>3, <2>4
<1> QED
  BY <1>1, <1>5, <1>6

LEMMA AscendingLists ==
  ASSUME NEW S \in SUBSET Nat, IsFiniteSet(S), NEW q \in Ascending(S)
  PROVE  q \in Seq(S) /\ Listed(q) = S /\ Distinct(q)
<1>1. Cardinality(S) \in Nat
  BY FS_CardinalityType
<1>2. q \in [1..Cardinality(S) -> S] /\ Listed(q) = S
  BY DEF Ascending
<1>3. q \in Seq(S)
  BY <1>1, <1>2
<1>4. Distinct(q)
  <2> SUFFICES ASSUME NEW i \in DOMAIN q, NEW j \in DOMAIN q, i # j
               PROVE  q[i] # q[j]
    BY DEF Distinct
  <2>1. i \in Int /\ j \in Int /\ q[i] \in Nat /\ q[j] \in Nat
    <3>1. DOMAIN q = 1..Cardinality(S) /\ q[i] \in S /\ q[j] \in S
      BY <1>2
    <3>2. i \in 1..Cardinality(S) /\ j \in 1..Cardinality(S)
      BY <3>1
    <3>3. i \in Int /\ j \in Int
      BY <3>2, <1>1
    <3>4. q[i] \in Nat /\ q[j] \in Nat
      BY <3>1
    <3> QED
      BY <3>3, <3>4
  <2>2. \A c, d \in DOMAIN q : c < d => q[c] < q[d]
    BY DEF Ascending
  <2>3. CASE i < j
    BY <2>1, <2>2, <2>3
  <2>4. CASE j < i
    BY <2>1, <2>2, <2>4
  <2> QED
    BY <2>1, <2>3, <2>4
<1> QED
  BY <1>2, <1>3, <1>4
-----------------------------------------------------------------------------
(* Ends *)

LEMMA EndsAreTwo == Ends = {1, 2} /\ IsFiniteSet(Ends)
<1>1. Ends = {1, 2}
  BY DEF Ends
<1>2. IsFiniteSet({}) /\ IsFiniteSet({} \union {1})
  BY FS_EmptySet, FS_AddElement
<1>3. IsFiniteSet(({} \union {1}) \union {2})
  BY <1>2, FS_AddElement
<1>4. ({} \union {1}) \union {2} = {1, 2}
  OBVIOUS
<1> QED
  BY <1>1, <1>3, <1>4

(* What a model's lists hold.                                             *)
LEMMA MemberFacts ==
  ASSUME NEW m, WellFormed(m)
  PROVE  /\ DOMAIN m.members = 1..Len(m.members) /\ Len(m.members) \in Nat
         /\ \A i \in 1..Len(m.members) :
              /\ m.members[i].id \in Nat
              /\ m.members[i].a \in Points /\ m.members[i].b \in Points
              /\ m.members[i].cantilever \in BOOLEAN
              /\ m.members[i].shares \in (Fractions \X Fractions) \union {None}
              /\ m.members[i].loads \in Seq(Loads)
<1>1. m.members \in Seq(MemberRecords)
  BY DEF WellFormed
<1>2. /\ DOMAIN m.members = 1..Len(m.members) /\ Len(m.members) \in Nat
      /\ \A i \in 1..Len(m.members) : m.members[i] \in MemberRecords
  BY <1>1
<1> DEFINE lists == Seq(Loads)
           either == (Fractions \X Fractions) \union {None}
<1>3. MemberRecords = [id : Nat, a : Points, b : Points, cantilever : BOOLEAN,
                       shares : either, loads : lists]
  BY DEF MemberRecords
<1> HIDE DEF lists, either
<1>4. ASSUME NEW x \in MemberRecords
      PROVE  /\ x.id \in Nat /\ x.a \in Points /\ x.b \in Points /\ x.cantilever \in BOOLEAN
             /\ x.shares \in either /\ x.loads \in lists
  BY <1>3
<1> QED BY <1>2, <1>4 DEF lists, either

LEMMA IdsFinite ==
  ASSUME NEW m, WellFormed(m)
  PROVE  Ids(m) \in SUBSET Nat /\ IsFiniteSet(Ids(m))
<1>1. /\ DOMAIN m.members = 1..Len(m.members) /\ Len(m.members) \in Nat
      /\ \A i \in 1..Len(m.members) : m.members[i].id \in Nat
  BY MemberFacts
<1>2. Axes(m) \in SUBSET (1..Len(m.members)) /\ IsFiniteSet(Axes(m))
  <2>1. IsFiniteSet(1..Len(m.members))
    BY <1>1, FS_Interval
  <2>2. Axes(m) \in SUBSET (1..Len(m.members))
    BY <1>1 DEF Axes
  <2> QED BY <2>1, <2>2, FS_Subset
<1> DEFINE id == [i \in Axes(m) |-> m.members[i].id]
<1>3. id \in [Axes(m) -> Ids(m)] /\ Ids(m) \in SUBSET Nat
  BY <1>1, <1>2 DEF Ids
<1>4. id \in Surjection(Axes(m), Ids(m))
  BY <1>3 DEF Surjection, Ids
<1> HIDE DEF id
<1> QED BY <1>2, <1>3, <1>4, FS_Surjection

LEMMA MembersFinite ==
  ASSUME OrderTypeOK
  PROVE  Members \in SUBSET Nat /\ IsFiniteSet(Members)
<1>1. Members = Ids(model)
  BY DEF OrderTypeOK, Members, SupportsOf
<1> QED
  BY <1>1, IdsFinite, ModelsAssumption DEF OrderTypeOK, ModelsAssumption

(* The ends of a member on a carrier, as pairs of the member and the end. *)
FromMember(k, r) == {x \in Resting(supports, r) : x[1] = k}

LEMMA RestingFinite ==
  ASSUME OrderTypeOK, NEW r
  PROVE  IsFiniteSet(Resting(supports, r))
<1>1. IsFiniteSet(Members \X Ends)
  BY MembersFinite, EndsAreTwo, FS_Product
<1>2. Resting(supports, r) \in SUBSET (Members \X Ends)
  BY DEF Resting, Members
<1> QED
  BY <1>1, <1>2, FS_Subset

LEMMA EndsCounted ==
  ASSUME OrderTypeOK, NEW k \in Members, NEW r
  PROVE  Cardinality(FromMember(k, r)) = Cardinality(EndsOn(k, r))
<1>1. IsFiniteSet(EndsOn(k, r))
  BY EndsAreTwo, FS_Subset DEF EndsOn
<1> DEFINE pair == [e \in EndsOn(k, r) |-> <<k, e>>]
<1>2. \A e \in EndsOn(k, r) : <<k, e>> \in FromMember(k, r)
  BY DEF EndsOn, FromMember, Resting, Members
<1>3. \A x \in FromMember(k, r) : x[2] \in EndsOn(k, r) /\ x = <<k, x[2]>>
  BY DEF EndsOn, FromMember, Resting, Members
<1>4. pair \in Bijection(EndsOn(k, r), FromMember(k, r))
  <2>1. pair \in [EndsOn(k, r) -> FromMember(k, r)]
    BY <1>2
  <2>2. \A d, e \in EndsOn(k, r) : pair[d] = pair[e] => d = e
    OBVIOUS
  <2>3. \A x \in FromMember(k, r) : \E e \in EndsOn(k, r) : pair[e] = x
    BY <1>3
  <2> QED
    BY <2>1, <2>2, <2>3 DEF Bijection, Injection, Surjection, IsInjective
<1>5. ExistsBijection(EndsOn(k, r), FromMember(k, r))
  BY <1>4 DEF ExistsBijection
<1> QED
  BY <1>1, <1>5, FS_Bijection

LEMMA EndsOnFinite ==
  ASSUME NEW k, NEW r
  PROVE  /\ Cardinality(EndsOn(k, r)) \in Nat
         /\ Cardinality(EndsOn(k, r)) = 0 <=> ~RestsOn(k, r)
<1>1. IsFiniteSet(EndsOn(k, r))
  BY EndsAreTwo, FS_Subset DEF EndsOn
<1> QED
  BY <1>1, FS_CardinalityType, FS_EmptySet DEF RestsOn
-----------------------------------------------------------------------------
(* The invariant *)

LEMMA InitInv == Init => Inv
<1> SUFFICES ASSUME Init PROVE Inv
  OBVIOUS
<1> DEFINE Nothing == {r \in Members : pending[r] = 0}
<1>1. model \in Models /\ supports = SupportsOf(model) /\ Members = Ids(model)
  BY DEF Init, Members, SupportsOf
<1>2. Members \in SUBSET Nat /\ IsFiniteSet(Members)
  BY <1>1, IdsFinite, ModelsAssumption DEF ModelsAssumption
<1>3. IsFiniteSet(Nothing) /\ Nothing \in SUBSET Nat
  BY <1>2, FS_Subset
<1>4. ready \in Seq(Nothing) /\ Listed(ready) = Nothing /\ Distinct(ready)
  BY <1>3, AscendingLists DEF Init
<1>5. ready \in Seq(Members)
  BY <1>4
<1>6. order = <<>> /\ Listed(order) = {}
  BY DEF Init, Listed
<1>7. \A r : IsFiniteSet(Resting(supports, r)) /\ Uncounted(r) = Resting(supports, r)
  <2>1. IsFiniteSet(Members \X Ends)
    BY <1>2, EndsAreTwo, FS_Product
  <2> TAKE r
  <2>2. Resting(supports, r) \in SUBSET (Members \X Ends)
    BY DEF Resting, Members
  <2> QED
    BY <2>1, <2>2, FS_Subset, <1>6 DEF Uncounted
<1>8. pending \in [Members -> Int] /\ PendingCountsEnds
  BY <1>7, FS_CardinalityType DEF Init, PendingCountsEnds
<1>9. OrderTypeOK
  BY <1>1, <1>5, <1>6, <1>8 DEF OrderTypeOK, Init
<1>10. ReadyWhenFree /\ NoneTwice
  BY <1>4, <1>6 DEF ReadyWhenFree, NoneTwice, Distinct
<1>11. CarriersComeLater /\ StackEmptied
  BY <1>6 DEF CarriersComeLater, StackEmptied, Init
<1> QED
  BY <1>8, <1>9, <1>10, <1>11 DEF Inv

LEMMA PopInv == Inv /\ PopReady => Inv'
<1> SUFFICES ASSUME Inv, PopReady PROVE Inv'
  OBVIOUS
<1> USE DEF Inv
<1> DEFINE k == ready[Len(ready)]
           rest == SubSeq(ready, 1, Len(ready) - 1)
<1>1. /\ rest \in Seq(Members) /\ Distinct(rest)
      /\ k \in Members /\ k \in Listed(ready) /\ k \notin Listed(order)
      /\ Listed(rest) = Listed(ready) \ {k}
  BY PoppedRest DEF PopReady, OrderTypeOK, NoneTwice
<1>2. /\ order' = Append(order, k) /\ pending' = CountedOff(k)
      /\ supports' = supports /\ model' = model /\ phase' = phase /\ phase = "order"
  BY DEF PopReady
<1>3. PICK next \in Ascending(Released(k)) : ready' = rest \o next
  BY DEF PopReady
<1>4. Members' = Members
  BY <1>2 DEF Members
<1>5. \A r \in Members : /\ IsFiniteSet(Uncounted(r))
                         /\ FromMember(k, r) \in SUBSET Uncounted(r)
  <2> TAKE r \in Members
  <2>1. Uncounted(r) \in SUBSET Resting(supports, r)
    BY DEF Uncounted
  <2>2. IsFiniteSet(Uncounted(r))
    BY <2>1, RestingFinite, FS_Subset
  <2> QED
    BY <2>2, <1>1 DEF FromMember, Uncounted
<1>6. Uncounted(k) = {}
  <2>1. pending[k] = 0
    BY <1>1 DEF ReadyWhenFree
  <2> QED
    BY <2>1, <1>1, <1>5, FS_EmptySet DEF PendingCountsEnds
<1>7. Listed(order') = Listed(order) \union {k} /\ order' \in Seq(Members) /\ Distinct(order')
  <2>1. order \in Seq(Members) /\ Distinct(order)
    BY DEF OrderTypeOK, NoneTwice
  <2> QED
    BY <2>1, <1>1, <1>2, ListedAppend, DistinctAppend
<1>8. \A r \in Members : /\ pending'[r] = pending[r] - Cardinality(EndsOn(k, r))
                         /\ Cardinality(EndsOn(k, r)) \in Nat
                         /\ Cardinality(EndsOn(k, r)) = 0 <=> ~RestsOn(k, r)
                         /\ pending[r] \in Int
  BY <1>2, EndsOnFinite DEF CountedOff, OrderTypeOK
<1>9. \A r \in Members : pending'[r] = Cardinality(Uncounted(r)')
  <2> TAKE r \in Members
  <2>1. Uncounted(r)' = Uncounted(r) \ FromMember(k, r)
    BY <1>2, <1>7 DEF Uncounted, FromMember
  <2>2. Uncounted(r) \intersect FromMember(k, r) = FromMember(k, r)
    BY <1>5
  <2>3. Cardinality(Uncounted(r)') = Cardinality(Uncounted(r)) - Cardinality(FromMember(k, r))
    BY <2>1, <2>2, <1>5, FS_Difference
  <2>4. Cardinality(FromMember(k, r)) = Cardinality(EndsOn(k, r))
    BY <1>1, EndsCounted
  <2>5. pending[r] = Cardinality(Uncounted(r))
    BY DEF PendingCountsEnds
  <2> QED
    BY <2>3, <2>4, <2>5, <1>8
<1>10. \A r \in Members : RestsOn(k, r) => r \notin Listed(order) \union Listed(ready)
  <2> SUFFICES ASSUME NEW r \in Members, RestsOn(k, r)
               PROVE  pending[r] # 0
    BY DEF ReadyWhenFree
  <2>1. Uncounted(r) # {}
    <3>1. PICK e \in Ends : e \in EndsOn(k, r)
      BY DEF RestsOn, EndsOn
    <3>2. <<k, e>> \in Uncounted(r)
      BY <3>1, <1>1 DEF EndsOn, Uncounted, Resting, Members
    <3> QED
      BY <3>2
  <2> QED
    BY <2>1, <1>5, FS_EmptySet DEF PendingCountsEnds
<1>11. /\ Released(k) = {r \in Members : RestsOn(k, r) /\ pending'[r] = 0}
       /\ Released(k) \in SUBSET Nat /\ IsFiniteSet(Released(k))
  <2>1. Released(k) = {r \in Members : RestsOn(k, r) /\ pending'[r] = 0}
    BY <1>2 DEF Released
  <2> QED
    BY <2>1, MembersFinite, FS_Subset
<1>12. next \in Seq(Members) /\ Listed(next) = Released(k) /\ Distinct(next)
  <2>1. next \in Seq(Released(k)) /\ Listed(next) = Released(k) /\ Distinct(next)
    BY <1>11, AscendingLists
  <2> QED
    BY <2>1, <1>11
<1>13. Listed(rest) \intersect Listed(next) = {}
  BY <1>1, <1>10, <1>11, <1>12
<1>14. /\ ready' \in Seq(Members) /\ Distinct(ready')
       /\ Listed(ready') = Listed(rest) \union Released(k)
  <2>1. /\ rest \o next \in Seq(Members)
        /\ Listed(rest \o next) = Listed(rest) \union Listed(next)
        /\ Distinct(rest) /\ Distinct(next) /\ Listed(rest) \intersect Listed(next) = {}
             => Distinct(rest \o next)
    <3> HIDE DEF rest
    <3> QED
      BY <1>1, <1>12, ListedConcat
  <2> QED
    BY <2>1, <1>1, <1>3, <1>12, <1>13
<1>15. OrderTypeOK'
  <2>1. pending' \in [Members -> Int]
    BY <1>2, <1>8 DEF CountedOff
  <2> QED
    BY <2>1, <1>2, <1>4, <1>7, <1>14 DEF OrderTypeOK
<1>16. PendingCountsEnds'
  BY <1>4, <1>9 DEF PendingCountsEnds
<1>17. ReadyWhenFree'
  <2> SUFFICES ASSUME NEW r \in Members
               PROVE  pending'[r] = 0 <=> r \in Listed(order') \union Listed(ready')
    BY <1>4 DEF ReadyWhenFree, Listed
  <2>1. CASE RestsOn(k, r)
    BY <2>1, <1>1, <1>7, <1>10, <1>11, <1>14
  <2>2. CASE ~RestsOn(k, r)
    <3>1. pending'[r] = pending[r]
      BY <2>2, <1>8
    <3>2. r \in Listed(order') \union Listed(ready') <=> r \in Listed(order) \union Listed(ready)
      BY <2>2, <1>1, <1>7, <1>11, <1>14
    <3> QED
      BY <3>1, <3>2 DEF ReadyWhenFree
  <2> QED
    BY <2>1, <2>2
<1>18. NoneTwice'
  <2>1. ~RestsOn(k, k)
    BY <1>1, <1>10
  <2>2. Listed(order') \intersect Listed(ready') = {}
    BY <2>1, <1>1, <1>7, <1>10, <1>11, <1>14 DEF NoneTwice
  <2> QED
    BY <2>2, <1>7, <1>14 DEF NoneTwice, Listed, Distinct
<1>19. CarriersComeLater'
  <2>1. order \in Seq(Members) /\ DOMAIN order = 1..Len(order) /\ Len(order) \in Nat
    BY DEF OrderTypeOK
  <2>2. DOMAIN order' = 1..Len(order) + 1 /\ order'[Len(order) + 1] = k
    BY <1>2, <2>1
  <2>3. \A i \in 1..Len(order) : order'[i] = order[i]
    BY <1>2, <2>1
  <2>4. \A m, r : RestsOn(m, r)' <=> RestsOn(m, r)
    BY <1>2 DEF RestsOn, EndsOn
  <2> SUFFICES ASSUME NEW j \in 1..Len(order) + 1, NEW m \in Members, RestsOn(m, order'[j])
               PROVE  \E i \in 1..j - 1 : order'[i] = m
    BY <1>4, <2>2, <2>4 DEF CarriersComeLater
  <2>5. CASE j \in 1..Len(order)
    <3>1. PICK i \in 1..j - 1 : order[i] = m
      BY <2>1, <2>3, <2>5 DEF CarriersComeLater
    <3> QED
      BY <3>1, <2>1, <2>3, <2>5
  <2>6. CASE j = Len(order) + 1
    <3>1. PICK e \in Ends : e \in EndsOn(m, k)
      BY <2>2, <2>6 DEF RestsOn, EndsOn
    <3>2. <<m, e>> \in Resting(supports, k)
      BY <3>1 DEF EndsOn, Resting, Members
    <3>3. m \in Listed(order)
      BY <3>2, <1>6 DEF Uncounted
    <3>4. PICK i \in 1..Len(order) : order[i] = m
      BY <3>3, <2>1 DEF Listed
    <3> QED
      BY <3>4, <2>1, <2>3, <2>6
  <2> QED
    BY <2>5, <2>6, <2>1
<1>20. StackEmptied'
  BY <1>2 DEF StackEmptied
<1> QED
  BY <1>15, <1>16, <1>17, <1>18, <1>19, <1>20

LEMMA OrderStays ==
  ASSUME Inv, UNCHANGED <<model, supports, pending, ready, order>>,
         phase' \in {"order", "transfer", "done"}, phase' # "order" => ready = <<>>
  PROVE  Inv'
<1>1. OrderTypeOK'
  BY DEF Inv, OrderTypeOK, Members
<1>2. PendingCountsEnds' /\ ReadyWhenFree' /\ NoneTwice'
  <2>1. PendingCountsEnds'
    <3>1. \A r : Uncounted(r)' = Uncounted(r)
      BY DEF Uncounted, Listed
    <3> QED
      BY <3>1 DEF Inv, PendingCountsEnds, Members
  <2>2. ReadyWhenFree'
    BY DEF Inv, ReadyWhenFree, Members, Listed
  <2>3. NoneTwice'
    BY DEF Inv, NoneTwice, Listed, Distinct
  <2> QED
    BY <2>1, <2>2, <2>3
<1>3. CarriersComeLater' /\ StackEmptied'
  BY DEF Inv, CarriersComeLater, StackEmptied, RestsOn, EndsOn, Members
<1> QED
  BY <1>1, <1>2, <1>3 DEF Inv

LEMMA NextInv == Inv /\ [Next]_vars => Inv'
<1> SUFFICES ASSUME Inv, [Next]_vars PROVE Inv'
  OBVIOUS
<1>1. CASE PopReady
  BY <1>1, PopInv
<1>2. CASE Ordered
  BY <1>2, OrderStays DEF Ordered
<1>3. CASE SkipMember
  BY <1>3, OrderStays DEF SkipMember, Inv, StackEmptied
<1>4. CASE TransferMember
  BY <1>4, OrderStays DEF TransferMember, Inv, StackEmptied
<1>5. CASE Emit
  BY <1>5, OrderStays DEF Emit, Inv, StackEmptied
<1>6. CASE UNCHANGED vars
  BY <1>6, OrderStays DEF vars, Inv, StackEmptied, OrderTypeOK
<1> QED
  BY <1>1, <1>2, <1>3, <1>4, <1>5, <1>6 DEF Next
-----------------------------------------------------------------------------
(* Theorems about the order *)

\* The order is made as InitInv and NextInv say, whatever model is analysed.
THEOREM OrderInvariant == Spec => []Inv
<1> QED
  BY InitInv, NextInv, PTL DEF Spec

\* A member's turn comes after the turn of every member that rests on it
\* (transfer_order, cascade.rs:599-645).
THEOREM CarriersLater == Spec => []CarriersComeLater
<1>1. Inv => CarriersComeLater
  BY DEF Inv
<1> QED
  BY <1>1, OrderInvariant, PTL

\* No member comes up twice: the check of `done` (cascade.rs:628) always succeeds.
THEOREM TurnsOnce == Spec => []NoneTwice
<1>1. Inv => NoneTwice
  BY DEF Inv
<1> QED
  BY <1>1, OrderInvariant, PTL

\* A member that is left out carries another that is left out (cascade.rs:643).
THEOREM OnlyRingsLeftOut == Spec => []LeftOutForARing
<1>1. Inv => LeftOutForARing
  <2> SUFFICES ASSUME Inv, phase # "order", NEW r \in Cyclic
               PROVE  \E k \in Cyclic : RestsOn(k, r)
    BY DEF LeftOutForARing
  <2>1. r \in Members /\ r \notin Listed(order) /\ Listed(ready) = {}
    BY DEF Inv, StackEmptied, Cyclic, Listed
  <2>2. Cardinality(Uncounted(r)) # 0
    BY <2>1 DEF Inv, ReadyWhenFree, PendingCountsEnds
  <2>3. PICK x : x \in Uncounted(r)
    BY <2>2, FS_EmptySet
  <2>4. x[1] \in Cyclic /\ x[2] \in EndsOn(x[1], r)
    BY <2>3 DEF Uncounted, Resting, Cyclic, EndsOn, Members
  <2> QED
    BY <2>4 DEF RestsOn
<1> QED
  BY <1>1, OrderInvariant, PTL
-----------------------------------------------------------------------------
(* Where the ends of joists and posts are *)

LEMMA AxisOf ==
  ASSUME NEW m, WellFormed(m), NEW k \in Ids(m)
  PROVE  \E i \in Axes(m) : Axis(m, k) = m.members[i] /\ m.members[i].id = k
BY DEF Ids, Axis

LEMMA AxisIs ==
  ASSUME NEW m, WellFormed(m), NEW i \in Axes(m)
  PROVE  m.members[i].id \in Ids(m) /\ Axis(m, m.members[i].id) = m.members[i]
<1>1. m.members[i].id \in Ids(m)
  BY DEF Ids
<1>2. PICK j \in Axes(m) : Axis(m, m.members[i].id) = m.members[j] /\ m.members[j].id = m.members[i].id
  BY <1>1, AxisOf
<1>3. i = j
  BY <1>2 DEF WellFormed, Axes
<1> QED BY <1>1, <1>2, <1>3

LEMMA AxisFacts ==
  ASSUME NEW m, WellFormed(m), NEW k \in Ids(m)
  PROVE  LET x == Axis(m, k)
         IN  /\ x.a \in Points /\ x.b \in Points /\ x.a # x.b
             /\ x.cantilever \in BOOLEAN
             /\ x.shares \in (Fractions \X Fractions) \union {None}
             /\ x.loads \in Seq(Loads)
<1>1. PICK i \in Axes(m) : Axis(m, k) = m.members[i]
  BY AxisOf
<1>2. i \in 1..Len(m.members) /\ m.members[i].a # m.members[i].b
  BY MemberFacts DEF Axes
<1> QED BY <1>1, <1>2, MemberFacts

LEMMA LeastExists ==
  ASSUME NEW S \in SUBSET Nat, S # {}
  PROVE  LET i == CHOOSE i \in S : \A j \in S : i <= j
         IN  i \in S /\ \A j \in S : i <= j
<1> DEFINE N == {n \in Nat : n \in S => \E i \in S : \A j \in S : i <= j}
<1>1. ASSUME NEW n \in Nat, \A j \in 0..n - 1 : j \in N PROVE n \in N
  <2> SUFFICES ASSUME n \in S PROVE \E i \in S : \A j \in S : i <= j
    OBVIOUS
  <2>1. CASE \A j \in S : n <= j
    BY <2>1
  <2>2. CASE ~ \A j \in S : n <= j
    <3>1. PICK j \in S : j < n
      BY <2>2
    <3>2. j \in 0..n - 1
      BY <3>1
    <3> QED BY <1>1, <3>2
  <2> QED BY <2>1, <2>2
<1> HIDE DEF N
<1>2. \A n \in Nat : n \in N
  BY <1>1, StrongInduction
<1>3. \E i \in S : \A j \in S : i <= j
  BY <1>2 DEF N
<1> QED BY <1>3

LEMMA PointFacts ==
  ASSUME NEW p \in Points
  PROVE  /\ p[1] \in Int /\ p[2] \in Int /\ p[3] \in Int /\ p = <<p[1], p[2], p[3]>>
         /\ \A d \in 1..3 : p[d] \in Int /\ Whole(p[d]) \in Fractions
<1>1. p[1] \in Int /\ p[2] \in Int /\ p[3] \in Int /\ p = <<p[1], p[2], p[3]>>
  BY DEF Points
<1>2. \A d \in 1..3 : d = 1 \/ d = 2 \/ d = 3
  OBVIOUS
<1>3. \A d \in 1..3 : p[d] \in Int
  BY <1>1, <1>2
<1> QED BY <1>1, <1>3, WholeIsFrac

LEMMA SquaresPositive ==
  ASSUME NEW v1 \in Int, NEW v2 \in Int, NEW v3 \in Int, v1 # 0 \/ v2 # 0 \/ v3 # 0
  PROVE  v1 * v1 + v2 * v2 + v3 * v3 \in Positive
<1>1. \A v \in Int : v * v \in Nat /\ (v # 0 => v * v \in Positive)
  <2> SUFFICES ASSUME NEW v \in Int PROVE v * v \in Nat /\ (v # 0 => v * v \in Positive)
    OBVIOUS
  <2>1. CASE v > 0
    BY <2>1 DEF Positive
  <2>2. CASE v < 0
    <3>1. v * v = (-v) * (-v) /\ -v > 0
      BY <2>2
    <3> QED BY <3>1 DEF Positive
  <2>3. CASE v = 0
    BY <2>3
  <2> QED BY <2>1, <2>2, <2>3
<1>2. v1 * v1 \in Nat /\ v2 * v2 \in Nat /\ v3 * v3 \in Nat
  BY <1>1
<1>3. v1 * v1 \in Positive \/ v2 * v2 \in Positive \/ v3 * v3 \in Positive
  BY <1>1
<1> QED BY <1>2, <1>3 DEF Positive

LEMMA WayIs ==
  ASSUME NEW a \in Points, NEW b \in Points
  PROVE  \A d \in 1..3 : Way(a, b)[d] = b[d] - a[d] /\ Way(a, b)[d] \in Int
BY PointFacts DEF Way

(* The point of a segment at its position is that point.                  *)
LEMMA PositionIsExact ==
  ASSUME NEW a \in Points, NEW b \in Points, NEW p \in Points, OnSegment(p, a, b)
  PROVE  Position(p, a, b) \in Fractions /\ PointOn(a, b, Position(p, a, b)) = Exactly(p)
<1> DEFINE u == Way(a, p)
           v == Way(a, b)
           n == Dot(u, v)
           q == Dot(v, v)
           t == Position(p, a, b)
<1>1. /\ u[1] \in Int /\ u[2] \in Int /\ u[3] \in Int /\ v[1] \in Int /\ v[2] \in Int /\ v[3] \in Int
      /\ \A d \in 1..3 : u[d] = p[d] - a[d] /\ v[d] = b[d] - a[d] /\ u[d] \in Int /\ v[d] \in Int
  BY WayIs
<1>2. \A c, d \in 1..3 : u[c] * v[d] = u[d] * v[c]
  BY DEF OnSegment, Parallel
<1>3. v[1] # 0 \/ v[2] # 0 \/ v[3] # 0
  <2>1. a # b
    BY DEF OnSegment
  <2>2. a[1] # b[1] \/ a[2] # b[2] \/ a[3] # b[3]
    BY <2>1, PointFacts
  <2>3. v[1] = b[1] - a[1] /\ v[2] = b[2] - a[2] /\ v[3] = b[3] - a[3]
    BY <1>1
  <2> HIDE DEF v
  <2> QED BY <2>2, <2>3, PointFacts
<1> HIDE DEF u, v
<1>4. q \in Positive /\ q \in NonZero /\ q \in Int /\ n \in Int
  <2>1. q \in Positive
    BY <1>1, <1>3, SquaresPositive DEF Dot
  <2>2. n \in Int
    BY <1>1 DEF Dot
  <2> QED BY <2>1, <2>2 DEF Positive, NonZero
<1>5. \A d \in 1..3 : n * v[d] = u[d] * q
  <2> SUFFICES ASSUME NEW d \in 1..3 PROVE n * v[d] = u[d] * q
    OBVIOUS
  <2>1. u[1] * v[d] = u[d] * v[1] /\ u[2] * v[d] = u[d] * v[2] /\ u[3] * v[d] = u[d] * v[3]
    BY <1>2
  <2>2. u[d] \in Int /\ v[d] \in Int
    BY <1>1
  <2> DEFINE u1 == u[1]  u2 == u[2]  u3 == u[3]  v1 == v[1]  v2 == v[2]  v3 == v[3]  ud == u[d]  vd == v[d]
  <2>3. /\ u1 \in Int /\ u2 \in Int /\ u3 \in Int /\ v1 \in Int /\ v2 \in Int /\ v3 \in Int
        /\ ud \in Int /\ vd \in Int /\ u1 * vd = ud * v1 /\ u2 * vd = ud * v2 /\ u3 * vd = ud * v3
    BY <1>1, <2>1, <2>2
  <2>4. n = u1 * v1 + u2 * v2 + u3 * v3 /\ q = v1 * v1 + v2 * v2 + v3 * v3
    BY DEF Dot
  <2> HIDE DEF u1, u2, u3, v1, v2, v3, ud, vd, n, q
  <2>5. n * vd = ud * q
    <3>1. (u1 * v1 + u2 * v2 + u3 * v3) * vd = ud * (v1 * v1 + v2 * v2 + v3 * v3)
      <4>1. (u1 * vd) * v1 = (ud * v1) * v1 /\ (u2 * vd) * v2 = (ud * v2) * v2 /\ (u3 * vd) * v3 = (ud * v3) * v3
        BY <2>3
      <4>2. (u1 * v1) * vd = (u1 * vd) * v1 /\ (u2 * v2) * vd = (u2 * vd) * v2 /\ (u3 * v3) * vd = (u3 * vd) * v3
        BY <2>3
      <4>3. (ud * v1) * v1 = ud * (v1 * v1) /\ (ud * v2) * v2 = ud * (v2 * v2) /\ (ud * v3) * v3 = ud * (v3 * v3)
        BY <2>3
      <4> QED BY <2>3, <4>1, <4>2, <4>3
    <3> QED BY <2>4, <3>1
  <2> QED BY <2>5 DEF ud, vd
<1>6. t = Frac(n, q)
  BY DEF Position, u, v
<1>7. t \in Fractions /\ Worth(t, n, q)
  BY <1>4, <1>6, WorthFrac DEF Worth
<1> HIDE DEF n, q, t
<1>8. ASSUME NEW d \in 1..3 PROVE Plus(Whole(a[d]), Times(t, Whole(b[d] - a[d]))) = Whole(p[d])
  <2>1. u[d] = p[d] - a[d] /\ v[d] = b[d] - a[d] /\ a[d] \in Int /\ b[d] \in Int /\ p[d] \in Int
    BY <1>1, PointFacts
  <2>2. Worth(Whole(a[d]), a[d], 1) /\ Worth(Whole(p[d]), p[d], 1) /\ Worth(Whole(b[d] - a[d]), v[d], 1)
    BY <2>1, WholeIsFrac
  <2>3. Worth(Times(t, Whole(b[d] - a[d])), n * v[d], q * 1)
    BY <1>7, <2>2, WorthResults
  <2>4. Worth(Plus(Whole(a[d]), Times(t, Whole(b[d] - a[d]))), a[d] * (q * 1) + (n * v[d]) * 1, 1 * (q * 1))
    BY <2>2, <2>3, WorthResults
  <2>5. n * v[d] = (p[d] - a[d]) * q
    BY <1>5, <2>1
  <2>6. (a[d] * (q * 1) + (n * v[d]) * 1) * 1 = p[d] * (1 * (q * 1))
    BY <1>4, <2>1, <2>5
  <2> QED BY <2>2, <2>4, <2>6, WorthEqual
<1>9. PointOn(a, b, t) = Exactly(p)
  BY <1>8 DEF PointOn, Exactly
<1> QED BY <1>7, <1>9 DEF t

LEMMA EndIsPoint ==
  ASSUME NEW m, WellFormed(m), NEW k \in Ids(m), NEW e \in Ends
  PROVE  End(Axis(m, k), e) \in Points
BY AxisFacts DEF End

LEMMA EndOnSegment ==
  ASSUME NEW a \in Points, NEW b \in Points, a # b
  PROVE  OnSegment(b, a, b)
<1> DEFINE v == Way(a, b)
<1>1. /\ v[1] \in Int /\ v[2] \in Int /\ v[3] \in Int
      /\ \A d \in 1..3 : v[d] = b[d] - a[d] /\ v[d] \in Int
  BY WayIs
<1>2. v[1] # 0 \/ v[2] # 0 \/ v[3] # 0
  <2>1. a[1] # b[1] \/ a[2] # b[2] \/ a[3] # b[3]
    BY PointFacts
  <2>2. v[1] = b[1] - a[1] /\ v[2] = b[2] - a[2] /\ v[3] = b[3] - a[3]
    BY <1>1
  <2> HIDE DEF v
  <2> QED BY <2>1, <2>2, PointFacts
<1> HIDE DEF v
<1>3. Dot(v, v) \in Positive
  BY <1>1, <1>2, SquaresPositive DEF Dot
<1>4. Dot(v, v) \in 0..Dot(v, v)
  BY <1>3 DEF Positive
<1>5. \A c, d \in 1..3 : v[c] * v[d] = v[d] * v[c]
  BY <1>1
<1> QED BY <1>4, <1>5 DEF OnSegment, Parallel, v

(* An end on another member is at the place that it hands its force to.   *)
LEMMA SecondaryEnd ==
  ASSUME NEW m, WellFormed(m), NEW k \in Ids(m), NEW e \in Ends, SupportOf(m, k, e).on = "Secondary"
  PROVE  LET s == SupportOf(m, k, e)
             x == Axis(m, s.key)
         IN  /\ s.key \in Ids(m) /\ s.key # k /\ s.at \in Fractions
             /\ PointOn(x.a, x.b, s.at) = Exactly(End(Axis(m, k), e))
<1> DEFINE p == End(Axis(m, k), e)
           others == {i \in Axes(m) : m.members[i].id # k /\ Supports(m.members[i], p)}
           tips == {i \in others : FreeEndAt(m.members[i], p)}
           among == IF tips # {} THEN tips ELSE others
           first == CHOOSE i \in among : \A j \in among : i <= j
           y == m.members[first]
<1>1. SupportOf(m, k, e) = SupportAt(m, k, p)
  BY DEF SupportOf, Unresolved, Free
<1>2. SupportAt(m, k, p) = CASE OnFrame(m, p) -> Primary
                             [] ~OnFrame(m, p) /\ others = {} -> Unresolved
                             [] OTHER -> Secondary(y.id, Position(p, y.a, y.b))
  BY DEF SupportAt
<1> HIDE DEF first, y
<1>3. others # {} /\ SupportAt(m, k, p) = Secondary(y.id, Position(p, y.a, y.b))
  <2> HIDE DEF others, p
  <2> QED BY <1>1, <1>2 DEF Primary, Unresolved
<1>4. among \in SUBSET Nat /\ among # {} /\ among \subseteq others
  <2>1. Axes(m) \in SUBSET Nat
    BY MemberFacts DEF Axes
  <2> QED BY <1>3, <2>1
<1>5. first \in others
  <2> HIDE DEF among, others
  <2> QED BY <1>4, LeastExists DEF first
<1>6. first \in Axes(m) /\ y.id # k /\ Supports(y, p)
  BY <1>5 DEF y
<1>7. y.id \in Ids(m) /\ Axis(m, y.id) = y
  BY <1>6, AxisIs DEF y
<1>8. y.a \in Points /\ y.b \in Points /\ y.a # y.b /\ p \in Points
  BY <1>7, AxisFacts, EndIsPoint
<1>9. OnSegment(p, y.a, y.b)
  <2>1. CASE FreeEndAt(y, p)
    BY <2>1, <1>8, EndOnSegment DEF FreeEndAt
  <2>2. CASE Within(p, y.a, y.b)
    BY <2>2 DEF Within
  <2> QED BY <1>6, <2>1, <2>2 DEF Supports
<1>10. Position(p, y.a, y.b) \in Fractions /\ PointOn(y.a, y.b, Position(p, y.a, y.b)) = Exactly(p)
  BY <1>8, <1>9, PositionIsExact
<1>11. SupportOf(m, k, e).key = y.id /\ SupportOf(m, k, e).at = Position(p, y.a, y.b)
  BY <1>1, <1>3 DEF Secondary
<1> QED BY <1>6, <1>7, <1>10, <1>11

LEMMA OtherEnds ==
  ASSUME NEW m, WellFormed(m), NEW k \in Ids(m), NEW e \in Ends
  PROVE  /\ SupportOf(m, k, e).on \in {"Primary", "Secondary", "Free", "Unresolved"}
         /\ SupportOf(m, k, e).on = "Primary" => OnFrame(m, End(Axis(m, k), e))
         /\ SupportOf(m, k, e).on = "Free" => IsFree(Axis(m, k), e)
<1> DEFINE x == Axis(m, k)
           p == End(x, e)
<1>1. /\ SupportAt(m, k, p).on \in {"Primary", "Secondary", "Unresolved"}
      /\ SupportAt(m, k, p).on = "Primary" => OnFrame(m, p)
  <2> HIDE DEF p
  <2>1. CASE OnFrame(m, p)
    <3>1. SupportAt(m, k, p) = Primary
      BY <2>1 DEF SupportAt
    <3> QED BY <2>1, <3>1 DEF Primary
  <2>2. CASE ~OnFrame(m, p)
    <3>1. SupportAt(m, k, p) = Unresolved \/ \E i, at : SupportAt(m, k, p) = Secondary(i, at)
      BY <2>2 DEF SupportAt
    <3> QED BY <2>2, <3>1 DEF Unresolved, Secondary
  <2> QED BY <2>1, <2>2
<1>2. SupportOf(m, k, e) = CASE TakesNone(x, e) -> Unresolved
                             [] ~TakesNone(x, e) /\ IsFree(x, e) -> Free
                             [] OTHER -> SupportAt(m, k, p)
  BY DEF SupportOf
<1> HIDE DEF x, p
<1>3. CASE TakesNone(x, e)
  BY <1>2, <1>3 DEF Unresolved
<1>4. CASE ~TakesNone(x, e) /\ IsFree(x, e)
  BY <1>2, <1>4 DEF Free, x
<1>5. CASE ~TakesNone(x, e) /\ ~IsFree(x, e)
  BY <1>1, <1>2, <1>5 DEF x, p
<1> QED BY <1>3, <1>4, <1>5

LEMMA GirderFacts ==
  ASSUME NEW m, WellFormed(m), NEW g \in DOMAIN m.girders
  PROVE  GirderFrom(m, g) \in Points /\ GirderTo(m, g) \in Points
<1>1. m.girders[g] \in (1..Len(m.nodes)) \X (1..Len(m.nodes)) /\ m.nodes \in Seq(Points)
  BY DEF WellFormed
<1>2. m.girders[g][1] \in 1..Len(m.nodes) /\ m.girders[g][2] \in 1..Len(m.nodes)
  BY <1>1
<1> QED BY <1>1, <1>2 DEF GirderFrom, GirderTo

LEMMA SpanCarries ==
  ASSUME WellFormed(model), NEW at \in Points, Spans(model, at) # {}, NEW p
  PROVE  LET l == OnSpan(at, p)
         IN  l.on = "girder" /\ l.p = p /\ Place(l) = Exactly(at)
<1> DEFINE g == SpanOf(model, at)
           a == GirderFrom(model, g)
           b == GirderTo(model, g)
<1>1. Spans(model, at) \in SUBSET Nat
  BY DEF Spans, WellFormed
<1>2. g \in Spans(model, at)
  BY <1>1, LeastExists DEF SpanOf
<1> HIDE DEF g
<1>3. g \in DOMAIN model.girders /\ OnSegment(at, a, b)
  BY <1>2 DEF Spans, Within
<1>4. a \in Points /\ b \in Points
  BY <1>3, GirderFacts
<1>5. PointOn(a, b, Position(at, a, b)) = Exactly(at)
  BY <1>3, <1>4, PositionIsExact
<1>6. OnSpan(at, p) = [on |-> "girder", girder |-> g, at |-> Position(at, a, b), p |-> p]
  BY DEF OnSpan, MemberLoad, g
<1> QED BY <1>5, <1>6 DEF Place

(* What an end on the frame gives is taken there, at the end's place.     *)
LEMMA PrimaryTaken ==
  ASSUME WellFormed(model), NEW k \in Ids(model), NEW e \in Ends,
         OnFrame(model, End(Axis(model, k), e))
  PROVE  LET l == PrimaryLoad(<<k, e>>)
         IN  /\ l.p = reactions[k][e]
             /\ l.on = "node" => Connected(model, l.node)
             /\ Place(l) = Exactly(End(Axis(model, k), e))
<1> DEFINE at == End(Axis(model, k), e)
           p == reactions[k][e]
           n == NodeAt(model, at)
<1>1. at \in Points
  BY EndIsPoint
<1>2. PrimaryLoad(<<k, e>>) = IF NodesAt(model, at) # {} THEN Resolved(n, p) ELSE OnSpan(at, p)
  BY DEF PrimaryLoad
<1>3. OnFrame(model, at)
  OBVIOUS
<1> HIDE DEF at, p, n
<1>4. CASE NodesAt(model, at) = {}
  <2>1. Spans(model, at) # {}
    BY <1>3, <1>4 DEF OnFrame
  <2>2. PrimaryLoad(<<k, e>>) = OnSpan(at, p)
    BY <1>2, <1>4
  <2> QED BY <1>1, <2>1, <2>2, SpanCarries DEF at, p
<1>5. CASE NodesAt(model, at) # {}
  <2>1. NodesAt(model, at) \in SUBSET Nat
    BY DEF NodesAt, WellFormed
  <2>2. n \in NodesAt(model, at)
    BY <1>5, <2>1, LeastExists DEF NodeAt, n
  <2>3. n \in DOMAIN model.nodes /\ model.nodes[n] = at
    BY <2>2 DEF NodesAt
  <2>4. Connected(model, n) \/ Spans(model, at) # {}
    <3>1. ASSUME NEW j \in NodesAt(model, at), Connected(model, j) PROVE Connected(model, n)
      <4>1. j = n
        BY <2>3 DEF NodesAt, WellFormed
      <4> QED BY <3>1, <4>1
    <3> QED BY <1>3, <3>1 DEF OnFrame
  <2>5. PrimaryLoad(<<k, e>>) = IF Connected(model, n) \/ Spans(model, at) = {}
                                 THEN NodalLoad(n, p) ELSE OnSpan(at, p)
    BY <1>2, <1>5, <2>3 DEF Resolved
  <2>6. CASE Connected(model, n)
    <3>1. PrimaryLoad(<<k, e>>) = [on |-> "node", node |-> n, p |-> p]
      BY <2>5, <2>6 DEF NodalLoad
    <3>2. Place(PrimaryLoad(<<k, e>>)) = Exactly(at)
      BY <2>3, <3>1 DEF Place
    <3> QED BY <2>6, <3>1, <3>2 DEF at, p
  <2>7. CASE ~Connected(model, n)
    <3>1. PrimaryLoad(<<k, e>>) = OnSpan(at, p)
      BY <2>4, <2>5, <2>7
    <3> QED BY <1>1, <2>4, <2>7, <3>1, SpanCarries DEF at, p
  <2> QED BY <2>6, <2>7
<1> QED BY <1>4, <1>5
-----------------------------------------------------------------------------
(* What a member gives to its ends *)

Spots == [1..3 -> Fractions]

LEMMA SpotsTyped ==
  ASSUME NEW a \in Points
  PROVE  /\ Exactly(a) \in Spots
         /\ \A d \in 1..3 : Exactly(a)[d] = Whole(a[d])
         /\ \A b \in Points, t \in Fractions :
              /\ PointOn(a, b, t) \in Spots
              /\ \A d \in 1..3 : PointOn(a, b, t)[d] = Plus(Whole(a[d]), Times(t, Whole(b[d] - a[d])))
<1>1. \A d \in 1..3 : a[d] \in Int /\ Whole(a[d]) \in Fractions
  BY PointFacts
<1>2. ASSUME NEW b \in Points, NEW t \in Fractions, NEW d \in 1..3
      PROVE  Plus(Whole(a[d]), Times(t, Whole(b[d] - a[d]))) \in Fractions
  <2>1. a[d] \in Int /\ b[d] \in Int /\ b[d] - a[d] \in Int
    BY PointFacts
  <2>2. Whole(b[d] - a[d]) \in Fractions
    BY <2>1, WholeIsFrac
  <2> QED BY <1>1, <2>2, ResultsTyped
<1> QED BY <1>1, <1>2 DEF Exactly, PointOn, Spots

LEMMA WeightedFacts ==
  ASSUME NEW p \in Fractions, NEW at \in Spots, NEW c \in Moments
  PROVE  /\ Weighted(p, at, c) \in Fractions
         /\ Weighted(Zero, at, c) = Zero
         /\ \A q \in Fractions : Weighted(Plus(p, q), at, c) = Plus(Weighted(p, at, c), Weighted(q, at, c))
<1>1. CASE c = 0
  BY <1>1 DEF Weighted
<1>2. CASE c # 0
  <2>1. c \in 1..3 /\ at[c] \in Fractions
    BY <1>2 DEF Moments, Spots
  <2>2. \A q : Weighted(q, at, c) = Times(q, at[c])
    BY <1>2 DEF Weighted
  <2> DEFINE w == at[c]
  <2>3. w \in Fractions /\ \A q : Weighted(q, at, c) = Times(q, w)
    BY <2>1, <2>2
  <2> HIDE DEF w
  <2>4. Times(p, w) \in Fractions /\ Times(Zero, w) = Zero
    BY <2>3, ResultsTyped, TimesZero
  <2>5. ASSUME NEW q \in Fractions PROVE Times(Plus(p, q), w) = Plus(Times(p, w), Times(q, w))
    BY <2>3, TimesDistributes
  <2> QED BY <2>3, <2>4, <2>5
<1> QED BY <1>1, <1>2

Sound(x) ==
  /\ x.a \in Points /\ x.b \in Points /\ x.a # x.b
  /\ x.cantilever \in BOOLEAN
  /\ x.shares \in (Fractions \X Fractions) \union {None}
  /\ x.loads \in Seq(Loads)

(* The reactions to a load carry its force and its moment.                *)
LEMMA LoadSplits ==
  ASSUME NEW x, Sound(x), Vertical(x) => ValidShares(x), NEW load \in Loads, NEW c \in Moments
  PROVE  LET r == ReactionsOf(x, load)
         IN  /\ r[1] \in Fractions /\ r[2] \in Fractions
             /\ Plus(Weighted(r[1], Exactly(x.a), c), Weighted(r[2], Exactly(x.b), c))
                  = Weighted(load.p, PointOn(x.a, x.b, load.at), c)
<1> DEFINE p == load.p
           t == load.at
           r == ReactionsOf(x, load)
           a == x.a
           b == x.b
<1>1. p \in Fractions /\ t \in Fractions /\ a \in Points /\ b \in Points
  BY DEF Loads, Sound
<1>2. CASE Vertical(x)
  <2> DEFINE s == x.shares
  <2>1. s \in Fractions \X Fractions /\ Plus(s[1], s[2]) = One
    BY <1>2 DEF ValidShares, Sound
  <2>2. r[1] = Times(p, s[1]) /\ r[2] = Times(p, s[2])
    BY <1>2 DEF ReactionsOf, Ends
  <2>3. a[1] = b[1] /\ a[2] = b[2]
    BY <1>2 DEF Vertical
  <2> HIDE DEF p, t, r, a, b, s
  <2>4. s[1] \in Fractions /\ s[2] \in Fractions
    BY <2>1
  <2>5. r[1] \in Fractions /\ r[2] \in Fractions
    BY <1>1, <2>2, <2>4, ResultsTyped
  <2>6. Plus(r[1], r[2]) = p
    <3>1. Plus(Times(p, s[1]), Times(p, s[2])) = Times(p, Plus(s[1], s[2]))
      BY <1>1, <2>4, TimesDistributes
    <3> QED BY <1>1, <2>1, <2>2, <3>1, TimesOne
  <2>7. CASE c = 0
    BY <2>5, <2>6, <2>7 DEF Weighted, p, t, r, a, b
  <2>8. CASE c # 0
    <3>1. c \in 1..3 /\ (c = 1 \/ c = 2)
      BY <2>8 DEF Moments
    <3> DEFINE w == Whole(a[c])
    <3>2. w \in Fractions /\ Exactly(a)[c] = w /\ Exactly(b)[c] = w
      <4>1. a[c] = b[c]
        BY <2>3, <3>1
      <4>2. Exactly(a)[c] = Whole(a[c]) /\ Exactly(b)[c] = Whole(b[c])
        BY <1>1, <3>1, SpotsTyped
      <4> QED BY <1>1, <3>1, <4>1, <4>2, PointFacts
    <3>3. PointOn(a, b, t)[c] = w
      <4>1. b[c] - a[c] = 0
        BY <1>1, <2>3, <3>1, PointFacts
      <4>2. Whole(b[c] - a[c]) = Zero
        BY <4>1 DEF Zero
      <4>3. PointOn(a, b, t)[c] = Plus(w, Times(t, Zero))
        BY <1>1, <3>1, <4>2, SpotsTyped
      <4> QED BY <1>1, <3>2, <4>3, TimesZero, PlusZero
    <3> HIDE DEF w
    <3>4. Plus(Times(r[1], w), Times(r[2], w)) = Times(p, w)
      BY <2>5, <2>6, <3>2, TimesDistributes
    <3> QED BY <2>5, <2>8, <3>2, <3>3, <3>4 DEF Weighted, p, t, r, a, b
  <2> QED BY <2>7, <2>8
<1>3. CASE ~Vertical(x)
  <2>1. r[1] = Times(p, Minus(One, t)) /\ r[2] = Times(p, t)
    BY <1>3 DEF ReactionsOf
  <2> HIDE DEF p, t, r, a, b
  <2>2. r[1] \in Fractions /\ r[2] \in Fractions
    BY <1>1, <2>1, ResultsTyped, Constants
  <2>3. CASE c = 0
    <3>1. Plus(r[1], r[2]) = p
      BY <1>1, <2>1, LeverForce
    <3> QED BY <2>2, <2>3, <3>1 DEF Weighted, p, t, r, a, b
  <2>4. CASE c # 0
    <3>1. c \in 1..3
      BY <2>4 DEF Moments
    <3>2. a[c] \in Int /\ b[c] \in Int
      BY <1>1, <3>1, PointFacts
    <3>3. Exactly(a)[c] = Whole(a[c]) /\ Exactly(b)[c] = Whole(b[c])
      BY <1>1, <3>1, SpotsTyped
    <3>4. PointOn(a, b, t)[c] = Plus(Whole(a[c]), Times(t, Whole(b[c] - a[c])))
      BY <1>1, <3>1, SpotsTyped
    <3>5. Plus(Times(r[1], Whole(a[c])), Times(r[2], Whole(b[c])))
            = Times(p, Plus(Whole(a[c]), Times(t, Whole(b[c] - a[c]))))
      <4> DEFINE g == a[c]
                 h == b[c]
      <4>1. g \in Int /\ h \in Int
        BY <3>2
      <4> HIDE DEF g, h
      <4>2. Plus(Times(Times(p, Minus(One, t)), Whole(g)), Times(Times(p, t), Whole(h)))
              = Times(p, Plus(Whole(g), Times(t, Whole(h - g))))
        BY <1>1, <4>1, LeverMoment
      <4> QED BY <2>1, <4>2 DEF g, h
    <3> QED BY <2>2, <2>4, <3>3, <3>4, <3>5 DEF Weighted, p, t, r, a, b
  <2> QED BY <2>3, <2>4
<1> QED BY <1>2, <1>3

(* Weighing a sum is summing what is weighed.                             *)
LEMMA WeightedSum ==
  ASSUME NEW q \in Seq(Fractions), NEW at \in Spots, NEW c \in Moments
  PROVE  LET u == [i \in DOMAIN q |-> Weighted(q[i], at, c)]
         IN  u \in Seq(Fractions) /\ Weighted(SumOf(q), at, c) = SumOf(u)
<1> DEFINE u == [i \in DOMAIN q |-> Weighted(q[i], at, c)]
<1>1. DOMAIN q = 1..Len(q) /\ Len(q) \in Nat /\ \A i \in 1..Len(q) : q[i] \in Fractions
  OBVIOUS
<1>2. u = [i \in 1..Len(q) |-> Weighted(q[i], at, c)]
  BY <1>1
<1>3. \A i \in 1..Len(q) : Weighted(q[i], at, c) \in Fractions
  BY <1>1, WeightedFacts
<1>4. u \in Seq(Fractions) /\ Len(u) = Len(q)
  <2>1. u \in [1..Len(q) -> Fractions]
    BY <1>2, <1>3
  <2> HIDE DEF u
  <2> QED BY <1>1, <2>1
<1>5. CASE c = 0
  <2>1. \A i \in 1..Len(q) : u[i] = q[i]
    BY <1>2, <1>5 DEF Weighted
  <2> HIDE DEF u
  <2>2. u = q
    BY <1>1, <1>4, <2>1
  <2> QED BY <1>4, <1>5, <2>2 DEF Weighted, u
<1>6. CASE c # 0
  <2>1. at[c] \in Fractions
    BY <1>6 DEF Moments, Spots
  <2>2. \A i \in 1..Len(q) : u[i] = Times(q[i], at[c])
    BY <1>2, <1>6 DEF Weighted
  <2> HIDE DEF u
  <2>3. SumOf(u) = Times(SumOf(q), at[c])
    BY <1>4, <2>1, <2>2, SumTimes
  <2> QED BY <1>4, <1>6, <2>3 DEF Weighted, u
<1> QED BY <1>5, <1>6

Borne(x, loads, c) ==
  SumOf([i \in DOMAIN loads |-> Weighted(loads[i].p, PointOn(x.a, x.b, loads[i].at), c)])

LEMMA BorneTyped ==
  ASSUME NEW x, Sound(x), NEW loads \in Seq(Loads), NEW c \in Moments
  PROVE  /\ [i \in DOMAIN loads |-> Weighted(loads[i].p, PointOn(x.a, x.b, loads[i].at), c)] \in Seq(Fractions)
         /\ Borne(x, loads, c) \in Fractions
<1> DEFINE u == [i \in DOMAIN loads |-> Weighted(loads[i].p, PointOn(x.a, x.b, loads[i].at), c)]
<1>1. DOMAIN loads = 1..Len(loads) /\ Len(loads) \in Nat /\ \A i \in 1..Len(loads) : loads[i] \in Loads
  OBVIOUS
<1>2. ASSUME NEW i \in 1..Len(loads) PROVE Weighted(loads[i].p, PointOn(x.a, x.b, loads[i].at), c) \in Fractions
  <2>1. loads[i].p \in Fractions /\ loads[i].at \in Fractions
    BY <1>1 DEF Loads
  <2>2. PointOn(x.a, x.b, loads[i].at) \in Spots
    BY <2>1, SpotsTyped DEF Sound
  <2> QED BY <2>1, <2>2, WeightedFacts
<1>3. u \in [1..Len(loads) -> Fractions]
  BY <1>1, <1>2
<1> HIDE DEF u
<1>4. u \in Seq(Fractions)
  BY <1>1, <1>3
<1> QED BY <1>4, SumTyped DEF Borne, u

LEMMA MemberSplits ==
  ASSUME NEW x, Sound(x), Vertical(x) => ValidShares(x), NEW loads \in Seq(Loads), NEW c \in Moments
  PROVE  /\ Reaction(x, loads, 1) \in Fractions /\ Reaction(x, loads, 2) \in Fractions
         /\ Plus(Weighted(Reaction(x, loads, 1), Exactly(x.a), c), Weighted(Reaction(x, loads, 2), Exactly(x.b), c))
              = Borne(x, loads, c)
<1> DEFINE n == Len(loads)
           q1 == [i \in DOMAIN loads |-> ReactionsOf(x, loads[i])[1]]
           q2 == [i \in DOMAIN loads |-> ReactionsOf(x, loads[i])[2]]
           u1 == [i \in DOMAIN q1 |-> Weighted(q1[i], Exactly(x.a), c)]
           u2 == [i \in DOMAIN q2 |-> Weighted(q2[i], Exactly(x.b), c)]
           u == [i \in DOMAIN loads |-> Weighted(loads[i].p, PointOn(x.a, x.b, loads[i].at), c)]
<1>1. DOMAIN loads = 1..n /\ n \in Nat /\ \A i \in 1..n : loads[i] \in Loads
  OBVIOUS
<1>2. \A i \in 1..n : ReactionsOf(x, loads[i])[1] \in Fractions /\ ReactionsOf(x, loads[i])[2] \in Fractions
  BY <1>1, LoadSplits
<1>3. /\ q1 \in [1..n -> Fractions] /\ q2 \in [1..n -> Fractions]
      /\ DOMAIN q1 = 1..n /\ DOMAIN q2 = 1..n
  BY <1>1, <1>2
<1>4. u \in Seq(Fractions) /\ DOMAIN u = 1..n
  BY <1>1, BorneTyped
<1>5. ASSUME NEW i \in 1..n PROVE u[i] = Plus(u1[i], u2[i])
  BY <1>1, <1>3, LoadSplits
<1>6. Exactly(x.a) \in Spots /\ Exactly(x.b) \in Spots
  BY SpotsTyped DEF Sound
<1>7. Reaction(x, loads, 1) = SumOf(q1) /\ Reaction(x, loads, 2) = SumOf(q2) /\ Borne(x, loads, c) = SumOf(u)
  BY DEF Reaction, Borne
<1>8. DOMAIN u1 = 1..n /\ DOMAIN u2 = 1..n
  BY <1>3
<1> HIDE DEF q1, q2, u
<1>9. q1 \in Seq(Fractions) /\ q2 \in Seq(Fractions)
  BY <1>1, <1>3
<1>10. /\ u1 \in Seq(Fractions) /\ Weighted(SumOf(q1), Exactly(x.a), c) = SumOf(u1)
       /\ u2 \in Seq(Fractions) /\ Weighted(SumOf(q2), Exactly(x.b), c) = SumOf(u2)
  BY <1>6, <1>9, WeightedSum
<1> HIDE DEF u1, u2
<1>11. Len(u) = n /\ Len(u1) = n /\ Len(u2) = n
  BY <1>1, <1>4, <1>8, <1>10
<1>12. SumOf(u) = Plus(SumOf(u1), SumOf(u2))
  BY <1>4, <1>5, <1>10, <1>11, SumPlus
<1> QED BY <1>7, <1>9, <1>10, <1>12, SumTyped

(* What a member gives to its ends is what it bears; a cantilever gives    *)
(* it to its support, without the moment.                                  *)
LEMMA ForcesSplit ==
  ASSUME NEW x, Sound(x), Vertical(x) => ValidShares(x), NEW loads \in Seq(Loads)
  PROVE  LET f == ForcesAt(x, loads)
         IN  /\ f \in Fractions \X Fractions
             /\ x.cantilever => f[2] = Zero
             /\ \A c \in Moments : c = 0 \/ ~x.cantilever =>
                  Plus(Weighted(f[1], Exactly(x.a), c), Weighted(f[2], Exactly(x.b), c)) = Borne(x, loads, c)
<1> DEFINE r1 == Reaction(x, loads, 1)
           r2 == Reaction(x, loads, 2)
           f == ForcesAt(x, loads)
<1>1. /\ r1 \in Fractions /\ r2 \in Fractions
      /\ \A c \in Moments : Plus(Weighted(r1, Exactly(x.a), c), Weighted(r2, Exactly(x.b), c)) = Borne(x, loads, c)
  BY MemberSplits DEF Moments
<1>2. f = IF x.cantilever THEN <<Plus(r1, r2), Zero>> ELSE <<r1, r2>>
  BY DEF ForcesAt, Ends
<1> HIDE DEF r1, r2, f
<1>3. CASE x.cantilever
  <2>1. f = <<Plus(r1, r2), Zero>> /\ Plus(r1, r2) \in Fractions
    BY <1>1, <1>2, <1>3, ResultsTyped
  <2>2. Plus(r1, r2) = Borne(x, loads, 0)
    BY <1>1 DEF Weighted, Moments
  <2>3. Plus(Weighted(f[1], Exactly(x.a), 0), Weighted(f[2], Exactly(x.b), 0)) = Borne(x, loads, 0)
    BY <2>1, <2>2, PlusZero DEF Weighted
  <2> QED BY <1>3, <2>1, <2>3, Constants DEF f
<1>4. CASE ~x.cantilever
  BY <1>1, <1>2, <1>4 DEF f
<1> QED BY <1>3, <1>4 DEF Sound
-----------------------------------------------------------------------------
(* The transfer *)

(* The loads on a member, and what ends that rest on it hand to it.       *)
LEMMA BorneAppend ==
  ASSUME NEW x, Sound(x), NEW q \in Seq(Loads), NEW l \in Loads, NEW c \in Moments
  PROVE  Borne(x, Append(q, l), c) = Plus(Borne(x, q, c), Weighted(l.p, PointOn(x.a, x.b, l.at), c))
<1> DEFINE W(load) == Weighted(load.p, PointOn(x.a, x.b, load.at), c)
           r == Append(q, l)
           u == [i \in DOMAIN q |-> W(q[i])]
           v == [i \in DOMAIN r |-> W(r[i])]
           n == Len(q)
<1>1. /\ n \in Nat /\ DOMAIN q = 1..n /\ r \in Seq(Loads) /\ DOMAIN r = 1..n + 1
      /\ \A i \in 1..n : r[i] = q[i]
      /\ r[n + 1] = l
  OBVIOUS
<1>2. u \in Seq(Fractions) /\ v \in Seq(Fractions) /\ SumOf(u) = Borne(x, q, c) /\ SumOf(v) = Borne(x, r, c)
  BY <1>1, BorneTyped DEF Borne
<1>3. DOMAIN u = 1..n /\ DOMAIN v = 1..n + 1
  BY <1>1
<1>4. \A i \in 1..n : v[i] = u[i]
  BY <1>1
<1>5. v[n + 1] = W(l)
  BY <1>1
<1> HIDE DEF u, v, W, r
<1>6. W(l) \in Fractions
  BY <1>1, <1>2, <1>3, <1>5
<1>7. v = Append(u, W(l))
  <2>1. Len(u) = n /\ Len(v) = n + 1
    BY <1>1, <1>2, <1>3
  <2>2. Append(u, W(l)) \in Seq(Fractions) /\ Len(Append(u, W(l))) = n + 1
    BY <1>2, <1>6, <2>1
  <2>3. \A i \in 1..n + 1 : v[i] = Append(u, W(l))[i]
    BY <1>1, <1>2, <1>4, <1>5, <1>6, <2>1
  <2> QED BY <1>1, <1>2, <2>1, <2>2, <2>3
<1>8. SumOf(v) = Plus(SumOf(u), W(l))
  BY <1>2, <1>6, <1>7, SumAppend
<1> QED BY <1>2, <1>8 DEF W, r

LEMMA ListsAssociate ==
  \A s, t, u \in Seq(Loads) : s \o (t \o u) = (s \o t) \o u
BY ConcatAssociative

LEMMA OneHanded ==
  ASSUME NEW x, Sound(x), NEW q \in Seq(Loads), NEW p \in Fractions, NEW at, NEW B \in BOOLEAN,
         B => at \in Fractions, NEW c \in Moments
  PROVE  LET l == IF B /\ p # Zero THEN <<PointLoad(at, p)>> ELSE <<>>
             gain == IF B THEN Weighted(p, PointOn(x.a, x.b, at), c) ELSE Zero
         IN  /\ l \in Seq(Loads) /\ gain \in Fractions
             /\ Borne(x, q \o l, c) = Plus(Borne(x, q, c), gain)
<1> DEFINE l == IF B /\ p # Zero THEN <<PointLoad(at, p)>> ELSE <<>>
           gain == IF B THEN Weighted(p, PointOn(x.a, x.b, at), c) ELSE Zero
<1>1. gain \in Fractions /\ (B /\ p = Zero => gain = Zero)
  <2>1. CASE ~B
    BY <2>1, Constants
  <2>2. CASE B
    <3>1. PointOn(x.a, x.b, at) \in Spots
      BY <2>2, SpotsTyped DEF Sound
    <3> QED BY <2>2, <3>1, WeightedFacts
  <2> QED BY <2>1, <2>2
<1>2. Borne(x, q, c) \in Fractions
  BY BorneTyped
<1>3. CASE B /\ p # Zero
  <2> DEFINE load == PointLoad(at, p)
  <2>1. l = <<load>> /\ load \in Loads /\ load.p = p /\ load.at = at
    BY <1>3 DEF PointLoad, Loads
  <2>2. gain = Weighted(p, PointOn(x.a, x.b, at), c)
    BY <1>3
  <2> HIDE DEF load, l, gain
  <2>3. l \in Seq(Loads) /\ q \o l = Append(q, load)
    BY <2>1, AppendIsConcat
  <2>4. Borne(x, Append(q, load), c) = Plus(Borne(x, q, c), gain)
    BY <2>1, <2>2, BorneAppend
  <2> QED BY <1>1, <2>3, <2>4 DEF l, gain
<1>4. CASE ~(B /\ p # Zero)
  <2>1. l = <<>> /\ gain = Zero
    BY <1>1, <1>4
  <2> HIDE DEF l, gain
  <2>2. l \in Seq(Loads) /\ q \o l = q
    BY <2>1, ConcatEmptySeq
  <2> QED BY <1>1, <1>2, <2>1, <2>2, PlusZero DEF l, gain
<1> QED BY <1>3, <1>4

LEMMA MemberIsSound ==
  ASSUME OrderTypeOK, NEW k \in Members
  PROVE  /\ WellFormed(model) /\ k \in Ids(model) /\ Sound(Axis(model, k))
         /\ \A e \in Ends : supports[k][e] = SupportOf(model, k, e)
<1>1. WellFormed(model) /\ k \in Ids(model)
  BY ModelsAssumption DEF OrderTypeOK, Members, SupportsOf, ModelsAssumption
<1>2. \A e \in Ends : supports[k][e] = SupportOf(model, k, e)
  BY <1>1 DEF OrderTypeOK, SupportsOf
<1>3. Sound(Axis(model, k))
  BY <1>1, AxisFacts DEF Sound
<1> QED BY <1>1, <1>2, <1>3

(* What an end of k hands to r.                                            *)
Gain(k, f, e, r, c) ==
  IF e \in EndsOn(k, r) THEN Weighted(f[e], Exactly(End(Axis(model, k), e)), c) ELSE Zero

LEMMA LoadsHanded ==
  ASSUME OrderTypeOK, NEW k \in Members, NEW r \in Members, NEW f \in Fractions \X Fractions,
         extra[r] \in Seq(Loads), NEW c \in Moments
  PROVE  /\ Handed(k, f)[r] \in Seq(Loads)
         /\ Gain(k, f, 1, r, c) \in Fractions /\ Gain(k, f, 2, r, c) \in Fractions
         /\ Borne(Axis(model, r), Axis(model, r).loads \o Handed(k, f)[r], c)
              = Plus(Plus(Borne(Axis(model, r), LoadsOn(r), c), Gain(k, f, 1, r, c)), Gain(k, f, 2, r, c))
<1> DEFINE x == Axis(model, r)
           B(e) == e \in EndsOn(k, r)
           at(e) == supports[k][e].at
           On(e) == IF B(e) /\ f[e] # Zero THEN <<PointLoad(at(e), f[e])>> ELSE <<>>
           was == x.loads \o extra[r]
           middle == was \o On(1)
<1>1. Sound(x) /\ x.loads \in Seq(Loads)
  BY MemberIsSound DEF Sound
<1>2. ASSUME NEW e \in 1..2, B(e)
      PROVE  at(e) \in Fractions /\ PointOn(x.a, x.b, at(e)) = Exactly(End(Axis(model, k), e))
  <2>1. supports[k][e].on = "Secondary" /\ supports[k][e].key = r /\ e \in Ends
    BY <1>2 DEF EndsOn
  <2>2. WellFormed(model) /\ k \in Ids(model) /\ supports[k][e] = SupportOf(model, k, e)
    BY <2>1, MemberIsSound
  <2> QED BY <2>1, <2>2, SecondaryEnd
<1>3. f[1] \in Fractions /\ f[2] \in Fractions
  OBVIOUS
<1>4. Handed(k, f)[r] = extra[r] \o On(1) \o On(2)
  BY DEF Handed
<1>5. ASSUME NEW e \in 1..2
      PROVE  Gain(k, f, e, r, c) = IF B(e) THEN Weighted(f[e], PointOn(x.a, x.b, at(e)), c) ELSE Zero
  BY <1>2 DEF Gain
<1>6. was \in Seq(Loads) /\ was = LoadsOn(r)
  <2>1. was \in Seq(Loads)
    <3> HIDE DEF x
    <3> QED BY <1>1
  <2> QED BY <2>1 DEF LoadsOn
<1> HIDE DEF x, B, at, was
<1>7. /\ On(1) \in Seq(Loads) /\ Gain(k, f, 1, r, c) \in Fractions
      /\ Borne(x, middle, c) = Plus(Borne(x, was, c), Gain(k, f, 1, r, c))
  <2>1. 1 \in 1..2 /\ B(1) \in BOOLEAN /\ (B(1) => at(1) \in Fractions)
    BY <1>2 DEF B
  <2> QED BY <1>1, <1>3, <1>5, <1>6, <2>1, OneHanded
<1> HIDE DEF middle
<1>8. middle \in Seq(Loads)
  <2> HIDE DEF On
  <2> QED BY <1>6, <1>7 DEF middle
<1>9. /\ On(2) \in Seq(Loads) /\ Gain(k, f, 2, r, c) \in Fractions
      /\ Borne(x, middle \o On(2), c) = Plus(Borne(x, middle, c), Gain(k, f, 2, r, c))
  <2>1. 2 \in 1..2 /\ B(2) \in BOOLEAN /\ (B(2) => at(2) \in Fractions)
    BY <1>2 DEF B
  <2> QED BY <1>1, <1>3, <1>5, <1>8, <2>1, OneHanded
<1> HIDE DEF On
<1>10. Handed(k, f)[r] \in Seq(Loads) /\ x.loads \o Handed(k, f)[r] = middle \o On(2)
  <2> DEFINE d == extra[r]
  <2> HIDE DEF d
  <2>1. d \in Seq(Loads)
    BY DEF d
  <2>4. d \o On(1) \in Seq(Loads) /\ (d \o On(1)) \o On(2) \in Seq(Loads)
    BY <1>7, <1>9, <2>1
  <2>2. x.loads \o ((d \o On(1)) \o On(2)) = (x.loads \o (d \o On(1))) \o On(2)
    BY <1>1, <1>9, <2>4, ListsAssociate
  <2>3. x.loads \o (d \o On(1)) = (x.loads \o d) \o On(1)
    BY <1>1, <1>7, <2>1, ListsAssociate
  <2> QED BY <1>4, <2>4, <2>2, <2>3 DEF middle, was, d
<1> QED BY <1>6, <1>7, <1>9, <1>10 DEF x

LEMMA Rearranged ==
  ASSUME NEW k1 \in Fractions, NEW k2 \in Fractions, NEW m1 \in Fractions, NEW m2 \in Fractions,
         NEW t \in Fractions
  PROVE  Plus(Plus(k1, k2), Plus(Plus(t, m1), m2)) = Plus(Plus(Plus(k1, m1), Plus(k2, m2)), t)
<1>1. Plus(k1, k2) \in Fractions /\ Plus(m1, m2) \in Fractions
  BY ResultsTyped
<1>2. Plus(Plus(t, m1), m2) = Plus(Plus(m1, m2), t)
  BY <1>1, PlusAssociates, PlusCommutes
<1>3. Plus(Plus(k1, k2), Plus(Plus(m1, m2), t)) = Plus(Plus(Plus(k1, k2), Plus(m1, m2)), t)
  BY <1>1, PlusAssociates
<1>4. Plus(Plus(k1, k2), Plus(m1, m2)) = Plus(Plus(k1, m1), Plus(k2, m2))
  BY PlusExchanges
<1> QED BY <1>2, <1>3, <1>4

TransferTypeOK ==
  /\ extra \in [Members -> Seq(Loads)]
  /\ reactions \in [Members -> (Fractions \X Fractions) \union {None}]
  /\ turn \in Nat

(* Only members whose turn is over are solved.                             *)
TurnsDone ==
  /\ phase = "order" => turn = 0
  /\ phase # "order" => turn > 0
  /\ \A k \in Solved : \E i \in DOMAIN order : i < turn /\ order[i] = k

FreeEndsIdle ==
  \A k \in Solved : \A e \in Ends : supports[k][e].on = "Free" => reactions[k][e] = Zero

(* What is where it is: a member that is not solved holds its loads, one   *)
(* that is solved what its ends do not hand on.                            *)
Kept(k, e, c) == IF supports[k][e].on = "Secondary" THEN Zero ELSE AtEnd(k, e, c)
Held(k, c) == IF reactions[k] = None THEN OnMember(k, LoadsOn(k), c) ELSE Plus(Kept(k, 1, c), Kept(k, 2, c))
Tracked(c) == c = 0 \/ \A k \in Members : ~Axis(model, k).cantilever
Balance ==
  \A c \in Moments : Tracked(c) => Applied(c) = Total(Members, [k \in Members |-> Held(k, c)])

TransferInv == TransferTypeOK /\ TurnsDone /\ FreeEndsIdle /\ Balance

LEMMA BorneIs ==
  ASSUME NEW k, NEW loads, NEW c
  PROVE  OnMember(k, loads, c) = Borne(Axis(model, k), loads, c)
BY DEF OnMember, Borne

LEMMA HeldTyped ==
  ASSUME OrderTypeOK, TransferTypeOK, NEW c \in Moments, NEW k \in Members
  PROVE  /\ LoadsOn(k) \in Seq(Loads)
         /\ OnMember(k, LoadsOn(k), c) \in Fractions
         /\ reactions[k] # None => /\ reactions[k] \in Fractions \X Fractions
                                   /\ \A e \in Ends : AtEnd(k, e, c) \in Fractions /\ Kept(k, e, c) \in Fractions
         /\ Held(k, c) \in Fractions
<1> DEFINE x == Axis(model, k)
<1>1. Sound(x) /\ x.loads \in Seq(Loads) /\ extra[k] \in Seq(Loads)
  BY MemberIsSound DEF Sound, TransferTypeOK
<1>2. LoadsOn(k) \in Seq(Loads)
  <2>1. LoadsOn(k) = x.loads \o extra[k]
    BY DEF LoadsOn
  <2> HIDE DEF x
  <2> QED BY <1>1, <2>1
<1>3. OnMember(k, LoadsOn(k), c) \in Fractions
  BY <1>1, <1>2, BorneTyped, BorneIs
<1>4. ASSUME reactions[k] # None
      PROVE  /\ reactions[k] \in Fractions \X Fractions
             /\ \A e \in Ends : AtEnd(k, e, c) \in Fractions /\ Kept(k, e, c) \in Fractions
  <2>1. reactions[k] \in Fractions \X Fractions
    BY <1>4 DEF TransferTypeOK
  <2>2. ASSUME NEW e \in Ends PROVE AtEnd(k, e, c) \in Fractions
    <3>1. reactions[k][e] \in Fractions
      BY <2>1 DEF Ends
    <3>2. End(x, e) \in Points
      BY <1>1 DEF End, Sound
    <3> QED BY <3>1, <3>2, SpotsTyped, WeightedFacts DEF AtEnd
  <2> QED BY <2>1, <2>2, Constants DEF Kept
<1>5. Held(k, c) \in Fractions
  <2>1. 1 \in Ends /\ 2 \in Ends
    BY DEF Ends
  <2> QED BY <1>3, <1>4, <2>1, ResultsTyped DEF Held
<1> QED BY <1>2, <1>3, <1>4, <1>5

LEMMA AppliedStays ==
  ASSUME model' = model, supports' = supports, NEW c
  PROVE  Applied(c)' = Applied(c) /\ Tracked(c)' = Tracked(c)
BY DEF Applied, Tracked, OnMember, Members

LEMMA InitTransfer == Init => TransferInv
<1> SUFFICES ASSUME Init PROVE TransferInv
  OBVIOUS
<1>1. OrderTypeOK
  BY InitInv DEF Inv
<1>2. TransferTypeOK
  <2>1. <<>> \in Seq(Loads)
    OBVIOUS
  <2> QED BY <2>1 DEF Init, TransferTypeOK
<1>3. \A k \in Members : reactions[k] = None
  BY DEF Init
<1>4. TurnsDone /\ FreeEndsIdle
  BY <1>3 DEF Init, TurnsDone, FreeEndsIdle, Solved
<1>5. ASSUME NEW c \in Moments PROVE Applied(c) = Total(Members, [k \in Members |-> Held(k, c)])
  <2>1. ASSUME NEW k \in Members PROVE Held(k, c) = OnMember(k, Axis(model, k).loads, c)
    <3> DEFINE q == Axis(model, k).loads
    <3>1. q \in Seq(Loads)
      BY <1>1, MemberIsSound DEF Sound
    <3>2. LoadsOn(k) = q \o <<>>
      BY DEF Init, LoadsOn
    <3> HIDE DEF q
    <3>3. LoadsOn(k) = q
      BY <3>1, <3>2, ConcatEmptySeq
    <3> QED BY <1>3, <3>3 DEF Held, q
  <2>2. [k \in Members |-> Held(k, c)] = [k \in Members |-> OnMember(k, Axis(model, k).loads, c)]
    BY <2>1
  <2> QED BY <2>2 DEF Applied
<1> QED BY <1>2, <1>4, <1>5 DEF TransferInv, Balance

LEMMA TransferStays ==
  ASSUME TransferInv, UNCHANGED <<model, supports, extra, reactions>>
  PROVE  /\ FreeEndsIdle' /\ Balance'
         /\ turn' \in Nat => TransferTypeOK'
<1>1. FreeEndsIdle'
  BY DEF TransferInv, FreeEndsIdle, Solved, Members
<1>2. turn' \in Nat => TransferTypeOK'
  BY DEF TransferInv, TransferTypeOK, Members
<1>3. \A k, c : Held(k, c)' = Held(k, c)
  BY DEF Held, OnMember, LoadsOn, Kept, AtEnd
<1>4. Members' = Members
  BY DEF Members
<1>5. ASSUME NEW c \in Moments, Tracked(c)'
      PROVE  Applied(c)' = Total(Members, [k \in Members |-> Held(k, c)])'
  <2>1. Applied(c) = Total(Members, [k \in Members |-> Held(k, c)])
    BY <1>5, AppliedStays DEF TransferInv, Balance
  <2>2. Total(Members, [k \in Members |-> Held(k, c)])' = Total(Members', [k \in Members' |-> Held(k, c)'])
    OBVIOUS
  <2> QED BY <1>3, <1>4, <2>1, <2>2, AppliedStays
<1> QED BY <1>1, <1>2, <1>5 DEF Balance

LEMMA TurnFacts ==
  ASSUME Inv, TransferInv, TransferMember
  PROVE  /\ Turn \in Members
         /\ reactions[Turn] = None
         /\ Vertical(Axis(model, Turn)) => ValidShares(Axis(model, Turn))
         /\ \A r \in Solved : ~RestsOn(Turn, r)
<1>1. turn \in DOMAIN order /\ turn \in Nat /\ Turn = order[turn] /\ Turn \in Members
  BY DEF Inv, OrderTypeOK, TransferInv, TransferTypeOK, TurnsDone, TransferMember, Turn
<1>2. \A i, j \in DOMAIN order : order[i] = order[j] => i = j
  BY DEF Inv, NoneTwice, Distinct
<1>3. ASSUME NEW r \in Solved PROVE r # Turn /\ ~RestsOn(Turn, r)
  <2>1. PICK i \in DOMAIN order : i < turn /\ order[i] = r
    BY DEF TransferInv, TurnsDone
  <2>2. r # Turn
    BY <1>1, <1>2, <2>1
  <2>3. ASSUME RestsOn(Turn, r) PROVE FALSE
    <3>1. PICK j \in 1..i - 1 : order[j] = Turn
      BY <1>1, <2>1, <2>3 DEF Inv, CarriersComeLater
    <3>2. j \in DOMAIN order /\ j < i
      BY <2>1, <3>1 DEF Inv, OrderTypeOK
    <3>3. j = turn
      BY <1>1, <1>2, <3>1, <3>2
    <3>4. i \in Int /\ turn \in Int
      BY <1>1 DEF Inv, OrderTypeOK
    <3> QED BY <2>1, <3>2, <3>3, <3>4
  <2> QED BY <2>2, <2>3
<1>4. reactions[Turn] = None
  BY <1>1, <1>3 DEF Solved
<1>5. Vertical(Axis(model, Turn)) => ValidShares(Axis(model, Turn))
  <2>1. Turn \in Ids(model)
    BY <1>1, MemberIsSound DEF Inv
  <2> QED BY <2>1 DEF TransferMember, InvalidShares
<1> QED BY <1>1, <1>3, <1>4, <1>5

(* What an end gives away or keeps.                                        *)
LEMMA EndGives ==
  ASSUME OrderTypeOK, NEW k \in Members, NEW f \in Fractions \X Fractions, NEW e \in Ends, NEW c \in Moments
  PROVE  LET F == Weighted(f[e], Exactly(End(Axis(model, k), e)), c)
             kept == IF supports[k][e].on = "Secondary" THEN Zero ELSE F
             given == Total(Members \ {k}, [r \in Members |-> Gain(k, f, e, r, c)])
         IN  kept \in Fractions /\ given \in Fractions /\ F = Plus(kept, given)
<1> DEFINE F == Weighted(f[e], Exactly(End(Axis(model, k), e)), c)
           g == [r \in Members |-> Gain(k, f, e, r, c)]
           S == Members \ {k}
           kept == IF supports[k][e].on = "Secondary" THEN Zero ELSE F
           given == Total(Members \ {k}, [r \in Members |-> Gain(k, f, e, r, c)])
<1>1. F \in Fractions
  <2>1. f[e] \in Fractions
    BY DEF Ends
  <2>2. End(Axis(model, k), e) \in Points
    BY MemberIsSound DEF End, Sound
  <2> QED BY <2>1, <2>2, SpotsTyped, WeightedFacts
<1>2. \A r \in Members : g[r] = IF supports[k][e].on = "Secondary" /\ supports[k][e].key = r THEN F ELSE Zero
  BY DEF Gain, EndsOn
<1>3. IsFiniteSet(S) /\ S \in SUBSET Members
  BY MembersFinite, FS_Subset
<1>4. given = Total(S, g)
  OBVIOUS
<1>5. kept = IF supports[k][e].on = "Secondary" THEN Zero ELSE F
  OBVIOUS
<1> HIDE DEF F, g, given, kept
<1>6. CASE supports[k][e].on = "Secondary"
  <2> DEFINE key == supports[k][e].key
  <2>1. key \in S
    <3>1. WellFormed(model) /\ k \in Ids(model) /\ supports[k][e] = SupportOf(model, k, e)
      BY MemberIsSound
    <3>2. key \in Ids(model) /\ key # k
      BY <1>6, <3>1, SecondaryEnd
    <3> QED BY <3>2 DEF OrderTypeOK, Members, SupportsOf
  <2>2. g[key] = F /\ \A y \in S \ {key} : g[y] = Zero
    BY <1>2, <1>3, <1>6, <2>1
  <2> HIDE DEF key, S
  <2>3. Total(S, g) = F
    BY <1>1, <1>3, <2>1, <2>2, TotalOfOne
  <2> QED BY <1>1, <1>4, <1>5, <1>6, <2>3, Constants, PlusZero DEF F, given, kept
<1>7. CASE supports[k][e].on # "Secondary"
  <2>1. \A y \in S : g[y] = Zero
    BY <1>2, <1>3, <1>7
  <2> HIDE DEF S
  <2>2. Total(S, g) = Zero
    BY <1>3, <2>1, TotalZero
  <2> QED BY <1>1, <1>4, <1>5, <1>7, <2>2, Constants, PlusZero DEF F, given, kept
<1> QED BY <1>6, <1>7

LEMMA TransferBalance ==
  ASSUME Inv, TransferInv, TransferMember, NEW k, k = Turn, NEW c \in Moments, Tracked(c)
  PROVE  Applied(c)' = Total(Members, [r \in Members |-> Held(r, c)])'
<1> DEFINE x == Axis(model, k)
           f == ForcesAt(x, LoadsOn(k))
           F(e) == Weighted(f[e], Exactly(End(x, e)), c)
           kept(e) == IF supports[k][e].on = "Secondary" THEN Zero ELSE F(e)
           S == Members \ {k}
           g1 == [r \in Members |-> Gain(k, f, 1, r, c)]
           g2 == [r \in Members |-> Gain(k, f, 2, r, c)]
           w == [r \in Members |-> Held(r, c)]
           v == [r \in Members |-> Held(r, c)']
<1>1. /\ OrderTypeOK /\ TransferTypeOK
      /\ model' = model /\ supports' = supports /\ Members' = Members
      /\ reactions' = [reactions EXCEPT ![k] = f] /\ extra' = Handed(k, f)
  BY DEF Inv, TransferInv, TransferMember, Members
<1>2. /\ k \in Members /\ reactions[k] = None /\ (Vertical(x) => ValidShares(x))
      /\ \A r \in Solved : ~RestsOn(k, r)
  BY TurnFacts
<1>3. Sound(x) /\ LoadsOn(k) \in Seq(Loads)
  BY <1>1, <1>2, MemberIsSound, HeldTyped
<1>4. f \in Fractions \X Fractions /\ Plus(F(1), F(2)) = OnMember(k, LoadsOn(k), c)
  <2>1. c = 0 \/ ~x.cantilever
    BY <1>2 DEF Tracked
  <2>2. f \in Fractions \X Fractions /\ Plus(F(1), F(2)) = Borne(x, LoadsOn(k), c)
    BY <1>2, <1>3, <2>1, ForcesSplit DEF End
  <2> QED BY <2>2, BorneIs
<1> HIDE DEF x, f
<1>5. w[k] = Plus(F(1), F(2))
  BY <1>2, <1>4 DEF Held
<1>6. v[k] = Plus(kept(1), kept(2))
  <2>1. reactions'[k] = f /\ f # None
    BY <1>1, <1>2, <1>4, NoneAssumption DEF TransferTypeOK, NoneAssumption
  <2>2. \A e : AtEnd(k, e, c)' = F(e)
    BY <1>1, <2>1 DEF AtEnd, x
  <2>3. \A e : Kept(k, e, c)' = kept(e)
    BY <1>1, <2>2 DEF Kept
  <2>4. Held(k, c)' = Plus(kept(1), kept(2))
    BY <2>1, <2>3 DEF Held
  <2> QED BY <1>2, <2>4
<1>7. ASSUME NEW r \in S
      PROVE  /\ w[r] \in Fractions /\ g1[r] \in Fractions /\ g2[r] \in Fractions
             /\ v[r] = Plus(Plus(w[r], g1[r]), g2[r])
  <2>1. r \in Members /\ r # k /\ extra[r] \in Seq(Loads) /\ Held(r, c) \in Fractions
    BY <1>1, HeldTyped DEF TransferTypeOK
  <2>2. reactions'[r] = reactions[r]
    BY <1>1, <2>1 DEF TransferTypeOK
  <2>3. /\ Gain(k, f, 1, r, c) \in Fractions /\ Gain(k, f, 2, r, c) \in Fractions
        /\ Borne(Axis(model, r), Axis(model, r).loads \o Handed(k, f)[r], c)
             = Plus(Plus(Borne(Axis(model, r), LoadsOn(r), c), Gain(k, f, 1, r, c)), Gain(k, f, 2, r, c))
    BY <1>1, <1>2, <1>4, <2>1, LoadsHanded
  <2>4. Held(r, c)' = Plus(Plus(Held(r, c), Gain(k, f, 1, r, c)), Gain(k, f, 2, r, c))
    <3>1. CASE reactions[r] = None
      <4>1. Held(r, c) = Borne(Axis(model, r), LoadsOn(r), c)
        BY <3>1, BorneIs DEF Held
      <4>2. Held(r, c)' = OnMember(r, LoadsOn(r), c)'
        BY <2>2, <3>1 DEF Held
      <4>3. OnMember(r, LoadsOn(r), c)' = Borne(Axis(model, r), Axis(model, r).loads \o Handed(k, f)[r], c)
        BY <1>1 DEF OnMember, LoadsOn, Borne
      <4> QED BY <2>3, <4>1, <4>2, <4>3
    <3>2. CASE reactions[r] # None
      <4>1. ~RestsOn(k, r)
        BY <1>2, <2>1, <3>2 DEF Solved
      <4>2. Gain(k, f, 1, r, c) = Zero /\ Gain(k, f, 2, r, c) = Zero
        BY <4>1 DEF Gain, RestsOn
      <4>3. \A e : Kept(r, e, c)' = Kept(r, e, c)
        BY <1>1, <2>2 DEF Kept, AtEnd
      <4>4. Held(r, c)' = Held(r, c)
        BY <2>2, <3>2, <4>3 DEF Held
      <4> QED BY <2>1, <4>2, <4>4, PlusZero
    <3> QED BY <3>1, <3>2
  <2> QED BY <2>1, <2>3, <2>4
<1>8. IsFiniteSet(Members) /\ IsFiniteSet(S) /\ Members \ {k} = S
  BY <1>1, MembersFinite, FS_Subset
<1>9. /\ kept(1) \in Fractions /\ Total(S, g1) \in Fractions /\ F(1) = Plus(kept(1), Total(S, g1))
      /\ kept(2) \in Fractions /\ Total(S, g2) \in Fractions /\ F(2) = Plus(kept(2), Total(S, g2))
  <2>1. 1 \in Ends /\ 2 \in Ends
    BY DEF Ends
  <2> QED BY <1>1, <1>2, <1>4, <2>1, EndGives DEF x
<1>10. Applied(c) = Total(Members, w)
  BY DEF TransferInv, Balance
<1>11. Total(Members, [r \in Members |-> Held(r, c)])' = Total(Members, v)
  BY <1>1
<1>12. w[k] \in Fractions /\ v[k] \in Fractions
  <2>1. F(1) \in Fractions /\ F(2) \in Fractions
    BY <1>9, ResultsTyped
  <2> QED BY <1>5, <1>6, <1>9, <2>1, ResultsTyped
<1> DEFINE F1 == F(1)
           F2 == F(2)
           k1 == kept(1)
           k2 == kept(2)
<1> HIDE DEF F1, F2, k1, k2, g1, g2, w, v, S
<1> DEFINE T == Total(S, w)
           M1 == Total(S, g1)
           M2 == Total(S, g2)
<1>13. Weighing(w, S) /\ Weighing(g1, S) /\ Weighing(g2, S)
  BY <1>7 DEF Weighing
<1>14. T \in Fractions
  BY <1>8, <1>13, TotalTyped
<1>15. Total(S, v) = Plus(Plus(T, M1), M2)
  <2> DEFINE u == [r \in S |-> Plus(w[r], g1[r])]
  <2>1. \A r \in S : u[r] = Plus(w[r], g1[r]) /\ u[r] \in Fractions /\ v[r] = Plus(u[r], g2[r])
    BY <1>7, ResultsTyped
  <2> HIDE DEF u
  <2>2. Weighing(u, S)
    BY <2>1 DEF Weighing
  <2>3. Total(S, u) = Plus(T, M1)
    BY <1>8, <1>13, <2>1, TotalPlus
  <2>4. Total(S, v) = Plus(Total(S, u), M2)
    BY <1>8, <1>13, <2>1, <2>2, TotalPlus
  <2> QED BY <2>3, <2>4
<1>16. Total(Members, w) = Plus(w[k], T) /\ Total(Members, v) = Plus(v[k], Total(S, v))
  <2>1. Weighing(w, Members) /\ Weighing(v, Members)
    <3>1. ASSUME NEW r \in Members PROVE w[r] \in Fractions /\ v[r] \in Fractions
      <4>1. CASE r = k
        BY <1>12, <4>1
      <4>2. CASE r # k
        <5>1. r \in S
          BY <4>2 DEF S
        <5> QED BY <1>7, <5>1, ResultsTyped
      <4> QED BY <4>1, <4>2
    <3> QED BY <3>1 DEF Weighing
  <2> QED BY <1>2, <1>8, <2>1, TotalAdds
<1>17. Plus(Plus(k1, k2), Plus(Plus(T, M1), M2)) = Plus(Plus(Plus(k1, M1), Plus(k2, M2)), T)
  <2>1. k1 \in Fractions /\ k2 \in Fractions /\ M1 \in Fractions /\ M2 \in Fractions
    BY <1>9 DEF k1, k2
  <2> HIDE DEF T, M1, M2
  <2> QED BY <1>14, <2>1, Rearranged
<1>18. Total(Members, v) = Total(Members, w)
  BY <1>5, <1>6, <1>9, <1>15, <1>16, <1>17 DEF k1, k2, F1, F2
<1> QED BY <1>1, <1>10, <1>11, <1>18, AppliedStays DEF v

LEMMA TransferStep ==
  ASSUME Inv, TransferInv, TransferMember
  PROVE  TransferInv'
<1> DEFINE k == Turn
           x == Axis(model, k)
           f == ForcesAt(x, LoadsOn(k))
<1>1. /\ OrderTypeOK /\ TransferTypeOK
      /\ model' = model /\ supports' = supports /\ Members' = Members /\ order' = order
      /\ phase = "transfer" /\ phase' = phase /\ turn' = turn + 1 /\ turn \in Nat /\ turn <= Len(order)
      /\ reactions' = [reactions EXCEPT ![k] = f] /\ extra' = Handed(k, f)
  BY DEF Inv, TransferInv, TransferMember, Members, TransferTypeOK
<1>2. k \in Members /\ reactions[k] = None /\ (Vertical(x) => ValidShares(x))
  BY TurnFacts
<1>3. Sound(x) /\ LoadsOn(k) \in Seq(Loads)
  BY <1>1, <1>2, MemberIsSound, HeldTyped DEF Moments
<1>4. f \in Fractions \X Fractions /\ (x.cantilever => f[2] = Zero)
  BY <1>2, <1>3, ForcesSplit
<1> HIDE DEF f, x
<1>5. TransferTypeOK'
  <2>1. ASSUME NEW r \in Members PROVE Handed(k, f)[r] \in Seq(Loads)
    BY <1>1, <1>2, <1>4, LoadsHanded DEF TransferTypeOK, Moments
  <2>2. Handed(k, f) \in [Members -> Seq(Loads)]
    BY <2>1 DEF Handed
  <2>3. reactions' \in [Members -> (Fractions \X Fractions) \union {None}]
    BY <1>1, <1>4 DEF TransferTypeOK
  <2> HIDE DEF k
  <2> QED BY <1>1, <2>2, <2>3 DEF TransferTypeOK
<1>6. \A r \in Solved' : r = k \/ (r \in Solved /\ reactions'[r] = reactions[r])
  BY <1>1 DEF Solved, TransferTypeOK
<1>7. TurnsDone'
  <2>1. turn \in DOMAIN order /\ order[turn] = k
    BY <1>1 DEF OrderTypeOK, TransferInv, TurnsDone, Turn
  <2>2. ASSUME NEW r \in Solved' PROVE \E i \in DOMAIN order : i < turn + 1 /\ order[i] = r
    <3>1. CASE r = k
      BY <1>1, <2>1, <3>1
    <3>2. CASE r # k
      <4>1. PICK i \in DOMAIN order : i < turn /\ order[i] = r
        BY <1>6, <3>2 DEF TransferInv, TurnsDone
      <4>2. i < turn + 1
        BY <1>1, <4>1 DEF OrderTypeOK
      <4> QED BY <4>1, <4>2
    <3> QED BY <3>1, <3>2
  <2> HIDE DEF k
  <2> QED BY <1>1, <2>2 DEF TurnsDone
<1>8. FreeEndsIdle'
  <2>1. ASSUME NEW r \in Solved', NEW e \in Ends, supports[r][e].on = "Free" PROVE reactions'[r][e] = Zero
    <3>1. CASE r = k
      <4>1. supports[k][e] = SupportOf(model, k, e) /\ WellFormed(model) /\ k \in Ids(model)
        BY <1>1, <1>2, MemberIsSound
      <4>2. IsFree(x, e)
        BY <2>1, <3>1, <4>1, OtherEnds DEF x
      <4>3. reactions'[k] = f
        BY <1>1, <1>2 DEF TransferTypeOK
      <4> QED BY <1>4, <3>1, <4>2, <4>3 DEF IsFree
    <3>2. CASE r # k
      BY <1>6, <2>1, <3>2 DEF TransferInv, FreeEndsIdle
    <3> QED BY <3>1, <3>2
  <2> QED BY <1>1, <2>1 DEF FreeEndsIdle
<1>9. Balance'
  <2>1. ASSUME NEW c \in Moments, Tracked(c)' PROVE Applied(c)' = Total(Members, [r \in Members |-> Held(r, c)])'
    <3>1. Tracked(c)
      BY <1>1, <2>1, AppliedStays
    <3>2. PICK turned : turned = Turn
      OBVIOUS
    <3> QED BY <3>1, <3>2, TransferBalance
  <2> QED BY <2>1 DEF Balance
<1> QED BY <1>5, <1>7, <1>8, <1>9 DEF TransferInv

(* What the frame has taken when the transfer is over.                     *)
Emitted == phase = "done" => arrived = [x \in EndsOf("Primary") |-> PrimaryLoad(x)]

LEMMA TransferNext == Inv /\ Inv' /\ TransferInv /\ [Next]_vars => TransferInv'
<1> SUFFICES ASSUME Inv, Inv', TransferInv, [Next]_vars PROVE TransferInv'
  OBVIOUS
<1>1. turn \in Nat /\ \A i \in DOMAIN order : i \in Nat /\ i > 0
  BY DEF Inv, OrderTypeOK, TransferInv, TransferTypeOK
<1>2. phase = "order" => turn = 0 /\ Solved = {}
  BY <1>1 DEF TransferInv, TurnsDone
<1>3. reactions' = reactions /\ supports' = supports => Solved' = Solved
  BY DEF Solved, Members
<1>4. CASE PopReady
  <2>1. UNCHANGED <<model, supports, extra, reactions, turn, phase>> /\ phase = "order"
    BY <1>4 DEF PopReady
  <2>2. TurnsDone'
    BY <1>2, <1>3, <2>1 DEF TurnsDone
  <2> QED BY <1>1, <2>1, <2>2, TransferStays DEF TransferInv
<1>5. CASE Ordered
  <2>1. UNCHANGED <<model, supports, extra, reactions>> /\ phase = "order" /\ turn' = 1 /\ phase' = "transfer"
    BY <1>5 DEF Ordered
  <2>2. TurnsDone'
    BY <1>2, <1>3, <2>1 DEF TurnsDone
  <2> QED BY <2>1, <2>2, TransferStays DEF TransferInv
<1>6. CASE SkipMember
  <2>1. /\ UNCHANGED <<model, supports, extra, reactions, order, phase>>
        /\ phase = "transfer" /\ turn' = turn + 1
    BY <1>6 DEF SkipMember
  <2>2. ASSUME NEW k \in Solved PROVE \E i \in DOMAIN order : i < turn + 1 /\ order[i] = k
    <3>1. PICK i \in DOMAIN order : i < turn /\ order[i] = k
      BY DEF TransferInv, TurnsDone
    <3>2. i < turn + 1
      BY <1>1, <3>1
    <3> QED BY <3>1, <3>2
  <2>3. TurnsDone'
    BY <1>1, <1>3, <2>1, <2>2 DEF TurnsDone
  <2> QED BY <1>1, <2>1, <2>3, TransferStays DEF TransferInv
<1>7. CASE TransferMember
  BY <1>7, TransferStep
<1>8. CASE Emit
  <2>1. /\ UNCHANGED <<model, supports, extra, reactions, order, turn>>
        /\ phase = "transfer" /\ phase' = "done"
    BY <1>8 DEF Emit
  <2>2. TurnsDone'
    BY <1>3, <2>1 DEF TransferInv, TurnsDone
  <2> QED BY <1>1, <2>1, <2>2, TransferStays DEF TransferInv
<1>9. CASE UNCHANGED vars
  <2>1. UNCHANGED <<model, supports, extra, reactions, order, turn, phase>>
    BY <1>9 DEF vars
  <2>2. TurnsDone'
    BY <1>3, <2>1 DEF TransferInv, TurnsDone
  <2> QED BY <1>1, <2>1, <2>2, TransferStays DEF TransferInv
<1> QED BY <1>4, <1>5, <1>6, <1>7, <1>8, <1>9 DEF Next

LEMMA NextEmitted == Emitted /\ [Next]_vars => Emitted'
<1> SUFFICES ASSUME Emitted, [Next]_vars, phase' = "done"
             PROVE  arrived' = [x \in EndsOf("Primary") |-> PrimaryLoad(x)]'
  BY DEF Emitted
<1>1. CASE Emit
  <2>1. UNCHANGED <<model, supports, reactions>> /\ arrived' = [x \in EndsOf("Primary") |-> PrimaryLoad(x)]
    BY <1>1 DEF Emit
  <2>2. EndsOf("Primary")' = EndsOf("Primary")
    BY <2>1 DEF EndsOf, Solved, Members
  <2>3. \A x : PrimaryLoad(x)' = PrimaryLoad(x)
    BY <2>1 DEF PrimaryLoad, Resolved, OnSpan
  <2> QED BY <2>1, <2>2, <2>3
<1>2. CASE UNCHANGED vars
  <2>1. UNCHANGED <<model, supports, reactions, arrived, phase>>
    BY <1>2 DEF vars
  <2>2. EndsOf("Primary")' = EndsOf("Primary")
    BY <2>1 DEF EndsOf, Solved, Members
  <2>3. \A x : PrimaryLoad(x)' = PrimaryLoad(x)
    BY <2>1 DEF PrimaryLoad, Resolved, OnSpan
  <2> QED BY <2>1, <2>2, <2>3 DEF Emitted
<1>3. CASE PopReady \/ Ordered \/ SkipMember \/ TransferMember
  BY <1>3 DEF PopReady, Ordered, SkipMember, TransferMember
<1> QED BY <1>1, <1>2, <1>3 DEF Next

LEMMA ArrivedIs ==
  ASSUME Inv, TransferInv, Emitted, phase = "done", NEW c \in Moments
  PROVE  LET P == EndsOf("Primary")
         IN  /\ \A x \in P : AtEnd(x[1], x[2], c) \in Fractions
             /\ Arrived(c) = Total(P, [x \in P |-> AtEnd(x[1], x[2], c)])
<1> DEFINE P == EndsOf("Primary")
           u == [x \in P |-> AtEnd(x[1], x[2], c)]
<1>1. OrderTypeOK /\ TransferTypeOK /\ arrived = [x \in P |-> PrimaryLoad(x)]
  BY DEF Inv, TransferInv, Emitted
<1>2. \A x \in P : /\ x[1] \in Solved /\ x[1] \in Members /\ x[2] \in Ends /\ x = <<x[1], x[2]>>
                   /\ supports[x[1]][x[2]].on = "Primary" /\ reactions[x[1]] # None
  BY DEF EndsOf, Solved
<1>3. ASSUME NEW x \in P
      PROVE  /\ PrimaryLoad(x).on = "node" => Connected(model, PrimaryLoad(x).node)
             /\ Weighted(PrimaryLoad(x).p, Place(PrimaryLoad(x)), c) = AtEnd(x[1], x[2], c)
             /\ AtEnd(x[1], x[2], c) \in Fractions
  <2> DEFINE k == x[1]
             e == x[2]
  <2>1. k \in Members /\ e \in Ends /\ x = <<k, e>> /\ supports[k][e].on = "Primary" /\ reactions[k] # None
    BY <1>2
  <2> HIDE DEF k, e
  <2>2. WellFormed(model) /\ k \in Ids(model) /\ supports[k][e] = SupportOf(model, k, e)
    BY <1>1, <2>1, MemberIsSound
  <2>3. OnFrame(model, End(Axis(model, k), e))
    BY <2>1, <2>2, OtherEnds
  <2>4. LET l == PrimaryLoad(<<k, e>>)
        IN  /\ l.p = reactions[k][e]
            /\ l.on = "node" => Connected(model, l.node)
            /\ Place(l) = Exactly(End(Axis(model, k), e))
    BY <2>1, <2>2, <2>3, PrimaryTaken
  <2>5. AtEnd(k, e, c) \in Fractions
    BY <1>1, <2>1, HeldTyped
  <2> QED BY <2>1, <2>4, <2>5 DEF AtEnd, k, e
<1>4. Taken = P
  BY <1>1, <1>3 DEF Taken
<1>5. [x \in Taken |-> Weighted(arrived[x].p, Place(arrived[x]), c)] = u
  BY <1>1, <1>3, <1>4
<1> QED BY <1>3, <1>4, <1>5 DEF Arrived

LEMMA AllAccounted ==
  ASSUME Inv, TransferInv, Emitted, phase = "done", NEW c \in Moments, Tracked(c)
  PROVE  Applied(c) = Plus(Arrived(c), Stopped(c))
<1> DEFINE left == Members \ Solved
           P == EndsOf("Primary")
           U == EndsOf("Unresolved")
           Pairs == Solved \X (1..2)
           First == {x \in Pairs : supports[x[1]][x[2]].on = "Primary"}
           Other == Pairs \ First
           w == [k \in Members |-> Held(k, c)]
           z == [x \in Pairs |-> Kept(x[1], x[2], c)]
           zP == [x \in P |-> AtEnd(x[1], x[2], c)]
           zU == [x \in U |-> AtEnd(x[1], x[2], c)]
           held == [k \in left |-> OnMember(k, LoadsOn(k), c)]
<1>1. OrderTypeOK /\ TransferTypeOK
  BY DEF Inv, TransferInv
<1>2. /\ IsFiniteSet(Members) /\ Solved \in SUBSET Members /\ IsFiniteSet(Solved) /\ IsFiniteSet(left)
      /\ Members = Solved \union left /\ Solved \intersect left = {}
  <2>1. IsFiniteSet(Members) /\ Solved \in SUBSET Members /\ left \in SUBSET Members
    BY <1>1, MembersFinite DEF Solved
  <2>2. IsFiniteSet(Solved) /\ IsFiniteSet(left)
    BY <2>1, FS_Subset
  <2> QED BY <2>1, <2>2
<1>3. /\ IsFiniteSet(Pairs) /\ IsFiniteSet(First) /\ IsFiniteSet(Other)
      /\ First \union Other = Pairs /\ First \intersect Other = {}
  <2>1. IsFiniteSet(Pairs)
    <3>1. IsFiniteSet(1..2)
      BY EndsAreTwo DEF Ends
    <3> QED BY <1>2, <3>1, FS_Product
  <2>2. First \in SUBSET Pairs /\ Other \in SUBSET Pairs
    OBVIOUS
  <2> QED BY <2>1, <2>2, FS_Subset
<1>4. ASSUME NEW k \in Solved, NEW e \in 1..2
      PROVE  /\ k \in Members /\ reactions[k] # None /\ e \in Ends
             /\ AtEnd(k, e, c) \in Fractions /\ Kept(k, e, c) \in Fractions
             /\ supports[k][e].on \in {"Primary", "Secondary", "Free", "Unresolved"}
             /\ reactions[k][e] = Zero => AtEnd(k, e, c) = Zero
             /\ supports[k][e].on = "Free" => AtEnd(k, e, c) = Zero
  <2>1. k \in Members /\ reactions[k] # None /\ e \in Ends
    BY DEF Solved, Ends
  <2>2. AtEnd(k, e, c) \in Fractions /\ Kept(k, e, c) \in Fractions
    BY <1>1, <2>1, HeldTyped
  <2>3. WellFormed(model) /\ k \in Ids(model) /\ supports[k][e] = SupportOf(model, k, e)
    BY <1>1, <2>1, MemberIsSound
  <2>4. supports[k][e].on \in {"Primary", "Secondary", "Free", "Unresolved"}
    BY <2>1, <2>3, OtherEnds
  <2>5. reactions[k][e] = Zero => AtEnd(k, e, c) = Zero
    <3>1. Exactly(End(Axis(model, k), e)) \in Spots
      BY <2>1, <2>3, EndIsPoint, SpotsTyped
    <3> QED BY <3>1, Constants, WeightedFacts DEF AtEnd
  <2>6. supports[k][e].on = "Free" => reactions[k][e] = Zero
    BY <2>1 DEF TransferInv, FreeEndsIdle
  <2> QED BY <2>1, <2>2, <2>4, <2>5, <2>6
<1>5. ASSUME NEW x \in Pairs
      PROVE  /\ x[1] \in Solved /\ x[2] \in 1..2 /\ x \in Solved \X Ends
             /\ z[x] = Kept(x[1], x[2], c) /\ z[x] \in Fractions
  <2>1. x[1] \in Solved /\ x[2] \in 1..2 /\ x \in Solved \X Ends
    BY DEF Ends
  <2> QED BY <1>4, <2>1
<1>6. \A k \in Members : w[k] = Held(k, c) /\ w[k] \in Fractions
  BY <1>1, HeldTyped
<1>7. Applied(c) = Total(Members, w)
  BY DEF TransferInv, Balance
<1>8. ASSUME NEW k \in Solved PROVE w[k] = Plus(z[<<k, 1>>], z[<<k, 2>>])
  BY <1>2, <1>4, <1>5 DEF Held
<1>9. ASSUME NEW k \in left PROVE w[k] = held[k] /\ held[k] \in Fractions
  BY <1>1, <1>6, HeldTyped DEF Solved, Held
<1>10. /\ P \in SUBSET First
       /\ \A x \in P : zP[x] = z[x]
       /\ \A x \in First \ P : z[x] = Zero
  <2>1. P \in SUBSET First
    BY DEF EndsOf, Ends
  <2>2. \A x \in First : z[x] = AtEnd(x[1], x[2], c)
    BY <1>5 DEF Kept
  <2>3. \A x \in First \ P : reactions[x[1]][x[2]] = Zero
    BY <1>5 DEF EndsOf
  <2>4. \A x \in P : zP[x] = AtEnd(x[1], x[2], c)
    OBVIOUS
  <2>5. ASSUME NEW x \in First \ P PROVE z[x] = Zero
    <3>1. reactions[x[1]][x[2]] = Zero /\ x \in Pairs
      BY <2>3
    <3>2. AtEnd(x[1], x[2], c) = Zero
      BY <1>4, <1>5, <3>1
    <3> QED BY <2>2, <3>2
  <2> QED BY <2>1, <2>2, <2>4, <2>5
<1>11. /\ U \in SUBSET Other
       /\ \A x \in U : zU[x] = z[x]
       /\ \A x \in Other \ U : z[x] = Zero
  <2>1. U \in SUBSET Other
    BY DEF EndsOf, Ends
  <2>2. \A x \in U : z[x] = AtEnd(x[1], x[2], c)
    <3>1. \A x \in U : supports[x[1]][x[2]].on = "Unresolved"
      BY DEF EndsOf
    <3> QED BY <1>5, <2>1, <3>1 DEF Kept
  <2>3. ASSUME NEW x \in Other \ U PROVE z[x] = Zero
    <3>1. supports[x[1]][x[2]].on # "Primary"
      OBVIOUS
    <3>2. CASE supports[x[1]][x[2]].on = "Secondary"
      BY <1>5, <3>2 DEF Kept
    <3>3. CASE supports[x[1]][x[2]].on = "Free"
      BY <1>4, <1>5, <3>3 DEF Kept
    <3>4. CASE supports[x[1]][x[2]].on = "Unresolved"
      <4>1. reactions[x[1]][x[2]] = Zero
        BY <1>5, <3>4 DEF EndsOf
      <4> QED BY <1>4, <1>5, <3>4, <4>1 DEF Kept
    <3> QED BY <1>4, <1>5, <3>1, <3>2, <3>3, <3>4
  <2> QED BY <2>1, <2>2, <2>3
<1>12. Arrived(c) = Total(P, zP)
  BY ArrivedIs
<1>13. Stopped(c) = Plus(Total(U, zU), Total(left, held))
  BY DEF Stopped
<1> HIDE DEF left, P, U, Pairs, First, Other, w, z, zP, zU, held
<1>14. Total(Members, w) = Plus(Total(Solved, w), Total(left, w))
  <2>1. Weighing(w, Solved \union left)
    BY <1>2, <1>6 DEF Weighing
  <2>2. Total(Solved \union left, w) = Plus(Total(Solved, w), Total(left, w))
    BY <1>2, <2>1, TotalUnion
  <2> QED BY <1>2, <2>2
<1>15. Total(left, w) = Total(left, held) /\ Total(left, held) \in Fractions
  <2>1. Weighing(w, left) /\ Weighing(held, left)
    BY <1>9 DEF Weighing
  <2> QED BY <1>2, <1>9, <2>1, TotalSame, TotalTyped
<1>16. Total(Solved, w) = Total(Pairs, z)
  <2>1. Weighing(z, Solved \X (1..2))
    BY <1>5 DEF Weighing, Pairs
  <2> QED BY <1>2, <1>8, <2>1, TotalOfPairs DEF Pairs
<1>17. Total(Pairs, z) = Plus(Total(First, z), Total(Other, z))
  <2>1. Weighing(z, First \union Other)
    BY <1>3, <1>5 DEF Weighing
  <2>2. Total(First \union Other, z) = Plus(Total(First, z), Total(Other, z))
    BY <1>3, <2>1, TotalUnion
  <2> QED BY <1>3, <2>2
<1>18. Total(First, z) = Total(P, zP) /\ Total(P, zP) \in Fractions
  <2>1. IsFiniteSet(P) /\ Weighing(z, P) /\ Weighing(zP, P)
    BY <1>3, <1>5, <1>10, FS_Subset DEF Weighing
  <2>2. Total(First, z) = Total(P, z)
    BY <1>3, <1>10, <2>1, TotalOfPart
  <2> QED BY <1>10, <2>1, <2>2, TotalSame, TotalTyped
<1>19. Total(Other, z) = Total(U, zU) /\ Total(U, zU) \in Fractions
  <2>1. IsFiniteSet(U) /\ Weighing(z, U) /\ Weighing(zU, U)
    BY <1>3, <1>5, <1>11, FS_Subset DEF Weighing
  <2>2. Total(Other, z) = Total(U, z)
    BY <1>3, <1>11, <2>1, TotalOfPart
  <2> QED BY <1>11, <2>1, <2>2, TotalSame, TotalTyped
<1>20. Plus(Plus(Total(P, zP), Total(U, zU)), Total(left, held))
         = Plus(Total(P, zP), Plus(Total(U, zU), Total(left, held)))
  BY <1>15, <1>18, <1>19, PlusAssociates
<1> QED BY <1>7, <1>12, <1>13, <1>14, <1>15, <1>16, <1>17, <1>18, <1>19, <1>20

\* Every load of the joists and posts arrives on the frame or stays where it is
\* reported, once, and with its moment (solve_with_basis, cascade.rs:391-551;
\* primary_loads, 97-161).
THEOREM AllLoadsArrive == Spec => []LoadsArrive
<1>1. Init => TransferInv /\ Emitted
  BY InitTransfer DEF Init, Emitted
<1>2. Inv /\ Inv' /\ TransferInv /\ Emitted /\ [Next]_vars => (TransferInv /\ Emitted)'
  BY TransferNext, NextEmitted
<1>3. Inv /\ TransferInv /\ Emitted => LoadsArrive
  BY AllAccounted DEF LoadsArrive, Tracked
<1> QED BY <1>1, <1>2, <1>3, OrderInvariant, PTL DEF Spec
=============================================================================
