------------------------------ MODULE Rational ------------------------------
(***************************************************************************)
(* Exact fractions for the numbers the program keeps as f64: a fraction is *)
(* <<n, d>> in lowest terms with d > 0.  Rounding, infinities and NaN are  *)
(* left out.                                                               *)
(***************************************************************************)
EXTENDS Integers

Magnitude(n) == IF n < 0 THEN -n ELSE n

\* Euclid's algorithm
gcd[n \in Nat] == [m \in Nat |-> IF n = 0 THEN m ELSE gcd[m % n][n]]

Frac(n, d) ==
    LET g == gcd[Magnitude(d)][Magnitude(n)]
        s == IF d < 0 THEN -1 ELSE 1
    IN  <<s * (n \div g), s * (d \div g)>>

\* The fractions as they are written: in lowest terms.
Fractions == {q \in Int \X (Nat \ {0}) : Frac(q[1], q[2]) = q}

Whole(n) == <<n, 1>>
Zero == Whole(0)
One == Whole(1)

Plus(x, y)   == Frac(x[1] * y[2] + y[1] * x[2], x[2] * y[2])
Minus(x, y)  == Frac(x[1] * y[2] - y[1] * x[2], x[2] * y[2])
Times(x, y)  == Frac(x[1] * y[1], x[2] * y[2])
Over(x, y)   == Frac(x[1] * y[2], x[2] * y[1])
Negated(x)   == <<-x[1], x[2]>>
Absolute(x)  == <<Magnitude(x[1]), x[2]>>
Leq(x, y)    == x[1] * y[2] <= y[1] * x[2]
Less(x, y)   == x[1] * y[2] < y[1] * x[2]
Larger(x, y) == IF Leq(x, y) THEN y ELSE x

\* f64::powi with a natural exponent
Power(x, k) == LET p[i \in Nat] == IF i = 0 THEN One ELSE Times(x, p[i - 1]) IN p[k]
=============================================================================
