------------------------------ MODULE Fraction ------------------------------
(* Exact fractions <<numerator, denominator>> in lowest terms, for the       *)
(* numbers the program keeps as floats or Decimals.                          *)
EXTENDS Integers

Gcd[p \in Nat \X Nat] == IF p[2] = 0 THEN p[1] ELSE Gcd[<<p[2], p[1] % p[2]>>]

Abs(a) == IF a < 0 THEN -a ELSE a

\* a / b for integers, b # 0.
Over(a, b) ==
    LET g == Gcd[<<Abs(a), Abs(b)>>]
        s == IF b < 0 THEN -1 ELSE 1
    IN  <<s * (a \div g), s * (b \div g)>>

Whole(a) == <<a, 1>>
Zero == Whole(0)
One == Whole(1)

p ++ q == Over(p[1] * q[2] + q[1] * p[2], p[2] * q[2])
p -- q == Over(p[1] * q[2] - q[1] * p[2], p[2] * q[2])
p ** q == Over(p[1] * q[1], p[2] * q[2])
p // q == Over(p[1] * q[2], p[2] * q[1])

Less(p, q) == p[1] * q[2] < q[1] * p[2]
AtMost(p, q) == p[1] * q[2] <= q[1] * p[2]
Least(p, q) == IF AtMost(p, q) THEN p ELSE q
Greatest(p, q) == IF AtMost(p, q) THEN q ELSE p
Floor(p) == p[1] \div p[2]
=============================================================================
