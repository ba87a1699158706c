----------------------------- MODULE Rules_proofs -----------------------------
(* Proofs about the rules that keep no state, for every input: the sizing of a *)
(* trade, what the adapters make of the exchanges' answers, what is shown of   *)
(* stops and windows, the extremes of a trade, regimes and their signals, and  *)
(* the equity curve rebuilt from income.                                       *)
(*                                                                             *)
(* The library's induction theorems take an operator, which the provers cannot *)
(* instantiate; a least element is a fact about sets, so the module proves     *)
(* induction in the form "a set with 0 and the next of each of its numbers has *)
(* all", and with it that a recursive divisor and a fold over a sequence are   *)
(* what their definitions say.                                                 *)
EXTENDS MCRules, FiniteSetTheorems, WellFoundedInduction, TLAPS

-----------------------------------------------------------------------------
(* Numbers.                                                                    *)

(* The least number of a set. *)
LEMMA LeastNumber ==
  ASSUME NEW T \in SUBSET Nat, T # {}
  PROVE  \E x \in T : \A y \in T : x <= y
<1>1. PICK x \in T : \A y \in T : ~(<<y, x>> \in OpToRel(<, Nat))
  BY NatLessThanWellFounded, WFMin, Zenon
<1>2. \A y \in T : ~(y < x)
  BY <1>1 DEF OpToRel
<1> QED
  BY <1>2

(* Induction: a set of numbers with zero and the next of each has all. *)
LEMMA Induction ==
  ASSUME NEW T, 0 \in T, \A k \in Nat : k \in T => k + 1 \in T
  PROVE  Nat \subseteq T
<1> DEFINE U == Nat \ T
<1> SUFFICES ASSUME U # {} PROVE FALSE
  OBVIOUS
<1>1. PICK x \in U : \A y \in U : x <= y
  <2>1. U \in SUBSET Nat
    OBVIOUS
  <2> HIDE DEF U
  <2> QED
    BY <2>1, LeastNumber
<1>2. x # 0 /\ x \in Nat
  BY <1>1
<1>3. x - 1 \in Nat /\ ~(x <= x - 1)
  BY <1>2
<1>4. x - 1 \in T
  BY <1>1, <1>3
<1>5. (x - 1) + 1 \in T /\ (x - 1) + 1 = x
  BY <1>2, <1>3, <1>4
<1> QED
  BY <1>1, <1>5

Divides(d, a) == \E k \in Nat : a = d * k

LEMMA DividesPlus ==
  ASSUME NEW d \in Nat, NEW a \in Nat, NEW b \in Nat, NEW q \in Nat, Divides(d, b)
  PROVE  Divides(d, a) <=> Divides(d, b * q + a)
<1>1. PICK k \in Nat : b = d * k
  BY DEF Divides
<1>2. ASSUME Divides(d, a) PROVE Divides(d, b * q + a)
  <2>1. PICK j \in Nat : a = d * j
    BY <1>2 DEF Divides
  <2>2. b * q + a = d * (k * q + j)
    BY <1>1, <2>1
  <2>3. k * q + j \in Nat
    OBVIOUS
  <2> QED
    BY <2>2, <2>3 DEF Divides
<1>3. ASSUME Divides(d, b * q + a) PROVE Divides(d, a)
  <2>1. PICK j \in Nat : b * q + a = d * j
    BY <1>3 DEF Divides
  <2>2. a = d * (j - k * q)
    BY <1>1, <2>1
  <2>3. CASE d = 0
    <3>1. a = d * 0
      BY <2>2, <2>3
    <3> QED
      BY <3>1 DEF Divides
  <2>4. CASE d > 0
    <3>1. j - k * q \in Int
      OBVIOUS
    <3>2. j - k * q >= 0
      <4> SUFFICES ASSUME j - k * q <= -1 PROVE FALSE
        BY <3>1
      <4>1. d * (j - k * q) <= d * (-1)
        BY <3>1
      <4> QED
        BY <4>1, <2>2, <2>4
    <3>3. j - k * q \in Nat
      BY <3>1, <3>2
    <3> HIDE DEF Divides
    <3>4. \E i \in Nat : a = d * i
      BY <2>2, <3>3
    <3> QED
      BY <3>4 DEF Divides
  <2> QED
    BY <2>3, <2>4
<1> QED
  BY <1>2, <1>3

LEMMA DividesMod ==
  ASSUME NEW d \in Nat, NEW a \in Nat, NEW b \in Nat, b > 0, Divides(d, b)
  PROVE  Divides(d, a) <=> Divides(d, a % b)
<1>1. /\ a \div b \in Nat /\ a % b \in Nat
      /\ a = b * (a \div b) + (a % b)
  OBVIOUS
<1> QED
  BY <1>1, DividesPlus

LEMMA DividesEachOther ==
  ASSUME NEW a \in Nat, NEW b \in Nat, Divides(a, b), Divides(b, a)
  PROVE  a = b
<1>1. PICK j \in Nat : b = a * j
  BY DEF Divides
<1>2. PICK k \in Nat : a = b * k
  BY DEF Divides
<1>3. CASE a = 0
  BY <1>1, <1>3
<1>4. CASE b = 0
  BY <1>2, <1>4
<1>5. CASE a > 0 /\ b > 0
  <2>1. j >= 1 /\ k >= 1
    BY <1>1, <1>2, <1>5
  <2>2. b >= a
    BY <1>1, <2>1, <1>5
  <2>3. a >= b
    BY <1>2, <2>1, <1>5
  <2> QED
    BY <2>2, <2>3
<1> QED
  BY <1>3, <1>4, <1>5

(* The equation that defines Gcd has a solution: the number whose divisors are *)
(* those of both.                                                              *)
Common(p) == CHOOSE d \in Nat : \A e \in Nat : Divides(e, d) <=> (Divides(e, p[1]) /\ Divides(e, p[2]))

LEMMA GcdDef ==
  \A p \in Nat \X Nat : Gcd[p] = IF p[2] = 0 THEN p[1] ELSE Gcd[<<p[2], p[1] % p[2]>>]
<1> DEFINE G == [p \in Nat \X Nat |-> Common(p)]
           Eq(g) == g = [p \in Nat \X Nat |-> IF p[2] = 0 THEN p[1] ELSE g[<<p[2], p[1] % p[2]>>]]
<1>1. ASSUME NEW p \in Nat \X Nat, p[2] = 0 PROVE G[p] = p[1]
  <2>1. \A e \in Nat : Divides(e, 0)
    <3>1. \A e \in Nat : 0 = e * 0
      OBVIOUS
    <3> QED
      BY <3>1 DEF Divides
  <2>2. \A e \in Nat : Divides(e, p[1]) <=> (Divides(e, p[1]) /\ Divides(e, p[2]))
    BY <2>1, <1>1
  <2>3. p[1] \in Nat
    OBVIOUS
  <2>4. /\ Common(p) \in Nat
        /\ \A e \in Nat : Divides(e, Common(p)) <=> (Divides(e, p[1]) /\ Divides(e, p[2]))
    BY <2>2, <2>3, Zenon DEF Common
  <2>5. \A a \in Nat : Divides(a, a)
    <3>1. \A a \in Nat : a = a * 1
      OBVIOUS
    <3> QED
      BY <3>1 DEF Divides
  <2>6. Divides(Common(p), p[1]) /\ Divides(p[1], Common(p))
    BY <2>2, <2>3, <2>4, <2>5
  <2> QED
    BY <2>3, <2>4, <2>6, DividesEachOther
<1>2. ASSUME NEW p \in Nat \X Nat, p[2] # 0 PROVE G[p] = G[<<p[2], p[1] % p[2]>>]
  <2> DEFINE q == <<p[2], p[1] % p[2]>>
  <2>1. p[1] \in Nat /\ p[2] \in Nat /\ p[2] > 0 /\ p[1] % p[2] \in Nat
    BY <1>2
  <2>2. q \in Nat \X Nat
    BY <2>1
  <2>3. \A e \in Nat : (Divides(e, p[1]) /\ Divides(e, p[2])) <=> (Divides(e, q[1]) /\ Divides(e, q[2]))
    BY <2>1, DividesMod
  <2>4. Common(p) = Common(q)
    BY <2>3, Zenon DEF Common
  <2> QED
    BY <2>2, <2>4
<1>3. Eq(G)
  BY <1>1, <1>2, Zenon
<1>4. Gcd = CHOOSE g : Eq(g)
  BY DEF Gcd
<1> HIDE DEF Eq
<1>5. Eq(Gcd)
  BY <1>3, <1>4
<1> QED
  BY <1>5 DEF Eq

LEMMA GcdDivides ==
  ASSUME NEW a \in Nat, NEW b \in Nat
  PROVE  LET g == Gcd[<<a, b>>]
         IN  g \in Nat /\ Divides(g, a) /\ Divides(g, b) /\ (b > 0 => g > 0)
<1> DEFINE Good(x, y) == LET g == Gcd[<<x, y>>]
                         IN  g \in Nat /\ Divides(g, x) /\ Divides(g, y) /\ (y > 0 => g > 0)
           T == {y \in Nat : \E x \in Nat : ~Good(x, y)}
<1> SUFFICES T = {}
  OBVIOUS
<1> SUFFICES ASSUME T # {} PROVE FALSE
  OBVIOUS
<1>1. PICK y \in T : \A z \in T : y <= z
  <2>1. T \in SUBSET Nat
    OBVIOUS
  <2> HIDE DEF T
  <2> QED
    BY <2>1, LeastNumber
<1>2. PICK x \in Nat : ~Good(x, y)
  BY <1>1
<1>3. y \in Nat /\ <<x, y>> \in Nat \X Nat
  BY <1>1, <1>2
<1>4. CASE y = 0
  <2>1. Gcd[<<x, y>>] = x
    BY <1>3, <1>4, GcdDef
  <2>2. x = x * 1 /\ y = x * 0
    BY <1>4
  <2> QED
    BY <1>2, <1>4, <2>1, <2>2 DEF Divides
<1>5. CASE y > 0
  <2>1. Gcd[<<x, y>>] = Gcd[<<y, x % y>>]
    BY <1>3, <1>5, GcdDef
  <2>2. x % y \in Nat /\ x % y < y
    BY <1>3, <1>5
  <2>3. Good(y, x % y)
    <3> HIDE DEF Good
    <3> SUFFICES ASSUME ~Good(y, x % y) PROVE FALSE
      OBVIOUS
    <3>1. x % y \in T
      BY <1>3, <2>2
    <3> QED
      BY <1>1, <1>3, <2>2, <3>1
  <2> DEFINE g == Gcd[<<x, y>>]
  <2>4. g \in Nat /\ Divides(g, y) /\ Divides(g, x % y)
    BY <2>1, <2>3
  <2>5. Divides(g, x)
    BY <1>3, <1>5, <2>4, DividesMod
  <2>6. g > 0
    <3>1. PICK k \in Nat : y = g * k
      BY <2>4 DEF Divides
    <3> SUFFICES ASSUME g = 0 PROVE FALSE
      BY <2>4
    <3> QED
      BY <3>1, <1>5
  <2> QED
    BY <1>2, <2>4, <2>5, <2>6
<1> QED
  BY <1>3, <1>4, <1>5

-----------------------------------------------------------------------------
Frac == Int \X (Nat \ {0})

LEMMA Cancel ==
  ASSUME NEW a \in Int, NEW b \in Int, NEW c \in Int, c > 0
  PROVE  (a * c <= b * c <=> a <= b) /\ (a * c < b * c <=> a < b) /\ (a * c = b * c <=> a = b)
<1>1. ASSUME NEW x \in Int, NEW y \in Int, x < y PROVE x * c < y * c
  <2>1. PICK d \in Int : y = x + d /\ d >= 1
    <3>1. y = x + (y - x) /\ y - x >= 1 /\ y - x \in Int
      BY <1>1
    <3> QED
      BY <3>1
  <2>2. y * c = x * c + d * c
    BY <2>1
  <2>3. d * c >= 1 * c
    BY <2>1
  <2> QED
    BY <2>2, <2>3
<1>2. CASE a < b
  BY <1>1, <1>2
<1>3. CASE b < a
  BY <1>1, <1>3
<1>4. CASE b = a
  BY <1>4
<1> QED
  BY <1>2, <1>3, <1>4

LEMMA Exact ==
  ASSUME NEW a \in Nat, NEW g \in Nat \ {0}, Divides(g, a)
  PROVE  a \div g \in Nat /\ a = g * (a \div g)
<1>1. PICK k \in Nat : a = g * k
  BY DEF Divides
<1>2. a \div g \in Int /\ a % g \in 0 .. g - 1 /\ a = g * (a \div g) + (a % g)
  OBVIOUS
<1>3. a \div g = k
  <2> DEFINE e == k - (a \div g)
  <2>1. e \in Int /\ g * e = a % g
    BY <1>1, <1>2
  <2> HIDE DEF e
  <2>2. ~(e <= -1)
    <3> SUFFICES ASSUME e <= -1 PROVE FALSE
      OBVIOUS
    <3>1. g * e <= g * (-1)
      BY <2>1
    <3> QED
      BY <3>1, <2>1, <1>2
  <2>3. ~(e >= 1)
    <3> SUFFICES ASSUME e >= 1 PROVE FALSE
      OBVIOUS
    <3>1. g * e >= g * 1
      BY <2>1
    <3> QED
      BY <3>1, <2>1, <1>2
  <2>4. e = 0
    BY <2>1, <2>2, <2>3
  <2> QED
    BY <2>4, <1>2 DEF e
<1> QED
  BY <1>1, <1>3

(* A fraction in lowest terms has the value of the one it is made from.        *)
LEMMA OverFrac ==
  ASSUME NEW a \in Int, NEW b \in Int \ {0}
  PROVE  /\ Over(a, b) \in Frac
         /\ Over(a, b)[1] * b = a * Over(a, b)[2]
         /\ a = 0 => Over(a, b) = Zero
<1> DEFINE x == Abs(a)
           y == Abs(b)
           g == Gcd[<<x, y>>]
           s == IF b < 0 THEN -1 ELSE 1
<1>1. x \in Nat /\ y \in Nat /\ y > 0
  BY DEF Abs
<1>2. g \in Nat \ {0} /\ Divides(g, x) /\ Divides(g, y)
  BY <1>1, GcdDivides
<1>3. y \div g \in Nat /\ y = g * (y \div g) /\ x \div g \in Nat /\ x = g * (x \div g)
  <2> HIDE DEF x, y, g
  <2> QED
    BY <1>1, <1>2, Exact
<1>4. y \div g > 0
  BY <1>1, <1>2, <1>3
<1>5. Over(a, b) = <<s * (a \div g), s * (b \div g)>>
  BY DEF Over
<1>6. a \div g = (IF a < 0 THEN -(x \div g) ELSE x \div g)
  <2>1. CASE a >= 0
    BY <2>1 DEF Abs
  <2>2. CASE a < 0
    <3>1. a = g * (-(x \div g)) + 0
      BY <1>2, <1>3, <2>2 DEF Abs
    <3> QED
      BY <3>1, <1>2, <1>3, <2>2
  <2> QED
    BY <2>1, <2>2
<1>7. b \div g = (IF b < 0 THEN -(y \div g) ELSE y \div g)
  <2>1. CASE b >= 0
    BY <2>1 DEF Abs
  <2>2. CASE b < 0
    <3>1. b = g * (-(y \div g)) + 0
      BY <1>2, <1>3, <2>2 DEF Abs
    <3> QED
      BY <3>1, <1>2, <1>3, <2>2
  <2> QED
    BY <2>1, <2>2
<1> DEFINE X == x \div g
           Y == y \div g
<1>8. /\ X \in Nat /\ Y \in Nat \ {0} /\ g \in Nat
      /\ a = (IF a < 0 THEN -(g * X) ELSE g * X)
      /\ b = (IF b < 0 THEN -(g * Y) ELSE g * Y)
  BY <1>2, <1>3, <1>4 DEF Abs
<1>9. Over(a, b) = <<IF (a < 0) = (b < 0) THEN X ELSE -X, Y>>
  <2> HIDE DEF X, Y, g
  <2>1. a \div g = (IF a < 0 THEN -X ELSE X) /\ b \div g = (IF b < 0 THEN -Y ELSE Y)
    BY <1>6, <1>7 DEF X, Y
  <2> QED
    BY <1>5, <1>8, <2>1
<1>10. a = 0 => X = 0 /\ Y = 1
  <2> SUFFICES ASSUME a = 0 PROVE X = 0 /\ Y = 1
    OBVIOUS
  <2>1. x = 0 /\ y % y = 0 /\ y \div y = 1
    BY <1>1 DEF Abs
  <2>2. Gcd[<<0, y>>] = Gcd[<<y, 0>>]
    <3>1. <<0, y>> \in Nat \X Nat /\ 0 % y = 0
      BY <1>1
    <3> QED
      BY <3>1, <1>1, GcdDef
  <2>3. Gcd[<<y, 0>>] = y
    BY <1>1, GcdDef
  <2>4. g = y
    BY <2>1, <2>2, <2>3
  <2>5. 0 \div y = 0
    BY <1>1
  <2> QED
    BY <2>1, <2>4, <2>5
<1> HIDE DEF X, Y, g
<1>11. Over(a, b)[1] * b = a * Over(a, b)[2]
  <2>1. CASE a < 0 /\ b < 0
    BY <2>1, <1>8, <1>9
  <2>2. CASE a >= 0 /\ b < 0
    BY <2>2, <1>8, <1>9
  <2>3. CASE a < 0 /\ b >= 0
    BY <2>3, <1>8, <1>9
  <2>4. CASE a >= 0 /\ b >= 0
    BY <2>4, <1>8, <1>9
  <2> QED
    BY <2>1, <2>2, <2>3, <2>4
<1>12. Over(a, b) \in Frac
  BY <1>8, <1>9 DEF Frac
<1>13. a = 0 => Over(a, b) = Zero
  <2> SUFFICES ASSUME a = 0 PROVE Over(a, b) = <<0, 1>>
    BY DEF Zero, Whole
  <2> QED
    BY <1>9, <1>10
<1> QED
  BY <1>11, <1>12, <1>13

(* The fraction p has the value n / d. *)
Val(p, n, d) == p \in Frac /\ n \in Int /\ d \in Int /\ d > 0 /\ p[1] * d = n * p[2]

LEMMA ValParts ==
  ASSUME NEW p, NEW n, NEW d, Val(p, n, d)
  PROVE  \E x, y \in Int : p = <<x, y>> /\ y > 0 /\ x * d = n * y
  BY DEF Val, Frac

LEMMA ValSelf ==
  ASSUME NEW p \in Frac
  PROVE  Val(p, p[1], p[2])
  BY DEF Val, Frac

LEMMA ValOver ==
  ASSUME NEW a \in Int, NEW b \in Int, b > 0
  PROVE  Val(Over(a, b), a, b)
  BY OverFrac DEF Val

LEMMA ValWhole ==
  ASSUME NEW a \in Int
  PROVE  Val(Whole(a), a, 1)
  BY DEF Val, Whole, Frac

LEMMA ValScale ==
  ASSUME NEW p, NEW n, NEW d, Val(p, n, d), NEW k \in Int, k > 0
  PROVE  Val(p, n * k, d * k)
<1>1. PICK x \in Int, y \in Int : p = <<x, y>> /\ y > 0 /\ x * d = n * y
  BY ValParts
<1>2. n \in Int /\ d \in Int /\ d > 0
  BY DEF Val
<1>3. x * (d * k) = (n * k) * y
  <2>1. x * (d * k) = (x * d) * k
    BY <1>2
  <2>2. (n * k) * y = (n * y) * k
    BY <1>2
  <2> QED
    BY <2>1, <2>2, <1>1
<1>4. n * k \in Int /\ d * k \in Int /\ d * k > 0
  BY <1>2
<1> QED
  BY <1>1, <1>3, <1>4 DEF Val

LEMMA ValSame ==
  ASSUME NEW p, NEW n, NEW d, Val(p, n, d), NEW m \in Int, NEW e \in Int, e > 0, n * e = m * d
  PROVE  Val(p, m, e)
<1>1. PICK x \in Int, y \in Int : p = <<x, y>> /\ y > 0 /\ x * d = n * y
  BY ValParts
<1>2. n \in Int /\ d \in Int /\ d > 0
  BY DEF Val
<1>3. (x * e) * d = (m * y) * d
  <2>1. (x * e) * d = (x * d) * e
    BY <1>2
  <2>2. (x * d) * e = (n * e) * y
    BY <1>1, <1>2
  <2>3. (m * y) * d = (m * d) * y
    BY <1>2
  <2> QED
    BY <2>1, <2>2, <2>3
<1>4. x * e \in Int /\ m * y \in Int
  OBVIOUS
<1>5. x * e = m * y
  BY <1>2, <1>3, <1>4, Cancel
<1> QED
  BY <1>1, <1>5 DEF Val

LEMMA ValAtMost ==
  ASSUME NEW p, NEW n, NEW d, Val(p, n, d), NEW q, NEW m, NEW e, Val(q, m, e)
  PROVE  (AtMost(p, q) <=> n * e <= m * d) /\ (Less(p, q) <=> n * e < m * d)
<1>1. PICK x \in Int, y \in Int : p = <<x, y>> /\ y > 0 /\ x * d = n * y
  BY ValParts
<1>2. PICK u \in Int, v \in Int : q = <<u, v>> /\ v > 0 /\ u * e = m * v
  BY ValParts
<1>3. n \in Int /\ d \in Int /\ d > 0 /\ m \in Int /\ e \in Int /\ e > 0
  BY DEF Val
<1> DEFINE l == x * v
           r == u * y
           k == d * e
           s == n * e
           t == m * d
           j == y * v
<1>4. l \in Int /\ r \in Int /\ k \in Int /\ k > 0 /\ s \in Int /\ t \in Int /\ j \in Int /\ j > 0
  BY <1>1, <1>2, <1>3
<1>5. l * k = s * j
  <2>1. l * k = (x * d) * (e * v)
    BY <1>3
  <2>2. (n * y) * (e * v) = s * j
    BY <1>3
  <2> QED
    BY <2>1, <2>2, <1>1
<1>6. r * k = t * j
  <2>1. r * k = (u * e) * (d * y)
    BY <1>3
  <2>2. (m * v) * (d * y) = t * j
    BY <1>3
  <2> QED
    BY <2>1, <2>2, <1>2
<1> HIDE DEF l, r, k, s, t, j
<1>7. (l <= r <=> s <= t) /\ (l < r <=> s < t)
  <2>1. (l <= r <=> l * k <= r * k) /\ (l < r <=> l * k < r * k)
    BY <1>4, Cancel
  <2>2. (s * j <= t * j <=> s <= t) /\ (s * j < t * j <=> s < t)
    BY <1>4, Cancel
  <2> QED
    BY <2>1, <2>2, <1>5, <1>6
<1> QED
  BY <1>1, <1>2, <1>7 DEF AtMost, Less, l, r, s, t

LEMMA ValTimes ==
  ASSUME NEW p, NEW n, NEW d, Val(p, n, d), NEW q, NEW m, NEW e, Val(q, m, e)
  PROVE  Val(p ** q, n * m, d * e)
<1>1. PICK x \in Int, y \in Int : p = <<x, y>> /\ y > 0 /\ x * d = n * y
  BY ValParts
<1>2. PICK u \in Int, v \in Int : q = <<u, v>> /\ v > 0 /\ u * e = m * v
  BY ValParts
<1>3. n \in Int /\ d \in Int /\ d > 0 /\ m \in Int /\ e \in Int /\ e > 0
  BY DEF Val
<1>4. p ** q = Over(x * u, y * v)
  BY <1>1, <1>2 DEF **
<1>5. x * u \in Int /\ y * v \in Int /\ y * v > 0 /\ n * m \in Int /\ d * e \in Int /\ d * e > 0
  BY <1>1, <1>2, <1>3
<1>6. (x * u) * (d * e) = (n * m) * (y * v)
  <2>1. (x * u) * (d * e) = (x * d) * (u * e)
    BY <1>3
  <2>2. (n * m) * (y * v) = (n * y) * (m * v)
    BY <1>3
  <2> QED
    BY <2>1, <2>2, <1>1, <1>2
<1> QED
  BY <1>4, <1>5, <1>6, ValOver, ValSame

LEMMA ValDiv ==
  ASSUME NEW p, NEW n, NEW d, Val(p, n, d), NEW q, NEW m, NEW e, Val(q, m, e), m > 0
  PROVE  Val(p // q, n * e, d * m)
<1>1. PICK x \in Int, y \in Int : p = <<x, y>> /\ y > 0 /\ x * d = n * y
  BY ValParts
<1>2. PICK u \in Int, v \in Int : q = <<u, v>> /\ v > 0 /\ u * e = m * v
  BY ValParts
<1>3. n \in Int /\ d \in Int /\ d > 0 /\ m \in Int /\ e \in Int /\ e > 0
  BY DEF Val
<1>4. p // q = Over(x * v, y * u)
  BY <1>1, <1>2 DEF //
<1>5. u > 0
  <2> SUFFICES ASSUME u <= 0 PROVE FALSE
    OBVIOUS
  <2>1. u * e <= 0
    BY <1>3
  <2>2. m * v > 0
    BY <1>2, <1>3
  <2> QED
    BY <2>1, <2>2, <1>2, <1>3
<1>6. x * v \in Int /\ y * u \in Int /\ y * u > 0 /\ n * e \in Int /\ d * m \in Int /\ d * m > 0
  BY <1>1, <1>2, <1>3, <1>5
<1>7. (x * v) * (d * m) = (n * e) * (y * u)
  <2>1. (x * v) * (d * m) = (x * d) * (m * v)
    BY <1>3
  <2>2. (n * e) * (y * u) = (n * y) * (u * e)
    BY <1>3
  <2> QED
    BY <2>1, <2>2, <1>1, <1>2
<1> QED
  BY <1>4, <1>6, <1>7, ValOver, ValSame

LEMMA ValPlus ==
  ASSUME NEW p, NEW n, NEW d, Val(p, n, d), NEW q, NEW m, Val(q, m, d)
  PROVE  Val(p ++ q, n + m, d) /\ Val(p -- q, n - m, d)
<1>1. PICK x \in Int, y \in Int : p = <<x, y>> /\ y > 0 /\ x * d = n * y
  BY ValParts
<1>2. PICK u \in Int, v \in Int : q = <<u, v>> /\ v > 0 /\ u * d = m * v
  BY ValParts
<1>3. n \in Int /\ d \in Int /\ d > 0 /\ m \in Int
  BY DEF Val
<1>4. p ++ q = Over(x * v + u * y, y * v) /\ p -- q = Over(x * v - u * y, y * v)
  BY <1>1, <1>2 DEF ++, --
<1>5. /\ x * v + u * y \in Int /\ x * v - u * y \in Int /\ y * v \in Int /\ y * v > 0
      /\ n + m \in Int /\ n - m \in Int
  BY <1>1, <1>2, <1>3
<1>6. (x * v) * d = n * (y * v) /\ (u * y) * d = m * (y * v)
  <2>1. (x * v) * d = (x * d) * v /\ (u * y) * d = (u * d) * y
    BY <1>3
  <2>2. n * (y * v) = (n * y) * v /\ m * (y * v) = (m * v) * y
    BY <1>3
  <2> QED
    BY <2>1, <2>2, <1>1, <1>2
<1>7. /\ (x * v + u * y) * d = (x * v) * d + (u * y) * d
      /\ (n + m) * (y * v) = n * (y * v) + m * (y * v)
      /\ (x * v - u * y) * d = (x * v) * d - (u * y) * d
      /\ (n - m) * (y * v) = n * (y * v) - m * (y * v)
  BY <1>3
<1>8. (x * v + u * y) * d = (n + m) * (y * v) /\ (x * v - u * y) * d = (n - m) * (y * v)
  BY <1>6, <1>7
<1> QED
  BY <1>3, <1>4, <1>5, <1>8, ValOver, ValSame

(* Any two fractions have a common denominator. *)
LEMMA CommonDenominator ==
  ASSUME NEW p \in Frac, NEW q \in Frac
  PROVE  \E n, m, d \in Int : Val(p, n, d) /\ Val(q, m, d)
<1>1. PICK x \in Int, y \in Int : p = <<x, y>> /\ y > 0 /\ Val(p, x, y)
  BY ValSelf DEF Frac
<1>2. PICK u \in Int, v \in Int : q = <<u, v>> /\ v > 0 /\ Val(q, u, v)
  BY ValSelf DEF Frac
<1>3. Val(p, x * v, y * v)
  BY <1>1, <1>2, ValScale
<1>4. Val(q, u * y, v * y) /\ v * y = y * v
  BY <1>1, <1>2, ValScale
<1>5. x * v \in Int /\ u * y \in Int /\ y * v \in Int
  OBVIOUS
<1> QED
  BY <1>3, <1>4, <1>5

-----------------------------------------------------------------------------
(* The order and the operators. *)
NonNeg == {p \in Frac : p[1] >= 0}
Positive == {p \in Frac : p[1] > 0}

LEMMA ValSign ==
  ASSUME NEW p, NEW n, NEW d, Val(p, n, d)
  PROVE  (p[1] >= 0 <=> n >= 0) /\ (p[1] > 0 <=> n > 0)
<1>1. PICK x \in Int, y \in Int : p = <<x, y>> /\ y > 0 /\ x * d = n * y
  BY ValParts
<1>2. n \in Int /\ d \in Int /\ d > 0
  BY DEF Val
<1>3. (0 * d <= x * d <=> 0 <= x) /\ (0 * d < x * d <=> 0 < x)
  BY <1>2, Cancel
<1>4. (0 * y <= n * y <=> 0 <= n) /\ (0 * y < n * y <=> 0 < n)
  BY <1>1, <1>2, Cancel
<1>5. 0 * d = 0 /\ 0 * y = 0
  BY <1>1, <1>2
<1> QED
  BY <1>1, <1>3, <1>4, <1>5

LEMMA FracParts ==
  ASSUME NEW p \in Frac
  PROVE  \E n, d \in Int : d > 0 /\ Val(p, n, d) /\ p = <<n, d>>
  BY ValSelf DEF Frac

LEMMA FracOps ==
  ASSUME NEW p \in Frac, NEW q \in Frac
  PROVE  /\ p ++ q \in Frac /\ p -- q \in Frac /\ p ** q \in Frac
         /\ q[1] > 0 => p // q \in Frac
         /\ p ** q = q ** p
<1>1. p ++ q \in Frac /\ p -- q \in Frac
  <2>1. PICK n \in Int, m \in Int, d \in Int : Val(p, n, d) /\ Val(q, m, d)
    BY CommonDenominator
  <2>2. Val(p ++ q, n + m, d) /\ Val(p -- q, n - m, d)
    BY <2>1, ValPlus
  <2> QED
    BY <2>2 DEF Val
<1>2. PICK n \in Int, d \in Int : d > 0 /\ Val(p, n, d) /\ p = <<n, d>>
  BY FracParts
<1>3. PICK m \in Int, e \in Int : e > 0 /\ Val(q, m, e) /\ q = <<m, e>>
  BY FracParts
<1>4. p ** q \in Frac
  BY <1>2, <1>3, ValTimes DEF Val
<1>5. q[1] > 0 => p // q \in Frac
  BY <1>2, <1>3, ValDiv DEF Val
<1>6. p ** q = q ** p
  BY <1>2, <1>3 DEF **
<1> QED
  BY <1>1, <1>4, <1>5, <1>6

LEMMA WholeFrac ==
  /\ \A a \in Int : Whole(a) \in Frac
  /\ \A a \in Nat : Whole(a) \in NonNeg
  /\ Zero \in NonNeg /\ One \in NonNeg /\ Zero = <<0, 1>>
  BY DEF Whole, Zero, One, Frac, NonNeg

LEMMA Total ==
  ASSUME NEW p \in Frac, NEW q \in Frac
  PROVE  /\ Less(p, q) <=> ~AtMost(q, p)
         /\ AtMost(p, p)
         /\ AtMost(Zero, p) <=> p[1] >= 0
         /\ AtMost(p, Zero) <=> p[1] <= 0
         /\ Less(Zero, p) <=> p[1] > 0
<1>1. PICK n \in Int, d \in Int : d > 0 /\ p = <<n, d>>
  BY DEF Frac
<1>2. PICK m \in Int, e \in Int : e > 0 /\ q = <<m, e>>
  BY DEF Frac
<1>3. n * e \in Int /\ m * d \in Int
  OBVIOUS
<1>4. Less(p, q) <=> ~AtMost(q, p)
  BY <1>1, <1>2, <1>3 DEF AtMost, Less
<1> QED
  BY <1>1, <1>4 DEF AtMost, Less, Zero, Whole

LEMMA Trans ==
  ASSUME NEW p \in Frac, NEW q \in Frac, NEW r \in Frac
  PROVE  /\ AtMost(p, q) /\ AtMost(q, r) => AtMost(p, r)
         /\ AtMost(p, q) /\ Less(q, r) => Less(p, r)
         /\ Less(p, q) /\ AtMost(q, r) => Less(p, r)
<1>1. PICK a \in Int, b \in Int : b > 0 /\ p = <<a, b>>
  BY DEF Frac
<1>2. PICK c \in Int, d \in Int : d > 0 /\ q = <<c, d>>
  BY DEF Frac
<1>3. PICK e \in Int, f \in Int : f > 0 /\ r = <<e, f>>
  BY DEF Frac
<1> DEFINE i == a * f
           j == e * b
           k == a * d
           l == c * b
           m == c * f
           n == e * d
<1>4. i \in Int /\ j \in Int /\ k \in Int /\ l \in Int /\ m \in Int /\ n \in Int
  OBVIOUS
<1>5. i * d = k * f /\ l * f = m * b /\ j * d = n * b
  OBVIOUS
<1>6. /\ AtMost(p, q) <=> k <= l
      /\ AtMost(q, r) <=> m <= n
      /\ AtMost(p, r) <=> i <= j
      /\ Less(p, q) <=> k < l
      /\ Less(q, r) <=> m < n
      /\ Less(p, r) <=> i < j
  BY <1>1, <1>2, <1>3 DEF AtMost, Less
<1> HIDE DEF i, j, k, l, m, n
<1>7. (i <= j <=> i * d <= j * d) /\ (i < j <=> i * d < j * d)
  BY <1>2, <1>4, Cancel
<1>8. (k <= l <=> k * f <= l * f) /\ (k < l <=> k * f < l * f)
  BY <1>3, <1>4, Cancel
<1>9. (m <= n <=> m * b <= n * b) /\ (m < n <=> m * b < n * b)
  BY <1>1, <1>4, Cancel
<1>10. /\ i * d \in Int /\ k * f \in Int /\ l * f \in Int /\ j * d \in Int
  BY <1>4
<1> DEFINE x == i * d
           y == l * f
           z == j * d
<1>11. /\ x \in Int /\ y \in Int /\ z \in Int
       /\ (i <= j <=> x <= z) /\ (i < j <=> x < z)
       /\ (k <= l <=> x <= y) /\ (k < l <=> x < y)
       /\ (m <= n <=> y <= z) /\ (m < n <=> y < z)
  BY <1>5, <1>7, <1>8, <1>9, <1>10
<1> HIDE DEF x, y, z
<1> QED
  BY <1>6, <1>11

LEMMA Less2 ==
  ASSUME NEW p \in Frac, NEW q \in Frac, Less(p, q)
  PROVE  AtMost(p, q) /\ ~Less(q, p)
<1>1. PICK n \in Int, d \in Int : d > 0 /\ p = <<n, d>>
  BY DEF Frac
<1>2. PICK m \in Int, e \in Int : e > 0 /\ q = <<m, e>>
  BY DEF Frac
<1>3. n * e \in Int /\ m * d \in Int
  OBVIOUS
<1> QED
  BY <1>1, <1>2, <1>3 DEF AtMost, Less

LEMMA TimesMono ==
  ASSUME NEW p \in Frac, NEW q \in Frac, NEW r \in NonNeg, AtMost(p, q)
  PROVE  AtMost(p ** r, q ** r)
<1>1. PICK n \in Int, m \in Int, d \in Int : Val(p, n, d) /\ Val(q, m, d)
  BY CommonDenominator
<1>2. PICK k \in Int, e \in Int : e > 0 /\ Val(r, k, e) /\ k >= 0
  BY FracParts DEF NonNeg
<1>3. d > 0
  BY <1>1 DEF Val
<1>4. n <= m
  <2>1. n * d <= m * d
    BY <1>1, ValAtMost
  <2> QED
    BY <2>1, <1>3, Cancel
<1>5. Val(p ** r, n * k, d * e) /\ Val(q ** r, m * k, d * e)
  BY <1>1, <1>2, ValTimes
<1>6. n * k <= m * k
  BY <1>2, <1>4
<1>7. (n * k) * (d * e) <= (m * k) * (d * e)
  <2>1. n * k \in Int /\ m * k \in Int /\ d * e \in Int /\ d * e > 0
    BY <1>2, <1>3
  <2> QED
    BY <2>1, <1>6, Cancel
<1> QED
  BY <1>5, <1>7, ValAtMost

LEMMA DivTimes ==
  ASSUME NEW p \in Frac, NEW q \in Positive, NEW r \in Frac
  PROVE  /\ AtMost(p // q, r) <=> AtMost(p, r ** q)
         /\ AtMost(r, p // q) <=> AtMost(r ** q, p)
         /\ Less(p // q, r) <=> Less(p, r ** q)
         /\ Less(r, p // q) <=> Less(r ** q, p)
<1>1. PICK n \in Int, d \in Int : d > 0 /\ Val(p, n, d)
  BY FracParts
<1>2. PICK m \in Int, e \in Int : e > 0 /\ Val(q, m, e) /\ m > 0
  BY FracParts DEF Positive
<1>3. PICK k \in Int, f \in Int : f > 0 /\ Val(r, k, f)
  BY FracParts
<1>4. Val(p // q, n * e, d * m)
  BY <1>1, <1>2, ValDiv
<1>5. Val(r ** q, k * m, f * e)
  BY <1>2, <1>3, ValTimes
<1> DEFINE l == (n * e) * f
           s == k * (d * m)
<1>6. /\ AtMost(p // q, r) <=> l <= s
      /\ AtMost(r, p // q) <=> s <= l
      /\ Less(p // q, r) <=> l < s
      /\ Less(r, p // q) <=> s < l
  BY <1>3, <1>4, ValAtMost
<1>7. n * (f * e) = l /\ (k * m) * d = s
  OBVIOUS
<1> HIDE DEF l, s
<1>8. /\ AtMost(p, r ** q) <=> l <= s
      /\ AtMost(r ** q, p) <=> s <= l
      /\ Less(p, r ** q) <=> l < s
      /\ Less(r ** q, p) <=> s < l
  BY <1>1, <1>5, <1>7, ValAtMost
<1> QED
  BY <1>6, <1>8

LEMMA TimesSign ==
  ASSUME NEW p \in Frac, NEW q \in Frac
  PROVE  /\ p[1] >= 0 /\ q[1] >= 0 => p ** q \in NonNeg
         /\ p[1] > 0 /\ q[1] > 0 => p ** q \in Positive /\ p // q \in Positive
         /\ p[1] >= 0 /\ q[1] > 0 => p // q \in NonNeg
         /\ p[1] <= 0 /\ q[1] >= 0 => AtMost(p ** q, Zero)
<1>1. PICK n \in Int, d \in Int : d > 0 /\ Val(p, n, d) /\ p = <<n, d>>
  BY FracParts
<1>2. PICK m \in Int, e \in Int : e > 0 /\ Val(q, m, e) /\ q = <<m, e>>
  BY FracParts
<1>3. Val(p ** q, n * m, d * e)
  BY <1>1, <1>2, ValTimes
<1>4. p ** q \in Frac /\ (q[1] > 0 => p // q \in Frac)
  BY FracOps
<1>5. ((p ** q)[1] >= 0 <=> n * m >= 0) /\ ((p ** q)[1] > 0 <=> n * m > 0)
  BY <1>3, ValSign
<1>6. q[1] > 0 => ((p // q)[1] >= 0 <=> n * e >= 0) /\ ((p // q)[1] > 0 <=> n * e > 0)
  <2> SUFFICES ASSUME q[1] > 0 PROVE ((p // q)[1] >= 0 <=> n * e >= 0) /\ ((p // q)[1] > 0 <=> n * e > 0)
    OBVIOUS
  <2>1. Val(p // q, n * e, d * m)
    BY <1>1, <1>2, ValDiv
  <2> QED
    BY <2>1, ValSign
<1>7. /\ n >= 0 /\ m >= 0 => n * m >= 0
      /\ n > 0 /\ m > 0 => n * m > 0
      /\ n >= 0 => n * e >= 0
      /\ n > 0 => n * e > 0
      /\ n <= 0 /\ m >= 0 => n * m <= 0
  BY <1>2
<1>8. n <= 0 /\ m >= 0 => AtMost(p ** q, Zero)
  <2>1. Val(Zero, 0, 1)
    BY ValWhole DEF Zero
  <2>2. (n * m) * 1 <= 0 * (d * e) <=> n * m <= 0
    BY <1>1, <1>2
  <2> QED
    BY <1>3, <1>7, <2>1, <2>2, ValAtMost
<1> QED
  BY <1>1, <1>2, <1>4, <1>5, <1>6, <1>7, <1>8 DEF NonNeg, Positive

LEMMA PlusMinus ==
  ASSUME NEW p \in Frac, NEW q \in Frac
  PROVE  /\ q[1] >= 0 => AtMost(p, p ++ q) /\ AtMost(p -- q, p)
         /\ q[1] > 0 => Less(p, p ++ q)
         /\ p[1] >= 0 /\ q[1] >= 0 => p ++ q \in NonNeg
         /\ p[1] >= 0 /\ q[1] > 0 => p ++ q \in Positive
         /\ AtMost(p, q) <=> q -- p \in NonNeg
         /\ Less(p, q) <=> q -- p \in Positive
<1>1. PICK n \in Int, m \in Int, d \in Int : Val(p, n, d) /\ Val(q, m, d)
  BY CommonDenominator
<1>2. d > 0
  BY <1>1 DEF Val
<1>3. Val(p ++ q, n + m, d) /\ Val(p -- q, n - m, d) /\ Val(q -- p, m - n, d)
  BY <1>1, ValPlus
<1>4. /\ p[1] >= 0 <=> n >= 0
      /\ q[1] >= 0 <=> m >= 0
      /\ q[1] > 0 <=> m > 0
      /\ (p ++ q)[1] >= 0 <=> n + m >= 0
      /\ (p ++ q)[1] > 0 <=> n + m > 0
      /\ (q -- p)[1] >= 0 <=> m - n >= 0
      /\ (q -- p)[1] > 0 <=> m - n > 0
  BY <1>1, <1>3, ValSign
<1>5. /\ AtMost(p, p ++ q) <=> n <= n + m
      /\ Less(p, p ++ q) <=> n < n + m
      /\ AtMost(p -- q, p) <=> n - m <= n
      /\ AtMost(p, q) <=> n <= m
      /\ Less(p, q) <=> n < m
  <2>1. n \in Int /\ n + m \in Int /\ n - m \in Int
    OBVIOUS
  <2> QED
    BY <1>1, <1>2, <1>3, <2>1, ValAtMost, Cancel
<1>6. p ++ q \in Frac /\ q -- p \in Frac
  BY FracOps
<1> QED
  BY <1>4, <1>5, <1>6 DEF NonNeg, Positive

LEMMA LeastGreatest ==
  ASSUME NEW p \in Frac, NEW q \in Frac
  PROVE  /\ Least(p, q) \in {p, q} /\ Greatest(p, q) \in {p, q}
         /\ AtMost(Least(p, q), p) /\ AtMost(Least(p, q), q)
         /\ AtMost(p, Greatest(p, q)) /\ AtMost(q, Greatest(p, q))
<1>1. AtMost(p, q) \/ AtMost(q, p)
  <2>1. PICK n \in Int, d \in Int : d > 0 /\ p = <<n, d>>
    BY DEF Frac
  <2>2. PICK m \in Int, e \in Int : e > 0 /\ q = <<m, e>>
    BY DEF Frac
  <2>3. n * e \in Int /\ m * d \in Int
    OBVIOUS
  <2> QED
    BY <2>1, <2>2, <2>3 DEF AtMost
<1>2. AtMost(p, p) /\ AtMost(q, q)
  BY Total
<1> QED
  BY <1>1, <1>2 DEF Least, Greatest

LEMMA FloorIs ==
  ASSUME NEW p \in Frac
  PROVE  /\ Floor(p) \in Int
         /\ AtMost(Whole(Floor(p)), p) /\ Less(p, Whole(Floor(p) + 1))
         /\ \A n \in Int : AtMost(Whole(n), p) => n <= Floor(p)
         /\ p[1] >= 0 => Floor(p) >= 0
<1>1. PICK a \in Int, b \in Int : b > 0 /\ p = <<a, b>>
  BY DEF Frac
<1> DEFINE f == a \div b
<1>2. f \in Int /\ (a % b) \in Int /\ 0 <= (a % b) /\ (a % b) < b /\ a = b * f + (a % b)
  BY <1>1
<1>3. Floor(p) = f
  BY <1>1 DEF Floor
<1> HIDE DEF f
<1>4. f * b <= a * 1 /\ a * 1 < (f + 1) * b
  <2>1. f * b = b * f /\ (f + 1) * b = b * f + b
    BY <1>1, <1>2
  <2> QED
    BY <1>1, <1>2, <2>1
<1>5. \A n \in Int : n * b <= a * 1 => n <= f
  <2> TAKE n \in Int
  <2> HAVE n * b <= a * 1
  <2>1. n * b < (f + 1) * b
    BY <1>1, <1>2, <1>4
  <2>2. n < f + 1
    BY <1>1, <1>2, <2>1, Cancel
  <2> QED
    BY <1>2, <2>2
<1>6. a >= 0 => f >= 0
  <2>1. 0 * b <= a * 1 <=> 0 <= a
    BY <1>1
  <2> QED
    BY <1>5, <2>1
<1> QED
  BY <1>1, <1>2, <1>3, <1>4, <1>5, <1>6 DEF AtMost, Less, Whole

-----------------------------------------------------------------------------
(* Folds. *)

(* A step applied to the elements of 1 .. n one after another has a result for *)
(* every set of them, as the fold of the community modules asks.               *)
LEMMA MaxIs ==
  ASSUME NEW n \in Nat, NEW s \in SUBSET (1 .. n), s # {}
  PROVE  Max(s) \in s /\ \A y \in s : y <= Max(s)
<1>0. \A y \in s : y \in Int
  OBVIOUS
<1> DEFINE T == {n - y : y \in s}
<1>1. T \in SUBSET Nat /\ T # {}
  <2>1. \A y \in s : y \in Int /\ y <= n
    OBVIOUS
  <2>2. \A y \in s : n - y \in Nat
    BY <2>1
  <2> QED
    BY <2>2
<1>2. PICK t \in T : \A u \in T : t <= u
  <2> HIDE DEF T
  <2> QED
    BY <1>1, LeastNumber
<1>3. PICK x \in s : t = n - x
  BY <1>2
<1>4. \A y \in s : x >= y
  <2> TAKE y \in s
  <2>1. n - x <= n - y
    BY <1>2, <1>3
  <2>2. x \in Int /\ y \in Int
    OBVIOUS
  <2> QED
    BY <2>1, <2>2
<1>5. Max(s) \in s /\ \A y \in s : Max(s) >= y
  BY <1>3, <1>4 DEF Max
<1> QED
  BY <1>0, <1>5

LEMMA MaxOfRange ==
  ASSUME NEW n \in Nat, NEW m \in 1 .. n
  PROVE  /\ 1 .. m \in SUBSET (1 .. n) /\ 1 .. m # {}
         /\ Max(1 .. m) = m /\ (1 .. m) \ {m} = 1 .. m - 1
<1>1. m \in Int /\ 1 <= m /\ m <= n
  OBVIOUS
<1>2. \A i \in 1 .. m : i \in 1 .. n
  BY <1>1
<1>3. m \in 1 .. m
  BY <1>1
<1>4. ASSUME NEW i PROVE i \in (1 .. m) \ {m} <=> i \in 1 .. m - 1
  <2>1. i \in (1 .. m) \ {m} => i \in 1 .. m - 1
    BY <1>1
  <2>2. i \in 1 .. m - 1 => i \in 1 .. m /\ i # m
    BY <1>1
  <2> QED
    BY <2>1, <2>2
<1>5. 1 .. m \in SUBSET (1 .. n) /\ 1 .. m # {} /\ (1 .. m) \ {m} = 1 .. m - 1
  BY <1>2, <1>3, <1>4
<1>6. Max(1 .. m) \in 1 .. m /\ \A y \in 1 .. m : y <= Max(1 .. m)
  BY <1>5, MaxIs
<1>7. Max(1 .. m) <= m /\ m <= Max(1 .. m) /\ Max(1 .. m) \in Int
  BY <1>3, <1>6
<1> QED
  BY <1>1, <1>5, <1>7

Folds(iter, V, base, step, n) ==
    /\ iter \in [SUBSET (1 .. n) -> V]
    /\ \A s \in SUBSET (1 .. n) :
          iter[s] = IF s = {} THEN base ELSE step[iter[s \ {Max(s)}], Max(s)]

(* A family of folds, one of each length, exists. *)
LEMMA FoldExists ==
  ASSUME NEW V, NEW base \in V, NEW step \in [V \X Nat -> V]
  PROVE  \A n \in Nat : \E iter : Folds(iter, V, base, step, n)
<1> DEFINE Is(iter, k) == Folds(iter, V, base, step, k)
           T == {k \in Nat : \E iter : Is(iter, k)}
<1> USE DEF Folds
<1>1. \E iter : Is(iter, 0)
  <2> DEFINE iter == [s \in SUBSET (1 .. 0) |-> base]
  <2>1. \A s \in SUBSET (1 .. 0) : s = {}
    <3>1. \A i : i \notin 1 .. 0
      OBVIOUS
    <3> QED
      BY <3>1
  <2>2. Is(iter, 0)
    BY <2>1, Zenon
  <2> QED
    BY <2>2, Zenon
<1>2. ASSUME NEW j \in Nat, NEW old, Is(old, j) PROVE \E iter : Is(iter, j + 1)
  <2> DEFINE k == j + 1
             iter == [s \in SUBSET (1 .. k) |-> IF k \in s THEN step[old[s \ {k}], k] ELSE old[s]]
  <2>1. k \in Nat /\ k \notin 1 .. j /\ \A i : i \in 1 .. k /\ i # k => i \in 1 .. j
    OBVIOUS
  <2> HIDE DEF k
  <2>2. \A s \in SUBSET (1 .. k) : k \notin s => s \in SUBSET (1 .. j)
    BY <2>1
  <2>3. \A s \in SUBSET (1 .. k) : s \ {k} \in SUBSET (1 .. j) /\ s \ {k} \in SUBSET (1 .. k)
    BY <2>1
  <2>4. iter \in [SUBSET (1 .. k) -> V]
    <3> SUFFICES ASSUME NEW s \in SUBSET (1 .. k)
                 PROVE  (IF k \in s THEN step[old[s \ {k}], k] ELSE old[s]) \in V
      BY Zenon
    <3>1. CASE k \in s
      <4>1. old[s \ {k}] \in V
        BY <1>2, <2>3, Zenon
      <4> QED
        BY <3>1, <4>1, <2>1, Zenon
    <3>2. CASE k \notin s
      BY <3>2, <1>2, <2>2, Zenon
    <3> QED
      BY <3>1, <3>2, Zenon
  <2>5. ASSUME NEW s \in SUBSET (1 .. k)
        PROVE  iter[s] = IF s = {} THEN base ELSE step[iter[s \ {Max(s)}], Max(s)]
    <3>1. CASE k \in s
      <4>1. Max(s) = k
        <5>1. Max(s) \in s /\ \A y \in s : y <= Max(s)
          BY <3>1, <2>1, MaxIs
        <5>2. Max(s) \in 1 .. k
          BY <5>1
        <5>3. Max(s) \in Int /\ Max(s) <= k
          BY <5>2, <2>1
        <5>4. k <= Max(s)
          BY <3>1, <5>1
        <5> QED
          BY <5>3, <5>4, <2>1
      <4>2. iter[s \ {k}] = old[s \ {k}]
        BY <2>3, Zenon
      <4>3. iter[s] = step[old[s \ {k}], k]
        BY <3>1
      <4> HIDE DEF iter
      <4> QED
        BY <3>1, <4>1, <4>2, <4>3, Zenon
    <3>2. CASE k \notin s
      <4>1. s \in SUBSET (1 .. j)
        BY <3>2, <2>2
      <4>2. iter[s] = old[s]
        BY <3>2
      <4>3. old[s] = IF s = {} THEN base ELSE step[old[s \ {Max(s)}], Max(s)]
        BY <1>2, <4>1, Zenon
      <4>4. s # {} => iter[s \ {Max(s)}] = old[s \ {Max(s)}]
        BY <3>2, Zenon
      <4> HIDE DEF iter
      <4> QED
        BY <4>2, <4>3, <4>4, Zenon
    <3> QED
      BY <3>1, <3>2, Zenon
  <2>6. Is(iter, k)
    BY <2>4, <2>5, Zenon
  <2> HIDE DEF Is, iter
  <2> QED
    BY <2>6 DEF k
<1> HIDE DEF Is, Folds
<1>3. 0 \in T
  BY <1>1
<1>4. \A k \in Nat : k \in T => k + 1 \in T
  BY <1>2
<1>5. Nat \subseteq T
  <2> HIDE DEF T
  <2> QED
    BY <1>3, <1>4, Induction
<1>6. \A n \in Nat : \E iter : Is(iter, n)
  BY <1>5
<1> QED
  BY <1>6 DEF Is

-----------------------------------------------------------------------------
(* The book. *)
Levels == Seq([price : Int, qty : Int])
WalkSet == [left : Frac, cost : Frac, qty : Frac]

(* The fold of estimate_vwap_fill, at every prefix of the book. *)
Walks(levels, budget) ==
    CHOOSE iter : iter = [s \in SUBSET DOMAIN levels |->
        IF s = {} THEN [left |-> budget, cost |-> Zero, qty |-> Zero]
        ELSE TakeLevel(iter[s \ {Max(s)}], levels[Max(s)])]

Filled(levels, budget, n) == Walks(levels, budget)[1 .. n]

LEMMA LevelOf ==
  ASSUME NEW levels \in Levels
  PROVE  /\ Len(levels) \in Nat /\ DOMAIN levels = 1 .. Len(levels)
         /\ \A i \in 1 .. Len(levels) : levels[i] \in [price : Int, qty : Int]
<1> DEFINE L == [price : Int, qty : Int]
<1>1. levels \in Seq(L)
  BY DEF Levels
<1> HIDE DEF L
<1>2. Len(levels) \in Nat /\ DOMAIN levels = 1 .. Len(levels)
  BY <1>1
<1>3. \A i \in 1 .. Len(levels) : levels[i] \in L
  BY <1>1
<1> QED
  BY <1>2, <1>3 DEF L

LEMMA FillIs ==
  ASSUME NEW levels \in Levels, NEW budget, NEW entry
  PROVE  LET walk == Filled(levels, budget, Len(levels))
         IN  VwapFill(levels, budget, entry) = IF walk.qty = Zero THEN Whole(entry) ELSE walk.cost // walk.qty
<1>1. DOMAIN levels = 1 .. Len(levels)
  BY DEF Levels
<1> QED
  BY <1>1 DEF VwapFill, FoldLeft, MapThenFoldSet, Walks, Filled

LEMMA TakeLevelType ==
  ASSUME NEW w \in WalkSet, NEW l \in [price : Int, qty : Int]
  PROVE  TakeLevel(w, l) \in WalkSet
<1>1. CASE l.price <= 0 \/ l.qty <= 0 \/ AtMost(w.left, Zero)
  BY <1>1 DEF TakeLevel
<1>2. CASE ~(l.price <= 0 \/ l.qty <= 0 \/ AtMost(w.left, Zero))
  <2> DEFINE all == Whole(l.price * l.qty)
             usdt == Least(w.left, all)
  <2>1. l.price \in Int /\ l.price > 0 /\ l.qty \in Int /\ l.price * l.qty \in Int
    BY <1>2
  <2>2. w.left \in Frac /\ w.cost \in Frac /\ w.qty \in Frac
    BY DEF WalkSet
  <2>3. all \in Frac /\ Whole(l.price) \in Frac /\ Whole(l.price)[1] > 0
    BY <2>1, WholeFrac DEF Whole
  <2>4. usdt \in Frac
    BY <2>2, <2>3, LeastGreatest
  <2> HIDE DEF usdt
  <2>5. usdt // Whole(l.price) \in Frac
    BY <2>3, <2>4, FracOps
  <2>6. w.left -- usdt \in Frac /\ w.cost ++ usdt \in Frac /\ w.qty ++ (usdt // Whole(l.price)) \in Frac
    BY <2>2, <2>4, <2>5, FracOps
  <2>7. TakeLevel(w, l) = [left |-> w.left -- usdt, cost |-> w.cost ++ usdt, qty |-> w.qty ++ (usdt // Whole(l.price))]
    BY <1>2 DEF TakeLevel, usdt
  <2> QED
    BY <2>6, <2>7 DEF WalkSet
<1> QED
  BY <1>1, <1>2

LEMMA FillSteps ==
  ASSUME NEW levels \in Levels, NEW budget \in Frac
  PROVE  /\ Filled(levels, budget, 0) = [left |-> budget, cost |-> Zero, qty |-> Zero]
         /\ \A m \in 1 .. Len(levels) :
               Filled(levels, budget, m) = TakeLevel(Filled(levels, budget, m - 1), levels[m])
         /\ \A m \in 0 .. Len(levels) : Filled(levels, budget, m) \in WalkSet
<1> DEFINE n == Len(levels)
           base == [left |-> budget, cost |-> Zero, qty |-> Zero]
           step == [x \in WalkSet \X Nat |-> IF x[2] \in 1 .. n THEN TakeLevel(x[1], levels[x[2]]) ELSE x[1]]
           Is(f) == f = [s \in SUBSET DOMAIN levels |->
                           IF s = {} THEN base ELSE TakeLevel(f[s \ {Max(s)}], levels[Max(s)])]
<1>1. n \in Nat /\ DOMAIN levels = 1 .. n /\ \A i \in 1 .. n : levels[i] \in [price : Int, qty : Int]
  BY LevelOf
<1>2. base \in WalkSet
  BY WholeFrac DEF WalkSet, NonNeg
<1>3. step \in [WalkSet \X Nat -> WalkSet]
  <2> SUFFICES ASSUME NEW x \in WalkSet \X Nat
               PROVE  (IF x[2] \in 1 .. n THEN TakeLevel(x[1], levels[x[2]]) ELSE x[1]) \in WalkSet
    OBVIOUS
  <2>1. x[1] \in WalkSet
    OBVIOUS
  <2> QED
    BY <1>1, <2>1, TakeLevelType
<1>4. \A w \in WalkSet : \A i \in 1 .. n : step[<<w, i>>] = TakeLevel(w, levels[i])
  <2> TAKE w \in WalkSet
  <2> TAKE i \in 1 .. n
  <2>1. <<w, i>> \in WalkSet \X Nat
    BY <1>1
  <2> QED
    BY <2>1
<1> HIDE DEF n, base, step
<1>5. \E f : Is(f)
  <2>1. PICK f : Folds(f, WalkSet, base, step, n)
    BY <1>1, <1>2, <1>3, FoldExists
  <2>2. ASSUME NEW s \in SUBSET (1 .. n), s # {}
        PROVE  f[s] = TakeLevel(f[s \ {Max(s)}], levels[Max(s)])
    <3>1. Max(s) \in 1 .. n
      BY <1>1, <2>2, MaxIs
    <3>2. f[s \ {Max(s)}] \in WalkSet
      BY <2>1, Zenon DEF Folds
    <3>3. f[s] = step[<<f[s \ {Max(s)}], Max(s)>>]
      BY <2>1, <2>2, Zenon DEF Folds
    <3> QED
      BY <1>4, <3>1, <3>2, <3>3
  <2>3. /\ f = [s \in SUBSET (1 .. n) |-> f[s]]
        /\ \A s \in SUBSET (1 .. n) : s = {} => f[s] = base
    BY <2>1, Zenon DEF Folds
  <2>4. Is(f)
    BY <1>1, <2>2, <2>3
  <2> HIDE DEF Is
  <2> QED
    BY <2>4
<1> DEFINE iter == Walks(levels, budget)
<1>6. iter = CHOOSE f : Is(f)
  BY DEF Walks, base
<1>7. Is(iter)
  <2> HIDE DEF Is, iter
  <2> QED
    BY <1>5, <1>6
<1> HIDE DEF iter
<1>8. iter[1 .. 0] = base
  <2>1. 1 .. 0 = {}
    OBVIOUS
  <2> QED
    BY <1>7, <2>1
<1>9. ASSUME NEW m \in 1 .. n PROVE iter[1 .. m] = TakeLevel(iter[1 .. m - 1], levels[m])
  <2>1. /\ 1 .. m \in SUBSET (1 .. n) /\ 1 .. m # {}
        /\ Max(1 .. m) = m /\ (1 .. m) \ {m} = 1 .. m - 1
    BY <1>1, MaxOfRange
  <2>2. iter[1 .. m] = TakeLevel(iter[(1 .. m) \ {Max(1 .. m)}], levels[Max(1 .. m)])
    BY <1>1, <1>7, <2>1
  <2> QED
    BY <2>1, <2>2
<1> DEFINE T == {m \in Nat : m <= n => iter[1 .. m] \in WalkSet}
<1>10. 0 \in T
  BY <1>2, <1>8
<1>11. ASSUME NEW m \in Nat, m \in T PROVE m + 1 \in T
  <2> SUFFICES ASSUME m + 1 <= n PROVE iter[1 .. m + 1] \in WalkSet
    OBVIOUS
  <2>1. m + 1 \in 1 .. n /\ (m + 1) - 1 = m
    BY <1>1
  <2>2. iter[1 .. m] \in WalkSet
    BY <1>1, <1>11
  <2>3. iter[1 .. m + 1] = TakeLevel(iter[1 .. m], levels[m + 1])
    BY <2>1, <1>9
  <2> QED
    BY <1>1, <2>1, <2>2, <2>3, TakeLevelType
<1>12. Nat \subseteq T
  <2> HIDE DEF T
  <2> QED
    BY <1>10, <1>11, Induction
<1>13. \A m \in 0 .. n : iter[1 .. m] \in WalkSet
  BY <1>12
<1> QED
  BY <1>8, <1>9, <1>13 DEF Filled, iter, base, n

(* Taking from a level: nothing, or a positive amount at its price. *)
Takes(w, l) == l.price > 0 /\ l.qty > 0 /\ w.left[1] > 0

LEMMA TakeLevelIs ==
  ASSUME NEW w \in WalkSet, NEW l \in [price : Int, qty : Int]
  PROVE  /\ ~Takes(w, l) => TakeLevel(w, l) = w
         /\ Takes(w, l) =>
              LET all  == Whole(l.price * l.qty)
                  usdt == Least(w.left, all)
              IN  /\ all \in Positive /\ usdt \in Positive /\ usdt \in {w.left, all}
                  /\ Whole(l.price) \in Positive
                  /\ AtMost(usdt, w.left) /\ AtMost(usdt, all)
                  /\ TakeLevel(w, l) = [left |-> w.left -- usdt, cost |-> w.cost ++ usdt,
                                        qty |-> w.qty ++ (usdt // Whole(l.price))]
<1>1. w.left \in Frac /\ l.price \in Int /\ l.qty \in Int
  BY DEF WalkSet
<1>2. AtMost(w.left, Zero) <=> ~(w.left[1] > 0)
  <2>1. w.left[1] \in Int
    BY <1>1 DEF Frac
  <2> QED
    BY <1>1, <2>1, Total
<1>3. ~Takes(w, l) => TakeLevel(w, l) = w
  BY <1>1, <1>2 DEF TakeLevel, Takes
<1>4. ASSUME Takes(w, l)
      PROVE  LET all  == Whole(l.price * l.qty)
                 usdt == Least(w.left, all)
             IN  /\ all \in Positive /\ usdt \in Positive /\ usdt \in {w.left, all}
                 /\ Whole(l.price) \in Positive
                 /\ AtMost(usdt, w.left) /\ AtMost(usdt, all)
                 /\ TakeLevel(w, l) = [left |-> w.left -- usdt, cost |-> w.cost ++ usdt,
                                       qty |-> w.qty ++ (usdt // Whole(l.price))]
  <2> DEFINE all  == Whole(l.price * l.qty)
             usdt == Least(w.left, all)
  <2>1. ~(l.price <= 0 \/ l.qty <= 0 \/ AtMost(w.left, Zero))
    BY <1>1, <1>2, <1>4 DEF Takes
  <2>2. l.price * l.qty \in Int /\ l.price * l.qty > 0 /\ l.price > 0
    BY <1>1, <1>4 DEF Takes
  <2>3. all \in Positive /\ Whole(l.price) \in Positive
    BY <1>1, <2>2, WholeFrac DEF Whole, Positive
  <2>4. w.left \in Positive
    BY <1>1, <1>4 DEF Takes, Positive
  <2>5. all \in Frac
    BY <2>3 DEF Positive
  <2>6. usdt \in {w.left, all} /\ AtMost(usdt, w.left) /\ AtMost(usdt, all)
    BY <1>1, <2>5, LeastGreatest
  <2>7. TakeLevel(w, l) = [left |-> w.left -- usdt, cost |-> w.cost ++ usdt,
                           qty |-> w.qty ++ (usdt // Whole(l.price))]
    BY <2>1 DEF TakeLevel
  <2> QED
    BY <2>3, <2>4, <2>6, <2>7
<1> QED
  BY <1>3, <1>4

(* The quantity of a walk is none or positive, and its cost is not negative. *)
Sound(w) == w \in WalkSet /\ w.cost[1] >= 0 /\ (w.qty = Zero \/ w.qty[1] > 0)

LEMMA WalkSound ==
  ASSUME NEW w, Sound(w), NEW l \in [price : Int, qty : Int]
  PROVE  Sound(TakeLevel(w, l))
<1>1. w \in WalkSet /\ TakeLevel(w, l) \in WalkSet
  BY TakeLevelType DEF Sound
<1>2. CASE ~Takes(w, l)
  BY <1>1, <1>2, TakeLevelIs
<1>3. CASE Takes(w, l)
  <2>1. PICK u \in Positive : /\ Whole(l.price) \in Positive
                              /\ TakeLevel(w, l).cost = w.cost ++ u
                              /\ TakeLevel(w, l).qty = w.qty ++ (u // Whole(l.price))
    BY <1>1, <1>3, TakeLevelIs
  <2>2. w.cost \in Frac /\ w.qty \in Frac /\ u \in Frac /\ u[1] > 0 /\ Whole(l.price) \in Frac /\ Whole(l.price)[1] > 0
    BY <1>1, <2>1 DEF WalkSet, Positive
  <2>3. u // Whole(l.price) \in Positive
    BY <2>2, TimesSign
  <2>4. (w.cost ++ u)[1] >= 0
    <3>1. u[1] >= 0
      BY <2>2 DEF Frac
    <3> QED
      BY <3>1, <2>2, PlusMinus DEF NonNeg, Sound
  <2>5. w.qty[1] >= 0
    BY <2>2 DEF Sound, Zero, Whole, Frac
  <2>6. (w.qty ++ (u // Whole(l.price)))[1] > 0
    BY <2>2, <2>3, <2>5, PlusMinus DEF Positive
  <2> QED
    BY <1>1, <2>1, <2>4, <2>6 DEF Sound
<1> QED
  BY <1>2, <1>3

LEMMA FillSound ==
  ASSUME NEW levels \in Levels, NEW budget \in Frac
  PROVE  \A m \in 0 .. Len(levels) : Sound(Filled(levels, budget, m))
<1> DEFINE n == Len(levels)
           T == {m \in Nat : m <= n => Sound(Filled(levels, budget, m))}
<1>1. n \in Nat
  BY DEF Levels
<1>2. 0 \in T
  <2>1. 0 \in 0 .. n
    BY <1>1
  <2>2. Filled(levels, budget, 0) \in WalkSet
    BY <2>1, FillSteps
  <2>3. Filled(levels, budget, 0).cost = Zero /\ Filled(levels, budget, 0).qty = Zero
    BY FillSteps
  <2> QED
    BY <2>2, <2>3 DEF Sound, Zero, Whole
<1>3. ASSUME NEW m \in Nat, m \in T PROVE m + 1 \in T
  <2> SUFFICES ASSUME m + 1 <= n PROVE Sound(Filled(levels, budget, m + 1))
    OBVIOUS
  <2>1. m + 1 \in 1 .. n /\ (m + 1) - 1 = m /\ m <= n
    BY <1>1
  <2>2. Sound(Filled(levels, budget, m))
    BY <1>3, <2>1
  <2>3. Filled(levels, budget, m + 1) = TakeLevel(Filled(levels, budget, m), levels[m + 1])
    BY <2>1, FillSteps
  <2>4. levels[m + 1] \in [price : Int, qty : Int]
    BY <2>1, LevelOf
  <2> QED
    BY <2>2, <2>3, <2>4, WalkSound
<1>4. Nat \subseteq T
  <2> HIDE DEF T
  <2> QED
    BY <1>2, <1>3, Induction
<1> QED
  BY <1>4

(* Every average price is a fraction. *)
LEMMA FillType ==
  ASSUME NEW levels \in Levels, NEW budget \in Frac, NEW entry \in Int
  PROVE  VwapFill(levels, budget, entry) \in Frac
<1> DEFINE w == Filled(levels, budget, Len(levels))
<1>1. Sound(w)
  <2>1. Len(levels) \in 0 .. Len(levels)
    BY DEF Levels
  <2> QED
    BY <2>1, FillSound
<1>2. VwapFill(levels, budget, entry) = IF w.qty = Zero THEN Whole(entry) ELSE w.cost // w.qty
  BY FillIs
<1> HIDE DEF w
<1>3. w.cost \in Frac /\ w.qty \in Frac /\ (w.qty = Zero \/ w.qty[1] > 0)
  BY <1>1 DEF Sound, WalkSet
<1> QED
  BY <1>2, <1>3, FracOps, WholeFrac

-----------------------------------------------------------------------------
(* The size. *)
SizeInputs ==
  [ready : BOOLEAN, capable : BOOLEAN, atr14 : Nat, atr100 : Nat, risk : Nat, equity : Nat,
   avg : Int, sl : Int, levels : Levels, mult : NonNeg,
   spec : [lot : NonNeg, minQty : NonNeg, minNotional : NonNeg], known : BOOLEAN,
   count : Nat, maxCount : Nat, notional : Int, maxExposure : NonNeg, sector : Int,
   maxSector : NonNeg]

LEMMA NonNegIs == \A p : p \in NonNeg <=> p \in Frac /\ p[1] >= 0
  BY DEF NonNeg

LEMMA PositiveIs ==
  /\ \A p : p \in Positive <=> p \in Frac /\ p[1] > 0
  /\ \A p \in Frac : p[1] \in Int
  /\ Positive \subseteq NonNeg
  /\ \A a \in Int : a > 0 => Whole(a) \in Positive
  BY DEF Positive, NonNeg, Whole, Frac

LEMMA DistanceIs ==
  ASSUME NEW i \in SizeInputs
  PROVE  Distance(i) \in Nat /\ (Distance(i) = 0 <=> i.sl = i.avg)
  BY DEF SizeInputs, Distance, Abs

LEMMA FillPriceType ==
  ASSUME NEW i \in SizeInputs, NEW budget \in Frac
  PROVE  FillPrice(i, budget) \in Frac
<1>1. i.avg \in Int /\ i.levels \in Levels
  BY DEF SizeInputs
<1> QED
  BY <1>1, FillType, WholeFrac DEF FillPrice

(* A fill at a worse price than the first level's is a loss, never a gain. *)
LEMMA SlippageType ==
  ASSUME NEW i \in SizeInputs, NEW budget \in Frac
  PROVE  Slippage(i, budget) \in NonNeg
<1>1. CASE i.levels = <<>> \/ i.levels[1].price <= 0
  BY <1>1, WholeFrac DEF Slippage
<1>2. CASE ~(i.levels = <<>> \/ i.levels[1].price <= 0)
  <2> DEFINE best == Whole(i.levels[1].price)
             fill == FillPrice(i, budget)
             part == (IF Side(i) = "long" THEN fill -- best ELSE best -- fill) // best
  <2>1. i.levels[1].price \in Int /\ i.levels[1].price > 0
    <3>1. i.levels \in Levels
      BY DEF SizeInputs
    <3>2. 1 \in 1 .. Len(i.levels)
      BY <1>2, <3>1 DEF Levels
    <3> QED
      BY <1>2, <3>1, <3>2, LevelOf
  <2>2. best \in Frac /\ best[1] > 0
    BY <2>1, PositiveIs
  <2>3. fill \in Frac
    BY FillPriceType
  <2> HIDE DEF best, fill
  <2>4. part \in Frac
    BY <2>2, <2>3, FracOps
  <2>5. Slippage(i, budget) = Greatest(Zero, part)
    BY <1>2 DEF Slippage, best, fill, part
  <2> HIDE DEF part
  <2>6. Zero \in Frac
    BY WholeFrac, NonNegIs
  <2>7. Greatest(Zero, part) \in Frac /\ AtMost(Zero, Greatest(Zero, part))
    BY <2>4, <2>6, LeastGreatest
  <2> QED
    BY <2>5, <2>7, Total, NonNegIs
<1> QED
  BY <1>1, <1>2

LEMMA OneTimes ==
  ASSUME NEW p \in Frac
  PROVE  AtMost(One ** p, p)
<1>1. PICK n \in Int, d \in Int : d > 0 /\ Val(p, n, d)
  BY FracParts
<1>2. Val(One, 1, 1)
  BY ValWhole DEF One
<1>3. Val(One ** p, 1 * n, 1 * d)
  BY <1>1, <1>2, ValTimes
<1>4. 1 * n = n /\ 1 * d = d /\ n * d <= n * d
  BY <1>1
<1> QED
  BY <1>1, <1>3, <1>4, ValAtMost

(* A factor of at most one makes no number larger. *)
LEMMA Shrinks ==
  ASSUME NEW p \in NonNeg, NEW k \in Frac, AtMost(k, One)
  PROVE  AtMost(k ** p, p)
<1>1. p \in Frac /\ One \in Frac
  BY NonNegIs, WholeFrac
<1>2. AtMost(k ** p, One ** p) /\ AtMost(One ** p, p)
  BY <1>1, TimesMono, OneTimes
<1>3. k ** p \in Frac /\ One ** p \in Frac
  BY <1>1, FracOps
<1> QED
  BY <1>1, <1>2, <1>3, Trans

(* The base size is no larger than what risks the risk per trade. *)
LEMMA BaseBounded ==
  ASSUME NEW i \in SizeInputs, SizingEligible(i)
  PROVE  /\ i.avg > 0 /\ Distance(i) > 0
         /\ BaseSize(i) \in NonNeg
         /\ AtMost(BaseSize(i), Over(i.risk * i.avg, Distance(i)))
<1>1. i.avg \in Int /\ i.avg > 0 /\ Distance(i) \in Nat /\ Distance(i) > 0 /\ i.risk \in Nat
      /\ i.atr14 \in Nat /\ i.atr100 \in Nat
  BY DistanceIs DEF SizeInputs, SizingEligible, Gated
<1> DEFINE B == Over(i.risk * i.avg, Distance(i))
           C == IF AtrKnown(i) THEN AtrC(i) ELSE One
<1>2. i.risk * i.avg \in Nat
  BY <1>1
<1>3. B \in NonNeg
  BY <1>1, <1>2, ValOver, ValSign, OverFrac, NonNegIs
<1>4. C \in NonNeg /\ AtMost(C, One)
  <2>1. One \in NonNeg /\ One \in Frac /\ AtMost(One, One)
    BY WholeFrac, NonNegIs, Total
  <2>2. CASE AtrKnown(i)
    <3>1. i.atr14 > 0
      BY <2>2 DEF AtrKnown
    <3>2. Over(i.atr100, i.atr14) \in Frac /\ Over(i.atr100, i.atr14)[1] >= 0
      BY <1>1, <3>1, ValOver, ValSign, OverFrac
    <3>3. Over(i.atr100, i.atr14) \in NonNeg
      BY <3>2, NonNegIs
    <3>4. AtrC(i) \in {Over(i.atr100, i.atr14), One} /\ AtMost(AtrC(i), One)
      BY <2>1, <3>2, LeastGreatest DEF AtrC
    <3> QED
      BY <2>1, <2>2, <3>3, <3>4
  <2> QED
    BY <2>1, <2>2
<1>5. BaseSize(i) = C ** B
  BY DEF BaseSize, SizingEligible
<1> HIDE DEF B, C
<1>6. C ** B \in NonNeg /\ AtMost(C ** B, B)
  BY <1>3, <1>4, TimesSign, Shrinks, NonNegIs
<1> QED
  BY <1>1, <1>5, <1>6 DEF B

(* What the stop loses on the contracts before the regime is within the risk. *)
LEMMA RawBounded ==
  ASSUME NEW i \in SizeInputs, SizingEligible(i)
  PROVE  SizeRaw(i) \in Frac /\ AtMost(SizeRaw(i), Over(i.risk, Distance(i)))
<1> DEFINE b == BaseSize(i)
           k == One -- Slippage(i, b)
           B == Over(i.risk * i.avg, Distance(i))
           q == Over(i.risk, Distance(i))
           A == Whole(i.avg)
<1>1. i.avg > 0 /\ Distance(i) > 0 /\ b \in NonNeg /\ AtMost(b, B)
  BY BaseBounded
<1>2. i.avg \in Int /\ i.risk \in Nat /\ Distance(i) \in Nat /\ i.risk * i.avg \in Int
  BY DistanceIs DEF SizeInputs
<1>3. b \in Frac /\ Slippage(i, b) \in NonNeg /\ One \in Frac
  BY <1>1, SlippageType, NonNegIs, WholeFrac
<1>4. k \in Frac /\ AtMost(k, One)
  <2> HIDE DEF b
  <2> QED
    BY <1>3, FracOps, PlusMinus, NonNegIs
<1>5. A \in Positive /\ A \in Frac
  BY <1>1, <1>2, PositiveIs
<1>6. Val(B, i.risk * i.avg, Distance(i)) /\ Val(q, i.risk, Distance(i)) /\ Val(A, i.avg, 1)
  BY <1>1, <1>2, ValOver, ValWhole
<1>7. SizeRaw(i) = (b ** k) // A
  BY DEF SizeRaw
<1> HIDE DEF b, k, B, q, A
<1>8. b ** k \in Frac /\ AtMost(b ** k, b)
  BY <1>1, <1>3, <1>4, FracOps, Shrinks
<1>9. B \in Frac /\ q \in Frac /\ q ** A \in Frac
  BY <1>5, <1>6, FracOps DEF Val
<1>10. AtMost(B, q ** A)
  <2>1. Val(q ** A, i.risk * i.avg, Distance(i) * 1)
    BY <1>6, ValTimes
  <2>2. (i.risk * i.avg) * (Distance(i) * 1) <= (i.risk * i.avg) * Distance(i)
    BY <1>2
  <2> QED
    BY <1>6, <2>1, <2>2, ValAtMost
<1>11. AtMost(b ** k, q ** A)
  BY <1>1, <1>3, <1>8, <1>9, <1>10, Trans
<1>12. AtMost((b ** k) // A, q) /\ (b ** k) // A \in Frac
  BY <1>5, <1>8, <1>9, <1>11, DivTimes, FracOps, PositiveIs
<1> QED
  BY <1>7, <1>12 DEF q

(* Rounding to the lot is towards zero. *)
LEMMA SnapDown ==
  ASSUME NEW x \in Frac, NEW lot \in NonNeg
  PROVE  /\ Snap(x, lot) \in Frac
         /\ AtMost(Snap(x, lot), x) \/ AtMost(Snap(x, lot), Zero)
<1>1. CASE lot[1] = 0
  BY <1>1, Total DEF Snap
<1>2. CASE lot[1] # 0
  <2>1. lot \in Positive /\ lot \in Frac /\ lot[1] >= 0
    BY <1>2, NonNegIs, PositiveIs
  <2> DEFINE y == x // lot
  <2>2. y \in Frac
    BY <2>1, FracOps, PositiveIs
  <2>3. CASE x[1] < 0
    <3> DEFINE n == Floor(Zero -- y)
    <3>1. Zero -- y \in Frac
      BY <2>2, FracOps, WholeFrac, NonNegIs
    <3>2. (Zero -- y)[1] >= 0
      <4>1. PICK a \in Int, d \in Int : d > 0 /\ Val(x, a, d) /\ x = <<a, d>>
        BY FracParts
      <4>2. PICK m \in Int, e \in Int : e > 0 /\ Val(lot, m, e) /\ lot = <<m, e>>
        BY <2>1, FracParts
      <4>3. m > 0 /\ a < 0
        BY <2>1, <2>3, <4>1, <4>2, PositiveIs
      <4>4. Val(y, a * e, d * m)
        BY <4>1, <4>2, <4>3, ValDiv
      <4>5. Val(Zero, 0, d * m)
        <5>1. Val(Zero, 0, 1)
          BY ValWhole DEF Zero
        <5>2. d * m \in Int /\ d * m > 0 /\ 0 * (d * m) = 0 * 1
          BY <4>1, <4>3
        <5> QED
          BY <5>1, <5>2, ValSame
      <4>6. Val(Zero -- y, 0 - a * e, d * m)
        BY <4>4, <4>5, ValPlus
      <4>7. 0 - a * e >= 0
        <5>1. a * e <= 0
          BY <4>2, <4>3
        <5> QED
          BY <5>1
      <4> QED
        BY <4>6, <4>7, ValSign
    <3> HIDE DEF y
    <3>3. n \in Int /\ n >= 0
      BY <3>1, <3>2, FloorIs
    <3>4. Snap(x, lot) = Whole(-n) ** lot
      BY <1>2, <2>3 DEF Snap, y
    <3> HIDE DEF n
    <3>5. Whole(-n) \in Frac /\ Whole(-n)[1] <= 0
      BY <3>3, WholeFrac DEF Whole
    <3>6. Whole(-n) ** lot \in Frac /\ AtMost(Whole(-n) ** lot, Zero)
      BY <2>1, <3>5, FracOps, TimesSign
    <3> QED
      BY <3>4, <3>6
  <2>4. CASE ~(x[1] < 0)
    <3> HIDE DEF y
    <3>1. Floor(y) \in Int /\ AtMost(Whole(Floor(y)), y)
      BY <2>2, FloorIs
    <3>2. Whole(Floor(y)) \in Frac
      BY <3>1, WholeFrac
    <3>3. AtMost(Whole(Floor(y)) ** lot, x)
      BY <2>1, <3>1, <3>2, DivTimes DEF y
    <3>4. Snap(x, lot) = Whole(Floor(y)) ** lot
      BY <1>2, <2>4 DEF Snap, y
    <3> QED
      BY <2>1, <3>2, <3>3, <3>4, FracOps
  <2> QED
    BY <2>3, <2>4
<1> QED
  BY <1>1, <1>2

LEMMA SpecParts ==
  ASSUME NEW i \in SizeInputs
  PROVE  /\ i.spec.lot \in NonNeg /\ i.spec.minQty \in NonNeg /\ i.spec.minNotional \in NonNeg
         /\ i.mult \in NonNeg /\ i.risk \in Nat /\ i.equity \in Nat /\ i.avg \in Int /\ i.sl \in Int
         /\ i.sector \in Int /\ i.maxSector \in NonNeg /\ i.levels \in Levels
  BY DEF SizeInputs

(* Whatever the regime and the lot do, the size is not beyond the larger of    *)
(* nothing and what they began with.                                           *)
LEMMA SizeBounded ==
  ASSUME NEW i \in SizeInputs
  PROVE  /\ SizeRaw(i) \in Frac /\ SizeRaw(i) ** i.mult \in Frac /\ Size(i) \in Frac
         /\ AtMost(Size(i), SizeRaw(i) ** i.mult) \/ AtMost(Size(i), Zero)
<1>1. SizeRaw(i) \in Frac
  BY RawBounded, WholeFrac, NonNegIs DEF SizeRaw
<1>2. i.mult \in Frac
  BY SpecParts, NonNegIs
<1>3. SizeRaw(i) ** i.mult \in Frac
  BY <1>1, <1>2, FracOps
<1>4. Size(i) \in {Snap(SizeRaw(i) ** i.mult, i.spec.lot), SizeRaw(i) ** i.mult}
  BY DEF Size, Fitted
<1>5. i.spec.lot \in NonNeg
  BY SpecParts
<1> DEFINE x == SizeRaw(i) ** i.mult
<1> HIDE DEF x
<1>6. Snap(x, i.spec.lot) \in Frac /\ (AtMost(Snap(x, i.spec.lot), x) \/ AtMost(Snap(x, i.spec.lot), Zero))
  BY <1>3, <1>5, SnapDown DEF x
<1>7. AtMost(x, x)
  BY <1>3, Total DEF x
<1> QED
  BY <1>1, <1>3, <1>4, <1>6, <1>7 DEF x

(* For every input of the sizing: what the stop loses on the size shown is      *)
(* within the risk per trade times the regime's multiplier (run_risk_calculator). *)
THEOREM RiskIsBounded == \A i \in SizeInputs : RiskBounded(i)
<1> SUFFICES ASSUME NEW i \in SizeInputs
             PROVE  AtMost(Size(i) ** Whole(Distance(i)), Whole(i.risk) ** i.mult)
  BY DEF RiskBounded
<1> DEFINE D == Whole(Distance(i))
           R == Whole(i.risk)
           x == SizeRaw(i) ** i.mult
<1>1. Distance(i) \in Nat /\ i.risk \in Nat /\ i.mult \in NonNeg /\ i.mult \in Frac /\ i.mult[1] >= 0
  BY DistanceIs, SpecParts, NonNegIs
<1>2. D \in NonNeg /\ D \in Frac /\ R \in NonNeg /\ R \in Frac /\ Val(D, Distance(i), 1) /\ Val(R, i.risk, 1)
  BY <1>1, WholeFrac, NonNegIs, ValWhole
<1>3. x \in Frac /\ Size(i) \in Frac /\ (AtMost(Size(i), x) \/ AtMost(Size(i), Zero))
  BY SizeBounded
<1>4. R ** i.mult \in Frac /\ AtMost(Zero, R ** i.mult) /\ Size(i) ** D \in Frac /\ x ** D \in Frac
      /\ Zero \in Frac /\ Zero ** D \in Frac
  <2>1. R ** i.mult \in NonNeg
    BY <1>1, <1>2, TimesSign, NonNegIs
  <2>2. Zero \in Frac
    BY WholeFrac, NonNegIs
  <2> HIDE DEF D, R, x
  <2> QED
    BY <1>1, <1>2, <1>3, <2>1, <2>2, FracOps, Total, NonNegIs
<1>5. AtMost(Zero ** D, R ** i.mult)
  <2>1. AtMost(Zero ** D, Zero)
    <3>1. Zero[1] <= 0 /\ D[1] >= 0
      BY <1>2, WholeFrac, NonNegIs
    <3> QED
      BY <1>2, <1>4, <3>1, TimesSign
  <2> HIDE DEF D, R, x
  <2> QED
    BY <1>4, <2>1, Trans
<1>6. AtMost(x ** D, R ** i.mult)
  <2>1. CASE ~SizingEligible(i)
    <3>1. x = Zero ** i.mult
      BY <2>1 DEF SizeRaw
    <3>2. AtMost(x, Zero)
      <4>1. Zero[1] <= 0 /\ Zero \in Frac
        BY WholeFrac, NonNegIs
      <4> QED
        BY <1>1, <3>1, <4>1, TimesSign
    <3> HIDE DEF D, R, x
    <3>3. AtMost(x ** D, Zero ** D)
      BY <1>2, <1>3, <1>4, <3>2, TimesMono
    <3> QED
      BY <1>4, <1>5, <3>3, Trans
  <2>2. CASE SizingEligible(i)
    <3> DEFINE q == Over(i.risk, Distance(i))
    <3>1. SizeRaw(i) \in Frac /\ AtMost(SizeRaw(i), q) /\ Distance(i) > 0
      BY <2>2, RawBounded, BaseBounded
    <3>2. q \in Frac /\ Val(q, i.risk, Distance(i))
      BY <1>1, <3>1, OverFrac, ValOver
    <3> HIDE DEF q
    <3>3. AtMost(x, q ** i.mult) /\ q ** i.mult \in Frac
      BY <1>1, <3>1, <3>2, TimesMono, FracOps
    <3> HIDE DEF D, R, x
    <3>4. AtMost(x ** D, (q ** i.mult) ** D) /\ (q ** i.mult) ** D \in Frac
      BY <1>2, <1>3, <3>3, TimesMono, FracOps
    <3>5. AtMost((q ** i.mult) ** D, R ** i.mult)
      <4>1. PICK m \in Int, e \in Int : e > 0 /\ Val(i.mult, m, e)
        BY <1>1, FracParts
      <4>2. Val((q ** i.mult) ** D, (i.risk * m) * Distance(i), (Distance(i) * e) * 1)
        BY <1>2, <3>2, <4>1, ValTimes
      <4>3. Val(R ** i.mult, i.risk * m, 1 * e)
        BY <1>2, <4>1, ValTimes
      <4>4. ((i.risk * m) * Distance(i)) * (1 * e) = (i.risk * m) * ((Distance(i) * e) * 1)
        BY <1>1, <4>1
      <4>5. (i.risk * m) * ((Distance(i) * e) * 1) \in Int
        BY <1>1, <4>1
      <4> QED
        BY <4>2, <4>3, <4>4, <4>5, ValAtMost
    <3> QED
      BY <1>4, <3>4, <3>5, Trans
  <2> QED
    BY <2>1, <2>2
<1> HIDE DEF D, R, x
<1>7. CASE AtMost(Size(i), x)
  <2>1. AtMost(Size(i) ** D, x ** D)
    BY <1>2, <1>3, <1>7, TimesMono
  <2> QED
    BY <1>4, <1>6, <2>1, Trans DEF D, R
<1>8. CASE AtMost(Size(i), Zero)
  <2>1. AtMost(Size(i) ** D, Zero ** D)
    BY <1>2, <1>3, <1>4, <1>8, TimesMono
  <2> QED
    BY <1>4, <1>5, <2>1, Trans DEF D, R
<1> QED
  BY <1>3, <1>7, <1>8

LEMMA FillOfType ==
  ASSUME NEW i \in SizeInputs
  PROVE  FillOf(i) \in Frac
<1>1. CASE SizingEligible(i)
  <2>1. BaseSize(i) \in Frac
    BY <1>1, BaseBounded, NonNegIs
  <2> QED
    BY <1>1, <2>1, FillPriceType DEF FillOf
<1>2. CASE ~SizingEligible(i)
  BY <1>2, WholeFrac, NonNegIs DEF FillOf
<1> QED
  BY <1>1, <1>2

(* One lot above a number that was cut to the lot is above the number, and is *)
(* not cut below it again.                                                     *)
LEMMA NextLot ==
  ASSUME NEW t \in NonNeg, NEW lot \in Positive
  PROVE  /\ Snap(t, lot) ++ lot \in NonNeg
         /\ Snap(Snap(t, lot) ++ lot, lot) \in Frac
         /\ Less(t, Snap(Snap(t, lot) ++ lot, lot))
<1> DEFINE y == t // lot
           f == Floor(y)
           s == Whole(f) ** lot
           r == s ++ lot
           z == r // lot
           g == Floor(z)
<1>1. t \in Frac /\ lot \in Frac /\ lot \in NonNeg /\ lot[1] # 0 /\ ~(t[1] < 0) /\ t[1] >= 0
  BY NonNegIs, PositiveIs
<1>2. y \in Frac /\ y[1] >= 0
  BY <1>1, FracOps, TimesSign, PositiveIs, NonNegIs
<1>3. Snap(t, lot) = s
  BY <1>1 DEF Snap
<1> HIDE DEF y
<1>4. f \in Int /\ f >= 0 /\ Less(y, Whole(f + 1))
  BY <1>2, FloorIs
<1> HIDE DEF f
<1>5. Whole(f) \in Frac /\ Whole(f + 1) \in Frac /\ Whole(f)[1] >= 0 /\ f \in Nat /\ f + 1 \in Int
  BY <1>4, WholeFrac, NonNegIs
<1>6. s \in NonNeg /\ s \in Frac
  BY <1>1, <1>5, TimesSign, FracOps, NonNegIs
<1>7. r \in NonNeg /\ r \in Frac /\ ~(r[1] < 0)
  <2> HIDE DEF s
  <2>1. s[1] >= 0 /\ lot[1] >= 0
    BY <1>6, <1>1, NonNegIs
  <2>2. s ++ lot \in NonNeg
    BY <1>1, <1>6, <2>1, PlusMinus
  <2>3. s ++ lot \in Frac /\ (s ++ lot)[1] \in Int /\ (s ++ lot)[1] >= 0
    BY <2>2, NonNegIs, PositiveIs
  <2> QED
    BY <2>2, <2>3
<1>8. AtMost(Whole(f + 1) ** lot, r)
  <2>1. PICK m \in Int, e \in Int : e > 0 /\ Val(lot, m, e)
    BY <1>1, FracParts
  <2>2. Val(s, f * m, 1 * e) /\ Val(Whole(f + 1) ** lot, (f + 1) * m, 1 * e)
    BY <1>5, <2>1, ValWhole, ValTimes
  <2>3. 1 * e = e /\ (f + 1) * m = f * m + m /\ f * m + m \in Int
    BY <1>5, <2>1
  <2>4. Val(r, f * m + m, e) /\ Val(Whole(f + 1) ** lot, f * m + m, e)
    BY <2>1, <2>2, <2>3, ValPlus
  <2>5. (f * m + m) * e \in Int
    BY <1>5, <2>1
  <2> QED
    BY <2>4, <2>5, ValAtMost
<1> HIDE DEF s, r
<1>9. z \in Frac /\ AtMost(Whole(f + 1), z)
  BY <1>1, <1>5, <1>7, <1>8, FracOps, DivTimes, PositiveIs
<1>10. Snap(r, lot) = Whole(g) ** lot
  BY <1>1, <1>7 DEF Snap
<1> HIDE DEF z
<1>11. g \in Int /\ f + 1 <= g
  BY <1>5, <1>9, FloorIs
<1> HIDE DEF g
<1>12. Whole(g) \in Frac /\ AtMost(Whole(f + 1), Whole(g))
  BY <1>5, <1>11, WholeFrac DEF AtMost, Whole
<1>13. Whole(g) ** lot \in Frac /\ Whole(f + 1) ** lot \in Frac
       /\ AtMost(Whole(f + 1) ** lot, Whole(g) ** lot)
  BY <1>1, <1>5, <1>12, FracOps, TimesMono
<1>14. Less(t, Whole(f + 1) ** lot)
  BY <1>1, <1>4, <1>5, DivTimes DEF y
<1>15. Less(t, Whole(g) ** lot)
  BY <1>1, <1>13, <1>14, Trans
<1> QED
  BY <1>3, <1>7, <1>10, <1>13, <1>15 DEF r

(* For every input whose contract has a lot: the size suggested for a notional *)
(* that is too small is one the contract takes (validate_and_snap_size).       *)
THEOREM SuggestionIsTaken ==
  \A i \in SizeInputs : i.spec.lot[1] > 0 \/ i.spec.minNotional[1] = 0 => SuggestionTaken(i)
<1> SUFFICES ASSUME NEW i \in SizeInputs, i.spec.lot[1] > 0 \/ i.spec.minNotional[1] = 0
             PROVE  SuggestionTaken(i)
  OBVIOUS
<1> DEFINE raw == SizeRaw(i) ** i.mult
           price == FillOf(i)
           low == Snap(raw, i.spec.lot)
           t == i.spec.minNotional // price
           s == Suggested(raw, i.spec, price)
           new == Snap(s, i.spec.lot)
<1> SUFFICES ASSUME price[1] > 0, ~Valid(raw, i.spec, price), ~TooFew(low, i.spec)
             PROVE  Valid(s, i.spec, price)
  BY DEF SuggestionTaken
<1>1. /\ i.spec.lot \in NonNeg /\ i.spec.minQty \in NonNeg /\ i.spec.minNotional \in NonNeg
      /\ i.spec.lot \in Frac /\ i.spec.minQty \in Frac /\ i.spec.minNotional \in Frac
  BY SpecParts, NonNegIs
<1>2. raw \in Frac /\ price \in Positive /\ price \in Frac
  BY SizeBounded, FillOfType, PositiveIs
<1>3. TooSmall(low, i.spec, price)
  BY DEF Valid
<1>4. i.spec.lot \in Positive
  BY <1>1, <1>3, PositiveIs DEF TooSmall
<1>5. t \in NonNeg /\ t \in Frac
  BY <1>1, <1>2, TimesSign, PositiveIs, NonNegIs
<1> HIDE DEF raw, price
<1>6. low \in Frac
  BY <1>1, <1>2, SnapDown
<1>7. s = Snap(t, i.spec.lot) ++ i.spec.lot
  BY <1>4, PositiveIs DEF Suggested
<1> HIDE DEF low, s
<1>8. Less(low, t)
  <2>1. Less(low ** price, i.spec.minNotional)
    BY <1>3 DEF TooSmall
  <2> QED
    BY <1>1, <1>2, <1>6, <2>1, DivTimes
<1> HIDE DEF t
<1>9. new \in Frac /\ Less(t, new)
  BY <1>4, <1>5, <1>7, NextLot
<1> HIDE DEF new
<1>10. ~TooFew(new, i.spec)
  <2> SUFFICES ASSUME TooFew(new, i.spec) PROVE FALSE
    OBVIOUS
  <2>1. i.spec.minQty[1] > 0 /\ Less(new, i.spec.minQty)
    BY DEF TooFew
  <2>2. AtMost(i.spec.minQty, low)
    BY <1>1, <1>6, <2>1, Total DEF TooFew
  <2>3. Less(i.spec.minQty, t)
    BY <1>1, <1>5, <1>6, <1>8, <2>2, Trans
  <2>4. AtMost(t, new)
    BY <1>5, <1>9, Less2
  <2>5. Less(i.spec.minQty, new)
    BY <1>1, <1>5, <1>9, <2>3, <2>4, Trans
  <2> QED
    BY <1>1, <1>9, <2>1, <2>5, Less2, Total
<1>11. ~TooSmall(new, i.spec, price)
  <2> SUFFICES ASSUME TooSmall(new, i.spec, price) PROVE FALSE
    OBVIOUS
  <2>1. Less(new ** price, i.spec.minNotional)
    BY DEF TooSmall
  <2>2. Less(new, t)
    BY <1>1, <1>2, <1>9, <2>1, DivTimes DEF t
  <2> QED
    BY <1>5, <1>9, <2>2, Less2, Total
<1> QED
  BY <1>10, <1>11 DEF Valid, new

(* For every input: an eligible trade leaves the net notional of its sector    *)
(* within the limit, on either side (check_correlated_limit).                  *)
THEOREM SectorIsHeld == \A i \in SizeInputs : SectorHeld(i)
<1> SUFFICES ASSUME NEW i \in SizeInputs, Eligible(i) PROVE SectorHeld(i)
  BY DEF SectorHeld
<1> DEFINE net == Whole(i.sector) ++ (IF i.sl > i.avg THEN Zero -- EstSize(i) ELSE EstSize(i))
           limit == i.maxSector ** Whole(i.equity)
<1>1. Whole(i.sector) \in Frac /\ EstSize(i) \in Frac /\ limit \in Frac /\ Zero \in Frac
  <2>1. i.sector \in Int /\ i.avg \in Int /\ i.equity \in Int /\ i.maxSector \in Frac
    BY SpecParts, NonNegIs
  <2>2. Size(i) \in Frac
    BY SizeBounded
  <2> QED
    BY <2>1, <2>2, WholeFrac, FracOps, NonNegIs DEF EstSize
<1>2. net \in Frac /\ Zero -- limit \in Frac
  BY <1>1, FracOps
<1>3. AtMost(Magnitude(net), limit)
  <2>1. SectorAfter(i) = Magnitude(net)
    BY DEF SectorAfter, Signed, Side
  <2> QED
    BY <2>1 DEF Eligible
<1> HIDE DEF net, limit
<1>4. PICK n \in Int, m \in Int, d \in Int : Val(net, n, d) /\ Val(limit, m, d)
  BY <1>1, <1>2, CommonDenominator
<1>5. d > 0
  BY <1>4 DEF Val
<1>6. Val(Magnitude(net), IF n < 0 THEN -n ELSE n, d)
  <2>1. PICK x \in Int, y \in Int : net = <<x, y>> /\ y > 0 /\ x * d = n * y
    BY <1>4, ValParts
  <2>2. Magnitude(net) = Over(Abs(x), y) /\ Abs(x) \in Int
    BY <2>1 DEF Magnitude, Abs
  <2>3. Val(Magnitude(net), Abs(x), y)
    BY <2>1, <2>2, ValOver
  <2>4. x < 0 <=> n < 0
    BY <1>4, <2>1, ValSign
  <2>5. Abs(x) * d = (IF n < 0 THEN -n ELSE n) * y
    <3>1. CASE n < 0
      <4>1. (-x) * d = -(x * d) /\ (-n) * y = -(n * y)
        OBVIOUS
      <4> QED
        BY <2>1, <2>4, <3>1, <4>1 DEF Abs
    <3>2. CASE ~(n < 0)
      BY <2>1, <2>4, <3>2 DEF Abs
    <3> QED
      BY <3>1, <3>2
  <2>6. (IF n < 0 THEN -n ELSE n) \in Int
    OBVIOUS
  <2> QED
    BY <1>5, <2>3, <2>5, <2>6, ValSame
<1>7. (IF n < 0 THEN -n ELSE n) <= m
  <2>1. (IF n < 0 THEN -n ELSE n) * d <= m * d
    BY <1>3, <1>4, <1>6, ValAtMost
  <2>2. (IF n < 0 THEN -n ELSE n) \in Int
    OBVIOUS
  <2> QED
    BY <1>5, <2>1, <2>2, Cancel
<1>8. n <= m /\ 0 - m <= n
  BY <1>7
<1>9. AtMost(net, limit)
  <2>1. n * d <= m * d
    BY <1>5, <1>8, Cancel
  <2> QED
    BY <1>4, <2>1, ValAtMost
<1>10. AtMost(Zero -- limit, net)
  <2>1. Val(Zero, 0, d)
    <3>1. Val(Zero, 0, 1)
      BY ValWhole DEF Zero
    <3>2. 0 * d = 0 * 1
      OBVIOUS
    <3> QED
      BY <1>5, <3>1, <3>2, ValSame
  <2>2. Val(Zero -- limit, 0 - m, d)
    BY <1>4, <2>1, ValPlus
  <2>3. (0 - m) * d <= n * d
    BY <1>5, <1>8, Cancel
  <2> QED
    BY <1>4, <2>2, <2>3, ValAtMost
<1> QED
  BY <1>9, <1>10 DEF SectorHeld, net, limit

-----------------------------------------------------------------------------
(* A larger order. *)

LEMMA FourParts ==
  ASSUME NEW p \in Frac, NEW q \in Frac, NEW r \in Frac, NEW s \in Frac
  PROVE  \E a, b, c, e, d \in Int : d > 0 /\ Val(p, a, d) /\ Val(q, b, d) /\ Val(r, c, d) /\ Val(s, e, d)
<1>1. PICK a \in Int, b \in Int, d \in Int : Val(p, a, d) /\ Val(q, b, d)
  BY CommonDenominator
<1>2. PICK c \in Int, e \in Int, f \in Int : Val(r, c, f) /\ Val(s, e, f)
  BY CommonDenominator
<1>3. d > 0 /\ f > 0
  BY <1>1, <1>2 DEF Val
<1>4. Val(p, a * f, d * f) /\ Val(q, b * f, d * f) /\ Val(r, c * d, f * d) /\ Val(s, e * d, f * d)
  BY <1>1, <1>2, <1>3, ValScale
<1>5. d * f = f * d /\ d * f \in Int /\ a * f \in Int /\ b * f \in Int /\ c * d \in Int /\ e * d \in Int
  OBVIOUS
<1>6. d * f > 0
  BY <1>4, <1>5 DEF Val
<1> QED
  BY <1>4, <1>5, <1>6

(* A purchase of u at a price P, over one denominator. *)
LEMMA Bought ==
  ASSUME NEW cost, NEW qty, NEW u, NEW P \in Int, P > 0,
         NEW C \in Int, NEW Q \in Int, NEW U \in Int, NEW d \in Int,
         Val(cost, C, d), Val(qty, Q, d), Val(u, U, d)
  PROVE  /\ Val(cost ++ u, C * P + U * P, d * P)
         /\ Val(qty ++ (u // Whole(P)), Q * P + U, d * P)
<1>1. Val(cost, C * P, d * P) /\ Val(qty, Q * P, d * P) /\ Val(u, U * P, d * P)
  BY ValScale
<1>2. Val(u // Whole(P), U * 1, d * P)
  BY ValWhole, ValDiv
<1>3. U * 1 = U
  OBVIOUS
<1> QED
  BY <1>1, <1>2, <1>3, ValPlus

(* What has been bought has not cost more than P each. *)
Cheap(w, P) == AtMost(w.cost, Whole(P) ** w.qty)

(* The average of v is not better than that of w. *)
Dearer(w, v) ==
    \E c, q, C, Q, d \in Int :
        /\ Val(w.cost, c, d) /\ Val(w.qty, q, d) /\ Val(v.cost, C, d) /\ Val(v.qty, Q, d)
        /\ q > 0 /\ Q > 0 /\ c * Q <= C * q

LEMMA CheapIs ==
  ASSUME NEW w, NEW C \in Int, NEW Q \in Int, NEW d \in Int, NEW P \in Int,
         Val(w.cost, C, d), Val(w.qty, Q, d)
  PROVE  Cheap(w, P) <=> C <= P * Q
<1>1. d > 0
  BY DEF Val
<1>2. Val(Whole(P) ** w.qty, P * Q, d) /\ P * Q \in Int
  <2>1. Val(Whole(P), P, 1)
    BY ValWhole
  <2>2. Val(Whole(P) ** w.qty, P * Q, 1 * d)
    BY <2>1, ValTimes
  <2> QED
    BY <2>2
<1>3. Cheap(w, P) <=> C * d <= (P * Q) * d
  BY <1>2, ValAtMost DEF Cheap
<1> QED
  BY <1>1, <1>2, <1>3, Cancel

LEMMA Mono ==
  ASSUME NEW a \in Int, NEW b \in Int, NEW c \in Int, a <= b, c >= 0
  PROVE  a * c <= b * c
<1>1. CASE c > 0
  BY <1>1, Cancel
<1>2. CASE c = 0
  BY <1>2
<1> QED
  BY <1>1, <1>2

LEMMA CheapStep ==
  ASSUME NEW w \in WalkSet, NEW l \in [price : Int, qty : Int], NEW P \in Int, P > 0, Cheap(w, P),
         Takes(w, l) => l.price <= P
  PROVE  Cheap(TakeLevel(w, l), P)
<1>1. CASE ~Takes(w, l)
  BY <1>1, TakeLevelIs
<1>2. CASE Takes(w, l)
  <2> DEFINE v == TakeLevel(w, l)
             p == l.price
  <2>0. p \in Int /\ p > 0 /\ p <= P
    BY <1>2 DEF Takes
  <2> HIDE DEF p
  <2>1. PICK u \in Positive : v.cost = w.cost ++ u /\ v.qty = w.qty ++ (u // Whole(p))
    BY <1>2, TakeLevelIs DEF p
  <2>2. w.cost \in Frac /\ w.qty \in Frac /\ u \in Frac /\ u[1] >= 0
    BY <2>1, PositiveIs, NonNegIs DEF WalkSet
  <2>3. PICK C \in Int, Q \in Int, U \in Int, e \in Int, d \in Int :
          d > 0 /\ Val(w.cost, C, d) /\ Val(w.qty, Q, d) /\ Val(u, U, d) /\ Val(u, e, d)
    BY <2>2, FourParts, Zenon
  <2>4. U >= 0 /\ C <= P * Q
    BY <2>2, <2>3, ValSign, CheapIs
  <2>5. Val(v.cost, C * p + U * p, d * p) /\ Val(v.qty, Q * p + U, d * p)
    BY <2>0, <2>1, <2>3, Bought
  <2>6. C * p + U * p <= P * (Q * p + U)
    <3>1. P * Q \in Int /\ C * p <= (P * Q) * p
      BY <2>0, <2>3, <2>4, Mono
    <3>2. p * U <= P * U
      BY <2>0, <2>3, <2>4, Mono
    <3>3. P * (Q * p + U) = (P * Q) * p + P * U /\ U * p = p * U
      BY <2>0, <2>3
    <3>4. C * p \in Int /\ p * U \in Int /\ P * U \in Int /\ (P * Q) * p \in Int
      BY <2>0, <2>3
    <3> QED
      BY <3>1, <3>2, <3>3, <3>4
  <2>7. C * p + U * p \in Int /\ Q * p + U \in Int /\ d * p \in Int
    BY <2>0, <2>3
  <2> HIDE DEF v
  <2>8. Cheap(v, P)
    BY <2>5, <2>6, <2>7, CheapIs
  <2> QED
    BY <2>8 DEF v
<1> QED
  BY <1>1, <1>2

(* The larger order pays for more of the level at which the smaller one ends. *)
LEMMA Parting ==
  ASSUME NEW w \in WalkSet, NEW v \in WalkSet, NEW l \in [price : Int, qty : Int],
         w.cost = v.cost, w.qty = v.qty, w.qty = Zero \/ w.qty[1] > 0, Cheap(w, l.price), l.price > 0,
         NEW u \in Positive, NEW e \in Positive, AtMost(u, e),
         NEW x, x.cost = w.cost ++ u, x.qty = w.qty ++ (u // Whole(l.price)),
         NEW y, y.cost = v.cost ++ e, y.qty = v.qty ++ (e // Whole(l.price))
  PROVE  Dearer(x, y)
<1> DEFINE P == l.price
<1>1. w.cost \in Frac /\ w.qty \in Frac /\ u \in Frac /\ e \in Frac /\ P \in Int /\ P > 0
      /\ u[1] > 0 /\ e[1] > 0
  BY PositiveIs DEF WalkSet
<1>2. PICK C \in Int, Q \in Int, U \in Int, E \in Int, d \in Int :
        d > 0 /\ Val(w.cost, C, d) /\ Val(w.qty, Q, d) /\ Val(u, U, d) /\ Val(e, E, d)
  BY <1>1, FourParts
<1>3. U > 0 /\ E > 0 /\ Q >= 0 /\ C <= P * Q
  <2>1. w.qty[1] >= 0
    <3>1. w.qty[1] \in Int
      BY <1>1, PositiveIs
    <3> QED
      BY <3>1 DEF Zero, Whole
  <2> QED
    BY <1>1, <1>2, <2>1, ValSign, CheapIs
<1>4. U <= E
  BY <1>2, ValAtMost, Cancel
<1>5. /\ Val(x.cost, C * P + U * P, d * P) /\ Val(x.qty, Q * P + U, d * P)
      /\ Val(y.cost, C * P + E * P, d * P) /\ Val(y.qty, Q * P + E, d * P)
  BY <1>1, <1>2, Bought
<1> HIDE DEF P
<1>6. Q * P \in Int /\ Q * P >= 0
  <2>1. 0 * P <= Q * P /\ 0 * P = 0
    BY <1>1, <1>3, Mono
  <2> QED
    BY <1>1, <2>1
<1>7. (C * P + U * P) * (Q * P + E) <= (C * P + E * P) * (Q * P + U)
  <2> DEFINE A == C * P
             B == Q * P
             g == E - U
  <2>1. A \in Int /\ B \in Int /\ g \in Int /\ g >= 0
    BY <1>1, <1>2, <1>4
  <2>2. A <= B * P
    <3>1. C * P <= (P * Q) * P
      BY <1>1, <1>2, <1>3, Mono
    <3>2. (P * Q) * P = (Q * P) * P
      BY <1>1, <1>2
    <3> QED
      BY <3>1, <3>2
  <2> HIDE DEF A, B
  <2>3. A * g <= (B * P) * g
    <3>1. B * P \in Int
      BY <1>1, <2>1
    <3> QED
      BY <2>1, <2>2, <3>1, Mono
  <2>4. E = U + g
    BY <1>2
  <2> HIDE DEF g
  <2>5. (A + E * P) * (B + U) = A * B + A * U + E * P * B + E * P * U
    BY <1>1, <1>2, <2>1
  <2>6. (A + U * P) * (B + E) = A * B + A * E + U * P * B + U * P * E
    BY <1>1, <1>2, <2>1
  <2>7. A * E = A * U + A * g
    BY <2>1, <2>4, <1>2
  <2>8. E * P * B = U * P * B + (B * P) * g
    BY <2>1, <2>4, <1>1, <1>2
  <2>9. E * P * U = U * P * E
    BY <1>1, <1>2
  <2>10. A * B \in Int /\ A * U \in Int /\ A * g \in Int /\ U * P * B \in Int /\ (B * P) * g \in Int /\ U * P * E \in Int
    BY <1>1, <1>2, <2>1
  <2>11. (A + U * P) * (B + E) <= (A + E * P) * (B + U)
    BY <2>3, <2>5, <2>6, <2>7, <2>8, <2>9, <2>10
  <2> QED
    BY <2>11 DEF A, B
<1>8. Q * P + U > 0 /\ Q * P + E > 0
  BY <1>2, <1>3, <1>6
<1>9. /\ C * P + U * P \in Int /\ Q * P + U \in Int /\ C * P + E * P \in Int /\ Q * P + E \in Int /\ d * P \in Int
  BY <1>1, <1>2
<1> QED
  BY <1>5, <1>7, <1>8, <1>9 DEF Dearer

(* What the larger order buys after that costs no less. *)
LEMMA DearerStep ==
  ASSUME NEW w \in WalkSet, NEW v \in WalkSet, NEW l \in [price : Int, qty : Int],
         Dearer(w, v), Takes(v, l) => Cheap(w, l.price)
  PROVE  Dearer(w, TakeLevel(v, l))
<1>1. CASE ~Takes(v, l)
  BY <1>1, TakeLevelIs
<1>2. CASE Takes(v, l)
  <2> DEFINE y == TakeLevel(v, l)
             P == l.price
  <2>0. P \in Int /\ P > 0 /\ Cheap(w, P)
    BY <1>2 DEF Takes
  <2> HIDE DEF P
  <2>1. PICK u \in Positive : y.cost = v.cost ++ u /\ y.qty = v.qty ++ (u // Whole(P))
    BY <1>2, TakeLevelIs DEF P
  <2> HIDE DEF y
  <2>2. PICK a \in Int, b \in Int, A \in Int, B \in Int, f \in Int :
          /\ Val(w.cost, a, f) /\ Val(w.qty, b, f) /\ Val(v.cost, A, f) /\ Val(v.qty, B, f)
          /\ b > 0 /\ B > 0 /\ a * B <= A * b
    BY DEF Dearer
  <2>3. PICK t \in Int, h \in Int : h > 0 /\ Val(u, t, h) /\ t > 0
    BY <2>1, PositiveIs, FracParts
  <2>4. f > 0
    BY <2>2 DEF Val
  <2> DEFINE d == f * h
             c == a * h
             q == b * h
             C == A * h
             Q == B * h
             U == t * f
  <2>5. /\ Val(w.cost, c, d) /\ Val(w.qty, q, d) /\ Val(v.cost, C, d) /\ Val(v.qty, Q, d)
        /\ Val(u, U, d)
    <3>1. h * f = f * h
      BY <2>2, <2>3
    <3> QED
      BY <2>2, <2>3, <2>4, <3>1, ValScale
  <2>6. d \in Int /\ c \in Int /\ q \in Int /\ C \in Int /\ Q \in Int /\ U \in Int
    BY <2>2, <2>3
  <2>7. q > 0 /\ Q > 0 /\ U > 0
    <3>1. 0 * h < b * h /\ 0 * h < B * h /\ 0 * f < t * f /\ 0 * h = 0 /\ 0 * f = 0
      BY <2>2, <2>3, <2>4, Cancel
    <3> QED
      BY <3>1, <2>6
  <2>8. c * Q <= C * q
    <3>1. a * B \in Int /\ A * b \in Int /\ h * h \in Int /\ h * h >= 0
      <4>1. 0 * h <= h * h /\ 0 * h = 0
        BY <2>3, Mono
      <4> QED
        BY <2>2, <2>3, <4>1
    <3>2. (a * B) * (h * h) <= (A * b) * (h * h)
      BY <2>2, <3>1, Mono
    <3>3. (a * h) * (B * h) = (a * B) * (h * h) /\ (A * h) * (b * h) = (A * b) * (h * h)
      BY <2>2, <2>3
    <3> QED
      BY <3>2, <3>3
  <2> HIDE DEF d, c, q, C, Q, U
  <2>9. c <= P * q
    BY <2>0, <2>5, <2>6, CheapIs
  <2>10. Val(w.cost, c * P, d * P) /\ Val(w.qty, q * P, d * P)
    BY <2>0, <2>5, ValScale
  <2>11. Val(y.cost, C * P + U * P, d * P) /\ Val(y.qty, Q * P + U, d * P)
    BY <2>0, <2>1, <2>5, <2>6, Bought
  <2>12. q * P > 0 /\ Q * P > 0
    <3>1. 0 * P < q * P /\ 0 * P < Q * P /\ 0 * P = 0
      BY <2>0, <2>6, <2>7, Cancel
    <3> QED
      BY <2>0, <2>6, <3>1
  <2>13. (c * P) * (Q * P + U) <= (C * P + U * P) * (q * P)
    <3>1. (c * Q) * (P * P) <= (C * q) * (P * P)
      <4>1. c * Q \in Int /\ C * q \in Int /\ P * P \in Int /\ P * P >= 0
        <5>1. 0 * P <= P * P /\ 0 * P = 0
          BY <2>0, Mono
        <5> QED
          BY <2>0, <2>6, <5>1
      <4> QED
        BY <2>8, <4>1, Mono
    <3>2. c * (P * U) <= (P * q) * (P * U)
      <4>1. P * U \in Int /\ P * U >= 0 /\ P * q \in Int
        <5>1. 0 * U <= P * U /\ 0 * U = 0
          BY <2>0, <2>6, <2>7, Mono
        <5> QED
          BY <2>0, <2>6, <5>1
      <4> QED
        BY <2>6, <2>9, <4>1, Mono
    <3>3. (c * P) * (Q * P + U) = (c * Q) * (P * P) + c * (P * U)
      BY <2>0, <2>6
    <3>4. (C * P + U * P) * (q * P) = (C * q) * (P * P) + (P * q) * (P * U)
      BY <2>0, <2>6
    <3>5. (c * Q) * (P * P) \in Int /\ c * (P * U) \in Int /\ (C * q) * (P * P) \in Int /\ (P * q) * (P * U) \in Int
      BY <2>0, <2>6
    <3> QED
      BY <3>1, <3>2, <3>3, <3>4, <3>5
  <2>14. c * P \in Int /\ q * P \in Int /\ C * P + U * P \in Int /\ Q * P + U \in Int /\ d * P \in Int /\ Q * P + U > 0
    BY <2>0, <2>6, <2>7, <2>12
  <2>15. Dearer(w, y)
    BY <2>10, <2>11, <2>12, <2>13, <2>14 DEF Dearer
  <2> QED
    BY <2>15 DEF y
<1> QED
  BY <1>1, <1>2

LEMMA MinusMono ==
  ASSUME NEW p \in Frac, NEW q \in Frac, NEW r \in Frac, AtMost(p, q)
  PROVE  AtMost(p -- r, q -- r)
<1>1. PICK a \in Int, b \in Int, c \in Int, h \in Int, d \in Int :
        d > 0 /\ Val(p, a, d) /\ Val(q, b, d) /\ Val(r, c, d) /\ Val(r, h, d)
  BY FourParts
<1>2. Val(p -- r, a - c, d) /\ Val(q -- r, b - c, d)
  BY <1>1, ValPlus
<1>3. a <= b
  BY <1>1, ValAtMost, Cancel
<1>4. (a - c) * d <= (b - c) * d
  <2>1. a - c \in Int /\ b - c \in Int /\ a - c <= b - c
    BY <1>3
  <2> QED
    BY <1>1, <2>1, Mono
<1> QED
  BY <1>2, <1>4, ValAtMost

(* The walks of two budgets before the smaller one is spent. *)
Together(w, v) == w.cost = v.cost /\ w.qty = v.qty /\ AtMost(w.left, v.left)

Larger(w, v) ==
    \/ Together(w, v) /\ w.left[1] > 0
    \/ Dearer(w, v) /\ ~(w.left[1] > 0)

LEMMA LargerStep ==
  ASSUME NEW w, Sound(w), NEW v, Sound(v), NEW l \in [price : Int, qty : Int], Larger(w, v),
         l.price > 0 /\ l.qty > 0 => Cheap(w, l.price)
  PROVE  Larger(TakeLevel(w, l), TakeLevel(v, l))
<1>1. w \in WalkSet /\ v \in WalkSet /\ w.left \in Frac /\ v.left \in Frac
      /\ w.left[1] \in Int /\ v.left[1] \in Int
  BY PositiveIs DEF Sound, WalkSet
<1>2. CASE Dearer(w, v) /\ ~(w.left[1] > 0)
  <2>1. TakeLevel(w, l) = w
    BY <1>1, <1>2, TakeLevelIs DEF Takes
  <2>2. Takes(v, l) => Cheap(w, l.price)
    BY DEF Takes
  <2> QED
    BY <1>1, <1>2, <2>1, <2>2, DearerStep DEF Larger
<1>3. CASE Together(w, v) /\ w.left[1] > 0
  <2>1. w.cost = v.cost /\ w.qty = v.qty /\ AtMost(w.left, v.left)
    BY <1>3 DEF Together
  <2>2. v.left[1] > 0
    BY <1>1, <1>3, <2>1, Trans, Total, WholeFrac, NonNegIs
  <2>3. CASE ~(l.price > 0 /\ l.qty > 0)
    <3>1. TakeLevel(w, l) = w /\ TakeLevel(v, l) = v
      BY <1>1, <2>3, TakeLevelIs DEF Takes
    <3> QED
      BY <3>1
  <2>4. CASE l.price > 0 /\ l.qty > 0
    <3> DEFINE all == Whole(l.price * l.qty)
               x == TakeLevel(w, l)
               y == TakeLevel(v, l)
               u == Least(w.left, all)
               e == Least(v.left, all)
    <3>1. /\ all \in Positive /\ u \in Positive /\ u \in {w.left, all}
          /\ AtMost(u, w.left) /\ AtMost(u, all)
          /\ x = [left |-> w.left -- u, cost |-> w.cost ++ u, qty |-> w.qty ++ (u // Whole(l.price))]
      BY <1>1, <1>3, <2>4, TakeLevelIs DEF Takes
    <3>2. /\ e \in Positive /\ e \in {v.left, all}
          /\ y = [left |-> v.left -- e, cost |-> v.cost ++ e, qty |-> v.qty ++ (e // Whole(l.price))]
      BY <1>1, <2>2, <2>4, TakeLevelIs DEF Takes
    <3>3. all \in Frac /\ u \in Frac /\ e \in Frac
      BY <3>1, <3>2, PositiveIs
    <3>4. u = (IF AtMost(w.left, all) THEN w.left ELSE all) /\ e = (IF AtMost(v.left, all) THEN v.left ELSE all)
      BY DEF Least
    <3>5. AtMost(all, all) /\ AtMost(w.left, w.left)
      BY <1>1, <3>3, Total
    <3> HIDE DEF all, x, y, u, e
    <3>6. CASE AtMost(w.left, all)
      <4>1. u = w.left /\ AtMost(u, e)
        BY <2>1, <3>4, <3>5, <3>6
      <4>2. ~(x.left[1] > 0)
        <5>1. x.left = w.left -- w.left
          BY <3>1, <4>1
        <5>2. (w.left -- w.left)[1] \in Int /\ AtMost(w.left, w.left)
          BY <1>1, FracOps, PositiveIs, Total
        <5>3. w.left -- w.left \in Positive <=> Less(w.left, w.left)
          BY <1>1, PlusMinus
        <5>4. ~Less(w.left, w.left)
          BY <1>1, <3>5, Total
        <5> QED
          BY <1>1, <5>1, <5>3, <5>4, FracOps, PositiveIs
      <4>3. Dearer(x, y)
        <5>1. w.qty = Zero \/ w.qty[1] > 0
          BY DEF Sound
        <5>2. /\ x.cost = w.cost ++ u /\ x.qty = w.qty ++ (u // Whole(l.price))
              /\ y.cost = v.cost ++ e /\ y.qty = v.qty ++ (e // Whole(l.price))
          BY <3>1, <3>2
        <5> QED
          BY <1>1, <2>1, <2>4, <3>1, <3>2, <4>1, <5>1, <5>2, Parting
      <4> QED
        BY <4>2, <4>3 DEF Larger, x, y
    <3>7. CASE ~AtMost(w.left, all)
      <4>1. Less(all, w.left)
        BY <1>1, <3>3, <3>7, Total
      <4>2. Less(all, v.left)
        BY <1>1, <2>1, <3>3, <4>1, Trans
      <4>3. ~AtMost(v.left, all)
        BY <1>1, <3>3, <4>2, Total
      <4>4. u = all /\ e = all
        BY <3>4, <3>7, <4>3
      <4>5. x.cost = y.cost /\ x.qty = y.qty /\ x.left = w.left -- all /\ y.left = v.left -- all
        BY <2>1, <3>1, <3>2, <4>4
      <4>6. (w.left -- all)[1] > 0
        BY <1>1, <3>3, <4>1, PlusMinus, PositiveIs
      <4>7. AtMost(w.left -- all, v.left -- all)
        BY <1>1, <2>1, <3>3, MinusMono
      <4> QED
        BY <4>5, <4>6, <4>7 DEF Larger, Together, x, y
    <3> QED
      BY <3>6, <3>7
  <2> QED
    BY <2>3, <2>4
<1> QED
  BY <1>2, <1>3 DEF Larger

(* The valid levels of a book, and a book whose valid levels are in order. *)
Offers(levels) == {i \in DOMAIN levels : levels[i].price > 0 /\ levels[i].qty > 0}
InOrder(levels) == \A i, j \in Offers(levels) : i < j => levels[i].price <= levels[j].price

LEMMA CheapBefore ==
  ASSUME NEW levels \in Levels, InOrder(levels), NEW budget \in Frac,
         NEW k \in Offers(levels)
  PROVE  Cheap(Filled(levels, budget, k - 1), levels[k].price)
<1> DEFINE P == levels[k].price
           T == {m \in Nat : m < k => Cheap(Filled(levels, budget, m), P)}
<1>1. /\ Len(levels) \in Nat /\ DOMAIN levels = 1 .. Len(levels)
      /\ \A i \in 1 .. Len(levels) : levels[i] \in [price : Int, qty : Int]
  BY LevelOf
<1>2. k \in 1 .. Len(levels) /\ k \in Int /\ P \in Int /\ P > 0 /\ levels[k].qty > 0
  BY <1>1 DEF Offers
<1>3. 0 \in T
  <2> DEFINE w == Filled(levels, budget, 0)
  <2>1. w.cost = Zero /\ w.qty = Zero
    BY FillSteps
  <2>2. Val(Zero, 0, 1)
    BY ValWhole DEF Zero
  <2>3. P * 0 = 0
    BY <1>2
  <2> HIDE DEF w, P
  <2>4. Val(w.cost, 0, 1) /\ Val(w.qty, 0, 1)
    BY <2>1, <2>2
  <2>5. 0 \in Int /\ 1 \in Int
    OBVIOUS
  <2>6. Cheap(w, P) <=> 0 <= P * 0
    BY <1>2, <2>4, <2>5, CheapIs, Zenon
  <2>7. Cheap(w, P)
    BY <2>3, <2>6
  <2> QED
    BY <2>7 DEF w
<1>4. ASSUME NEW m \in Nat, m \in T PROVE m + 1 \in T
  <2> SUFFICES ASSUME m + 1 < k PROVE Cheap(Filled(levels, budget, m + 1), P)
    OBVIOUS
  <2>1. m + 1 \in 1 .. Len(levels) /\ m \in 0 .. Len(levels) /\ (m + 1) - 1 = m /\ m < k
    BY <1>1, <1>2
  <2>2. Cheap(Filled(levels, budget, m), P) /\ Filled(levels, budget, m) \in WalkSet
    BY <1>4, <2>1, FillSteps
  <2>3. Filled(levels, budget, m + 1) = TakeLevel(Filled(levels, budget, m), levels[m + 1])
    BY <2>1, FillSteps
  <2>4. Takes(Filled(levels, budget, m), levels[m + 1]) => levels[m + 1].price <= P
    BY <1>1, <2>1 DEF Takes, InOrder, Offers
  <2> HIDE DEF P
  <2>5. levels[m + 1] \in [price : Int, qty : Int]
    BY <1>1, <2>1
  <2> QED
    BY <1>2, <2>2, <2>3, <2>4, <2>5, CheapStep
<1>5. Nat \subseteq T
  <2> HIDE DEF T
  <2> QED
    BY <1>3, <1>4, Induction
<1>6. k - 1 \in Nat /\ k - 1 < k
  BY <1>2
<1> QED
  BY <1>5, <1>6

LEMMA LargerFill ==
  ASSUME NEW levels \in Levels, InOrder(levels), NEW b \in Positive, NEW c \in Positive, AtMost(b, c)
  PROVE  \A m \in 0 .. Len(levels) : Larger(Filled(levels, b, m), Filled(levels, c, m))
<1> DEFINE W(m) == Filled(levels, b, m)
           V(m) == Filled(levels, c, m)
           T == {m \in Nat : m <= Len(levels) => Larger(W(m), V(m))}
<1>1. /\ Len(levels) \in Nat /\ DOMAIN levels = 1 .. Len(levels)
      /\ \A i \in 1 .. Len(levels) : levels[i] \in [price : Int, qty : Int]
  BY LevelOf
<1>2. b \in Frac /\ c \in Frac /\ b[1] > 0
  BY PositiveIs
<1>3. 0 \in T
  <2>1. Larger(W(0), V(0))
    BY <1>2, FillSteps DEF Larger, Together
  <2> QED
    BY <2>1
<1>4. ASSUME NEW m \in Nat, m \in T PROVE m + 1 \in T
  <2> SUFFICES ASSUME m + 1 <= Len(levels) PROVE Larger(W(m + 1), V(m + 1))
    OBVIOUS
  <2> DEFINE k == m + 1
  <2>1. k \in 1 .. Len(levels) /\ m \in 0 .. Len(levels) /\ k - 1 = m
    BY <1>1
  <2>2. Sound(W(m)) /\ Sound(V(m)) /\ Larger(W(m), V(m))
    BY <1>1, <1>2, <1>4, <2>1, FillSound
  <2>3. W(k) = TakeLevel(W(m), levels[k]) /\ V(k) = TakeLevel(V(m), levels[k])
    BY <1>2, <2>1, FillSteps
  <2>4. levels[k].price > 0 /\ levels[k].qty > 0 => Cheap(W(m), levels[k].price)
    BY <1>1, <1>2, <2>1, CheapBefore DEF Offers
  <2>5. levels[k] \in [price : Int, qty : Int]
    BY <1>1, <2>1
  <2> HIDE DEF W, V, k
  <2>6. Larger(W(k), V(k))
    BY <2>2, <2>3, <2>4, <2>5, LargerStep
  <2> QED
    BY <2>6 DEF k
<1>5. Nat \subseteq T
  <2> HIDE DEF T
  <2> QED
    BY <1>3, <1>4, Induction
<1>6. \A m \in 0 .. Len(levels) : Larger(W(m), V(m))
  BY <1>1, <1>5
<1> QED
  BY <1>6

LEMMA DearerFill ==
  ASSUME NEW w, NEW v, Dearer(w, v)
  PROVE  /\ w.qty # Zero /\ v.qty # Zero /\ AtMost(w.cost // w.qty, v.cost // v.qty)
<1>1. PICK c \in Int, q \in Int, C \in Int, Q \in Int, d \in Int :
        /\ Val(w.cost, c, d) /\ Val(w.qty, q, d) /\ Val(v.cost, C, d) /\ Val(v.qty, Q, d)
        /\ q > 0 /\ Q > 0 /\ c * Q <= C * q
  BY DEF Dearer
<1>2. d > 0
  BY <1>1 DEF Val
<1>3. Val(w.cost // w.qty, c * d, d * q) /\ Val(v.cost // v.qty, C * d, d * Q)
  BY <1>1, ValDiv
<1>4. (c * d) * (d * Q) <= (C * d) * (d * q)
  <2>1. c * Q \in Int /\ C * q \in Int /\ d * d \in Int /\ d * d >= 0
    <3>1. 0 * d <= d * d /\ 0 * d = 0
      BY <1>1, <1>2, Mono
    <3> QED
      BY <1>1, <3>1
  <2>2. (c * Q) * (d * d) <= (C * q) * (d * d)
    BY <1>1, <2>1, Mono
  <2>3. (c * d) * (d * Q) = (c * Q) * (d * d) /\ (C * d) * (d * q) = (C * q) * (d * d)
    BY <1>1
  <2> QED
    BY <2>2, <2>3
<1>5. w.qty[1] > 0 /\ v.qty[1] > 0
  BY <1>1, ValSign
<1> QED
  BY <1>3, <1>4, <1>5, ValAtMost DEF Zero, Whole

(* However deep the book and whatever the two amounts: on offers of rising     *)
(* price the larger amount is not filled at a better average                   *)
(* (estimate_vwap_fill).                                                       *)
THEOREM LargerIsWorse ==
  ASSUME NEW i \in SizeInputs, InOrder(i.levels), NEW b \in Positive, NEW c \in Positive, AtMost(b, c)
  PROVE  AtMost(FillPrice(i, b), FillPrice(i, c))
<1>1. i.levels \in Levels /\ i.avg \in Int
  BY DEF SizeInputs
<1>2. b \in Frac /\ c \in Frac
  BY PositiveIs
<1>3. FillPrice(i, b) \in Frac
  BY <1>2, FillPriceType
<1>4. CASE i.levels = <<>> \/ i.levels[1].price <= 0
  <2>1. FillPrice(i, b) = FillPrice(i, c)
    BY <1>4 DEF FillPrice
  <2> QED
    BY <1>3, <2>1, Total
<1>5. CASE ~(i.levels = <<>> \/ i.levels[1].price <= 0)
  <2> DEFINE n == Len(i.levels)
             w == Filled(i.levels, b, n)
             v == Filled(i.levels, c, n)
  <2>1. FillPrice(i, b) = VwapFill(i.levels, b, i.avg) /\ FillPrice(i, c) = VwapFill(i.levels, c, i.avg)
    BY <1>5 DEF FillPrice
  <2>2. /\ VwapFill(i.levels, b, i.avg) = IF w.qty = Zero THEN Whole(i.avg) ELSE w.cost // w.qty
        /\ VwapFill(i.levels, c, i.avg) = IF v.qty = Zero THEN Whole(i.avg) ELSE v.cost // v.qty
    BY <1>1, FillIs
  <2>3. Larger(w, v)
    <3>1. n \in 0 .. n
      BY <1>1, LevelOf
    <3> QED
      BY <1>1, <3>1, LargerFill
  <2> HIDE DEF w, v
  <2>4. CASE Together(w, v)
    <3>1. FillPrice(i, b) = FillPrice(i, c)
      BY <2>1, <2>2, <2>4 DEF Together
    <3> QED
      BY <1>3, <3>1, Total
  <2>5. CASE Dearer(w, v)
    BY <2>1, <2>2, <2>5, DearerFill
  <2> QED
    BY <2>3, <2>4, <2>5 DEF Larger
<1> QED
  BY <1>4, <1>5

(* ... so for the amounts that are checked.                                    *)
THEOREM LargerOrderIsWorse == \A i \in SizeInputs : WorseFills(i)
<1> SUFFICES ASSUME NEW i \in SizeInputs, InOrder(i.levels),
                    NEW b \in {1, 5, 9, 10, 11, 20, 21, 22, 40}
             PROVE  AtMost(FillPrice(i, Whole(b)), FillPrice(i, Whole(b + 1)))
  BY DEF WorseFills, InOrder, Offers
<1>1. b \in Int /\ b > 0 /\ b + 1 \in Int /\ b + 1 > 0
  OBVIOUS
<1>2. Whole(b) \in Positive /\ Whole(b + 1) \in Positive
  BY <1>1, PositiveIs
<1>3. AtMost(Whole(b), Whole(b + 1))
  BY <1>1 DEF AtMost, Whole
<1> QED
  BY <1>2, <1>3, LargerIsWorse

-----------------------------------------------------------------------------
(* What the adapters make of the answers (Translations), for all answers.     *)

(* A balance that the answer lacks is no equity of zero, whatever else is in   *)
(* the answer (fetch_account of the three adapters).                           *)
THEOREM MissingIsNotZero == ASSUME NEW r PROVE Sources!NoPhantomZero(r)
<1>1. Sources!BinanceEquity(r) = 0 => r.total = 0
  BY DEF Sources!BinanceEquity, Sources!Raised
<1>2. Sources!MexcEquity(r) = 0 => r.usdt = 0
  BY DEF Sources!MexcEquity, Sources!Raised
<1>3. Sources!BybitEquity(r) = 0 => {r.usdt, r.total} \subseteq Sources!Missing \cup {0}
  BY DEF Sources!BybitEquity, Sources!Raised, Sources!Orr
<1>4. QED
  BY <1>1, <1>2, <1>3 DEF Sources!NoPhantomZero

(* A type gets a suffix exactly if the order opens.                            *)
LEMMA ExitTypes ==
  ASSUME NEW type, NEW closing, Sources!Suffixed(type, closing) \in {"stop_loss", "take_profit"}
  PROVE  closing
  BY DEF Sources!Suffixed

(* Binance's stream gives an order the type and purpose REST gives it, whatever *)
(* it was sent on as (parse_order_update, fetch_open_orders).                  *)
THEOREM StreamAsRest ==
  ASSUME NEW o \in [type : DOMAIN Sources!BinanceTypes, orig : DOMAIN Sources!BinanceTypes,
                    state : DOMAIN Sources!BinanceStates, reduce : BOOLEAN, closes : BOOLEAN]
  PROVE  Sources!StreamAgrees(o)
<1> DEFINE b == [o EXCEPT !.type = o.orig]
<1> DEFINE closing == o.reduce \/ o.closes
<1>1. b.type = o.orig /\ b.state = o.state
  OBVIOUS
<1>2. b.reduce = o.reduce /\ b.closes = o.closes
  BY Zenon
<1> HIDE DEF b
<1>3. Sources!BinanceOrder(b) = [type |-> Sources!Suffixed(Sources!BinanceTypes[b.type], b.reduce \/ b.closes),
                         state |-> Sources!BinanceStates[b.state], reduce |-> b.reduce]
  BY DEF Sources!BinanceOrder
<1>4. Sources!StreamOrder(o) = [type |-> Sources!Suffixed(Sources!BinanceTypes[o.orig], closing),
                        state |-> Sources!BinanceStates[o.state], reduce |-> o.reduce]
  BY DEF Sources!StreamOrder
<1>5. Sources!BinanceOrder(b) = Sources!StreamOrder(o)
  BY <1>1, <1>2, <1>3, <1>4, Zenon
<1>6. Sources!StreamOrder(o).type \in {"stop_loss", "take_profit"} => o.reduce \/ o.closes
  <2>1. Sources!StreamOrder(o).type = Sources!Suffixed(Sources!BinanceTypes[o.orig], closing)
    BY <1>4
  <2> HIDE DEF closing
  <2>2. Sources!StreamOrder(o).type \in {"stop_loss", "take_profit"} => closing
    BY <2>1, ExitTypes
  <2>3. QED
    BY <2>2 DEF closing
<1>7. QED
  BY <1>5, <1>6 DEF Sources!StreamAgrees, b

(* Bybit's two ways tell the same end of an order, and a stop or target of the *)
(* engine's own kinds closes (fetch_open_orders, BYBIT_STATUS_MAP).            *)
THEOREM BybitEndsAgree ==
  ASSUME NEW o, o.state \in DOMAIN Sources!Unified
  PROVE  Sources!EndsAgree(o)
<1>1. o.state \in {"New", "PartiallyFilled", "Filled", "Cancelled", "Rejected", "Untriggered"}
  BY DEF Sources!Unified
<1>2. LET ended == {"filled", "canceled", "rejected"}
      IN  Sources!BybitRestState(o.state) \in ended \/ Sources!BybitStreamState(o.state) \in ended =>
            Sources!BybitRestState(o.state) = Sources!BybitStreamState(o.state)
  BY <1>1 DEF Sources!Unified, Sources!BybitRestState, Sources!BybitStreamState
<1>3. Sources!BybitType(o) \in {"stop_loss", "take_profit"} => o.reduce
  BY ExitTypes DEF Sources!BybitType
<1>4. QED
  BY <1>2, <1>3 DEF Sources!EndsAgree

LEMMA WholeContracts == ASSUME NEW n \in Nat, NEW k \in Nat \ {0}, n % k = 0 PROVE (n \div k) * k = n
  OBVIOUS

(* Both lists of positions are in base units, for sizes that are whole         *)
(* contracts (fetch_positions of Binance and MEXC).                            *)
THEOREM PositionsInBase ==
  ASSUME NEW sizes \in [Sources!Dirs -> Nat], NEW size \in Nat \ {0}, \A d \in Sources!Dirs : sizes[d] % size = 0
  PROVE  Sources!BaseUnits(sizes, size)
<1> DEFINE amounts == {sizes["LONG"], -sizes["SHORT"]}
<1> DEFINE of(d) == {a \in amounts : (a > 0) = (d = "LONG") /\ a # 0}
<1>1. sizes["LONG"] \in Nat /\ sizes["SHORT"] \in Nat
  BY DEF Sources!Dirs
<1>2. ASSUME NEW d \in Sources!Dirs
      PROVE  (IF of(d) = {} THEN 0
              ELSE LET a == CHOOSE x \in of(d) : TRUE IN IF a > 0 THEN a ELSE -a) = sizes[d]
  <2>1. d = "LONG" \/ d = "SHORT"
    BY DEF Sources!Dirs
  <2>2. of("LONG") = IF sizes["LONG"] = 0 THEN {} ELSE {sizes["LONG"]}
    BY <1>1
  <2>3. of("SHORT") = IF sizes["SHORT"] = 0 THEN {} ELSE {-sizes["SHORT"]}
    BY <1>1
  <2> HIDE DEF of
  <2>4. QED
    BY <1>1, <2>1, <2>2, <2>3
<1>3. Sources!BinancePositions(amounts) = [d \in Sources!Dirs |-> sizes[d]]
  BY <1>2 DEF Sources!BinancePositions
<1>4. \A d \in Sources!Dirs : (sizes[d] \div size) * (IF TRUE THEN size ELSE 1) = sizes[d]
  BY WholeContracts
<1>5. Sources!Contracts(sizes, size, TRUE) = [d \in Sources!Dirs |-> sizes[d]]
  BY <1>4 DEF Sources!Contracts
<1>6. sizes = [d \in Sources!Dirs |-> sizes[d]]
  OBVIOUS
<1>7. QED
  BY <1>3, <1>5, <1>6 DEF Sources!BaseUnits

-----------------------------------------------------------------------------
(* What the screens show (Shown), for all windows, prices and stops.          *)

(* While the countdown of a calculation runs, a fill at its price is linked    *)
(* (compute_link_window_status, compute_exec_match).                           *)
THEOREM CountdownIsKept ==
  ASSUME NEW w, w.made \in Int, w.account \in Int, w.override \in Int, NEW time \in Int
  PROVE  Screen!CountdownKept(w, time)
<1> SUFFICES ASSUME Screen!Countdown(w, time) \in {"LINKABLE", "EXPIRING_SOON"}
             PROVE  Screen!LinkStatus(w, time, TRUE, FALSE) = "linked"
  BY DEF Screen!CountdownKept
<1>1. Screen!Effective(w) \in Int
  BY DEF Screen!Effective
<1> DEFINE e == Screen!Effective(w)
<1> DEFINE left == (w.made + 1000 * e - time) \div 1000
<1>2. w.made # Screen!Unset /\ ~(left <= 0)
  BY DEF Screen!Countdown
<1> HIDE DEF e
<1>3. ~(time - w.made > 1000 * e)
  BY <1>1, <1>2 DEF e
<1>4. ~Screen!Rejected(w, time)
  BY <1>3 DEF Screen!Rejected, e
<1>5. QED
  BY <1>4 DEF Screen!LinkStatus

(* Of the stops on one side of the mark price, the one shown is the next, and  *)
(* it is the one the exchange's list gives, but for long positions with more   *)
(* than one (enrich_positions_tpsl, fetch_open_orders_tpsl).                   *)
THEOREM NextStopShown ==
  ASSUME NEW held, held.mark \in Nat, held.average \in Nat, held.dir \in {"LONG", "SHORT"},
         NEW orders, \A o \in orders : o.stop \in Int
  PROVE  Screen!ShownIsNext(held, orders)
<1> SUFFICES ASSUME NEW type \in {"take_profit", "stop_loss"},
                    held.mark # 0,
                    \A s \in Screen!StopsOf(held, orders, type) :
                       IF (held.dir = "LONG") = (type = "take_profit") THEN s > held.mark ELSE s < held.mark
             PROVE  /\ Screen!Cached(held, orders, type)
                         = {s \in Screen!StopsOf(held, orders, type) :
                              \A t \in Screen!StopsOf(held, orders, type) :
                                IF (held.dir = "LONG") = (type = "take_profit") THEN s <= t ELSE t <= s}
                    /\ held.dir = "SHORT" \/ (\A s, t \in Screen!StopsOf(held, orders, type) : s = t) =>
                         Screen!Cached(held, orders, type) = Screen!Fetched(held, orders, type)
  BY DEF Screen!ShownIsNext
<1> DEFINE stops == Screen!StopsOf(held, orders, type)
<1> DEFINE above == (held.dir = "LONG") = (type = "take_profit")
<1>1. stops \subseteq Int
  BY DEF Screen!StopsOf
<1>2. Screen!Cached(held, orders, type) = {s \in stops : \A t \in stops : Screen!Far(s, held.mark) <= Screen!Far(t, held.mark)}
  BY DEF Screen!Cached
<1>3. Screen!Fetched(held, orders, type)
        = {s \in stops : \A t \in stops : IF type = "take_profit" THEN t <= s ELSE s <= t}
  BY DEF Screen!Fetched
<1> HIDE DEF stops
<1>4. ASSUME NEW s \in stops, NEW t \in stops
      PROVE  Screen!Far(s, held.mark) <= Screen!Far(t, held.mark) <=> IF above THEN s <= t ELSE t <= s
  <2>1. s \in Int /\ t \in Int /\ (IF above THEN s > held.mark /\ t > held.mark ELSE s < held.mark /\ t < held.mark)
    BY <1>1 DEF stops
  <2> HIDE DEF above
  <2>2. QED
    BY <2>1 DEF Screen!Far
<1>5. Screen!Cached(held, orders, type) = {s \in stops : \A t \in stops : IF above THEN s <= t ELSE t <= s}
  <2>1. \A s \in stops : (\A t \in stops : Screen!Far(s, held.mark) <= Screen!Far(t, held.mark))
                          <=> \A t \in stops : IF above THEN s <= t ELSE t <= s
    BY <1>4
  <2> HIDE DEF above
  <2>2. QED
    BY <1>2, <2>1
<1>6. ASSUME held.dir = "SHORT" \/ (\A s, t \in stops : s = t)
      PROVE  Screen!Cached(held, orders, type) = Screen!Fetched(held, orders, type)
  <2>1. CASE held.dir = "SHORT"
    <3>1. above <=> type # "take_profit"
      BY <2>1
    <3> HIDE DEF above
    <3>2. QED
      BY <1>3, <1>5, <3>1
  <2>2. CASE \A s, t \in stops : s = t
    <3>1. \A s, t \in stops : s <= t /\ t <= s
      BY <1>1, <2>2
    <3>2. Screen!Cached(held, orders, type) = stops
      BY <1>5, <3>1
    <3>3. Screen!Fetched(held, orders, type) = stops
      BY <1>3, <3>1
    <3>4. QED
      BY <3>2, <3>3
  <2>3. QED
    BY <1>6, <2>1, <2>2
<1>7. QED
  BY <1>5, <1>6 DEF stops

-----------------------------------------------------------------------------
(* The extremes of a trade, for trades of any length and any answers.           *)

(* A candle opens at most its own length ago.                                  *)
LEMMA CandleHolds ==
  ASSUME NEW from \in Int, NEW to \in Int, NEW tf \in {3, 12}, NEW t \in Int
  PROVE  LET open == t - (t % tf)
         IN  /\ t \in Life!Candles(from, to, tf) <=> from < to /\ from <= open /\ open <= to
             /\ open <= t /\ t < open + tf /\ open \in Int
<1> DEFINE open == t - (t % tf)
<1>1. open <= t /\ t < open + tf /\ open \in Int
  OBVIOUS
<1> HIDE DEF open
<1>2. from <= open /\ open <= to => t \in from .. to + tf
  BY <1>1
<1>3. t \in Life!Candles(from, to, tf) <=> from < to /\ t \in from .. to + tf /\ from <= open /\ open <= to
  BY DEF Life!Candles, open
<1> QED
  BY <1>1, <1>2, <1>3 DEF open

(* Trades in the life of a position, and the instants the sections give.       *)
Trade(i) == i.start \in Int /\ i.end \in Int /\ i.span \in Int

LEMMA TiersOf ==
  ASSUME NEW i, Trade(i)
  PROVE  /\ Life!Tier(i) = 1 <=> i.end - i.start < 9
         /\ Life!Tier(i) = 2 <=> i.end - i.start >= 9 /\ i.end - i.start <= 36
         /\ Life!Tier(i) = 3 <=> i.end - i.start > 36
         /\ Life!Tier(i) \in {1, 2, 3}
         /\ Life!Tier(i) = 3 => Life!Latest(i.end - 12, i.start + 12) = i.end - 12
  BY DEF Trade, Life!Tier, Life!Minute, Life!Hour, Life!HalfDay, Life!Latest

(* What the sections that are not empty give, and the sections of a tier.       *)
Seen(i, exchange) ==
    UNION {Life!Sections(i, exchange)[n] : n \in DOMAIN Life!Sections(i, exchange) \ i.empty}

First(i, exchange) == Life!Trades(i, exchange, i.start, i.start + 3)
Final(i, exchange) == Life!Trades(i, exchange, i.end - 3, i.end)

LEMMA ShortSeen ==
  ASSUME NEW i, Trade(i), NEW exchange, Life!Tier(i) = 1
  PROVE  /\ DOMAIN Life!Sections(i, exchange) = {"all"}
         /\ \A t : t \in Seen(i, exchange) <=>
               "all" \notin i.empty /\ t \in Life!Trades(i, exchange, i.start, i.end)
<1> DEFINE sections == Life!Sections(i, exchange)
           all == Life!Trades(i, exchange, i.start, i.end)
<1>1. sections = [all |-> all]
  BY DEF Life!Sections
<1> HIDE DEF sections, all
<1>2. DOMAIN sections = {"all"} /\ sections["all"] = all
  BY <1>1
<1> QED
  BY <1>2 DEF sections, all, Seen

LEMMA MediumSeen ==
  ASSUME NEW i, Trade(i), NEW exchange, Life!Tier(i) = 2
  PROVE  /\ DOMAIN Life!Sections(i, exchange) = {"entry", "body", "exit"}
         /\ \A t : t \in Seen(i, exchange) <=>
               \/ "entry" \notin i.empty /\ t \in First(i, exchange)
               \/ "body" \notin i.empty /\ t \in Life!Candles(i.start + 3, i.end - 3, 3)
               \/ "exit" \notin i.empty /\ t \in Final(i, exchange)
<1> DEFINE sections == Life!Sections(i, exchange)
           entry == First(i, exchange)
           body == Life!Candles(i.start + 3, i.end - 3, 3)
           exit == Final(i, exchange)
<1>1. sections = [entry |-> entry, body |-> body, exit |-> exit]
  BY DEF Life!Sections, Life!Minute, Life!Hour, First, Final
<1> HIDE DEF sections, entry, body, exit
<1>2. /\ DOMAIN sections = {"entry", "body", "exit"}
      /\ sections["entry"] = entry /\ sections["body"] = body /\ sections["exit"] = exit
  BY <1>1
<1>3. ASSUME NEW t, t \in Seen(i, exchange)
      PROVE  \/ "entry" \notin i.empty /\ t \in entry
             \/ "body" \notin i.empty /\ t \in body
             \/ "exit" \notin i.empty /\ t \in exit
  <2>1. PICK n \in DOMAIN sections \ i.empty : t \in sections[n]
    BY <1>3 DEF Seen, sections
  <2> QED
    BY <1>2, <2>1
<1>4. ASSUME NEW n \in DOMAIN sections \ i.empty, NEW t \in sections[n] PROVE t \in Seen(i, exchange)
  BY DEF Seen, sections
<1> QED
  BY <1>2, <1>3, <1>4 DEF sections, entry, body, exit

LEMMA LongSeen ==
  ASSUME NEW i, Trade(i), NEW exchange, Life!Tier(i) = 3
  PROVE  /\ DOMAIN Life!Sections(i, exchange) = {"entry", "after", "body", "before", "exit"}
         /\ \A t : t \in Seen(i, exchange) <=>
               \/ "entry" \notin i.empty /\ t \in First(i, exchange)
               \/ "after" \notin i.empty /\ t \in Life!Candles(i.start + 3, i.start + 12, 3)
               \/ "body" \notin i.empty /\ t \in Life!Candles(i.start + 12, i.end - 12, 12)
               \/ "before" \notin i.empty /\ t \in Life!Candles(i.end - 12, i.end - 3, 3)
               \/ "exit" \notin i.empty /\ t \in Final(i, exchange)
<1> DEFINE sections == Life!Sections(i, exchange)
           entry == First(i, exchange)
           after == Life!Candles(i.start + 3, i.start + 12, 3)
           body == Life!Candles(i.start + 12, i.end - 12, 12)
           before == Life!Candles(i.end - 12, i.end - 3, 3)
           exit == Final(i, exchange)
<1>0. Life!Latest(i.end - Life!Hour, i.start + Life!Hour) = i.end - 12
  BY TiersOf DEF Life!Minute, Life!Hour
<1>1. sections = [entry |-> entry, after |-> after, body |-> body, before |-> before, exit |-> exit]
  BY <1>0 DEF Life!Sections, Life!Minute, Life!Hour, First, Final
<1> HIDE DEF sections, entry, after, body, before, exit
<1>2. /\ DOMAIN sections = {"entry", "after", "body", "before", "exit"}
      /\ sections["entry"] = entry /\ sections["after"] = after /\ sections["body"] = body
      /\ sections["before"] = before /\ sections["exit"] = exit
  BY <1>1
<1>3. ASSUME NEW t, t \in Seen(i, exchange)
      PROVE  \/ "entry" \notin i.empty /\ t \in entry
             \/ "after" \notin i.empty /\ t \in after
             \/ "body" \notin i.empty /\ t \in body
             \/ "before" \notin i.empty /\ t \in before
             \/ "exit" \notin i.empty /\ t \in exit
  <2>1. PICK n \in DOMAIN sections \ i.empty : t \in sections[n]
    BY <1>3 DEF Seen, sections
  <2> QED
    BY <1>2, <2>1
<1>4. ASSUME NEW n \in DOMAIN sections \ i.empty, NEW t \in sections[n] PROVE t \in Seen(i, exchange)
  BY DEF Seen, sections
<1> QED
  BY <1>2, <1>3, <1>4 DEF sections, entry, after, body, before, exit

LEMMA CoveredIs ==
  ASSUME NEW i, NEW exchange
  PROVE  Life!Covered(i, exchange) =
           IF i.raise \cap DOMAIN Life!Sections(i, exchange) # {}
           THEN IF Life!Tier(i) = 1 THEN {} ELSE Life!Candles(i.start, i.end, 3)
           ELSE IF Seen(i, exchange) = {} THEN Life!Candles(i.start, i.end, 3) ELSE Seen(i, exchange)
  BY DEF Life!Covered, Seen, Life!Minute

(* Trades of a section are within it.                                          *)
LEMMA TradesWithin ==
  ASSUME NEW i, NEW exchange, NEW from \in Int, NEW to \in Int
  PROVE  /\ Life!Trades(i, exchange, from, to) \subseteq from .. to
         /\ Life!Trades(i, "binance", from, to) = from .. to
         /\ i.span \in Nat \ {0} /\ from <= to => from \in Life!Trades(i, exchange, from, to)
  BY DEF Life!Trades

(* Sections are within the trade's life.                                       *)
LEMMA SeenWithin ==
  ASSUME NEW i, Trade(i), NEW exchange
  PROVE  Seen(i, exchange) \subseteq i.start .. i.end
<1> SUFFICES ASSUME NEW t \in Seen(i, exchange) PROVE t \in i.start .. i.end
  OBVIOUS
<1> DEFINE s == i.start
           e == i.end
<1>0. s \in Int /\ e \in Int
  BY DEF Trade
<1> HIDE DEF s, e
<1>a. First(i, exchange) \subseteq s .. s + 3 /\ Final(i, exchange) \subseteq e - 3 .. e
      /\ Life!Trades(i, exchange, s, e) \subseteq s .. e
  BY <1>0, TradesWithin DEF First, Final, s, e
<1>b. ASSUME NEW from \in Int, NEW to \in Int, NEW tf \in {3, 12}, t \in Life!Candles(from, to, tf)
      PROVE  t \in from .. to + tf - 1
  <2>1. t \in Int
    BY <1>b DEF Life!Candles
  <2> QED
    BY <1>b, <2>1, CandleHolds
<1>1. CASE Life!Tier(i) = 1
  BY <1>1, <1>a, ShortSeen DEF s, e
<1>2. CASE Life!Tier(i) = 2
  <2>1. e - s >= 9
    BY <1>2, TiersOf DEF s, e
  <2>2. t \in First(i, exchange) \/ t \in Life!Candles(s + 3, e - 3, 3) \/ t \in Final(i, exchange)
    BY <1>2, MediumSeen DEF s, e
  <2>3. t \in s .. s + 3 \/ t \in s + 3 .. (e - 3) + 3 - 1 \/ t \in e - 3 .. e
    BY <1>0, <1>a, <1>b, <2>2
  <2>4. t \in s .. e
    BY <1>0, <2>1, <2>3
  <2> QED
    BY <2>4 DEF s, e
<1>3. CASE Life!Tier(i) = 3
  <2>1. e - s > 36
    BY <1>3, TiersOf DEF s, e
  <2>2. \/ t \in First(i, exchange) \/ t \in Life!Candles(s + 3, s + 12, 3)
        \/ t \in Life!Candles(s + 12, e - 12, 12) \/ t \in Life!Candles(e - 12, e - 3, 3)
        \/ t \in Final(i, exchange)
    BY <1>3, LongSeen DEF s, e
  <2>3. \/ t \in s .. s + 3 \/ t \in s + 3 .. (s + 12) + 3 - 1 \/ t \in s + 12 .. (e - 12) + 12 - 1
        \/ t \in e - 12 .. (e - 3) + 3 - 1 \/ t \in e - 3 .. e
    BY <1>0, <1>a, <1>b, <2>2
  <2>4. t \in s .. e
    BY <1>0, <2>1, <2>3
  <2> QED
    BY <2>4 DEF s, e
<1> QED
  BY <1>1, <1>2, <1>3, TiersOf

(* No price of before a trade counts towards its extremes, and of after it at  *)
(* most those of the candle it closed in (fetch_price_extremes).               *)
THEOREM PricesOfItsLife ==
  ASSUME NEW i, Trade(i), i.start <= i.end, i.span > 0
  PROVE  Life!InsideLife(i)
<1> DEFINE s == i.start
           e == i.end
<1>0. s \in Int /\ e \in Int /\ s <= e /\ i.span \in Nat \ {0}
  BY DEF Trade
<1>1. Life!Candles(s, e, 3) \subseteq s .. e + 3 - 1
  <2> SUFFICES ASSUME NEW t \in Life!Candles(s, e, 3) PROVE t \in s .. e + 3 - 1
    OBVIOUS
  <2>1. t \in Int
    BY DEF Life!Candles
  <2> HIDE DEF s, e
  <2> QED
    BY <1>0, <2>1, CandleHolds
<1>2. ASSUME NEW exchange
      PROVE  Seen(i, exchange) \subseteq s .. e /\ (i.empty = {} => Seen(i, exchange) # {})
  <2>1. Seen(i, exchange) \subseteq s .. e
    BY SeenWithin
  <2>2. i.empty = {} /\ Life!Tier(i) = 1 => s \in Seen(i, exchange)
    BY <1>0, ShortSeen, TradesWithin
  <2>3. s \in First(i, exchange)
    <3>1. s + 3 \in Int /\ s <= s + 3
      BY <1>0
    <3> QED
      BY <1>0, <3>1, TradesWithin DEF First
  <2>4. i.empty = {} /\ Life!Tier(i) # 1 => s \in Seen(i, exchange)
    BY <2>3, TiersOf, MediumSeen, LongSeen
  <2> QED
    BY <2>1, <2>2, <2>4
<1> HIDE DEF s, e
<1>3. ASSUME NEW exchange
      PROVE  /\ Life!Covered(i, exchange) \subseteq s .. e + 3 - 1
             /\ i.raise = {} /\ i.empty = {} => Life!Covered(i, exchange) \subseteq s .. e
  <2>1. Life!Covered(i, exchange) \in {{}, Life!Candles(s, e, 3), Seen(i, exchange)}
    BY CoveredIs DEF s, e
  <2>2. i.raise = {} /\ i.empty = {} => Life!Covered(i, exchange) = Seen(i, exchange)
    BY <1>2, CoveredIs DEF s, e
  <2>3. s .. e \subseteq s .. e + 3 - 1
    BY <1>0
  <2> QED
    BY <1>1, <1>2, <2>1, <2>2, <2>3
<1> QED
  BY <1>3 DEF Life!InsideLife, Life!BinanceCovered, Life!BybitCovered, Life!Minute, s, e

(* Where sections meet, less than the open candle is left out.                  *)
THEOREM HolesStaySmall ==
  ASSUME NEW i, Trade(i), i.end < i.start + 501 * 12
  PROVE  Life!HolesAreSmall(i)
<1> DEFINE s == i.start
           e == i.end
<1> SUFFICES ASSUME i.raise = {}, i.empty = {}
             PROVE  /\ \A t \in s + 12 .. e : t \in Life!MexcCovered(i)
                    /\ \A t \in s .. e : t \notin Life!BinanceCovered(i) =>
                          \/ s + 3 < t /\ t < s + 6
                          \/ Life!Tier(i) = 3 /\ s + 12 < t /\ t < s + 24
                          \/ Life!Tier(i) = 3 /\ e - 12 < t /\ t < e - 12 + 3
  <2>1. Life!Tier(i) = 3 => Life!Latest(i.end - Life!Hour, i.start + Life!Hour) = e - 12
    BY TiersOf DEF Life!Hour, Life!Minute
  <2>2. Life!Minute = 3 /\ Life!Hour = 12
    BY DEF Life!Hour, Life!Minute
  <2>3. 2 * 3 = 6 /\ 2 * 12 = 24
    OBVIOUS
  <2> HIDE DEF s, e
  <2> QED
    BY <2>1, <2>2, <2>3 DEF Life!HolesAreSmall, s, e
<1>0. s \in Int /\ e \in Int
  BY DEF Trade
<1>1. ASSUME NEW t \in s + 12 .. e PROVE t \in Life!MexcCovered(i)
  <2> HIDE DEF s, e
  <2>1. t \in Int /\ s + 12 <= t /\ t <= e
    BY <1>0
  <2>2. t \in Life!Candles(s, e, 12)
    BY <1>0, <2>1, CandleHolds
  <2>3. t < s + (500 + 1) * 12
    BY <1>0, <2>1 DEF s, e
  <2> QED
    BY <2>2, <2>3 DEF Life!MexcCovered, Life!MexcLimit, Life!Hour, Life!Minute, s, e
<1>2. \A t : t \in Seen(i, "binance") => t \in Life!BinanceCovered(i)
  BY CoveredIs DEF Life!BinanceCovered
<1>3. ASSUME NEW t \in s .. e, t \notin Seen(i, "binance")
      PROVE  \/ s + 3 < t /\ t < s + 6
             \/ Life!Tier(i) = 3 /\ s + 12 < t /\ t < s + 24
             \/ Life!Tier(i) = 3 /\ e - 12 < t /\ t < e - 12 + 3
  <2>0. t \in Int /\ s <= t /\ t <= e
    BY <1>0
  <2>1. First(i, "binance") = s .. s + 3 /\ Final(i, "binance") = e - 3 .. e
        /\ Life!Trades(i, "binance", s, e) = s .. e
    BY <1>0, TradesWithin DEF First, Final
  <2>2. CASE Life!Tier(i) = 1
    BY <1>3, <2>1, <2>2, ShortSeen
  <2>3. CASE Life!Tier(i) = 2
    <3>1. t \notin s .. s + 3 /\ t \notin e - 3 .. e /\ t \notin Life!Candles(s + 3, e - 3, 3)
      BY <1>3, <2>1, <2>3, MediumSeen
    <3> HIDE DEF s, e
    <3>2. s + 3 < t /\ t < e - 3
      BY <1>0, <2>0, <3>1
    <3> QED
      BY <1>0, <2>0, <3>1, <3>2, CandleHolds
  <2>4. CASE Life!Tier(i) = 3
    <3>0. e - s > 36
      BY <2>4, TiersOf
    <3>1. /\ t \notin s .. s + 3 /\ t \notin e - 3 .. e /\ t \notin Life!Candles(s + 3, s + 12, 3)
          /\ t \notin Life!Candles(s + 12, e - 12, 12) /\ t \notin Life!Candles(e - 12, e - 3, 3)
      BY <1>3, <2>1, <2>4, LongSeen
    <3> HIDE DEF s, e
    <3>2. s + 3 < t /\ t < e - 3
      BY <1>0, <2>0, <3>1
    <3>3. CASE t <= s + 12
      BY <1>0, <2>0, <3>1, <3>2, <3>3, CandleHolds
    <3>4. CASE s + 12 < t /\ t <= e - 12
      BY <1>0, <2>0, <2>4, <3>0, <3>1, <3>2, <3>4, CandleHolds
    <3>5. CASE e - 12 < t
      BY <1>0, <2>0, <2>4, <3>0, <3>1, <3>2, <3>5, CandleHolds
    <3> QED
      BY <1>0, <2>0, <3>3, <3>4, <3>5
  <2> QED
    BY <2>2, <2>3, <2>4, TiersOf
<1> QED
  BY <1>1, <1>2, <1>3

(* A section that raises never leaves out the trade's middle unnoticed.        *)
THEOREM MiddleStaysCovered ==
  ASSUME NEW i, Trade(i)
  PROVE  Life!MiddleCovered(i)
<1> DEFINE s == i.start
           e == i.end
           covered == Life!BinanceCovered(i)
<1> SUFFICES ASSUME covered # {}, i.empty = {}, NEW t \in s + 24 .. e - 12
             PROVE  t \in covered
  <2>1. 2 * Life!Hour = 24 /\ Life!Hour = 12
    BY DEF Life!Hour, Life!Minute
  <2> HIDE DEF s, e, covered
  <2> QED
    BY <2>1 DEF Life!MiddleCovered, s, e, covered
<1>0. s \in Int /\ e \in Int
  BY DEF Trade
<1>1. t \in Int /\ s + 24 <= t /\ t <= e - 12
  BY <1>0
<1>2. t \in Life!Candles(s, e, 3)
  <2> HIDE DEF s, e
  <2> QED
    BY <1>0, <1>1, CandleHolds
<1>3. t \in Seen(i, "binance")
  <2>1. Life!Tier(i) = 1 => t \in Seen(i, "binance")
    <3>1. Life!Trades(i, "binance", s, e) = s .. e
      BY <1>0, TradesWithin
    <3>2. t \in s .. e
      BY <1>0, <1>1
    <3> QED
      BY <3>1, <3>2, ShortSeen
  <2>2. Life!Tier(i) = 2 => t \in Seen(i, "binance")
    <3>1. t \in Life!Candles(s + 3, e - 3, 3)
      <4> HIDE DEF s, e
      <4> QED
        BY <1>0, <1>1, CandleHolds
    <3> QED
      BY <3>1, MediumSeen
  <2>3. Life!Tier(i) = 3 => t \in Seen(i, "binance")
    <3>1. t \in Life!Candles(s + 12, e - 12, 12)
      <4>1. Life!Tier(i) = 3 => e - s > 36
        BY TiersOf
      <4> HIDE DEF s, e
      <4>2. s + 12 <= t - (t % 12) /\ t - (t % 12) <= e - 12
        BY <1>0, <1>1, CandleHolds
      <4> QED
        BY <1>0, <1>1, <4>2, CandleHolds
    <3> QED
      BY <3>1, LongSeen
  <2> QED
    BY <2>1, <2>2, <2>3, TiersOf
<1> QED
  BY <1>2, <1>3, CoveredIs DEF Life!BinanceCovered

(* A trade's gross result lies between its MAE and its MFE (calc_mfe_mae).     *)
THEOREM ResultsBetween ==
  ASSUME NEW high \in Int, NEW low \in Int, NEW entry \in Int, NEW exit \in Int, NEW dir, NEW qty \in Nat
  PROVE  Life!ResultBetween(high, low, entry, exit, dir, qty)
<1> SUFFICES ASSUME low <= entry, entry <= high, low <= exit, exit <= high
             PROVE  LET m == Life!MfeMae(high, low, entry, dir, qty)
                        result == (IF dir = "LONG" THEN exit - entry ELSE entry - exit) * qty
                    IN  m[2] <= result /\ result <= m[1] /\ m[2] <= 0 /\ 0 <= m[1]
  BY DEF Life!ResultBetween
<1>1. ASSUME NEW a \in Int, NEW b \in Int, NEW c \in Int, a <= b, b <= c, a <= 0, 0 <= c
      PROVE  a * qty <= b * qty /\ b * qty <= c * qty /\ a * qty <= 0 /\ 0 <= c * qty
  <2>1. 0 * qty = 0
    OBVIOUS
  <2>2. a * qty <= b * qty /\ b * qty <= c * qty /\ a * qty <= 0 * qty /\ 0 * qty <= c * qty
    BY <1>1, Mono
  <2> QED
    BY <2>1, <2>2
<1>2. CASE dir = "LONG"
  <2>1. low - entry \in Int /\ exit - entry \in Int /\ high - entry \in Int
        /\ low - entry <= exit - entry /\ exit - entry <= high - entry /\ low - entry <= 0 /\ 0 <= high - entry
    OBVIOUS
  <2>2. Life!MfeMae(high, low, entry, dir, qty) = <<(high - entry) * qty, (low - entry) * qty>>
    BY <1>2 DEF Life!MfeMae
  <2> QED
    BY <1>1, <1>2, <2>1, <2>2
<1>3. CASE dir # "LONG"
  <2>1. entry - high \in Int /\ entry - exit \in Int /\ entry - low \in Int
        /\ entry - high <= entry - exit /\ entry - exit <= entry - low /\ entry - high <= 0 /\ 0 <= entry - low
    OBVIOUS
  <2>2. Life!MfeMae(high, low, entry, dir, qty) = <<(entry - low) * qty, (entry - high) * qty>>
    BY <1>3 DEF Life!MfeMae
  <2> QED
    BY <1>1, <1>3, <2>1, <2>2
<1> QED
  BY <1>2, <1>3

-----------------------------------------------------------------------------
(* A function defined by recursion along a measure exists.                      *)
Solves(f, S, stop, base, next, step, k, measure) ==
    \A x \in S : measure[x] < k => f[x] = IF x \in stop THEN base[x] ELSE step[<<x, f[next[x]]>>]

LEMMA Agree ==
  ASSUME NEW S, NEW stop, NEW base, NEW next \in [S -> S], NEW step, NEW measure \in [S -> Nat],
         \A x \in S \ stop : measure[next[x]] < measure[x],
         NEW f, NEW g, NEW k \in Nat,
         Solves(f, S, stop, base, next, step, k, measure), Solves(g, S, stop, base, next, step, k, measure)
  PROVE  \A x \in S : measure[x] < k => f[x] = g[x]
<1> DEFINE T == {n \in Nat : \A x \in S : measure[x] < n /\ n <= k => f[x] = g[x]}
<1>1. 0 \in T
  OBVIOUS
<1>2. ASSUME NEW n \in Nat, n \in T PROVE n + 1 \in T
  <2> SUFFICES ASSUME NEW x \in S, measure[x] < n + 1, n + 1 <= k PROVE f[x] = g[x]
    OBVIOUS
  <2>1. measure[x] < k /\ measure[x] \in Nat
    OBVIOUS
  <2>2. /\ f[x] = IF x \in stop THEN base[x] ELSE step[<<x, f[next[x]]>>]
        /\ g[x] = IF x \in stop THEN base[x] ELSE step[<<x, g[next[x]]>>]
    BY <2>1 DEF Solves
  <2>3. x \notin stop => f[next[x]] = g[next[x]]
    <3>1. x \notin stop => next[x] \in S /\ measure[next[x]] < n
      <4>1. x \notin stop => next[x] \in S /\ measure[next[x]] < measure[x] /\ measure[next[x]] \in Nat
        OBVIOUS
      <4> QED
        BY <4>1, <2>1
    <3> QED
      BY <1>2, <3>1
  <2> QED
    BY <2>2, <2>3
<1>3. Nat \subseteq T
  <2> HIDE DEF T
  <2> QED
    BY <1>1, <1>2, Induction
<1> QED
  BY <1>3

Descends(S, V, stop, base, next, step, measure) ==
    /\ base \in [S -> V] /\ next \in [S -> S] /\ step \in [S \X V -> V]
    /\ measure \in [S -> Nat]
    /\ \A x \in S \ stop : measure[next[x]] < measure[x]

LEMMA Recursion ==
  ASSUME NEW S, NEW V, NEW stop, NEW base, NEW next, NEW step, NEW measure,
         Descends(S, V, stop, base, next, step, measure)
  PROVE  \E f \in [S -> V] :
           \A x \in S : f[x] = IF x \in stop THEN base[x] ELSE step[<<x, f[next[x]]>>]
<1> USE DEF Descends
<1> DEFINE Is(f, k) == Solves(f, S, stop, base, next, step, k, measure)
           T == {k \in Nat : \E f \in [S -> V] : Is(f, k)}
<1>1. 0 \in T
  <2>1. Is(base, 0)
    BY DEF Solves
  <2> QED
    BY <2>1
<1>2. ASSUME NEW k \in Nat, k \in T PROVE k + 1 \in T
  <2>1. PICK f \in [S -> V] : Is(f, k)
    BY <1>2
  <2> DEFINE g == [x \in S |-> IF x \in stop THEN base[x] ELSE step[<<x, f[next[x]]>>]]
  <2>2. g \in [S -> V]
    <3>1. \A x \in S : <<x, f[next[x]]>> \in S \X V
      OBVIOUS
    <3> QED
      BY <3>1
  <2>3. ASSUME NEW x \in S, measure[x] < k + 1, x \notin stop PROVE g[next[x]] = f[next[x]]
    <3>1. next[x] \in S /\ measure[next[x]] < measure[x] /\ measure[next[x]] \in Nat /\ measure[x] \in Nat
      BY <2>3
    <3>2. measure[next[x]] < k
      BY <2>3, <3>1
    <3> QED
      BY <2>1, <3>1, <3>2 DEF Solves
  <2>4. Is(g, k + 1)
    BY <2>3 DEF Solves
  <2> HIDE DEF g, Is
  <2> QED
    BY <2>2, <2>4
<1>3. Nat \subseteq T
  <2> HIDE DEF T
  <2> QED
    BY <1>1, <1>2, Induction
<1> DEFINE At(k) == CHOOSE f \in [S -> V] : Is(f, k)
           F == [x \in S |-> At(measure[x] + 1)[x]]
<1>4. \A k \in Nat : At(k) \in [S -> V] /\ Is(At(k), k)
  <2> TAKE k \in Nat
  <2>1. \E f \in [S -> V] : Is(f, k)
    BY <1>3
  <2> HIDE DEF Is
  <2> QED
    BY <2>1
<1> HIDE DEF At
<1>5. F \in [S -> V]
  <2> SUFFICES ASSUME NEW x \in S PROVE At(measure[x] + 1)[x] \in V
    OBVIOUS
  <2>1. measure[x] + 1 \in Nat
    OBVIOUS
  <2> HIDE DEF Is
  <2> QED
    BY <1>4, <2>1
<1>6. ASSUME NEW x \in S PROVE F[x] = IF x \in stop THEN base[x] ELSE step[<<x, F[next[x]]>>]
  <2> DEFINE k == measure[x] + 1
  <2>0. k \in Nat /\ measure[x] < k /\ measure[x] \in Nat
    OBVIOUS
  <2>1. At(k)[x] = IF x \in stop THEN base[x] ELSE step[<<x, At(k)[next[x]]>>]
    BY <1>4, <2>0 DEF Solves
  <2>2. ASSUME x \notin stop PROVE At(k)[next[x]] = F[next[x]]
    <3> DEFINE y == next[x]
               j == measure[y] + 1
    <3>1. y \in S /\ measure[y] < measure[x] /\ measure[y] \in Nat /\ j \in Nat /\ measure[y] < j /\ j <= k
      BY <2>0, <2>2
    <3>2. Is(At(j), j) /\ Is(At(k), k)
      BY <1>4, <2>0, <3>1
    <3>3. Is(At(k), j)
      <4>1. \A z \in S : measure[z] < j => measure[z] < k
        BY <2>0, <3>1
      <4> QED
        BY <3>2, <4>1 DEF Solves
    <3>4. At(k)[y] = At(j)[y]
      <4> HIDE DEF j, k, y
      <4> QED
        BY <3>1, <3>2, <3>3, Agree
    <3> QED
      BY <3>1, <3>4
  <2> QED
    BY <2>1, <2>2
<1> HIDE DEF F
<1> QED
  BY <1>5, <1>6

-----------------------------------------------------------------------------
(* Filters and sums over sequences. *)
KeptIn(s, S) ==
    CHOOSE iter : iter = [d \in SUBSET DOMAIN s |->
        IF d = {} THEN <<>>
        ELSE IF s[Max(d)] \in S THEN Append(iter[d \ {Max(d)}], s[Max(d)]) ELSE iter[d \ {Max(d)}]]
Sifted(s, S, n) == KeptIn(s, S)[1 .. n]

LEMMA MaxesAgree == \A d : Max(d) = Curve!Max(d) /\ Max(d) = Mood!Max(d)
  BY DEF Max, Curve!Max, Mood!Max

LEMMA KeptIs ==
  ASSUME NEW V, NEW s \in Seq(V), NEW S
  PROVE  Curve!Kept(s, S) = Sifted(s, S, Len(s))
<1>1. DOMAIN s = 1 .. Len(s)
  OBVIOUS
<1> QED
  BY <1>1 DEF Curve!Kept, Curve!FoldLeft, Curve!MapThenFoldSet, KeptIn, Sifted, Max, Curve!Max

LEMMA BetweenIs ==
  ASSUME NEW V, NEW s \in Seq(V), NEW from, NEW to
  PROVE  Mood!Between(s, from, to) = Sifted(s, from .. to, Len(s))
<1>1. DOMAIN s = 1 .. Len(s)
  OBVIOUS
<1> QED
  BY <1>1 DEF Mood!Between, Mood!FoldLeft, Mood!MapThenFoldSet, KeptIn, Sifted, Max, Mood!Max

LEMMA SiftedSteps ==
  ASSUME NEW V, NEW s \in Seq(V), NEW S
  PROVE  /\ Sifted(s, S, 0) = <<>>
         /\ \A m \in 1 .. Len(s) :
               Sifted(s, S, m) = IF s[m] \in S THEN Append(Sifted(s, S, m - 1), s[m]) ELSE Sifted(s, S, m - 1)
         /\ \A m \in 0 .. Len(s) : Sifted(s, S, m) \in Seq(V)
<1> DEFINE n == Len(s)
           W == Seq(V)
           Keep(w, x) == IF x \in S THEN Append(w, x) ELSE w
           step == [x \in W \X Nat |-> IF x[2] \in 1 .. n THEN Keep(x[1], s[x[2]]) ELSE x[1]]
           Is(f) == f = [d \in SUBSET DOMAIN s |->
                           IF d = {} THEN <<>> ELSE Keep(f[d \ {Max(d)}], s[Max(d)])]
<1>1. n \in Nat /\ DOMAIN s = 1 .. n /\ \A i \in 1 .. n : s[i] \in V
  OBVIOUS
<1>2. <<>> \in W
  OBVIOUS
<1>a. \A w \in W : \A x \in V : Keep(w, x) \in W
  OBVIOUS
<1>b. \A w, x : (x \in S => Keep(w, x) = Append(w, x)) /\ (x \notin S => Keep(w, x) = w)
  OBVIOUS
<1> HIDE DEF W, Keep
<1>3. step \in [W \X Nat -> W]
  <2> SUFFICES ASSUME NEW x \in W \X Nat
               PROVE  (IF x[2] \in 1 .. n THEN Keep(x[1], s[x[2]]) ELSE x[1]) \in W
    OBVIOUS
  <2>1. x[1] \in W
    OBVIOUS
  <2> QED
    BY <1>1, <2>1, <1>a
<1>4. \A w \in W : \A i \in 1 .. n : step[<<w, i>>] = Keep(w, s[i])
  <2> TAKE w \in W
  <2> TAKE i \in 1 .. n
  <2>1. <<w, i>> \in W \X Nat
    BY <1>1
  <2> QED
    BY <2>1
<1> HIDE DEF n, step
<1>5. \E f : Is(f)
  <2>1. PICK f : Folds(f, W, <<>>, step, n)
    BY <1>1, <1>2, <1>3, FoldExists
  <2>2. ASSUME NEW d \in SUBSET (1 .. n), d # {}
        PROVE  f[d] = Keep(f[d \ {Max(d)}], s[Max(d)])
    <3>1. Max(d) \in 1 .. n
      BY <1>1, <2>2, MaxIs
    <3>2. f[d \ {Max(d)}] \in W
      BY <2>1, Zenon DEF Folds
    <3>3. f[d] = step[<<f[d \ {Max(d)}], Max(d)>>]
      BY <2>1, <2>2, Zenon DEF Folds
    <3> QED
      BY <1>4, <3>1, <3>2, <3>3
  <2>3. /\ f = [d \in SUBSET (1 .. n) |-> f[d]]
        /\ \A d \in SUBSET (1 .. n) : d = {} => f[d] = <<>>
    BY <2>1, Zenon DEF Folds
  <2>4. Is(f)
    BY <1>1, <2>2, <2>3
  <2> HIDE DEF Is
  <2> QED
    BY <2>4
<1> DEFINE iter == KeptIn(s, S)
<1>6. iter = CHOOSE f : Is(f)
  BY DEF KeptIn, Keep
<1>7. Is(iter)
  <2> HIDE DEF Is, iter
  <2> QED
    BY <1>5, <1>6
<1> HIDE DEF iter
<1>8. iter[1 .. 0] = <<>>
  <2>1. 1 .. 0 = {}
    OBVIOUS
  <2> QED
    BY <1>7, <2>1
<1>9. ASSUME NEW m \in 1 .. n PROVE iter[1 .. m] = Keep(iter[1 .. m - 1], s[m])
  <2>1. /\ 1 .. m \in SUBSET (1 .. n) /\ 1 .. m # {}
        /\ Max(1 .. m) = m /\ (1 .. m) \ {m} = 1 .. m - 1
    BY <1>1, MaxOfRange
  <2>2. iter[1 .. m] = Keep(iter[(1 .. m) \ {Max(1 .. m)}], s[Max(1 .. m)])
    BY <1>1, <1>7, <2>1
  <2> QED
    BY <2>1, <2>2
<1> DEFINE T == {m \in Nat : m <= n => iter[1 .. m] \in W}
<1>10. 0 \in T
  BY <1>2, <1>8
<1>11. ASSUME NEW m \in Nat, m \in T PROVE m + 1 \in T
  <2> SUFFICES ASSUME m + 1 <= n PROVE iter[1 .. m + 1] \in W
    OBVIOUS
  <2>1. m + 1 \in 1 .. n /\ (m + 1) - 1 = m
    BY <1>1
  <2>2. iter[1 .. m] \in W
    BY <1>1, <1>11
  <2>3. iter[1 .. m + 1] = Keep(iter[1 .. m], s[m + 1])
    BY <2>1, <1>9
  <2> QED
    BY <1>1, <2>1, <2>2, <2>3, <1>a
<1>12. Nat \subseteq T
  <2> HIDE DEF T
  <2> QED
    BY <1>10, <1>11, Induction
<1>13. \A m \in 0 .. n : iter[1 .. m] \in W
  BY <1>12
<1>14. \A m \in 1 .. n : iter[1 .. m] = IF s[m] \in S THEN Append(iter[1 .. m - 1], s[m]) ELSE iter[1 .. m - 1]
  BY <1>9, <1>b
<1> QED
  BY <1>8, <1>14, <1>13 DEF Sifted, iter, n, W

-----------------------------------------------------------------------------
(* Sequences that rise by a key, and their elements.                            *)
Rising(s, key) == \A i, j \in 1 .. Len(s) : i < j => key[s[i]] < key[s[j]]
Climbs(V, key, s) == key \in [V -> Int] /\ s \in Seq(V) /\ Rising(s, key)
Elements(s) == {s[i] : i \in 1 .. Len(s)}

LEMMA ElementsOfAppend ==
  ASSUME NEW V, NEW s \in Seq(V), NEW x \in V
  PROVE  Elements(Append(s, x)) = Elements(s) \cup {x}
<1> DEFINE t == Append(s, x)
           n == Len(s)
<1>1. n \in Nat /\ Len(t) = n + 1 /\ t[n + 1] = x /\ \A i \in 1 .. n : t[i] = s[i]
  OBVIOUS
<1> HIDE DEF t, n
<1>2. \A i : i \in 1 .. n + 1 <=> i \in 1 .. n \/ i = n + 1
  BY <1>1
<1>3. {t[i] : i \in 1 .. n + 1} = {s[i] : i \in 1 .. n} \cup {x}
  BY <1>1, <1>2, Zenon
<1> QED
  BY <1>1, <1>3 DEF Elements, n, t

LEMMA ElementsIn ==
  ASSUME NEW V, NEW s \in Seq(V)
  PROVE  Elements(s) \subseteq V /\ (\A i \in 1 .. Len(s) : s[i] \in V /\ s[i] \in Elements(s))
         /\ (Elements(s) = {} <=> s = <<>>) /\ Len(s) \in Nat
<1>1. Len(s) \in Nat /\ \A i \in 1 .. Len(s) : s[i] \in V
  OBVIOUS
<1>2. Elements(s) = {} => Len(s) = 0
  <2>1. Len(s) # 0 => 1 \in 1 .. Len(s)
    BY <1>1
  <2> QED
    BY <2>1 DEF Elements
<1>3. Len(s) = 0 => s = <<>>
  OBVIOUS
<1>4. s = <<>> => Elements(s) = {}
  BY DEF Elements
<1>5. Elements(s) \subseteq V /\ \A i \in 1 .. Len(s) : s[i] \in Elements(s)
  BY <1>1 DEF Elements
<1> QED
  BY <1>1, <1>2, <1>3, <1>4, <1>5

LEMMA RisingAppend ==
  ASSUME NEW V, NEW key, NEW s, Climbs(V, key, s), NEW x \in V,
         \A y \in Elements(s) : key[y] < key[x]
  PROVE  Climbs(V, key, Append(s, x))
<1> USE DEF Climbs
<1> DEFINE t == Append(s, x)
           n == Len(s)
<1>1. n \in Nat /\ Len(t) = n + 1 /\ t[n + 1] = x /\ \A i \in 1 .. n : t[i] = s[i]
  OBVIOUS
<1>2. \A i \in 1 .. n : key[s[i]] < key[x]
  BY DEF Elements
<1> HIDE DEF t
<1> SUFFICES ASSUME NEW i \in 1 .. n + 1, NEW j \in 1 .. n + 1, i < j PROVE key[t[i]] < key[t[j]]
  <2>1. t \in Seq(V)
    BY DEF t
  <2> QED
    BY <1>1, <2>1 DEF Rising, t
<1>3. i \in 1 .. n
  BY <1>1
<1>4. CASE j = n + 1
  BY <1>1, <1>2, <1>3, <1>4
<1>5. CASE j \in 1 .. n
  BY <1>1, <1>3, <1>5 DEF Rising
<1> QED
  BY <1>1, <1>4, <1>5

Picked(s, S, m) == {s[i] : i \in {j \in 1 .. m : s[j] \in S}}

(* What is kept of a rising sequence rises, and is those of it in the set.      *)
LEMMA SiftedRising ==
  ASSUME NEW V, NEW key, NEW s, Climbs(V, key, s), NEW S
  PROVE  \A m \in 0 .. Len(s) :
            Climbs(V, key, Sifted(s, S, m)) /\ Elements(Sifted(s, S, m)) = Picked(s, S, m)
<1> USE DEF Climbs
<1> DEFINE n == Len(s)
           R(m) == Sifted(s, S, m)
           Of(m) == {s[i] : i \in {j \in 1 .. m : s[j] \in S}}
           T == {m \in Nat : m <= n => Rising(R(m), key) /\ Elements(R(m)) = Of(m)}
<1>1. n \in Nat /\ \A i \in 1 .. n : s[i] \in V
  OBVIOUS
<1>2. /\ R(0) = <<>>
      /\ \A m \in 1 .. n : R(m) = IF s[m] \in S THEN Append(R(m - 1), s[m]) ELSE R(m - 1)
      /\ \A m \in 0 .. n : R(m) \in Seq(V)
  BY SiftedSteps
<1> HIDE DEF R, n
<1>3. 0 \in T
  <2>1. Rising(<<>>, key) /\ Elements(<<>>) = {}
    BY DEF Rising, Elements
  <2>2. Of(0) = {}
    OBVIOUS
  <2> QED
    BY <1>2, <2>1, <2>2
<1>4. ASSUME NEW m \in Nat, m \in T PROVE m + 1 \in T
  <2> SUFFICES ASSUME m + 1 <= n PROVE Rising(R(m + 1), key) /\ Elements(R(m + 1)) = Of(m + 1)
    OBVIOUS
  <2>1. m + 1 \in 1 .. n /\ (m + 1) - 1 = m /\ m \in 0 .. n /\ s[m + 1] \in V
    BY <1>1
  <2>2. Rising(R(m), key) /\ Elements(R(m)) = Of(m)
    BY <1>1, <1>4
  <2>3. \A i : i \in 1 .. m + 1 <=> i \in 1 .. m \/ i = m + 1
    OBVIOUS
  <2>4. CASE s[m + 1] \notin S
    <3>1. R(m + 1) = R(m)
      BY <1>2, <2>1, <2>4
    <3>2. \A i : (i \in 1 .. m + 1 /\ s[i] \in S) <=> (i \in 1 .. m /\ s[i] \in S)
      BY <2>3, <2>4
    <3>3. Of(m + 1) = Of(m)
      BY <3>2, Zenon
    <3> QED
      BY <2>2, <3>1, <3>3
  <2>5. CASE s[m + 1] \in S
    <3>1. R(m + 1) = Append(R(m), s[m + 1]) /\ R(m) \in Seq(V)
      BY <1>2, <2>1, <2>5
    <3>2. \A i : (i \in 1 .. m + 1 /\ s[i] \in S) <=> (i \in 1 .. m /\ s[i] \in S) \/ i = m + 1
      BY <2>3, <2>5
    <3>3. Of(m + 1) = Of(m) \cup {s[m + 1]}
      BY <3>2, Zenon
    <3>4. \A y \in Of(m) : key[y] < key[s[m + 1]]
      <4> SUFFICES ASSUME NEW i \in 1 .. m PROVE key[s[i]] < key[s[m + 1]]
        OBVIOUS
      <4>1. i \in 1 .. n /\ i < m + 1
        BY <1>1, <2>1
      <4> QED
        BY <2>1, <4>1 DEF Rising, n
    <3> HIDE DEF Of
    <3>5. Rising(R(m + 1), key)
      <4>1. Climbs(V, key, R(m)) /\ \A y \in Elements(R(m)) : key[y] < key[s[m + 1]]
        BY <2>2, <3>1, <3>4
      <4>2. Climbs(V, key, Append(R(m), s[m + 1]))
        <5> HIDE DEF Climbs
        <5> QED
          BY <2>1, <4>1, RisingAppend
      <4> QED
        BY <3>1, <4>2
    <3>6. Elements(Append(R(m), s[m + 1])) = Elements(R(m)) \cup {s[m + 1]}
      <4>1. R(m) \in Seq(V) /\ s[m + 1] \in V
        BY <2>1, <3>1
      <4> QED
        BY <4>1, ElementsOfAppend
    <3>7. Elements(R(m + 1)) = Of(m + 1)
      BY <2>2, <3>1, <3>3, <3>6
    <3> QED
      BY <3>5, <3>7
  <2> QED
    BY <2>4, <2>5
<1>5. Nat \subseteq T
  <2> HIDE DEF T
  <2> QED
    BY <1>3, <1>4, Induction
<1>6. \A m \in 0 .. n : Rising(R(m), key) /\ Elements(R(m)) = Of(m)
  BY <1>1, <1>5
<1> QED
  BY <1>2, <1>6 DEF R, n, Picked

(* Rising sequences with the same elements are the same.                        *)
LEMMA SameRising ==
  ASSUME NEW V, NEW key, NEW s, NEW t, Climbs(V, key, s), Climbs(V, key, t), Elements(s) = Elements(t)
  PROVE  s = t
<1> USE DEF Climbs
<1> DEFINE Same(m) == \A i \in 1 .. m : (i <= Len(s) \/ i <= Len(t)) => i <= Len(s) /\ i <= Len(t) /\ s[i] = t[i]
           T == {m \in Nat : Same(m)}
<1>0. Len(s) \in Nat /\ Len(t) \in Nat
  OBVIOUS
<1>1. 0 \in T
  OBVIOUS
<1>2. ASSUME NEW a \in Seq(V), NEW b \in Seq(V), Rising(a, key), Rising(b, key), Elements(a) = Elements(b),
             NEW m \in Nat, m + 1 <= Len(a),
             \A i \in 1 .. m : (i <= Len(a) \/ i <= Len(b)) => i <= Len(a) /\ i <= Len(b) /\ a[i] = b[i]
      PROVE  \E j \in 1 .. Len(b) : j >= m + 1 /\ a[m + 1] = b[j]
  <2>0. Len(a) \in Nat /\ Len(b) \in Nat /\ m + 1 \in 1 .. Len(a)
    BY <1>2
  <2>1. PICK j \in 1 .. Len(b) : a[m + 1] = b[j]
    BY <1>2, <2>0 DEF Elements
  <2>2. ASSUME j <= m PROVE FALSE
    <3>1. j \in 1 .. m /\ j \in 1 .. Len(a) /\ j < m + 1
      BY <2>0, <2>2, <1>2
    <3>2. a[j] = a[m + 1]
      BY <1>2, <2>1, <2>0, <3>1
    <3>3. key[a[j]] < key[a[m + 1]] /\ key[a[j]] \in Int
      <4>1. a[j] \in V
        BY <3>1
      <4> QED
        BY <1>2, <2>0, <3>1, <4>1 DEF Rising
    <3> QED
      BY <3>2, <3>3
  <2> QED
    BY <2>0, <2>1, <2>2
<1>3. ASSUME NEW m \in Nat, m \in T PROVE m + 1 \in T
  <2>1. Same(m)
    BY <1>3
  <2>2. ASSUME m + 1 <= Len(s) \/ m + 1 <= Len(t)
        PROVE  m + 1 <= Len(s) /\ m + 1 <= Len(t) /\ s[m + 1] = t[m + 1]
    <3>1. m + 1 <= Len(s) => \E j \in 1 .. Len(t) : j >= m + 1 /\ s[m + 1] = t[j]
      BY <1>2, <2>1
    <3>2. m + 1 <= Len(t) => \E j \in 1 .. Len(s) : j >= m + 1 /\ t[m + 1] = s[j]
      <4>1. \A i \in 1 .. m : (i <= Len(t) \/ i <= Len(s)) => i <= Len(t) /\ i <= Len(s) /\ t[i] = s[i]
        BY <2>1
      <4> HIDE DEF Same
      <4> QED
        BY <1>2, <4>1
    <3>3. m + 1 <= Len(s) /\ m + 1 <= Len(t)
      BY <1>0, <2>2, <3>1, <3>2
    <3>4. PICK j \in 1 .. Len(t) : j >= m + 1 /\ s[m + 1] = t[j]
      BY <3>1, <3>3
    <3>5. PICK k \in 1 .. Len(s) : k >= m + 1 /\ t[m + 1] = s[k]
      BY <3>2, <3>3
    <3>6. m + 1 \in 1 .. Len(s) /\ m + 1 \in 1 .. Len(t)
      BY <1>0, <3>3
    <3>7. /\ m + 1 < j => key[t[m + 1]] < key[t[j]]
          /\ m + 1 < k => key[s[m + 1]] < key[s[k]]
      BY <3>6 DEF Rising
    <3>8. key[s[m + 1]] \in Int /\ key[t[m + 1]] \in Int /\ key[t[j]] \in Int /\ key[s[k]] \in Int
      <4>1. s[m + 1] \in V /\ t[m + 1] \in V /\ t[j] \in V /\ s[k] \in V
        BY <3>6
      <4> QED
        BY <4>1
    <3>9. j = m + 1 \/ k = m + 1
      <4> SUFFICES ASSUME m + 1 < j, m + 1 < k PROVE FALSE
        BY <3>4, <3>5
      <4>1. key[t[m + 1]] < key[s[m + 1]] /\ key[s[m + 1]] < key[t[m + 1]]
        BY <3>4, <3>5, <3>7
      <4> QED
        BY <3>8, <4>1
    <3> QED
      BY <3>3, <3>4, <3>5, <3>9
  <2>3. Same(m + 1)
    <3> SUFFICES ASSUME NEW i \in 1 .. m + 1, i <= Len(s) \/ i <= Len(t)
                 PROVE  i <= Len(s) /\ i <= Len(t) /\ s[i] = t[i]
      OBVIOUS
    <3>1. i \in 1 .. m \/ i = m + 1
      OBVIOUS
    <3> QED
      BY <2>1, <2>2, <3>1
  <2> QED
    BY <2>3
<1>4. Nat \subseteq T
  <2> HIDE DEF T
  <2> QED
    BY <1>1, <1>3, Induction
<1>5. Same(Len(s)) /\ Same(Len(t))
  BY <1>0, <1>4
<1>6. Len(s) = Len(t)
  <2>1. Len(t) > 0 => Len(t) <= Len(s)
    <3>1. Len(t) > 0 => Len(t) \in 1 .. Len(t)
      BY <1>0
    <3> QED
      BY <1>0, <1>5, <3>1
  <2>2. Len(s) > 0 => Len(s) <= Len(t)
    <3>1. Len(s) > 0 => Len(s) \in 1 .. Len(s)
      BY <1>0
    <3> QED
      BY <1>0, <1>5, <3>1
  <2> QED
    BY <1>0, <2>1, <2>2
<1>7. \A i \in 1 .. Len(s) : s[i] = t[i]
  BY <1>0, <1>5, <1>6
<1> QED
  BY <1>6, <1>7

LEMMA RisingPart ==
  ASSUME NEW V, NEW key, NEW s, Climbs(V, key, s),
         NEW a \in Nat \ {0}, NEW b \in Nat, b <= Len(s), a <= b + 1
  PROVE  /\ Climbs(V, key, SubSeq(s, a, b)) /\ Len(SubSeq(s, a, b)) = b + 1 - a
         /\ \A i \in 1 .. b + 1 - a : SubSeq(s, a, b)[i] = s[a + i - 1]
         /\ Elements(SubSeq(s, a, b)) = {s[i] : i \in a .. b}
<1> USE DEF Climbs
<1> DEFINE t == SubSeq(s, a, b)
<1>1. t \in Seq(V) /\ Len(t) = b + 1 - a /\ \A i \in 1 .. b + 1 - a : t[i] = s[a + i - 1]
  OBVIOUS
<1> HIDE DEF t
<1>2. \A i \in 1 .. Len(t) : a + i - 1 \in 1 .. Len(s)
  BY <1>1
<1>3. Rising(t, key)
  <2> SUFFICES ASSUME NEW i \in 1 .. Len(t), NEW j \in 1 .. Len(t), i < j PROVE key[t[i]] < key[t[j]]
    BY DEF Rising
  <2>1. a + i - 1 < a + j - 1
    BY <1>1
  <2> QED
    BY <1>1, <1>2, <2>1 DEF Rising
<1>4. ASSUME NEW x PROVE x \in Elements(t) <=> x \in {s[i] : i \in a .. b}
  <2>1. ASSUME NEW i \in 1 .. Len(t), t[i] = x PROVE \E j \in a .. b : s[j] = x
    <3>1. a + i - 1 \in a .. b
      BY <1>1
    <3> QED
      BY <1>1, <2>1, <3>1
  <2>2. ASSUME NEW j \in a .. b, s[j] = x PROVE \E i \in 1 .. Len(t) : t[i] = x
    <3>1. j + 1 - a \in 1 .. Len(t) /\ a + (j + 1 - a) - 1 = j
      BY <1>1
    <3> QED
      BY <1>1, <2>2, <3>1
  <2> QED
    BY <2>1, <2>2 DEF Elements
<1> QED
  BY <1>1, <1>3, <1>4 DEF t

Before(key, s, t) == \A x \in Elements(s) : \A y \in Elements(t) : key[x] < key[y]

LEMMA RisingBoth ==
  ASSUME NEW V, NEW key, NEW s, NEW t, Climbs(V, key, s), Climbs(V, key, t), Before(key, s, t)
  PROVE  Climbs(V, key, s \o t) /\ Elements(s \o t) = Elements(s) \cup Elements(t)
<1> USE DEF Climbs, Before
<1> DEFINE u == s \o t
           n == Len(s)
           k == Len(t)
<1>1. /\ n \in Nat /\ k \in Nat /\ u \in Seq(V) /\ Len(u) = n + k
      /\ \A i \in 1 .. n : u[i] = s[i]
      /\ \A i \in n + 1 .. n + k : u[i] = t[i - n]
  OBVIOUS
<1>2. (\A i \in 1 .. n : s[i] \in Elements(s)) /\ (\A i \in 1 .. k : t[i] \in Elements(t))
  BY DEF Elements
<1> HIDE DEF u, n, k
<1>3. \A i \in 1 .. n + k : i \in 1 .. n \/ (i \in n + 1 .. n + k /\ i - n \in 1 .. k)
  BY <1>1
<1>4. Rising(u, key)
  <2> SUFFICES ASSUME NEW i \in 1 .. n + k, NEW j \in 1 .. n + k, i < j PROVE key[u[i]] < key[u[j]]
    BY <1>1 DEF Rising
  <2>1. CASE i \in 1 .. n /\ j \in 1 .. n
    BY <1>1, <2>1 DEF Rising, n
  <2>2. CASE i \in 1 .. n /\ j \in n + 1 .. n + k /\ j - n \in 1 .. k
    BY <1>1, <1>2, <2>2
  <2>3. CASE /\ i \in n + 1 .. n + k /\ i - n \in 1 .. k
             /\ j \in n + 1 .. n + k /\ j - n \in 1 .. k
    <3>1. i - n < j - n
      BY <1>1
    <3> QED
      BY <1>1, <2>3, <3>1 DEF Rising, k
  <2>4. ~(j \in 1 .. n /\ i \in n + 1 .. n + k)
    BY <1>1
  <2> QED
    BY <1>3, <2>1, <2>2, <2>3, <2>4
<1>5. ASSUME NEW x PROVE x \in Elements(u) <=> x \in Elements(s) \/ x \in Elements(t)
  <2>1. ASSUME NEW i \in 1 .. n + k, u[i] = x PROVE x \in Elements(s) \/ x \in Elements(t)
    BY <1>1, <1>2, <1>3, <2>1
  <2>2. ASSUME NEW i \in 1 .. n, s[i] = x PROVE x \in Elements(u)
    <3>1. i \in 1 .. n + k
      BY <1>1
    <3> QED
      BY <1>1, <2>2, <3>1 DEF Elements
  <2>3. ASSUME NEW i \in 1 .. k, t[i] = x PROVE x \in Elements(u)
    <3>1. n + i \in n + 1 .. n + k /\ (n + i) - n = i /\ n + i \in 1 .. n + k
      BY <1>1
    <3> QED
      BY <1>1, <2>3, <3>1 DEF Elements
  <2>4. x \in Elements(u) => \E i \in 1 .. n + k : u[i] = x
    BY <1>1 DEF Elements
  <2>5. x \in Elements(s) => \E i \in 1 .. n : s[i] = x
    BY DEF Elements, n
  <2>6. x \in Elements(t) => \E i \in 1 .. k : t[i] = x
    BY DEF Elements, k
  <2> QED
    BY <2>1, <2>2, <2>3, <2>4, <2>5, <2>6
<1> QED
  BY <1>1, <1>4, <1>5 DEF u

-----------------------------------------------------------------------------
(* Series of dates. *)
Itself == [x \in Int |-> x]
Dated(s) == s \in Seq(Nat) /\ Climbs(Int, Itself, s)

LEMMA DatedIs ==
  ASSUME NEW s, Dated(s)
  PROVE  /\ s \in Seq(Nat) /\ s \in Seq(Int) /\ Itself \in [Int -> Int]
         /\ Len(s) \in Nat /\ DOMAIN s = 1 .. Len(s)
         /\ \A i \in 1 .. Len(s) : s[i] \in Nat
         /\ \A i, j \in 1 .. Len(s) : i < j => s[i] < s[j]
<1>1. s \in Seq(Nat) /\ s \in Seq(Int) /\ Itself \in [Int -> Int]
  BY DEF Dated, Itself
<1>2. Len(s) \in Nat /\ DOMAIN s = 1 .. Len(s) /\ \A i \in 1 .. Len(s) : s[i] \in Nat
  <2>1. s \in Seq(Nat)
    BY DEF Dated
  <2> QED
    BY <2>1
<1>3. \A x \in Nat : Itself[x] = x
  BY DEF Itself
<1> QED
  BY <1>1, <1>2, <1>3 DEF Dated, Climbs, Rising

LEMMA BetweenDates ==
  ASSUME NEW s, Dated(s), NEW from \in Int, NEW to \in Int
  PROVE  /\ Dated(Mood!Between(s, from, to))
         /\ Elements(Mood!Between(s, from, to)) = Elements(s) \cap (from .. to)
<1> DEFINE n == Len(s)
           S == from .. to
           b == Sifted(s, S, n)
<1>1. s \in Seq(Nat) /\ s \in Seq(Int) /\ Itself \in [Int -> Int] /\ n \in Nat /\ n \in 0 .. n
  BY DatedIs
<1>2. Mood!Between(s, from, to) = b
  BY <1>1, BetweenIs
<1>3. b \in Seq(Nat)
  BY <1>1, SiftedSteps
<1>4. Climbs(Int, Itself, b) /\ Elements(b) = {s[i] : i \in {j \in 1 .. n : s[j] \in S}}
  <2>1. Climbs(Int, Itself, s)
    BY DEF Dated
  <2> HIDE DEF S
  <2>2. \A m \in 0 .. Len(s) :
            Climbs(Int, Itself, Sifted(s, S, m)) /\ Elements(Sifted(s, S, m)) = Picked(s, S, m)
    BY <2>1, SiftedRising
  <2> QED
    BY <1>1, <2>2 DEF Picked
<1>5. {s[i] : i \in {j \in 1 .. n : s[j] \in S}} = Elements(s) \cap S
  <2> HIDE DEF S
  <2> QED
    BY DEF Elements
<1> QED
  BY <1>2, <1>3, <1>4, <1>5 DEF Dated

(* The places a search is at, and that it ends with the last date early enough. *)
Places(n) == [lo : 1 .. n + 1, hi : 0 .. n, found : 0 .. n]

LEMMA PlaceParts ==
  ASSUME NEW n \in Nat, NEW at \in Places(n)
  PROVE  /\ at.lo \in 1 .. n + 1 /\ at.hi \in 0 .. n /\ at.found \in 0 .. n
         /\ at.lo \in Int /\ at.hi \in Int /\ at.found \in Int
  BY DEF Places

LEMMA HalfIs ==
  ASSUME NEW s, NEW date, NEW n \in Nat, NEW at \in Places(n), at.lo <= at.hi
  PROVE  LET mid == (at.lo + at.hi) \div 2
             to == Mood!Half(s, date, at)
         IN  /\ mid \in 1 .. n /\ at.lo <= mid /\ mid <= at.hi /\ to \in Places(n)
             /\ IF s[mid] <= date THEN to.lo = mid + 1 /\ to.hi = at.hi /\ to.found = mid
                ELSE to.lo = at.lo /\ to.hi = mid - 1 /\ to.found = at.found
<1> DEFINE mid == (at.lo + at.hi) \div 2
<1>1. /\ at.lo \in 1 .. n + 1 /\ at.hi \in 0 .. n /\ at.found \in 0 .. n
      /\ at.lo \in Int /\ at.hi \in Int
  BY PlaceParts
<1>2. mid \in Int /\ at.lo <= mid /\ mid <= at.hi
  BY <1>1
<1>3. mid \in 1 .. n /\ mid + 1 \in 1 .. n + 1 /\ mid \in 0 .. n /\ mid - 1 \in 0 .. n
  BY <1>1, <1>2
<1> HIDE DEF mid
<1>4. CASE s[mid] <= date
  <2>1. Mood!Half(s, date, at) = [lo |-> mid + 1, hi |-> at.hi, found |-> mid]
    BY <1>4 DEF Mood!Half, mid
  <2> QED
    BY <1>1, <1>2, <1>3, <1>4, <2>1 DEF Places, mid
<1>5. CASE ~(s[mid] <= date)
  <2>1. Mood!Half(s, date, at) = [at EXCEPT !.hi = mid - 1]
    BY <1>5 DEF Mood!Half, mid
  <2>2. at = [lo |-> at.lo, hi |-> at.hi, found |-> at.found]
    BY DEF Places
  <2>3. Mood!Half(s, date, at) = [lo |-> at.lo, hi |-> mid - 1, found |-> at.found]
    BY <2>1, <2>2
  <2> QED
    BY <1>1, <1>2, <1>3, <1>5, <2>3 DEF Places, mid
<1> QED
  BY <1>4, <1>5

Searching(s, date, f) ==
  f = [at \in [lo : 1 .. Len(s) + 1, hi : 0 .. Len(s), found : 0 .. Len(s)] |->
          IF at.lo > at.hi THEN at.found ELSE f[Mood!Half(s, date, at)]]

LEMMA SearchExists ==
  ASSUME NEW s, Dated(s), NEW date \in Int
  PROVE  \E f : Searching(s, date, f)
<1> DEFINE n == Len(s)
           P == Places(n)
           V == 0 .. n
           stop == {at \in P : at.lo > at.hi}
           base == [at \in P |-> at.found]
           next == [at \in P |-> IF at.lo > at.hi THEN at ELSE Mood!Half(s, date, at)]
           step == [x \in P \X V |-> x[2]]
           measure == [at \in P |-> IF at.lo > at.hi THEN 0 ELSE at.hi + 1 - at.lo]
<1>0. n \in Nat
  BY DatedIs
<1> HIDE DEF n
<1>1. base \in [P -> V] /\ measure \in [P -> Nat] /\ step \in [P \X V -> V]
  <2>1. \A at \in P : at.found \in V /\ at.lo \in Int /\ at.hi \in Int
    BY <1>0, PlaceParts
  <2> HIDE DEF P, V
  <2> QED
    BY <2>1
<1>2. next \in [P -> P]
  <2>1. ASSUME NEW at \in P, ~(at.lo > at.hi) PROVE Mood!Half(s, date, at) \in P
    <3>1. at.lo <= at.hi
      BY <1>0, <2>1, PlaceParts
    <3> QED
      BY <1>0, <3>1, HalfIs
  <2> HIDE DEF P
  <2> QED
    BY <2>1
<1>3. \A at \in P \ stop : measure[next[at]] < measure[at]
  <2> SUFFICES ASSUME NEW at \in P, ~(at.lo > at.hi) PROVE measure[next[at]] < measure[at]
    OBVIOUS
  <2> DEFINE to == Mood!Half(s, date, at)
             mid == (at.lo + at.hi) \div 2
  <2>1. at.lo <= at.hi /\ at.lo \in Int /\ at.hi \in Int
    BY <1>0, PlaceParts
  <2>2. /\ mid \in 1 .. n /\ at.lo <= mid /\ mid <= at.hi /\ to \in P
        /\ \/ to.lo = mid + 1 /\ to.hi = at.hi
           \/ to.lo = at.lo /\ to.hi = mid - 1
    BY <1>0, <2>1, HalfIs
  <2>3. measure[at] = at.hi + 1 - at.lo /\ next[at] = to
    BY <2>1
  <2>4. measure[to] = IF to.lo > to.hi THEN 0 ELSE to.hi + 1 - to.lo
    BY <2>2
  <2> HIDE DEF to, mid, measure, next
  <2> QED
    BY <1>0, <2>1, <2>2, <2>3, <2>4
<1> HIDE DEF P, V, stop, base, next, step, measure
<1>4. PICK f \in [P -> V] : \A at \in P : f[at] = IF at \in stop THEN base[at] ELSE step[<<at, f[next[at]]>>]
  <2>1. \E f \in [P -> V] : \A at \in P : f[at] = IF at \in stop THEN base[at] ELSE step[<<at, f[next[at]]>>]
    <3>1. Descends(P, V, stop, base, next, step, measure)
      BY <1>1, <1>2, <1>3 DEF Descends
    <3> QED
      BY <3>1, Recursion
  <2> QED
    BY <2>1
<1>5. ASSUME NEW at \in P PROVE f[at] = IF at.lo > at.hi THEN at.found ELSE f[Mood!Half(s, date, at)]
  <2>1. next[at] \in P /\ f[next[at]] \in V
    BY <1>2, <1>4
  <2>2. step[<<at, f[next[at]]>>] = f[next[at]]
    BY <2>1 DEF step
  <2>3. ~(at.lo > at.hi) => next[at] = Mood!Half(s, date, at)
    BY DEF next
  <2> QED
    BY <1>4, <2>2, <2>3 DEF stop, base
<1>6. f = [at \in P |-> IF at.lo > at.hi THEN at.found ELSE f[Mood!Half(s, date, at)]]
  BY <1>4, <1>5
<1> QED
  BY <1>6 DEF Searching, P, Places, n

(* _lookup_nearest: the dates early enough are those up to the one found.       *)
LEMMA LookupFinds ==
  ASSUME NEW s, Dated(s), NEW date \in Int
  PROVE  LET found == Mood!LookupNearest(s, date)
         IN  found \in 0 .. Len(s) /\ \A i \in 1 .. Len(s) : s[i] <= date <=> i <= found
<1> DEFINE n == Len(s)
           P == Places(n)
           search == CHOOSE f : Searching(s, date, f)
           Right(v) == v \in 0 .. n /\ \A i \in 1 .. n : s[i] <= date <=> i <= v
           Good(at) == /\ at.found = at.lo - 1 /\ at.lo <= at.hi + 1
                       /\ \A i \in 1 .. n : (i < at.lo => s[i] <= date) /\ (i > at.hi => s[i] > date)
           Unread(at) == at.hi + 1 - at.lo
           T == {k \in Nat : \A at \in P : Good(at) /\ Unread(at) <= k => Right(search[at])}
<1>0. n \in Nat /\ (\A i \in 1 .. n : s[i] \in Int) /\ \A i, j \in 1 .. n : i < j => s[i] < s[j]
  BY DatedIs
<1>1. Searching(s, date, search)
  BY SearchExists
<1> HIDE DEF search
<1>2. \A at \in P : search[at] = IF at.lo > at.hi THEN at.found ELSE search[Mood!Half(s, date, at)]
  BY <1>1 DEF Searching, Places
<1> HIDE DEF n, P
<1>3. ASSUME NEW at \in P, Good(at), at.lo > at.hi PROVE Right(search[at])
  <2>1. at.lo \in Int /\ at.hi \in Int /\ at.found \in 0 .. n /\ at.hi \in 0 .. n
    BY <1>0, PlaceParts DEF P
  <2>2. search[at] = at.found /\ at.found = at.hi
    BY <1>2, <1>3, <2>1
  <2>3. at.lo = at.hi + 1
    BY <1>3, <2>1
  <2>4. \A i \in 1 .. n : s[i] <= date <=> i <= at.hi
    BY <1>0, <1>3, <2>1, <2>3
  <2> QED
    BY <2>1, <2>2, <2>4
<1>4. 0 \in T
  <2> SUFFICES ASSUME NEW at \in P, Good(at), Unread(at) <= 0 PROVE Right(search[at])
    OBVIOUS
  <2>1. at.lo > at.hi
    BY <1>0, PlaceParts DEF P
  <2> QED
    BY <1>3, <2>1
<1>5. ASSUME NEW k \in Nat, k \in T PROVE k + 1 \in T
  <2> SUFFICES ASSUME NEW at \in P, Good(at), Unread(at) <= k + 1 PROVE Right(search[at])
    OBVIOUS
  <2>0. at.lo \in Int /\ at.hi \in Int /\ at.found \in Int
    BY <1>0, PlaceParts DEF P
  <2>1. CASE at.lo > at.hi
    BY <1>3, <2>1
  <2>2. CASE at.lo <= at.hi
    <3> DEFINE to == Mood!Half(s, date, at)
               mid == (at.lo + at.hi) \div 2
    <3>1. /\ mid \in 1 .. n /\ at.lo <= mid /\ mid <= at.hi /\ to \in P
          /\ IF s[mid] <= date THEN to.lo = mid + 1 /\ to.hi = at.hi /\ to.found = mid
             ELSE to.lo = at.lo /\ to.hi = mid - 1 /\ to.found = at.found
      BY <1>0, <2>2, HalfIs DEF P
    <3>2. search[at] = search[to]
      BY <1>2, <2>0, <2>2
    <3> HIDE DEF to, mid
    <3>3. to.lo \in Int /\ to.hi \in Int /\ mid \in Int /\ Unread(to) <= k
      BY <1>0, <2>0, <3>1
    <3>4. Good(to)
      <4>1. CASE s[mid] <= date
        <5>1. \A i \in 1 .. n : i < mid + 1 => s[i] <= date
          BY <1>0, <3>1, <4>1
        <5> QED
          BY <2>0, <3>1, <3>3, <4>1, <5>1
      <4>2. CASE ~(s[mid] <= date)
        <5>1. \A i \in 1 .. n : i > mid - 1 => s[i] > date
          BY <1>0, <3>1, <4>2
        <5> QED
          BY <2>0, <3>1, <3>3, <4>2, <5>1
      <4> QED
        BY <4>1, <4>2
    <3> HIDE DEF Good, Right, Unread
    <3> QED
      BY <1>5, <3>1, <3>2, <3>3, <3>4
  <2> QED
    BY <2>0, <2>1, <2>2
<1>6. Nat \subseteq T
  <2> HIDE DEF T
  <2> QED
    BY <1>4, <1>5, Induction
<1> DEFINE from == [lo |-> 1, hi |-> n, found |-> 0]
<1>7. from \in P /\ Good(from) /\ Unread(from) <= n
  BY <1>0 DEF P, Places
<1>8. Right(search[from])
  <2> HIDE DEF Good, Right, Unread, from
  <2> QED
    BY <1>0, <1>6, <1>7
<1>9. Mood!LookupNearest(s, date) = search[from]
  BY DEF Mood!LookupNearest, search, Searching, n
<1> QED
  BY <1>8, <1>9 DEF n

-----------------------------------------------------------------------------
LEMMA NearestIs ==
  ASSUME NEW b, Dated(b), NEW date \in Int
  PROVE  LET i == Mood!LookupNearest(b, date)
         IN  /\ i \in 0 .. Len(b)
             /\ i = 0 => \A x \in Elements(b) : ~(x <= date)
             /\ i # 0 => /\ b[i] \in Elements(b) /\ b[i] <= date
                         /\ \A x \in Elements(b) : x <= date => x <= b[i]
<1> DEFINE i == Mood!LookupNearest(b, date)
<1>1. i \in 0 .. Len(b) /\ \A j \in 1 .. Len(b) : b[j] <= date <=> j <= i
  BY LookupFinds
<1> HIDE DEF i
<1>2. /\ Len(b) \in Nat /\ (\A j \in 1 .. Len(b) : b[j] \in Nat)
      /\ \A j, k \in 1 .. Len(b) : j < k => b[j] < b[k]
  BY DatedIs
<1>3. \A x \in Elements(b) : \E j \in 1 .. Len(b) : b[j] = x
  BY DEF Elements
<1>4. i = 0 => \A x \in Elements(b) : ~(x <= date)
  BY <1>1, <1>2, <1>3
<1>5. i # 0 => b[i] \in Elements(b) /\ b[i] <= date
  <2>1. i # 0 => i \in 1 .. Len(b) /\ i <= i
    BY <1>1, <1>2
  <2> QED
    BY <1>1, <2>1 DEF Elements
<1>6. ASSUME i # 0, NEW x \in Elements(b), x <= date PROVE x <= b[i]
  <2>1. PICK j \in 1 .. Len(b) : b[j] = x
    BY <1>3
  <2>2. j <= i /\ i \in 1 .. Len(b)
    BY <1>1, <1>2, <1>6, <2>1
  <2>3. CASE j = i
    BY <1>2, <2>1, <2>2, <2>3
  <2>4. CASE j # i
    <3>1. j < i
      BY <1>1, <2>2, <2>4
    <3>2. b[j] < b[i] /\ b[j] \in Nat /\ b[i] \in Nat
      BY <1>2, <2>2, <3>1
    <3> QED
      BY <2>1, <3>2
  <2> QED
    BY <2>3, <2>4
<1> QED
  BY <1>1, <1>4, <1>5, <1>6 DEF i

(* The value of a date depends on the dates up to it only.                      *)
LEMMA SameNearest ==
  ASSUME NEW b, Dated(b), NEW c, Dated(c), NEW date \in Int, NEW day \in Int,
         \A x \in Nat : (x \in Elements(b) /\ x <= date) <=> (x \in Elements(c) /\ x <= day)
  PROVE  LET i == Mood!LookupNearest(b, date)
             j == Mood!LookupNearest(c, day)
         IN  (i = 0 <=> j = 0) /\ (i # 0 => b[i] = c[j])
<1> DEFINE i == Mood!LookupNearest(b, date)
           j == Mood!LookupNearest(c, day)
<1>1. /\ i \in 0 .. Len(b)
      /\ i = 0 => \A x \in Elements(b) : ~(x <= date)
      /\ i # 0 => b[i] \in Elements(b) /\ b[i] <= date /\ \A x \in Elements(b) : x <= date => x <= b[i]
  BY NearestIs
<1>2. /\ j \in 0 .. Len(c)
      /\ j = 0 => \A x \in Elements(c) : ~(x <= day)
      /\ j # 0 => c[j] \in Elements(c) /\ c[j] <= day /\ \A x \in Elements(c) : x <= day => x <= c[j]
  BY NearestIs
<1>3. Elements(b) \subseteq Nat /\ Elements(c) \subseteq Nat
  <2>1. b \in Seq(Nat) /\ c \in Seq(Nat)
    BY DEF Dated
  <2> QED
    BY <2>1, ElementsIn
<1> HIDE DEF i, j
<1>4. i = 0 => j = 0
  BY <1>1, <1>2, <1>3
<1>5. j = 0 => i = 0
  BY <1>1, <1>2, <1>3
<1>6. ASSUME i # 0 PROVE b[i] = c[j]
  <2>1. b[i] \in Nat /\ c[j] \in Nat /\ b[i] \in Elements(c) /\ b[i] <= day /\ c[j] \in Elements(b) /\ c[j] <= date
    BY <1>1, <1>2, <1>3, <1>5, <1>6
  <2>2. b[i] <= c[j] /\ c[j] <= b[i]
    BY <1>1, <1>2, <1>5, <1>6, <2>1
  <2> QED
    BY <2>1, <2>2
<1> QED
  BY <1>4, <1>5, <1>6 DEF i, j

(* A store: dates in order for every signal.                                    *)
Stored(in0) == in0.today \in Nat /\ \A n \in Mood!Names : Dated(in0.days[n])

LEMMA SameSignals ==
  ASSUME NEW store, Stored(store), NEW from \in Int, NEW to \in Int, NEW til \in Int, NEW date \in Int,
         date <= to, date <= til
  PROVE  Mood!SignalsOf(store, from, to, date) = Mood!SignalsOf(store, from, til, date)
<1> DEFINE B(n, end) == Mood!Between(store.days[n], from, end)
           At(n, end) == LET i == Mood!LookupNearest(B(n, end), date)
                         IN  IF i = 0 THEN Mood!Absent ELSE store.value[n][B(n, end)[i]]
<1>1. ASSUME NEW n \in Mood!Names PROVE At(n, to) = At(n, til)
  <2>1. Dated(store.days[n])
    BY DEF Stored
  <2>2. /\ Dated(B(n, to)) /\ Elements(B(n, to)) = Elements(store.days[n]) \cap (from .. to)
        /\ Dated(B(n, til)) /\ Elements(B(n, til)) = Elements(store.days[n]) \cap (from .. til)
    BY <2>1, BetweenDates
  <2> HIDE DEF B
  <2>3. \A x \in Nat : (x \in Elements(B(n, to)) /\ x <= date) <=> (x \in Elements(B(n, til)) /\ x <= date)
    BY <2>2
  <2>4. LET i == Mood!LookupNearest(B(n, to), date)
            j == Mood!LookupNearest(B(n, til), date)
        IN  (i = 0 <=> j = 0) /\ (i # 0 => B(n, to)[i] = B(n, til)[j])
    BY <2>2, <2>3, SameNearest
  <2> QED
    BY <2>4
<1>2. /\ Mood!SignalsOf(store, from, to, date) = [n \in Mood!Names |-> At(n, to)]
      /\ Mood!SignalsOf(store, from, til, date) = [n \in Mood!Names |-> At(n, til)]
  BY DEF Mood!SignalsOf
<1> HIDE DEF At
<1> QED
  BY <1>1, <1>2

Days(store) == UNION {{store.days[n][i] : i \in DOMAIN store.days[n]} : n \in Mood!Names}

LEMMA DaysOf ==
  ASSUME NEW store, Stored(store)
  PROVE  /\ \A n \in Mood!Names : \A x \in Elements(store.days[n]) : x \in Days(store)
         /\ Days(store) \subseteq Nat
<1>1. ASSUME NEW n \in Mood!Names
      PROVE  {store.days[n][i] : i \in DOMAIN store.days[n]} = Elements(store.days[n])
  <2>1. DOMAIN store.days[n] = 1 .. Len(store.days[n])
    BY DatedIs DEF Stored
  <2> QED
    BY <2>1 DEF Elements
<1>2. \A n \in Mood!Names : Elements(store.days[n]) \subseteq Nat
  <2> TAKE n \in Mood!Names
  <2>1. store.days[n] \in Seq(Nat)
    BY DEF Stored, Dated
  <2> QED
    BY <2>1, ElementsIn
<1>3. Days(store) = UNION {Elements(store.days[n]) : n \in Mood!Names}
  BY <1>1 DEF Days
<1> QED
  BY <1>2, <1>3

LEMMA LabelsAre ==
  ASSUME NEW store, NEW from, NEW to
  PROVE  /\ DOMAIN Mood!RangeLabels(store, from, to) = Days(store) \cap (from .. to)
         /\ \A d \in Days(store) \cap (from .. to) :
               Mood!RangeLabels(store, from, to)[d] = Mood!Label(Mood!SignalsOf(store, from, to, d))
<1> DEFINE D == Days(store) \cap (from .. to)
<1>1. Mood!RangeLabels(store, from, to) = [d \in D |-> Mood!Label(Mood!SignalsOf(store, from, to, d))]
  BY DEF Mood!RangeLabels, Days
<1> HIDE DEF D
<1>2. /\ DOMAIN Mood!RangeLabels(store, from, to) = D
      /\ \A d \in D : Mood!RangeLabels(store, from, to)[d] = Mood!Label(Mood!SignalsOf(store, from, to, d))
  BY <1>1
<1> QED
  BY <1>2 DEF D

(* A date's label and a back-test's filter use what was known that day, the      *)
(* last value of it, and do not change with later dates (_lookup_nearest,       *)
(* classify_range).                                                             *)
THEOREM KnownThatDay ==
  ASSUME NEW store, Stored(store)
  PROVE  Mood!NeverFromTheFuture(store)
<1>0. store.today \in Nat /\ store.today \in Int /\ 0 \in Int /\ store.today + 30 \in Int
  BY DEF Stored
<1>1. ASSUME NEW n \in Mood!Names
      PROVE  LET days == store.days[n]
                 known == {i \in DOMAIN days : days[i] <= store.today}
                 found == Mood!LookupNearest(days, store.today)
             IN  IF known = {} THEN found = 0 ELSE found \in known /\ \A i \in known : i <= found
  <2> DEFINE days == store.days[n]
             known == {i \in DOMAIN days : days[i] <= store.today}
             found == Mood!LookupNearest(days, store.today)
  <2>1. Dated(days)
    BY DEF Stored
  <2> HIDE DEF days, found
  <2>2. found \in 0 .. Len(days) /\ \A i \in 1 .. Len(days) : days[i] <= store.today <=> i <= found
    BY <1>0, <2>1, LookupFinds DEF found
  <2>3. DOMAIN days = 1 .. Len(days) /\ Len(days) \in Nat
    BY <2>1, DatedIs
  <2>4. found # 0 => found \in known
    BY <2>2, <2>3
  <2>5. \A i \in known : i <= found /\ found # 0
    BY <2>2, <2>3
  <2> QED
    BY <2>4, <2>5 DEF days, found
<1> DEFINE today == store.today
           til == store.today + 30
           before == Mood!RangeLabels(store, 0, today)
           after == Mood!RangeLabels(store, 0, til)
<1>2. /\ today \in Nat /\ til \in Int /\ today <= til
      /\ DOMAIN before = Days(store) \cap (0 .. today)
      /\ \A d \in Days(store) \cap (0 .. today) : before[d] = Mood!Label(Mood!SignalsOf(store, 0, today, d))
      /\ \A d \in Days(store) \cap (0 .. til) : after[d] = Mood!Label(Mood!SignalsOf(store, 0, til, d))
  <2>1. today \in Nat /\ til \in Int /\ today <= til
    BY <1>0
  <2> HIDE DEF today, til
  <2> QED
    BY <2>1, LabelsAre
<1> HIDE DEF today, til, before, after
<1>3. ASSUME NEW d \in DOMAIN before PROVE after[d] = before[d]
  <2>1. d \in Days(store) \cap (0 .. til) /\ d \in Int /\ d <= today /\ d <= til
    BY <1>2
  <2>2. Mood!SignalsOf(store, 0, til, d) = Mood!SignalsOf(store, 0, today, d)
    BY <1>2, <2>1, SameSignals
  <2> QED
    BY <1>2, <2>1, <2>2
<1> QED
  BY <1>1, <1>3 DEF Mood!NeverFromTheFuture, before, after, today, til

(* Stored labels and the signals give one regime, unless a signal is older than *)
(* the second way looks back (compute_current_regime).                          *)
THEOREM RegimesAgree ==
  ASSUME NEW store, Stored(store)
  PROVE  Mood!WaysAgree(store)
<1> DEFINE today == store.today
           labels == Mood!RangeLabels(store, 0, today)
<1>0. today \in Nat
  BY DEF Stored
<1> SUFFICES ASSUME \A n \in Mood!Names : \A i \in DOMAIN store.days[n] : store.days[n][i] >= today - 30
             PROVE  Mood!Current(labels, store, today) = Mood!Live(store, today)
  BY DEF Mood!WaysAgree
<1> HIDE DEF today, labels
<1> DEFINE newest == {d \in DOMAIN labels : (\A e \in DOMAIN labels : e <= d) /\ d >= today - 7}
<1>1. CASE newest = {}
  BY <1>1 DEF Mood!Current
<1>2. CASE newest # {}
  <2> DEFINE d == CHOOSE x \in newest : TRUE
  <2>1. d \in newest
    BY <1>2
  <2>2. Mood!Current(labels, store, today) = labels[d]
    BY <1>2 DEF Mood!Current
  <2> HIDE DEF d
  <2>3. DOMAIN labels = Days(store) \cap (0 .. today)
    BY LabelsAre DEF labels
  <2>4. /\ d \in Days(store) \cap (0 .. today) /\ d \in Nat /\ d <= today
        /\ \A e \in Days(store) \cap (0 .. today) : e <= d
    BY <2>1, <2>3, <1>0
  <2>5. labels[d] = Mood!Label(Mood!SignalsOf(store, 0, today, d))
    BY <2>4, LabelsAre DEF labels
  <2> DEFINE B(n) == Mood!Between(store.days[n], 0, today)
             C(n) == Mood!Between(store.days[n], today - 30, today)
             Old(n) == LET i == Mood!LookupNearest(B(n), d)
                       IN  IF i = 0 THEN Mood!Absent ELSE store.value[n][B(n)[i]]
             New(n) == IF C(n) = <<>> THEN Mood!Absent ELSE store.value[n][C(n)[Len(C(n))]]
  <2>6. ASSUME NEW n \in Mood!Names PROVE Old(n) = New(n)
    <3> DEFINE s == store.days[n]
               b == B(n)
               c == C(n)
    <3>1. Dated(s)
      BY DEF Stored
    <3>2. /\ Dated(b) /\ Elements(b) = Elements(s) \cap (0 .. today)
          /\ Dated(c) /\ Elements(c) = Elements(s) \cap (today - 30 .. today)
      <4>1. today \in Int /\ today - 30 \in Int /\ 0 \in Int
        BY <1>0
      <4> QED
        BY <3>1, <4>1, BetweenDates
    <3>3. /\ Elements(s) \subseteq Nat /\ \A x \in Elements(s) : x >= today - 30 /\ x \in Days(store)
      <4>1. s \in Seq(Nat)
        BY <3>1 DEF Dated
      <4>2. DOMAIN s = 1 .. Len(s)
        BY <4>1
      <4> QED
        <5>1. Elements(s) \subseteq Nat
          BY <4>1, ElementsIn
        <5>2. \A x \in Elements(s) : x \in Days(store)
          BY DaysOf
        <5>3. \A i \in DOMAIN s : s[i] >= today - 30
          OBVIOUS
        <5> HIDE DEF s
        <5>4. \A x \in Elements(s) : x >= today - 30
          BY <4>2, <5>3 DEF Elements
        <5> QED
          BY <5>1, <5>2, <5>4
    <3>4. c = b
      <4>1. Elements(b) = Elements(c)
        BY <1>0, <3>2, <3>3
      <4>2. Climbs(Int, Itself, b) /\ Climbs(Int, Itself, c)
        BY <3>2 DEF Dated
      <4> HIDE DEF b, c
      <4> QED
        BY <4>1, <4>2, SameRising
    <3>5. \A x \in Elements(b) : x <= d
      BY <2>4, <3>2, <3>3
    <3> DEFINE i == Mood!LookupNearest(b, d)
    <3>6. i \in 0 .. Len(b) /\ \A j \in 1 .. Len(b) : b[j] <= d <=> j <= i
      <4> HIDE DEF b
      <4>1. d \in Int
        BY <2>4
      <4> QED
        BY <4>1, <3>2, LookupFinds
    <3>7. i = Len(b)
      <4> HIDE DEF i, b
      <4>1. Len(b) \in Nat
        BY <3>2, DatedIs
      <4>2. Len(b) # 0 => Len(b) \in 1 .. Len(b) /\ b[Len(b)] \in Elements(b)
        BY <4>1 DEF Elements
      <4> QED
        BY <3>5, <3>6, <4>1, <4>2
    <3>8. b = <<>> <=> Len(b) = 0
      <4>1. b \in Seq(Nat)
        BY <3>2 DEF Dated
      <4> HIDE DEF b
      <4> QED
        BY <4>1
    <3>9. Old(n) = IF Len(b) = 0 THEN Mood!Absent ELSE store.value[n][b[Len(b)]]
      BY <3>7
    <3>10. New(n) = IF Len(b) = 0 THEN Mood!Absent ELSE store.value[n][b[Len(b)]]
      BY <3>4, <3>8
    <3> QED
      BY <3>9, <3>10
  <2>7. /\ Mood!SignalsOf(store, 0, today, d) = [n \in Mood!Names |-> Old(n)]
        /\ Mood!Live(store, today) = Mood!Label([n \in Mood!Names |-> New(n)])
    BY DEF Mood!SignalsOf, Mood!Live
  <2> HIDE DEF Old, New
  <2>8. [n \in Mood!Names |-> Old(n)] = [n \in Mood!Names |-> New(n)]
    BY <2>6
  <2> QED
    BY <2>2, <2>5, <2>7, <2>8
<1> QED
  BY <1>1, <1>2

(* Worse signals never make a trade larger (classify_regime).                   *)
Signal == [vix : Int, hy : Int, rvol : Int, oi : Int, funding : Int]
SizeAt(s) == Mood!Multiplier[Mood!Label(s)]

LEMMA SizeIs ==
  ASSUME NEW s \in Signal
  PROVE  SizeAt(s) = IF Mood!Panics(s) THEN 4
                     ELSE IF Mood!Defends(s) THEN 7
                     ELSE IF ~Mood!Capped(s) /\ Mood!Trends(s) THEN 12 ELSE 10
<1> DEFINE P == Mood!Panics(s)
           D == Mood!Defends(s)
           C == Mood!Capped(s)
           T == Mood!Trends(s)
           H == Mood!Chops(s)
<1>1. SizeAt(s) = Mood!Multiplier[Mood!Label(s)]
  BY DEF SizeAt
<1>2. /\ P => Mood!Label(s) = "risk_off_panic"
      /\ ~P /\ D => Mood!Label(s) = "risk_off_defensive"
      /\ ~P /\ ~D /\ ~C /\ T => Mood!Label(s) = "risk_on_trending"
      /\ ~P /\ ~D /\ (C \/ ~T) => Mood!Label(s) \in {"risk_on_choppy", "neutral"}
  <2>1. P => D
    <3>1. s.vix \in Int
      BY DEF Signal
    <3> QED
      BY <3>1 DEF Mood!Panics, Mood!Defends, Mood!Above
  <2> HIDE DEF P, D, C, T, H
  <2>2. Mood!Label(s) =
          CASE P -> "risk_off_panic"
            [] ~P /\ D -> "risk_off_defensive"
            [] ~D /\ ~C /\ T -> "risk_on_trending"
            [] ~D /\ ~C /\ ~T /\ H -> "risk_on_choppy"
            [] OTHER -> "neutral"
    BY DEF Mood!Label, P, D, C, T, H
  <2> QED
    BY <2>1, <2>2
<1>3. /\ Mood!Multiplier["risk_off_panic"] = 4 /\ Mood!Multiplier["risk_off_defensive"] = 7
      /\ Mood!Multiplier["risk_on_trending"] = 12 /\ Mood!Multiplier["risk_on_choppy"] = 10
      /\ Mood!Multiplier["neutral"] = 10
  BY DEF Mood!Multiplier
<1> HIDE DEF P, D, C, T, H
<1> QED
  BY <1>1, <1>2, <1>3 DEF P, D, C, T

(* Whatever the signals, known or absent: with a worse one the size is not     *)
(* larger (regime_classifier.py).                                              *)
THEOREM WorseIsNotBolder == \A s \in Signal : Mood!NeverBolder(s)
<1> SUFFICES ASSUME NEW s \in Signal PROVE Mood!NeverBolder(s)
  OBVIOUS
<1> DEFINE At(v, h, r, o, f) == [vix |-> v, hy |-> h, rvol |-> r, oi |-> o, funding |-> f]
<1>1. s = At(s.vix, s.hy, s.rvol, s.oi, s.funding)
      /\ s.vix \in Int /\ s.hy \in Int /\ s.rvol \in Int /\ s.oi \in Int /\ s.funding \in Int
  BY DEF Signal
<1>a. \A v, h, r, o, f \in Int : At(v, h, r, o, f) \in Signal
  BY DEF Signal
<1> USE DEF Mood!Panics, Mood!Defends, Mood!Capped, Mood!Trends, Mood!Full, Mood!Above, Mood!AtLeast, Mood!Below, Mood!Absent
<1>2. ASSUME NEW v \in {150, 201, 221, 251, 301}, Mood!Below(s.vix, v) PROVE SizeAt([s EXCEPT !.vix = v]) <= SizeAt(s)
  <2>1. [s EXCEPT !.vix = v] = At(v, s.hy, s.rvol, s.oi, s.funding)
    BY <1>1
  <2>2. v \in Int /\ [s EXCEPT !.vix = v] \in Signal
    BY <1>1, <1>a, <2>1
  <2>3. /\ SizeAt(s) = IF Mood!Panics(s) THEN 4
                     ELSE IF Mood!Defends(s) THEN 7
                     ELSE IF ~Mood!Capped(s) /\ Mood!Trends(s) THEN 12 ELSE 10
        /\ LET t == [s EXCEPT !.vix = v]
           IN  SizeAt(t) = IF Mood!Panics(t) THEN 4
                     ELSE IF Mood!Defends(t) THEN 7
                     ELSE IF ~Mood!Capped(t) /\ Mood!Trends(t) THEN 12 ELSE 10
    <3> HIDE DEF Mood!Panics, Mood!Defends, Mood!Capped, Mood!Trends, Mood!Full, Mood!Above, Mood!AtLeast, Mood!Below, Mood!Absent
    <3> QED
      BY <2>2, SizeIs
  <2> QED
    BY <1>1, <1>2, <2>1, <2>2, <2>3
<1>3. ASSUME NEW h \in 30..52, Mood!Below(s.hy, h) PROVE SizeAt([s EXCEPT !.hy = h]) <= SizeAt(s)
  <2>1. [s EXCEPT !.hy = h] = At(s.vix, h, s.rvol, s.oi, s.funding)
    BY <1>1
  <2>2. h \in Int /\ [s EXCEPT !.hy = h] \in Signal
    BY <1>1, <1>a, <2>1
  <2>3. /\ SizeAt(s) = IF Mood!Panics(s) THEN 4
                     ELSE IF Mood!Defends(s) THEN 7
                     ELSE IF ~Mood!Capped(s) /\ Mood!Trends(s) THEN 12 ELSE 10
        /\ LET t == [s EXCEPT !.hy = h]
           IN  SizeAt(t) = IF Mood!Panics(t) THEN 4
                     ELSE IF Mood!Defends(t) THEN 7
                     ELSE IF ~Mood!Capped(t) /\ Mood!Trends(t) THEN 12 ELSE 10
    <3> HIDE DEF Mood!Panics, Mood!Defends, Mood!Capped, Mood!Trends, Mood!Full, Mood!Above, Mood!AtLeast, Mood!Below, Mood!Absent
    <3> QED
      BY <2>2, SizeIs
  <2> QED
    BY <1>1, <1>3, <2>1, <2>2, <2>3
<1>4. ASSUME NEW r \in 10..15, Mood!Below(s.rvol, r) PROVE SizeAt([s EXCEPT !.rvol = r]) <= SizeAt(s)
  <2>1. [s EXCEPT !.rvol = r] = At(s.vix, s.hy, r, s.oi, s.funding)
    BY <1>1
  <2>2. r \in Int /\ [s EXCEPT !.rvol = r] \in Signal
    BY <1>1, <1>a, <2>1
  <2>3. /\ SizeAt(s) = IF Mood!Panics(s) THEN 4
                     ELSE IF Mood!Defends(s) THEN 7
                     ELSE IF ~Mood!Capped(s) /\ Mood!Trends(s) THEN 12 ELSE 10
        /\ LET t == [s EXCEPT !.rvol = r]
           IN  SizeAt(t) = IF Mood!Panics(t) THEN 4
                     ELSE IF Mood!Defends(t) THEN 7
                     ELSE IF ~Mood!Capped(t) /\ Mood!Trends(t) THEN 12 ELSE 10
    <3> HIDE DEF Mood!Panics, Mood!Defends, Mood!Capped, Mood!Trends, Mood!Full, Mood!Above, Mood!AtLeast, Mood!Below, Mood!Absent
    <3> QED
      BY <2>2, SizeIs
  <2> QED
    BY <1>1, <1>4, <2>1, <2>2, <2>3
<1>5. ASSUME NEW o \in -1..1, Mood!Above(s.oi, o) PROVE SizeAt([s EXCEPT !.oi = o]) <= SizeAt(s)
  <2>1. [s EXCEPT !.oi = o] = At(s.vix, s.hy, s.rvol, o, s.funding)
    BY <1>1
  <2>2. o \in Int /\ [s EXCEPT !.oi = o] \in Signal
    BY <1>1, <1>a, <2>1
  <2>3. /\ SizeAt(s) = IF Mood!Panics(s) THEN 4
                     ELSE IF Mood!Defends(s) THEN 7
                     ELSE IF ~Mood!Capped(s) /\ Mood!Trends(s) THEN 12 ELSE 10
        /\ LET t == [s EXCEPT !.oi = o]
           IN  SizeAt(t) = IF Mood!Panics(t) THEN 4
                     ELSE IF Mood!Defends(t) THEN 7
                     ELSE IF ~Mood!Capped(t) /\ Mood!Trends(t) THEN 12 ELSE 10
    <3> HIDE DEF Mood!Panics, Mood!Defends, Mood!Capped, Mood!Trends, Mood!Full, Mood!Above, Mood!AtLeast, Mood!Below, Mood!Absent
    <3> QED
      BY <2>2, SizeIs
  <2> QED
    BY <1>1, <1>5, <2>1, <2>2, <2>3
<1>6. ASSUME NEW f \in -3..1, Mood!Above(s.funding, f) PROVE SizeAt([s EXCEPT !.funding = f]) <= SizeAt(s)
  <2>1. [s EXCEPT !.funding = f] = At(s.vix, s.hy, s.rvol, s.oi, f)
    BY <1>1
  <2>2. f \in Int /\ [s EXCEPT !.funding = f] \in Signal
    BY <1>1, <1>a, <2>1
  <2>3. /\ SizeAt(s) = IF Mood!Panics(s) THEN 4
                     ELSE IF Mood!Defends(s) THEN 7
                     ELSE IF ~Mood!Capped(s) /\ Mood!Trends(s) THEN 12 ELSE 10
        /\ LET t == [s EXCEPT !.funding = f]
           IN  SizeAt(t) = IF Mood!Panics(t) THEN 4
                     ELSE IF Mood!Defends(t) THEN 7
                     ELSE IF ~Mood!Capped(t) /\ Mood!Trends(t) THEN 12 ELSE 10
    <3> HIDE DEF Mood!Panics, Mood!Defends, Mood!Capped, Mood!Trends, Mood!Full, Mood!Above, Mood!AtLeast, Mood!Below, Mood!Absent
    <3> QED
      BY <2>2, SizeIs
  <2> QED
    BY <1>1, <1>6, <2>1, <2>2, <2>3
<1> HIDE DEF Mood!Panics, Mood!Defends, Mood!Capped, Mood!Trends, Mood!Full, Mood!Above, Mood!AtLeast, Mood!Below, Mood!Absent
<1> QED
  BY <1>2, <1>3, <1>4, <1>5, <1>6 DEF Mood!NeverBolder, SizeAt

-----------------------------------------------------------------------------
(* Paging: windows of open interest.                                            *)
Windowed == [start : Nat, end : Nat]
EndOf(start, until) == IF start + 29 <= until THEN start + 29 ELSE until
Covers(w, d) == w.start <= d /\ d <= w.end
WindowsFrom(until, f) ==
    f = [start \in Nat |->
           IF start >= until THEN <<>>
           ELSE <<[start |-> start, end |-> EndOf(start, until)]>> \o f[Mood!NextWindow(start, until)]]

LEMMA WindowOf ==
  ASSUME NEW start \in Nat, NEW until \in Nat, ~(start >= until)
  PROVE  /\ EndOf(start, until) \in Nat /\ start <= EndOf(start, until) /\ EndOf(start, until) <= until
         /\ Mood!NextWindow(start, until) = EndOf(start, until) + 1
         /\ Mood!NextWindow(start, until) \in Nat
         /\ [start |-> start, end |-> EndOf(start, until)] \in Windowed
  BY DEF EndOf, Mood!NextWindow, Windowed

LEMMA WindowsExist ==
  ASSUME NEW until \in Nat
  PROVE  \E f \in [Nat -> Seq(Windowed)] : WindowsFrom(until, f)
<1> DEFINE V == Seq(Windowed)
           stop == {x \in Nat : x >= until}
           base == [x \in Nat |-> <<>>]
           next == [x \in Nat |-> IF x >= until THEN x ELSE Mood!NextWindow(x, until)]
           one(x) == <<[start |-> x, end |-> EndOf(x, until)]>>
           step == [x \in Nat \X V |-> IF x[1] >= until THEN <<>> ELSE one(x[1]) \o x[2]]
           measure == [x \in Nat |-> IF x >= until THEN 0 ELSE until - x]
<1>1. base \in [Nat -> V] /\ measure \in [Nat -> Nat]
  OBVIOUS
<1>2. next \in [Nat -> Nat]
  BY WindowOf
<1>3. step \in [Nat \X V -> V]
  <2> SUFFICES ASSUME NEW x \in Nat \X V PROVE (IF x[1] >= until THEN <<>> ELSE one(x[1]) \o x[2]) \in V
    OBVIOUS
  <2>1. x[1] \in Nat /\ x[2] \in V
    OBVIOUS
  <2>2. ~(x[1] >= until) => one(x[1]) \in V
    BY <2>1, WindowOf
  <2> HIDE DEF one
  <2> QED
    BY <2>1, <2>2
<1>4. \A x \in Nat \ stop : measure[next[x]] < measure[x]
  <2> SUFFICES ASSUME NEW x \in Nat, ~(x >= until) PROVE measure[next[x]] < measure[x]
    OBVIOUS
  <2>1. next[x] \in Nat /\ next[x] > x
    <3>1. /\ Mood!NextWindow(x, until) = EndOf(x, until) + 1 /\ x <= EndOf(x, until)
          /\ EndOf(x, until) \in Nat
      BY WindowOf
    <3>2. next[x] = Mood!NextWindow(x, until)
      OBVIOUS
    <3> HIDE DEF next
    <3> QED
      BY <3>1, <3>2
  <2>2. measure[next[x]] = IF next[x] >= until THEN 0 ELSE until - next[x]
    BY <2>1
  <2> HIDE DEF next
  <2> QED
    BY <2>1, <2>2
<1>5. ASSUME NEW x \in Nat, NEW v \in V, ~(x >= until) PROVE step[<<x, v>>] = one(x) \o v
  <2>1. <<x, v>> \in Nat \X V
    OBVIOUS
  <2> HIDE DEF one, V
  <2> QED
    BY <1>5, <2>1
<1> HIDE DEF V, step, measure
<1>6. PICK f \in [Nat -> V] : \A x \in Nat : f[x] = IF x \in stop THEN base[x] ELSE step[<<x, f[next[x]]>>]
  <2>1. Descends(Nat, V, stop, base, next, step, measure)
    BY <1>1, <1>2, <1>3, <1>4 DEF Descends
  <2> HIDE DEF stop, base, next
  <2> QED
    BY <2>1, Recursion
<1>7. ASSUME NEW x \in Nat
      PROVE  f[x] = IF x >= until THEN <<>> ELSE one(x) \o f[Mood!NextWindow(x, until)]
  <2>1. CASE x >= until
    BY <1>6, <2>1
  <2>2. CASE ~(x >= until)
    <3>1. next[x] = Mood!NextWindow(x, until) /\ next[x] \in Nat
      BY <1>2, <2>2
    <3>2. f[x] = step[<<x, f[next[x]]>>]
      BY <1>6, <2>2
    <3>3. f[next[x]] \in V
      BY <1>6, <3>1
    <3> HIDE DEF next, one
    <3> QED
      BY <1>5, <2>2, <3>1, <3>2, <3>3
  <2> QED
    BY <2>1, <2>2
<1>8. f = [x \in Nat |-> IF x >= until THEN <<>> ELSE one(x) \o f[Mood!NextWindow(x, until)]]
  BY <1>6, <1>7
<1> QED
  BY <1>6, <1>8 DEF WindowsFrom, V

(* Whose window a day is in: of one at most, and of one from the start on.      *)
Once(w, d) == \A i, j \in DOMAIN w : Covers(w[i], d) /\ Covers(w[j], d) => i = j
Split(w, start, until) ==
    /\ \A i \in DOMAIN w : w[i].start >= start
    /\ \A d \in Nat : Once(w, d)
    /\ \A d \in Nat : start <= d /\ d < until => \E i \in DOMAIN w : Covers(w[i], d)

LEMMA SplitMore ==
  ASSUME NEW w \in Seq(Windowed), NEW one \in Windowed, NEW until \in Nat,
         one.start <= one.end, Split(w, one.end + 1, until)
  PROVE  Split(<<one>> \o w, one.start, until)
<1> DEFINE u == <<one>> \o w
           n == Len(w)
<1>1. n \in Nat /\ Len(u) = n + 1 /\ DOMAIN u = 1 .. n + 1 /\ DOMAIN w = 1 .. n
      /\ u[1] = one /\ \A i \in 2 .. n + 1 : u[i] = w[i - 1]
  OBVIOUS
<1>2. \A i \in 1 .. n : w[i] \in Windowed
  OBVIOUS
<1>3. /\ one.start \in Nat /\ one.end \in Nat
      /\ \A i \in 1 .. n : w[i].start \in Nat /\ w[i].end \in Nat
  BY <1>2 DEF Windowed
<1>4. /\ \A i \in 1 .. n : w[i].start >= one.end + 1
      /\ \A d \in Nat : Once(w, d)
      /\ \A d \in Nat : one.end + 1 <= d /\ d < until => \E i \in 1 .. n : Covers(w[i], d)
  BY <1>1 DEF Split
<1> HIDE DEF u, n
<1>5. \A i \in 1 .. n + 1 : i = 1 \/ (i \in 2 .. n + 1 /\ i - 1 \in 1 .. n)
  BY <1>1
<1>6. ASSUME NEW i \in 1 .. n + 1 PROVE u[i].start >= one.start
  <2>1. i \in 2 .. n + 1 => u[i].start >= one.end + 1 /\ u[i].start \in Nat
    BY <1>1, <1>3, <1>4, <1>5
  <2> QED
    BY <1>1, <1>3, <1>5, <2>1
<1>7. ASSUME NEW d \in Nat, NEW i \in 1 .. n + 1, NEW j \in 1 .. n + 1, Covers(u[i], d), Covers(u[j], d) PROVE i = j
  <2>1. ASSUME NEW k \in 1 .. n, Covers(w[k], d), Covers(one, d) PROVE FALSE
    BY <1>3, <1>4, <2>1 DEF Covers
  <2>2. CASE i = 1 \/ j = 1
    BY <1>1, <1>5, <1>7, <2>1, <2>2
  <2>3. CASE i \in 2 .. n + 1 /\ j \in 2 .. n + 1
    <3>1. i - 1 \in 1 .. n /\ j - 1 \in 1 .. n /\ Covers(w[i - 1], d) /\ Covers(w[j - 1], d)
      BY <1>1, <1>7, <2>3
    <3>2. i - 1 = j - 1
      BY <1>1, <1>4, <3>1 DEF Once
    <3> QED
      BY <3>2
  <2> QED
    BY <1>5, <2>2, <2>3
<1>8. ASSUME NEW d \in Nat, one.start <= d, d < until PROVE \E i \in 1 .. n + 1 : Covers(u[i], d)
  <2>1. CASE d <= one.end
    <3>1. Covers(u[1], d) /\ 1 \in 1 .. n + 1
      BY <1>1, <1>8, <2>1 DEF Covers
    <3> QED
      BY <3>1
  <2>2. CASE ~(d <= one.end)
    <3>1. one.end + 1 <= d
      BY <1>3, <2>2
    <3>2. PICK i \in 1 .. n : Covers(w[i], d)
      BY <1>4, <1>8, <3>1
    <3>3. i + 1 \in 2 .. n + 1 /\ i + 1 \in 1 .. n + 1 /\ (i + 1) - 1 = i
      BY <1>1
    <3>4. Covers(u[i + 1], d)
      BY <1>1, <3>2, <3>3
    <3> QED
      BY <3>3, <3>4
  <2> QED
    BY <2>1, <2>2
<1>9. \A d \in Nat : Once(u, d)
  BY <1>1, <1>7 DEF Once
<1> QED
  BY <1>1, <1>6, <1>8, <1>9 DEF Split, u

LEMMA WindowsSplit ==
  ASSUME NEW until \in Nat
  PROVE  Mood!OiWindows(0, until) \in Seq(Windowed) /\ Split(Mood!OiWindows(0, until), 0, until)
<1> DEFINE windows == CHOOSE f : WindowsFrom(until, f)
<1>1. WindowsFrom(until, windows)
  BY WindowsExist
<1>2. Mood!OiWindows(0, until) = windows[0]
  BY DEF Mood!OiWindows, WindowsFrom, EndOf
<1> HIDE DEF windows
<1>3. \A x \in Nat : windows[x] = IF x >= until THEN <<>>
                                  ELSE <<[start |-> x, end |-> EndOf(x, until)]>> \o windows[Mood!NextWindow(x, until)]
  BY <1>1 DEF WindowsFrom
<1> DEFINE Good(x) == windows[x] \in Seq(Windowed) /\ Split(windows[x], x, until)
           T == {k \in Nat : \A x \in Nat : x + k >= until => Good(x)}
<1>4. ASSUME NEW x \in Nat, x >= until PROVE Good(x)
  <2>1. windows[x] = <<>>
    BY <1>3, <1>4
  <2>2. DOMAIN <<>> = {} /\ <<>> \in Seq(Windowed)
    OBVIOUS
  <2>3. Split(<<>>, x, until)
    BY <1>4, <2>2 DEF Split, Once
  <2> QED
    BY <2>1, <2>2, <2>3
<1>5. 0 \in T
  BY <1>4
<1>6. ASSUME NEW k \in Nat, k \in T PROVE k + 1 \in T
  <2> SUFFICES ASSUME NEW x \in Nat, x + (k + 1) >= until PROVE Good(x)
    OBVIOUS
  <2>1. CASE x >= until
    BY <1>4, <2>1
  <2>2. CASE ~(x >= until)
    <3> DEFINE e == EndOf(x, until)
               y == Mood!NextWindow(x, until)
               one == [start |-> x, end |-> e]
    <3>1. e \in Nat /\ x <= e /\ y = e + 1 /\ y \in Nat /\ one \in Windowed
      BY <2>2, WindowOf
    <3>2. one.start = x /\ one.end = e
      OBVIOUS
    <3>3. windows[x] = <<one>> \o windows[y]
      BY <1>3, <2>2
    <3> HIDE DEF e, y, one
    <3>4. y + k >= until
      BY <3>1
    <3>5. Good(y)
      BY <1>6, <3>1, <3>4
    <3>6. Split(<<one>> \o windows[y], one.start, until)
      BY <3>1, <3>2, <3>5, SplitMore
    <3>7. <<one>> \o windows[y] \in Seq(Windowed)
      BY <3>1, <3>5
    <3> QED
      BY <3>2, <3>3, <3>6, <3>7
  <2> QED
    BY <2>1, <2>2
<1>7. Nat \subseteq T
  <2> HIDE DEF T
  <2> QED
    BY <1>5, <1>6, Induction
<1>8. Good(0)
  <2>1. 0 + until >= until
    OBVIOUS
  <2> HIDE DEF Good
  <2> QED
    BY <1>7, <2>1
<1> QED
  BY <1>2, <1>8

(* Each day's open interest is added up once (fetch_binance_oi).                *)
THEOREM EachDayOnce == \A days \in Nat : Mood!DaysOnce(days)
<1> SUFFICES ASSUME NEW days \in Nat PROVE Mood!DaysOnce(days)
  OBVIOUS
<1> DEFINE windows == Mood!OiWindows(0, days)
           Of(d) == {i \in DOMAIN windows : windows[i].start <= d /\ d <= windows[i].end}
<1>1. ASSUME NEW d \in 0 .. days
      PROVE  Cardinality(Of(d)) = 1 \/ (Cardinality(Of(d)) = 0 /\ d = days)
  <2>1. Split(windows, 0, days) /\ d \in Nat
    BY WindowsSplit
  <2> HIDE DEF windows
  <2>2. \A i, j \in Of(d) : i = j
    BY <2>1 DEF Split, Once, Covers
  <2>3. d < days => Of(d) # {}
    BY <2>1 DEF Split, Covers
  <2>4. Of(d) = {} \/ \E i : Of(d) = {i}
    BY <2>2
  <2>5. Of(d) = {} => Cardinality(Of(d)) = 0
    BY FS_EmptySet
  <2>6. (\E i : Of(d) = {i}) => Cardinality(Of(d)) = 1
    <3> HIDE DEF Of
    <3> QED
      BY FS_Singleton
  <2>7. d < days \/ d = days
    OBVIOUS
  <2> HIDE DEF Of
  <2> QED
    BY <2>3, <2>4, <2>5, <2>6, <2>7
<1>2. Mood!DaysOnce(days) <=>
        \A d \in 0 .. days : Cardinality(Of(d)) = 1 \/ (Cardinality(Of(d)) = 0 /\ d = days)
  <2>1. \A S : Mood!Cardinality(S) = Cardinality(S)
    BY DEF Mood!Cardinality, Cardinality
  <2>2. Mood!DaysOnce(days) <=>
          \A d \in 0 .. days : Mood!Cardinality(Of(d)) = 1 \/ (Mood!Cardinality(Of(d)) = 0 /\ d = days)
    BY DEF Mood!DaysOnce
  <2> HIDE DEF Of
  <2> QED
    BY <2>1, <2>2
<1> HIDE DEF Of
<1> QED
  BY <1>1, <1>2

-----------------------------------------------------------------------------
(* Paging: rates.                                                               *)
UpTo(since, until) == IF since + 30 <= until THEN since + 30 ELSE until
WindowAt(times, since, until) == Mood!Between(times, since, UpTo(since, until))
FirstOf(s, limit) == IF Len(s) <= limit THEN Len(s) ELSE limit
PageAt(times, since, until, limit) ==
    SubSeq(WindowAt(times, since, until), 1, FirstOf(WindowAt(times, since, until), limit))
PagesFrom(times, until, limit, f) ==
    f = [since \in Nat |->
           IF since >= until \/ PageAt(times, since, until, limit) = <<>> THEN <<>>
           ELSE IF PageAt(times, since, until, limit)[Len(PageAt(times, since, until, limit))] <= since
                THEN PageAt(times, since, until, limit)
                ELSE PageAt(times, since, until, limit)
                       \o f[Mood!NextFunding(PageAt(times, since, until, limit), since)]]

(* A page is the window's rates up to its last one.                             *)
LEMMA PageIs ==
  ASSUME NEW times, Dated(times), NEW since \in Nat, NEW until \in Nat, NEW limit \in Nat \ {0}
  PROVE  LET window == WindowAt(times, since, until)
             page == PageAt(times, since, until, limit)
             last == page[Len(page)]
         IN  /\ Dated(window) /\ Elements(window) = Elements(times) \cap (since .. UpTo(since, until))
             /\ Dated(page)
             /\ page = <<>> <=> window = <<>>
             /\ page # <<>> => /\ last \in Nat /\ last \in Elements(window) /\ since <= last /\ last <= UpTo(since, until)
                               /\ Elements(page) = {x \in Elements(window) : x <= last}
             /\ Len(page) < limit => page = window
<1> DEFINE window == WindowAt(times, since, until)
           page == PageAt(times, since, until, limit)
           last == page[Len(page)]
           k == FirstOf(window, limit)
<1>0. UpTo(since, until) \in Int
  BY DEF UpTo
<1>1. Dated(window) /\ Elements(window) = Elements(times) \cap (since .. UpTo(since, until))
  BY <1>0, BetweenDates DEF WindowAt
<1>2. page = SubSeq(window, 1, k)
  BY DEF PageAt
<1> HIDE DEF window, page
<1>3. /\ window \in Seq(Nat) /\ Len(window) \in Nat /\ (\A i \in 1 .. Len(window) : window[i] \in Nat)
      /\ \A i, j \in 1 .. Len(window) : i < j => window[i] < window[j]
  BY <1>1, DatedIs
<1>4. k \in Nat /\ k <= Len(window) /\ (k = 0 <=> Len(window) = 0) /\ (k < limit => k = Len(window))
  BY <1>3 DEF FirstOf
<1> HIDE DEF k
<1>5. /\ Climbs(Int, Itself, page) /\ Len(page) = k
      /\ \A i \in 1 .. k : page[i] = window[i]
      /\ Elements(page) = {window[i] : i \in 1 .. k}
  <2>1. /\ Climbs(Int, Itself, SubSeq(window, 1, k)) /\ Len(SubSeq(window, 1, k)) = k + 1 - 1
        /\ \A i \in 1 .. k + 1 - 1 : SubSeq(window, 1, k)[i] = window[1 + i - 1]
        /\ Elements(SubSeq(window, 1, k)) = {window[i] : i \in 1 .. k}
    <3>1. Climbs(Int, Itself, window) /\ 1 \in Nat \ {0} /\ 1 <= k + 1
      BY <1>1, <1>4 DEF Dated
    <3> QED
      BY <1>4, <3>1, RisingPart
  <2>2. k + 1 - 1 = k /\ \A i \in 1 .. k : 1 + i - 1 = i
    BY <1>4
  <2> QED
    BY <1>2, <2>1, <2>2
<1>6. Dated(page)
  <2>1. page \in Seq(Nat)
    BY <1>2, <1>3, <1>4
  <2> QED
    BY <1>5, <2>1 DEF Dated
<1>7. page = <<>> <=> window = <<>>
  <2>1. page \in Seq(Nat)
    BY <1>6 DEF Dated
  <2> QED
    BY <1>3, <1>4, <1>5, <2>1
<1>8. ASSUME page # <<>>
      PROVE  /\ last \in Nat /\ last \in Elements(window) /\ since <= last /\ last <= UpTo(since, until)
             /\ Elements(page) = {x \in Elements(window) : x <= last}
  <2>1. page \in Seq(Nat)
    BY <1>6 DEF Dated
  <2>2. k \in 1 .. k /\ k \in 1 .. Len(window)
    BY <1>3, <1>4, <1>5, <1>8, <2>1
  <2>3. last = window[k]
    BY <1>5, <2>2
  <2> HIDE DEF last
  <2>4. last \in Nat /\ last \in Elements(window)
    BY <1>3, <2>2, <2>3 DEF Elements
  <2>5. since <= last /\ last <= UpTo(since, until)
    BY <1>0, <1>1, <2>4
  <2>6. \A i \in 1 .. Len(window) : window[i] <= last <=> i <= k
    <3> TAKE i \in 1 .. Len(window)
    <3>1. i < k \/ i = k \/ k < i
      BY <1>4
    <3> QED
      BY <1>3, <1>4, <2>2, <2>3, <3>1
  <2>7. ASSUME NEW x PROVE x \in {window[i] : i \in 1 .. k} <=> x \in Elements(window) /\ x <= last
    <3>1. \A i \in 1 .. k : i \in 1 .. Len(window) /\ i <= k
      BY <1>3, <1>4
    <3>2. \A i \in 1 .. Len(window) : i <= k => i \in 1 .. k
      BY <1>4
    <3> QED
      BY <2>6, <3>1, <3>2 DEF Elements
  <2> QED
    BY <1>5, <2>4, <2>5, <2>7
<1>9. Len(page) < limit => page = window
  <2>1. k = Len(window) => SubSeq(window, 1, k) = window
    BY <1>3
  <2> QED
    BY <1>2, <1>4, <1>5, <2>1
<1> QED
  BY <1>1, <1>6, <1>7, <1>8, <1>9 DEF window, page

LEMMA PagesExist ==
  ASSUME NEW times, Dated(times), NEW until \in Nat, NEW limit \in Nat \ {0}
  PROVE  \E f \in [Nat -> Seq(Nat)] : PagesFrom(times, until, limit, f)
<1> DEFINE V == Seq(Nat)
           page(x) == PageAt(times, x, until, limit)
           last(x) == page(x)[Len(page(x))]
           ends(x) == x >= until \/ page(x) = <<>>
           stop == {x \in Nat : ends(x) \/ last(x) <= x}
           base == [x \in Nat |-> IF ends(x) THEN <<>> ELSE page(x)]
           next == [x \in Nat |-> IF ends(x) \/ last(x) <= x THEN x ELSE Mood!NextFunding(page(x), x)]
           step == [x \in Nat \X V |-> page(x[1]) \o x[2]]
           measure == [x \in Nat |-> IF x >= until THEN 0 ELSE until - x]
<1>1. ASSUME NEW x \in Nat
      PROVE  page(x) \in V /\ (page(x) # <<>> => last(x) \in Nat)
  <2>1. Dated(page(x)) /\ (page(x) # <<>> => last(x) \in Nat)
    BY PageIs
  <2> HIDE DEF page, last
  <2> QED
    BY <2>1 DEF Dated
<1> HIDE DEF page, V
<1>2. base \in [Nat -> V] /\ measure \in [Nat -> Nat] /\ step \in [Nat \X V -> V]
  <2>1. base \in [Nat -> V]
    <3>1. <<>> \in V
      BY DEF V
    <3> QED
      BY <1>1, <3>1
  <2>2. measure \in [Nat -> Nat]
    OBVIOUS
  <2>3. step \in [Nat \X V -> V]
    <3>1. \A a, b \in V : a \o b \in V
      BY DEF V
    <3>2. \A x \in Nat \X V : x[1] \in Nat /\ x[2] \in V
      OBVIOUS
    <3> QED
      BY <1>1, <3>1, <3>2
  <2> QED
    BY <2>1, <2>2, <2>3
<1>3. ASSUME NEW x \in Nat, ~(ends(x) \/ last(x) <= x)
      PROVE  next[x] = Mood!NextFunding(page(x), x) /\ next[x] \in Nat /\ next[x] > x
  <2>1. last(x) \in Nat /\ last(x) > x
    BY <1>1, <1>3
  <2>2. Mood!NextFunding(page(x), x) = last(x) + 1
    BY DEF Mood!NextFunding
  <2>3. next[x] = Mood!NextFunding(page(x), x)
    BY <1>3
  <2> HIDE DEF next, last
  <2> QED
    BY <2>1, <2>2, <2>3
<1>4. next \in [Nat -> Nat]
  <2> SUFFICES ASSUME NEW x \in Nat
               PROVE  (IF ends(x) \/ last(x) <= x THEN x ELSE Mood!NextFunding(page(x), x)) \in Nat
    OBVIOUS
  <2> QED
    BY <1>3
<1>5. \A x \in Nat \ stop : measure[next[x]] < measure[x]
  <2> SUFFICES ASSUME NEW x \in Nat, ~(ends(x) \/ last(x) <= x) PROVE measure[next[x]] < measure[x]
    OBVIOUS
  <2>1. next[x] \in Nat /\ next[x] > x /\ ~(x >= until)
    BY <1>3
  <2>2. measure[next[x]] = IF next[x] >= until THEN 0 ELSE until - next[x]
    BY <2>1
  <2> HIDE DEF next
  <2> QED
    BY <2>1, <2>2
<1>6. ASSUME NEW x \in Nat, NEW v \in V PROVE step[<<x, v>>] = page(x) \o v
  <2>1. <<x, v>> \in Nat \X V
    OBVIOUS
  <2> QED
    BY <2>1
<1> HIDE DEF step, measure, next
<1>7. PICK f \in [Nat -> V] : \A x \in Nat : f[x] = IF x \in stop THEN base[x] ELSE step[<<x, f[next[x]]>>]
  <2>1. Descends(Nat, V, stop, base, next, step, measure)
    BY <1>2, <1>4, <1>5 DEF Descends
  <2> HIDE DEF stop, base
  <2> QED
    BY <2>1, Recursion
<1>8. ASSUME NEW x \in Nat
      PROVE  f[x] = IF ends(x) THEN <<>> ELSE IF last(x) <= x THEN page(x)
                    ELSE page(x) \o f[Mood!NextFunding(page(x), x)]
  <2>1. CASE ends(x) \/ last(x) <= x
    <3>1. f[x] = base[x]
      BY <1>7, <2>1
    <3> QED
      BY <2>1, <3>1
  <2>2. CASE ~(ends(x) \/ last(x) <= x)
    <3>1. f[x] = step[<<x, f[next[x]]>>]
      BY <1>7, <2>2
    <3>2. next[x] = Mood!NextFunding(page(x), x) /\ next[x] \in Nat /\ f[next[x]] \in V
      BY <1>3, <1>7, <2>2
    <3> QED
      BY <1>6, <2>2, <3>1, <3>2
  <2> QED
    BY <2>1, <2>2
<1>9. f = [x \in Nat |-> IF ends(x) THEN <<>> ELSE IF last(x) <= x THEN page(x)
                         ELSE page(x) \o f[Mood!NextFunding(page(x), x)]]
  BY <1>7, <1>8
<1> QED
  BY <1>7, <1>9 DEF PagesFrom, page, V

(* Rates that come at least two and at most thirty days apart.                  *)
Spaced(times) ==
    /\ \A x, y \in Elements(times) : x < y => x + 2 <= y /\ \E z \in Elements(times) : x < z /\ z <= x + 30 /\ z <= y
    /\ \A y \in Elements(times) : \E z \in Elements(times) : z <= 30 /\ z <= y

(* The first rate from the start of a page, if any is left, is within a window. *)
LEMMA NextIsNear ==
  ASSUME NEW times, Dated(times), Spaced(times), NEW since \in Nat,
         since = 0 \/ since - 1 \in Elements(times),
         NEW y \in Elements(times), since <= y
  PROVE  \E z \in Elements(times) : since <= z /\ z <= since + 30 /\ z <= y
<1>0. Elements(times) \subseteq Nat
  <2>1. times \in Seq(Nat)
    BY DEF Dated
  <2> QED
    BY <2>1, ElementsIn
<1>1. CASE since = 0
  <2>1. PICK z \in Elements(times) : z <= 30 /\ z <= y
    BY DEF Spaced
  <2> QED
    BY <1>0, <1>1, <2>1
<1>2. CASE since - 1 \in Elements(times)
  <2>1. since - 1 < y
    BY <1>0
  <2>2. PICK z \in Elements(times) : since - 1 < z /\ z <= (since - 1) + 30 /\ z <= y
    BY <1>2, <2>1 DEF Spaced
  <2> QED
    BY <1>0, <2>2
<1> QED
  BY <1>1, <1>2

LEMMA PagesRest ==
  ASSUME NEW times, Dated(times), Spaced(times), NEW until \in Nat \ {0}, NEW limit \in Nat, limit >= 2
  PROVE  /\ Dated(Mood!FundingPages(times, 0, until, limit))
         /\ Elements(Mood!FundingPages(times, 0, until, limit)) = Elements(times) \cap (0 .. until)
<1> DEFINE pages == CHOOSE f : PagesFrom(times, until, limit, f)
           page(x) == PageAt(times, x, until, limit)
           last(x) == page(x)[Len(page(x))]
           E == Elements(times)
<1>0. E \subseteq Nat /\ limit \in Nat \ {0}
  <2>1. times \in Seq(Nat)
    BY DEF Dated
  <2> QED
    BY <2>1, ElementsIn
<1>1. PagesFrom(times, until, limit, pages)
  BY <1>0, PagesExist
<1>2. Mood!FundingPages(times, 0, until, limit) = pages[0]
  BY DEF Mood!FundingPages, PagesFrom, PageAt, WindowAt, UpTo, FirstOf
<1> HIDE DEF pages
<1>3. \A x \in Nat : pages[x] = IF x >= until \/ page(x) = <<>> THEN <<>> ELSE IF last(x) <= x THEN page(x)
                    ELSE page(x) \o pages[Mood!NextFunding(page(x), x)]
  BY <1>1 DEF PagesFrom
<1>4. ASSUME NEW x \in Nat
      PROVE  LET window == WindowAt(times, x, until)
             IN  /\ Dated(window) /\ Elements(window) = E \cap (x .. UpTo(x, until))
                 /\ Dated(page(x)) /\ (page(x) = <<>> <=> window = <<>>)
                 /\ page(x) # <<>> => /\ last(x) \in Nat /\ last(x) \in Elements(window)
                                      /\ x <= last(x) /\ last(x) <= UpTo(x, until)
                                      /\ Elements(page(x)) = {y \in Elements(window) : y <= last(x)}
                 /\ Len(page(x)) < limit => page(x) = window
  BY <1>0, PageIs
<1> HIDE DEF page
<1> DEFINE Near(x) == x = 0 \/ x - 1 \in E
           Good(x) == Near(x) => Dated(pages[x]) /\ Elements(pages[x]) = E \cap (x .. until)
           T == {k \in Nat : \A x \in Nat : x + k >= until => Good(x)}
<1>5. Dated(<<>>) /\ Elements(<<>>) = {}
  <2>1. Itself \in [Int -> Int]
    BY DEF Itself
  <2> QED
    BY <2>1 DEF Dated, Climbs, Rising, Elements
<1>6. ASSUME NEW x \in Nat, x >= until PROVE Good(x)
  <2> SUFFICES ASSUME Near(x) PROVE Dated(pages[x]) /\ Elements(pages[x]) = E \cap (x .. until)
    OBVIOUS
  <2>1. pages[x] = <<>>
    BY <1>3, <1>6
  <2>2. x - 1 \in E
    BY <1>6
  <2>3. ASSUME NEW y \in E \cap (x .. until) PROVE FALSE
    <3>1. y = x /\ x - 1 < y /\ y \in Nat
      BY <1>0, <1>6
    <3>2. (x - 1) + 2 <= y
      BY <2>2, <3>1 DEF Spaced
    <3> QED
      BY <3>1, <3>2
  <2> QED
    BY <1>5, <2>1, <2>3
<1>7. 0 \in T
  BY <1>6
<1>8. ASSUME NEW k \in Nat, k \in T PROVE k + 1 \in T
  <2> SUFFICES ASSUME NEW x \in Nat, x + (k + 1) >= until, Near(x)
               PROVE  Dated(pages[x]) /\ Elements(pages[x]) = E \cap (x .. until)
    OBVIOUS
  <2>1. CASE x >= until
    BY <1>6, <2>1
  <2>2. CASE ~(x >= until)
    <3> DEFINE window == WindowAt(times, x, until)
               p == page(x)
               l == last(x)
               to == UpTo(x, until)
    <3>0. to \in Nat /\ x <= to /\ to <= until /\ (to = until \/ to = x + 30)
      BY <2>2 DEF UpTo
    <3>1. /\ Dated(window) /\ Elements(window) = E \cap (x .. to)
          /\ Dated(p) /\ (p = <<>> <=> window = <<>>)
          /\ p # <<>> => /\ l \in Nat /\ l \in Elements(window) /\ x <= l /\ l <= to
                         /\ Elements(p) = {y \in Elements(window) : y <= l}
          /\ Len(p) < limit => p = window
      BY <1>4
    <3> HIDE DEF window, to
    <3>2. \A y \in E : x <= y => \E z \in E : x <= z /\ z <= x + 30 /\ z <= y
      BY NextIsNear
    <3>3. CASE p = <<>>
      <4>1. pages[x] = <<>>
        BY <1>3, <3>3
      <4>2. Elements(window) = {}
        BY <1>5, <3>1, <3>3
      <4>3. ASSUME NEW y \in E \cap (x .. until) PROVE FALSE
        <5>1. y \in Nat /\ x <= y /\ y <= until
          BY <1>0
        <5>2. PICK z \in E : x <= z /\ z <= x + 30 /\ z <= y
          BY <3>2, <5>1
        <5>3. z \in Nat /\ z \in x .. to
          BY <1>0, <3>0, <5>1, <5>2
        <5> QED
          BY <3>1, <4>2, <5>2, <5>3
      <4> QED
        BY <1>5, <4>1, <4>3
    <3>4. CASE p # <<>> /\ l <= x
      <4>1. pages[x] = p
        BY <1>3, <2>2, <3>4
      <4>2. l = x /\ l \in Nat
        BY <3>1, <3>4
      <4>3. Elements(p) = {x} /\ x \in E
        <5>1. \A y \in Elements(window) : y \in Nat /\ x <= y
          BY <1>0, <3>1
        <5> HIDE DEF l
        <5> QED
          BY <3>1, <3>4, <4>2, <5>1
      <4>4. Len(p) = 1
        <5>1. /\ Len(p) \in Nat /\ (\A i \in 1 .. Len(p) : p[i] \in Nat)
              /\ \A i, j \in 1 .. Len(p) : i < j => p[i] < p[j]
          BY <3>1, DatedIs
        <5>2. \A i \in 1 .. Len(p) : p[i] = x
          BY <4>3 DEF Elements
        <5>3. Len(p) # 0
          <6>1. p \in Seq(Nat)
            BY <3>1 DEF Dated
          <6> HIDE DEF p
          <6> QED
            BY <3>4, <6>1
        <5>4. ~(Len(p) >= 2)
          <6>1. Len(p) >= 2 => 1 \in 1 .. Len(p) /\ 2 \in 1 .. Len(p) /\ 1 < 2
            BY <5>1
          <6>2. Len(p) >= 2 => p[1] < p[2] /\ p[1] = x /\ p[2] = x
            BY <5>1, <5>2, <6>1
          <6>3. ~(x < x)
            OBVIOUS
          <6> QED
            BY <6>2, <6>3
        <5>5. Len(p) \in Nat
          BY <5>1
        <5> HIDE DEF p
        <5> QED
          BY <5>3, <5>4, <5>5
      <4>5. p = window
        BY <3>1, <4>4
      <4>6. ASSUME NEW y \in E \cap (x .. until) PROVE y = x
        <5> SUFFICES ASSUME y # x PROVE FALSE
          OBVIOUS
        <5>1. y \in Nat /\ x < y /\ y <= until
          BY <1>0
        <5>2. PICK z \in E : x < z /\ z <= x + 30 /\ z <= y
          BY <4>3, <5>1 DEF Spaced
        <5>3. z \in Nat /\ z \in x .. to
          BY <1>0, <3>0, <5>1, <5>2
        <5>4. z \in Elements(p)
          BY <3>1, <4>5, <5>2, <5>3
        <5> QED
          BY <4>3, <5>2, <5>4
      <4>7. x \in x .. until
        BY <2>2
      <4> QED
        BY <3>1, <4>1, <4>3, <4>6, <4>7
    <3>5. CASE p # <<>> /\ ~(l <= x)
      <4> DEFINE next == Mood!NextFunding(p, x)
      <4>0. l \in Nat /\ l > x /\ l \in E /\ l <= until /\ l <= to
        BY <1>0, <3>0, <3>1, <3>5
      <4>1. next = l + 1
        BY DEF Mood!NextFunding
      <4>2. pages[x] = p \o pages[next]
        BY <1>3, <2>2, <3>5
      <4> HIDE DEF next, l, p
      <4>3. next \in Nat /\ Near(next) /\ next + k >= until
        BY <4>0, <4>1
      <4>4. Dated(pages[next]) /\ Elements(pages[next]) = E \cap (next .. until)
        BY <1>8, <4>3
      <4>5. Elements(p) = E \cap (x .. l)
        BY <1>0, <3>0, <3>1, <3>5, <4>0
      <4>6. \A a \in Elements(p) : \A b \in Elements(pages[next]) : Itself[a] < Itself[b]
        <5>1. \A a \in Elements(p) : \A b \in Elements(pages[next]) : a \in Int /\ b \in Int /\ a < b
          BY <1>0, <4>0, <4>1, <4>4, <4>5
        <5> QED
          BY <5>1 DEF Itself
      <4>7. /\ Climbs(Int, Itself, p \o pages[next])
            /\ Elements(p \o pages[next]) = Elements(p) \cup Elements(pages[next])
        <5>1. Climbs(Int, Itself, p) /\ Climbs(Int, Itself, pages[next])
          BY <3>1, <4>4 DEF Dated
        <5> DEFINE q == pages[next]
        <5>2. Climbs(Int, Itself, p) /\ Climbs(Int, Itself, q)
              /\ Before(Itself, p, q)
          BY <4>6, <5>1 DEF Before
        <5> HIDE DEF q
        <5>3. Climbs(Int, Itself, p \o q) /\ Elements(p \o q) = Elements(p) \cup Elements(q)
          BY <5>2, RisingBoth
        <5> QED
          BY <5>3 DEF q
      <4>8. p \o pages[next] \in Seq(Nat)
        <5>1. p \in Seq(Nat) /\ pages[next] \in Seq(Nat)
          BY <3>1, <4>4 DEF Dated
        <5> QED
          BY <5>1
      <4>9. Elements(p) \cup Elements(pages[next]) = E \cap (x .. until)
        BY <1>0, <4>0, <4>1, <4>4, <4>5
      <4> QED
        BY <4>2, <4>7, <4>8, <4>9 DEF Dated
    <3> QED
      BY <3>3, <3>4, <3>5
  <2> QED
    BY <2>1, <2>2
<1>9. Nat \subseteq T
  <2> HIDE DEF T
  <2> QED
    BY <1>7, <1>8, Induction
<1>10. Good(0)
  <2>1. 0 + until >= until
    OBVIOUS
  <2> HIDE DEF Good
  <2> QED
    BY <1>9, <2>1
<1> QED
  BY <1>2, <1>10

(* Each funding rate is averaged once (fetch_binance_funding), when rates are   *)
(* at least two instants apart, none comes later than a window of thirty days   *)
(* after the one before, and a page has room for two.                           *)
THEOREM EachRateOnce ==
  ASSUME NEW in0, Dated(in0.times), Spaced(in0.times), in0.until \in Nat \ {0},
         in0.limit \in Nat, in0.limit >= 2
  PROVE  Mood!RatesOnce(in0)
<1> DEFINE got == Mood!FundingPages(in0.times, 0, in0.until, in0.limit)
           all == Mood!Between(in0.times, 0, in0.until)
<1>1. Dated(got) /\ Elements(got) = Elements(in0.times) \cap (0 .. in0.until)
  BY PagesRest
<1>2. Dated(all) /\ Elements(all) = Elements(in0.times) \cap (0 .. in0.until)
  <2>1. 0 \in Int /\ in0.until \in Int
    OBVIOUS
  <2> QED
    BY <2>1, BetweenDates
<1> HIDE DEF got, all
<1>3. got = all
  <2>1. Climbs(Int, Itself, got) /\ Climbs(Int, Itself, all)
    BY <1>1, <1>2 DEF Dated
  <2> QED
    BY <1>1, <1>2, <2>1, SameRising
<1> QED
  BY <1>3 DEF Mood!RatesOnce, got, all

-----------------------------------------------------------------------------
(* Sums. *)
TotalIn(s) ==
    CHOOSE iter : iter = [d \in SUBSET DOMAIN s |->
        IF d = {} THEN 0 ELSE iter[d \ {Max(d)}] + s[Max(d)]]
SumTo(s, n) == TotalIn(s)[1 .. n]

LEMMA TotalIs ==
  ASSUME NEW s \in Seq(Int)
  PROVE  Curve!Total(s) = SumTo(s, Len(s))
<1>1. DOMAIN s = 1 .. Len(s)
  OBVIOUS
<1> QED
  BY <1>1 DEF Curve!Total, Curve!FoldLeft, Curve!MapThenFoldSet, TotalIn, SumTo, Max, Curve!Max

LEMMA SumSteps ==
  ASSUME NEW s \in Seq(Int)
  PROVE  /\ SumTo(s, 0) = 0
         /\ \A m \in 1 .. Len(s) : SumTo(s, m) = SumTo(s, m - 1) + s[m]
         /\ \A m \in 0 .. Len(s) : SumTo(s, m) \in Int
<1> DEFINE n == Len(s)
           step == [x \in Int \X Nat |-> IF x[2] \in 1 .. n THEN x[1] + s[x[2]] ELSE x[1]]
           Is(f) == f = [d \in SUBSET DOMAIN s |-> IF d = {} THEN 0 ELSE f[d \ {Max(d)}] + s[Max(d)]]
<1>1. n \in Nat /\ DOMAIN s = 1 .. n /\ \A i \in 1 .. n : s[i] \in Int
  OBVIOUS
<1>3. step \in [Int \X Nat -> Int]
  <2> SUFFICES ASSUME NEW x \in Int \X Nat
               PROVE  (IF x[2] \in 1 .. n THEN x[1] + s[x[2]] ELSE x[1]) \in Int
    OBVIOUS
  <2>1. x[1] \in Int
    OBVIOUS
  <2> QED
    BY <1>1, <2>1
<1>4. \A w \in Int : \A i \in 1 .. n : step[<<w, i>>] = w + s[i]
  <2> TAKE w \in Int
  <2> TAKE i \in 1 .. n
  <2>1. <<w, i>> \in Int \X Nat
    BY <1>1
  <2> QED
    BY <2>1
<1> HIDE DEF n, step
<1>5. \E f : Is(f)
  <2>1. PICK f : Folds(f, Int, 0, step, n)
    <3> DEFINE W == Int
    <3>1. step \in [W \X Nat -> W] /\ 0 \in W
      BY <1>3
    <3> HIDE DEF W
    <3>2. \E f : Folds(f, W, 0, step, n)
      BY <1>1, <3>1, FoldExists
    <3> QED
      BY <3>2 DEF W
  <2>2. ASSUME NEW d \in SUBSET (1 .. n), d # {}
        PROVE  f[d] = f[d \ {Max(d)}] + s[Max(d)]
    <3>1. Max(d) \in 1 .. n
      BY <1>1, <2>2, MaxIs
    <3>2. f[d \ {Max(d)}] \in Int
      BY <2>1, Zenon DEF Folds
    <3>3. f[d] = step[<<f[d \ {Max(d)}], Max(d)>>]
      BY <2>1, <2>2, Zenon DEF Folds
    <3> QED
      BY <1>4, <3>1, <3>2, <3>3
  <2>3. /\ f = [d \in SUBSET (1 .. n) |-> f[d]]
        /\ \A d \in SUBSET (1 .. n) : d = {} => f[d] = 0
    BY <2>1, Zenon DEF Folds
  <2>4. Is(f)
    BY <1>1, <2>2, <2>3
  <2> HIDE DEF Is
  <2> QED
    BY <2>4
<1> DEFINE iter == TotalIn(s)
<1>6. iter = CHOOSE f : Is(f)
  BY DEF TotalIn
<1>7. Is(iter)
  <2> HIDE DEF Is, iter
  <2> QED
    BY <1>5, <1>6
<1> HIDE DEF iter
<1>8. iter[1 .. 0] = 0
  <2>1. 1 .. 0 = {}
    OBVIOUS
  <2> QED
    BY <1>7, <2>1
<1>9. ASSUME NEW m \in 1 .. n PROVE iter[1 .. m] = iter[1 .. m - 1] + s[m]
  <2>1. /\ 1 .. m \in SUBSET (1 .. n) /\ 1 .. m # {}
        /\ Max(1 .. m) = m /\ (1 .. m) \ {m} = 1 .. m - 1
    BY <1>1, MaxOfRange
  <2>2. iter[1 .. m] = iter[(1 .. m) \ {Max(1 .. m)}] + s[Max(1 .. m)]
    BY <1>1, <1>7, <2>1
  <2> QED
    BY <2>1, <2>2
<1> DEFINE T == {m \in Nat : m <= n => iter[1 .. m] \in Int}
<1>10. 0 \in T
  BY <1>8
<1>11. ASSUME NEW m \in Nat, m \in T PROVE m + 1 \in T
  <2> SUFFICES ASSUME m + 1 <= n PROVE iter[1 .. m + 1] \in Int
    OBVIOUS
  <2>1. m + 1 \in 1 .. n /\ (m + 1) - 1 = m /\ s[m + 1] \in Int
    BY <1>1
  <2>2. iter[1 .. m] \in Int
    BY <1>1, <1>11
  <2>3. iter[1 .. m + 1] = iter[1 .. m] + s[m + 1]
    BY <2>1, <1>9
  <2> QED
    BY <2>1, <2>2, <2>3
<1>12. Nat \subseteq T
  <2> HIDE DEF T
  <2> QED
    BY <1>10, <1>11, Induction
<1>13. \A m \in 0 .. n : iter[1 .. m] \in Int
  BY <1>12
<1> QED
  BY <1>8, <1>9, <1>13 DEF SumTo, iter, n

LEMMA TotalOf ==
  /\ Curve!Total(<<>>) = 0
  /\ \A s \in Seq(Int) : Curve!Total(s) \in Int
<1>1. \A s \in Seq(Int) : Len(s) \in 0 .. Len(s)
  OBVIOUS
<1>2. <<>> \in Seq(Int) /\ Len(<<>>) = 0
  OBVIOUS
<1> QED
  BY <1>1, <1>2, TotalIs, SumSteps

LEMMA TotalBoth ==
  ASSUME NEW s \in Seq(Int), NEW t \in Seq(Int)
  PROVE  Curve!Total(s \o t) = Curve!Total(s) + Curve!Total(t)
<1> DEFINE u == s \o t
           n == Len(s)
           k == Len(t)
<1>1. /\ n \in Nat /\ k \in Nat /\ u \in Seq(Int) /\ Len(u) = n + k
      /\ \A i \in 1 .. n : u[i] = s[i]
      /\ \A i \in 1 .. k : u[n + i] = t[i]
  OBVIOUS
<1>2. /\ SumTo(s, 0) = 0 /\ SumTo(t, 0) = 0 /\ SumTo(u, 0) = 0
      /\ \A m \in 1 .. n : SumTo(s, m) = SumTo(s, m - 1) + s[m]
      /\ \A m \in 1 .. k : SumTo(t, m) = SumTo(t, m - 1) + t[m]
      /\ \A m \in 1 .. n + k : SumTo(u, m) = SumTo(u, m - 1) + u[m]
      /\ \A m \in 0 .. n : SumTo(s, m) \in Int
      /\ \A m \in 0 .. k : SumTo(t, m) \in Int
  <2> HIDE DEF u
  <2> QED
    BY <1>1, SumSteps
<1>3. Curve!Total(s) = SumTo(s, n) /\ Curve!Total(t) = SumTo(t, k) /\ Curve!Total(u) = SumTo(u, n + k)
  <2> HIDE DEF u
  <2> QED
    BY <1>1, TotalIs
<1>t. (\A i \in 1 .. n : s[i] \in Int) /\ \A i \in 1 .. k : t[i] \in Int
  OBVIOUS
<1> HIDE DEF u, n, k
<1> DEFINE T == {m \in Nat : m <= n => SumTo(u, m) = SumTo(s, m)}
           U == {m \in Nat : m <= k => SumTo(u, n + m) = SumTo(s, n) + SumTo(t, m)}
<1>4. 0 \in T
  BY <1>2
<1>5. ASSUME NEW m \in Nat, m \in T PROVE m + 1 \in T
  <2> SUFFICES ASSUME m + 1 <= n PROVE SumTo(u, m + 1) = SumTo(s, m + 1)
    OBVIOUS
  <2>1. m + 1 \in 1 .. n /\ m + 1 \in 1 .. n + k /\ (m + 1) - 1 = m /\ m <= n
    BY <1>1
  <2> QED
    BY <1>1, <1>2, <1>5, <2>1
<1>6. Nat \subseteq T
  <2> HIDE DEF T
  <2> QED
    BY <1>4, <1>5, Induction
<1>7. 0 \in U
  <2>1. n \in 0 .. n /\ n + 0 = n /\ n <= n
    BY <1>1
  <2>2. SumTo(u, n) = SumTo(s, n) /\ SumTo(s, n) \in Int
    BY <1>1, <1>2, <1>6, <2>1
  <2> QED
    BY <1>2, <2>1, <2>2
<1>8. ASSUME NEW m \in Nat, m \in U PROVE m + 1 \in U
  <2> SUFFICES ASSUME m + 1 <= k PROVE SumTo(u, n + (m + 1)) = SumTo(s, n) + SumTo(t, m + 1)
    OBVIOUS
  <2>1. /\ m + 1 \in 1 .. k /\ n + (m + 1) \in 1 .. n + k /\ (n + (m + 1)) - 1 = n + m /\ (m + 1) - 1 = m
        /\ m <= k /\ m \in 0 .. k /\ n \in 0 .. n
    BY <1>1
  <2>2. SumTo(u, n + m) = SumTo(s, n) + SumTo(t, m) /\ SumTo(s, n) \in Int /\ SumTo(t, m) \in Int /\ t[m + 1] \in Int
    BY <1>2, <1>8, <2>1, <1>t
  <2>3. SumTo(u, n + (m + 1)) = SumTo(u, n + m) + t[m + 1] /\ SumTo(t, m + 1) = SumTo(t, m) + t[m + 1]
    BY <1>1, <1>2, <2>1
  <2> QED
    BY <2>2, <2>3
<1>9. Nat \subseteq U
  <2> HIDE DEF U
  <2> QED
    BY <1>7, <1>8, Induction
<1>10. SumTo(u, n + k) = SumTo(s, n) + SumTo(t, k)
  BY <1>1, <1>9
<1> QED
  BY <1>3, <1>10 DEF u

-----------------------------------------------------------------------------
(* The account's events.                                                        *)
Events == [time : Nat, type : {"pnl", "transfer", "other"}, amount : Int]
Time == [e \in Events |-> e.time]
Income(in0) ==
    /\ in0.events \in Seq(Events) /\ in0.equity \in Int
    /\ in0.start \in Nat /\ in0.end \in Nat /\ in0.limit \in Nat \ {0}

LEMMA EventParts ==
  ASSUME NEW e \in Events
  PROVE  e.time \in Nat /\ e.amount \in Int /\ Time[e] = e.time /\ Curve!Drives(e) \in Int
         /\ (e.type = "pnl" => Curve!Drives(e) = e.amount)
  BY DEF Events, Time, Curve!Drives

LEMMA ResultType ==
  ASSUME NEW s \in Seq(Events)
  PROVE  Curve!Result(s) \in Int
<1>1. [i \in DOMAIN s |-> Curve!Drives(s[i])] \in Seq(Int)
  <2>1. DOMAIN s = 1 .. Len(s) /\ Len(s) \in Nat /\ \A i \in 1 .. Len(s) : s[i] \in Events
    OBVIOUS
  <2>2. \A i \in 1 .. Len(s) : Curve!Drives(s[i]) \in Int
    BY <2>1, EventParts
  <2> QED
    BY <2>1, <2>2
<1> QED
  BY <1>1, TotalOf DEF Curve!Result

LEMMA Joined ==
  ASSUME NEW V, NEW s \in Seq(V), NEW t \in Seq(V), NEW u \in Seq(V), Len(u) = Len(s) + Len(t),
         \A i \in 1 .. Len(s) : u[i] = s[i], \A i \in 1 .. Len(t) : u[Len(s) + i] = t[i]
  PROVE  u = s \o t
<1>1. Len(s) \in Nat /\ Len(t) \in Nat /\ s \o t \in Seq(V) /\ Len(s \o t) = Len(u)
  OBVIOUS
<1>2. \A i \in 1 .. Len(u) : i \in 1 .. Len(s) \/ (i - Len(s) \in 1 .. Len(t) /\ Len(s) + (i - Len(s)) = i)
  BY <1>1
<1>3. \A i \in 1 .. Len(u) : u[i] = (s \o t)[i]
  <2> TAKE i \in 1 .. Len(u)
  <2>1. CASE i \in 1 .. Len(s)
    BY <2>1
  <2>2. CASE i - Len(s) \in 1 .. Len(t) /\ Len(s) + (i - Len(s)) = i
    <3>1. u[i] = t[i - Len(s)]
      BY <2>2
    <3> QED
      BY <1>1, <2>2, <3>1
  <2> QED
    BY <1>2, <2>1, <2>2
<1> DEFINE v == s \o t
<1>4. v \in Seq(V) /\ Len(v) = Len(u) /\ \A i \in 1 .. Len(u) : u[i] = v[i]
  BY <1>1, <1>3
<1> HIDE DEF v
<1>5. u = v
  BY <1>4
<1> QED
  BY <1>5 DEF v

\* The amounts of events, in their order.
Drive == [e \in Events |-> Curve!Drives(e)]
Drives(s) == [i \in 1 .. Len(s) |-> Drive[s[i]]]

LEMMA DrivesAre ==
  ASSUME NEW s \in Seq(Events)
  PROVE  /\ Drives(s) \in Seq(Int) /\ Len(Drives(s)) = Len(s)
         /\ \A i \in 1 .. Len(s) : Drives(s)[i] = Drive[s[i]]
         /\ Curve!Result(s) = Curve!Total(Drives(s))
<1>1. Len(s) \in Nat /\ DOMAIN s = 1 .. Len(s) /\ \A i \in 1 .. Len(s) : s[i] \in Events
  OBVIOUS
<1>2. \A e \in Events : Drive[e] = Curve!Drives(e) /\ Drive[e] \in Int
  BY EventParts DEF Drive
<1>3. Drives(s) \in Seq(Int) /\ Len(Drives(s)) = Len(s) /\ \A i \in 1 .. Len(s) : Drives(s)[i] = Drive[s[i]]
  BY <1>1, <1>2 DEF Drives
<1>4. Drives(s) = [i \in DOMAIN s |-> Curve!Drives(s[i])]
  BY <1>1, <1>2 DEF Drives
<1> QED
  BY <1>3, <1>4 DEF Curve!Result

LEMMA ResultBoth ==
  ASSUME NEW s \in Seq(Events), NEW t \in Seq(Events)
  PROVE  Curve!Result(s \o t) = Curve!Result(s) + Curve!Result(t)
<1>1. /\ Len(s) \in Nat /\ Len(t) \in Nat /\ s \o t \in Seq(Events) /\ Len(s \o t) = Len(s) + Len(t)
      /\ \A i \in 1 .. Len(s) : (s \o t)[i] = s[i] /\ i \in 1 .. Len(s \o t)
      /\ \A i \in 1 .. Len(t) : (s \o t)[Len(s) + i] = t[i] /\ Len(s) + i \in 1 .. Len(s \o t)
  OBVIOUS
<1>2. Drives(s \o t) = Drives(s) \o Drives(t)
  <2>1. /\ Drives(s) \in Seq(Int) /\ Drives(t) \in Seq(Int) /\ Drives(s \o t) \in Seq(Int)
        /\ Len(Drives(s)) = Len(s) /\ Len(Drives(t)) = Len(t) /\ Len(Drives(s \o t)) = Len(s \o t)
        /\ \A i \in 1 .. Len(s) : Drives(s)[i] = Drive[s[i]]
        /\ \A i \in 1 .. Len(t) : Drives(t)[i] = Drive[t[i]]
        /\ \A i \in 1 .. Len(s \o t) : Drives(s \o t)[i] = Drive[(s \o t)[i]]
    BY <1>1, DrivesAre
  <2>2. \A i \in 1 .. Len(Drives(s)) : Drives(s \o t)[i] = Drives(s)[i]
    <3> TAKE i \in 1 .. Len(Drives(s))
    <3>1. i \in 1 .. Len(s)
      BY <2>1
    <3>2. (s \o t)[i] = s[i] /\ i \in 1 .. Len(s \o t)
      BY <1>1, <3>1
    <3>3. Drives(s \o t)[i] = Drive[(s \o t)[i]] /\ Drives(s)[i] = Drive[s[i]]
      BY <2>1, <3>1, <3>2
    <3> QED
      BY <3>2, <3>3, Zenon
  <2>3. \A i \in 1 .. Len(Drives(t)) : Drives(s \o t)[Len(Drives(s)) + i] = Drives(t)[i]
    <3> TAKE i \in 1 .. Len(Drives(t))
    <3>1. i \in 1 .. Len(t)
      BY <2>1
    <3>2. (s \o t)[Len(s) + i] = t[i] /\ Len(s) + i \in 1 .. Len(s \o t)
      BY <1>1, <3>1
    <3>3. Drives(s \o t)[Len(s) + i] = Drive[(s \o t)[Len(s) + i]] /\ Drives(t)[i] = Drive[t[i]]
      BY <2>1, <3>1, <3>2, Zenon
    <3>4. Len(Drives(s)) = Len(s)
      BY <2>1
    <3> QED
      BY <3>2, <3>3, <3>4, Zenon
  <2>4. Len(Drives(s \o t)) = Len(Drives(s)) + Len(Drives(t))
    BY <1>1, <2>1
  <2> QED
    BY <2>1, <2>2, <2>3, <2>4, Joined
<1>3. Drives(s) \in Seq(Int) /\ Drives(t) \in Seq(Int)
  BY DrivesAre
<1> QED
  BY <1>1, <1>2, <1>3, DrivesAre, TotalBoth

LEMMA ResultOfOne ==
  ASSUME NEW e \in Events
  PROVE  Curve!Result(<<e>>) = Curve!Drives(e)
<1> DEFINE a == <<Curve!Drives(e)>>
<1>1. [i \in DOMAIN <<e>> |-> Curve!Drives(<<e>>[i])] = a
  OBVIOUS
<1>2. a \in Seq(Int) /\ Len(a) = 1 /\ a[1] = Curve!Drives(e) /\ Curve!Drives(e) \in Int
  BY EventParts
<1> HIDE DEF a
<1>3. SumTo(a, 0) = 0 /\ SumTo(a, 1) = SumTo(a, 0) + a[1]
  <2>1. 1 \in 1 .. 1 /\ 1 - 1 = 0
    OBVIOUS
  <2>2. SumTo(a, 0) = 0 /\ \A m \in 1 .. Len(a) : SumTo(a, m) = SumTo(a, m - 1) + a[m]
    BY <1>2, SumSteps
  <2> QED
    BY <1>2, <2>1, <2>2
<1>4. Curve!Total(a) = SumTo(a, 1)
  BY <1>2, TotalIs
<1> QED
  BY <1>1, <1>2, <1>3, <1>4 DEF Curve!Result

-----------------------------------------------------------------------------
(* Pages of income.                                                             *)

(* A rising sequence is no longer than one it is part of.                       *)
LEMMA NoLonger ==
  ASSUME NEW V, NEW key, NEW s, NEW t, Climbs(V, key, s), Climbs(V, key, t), Elements(s) \subseteq Elements(t)
  PROVE  Len(s) <= Len(t)
<1>0. /\ s \in Seq(V) /\ t \in Seq(V) /\ Len(s) \in Nat /\ Len(t) \in Nat
      /\ (\A i \in 1 .. Len(s) : s[i] \in V /\ key[s[i]] \in Int)
      /\ (\A i \in 1 .. Len(t) : t[i] \in V /\ key[t[i]] \in Int)
  BY DEF Climbs
<1>1. Rising(s, key) /\ Rising(t, key)
  BY DEF Climbs
<1>2. \A i \in 1 .. Len(s) : \E j \in 1 .. Len(t) : s[i] = t[j]
  BY DEF Elements
<1> DEFINE Late(i) == \A j \in 1 .. Len(t) : s[i] = t[j] => i <= j
           T == {m \in Nat : \A i \in 1 .. Len(s) : i <= m => Late(i)}
<1>3. 0 \in T
  BY <1>0
<1>4. ASSUME NEW m \in Nat, m \in T PROVE m + 1 \in T
  <2> SUFFICES ASSUME m + 1 \in 1 .. Len(s) PROVE Late(m + 1)
    BY <1>0, <1>4
  <2>1. CASE m = 0
    BY <1>0, <2>1
  <2>2. CASE m # 0
    <3>1. m \in 1 .. Len(s)
      BY <1>0, <2>2
    <3>2. PICK l \in 1 .. Len(t) : s[m] = t[l]
      BY <1>2, <3>1
    <3>3. m <= l
      BY <1>4, <3>1, <3>2
    <3> SUFFICES ASSUME NEW j \in 1 .. Len(t), s[m + 1] = t[j] PROVE m + 1 <= j
      OBVIOUS
    <3>4. key[t[l]] < key[t[j]]
      BY <1>1, <3>1, <3>2 DEF Rising
    <3>5. key[t[l]] \in Int /\ key[t[j]] \in Int
      BY <1>0
    <3>6. j < l => key[t[j]] < key[t[l]]
      BY <1>1 DEF Rising
    <3>7. l # j /\ ~(j < l)
      BY <3>4, <3>5, <3>6
    <3> QED
      BY <3>3, <3>7
  <2> QED
    BY <2>1, <2>2
<1>5. Nat \subseteq T
  <2> HIDE DEF T
  <2> QED
    BY <1>3, <1>4, Induction
<1>6. CASE Len(s) # 0
  <2>1. Len(s) \in 1 .. Len(s)
    BY <1>0, <1>6
  <2>2. PICK j \in 1 .. Len(t) : s[Len(s)] = t[j]
    BY <1>2, <2>1
  <2>3. Len(s) \in T /\ Len(s) <= Len(s)
    <3> HIDE DEF T
    <3> QED
      BY <1>0, <1>5
  <2>4. Len(s) <= j
    BY <2>1, <2>2, <2>3
  <2> QED
    BY <1>0, <2>4
<1> QED
  BY <1>0, <1>6

FirstOnes(s, limit) == SubSeq(s, 1, IF Len(s) < limit THEN Len(s) ELSE limit)
(* A page of a rising sequence is what it holds up to the page's last.          *)
LEMMA FirstPage ==
  ASSUME NEW V, NEW key, NEW s, Climbs(V, key, s), NEW limit \in Nat \ {0},
         NEW p, p = FirstOnes(s, limit)
  PROVE  /\ Climbs(V, key, p) /\ (p = <<>> <=> s = <<>>) /\ (Len(p) < limit => p = s)
         /\ (p # <<>> => /\ Len(p) >= 1 /\ p[Len(p)] \in Elements(s)
                         /\ Elements(p) = {x \in Elements(s) : key[x] <= key[p[Len(p)]]})
<1>1. /\ s \in Seq(V) /\ Len(s) \in Nat
      /\ (\A i \in 1 .. Len(s) : s[i] \in V /\ key[s[i]] \in Int)
      /\ \A i, j \in 1 .. Len(s) : i < j => key[s[i]] < key[s[j]]
  BY DEF Climbs, Rising
<1> DEFINE k == IF Len(s) < limit THEN Len(s) ELSE limit
<1>p. p = SubSeq(s, 1, k)
  BY DEF FirstOnes
<1>2. k \in Nat /\ k <= Len(s) /\ (k = 0 <=> Len(s) = 0) /\ (k < limit => k = Len(s))
  BY <1>1
<1> HIDE DEF k
<1>3. /\ Climbs(V, key, p) /\ Len(p) = k
      /\ \A i \in 1 .. k : p[i] = s[i]
      /\ Elements(p) = {s[i] : i \in 1 .. k}
  <2>1. /\ Climbs(V, key, SubSeq(s, 1, k)) /\ Len(SubSeq(s, 1, k)) = k + 1 - 1
        /\ \A i \in 1 .. k + 1 - 1 : SubSeq(s, 1, k)[i] = s[1 + i - 1]
        /\ Elements(SubSeq(s, 1, k)) = {s[i] : i \in 1 .. k}
    <3>1. 1 \in Nat \ {0} /\ 1 <= k + 1
      BY <1>2
    <3> QED
      BY <1>2, <3>1, RisingPart
  <2>2. k + 1 - 1 = k /\ \A i \in 1 .. k : 1 + i - 1 = i
    BY <1>2
  <2> QED
    BY <1>p, <2>1, <2>2
<1>4. p \in Seq(V)
  BY <1>3 DEF Climbs
<1>5. p = <<>> <=> s = <<>>
  BY <1>1, <1>2, <1>3, <1>4
<1>6. Len(p) < limit => p = s
  <2>1. k = Len(s) => SubSeq(s, 1, k) = s
    BY <1>1
  <2> QED
    BY <1>p, <1>2, <1>3, <2>1
<1>7. ASSUME p # <<>>
      PROVE  /\ Len(p) >= 1 /\ p[Len(p)] \in Elements(s)
             /\ Elements(p) = {x \in Elements(s) : key[x] <= key[p[Len(p)]]}
  <2>1. k \in 1 .. k /\ k \in 1 .. Len(s) /\ k >= 1
    BY <1>2, <1>3, <1>4, <1>7
  <2>2. p[Len(p)] = s[k]
    BY <1>3, <2>1
  <2>3. p[Len(p)] \in Elements(s)
    BY <2>1, <2>2 DEF Elements
  <2>4. \A i \in 1 .. Len(s) : key[s[i]] <= key[s[k]] <=> i <= k
    <3> TAKE i \in 1 .. Len(s)
    <3>1. i < k \/ i = k \/ k < i
      BY <1>2
    <3> QED
      BY <1>1, <1>2, <2>1, <3>1
  <2>5. ASSUME NEW x PROVE x \in {s[i] : i \in 1 .. k} <=> x \in Elements(s) /\ key[x] <= key[s[k]]
    <3>1. \A i \in 1 .. k : i \in 1 .. Len(s) /\ i <= k
      BY <1>1, <1>2
    <3>2. \A i \in 1 .. Len(s) : i <= k => i \in 1 .. k
      BY <1>2
    <3> QED
      BY <2>4, <3>1, <3>2 DEF Elements
  <2> QED
    BY <1>3, <2>1, <2>2, <2>3, <2>5
<1> QED
  BY <1>3, <1>5, <1>6, <1>7

-----------------------------------------------------------------------------
Every(in0) == Elements(in0.events)
Within(in0, times) == {e \in Every(in0) : e.time \in times}

LEMMA IncomeParts ==
  ASSUME NEW in0, Income(in0)
  PROVE  /\ in0.events \in Seq(Events) /\ Len(in0.events) \in Nat /\ in0.equity \in Int
         /\ in0.start \in Nat /\ in0.end \in Nat /\ in0.limit \in Nat \ {0}
         /\ Every(in0) \subseteq Events /\ Curve!Range(in0.events) = Every(in0)
         /\ \A e \in Every(in0) : e.time \in Nat /\ Time[e] = e.time /\ e \in Events
<1>1. in0.events \in Seq(Events)
  BY DEF Income
<1>2. DOMAIN in0.events = 1 .. Len(in0.events) /\ Len(in0.events) \in Nat
  BY <1>1
<1>3. Every(in0) \subseteq Events
  BY <1>1, ElementsIn DEF Every
<1> QED
  BY <1>1, <1>2, <1>3, EventParts DEF Income, Every, Elements, Curve!Range

(* Events each later than the one before rise.                                  *)
LEMMA EventsClimb ==
  ASSUME NEW in0, Income(in0), Curve!Distinct(in0)
  PROVE  Climbs(Events, Time, in0.events)
<1> DEFINE s == in0.events
           at(i) == s[i].time
<1>1. s \in Seq(Events) /\ DOMAIN s = 1 .. Len(s) /\ Len(s) \in Nat /\ \A i \in 1 .. Len(s) : s[i] \in Events
  <2>1. s \in Seq(Events)
    BY IncomeParts
  <2> QED
    BY <2>1
<1>2. \A i \in 1 .. Len(s) : at(i) \in Nat /\ Time[s[i]] = at(i)
  BY <1>1, EventParts
<1>3. \A i \in 2 .. Len(s) : at(i - 1) < at(i)
  BY DEF Curve!Distinct
<1> DEFINE T == {k \in Nat : \A i \in 1 .. Len(s) : i + k + 1 \in 1 .. Len(s) => at(i) < at(i + k + 1)}
<1>4. 0 \in T
  <2> SUFFICES ASSUME NEW i \in 1 .. Len(s), i + 0 + 1 \in 1 .. Len(s) PROVE at(i) < at(i + 0 + 1)
    OBVIOUS
  <2>1. i + 1 \in 2 .. Len(s) /\ (i + 1) - 1 = i /\ i + 0 + 1 = i + 1
    BY <1>1
  <2> HIDE DEF at
  <2> QED
    BY <1>3, <2>1
<1>5. ASSUME NEW k \in Nat, k \in T PROVE k + 1 \in T
  <2> SUFFICES ASSUME NEW i \in 1 .. Len(s), i + (k + 1) + 1 \in 1 .. Len(s) PROVE at(i) < at(i + (k + 1) + 1)
    OBVIOUS
  <2>1. i + k + 1 \in 1 .. Len(s) /\ i + (k + 1) + 1 \in 2 .. Len(s) /\ (i + (k + 1) + 1) - 1 = i + k + 1
    BY <1>1
  <2> HIDE DEF at
  <2>2. at(i) < at(i + k + 1)
    BY <1>5, <2>1
  <2>3. at(i + k + 1) < at(i + (k + 1) + 1)
    BY <1>3, <2>1
  <2> QED
    BY <1>2, <2>1, <2>2, <2>3
<1>6. Nat \subseteq T
  <2> HIDE DEF T
  <2> QED
    BY <1>4, <1>5, Induction
<1>7. ASSUME NEW i \in 1 .. Len(s), NEW j \in 1 .. Len(s), i < j PROVE at(i) < at(j)
  <2>1. j - i - 1 \in Nat /\ i + (j - i - 1) + 1 = j
    BY <1>1, <1>7
  <2> HIDE DEF at
  <2> QED
    BY <1>6, <2>1
<1>8. Time \in [Events -> Int]
  BY DEF Events, Time
<1>9. Rising(s, Time)
  <2> HIDE DEF at, s
  <2> QED
    BY <1>2, <1>7 DEF Rising
<1> QED
  BY <1>1, <1>8, <1>9 DEF Climbs

(* The events of some times, in order.                                          *)
LEMMA EventsOfTimes ==
  ASSUME NEW in0, Income(in0), Curve!Distinct(in0), NEW times
  PROVE  Climbs(Events, Time, Curve!EventsOf(in0, times))
         /\ Elements(Curve!EventsOf(in0, times)) = Within(in0, times)
<1> DEFINE s == in0.events
           S == {e \in Curve!Range(s) : e.time \in times}
<1>1. Climbs(Events, Time, s) /\ s \in Seq(Events) /\ Len(s) \in Nat /\ Curve!Range(s) = Elements(s)
  BY EventsClimb, IncomeParts DEF Every
<1>2. Curve!EventsOf(in0, times) = Sifted(s, S, Len(s))
  <2>1. Curve!EventsOf(in0, times) = Curve!Kept(s, S)
    BY DEF Curve!EventsOf
  <2> HIDE DEF s, S
  <2> QED
    BY <1>1, <2>1, KeptIs
<1>3. S = Within(in0, times)
  BY <1>1 DEF Within, Every
<1>4. Climbs(Events, Time, Sifted(s, S, Len(s))) /\ Elements(Sifted(s, S, Len(s))) = Picked(s, S, Len(s))
  <2>1. Len(s) \in 0 .. Len(s)
    BY <1>1
  <2> HIDE DEF s, S
  <2> QED
    BY <1>1, <2>1, SiftedRising
<1>5. Picked(s, S, Len(s)) = S
  BY <1>1, <1>3 DEF Picked, Within, Every, Elements
<1> HIDE DEF s, S
<1> QED
  BY <1>2, <1>3, <1>4, <1>5

-----------------------------------------------------------------------------
(* The loop over pages.                                                         *)
Walked == [got : Seq(Events), cursor : Nat, done : BOOLEAN]
Turned(in0, w) ==
    LET page == Curve!PageOf(in0, w.cursor)
    IN  IF w.done \/ w.cursor >= in0.end \/ page = <<>> THEN [w EXCEPT !.done = TRUE]
        ELSE [got |-> w.got \o page, done |-> Len(page) < in0.limit, cursor |-> Curve!NextCursor(page)]
Started(in0) == [got |-> <<>>, cursor |-> in0.start, done |-> FALSE]
FetchIn(in0) ==
    CHOOSE iter : iter = [d \in SUBSET DOMAIN [n \in 1 .. Len(in0.events) + 1 |-> n] |->
        IF d = {} THEN Started(in0) ELSE Turned(in0, iter[d \ {Max(d)}])]
FetchTo(in0, n) == FetchIn(in0)[1 .. n]

LEMMA FetchedIs ==
  ASSUME NEW in0, Income(in0)
  PROVE  Curve!Fetched(in0) = FetchTo(in0, Len(in0.events) + 1).got
<1> DEFINE n == Len(in0.events) + 1
<1>1. n \in Nat
  BY IncomeParts
<1>2. DOMAIN [m \in 1 .. n |-> m] = 1 .. n /\ [m \in 1 .. n |-> m] \in Seq(Nat) /\ Len([m \in 1 .. n |-> m]) = n
  BY <1>1
<1> QED
  BY <1>2 DEF Curve!Fetched, Curve!FoldLeft, Curve!MapThenFoldSet, Turned, Started, FetchIn, FetchTo, Max, Curve!Max

(* One page of the range, from the cursor on.                                   *)
LEMMA PageOfIs ==
  ASSUME NEW in0, Income(in0), Curve!Distinct(in0), NEW cursor \in Nat
  PROVE  LET page == Curve!PageOf(in0, cursor)
             last == page[Len(page)]
         IN  /\ Climbs(Events, Time, page)
             /\ page = <<>> => Within(in0, cursor .. in0.end) = {}
             /\ page # <<>> => /\ Len(page) \in Nat /\ Len(page) >= 1 /\ last \in Within(in0, cursor .. in0.end)
                               /\ Elements(page) = Within(in0, cursor .. last.time)
             /\ Len(page) < in0.limit => Elements(page) = Within(in0, cursor .. in0.end)
<1> DEFINE rest == Curve!EventsOf(in0, cursor .. in0.end)
           limit == in0.limit
           page == Curve!PageOf(in0, cursor)
           last == page[Len(page)]
<1>1. Climbs(Events, Time, rest) /\ Elements(rest) = Within(in0, cursor .. in0.end)
  BY EventsOfTimes
<1>2. limit \in Nat \ {0} /\ in0.end \in Nat
        /\ \A e \in Every(in0) : e.time \in Nat /\ Time[e] = e.time /\ e \in Events
  BY IncomeParts
<1>3. page = FirstOnes(rest, limit)
  BY DEF Curve!PageOf, FirstOnes
<1> HIDE DEF rest, page, limit
<1>4. /\ Climbs(Events, Time, page) /\ (page = <<>> <=> rest = <<>>) /\ (Len(page) < limit => page = rest)
      /\ (page # <<>> => /\ Len(page) >= 1 /\ last \in Elements(rest)
                         /\ Elements(page) = {x \in Elements(rest) : Time[x] <= Time[last]})
  BY <1>1, <1>2, <1>3, FirstPage
<1> HIDE DEF last
<1>5. Elements(<<>>) = {}
  BY DEF Elements
<1>6. ASSUME page # <<>>
      PROVE  last \in Within(in0, cursor .. in0.end) /\ Elements(page) = Within(in0, cursor .. last.time)
  <2>1. last \in Within(in0, cursor .. in0.end)
    BY <1>1, <1>4, <1>6
  <2>2. last \in Every(in0) /\ last.time \in Nat /\ last.time <= in0.end /\ Time[last] = last.time
    BY <1>2, <2>1 DEF Within
  <2>3. Elements(page) = {x \in Within(in0, cursor .. in0.end) : Time[x] <= last.time}
    BY <1>1, <1>4, <1>6, <2>2
  <2>4. ASSUME NEW x PROVE x \in Within(in0, cursor .. in0.end) /\ Time[x] <= last.time <=> x \in Within(in0, cursor .. last.time)
    BY <1>2, <2>2 DEF Within
  <2> QED
    BY <2>1, <2>3, <2>4
<1>7. Len(page) \in Nat
  BY <1>4 DEF Climbs
<1> QED
  BY <1>1, <1>4, <1>5, <1>6, <1>7 DEF page, last, limit

LEMMA TurnedType ==
  ASSUME NEW in0, Income(in0), Curve!Distinct(in0), NEW w \in Walked
  PROVE  Turned(in0, w) \in Walked
<1> DEFINE page == Curve!PageOf(in0, w.cursor)
<1>1. w.got \in Seq(Events) /\ w.cursor \in Nat /\ w.done \in BOOLEAN
  BY DEF Walked
<1>2. page \in Seq(Events) /\ (page # <<>> => Len(page) \in 1 .. Len(page) /\ page[Len(page)] \in Events)
  <2>1. Climbs(Events, Time, page)
    BY <1>1, PageOfIs
  <2>2. page \in Seq(Events)
    BY <2>1 DEF Climbs
  <2> HIDE DEF page
  <2> QED
    BY <2>2
<1>3. page # <<>> => Curve!NextCursor(page) \in Nat
  <2>1. page # <<>> => Curve!NextCursor(page) = page[Len(page)].time + 1
    BY DEF Curve!NextCursor, Curve!Last
  <2> HIDE DEF page
  <2> QED
    BY <1>2, <2>1, EventParts
<1>4. page # <<>> => w.got \o page \in Seq(Events)
  <2> HIDE DEF page
  <2> QED
    BY <1>1, <1>2
<1>5. [w EXCEPT !.done = TRUE] \in Walked
  BY DEF Walked
<1>6. ASSUME page # <<>>
      PROVE  [got |-> w.got \o page, done |-> Len(page) < in0.limit, cursor |-> Curve!NextCursor(page)] \in Walked
  <2>1. (Len(page) < in0.limit) \in BOOLEAN
    OBVIOUS
  <2> HIDE DEF page
  <2> QED
    BY <1>3, <1>4, <1>6, <2>1, Zenon DEF Walked
<1> HIDE DEF page
<1> QED
  BY <1>5, <1>6 DEF Turned, page

-----------------------------------------------------------------------------
LEMMA FetchSteps ==
  ASSUME NEW in0, Income(in0), Curve!Distinct(in0), NEW n, n = Len(in0.events) + 1
  PROVE  /\ FetchTo(in0, 0) = Started(in0)
         /\ \A m \in 1 .. n : FetchTo(in0, m) = Turned(in0, FetchTo(in0, m - 1))
         /\ \A m \in 0 .. n : FetchTo(in0, m) \in Walked
<1> DEFINE base == Started(in0)
           step == [x \in Walked \X Nat |-> Turned(in0, x[1])]
           Is(f) == f = [d \in SUBSET (1 .. n) |->
                           IF d = {} THEN base ELSE Turned(in0, f[d \ {Max(d)}])]
<1>1. n \in Nat
  BY IncomeParts
<1>2. base \in Walked
  <2>1. in0.start \in Nat /\ <<>> \in Seq(Events) /\ FALSE \in BOOLEAN
    BY IncomeParts
  <2> QED
    BY <2>1, Zenon DEF Started, Walked
<1>3. step \in [Walked \X Nat -> Walked]
  <2> SUFFICES ASSUME NEW x \in Walked \X Nat PROVE Turned(in0, x[1]) \in Walked
    OBVIOUS
  <2>1. x[1] \in Walked
    OBVIOUS
  <2> QED
    BY <2>1, TurnedType
<1>4. \A w \in Walked : \A i \in Nat : step[<<w, i>>] = Turned(in0, w)
  <2> TAKE w \in Walked
  <2> TAKE i \in Nat
  <2>1. <<w, i>> \in Walked \X Nat
    OBVIOUS
  <2> QED
    BY <2>1
<1> HIDE DEF base, step
<1>5. \E f : Is(f)
  <2>1. PICK f : Folds(f, Walked, base, step, n)
    BY <1>1, <1>2, <1>3, FoldExists
  <2>2. ASSUME NEW d \in SUBSET (1 .. n), d # {}
        PROVE  f[d] = Turned(in0, f[d \ {Max(d)}])
    <3>1. Max(d) \in 1 .. n /\ Max(d) \in Nat
      <4>1. Max(d) \in 1 .. n
        BY <1>1, <2>2, MaxIs
      <4> QED
        BY <1>1, <4>1
    <3>2. f[d \ {Max(d)}] \in Walked
      BY <2>1, Zenon DEF Folds
    <3>3. f[d] = step[<<f[d \ {Max(d)}], Max(d)>>]
      BY <2>1, <2>2, Zenon DEF Folds
    <3> QED
      BY <1>4, <3>1, <3>2, <3>3
  <2>3. /\ f = [d \in SUBSET (1 .. n) |-> f[d]]
        /\ \A d \in SUBSET (1 .. n) : d = {} => f[d] = base
    BY <2>1, Zenon DEF Folds
  <2>4. Is(f)
    BY <1>1, <2>2, <2>3
  <2> HIDE DEF Is
  <2> QED
    BY <2>4
<1> DEFINE iter == FetchIn(in0)
<1>6. iter = CHOOSE f : Is(f)
  <2>1. DOMAIN [m \in 1 .. Len(in0.events) + 1 |-> m] = 1 .. n
    OBVIOUS
  <2> QED
    BY <2>1 DEF FetchIn, base
<1>7. Is(iter)
  <2> HIDE DEF Is, iter
  <2> QED
    BY <1>5, <1>6
<1> HIDE DEF iter
<1>8. iter[1 .. 0] = base
  <2>1. 1 .. 0 = {}
    OBVIOUS
  <2> QED
    BY <1>7, <2>1
<1>9. ASSUME NEW m \in 1 .. n PROVE iter[1 .. m] = Turned(in0, iter[1 .. m - 1])
  <2>1. /\ 1 .. m \in SUBSET (1 .. n) /\ 1 .. m # {}
        /\ Max(1 .. m) = m /\ (1 .. m) \ {m} = 1 .. m - 1
    BY <1>1, MaxOfRange
  <2>2. iter[1 .. m] = Turned(in0, iter[(1 .. m) \ {Max(1 .. m)}])
    BY <1>1, <1>7, <2>1
  <2> QED
    BY <2>1, <2>2
<1> DEFINE T == {m \in Nat : m <= n => iter[1 .. m] \in Walked}
<1>10. 0 \in T
  BY <1>2, <1>8
<1>11. ASSUME NEW m \in Nat, m \in T PROVE m + 1 \in T
  <2> SUFFICES ASSUME m + 1 <= n PROVE iter[1 .. m + 1] \in Walked
    OBVIOUS
  <2>1. m + 1 \in 1 .. n /\ (m + 1) - 1 = m
    BY <1>1
  <2>2. iter[1 .. m] \in Walked
    BY <1>1, <1>11
  <2>3. iter[1 .. m + 1] = Turned(in0, iter[1 .. m])
    BY <2>1, <1>9
  <2> QED
    BY <2>2, <2>3, TurnedType
<1>12. Nat \subseteq T
  <2> HIDE DEF T
  <2> QED
    BY <1>10, <1>11, Induction
<1>13. \A m \in 0 .. n : iter[1 .. m] \in Walked
  BY <1>1, <1>12
<1> QED
  BY <1>8, <1>9, <1>13 DEF FetchTo, iter, base

(* What the loop holds after some turns: the events before its cursor.  Once    *)
(* it has stopped none is left but one at the very end; before, each turn has   *)
(* brought an event.                                                            *)
Holds(in0, w, m) ==
    /\ Climbs(Events, Time, w.got)
    /\ in0.start <= w.cursor
    /\ Elements(w.got) = {e \in Within(in0, in0.start .. in0.end) : e.time < w.cursor}
    /\ w.done => \A e \in Within(in0, w.cursor .. in0.end) : e.time = in0.end
    /\ ~w.done => Len(w.got) >= m

LEMMA HoldsFirst ==
  ASSUME NEW in0, Income(in0)
  PROVE  Holds(in0, Started(in0), 0)
<1> DEFINE w == Started(in0)
<1>1. w.got = <<>> /\ w.cursor = in0.start /\ w.done = FALSE
  BY DEF Started
<1>2. in0.start \in Nat /\ in0.end \in Nat /\ \A e \in Every(in0) : e.time \in Nat
  BY IncomeParts
<1>3. Climbs(Events, Time, <<>>) /\ Elements(<<>>) = {} /\ Len(<<>>) = 0
  <2>1. Time \in [Events -> Int]
    BY DEF Time, Events
  <2> QED
    BY <2>1 DEF Climbs, Rising, Elements
<1>4. {e \in Within(in0, in0.start .. in0.end) : e.time < in0.start} = {}
  BY <1>2 DEF Within
<1> HIDE DEF w
<1> QED
  BY <1>1, <1>2, <1>3, <1>4 DEF Holds, w

LEMMA EventsJoined ==
  ASSUME NEW a, NEW b, Climbs(Events, Time, a), Climbs(Events, Time, b), Before(Time, a, b)
  PROVE  Climbs(Events, Time, a \o b) /\ \A x : x \in Elements(a \o b) <=> x \in Elements(a) \/ x \in Elements(b)
<1>1. Climbs(Events, Time, a \o b)
  BY RisingBoth
<1>2. Elements(a \o b) = Elements(a) \cup Elements(b)
  BY RisingBoth
<1> QED
  BY <1>1, <1>2

LEMMA HoldsNext ==
  ASSUME NEW in0, Income(in0), Curve!Distinct(in0), NEW w \in Walked, NEW m \in Nat, Holds(in0, w, m)
  PROVE  Holds(in0, Turned(in0, w), m + 1)
<1> DEFINE page == Curve!PageOf(in0, w.cursor)
           last == page[Len(page)]
           c == w.cursor
           got == w.got
           start == in0.start
           end == in0.end
<1>1. got \in Seq(Events) /\ c \in Nat /\ w.done \in BOOLEAN /\ Len(got) \in Nat
  BY DEF Walked
<1>2. start \in Nat /\ end \in Nat /\ \A e \in Every(in0) : e.time \in Nat /\ Time[e] = e.time
  BY IncomeParts
<1>3. /\ Climbs(Events, Time, page)
      /\ page = <<>> => Within(in0, c .. end) = {}
      /\ page # <<>> => /\ Len(page) \in Nat /\ Len(page) >= 1 /\ last \in Within(in0, c .. end)
                        /\ Elements(page) = Within(in0, c .. last.time)
      /\ Len(page) < in0.limit => Elements(page) = Within(in0, c .. end)
  BY <1>1, PageOfIs
<1>4. /\ Climbs(Events, Time, got) /\ start <= c
      /\ Elements(got) = {e \in Within(in0, start .. end) : e.time < c}
      /\ w.done => \A e \in Within(in0, c .. end) : e.time = end
      /\ ~w.done => Len(got) >= m
  BY DEF Holds
<1>5. page # <<>> => Curve!NextCursor(page) = last.time + 1
  BY DEF Curve!NextCursor, Curve!Last
<1> HIDE DEF page, last
<1>6. CASE w.done \/ c >= end \/ page = <<>>
  <2> DEFINE u == [w EXCEPT !.done = TRUE]
  <2>1. Turned(in0, w) = u
    BY <1>6 DEF Turned, page
  <2>2. u.got = got /\ u.cursor = c /\ u.done = TRUE
    BY DEF Walked
  <2>3. \A e \in Within(in0, c .. end) : e.time = end
    BY <1>1, <1>2, <1>3, <1>4, <1>6 DEF Within
  <2> HIDE DEF u
  <2> QED
    BY <1>4, <2>1, <2>2, <2>3 DEF Holds
<1>7. CASE ~(w.done \/ c >= end \/ page = <<>>)
  <2> DEFINE short == Len(page) < in0.limit
             u == [got |-> got \o page, done |-> short, cursor |-> Curve!NextCursor(page)]
  <2>1. Turned(in0, w) = u
    BY <1>7 DEF Turned, page
  <2>2. u.got = got \o page /\ u.cursor = last.time + 1 /\ u.done = short
    BY <1>5, <1>7
  <2> HIDE DEF u, short, c, got, start, end
  <2>3. last \in Every(in0) /\ last.time \in Nat /\ c <= last.time /\ last.time <= end
    BY <1>1, <1>2, <1>3, <1>7 DEF Within
  <2>4. Before(Time, got, page)
    <3>1. ASSUME NEW x \in Elements(got), NEW y \in Elements(page) PROVE Time[x] < Time[y]
      <4>1. x \in Every(in0) /\ x.time < c /\ y \in Every(in0) /\ c <= y.time
        BY <1>1, <1>2, <1>3, <1>4, <1>7, <2>3 DEF Within
      <4> QED
        BY <1>1, <1>2, <4>1
    <3> QED
      BY <3>1 DEF Before
  <2>5. Climbs(Events, Time, got \o page) /\ \A x : x \in Elements(got \o page) <=> x \in Elements(got) \/ x \in Elements(page)
    <3>1. Climbs(Events, Time, got) /\ Climbs(Events, Time, page)
      BY <1>3, <1>4
    <3> QED
      BY <2>4, <3>1, EventsJoined
  <2>6. Elements(got \o page) = {e \in Within(in0, start .. end) : e.time < last.time + 1}
    <3>1. ASSUME NEW e PROVE e \in Elements(got \o page) <=> e \in Within(in0, start .. end) /\ e.time < last.time + 1
      <4>1. e \in Every(in0) => e.time \in Nat
        BY <1>2
      <4>2. e \in Elements(got) <=> e \in Every(in0) /\ e.time \in start .. end /\ e.time < c
        BY <1>4 DEF Within
      <4>3. e \in Elements(page) <=> e \in Every(in0) /\ e.time \in c .. last.time
        BY <1>3, <1>7 DEF Within
      <4> QED
        BY <1>1, <1>2, <1>4, <2>3, <2>5, <4>1, <4>2, <4>3 DEF Within
    <3> QED
      BY <3>1
  <2>7. short => \A e \in Within(in0, (last.time + 1) .. end) : e.time = end
    <3> SUFFICES ASSUME short, NEW e \in Within(in0, (last.time + 1) .. end) PROVE FALSE
      OBVIOUS
    <3>1. e \in Every(in0) /\ e.time \in Nat /\ last.time + 1 <= e.time /\ e.time <= end
      BY <1>2, <2>3 DEF Within
    <3>2. e \in Within(in0, c .. end)
      BY <1>1, <1>2, <2>3, <3>1 DEF Within
    <3>3. e \in Within(in0, c .. last.time)
      BY <1>3, <1>7, <3>2 DEF short
    <3> QED
      BY <2>3, <3>1, <3>3 DEF Within
  <2>8. Len(got \o page) >= m + 1
    <3>1. got \in Seq(Events) /\ page \in Seq(Events) /\ Len(page) \in Nat /\ Len(page) >= 1
      BY <1>1, <1>3, <1>7 DEF Climbs
    <3>2. Len(got \o page) = Len(got) + Len(page)
      BY <3>1
    <3> QED
      BY <1>1, <1>4, <1>7, <3>1, <3>2
  <2>9. start <= last.time + 1
    BY <1>1, <1>2, <1>4, <2>3
  <2>10. /\ Climbs(Events, Time, u.got) /\ start <= u.cursor
         /\ Elements(u.got) = {e \in Within(in0, start .. end) : e.time < u.cursor}
         /\ u.done => \A e \in Within(in0, u.cursor .. end) : e.time = end
         /\ ~u.done => Len(u.got) >= m + 1
    BY <2>2, <2>5, <2>6, <2>7, <2>8, <2>9
  <2> QED
    BY <2>1, <2>10 DEF Holds, start, end
<1> QED
  BY <1>6, <1>7

-----------------------------------------------------------------------------
LEMMA FetchedHolds ==
  ASSUME NEW in0, Income(in0), Curve!Distinct(in0)
  PROVE  /\ Climbs(Events, Time, Curve!Fetched(in0))
         /\ \E c \in Nat : /\ in0.start <= c
                           /\ Elements(Curve!Fetched(in0)) = {e \in Within(in0, in0.start .. in0.end) : e.time < c}
                           /\ \A e \in Within(in0, c .. in0.end) : e.time = in0.end
<1> DEFINE n == Len(in0.events) + 1
           w == FetchTo(in0, n)
           T == {m \in Nat : m <= n => Holds(in0, FetchTo(in0, m), m)}
<1>1. n \in Nat /\ Len(in0.events) \in Nat
  BY IncomeParts
<1>2. /\ FetchTo(in0, 0) = Started(in0)
      /\ \A m \in 1 .. n : FetchTo(in0, m) = Turned(in0, FetchTo(in0, m - 1))
      /\ \A m \in 0 .. n : FetchTo(in0, m) \in Walked
  BY FetchSteps
<1> HIDE DEF n
<1>3. 0 \in T
  BY <1>2, HoldsFirst
<1>4. ASSUME NEW m \in Nat, m \in T PROVE m + 1 \in T
  <2> SUFFICES ASSUME m + 1 <= n PROVE Holds(in0, FetchTo(in0, m + 1), m + 1)
    OBVIOUS
  <2>1. m + 1 \in 1 .. n /\ (m + 1) - 1 = m /\ m \in 0 .. n
    BY <1>1
  <2>2. FetchTo(in0, m) \in Walked /\ FetchTo(in0, m + 1) = Turned(in0, FetchTo(in0, m)) /\ Holds(in0, FetchTo(in0, m), m)
    BY <1>1, <1>2, <1>4, <2>1
  <2> QED
    BY <2>2, HoldsNext
<1>5. Nat \subseteq T
  <2> HIDE DEF T
  <2> QED
    BY <1>3, <1>4, Induction
<1>6. Holds(in0, w, n) /\ w \in Walked
  BY <1>1, <1>2, <1>5
<1>7. Curve!Fetched(in0) = w.got
  BY FetchedIs DEF n
<1> HIDE DEF w
<1>8. w.cursor \in Nat /\ w.done \in BOOLEAN /\ w.got \in Seq(Events)
  BY <1>6 DEF Walked
<1>9. Climbs(Events, Time, w.got) /\ Elements(w.got) = {e \in Within(in0, in0.start .. in0.end) : e.time < w.cursor}
  BY <1>6 DEF Holds
<1>10. Len(w.got) <= Len(in0.events)
  <2>1. Climbs(Events, Time, in0.events)
    BY EventsClimb
  <2>2. Elements(w.got) \subseteq Elements(in0.events)
    BY <1>9 DEF Within, Every
  <2> QED
    BY <1>9, <2>1, <2>2, NoLonger
<1>11. w.done
  <2>1. ~w.done => Len(w.got) >= n
    BY <1>6 DEF Holds
  <2>2. Len(w.got) \in Nat /\ n = Len(in0.events) + 1
    BY <1>8 DEF n
  <2> QED
    BY <1>1, <1>10, <2>1, <2>2
<1>12. in0.start <= w.cursor /\ \A e \in Within(in0, w.cursor .. in0.end) : e.time = in0.end
  BY <1>6, <1>11 DEF Holds
<1> QED
  BY <1>7, <1>8, <1>9, <1>12

LEMMA EventsRise ==
  ASSUME NEW s, Climbs(Events, Time, s)
  PROVE  /\ s \in Seq(Events) /\ Len(s) \in Nat /\ DOMAIN s = 1 .. Len(s)
         /\ \A i \in 1 .. Len(s) : s[i] \in Events /\ s[i].time \in Nat /\ s[i] \in Elements(s)
         /\ \A i, j \in 1 .. Len(s) : i < j => s[i].time < s[j].time
<1>1. s \in Seq(Events) /\ Rising(s, Time)
  BY DEF Climbs
<1>2. Len(s) \in Nat /\ DOMAIN s = 1 .. Len(s) /\ \A i \in 1 .. Len(s) : s[i] \in Events
  BY <1>1
<1>3. \A i \in 1 .. Len(s) : s[i].time \in Nat /\ Time[s[i]] = s[i].time /\ s[i] \in Elements(s)
  BY <1>2, EventParts DEF Elements
<1> QED
  BY <1>1, <1>2, <1>3 DEF Rising

LEMMA EventsPart ==
  ASSUME NEW s, Climbs(Events, Time, s), NEW a \in Nat \ {0}, NEW b \in Nat, b <= Len(s), a <= b + 1
  PROVE  /\ Climbs(Events, Time, SubSeq(s, a, b)) /\ Len(SubSeq(s, a, b)) = b + 1 - a
         /\ \A i \in 1 .. b + 1 - a : SubSeq(s, a, b)[i] = s[a + i - 1]
         /\ \A x : x \in Elements(SubSeq(s, a, b)) <=> \E i \in a .. b : x = s[i]
<1>1. /\ Climbs(Events, Time, SubSeq(s, a, b)) /\ Len(SubSeq(s, a, b)) = b + 1 - a
      /\ \A i \in 1 .. b + 1 - a : SubSeq(s, a, b)[i] = s[a + i - 1]
  BY RisingPart
<1>2. Elements(SubSeq(s, a, b)) = {s[i] : i \in a .. b}
  BY RisingPart
<1> QED
  BY <1>1, <1>2

(* However the events fall on pages, each of the range is fetched once          *)
(* (fetch_income_for_backfill), if no two share an instant; only one at the     *)
(* very end of the range may be left out.                                       *)
THEOREM PagesAreComplete ==
  ASSUME NEW in0, Income(in0)
  PROVE  Curve!PagesComplete(in0)
<1> SUFFICES ASSUME Curve!Distinct(in0)
             PROVE  \/ Curve!Fetched(in0) = Curve!Wanted(in0)
                    \/ /\ Curve!Fetched(in0) = Curve!Front(Curve!Wanted(in0))
                       /\ Curve!Last(Curve!Wanted(in0)).time = in0.end
  BY DEF Curve!PagesComplete
<1> DEFINE got == Curve!Fetched(in0)
           all == Curve!Wanted(in0)
           range == Within(in0, in0.start .. in0.end)
<1>1. Climbs(Events, Time, all) /\ Elements(all) = range
  BY EventsOfTimes DEF Curve!Wanted
<1>2. PICK c \in Nat : /\ in0.start <= c
                       /\ Elements(got) = {e \in range : e.time < c}
                       /\ \A e \in Within(in0, c .. in0.end) : e.time = in0.end
  BY FetchedHolds
<1>3. Climbs(Events, Time, got)
  BY FetchedHolds
<1>4. in0.start \in Nat /\ in0.end \in Nat /\ \A e \in Every(in0) : e.time \in Nat
  BY IncomeParts
<1>5. \A e \in range : e.time >= c => e.time = in0.end
  BY <1>2, <1>4 DEF Within
<1>6. \A e \in range : e.time \in Nat /\ e.time <= in0.end
  BY <1>4 DEF Within
<1> HIDE DEF got, all, range
<1>7. CASE \A e \in range : e.time < c
  <2>1. Elements(got) = Elements(all)
    BY <1>1, <1>2, <1>7
  <2> QED
    BY <1>1, <1>3, <2>1, SameRising DEF got, all
<1>8. CASE \E e \in range : ~(e.time < c)
  <2> DEFINE n == Len(all)
             front == SubSeq(all, 1, n - 1)
  <2>1. /\ all \in Seq(Events) /\ n \in Nat /\ DOMAIN all = 1 .. n
        /\ \A i \in 1 .. n : all[i] \in range /\ all[i].time \in Nat
        /\ \A i, j \in 1 .. n : i < j => all[i].time < all[j].time
    BY <1>1, EventsRise
  <2>2. PICK l \in 1 .. n : all[l].time >= c /\ all[l].time = in0.end
    <3>1. PICK e \in range : ~(e.time < c)
      BY <1>8
    <3>2. e.time >= c /\ e.time = in0.end
      BY <1>5, <1>6, <3>1
    <3>3. \E i \in 1 .. n : all[i] = e
      BY <1>1 DEF Elements
    <3> QED
      BY <3>2, <3>3
  <2> HIDE DEF n
  <2>3. l = n
    <3> SUFFICES ASSUME l < n PROVE FALSE
      BY <2>1
    <3>1. n \in 1 .. n /\ all[l].time < all[n].time /\ all[n].time <= in0.end
      BY <1>6, <2>1
    <3> QED
      BY <1>4, <2>1, <2>2, <3>1
  <2>4. \A i \in 1 .. n : all[i].time < c <=> i <= n - 1
    <3> TAKE i \in 1 .. n
    <3>1. i = n \/ (i <= n - 1 /\ i < n)
      BY <2>1
    <3>2. i < n => all[i].time < in0.end
      BY <2>1, <2>2, <2>3
    <3>3. all[i].time < c \/ all[i].time = in0.end
      BY <1>5, <2>1
    <3> QED
      BY <1>4, <2>1, <2>2, <2>3, <3>1, <3>2, <3>3
  <2>5. Climbs(Events, Time, front) /\ \A x : x \in Elements(front) <=> \E i \in 1 .. n - 1 : x = all[i]
    <3>1. 1 \in Nat \ {0} /\ n - 1 \in Nat /\ n - 1 <= Len(all) /\ 1 <= (n - 1) + 1
      BY <2>1 DEF n
    <3> QED
      BY <1>1, <3>1, EventsPart, Zenon
  <2> HIDE DEF front
  <2>6. ASSUME NEW e PROVE (\E i \in 1 .. n - 1 : e = all[i]) <=> e \in {x \in range : x.time < c}
    <3>1. \A i \in 1 .. n - 1 : i \in 1 .. n /\ i <= n - 1
      BY <2>1
    <3>2. \A i \in 1 .. n : i <= n - 1 => i \in 1 .. n - 1
      BY <2>1
    <3>3. range = {all[i] : i \in 1 .. n}
      BY <1>1 DEF Elements, n
    <3> QED
      BY <2>1, <2>4, <3>1, <3>2, <3>3
  <2>7. Elements(front) = Elements(got)
    BY <1>2, <2>5, <2>6
  <2>8. got = front
    BY <1>3, <2>5, <2>7, SameRising
  <2>9. Curve!Front(all) = front /\ Curve!Last(all) = all[n]
    BY DEF Curve!Front, Curve!Last, front, n
  <2> QED
    BY <2>2, <2>3, <2>8, <2>9 DEF got, all
<1> QED
  BY <1>7, <1>8

-----------------------------------------------------------------------------
(* The walk back through the events.                                            *)
After(in0, i) == SubSeq(Curve!Fetched(in0), i, Len(Curve!Fetched(in0)))

LEMMA RecordsAre ==
  ASSUME NEW in0, Income(in0), Curve!Distinct(in0)
  PROVE  LET got == Curve!Fetched(in0)
             rs == Curve!Records(in0)
         IN  /\ Len(got) \in Nat /\ DOMAIN rs = 1 .. Len(got) /\ Len(rs) = Len(got)
             /\ rs \in Seq([time : Nat, equity : Int])
             /\ Curve!Current(in0) \in Int
             /\ \A i \in 1 .. Len(got) :
                   /\ rs[i].time = got[i].time /\ got[i].time \in Nat
                   /\ rs[i].equity = Curve!Current(in0) - Curve!Result(After(in0, i))
                   /\ After(in0, i) \in Seq(Events) /\ Curve!Result(After(in0, i)) \in Int
<1> DEFINE got == Curve!Fetched(in0)
           rs == Curve!Records(in0)
           paid == [i \in DOMAIN in0.events |-> in0.events[i].amount]
<1>1. /\ got \in Seq(Events) /\ Len(got) \in Nat /\ DOMAIN got = 1 .. Len(got)
      /\ \A i \in 1 .. Len(got) : got[i] \in Events /\ got[i].time \in Nat
  <2>1. Climbs(Events, Time, got)
    BY FetchedHolds
  <2> HIDE DEF got
  <2> QED
    BY <2>1, EventsRise
<1>2. rs = [i \in 1 .. Len(got) |-> [time |-> got[i].time, equity |-> Curve!Current(in0) - Curve!Result(After(in0, i))]]
  BY <1>1 DEF Curve!Records, After
<1>3. ASSUME NEW i \in 1 .. Len(got) PROVE After(in0, i) \in Seq(Events) /\ Curve!Result(After(in0, i)) \in Int
  <2>1. After(in0, i) \in Seq(Events)
    <3> HIDE DEF got
    <3>1. SubSeq(got, i, Len(got)) \in Seq(Events)
      BY <1>1
    <3> QED
      BY <3>1 DEF After, got
  <2> QED
    BY <2>1, ResultType
<1>4. Curve!Current(in0) \in Int
  <2>1. in0.events \in Seq(Events) /\ in0.equity \in Int
    BY IncomeParts
  <2>2. DOMAIN in0.events = 1 .. Len(in0.events) /\ Len(in0.events) \in Nat
        /\ \A i \in 1 .. Len(in0.events) : in0.events[i] \in Events /\ in0.events[i].amount \in Int
    <3>1. DOMAIN in0.events = 1 .. Len(in0.events) /\ Len(in0.events) \in Nat
          /\ \A i \in 1 .. Len(in0.events) : in0.events[i] \in Events
      BY <2>1
    <3> QED
      BY <3>1, EventParts
  <2>3. paid \in Seq(Int)
    BY <2>2
  <2>4. Curve!Current(in0) = in0.equity + Curve!Total(paid)
    BY DEF Curve!Current
  <2> HIDE DEF paid
  <2>5. Curve!Total(paid) \in Int
    BY <2>3, TotalOf
  <2> QED
    BY <2>1, <2>4, <2>5
<1> HIDE DEF got
<1>5. \A i \in 1 .. Len(got) : rs[i] = [time |-> got[i].time, equity |-> Curve!Current(in0) - Curve!Result(After(in0, i))]
  BY <1>2
<1>6. DOMAIN rs = 1 .. Len(got)
  BY <1>2
<1>7. \A i \in 1 .. Len(got) : rs[i] \in [time : Nat, equity : Int]
  <2> TAKE i \in 1 .. Len(got)
  <2>1. got[i].time \in Nat /\ Curve!Current(in0) - Curve!Result(After(in0, i)) \in Int
    BY <1>1, <1>3, <1>4
  <2>2. rs[i] = [time |-> got[i].time, equity |-> Curve!Current(in0) - Curve!Result(After(in0, i))]
    BY <1>5
  <2> HIDE DEF rs
  <2> QED
    BY <2>1, <2>2
<1>8. rs \in Seq([time : Nat, equity : Int]) /\ Len(rs) = Len(got)
  <2> DEFINE V == [time : Nat, equity : Int]
  <2>1. \A i \in 1 .. Len(got) : rs[i] \in V
    BY <1>7
  <2> HIDE DEF V
  <2>2. rs \in [1 .. Len(got) -> V]
    BY <1>2, <1>6, <2>1
  <2>3. rs \in Seq(V)
    BY <1>1, <2>2
  <2>4. Len(rs) = Len(got)
    BY <1>1, <1>2
  <2> QED
    BY <2>3, <2>4 DEF V
<1> QED
  BY <1>1, <1>3, <1>4, <1>5, <1>6, <1>8 DEF got

(* The events of an event's own instant are that event.                         *)
LEMMA OneAtATime ==
  ASSUME NEW in0, Income(in0), Curve!Distinct(in0), NEW e \in Every(in0)
  PROVE  Curve!EventsOf(in0, {e.time}) = <<e>>
<1> DEFINE s == in0.events
           at == Curve!EventsOf(in0, {e.time})
           one == <<e>>
<1>1. Climbs(Events, Time, at) /\ Elements(at) = Within(in0, {e.time})
  BY EventsOfTimes
<1>2. Climbs(Events, Time, s)
  BY EventsClimb
<1>3. /\ Len(s) \in Nat /\ (\A i \in 1 .. Len(s) : s[i].time \in Nat)
      /\ \A i, j \in 1 .. Len(s) : i < j => s[i].time < s[j].time
  BY <1>2, EventsRise
<1>4. Within(in0, {e.time}) = {e}
  <2> SUFFICES ASSUME NEW x \in Every(in0), x.time = e.time PROVE x = e
    BY DEF Within
  <2>1. PICK i \in 1 .. Len(s) : x = s[i]
    BY DEF Every, Elements
  <2>2. PICK j \in 1 .. Len(s) : e = s[j]
    BY DEF Every, Elements
  <2>3. i = j
    BY <1>3, <2>1, <2>2
  <2> QED
    BY <2>1, <2>2, <2>3
<1>5. e \in Events /\ Time \in [Events -> Int]
  BY IncomeParts DEF Events, Time
<1>6. Climbs(Events, Time, one) /\ Elements(one) = {e}
  <2>1. one \in Seq(Events) /\ Len(one) = 1 /\ one[1] = e
    BY <1>5
  <2> HIDE DEF one
  <2>2. Rising(one, Time)
    BY <2>1 DEF Rising
  <2>3. Elements(one) = {e}
    BY <2>1 DEF Elements
  <2> QED
    BY <1>5, <2>1, <2>2, <2>3 DEF Climbs
<1>7. Elements(at) = Elements(one)
  BY <1>1, <1>4, <1>6
<1> HIDE DEF at, one
<1>8. at = one
  BY <1>1, <1>6, <1>7, SameRising
<1> QED
  BY <1>8 DEF at, one

LEMMA FirstAndRest ==
  ASSUME NEW V, NEW s \in Seq(V), NEW i \in 2 .. Len(s)
  PROVE  /\ i - 1 \in 1 .. Len(s)
         /\ SubSeq(s, i - 1, Len(s)) = <<s[i - 1]>> \o SubSeq(s, i, Len(s))
<1> DEFINE n == Len(s)
           a == <<s[i - 1]>>
           b == SubSeq(s, i, n)
           c == SubSeq(s, i - 1, n)
<1>1. n \in Nat /\ i - 1 \in 1 .. n /\ i \in 1 .. n /\ \A j \in 1 .. n : s[j] \in V
  OBVIOUS
<1>2. a \in Seq(V) /\ Len(a) = 1 /\ a[1] = s[i - 1]
  BY <1>1
<1>3. b \in Seq(V) /\ Len(b) = n + 1 - i /\ \A j \in 1 .. n + 1 - i : b[j] = s[i + j - 1]
  BY <1>1
<1>4. c \in Seq(V) /\ Len(c) = n + 2 - i /\ \A j \in 1 .. n + 2 - i : c[j] = s[i + j - 2]
  BY <1>1
<1> HIDE DEF a, b, c
<1>5. Len(c) = Len(a) + Len(b)
  BY <1>1, <1>2, <1>3, <1>4
<1>6. \A j \in 1 .. Len(a) : c[j] = a[j]
  BY <1>1, <1>2, <1>4
<1>7. \A j \in 1 .. Len(b) : c[Len(a) + j] = b[j]
  <2> TAKE j \in 1 .. Len(b)
  <2>1. j \in 1 .. n + 1 - i /\ 1 + j \in 1 .. n + 2 - i /\ i + (1 + j) - 2 = i + j - 1
    BY <1>1, <1>3
  <2>2. b[j] = s[i + j - 1] /\ c[1 + j] = s[i + (1 + j) - 2]
    BY <1>3, <1>4, <2>1
  <2> QED
    BY <1>2, <2>1, <2>2
<1>8. c = a \o b
  BY <1>2, <1>3, <1>4, <1>5, <1>6, <1>7, Joined
<1> QED
  BY <1>1, <1>8 DEF a, b, c

(* The steps between the rebuilt equities are the results of trading alone:     *)
(* transfers do not bend the curve (build_equity_backfill).                     *)
THEOREM TransfersDoNotCount ==
  ASSUME NEW in0, Income(in0)
  PROVE  Curve!StepsAreResults(in0)
<1> SUFFICES ASSUME Curve!Distinct(in0), NEW i \in 2 .. Len(Curve!Records(in0))
             PROVE  Curve!Records(in0)[i].equity - Curve!Records(in0)[i - 1].equity
                      = Curve!Result(Curve!EventsOf(in0, {Curve!Records(in0)[i - 1].time}))
  BY DEF Curve!StepsAreResults
<1> DEFINE got == Curve!Fetched(in0)
           rs == Curve!Records(in0)
           n == Len(got)
           e == got[i - 1]
<1>1. /\ n \in Nat /\ Len(rs) = n /\ Curve!Current(in0) \in Int
      /\ \A j \in 1 .. n : /\ rs[j].time = got[j].time
                           /\ rs[j].equity = Curve!Current(in0) - Curve!Result(After(in0, j))
                           /\ After(in0, j) \in Seq(Events) /\ Curve!Result(After(in0, j)) \in Int
  BY RecordsAre
<1>2. Climbs(Events, Time, got) /\ Elements(got) \subseteq Every(in0)
  BY FetchedHolds DEF Within
<1>3. got \in Seq(Events) /\ \A j \in 1 .. n : got[j] \in Elements(got) /\ got[j] \in Events
  BY <1>2, EventsRise
<1>4. i \in 1 .. n /\ i - 1 \in 1 .. n /\ i \in 2 .. n
  BY <1>1
<1>5. After(in0, i - 1) = <<e>> \o After(in0, i)
  <2> HIDE DEF got
  <2>1. SubSeq(got, i - 1, Len(got)) = <<got[i - 1]>> \o SubSeq(got, i, Len(got))
    BY <1>3, <1>4, FirstAndRest
  <2> QED
    BY <2>1 DEF After, got
<1> HIDE DEF got, rs, n
<1>6. e \in Every(in0) /\ e \in Events
  BY <1>2, <1>3, <1>4
<1> HIDE DEF e
<1>7. Curve!Result(After(in0, i - 1)) = Curve!Drives(e) + Curve!Result(After(in0, i))
  <2>1. <<e>> \in Seq(Events) /\ After(in0, i) \in Seq(Events)
    BY <1>1, <1>4, <1>6
  <2>2. Curve!Result(<<e>> \o After(in0, i)) = Curve!Result(<<e>>) + Curve!Result(After(in0, i))
    BY <2>1, ResultBoth
  <2> QED
    BY <1>5, <1>6, <2>2, ResultOfOne
<1>8. Curve!EventsOf(in0, {rs[i - 1].time}) = <<e>>
  <2>1. rs[i - 1].time = e.time
    BY <1>1, <1>4 DEF e
  <2> QED
    BY <1>6, <2>1, OneAtATime
<1>9. rs[i].equity - rs[i - 1].equity = Curve!Drives(e)
  <2>1. Curve!Drives(e) \in Int /\ Curve!Result(After(in0, i)) \in Int
    BY <1>1, <1>4, <1>6, EventParts
  <2>2. /\ rs[i].equity = Curve!Current(in0) - Curve!Result(After(in0, i))
        /\ rs[i - 1].equity = Curve!Current(in0) - Curve!Result(After(in0, i - 1))
    BY <1>1, <1>4
  <2> QED
    BY <1>1, <1>7, <2>1, <2>2
<1>10. Curve!Result(<<e>>) = Curve!Drives(e)
  BY <1>6, ResultOfOne
<1> QED
  BY <1>8, <1>9, <1>10 DEF rs

(* Without transfers and with a range that ends after the last event, what is   *)
(* noted for an event is the equity right before it: what the account started   *)
(* with and all it earned until then (build_equity_backfill).                   *)
THEOREM EquityIsThatBefore ==
  ASSUME NEW in0, Income(in0)
  PROVE  Curve!EquityBefore(in0)
<1> SUFFICES ASSUME Curve!Distinct(in0), \A i \in DOMAIN in0.events : in0.events[i].type = "pnl",
                    \A i \in DOMAIN in0.events : in0.events[i].time < in0.end,
                    NEW i \in DOMAIN Curve!Records(in0)
             PROVE  Curve!Records(in0)[i].equity =
                      in0.equity + Curve!Result(Curve!EventsOf(in0, 0 .. Curve!Records(in0)[i].time - 1))
  BY DEF Curve!EquityBefore
<1> DEFINE s == in0.events
           got == Curve!Fetched(in0)
           rs == Curve!Records(in0)
           n == Len(got)
           at == got[i].time
           earlier == Curve!EventsOf(in0, 0 .. at - 1)
           later == After(in0, i)
<1>1. /\ n \in Nat /\ DOMAIN rs = 1 .. n /\ Curve!Current(in0) \in Int
      /\ \A j \in 1 .. n : /\ rs[j].time = got[j].time /\ got[j].time \in Nat
                           /\ rs[j].equity = Curve!Current(in0) - Curve!Result(After(in0, j))
                           /\ After(in0, j) \in Seq(Events) /\ Curve!Result(After(in0, j)) \in Int
  BY RecordsAre
<1>2. PICK c \in Nat : /\ in0.start <= c
                       /\ Elements(got) = {e \in Within(in0, in0.start .. in0.end) : e.time < c}
                       /\ \A e \in Within(in0, c .. in0.end) : e.time = in0.end
  BY FetchedHolds
<1>3. Climbs(Events, Time, got) /\ Climbs(Events, Time, s)
  BY FetchedHolds, EventsClimb
<1>4. /\ in0.start \in Nat /\ in0.end \in Nat /\ in0.equity \in Int /\ s \in Seq(Events) /\ Len(s) \in Nat
      /\ \A e \in Every(in0) : e.time \in Nat /\ Time[e] = e.time
  BY IncomeParts
<1>5. DOMAIN s = 1 .. Len(s) /\ \A j \in 1 .. Len(s) : s[j] \in Events /\ s[j].type = "pnl"
  <2>1. DOMAIN s = 1 .. Len(s) /\ \A j \in 1 .. Len(s) : s[j] \in Events
    BY <1>4
  <2> QED
    BY <2>1
<1>6. \A e \in Every(in0) : e.time < in0.end
  BY <1>5 DEF Every, Elements
<1>7. i \in 1 .. n /\ rs[i].time = at /\ at \in Nat
  BY <1>1
<1>8. Curve!Current(in0) = in0.equity + Curve!Result(s)
  <2>1. [j \in DOMAIN s |-> s[j].amount] = [j \in DOMAIN s |-> Curve!Drives(s[j])]
    BY <1>5, EventParts
  <2> QED
    BY <2>1 DEF Curve!Current, Curve!Result
<1> HIDE DEF s, got, rs, n, at
<1>9. ASSUME NEW e PROVE e \in Elements(got) <=> e \in Every(in0) /\ in0.start <= e.time
  <2>1. e \in Elements(got) => e \in Every(in0) /\ in0.start <= e.time
    BY <1>2, <1>4 DEF Within
  <2>2. ASSUME e \in Every(in0), in0.start <= e.time PROVE e \in Elements(got)
    <3>1. e.time \in Nat /\ e.time < in0.end
      BY <1>4, <1>6, <2>2
    <3>2. ~(c <= e.time)
      <4>1. c <= e.time => e \in Within(in0, c .. in0.end)
        BY <1>4, <2>2, <3>1 DEF Within
      <4> QED
        BY <1>2, <1>4, <3>1, <4>1
    <3> QED
      BY <1>2, <1>4, <2>2, <3>1, <3>2 DEF Within
  <2> QED
    BY <2>1, <2>2
<1>10. /\ got \in Seq(Events) /\ (\A j \in 1 .. n : got[j] \in Elements(got) /\ got[j].time \in Nat)
       /\ \A j, k \in 1 .. n : j < k => got[j].time < got[k].time
  BY <1>3, EventsRise DEF n
<1>11. Climbs(Events, Time, earlier) /\ Elements(earlier) = Within(in0, 0 .. at - 1)
  BY EventsOfTimes
<1>12. Climbs(Events, Time, later) /\ \A x : x \in Elements(later) <=> x \in Every(in0) /\ at <= x.time
  <2>1. Climbs(Events, Time, later) /\ \A x : x \in Elements(later) <=> \E j \in i .. n : x = got[j]
    <3>1. i \in Nat \ {0} /\ n \in Nat /\ n <= Len(got) /\ i <= n + 1
      BY <1>1, <1>7 DEF n
    <3>2. later = SubSeq(got, i, n)
      BY DEF After, got, n
    <3> HIDE DEF later
    <3>3. Climbs(Events, Time, SubSeq(got, i, n)) /\ \A x : x \in Elements(SubSeq(got, i, n)) <=> \E j \in i .. n : x = got[j]
      BY <1>3, <3>1, EventsPart
    <3> QED
      BY <3>2, <3>3
  <2> HIDE DEF later
  <2>2. ASSUME NEW x, x \in Elements(later) PROVE x \in Every(in0) /\ at <= x.time
    <3>1. PICK j \in i .. n : x = got[j]
      BY <2>1, <2>2
    <3>2. j \in 1 .. n /\ (i = j \/ i < j)
      BY <1>1, <1>7
    <3>3. x \in Every(in0)
      BY <1>9, <1>10, <3>1, <3>2
    <3> QED
      BY <1>7, <1>10, <3>1, <3>2, <3>3 DEF at
  <2>3. ASSUME NEW x, x \in Every(in0), at <= x.time PROVE x \in Elements(later)
    <3>1. in0.start <= at /\ x.time \in Nat
      <4>1. got[i] \in Elements(got)
        BY <1>7, <1>10
      <4> QED
        BY <1>4, <1>9, <2>3, <4>1 DEF at
    <3>2. x \in Elements(got)
      BY <1>4, <1>7, <1>9, <2>3, <3>1
    <3>3. PICK j \in 1 .. n : x = got[j]
      BY <3>2 DEF Elements, n
    <3>4. ~(j < i)
      BY <1>7, <1>10, <2>3, <3>3 DEF at
    <3>5. j \in i .. n
      BY <1>1, <1>7, <3>4
    <3> QED
      BY <2>1, <3>3, <3>5
  <2> QED
    BY <2>1, <2>2, <2>3
<1> HIDE DEF earlier, later
<1>13. s = earlier \o later
  <2>1. Before(Time, earlier, later)
    <3>1. ASSUME NEW x \in Elements(earlier), NEW y \in Elements(later) PROVE Time[x] < Time[y]
      <4>1. x \in Every(in0) /\ x.time <= at - 1 /\ y \in Every(in0) /\ at <= y.time
        BY <1>7, <1>11, <1>12 DEF Within
      <4> QED
        BY <1>4, <1>7, <4>1
    <3> QED
      BY <3>1 DEF Before
  <2>2. /\ Climbs(Events, Time, earlier \o later)
        /\ \A x : x \in Elements(earlier \o later) <=> x \in Elements(earlier) \/ x \in Elements(later)
    BY <1>11, <1>12, <2>1, EventsJoined
  <2>3. ASSUME NEW x PROVE x \in Elements(s) <=> x \in Elements(earlier) \/ x \in Elements(later)
    <3>1. Elements(s) = Every(in0)
      BY DEF Every, s
    <3>2. x \in Every(in0) => x.time \in Nat /\ (x.time \in 0 .. at - 1 \/ at <= x.time)
      BY <1>4, <1>7
    <3> QED
      BY <1>11, <1>12, <3>1, <3>2 DEF Within
  <2> DEFINE both == earlier \o later
  <2>4. Elements(s) = Elements(both)
    BY <2>2, <2>3
  <2>5. Climbs(Events, Time, both)
    BY <2>2
  <2> HIDE DEF both
  <2>6. s = both
    BY <1>3, <2>4, <2>5, SameRising
  <2> QED
    BY <2>6 DEF both
<1>14. Curve!Result(s) = Curve!Result(earlier) + Curve!Result(later)
       /\ Curve!Result(earlier) \in Int /\ Curve!Result(later) \in Int
  <2>1. earlier \in Seq(Events) /\ later \in Seq(Events)
    BY <1>11, <1>12 DEF Climbs
  <2> QED
    BY <1>13, <2>1, ResultBoth, ResultType
<1>15. rs[i].equity = Curve!Current(in0) - Curve!Result(later)
  BY <1>1, <1>7 DEF later
<1>16. rs[i].equity = in0.equity + Curve!Result(earlier)
  BY <1>4, <1>8, <1>14, <1>15
<1> QED
  BY <1>7, <1>16 DEF rs, earlier

-----------------------------------------------------------------------------
(* The rebuilt curve.                                                           *)
Noted == [time : Nat, equity : Int]
At == [r \in Noted |-> r.time]

LEMMA NotedParts ==
  /\ At \in [Noted -> Int]
  /\ \A r \in Noted : r.time \in Nat /\ r.equity \in Int /\ At[r] = r.time
  /\ \A r \in Noted : \A t \in Nat : [r EXCEPT !.time = t] \in Noted /\ [r EXCEPT !.time = t].time = t
  BY DEF Noted, At

LEMMA NotedRise ==
  ASSUME NEW s, Climbs(Noted, At, s)
  PROVE  /\ s \in Seq(Noted) /\ Len(s) \in Nat /\ DOMAIN s = 1 .. Len(s)
         /\ \A i \in 1 .. Len(s) : s[i] \in Noted /\ s[i].time \in Nat
         /\ \A i, j \in 1 .. Len(s) : i < j => s[i].time < s[j].time
<1>1. s \in Seq(Noted) /\ Rising(s, At)
  BY DEF Climbs
<1>2. Len(s) \in Nat /\ DOMAIN s = 1 .. Len(s) /\ \A i \in 1 .. Len(s) : s[i] \in Noted
  BY <1>1
<1>3. \A i \in 1 .. Len(s) : s[i].time \in Nat /\ At[s[i]] = s[i].time
  BY <1>2, NotedParts
<1> QED
  BY <1>1, <1>2, <1>3 DEF Rising

LEMMA RecordsRise ==
  ASSUME NEW in0, Income(in0), Curve!Distinct(in0)
  PROVE  Climbs(Noted, At, Curve!Records(in0))
<1> DEFINE got == Curve!Fetched(in0)
           rs == Curve!Records(in0)
<1>1. /\ Len(rs) = Len(got) /\ rs \in Seq(Noted)
      /\ \A i \in 1 .. Len(got) : rs[i].time = got[i].time
  BY RecordsAre DEF Noted
<1>2. Climbs(Events, Time, got)
  BY FetchedHolds
<1> HIDE DEF got, rs
<1>3. \A i, j \in 1 .. Len(got) : i < j => got[i].time < got[j].time
  BY <1>2, EventsRise
<1>4. \A i \in 1 .. Len(rs) : At[rs[i]] = rs[i].time
  <2>1. \A i \in 1 .. Len(rs) : rs[i] \in Noted
    BY <1>1
  <2> QED
    BY <2>1, NotedParts
<1>5. Rising(rs, At)
  BY <1>1, <1>3, <1>4 DEF Rising
<1> QED
  BY <1>1, <1>5, NotedParts DEF Climbs, rs

LEMMA TrimmedRises ==
  ASSUME NEW in0, Income(in0), Curve!Distinct(in0)
  PROVE  Climbs(Noted, At, Curve!Trimmed(in0))
<1> DEFINE rs == Curve!Records(in0)
           S == {r \in Curve!Range(rs) : r.equity >= 0}
           kept == Curve!Kept(rs, S)
           Big(i) == \A j \in DOMAIN kept : 50 * kept[i].equity >= kept[j].equity
           first == {i \in DOMAIN kept : Big(i) /\ \A j \in 1 .. i - 1 : ~Big(j)}
           k == CHOOSE i \in first : TRUE
<1>1. Climbs(Noted, At, rs)
  BY RecordsRise
<1>2. Curve!Trimmed(in0) = IF first = {} THEN kept ELSE SubSeq(kept, k, Len(kept))
  BY DEF Curve!Trimmed, Curve!FromTheFirstBig
<1> HIDE DEF rs, S
<1>3. Climbs(Noted, At, kept)
  <2>1. rs \in Seq(Noted) /\ Len(rs) \in 0 .. Len(rs)
    <3>1. rs \in Seq(Noted)
      BY <1>1 DEF Climbs
    <3> QED
      BY <3>1
  <2>2. kept = Sifted(rs, S, Len(rs))
    BY <2>1, KeptIs
  <2> HIDE DEF kept
  <2>3. Climbs(Noted, At, Sifted(rs, S, Len(rs)))
    BY <1>1, <2>1, SiftedRising
  <2> QED
    BY <2>2, <2>3
<1> HIDE DEF kept, Big
<1>4. Len(kept) \in Nat /\ DOMAIN kept = 1 .. Len(kept)
  BY <1>3, NotedRise
<1>5. CASE first = {}
  BY <1>2, <1>3, <1>5
<1>6. CASE first # {}
  <2>1. k \in 1 .. Len(kept)
    BY <1>4, <1>6
  <2> HIDE DEF k, first
  <2>2. k \in Nat \ {0} /\ k <= Len(kept) + 1
    BY <1>4, <2>1
  <2>3. Climbs(Noted, At, SubSeq(kept, k, Len(kept)))
    BY <1>3, <1>4, <2>2, RisingPart
  <2> QED
    BY <1>2, <1>6, <2>3
<1> QED
  BY <1>5, <1>6

LEMMA CurveCardinality == ASSUME NEW S PROVE Curve!Cardinality(S) = Cardinality(S)
  BY DEF Curve!Cardinality, Cardinality

(* As many idle days as fit before the next record.                             *)
LEMMA IdleCount ==
  ASSUME NEW from \in Nat, NEW to \in Nat, from < to,
         NEW k, k = Curve!Cardinality(Curve!IdleDays(from, to))
  PROVE  k \in Nat /\ to <= from + k * Curve!Day + 6 /\ from + k * Curve!Day < to
<1> DEFINE m == IF to - from > 6 THEN (to - from - 3) \div 4 ELSE 0
           idle == Curve!IdleDays(from, to)
           f == [j \in 1 .. m |-> from + 4 * j]
<1>1. Curve!Day = 4
  BY DEF Curve!Day
<1>2. m \in Nat /\ 4 * m <= to - from /\ \A j \in Nat \ {0} : j <= m <=> from + 4 * j < to - 2
  OBVIOUS
<1>3. to <= from + 4 * m + 6 /\ from + 4 * m < to
  OBVIOUS
<1> HIDE DEF m
<1>4. idle = {t \in from + 4 .. to : (t - from) % 4 = 0 /\ t < to - 2}
  <2>1. 4 \div 2 = 2
    OBVIOUS
  <2> QED
    BY <1>1, <2>1 DEF Curve!IdleDays
<1> HIDE DEF idle
<1>5. f \in Bijection(1 .. m, idle)
  <2>1. \A j \in 1 .. m : from + 4 * j \in idle
    <3> TAKE j \in 1 .. m
    <3>1. j \in Nat \ {0} /\ from + 4 * j < to - 2 /\ ((from + 4 * j) - from) % 4 = 0 /\ from + 4 * j \in from + 4 .. to
      BY <1>2
    <3> QED
      BY <1>4, <3>1
  <2>2. \A t \in idle : \E j \in 1 .. m : from + 4 * j = t
    <3> TAKE t \in idle
    <3>1. t \in Int /\ t >= from + 4 /\ (t - from) % 4 = 0 /\ t < to - 2
      BY <1>4
    <3> DEFINE j == (t - from) \div 4
    <3>2. j \in Nat \ {0} /\ from + 4 * j = t
      BY <3>1
    <3> HIDE DEF j
    <3>3. j <= m
      BY <1>2, <3>1, <3>2
    <3> QED
      BY <1>2, <3>2, <3>3
  <2>3. \A i, j \in 1 .. m : from + 4 * i = from + 4 * j => i = j
    BY <1>2
  <2> QED
    BY <2>1, <2>2, <2>3 DEF Bijection, Injection, Surjection, IsInjective
<1>6. Cardinality(idle) = m
  <2>1. IsFiniteSet(1 .. m) /\ Cardinality(1 .. m) = m
    <3>1. IsFiniteSet(1 .. m) /\ Cardinality(1 .. m) = IF 1 > m THEN 0 ELSE m - 1 + 1
      <4>1. 1 \in Int /\ m \in Int
        BY <1>2
      <4> QED
        BY <4>1, FS_Interval
    <3> QED
      BY <1>2, <3>1
  <2>2. ExistsBijection(1 .. m, idle)
    BY <1>5 DEF ExistsBijection
  <2> QED
    BY <2>1, <2>2, FS_Bijection
<1>7. k = m
  BY <1>6, CurveCardinality DEF idle
<1> QED
  BY <1>1, <1>2, <1>3, <1>7

-----------------------------------------------------------------------------
(* Records in order, none more than a day and a half after the one before.      *)
Near(r, q) == r.time < q.time /\ q.time <= r.time + 6
Steady(s) == s \in Seq(Noted) /\ \A i \in 2 .. Len(s) : Near(s[i - 1], s[i])

LEMMA SteadyBoth ==
  ASSUME NEW s, NEW t, Steady(s), Steady(t), Len(s) > 0, Len(t) > 0, Near(s[Len(s)], t[1])
  PROVE  Steady(s \o t) /\ Len(s \o t) > 0 /\ (s \o t)[Len(s \o t)] = t[Len(t)] /\ (s \o t)[1] = s[1]
<1> DEFINE u == s \o t
<1>1. s \in Seq(Noted) /\ t \in Seq(Noted) /\ Len(s) \in Nat /\ Len(t) \in Nat
  BY DEF Steady
<1>2. /\ u \in Seq(Noted) /\ Len(u) = Len(s) + Len(t)
      /\ \A i \in 1 .. Len(s) : u[i] = s[i]
      /\ \A i \in 1 .. Len(t) : u[Len(s) + i] = t[i]
  BY <1>1
<1> HIDE DEF u
<1>3. ASSUME NEW i \in 2 .. Len(u) PROVE Near(u[i - 1], u[i])
  <2>1. CASE i <= Len(s)
    <3>1. i \in 2 .. Len(s) /\ i \in 1 .. Len(s) /\ i - 1 \in 1 .. Len(s)
      BY <1>1, <2>1
    <3> QED
      BY <1>2, <3>1 DEF Steady
  <2>2. CASE i = Len(s) + 1
    <3>1. i - 1 = Len(s) /\ Len(s) \in 1 .. Len(s) /\ 1 \in 1 .. Len(t)
      BY <1>1, <2>2
    <3> QED
      BY <1>2, <2>2, <3>1
  <2>3. CASE i > Len(s) + 1
    <3> DEFINE j == i - Len(s)
    <3>1. j \in 2 .. Len(t) /\ j \in 1 .. Len(t) /\ j - 1 \in 1 .. Len(t) /\ i = Len(s) + j /\ i - 1 = Len(s) + (j - 1)
      BY <1>1, <1>2, <2>3
    <3> HIDE DEF j
    <3>2. Near(t[j - 1], t[j])
      BY <3>1 DEF Steady
    <3> QED
      BY <1>2, <3>1, <3>2
  <2> QED
    BY <1>1, <2>1, <2>2, <2>3
<1>4. Steady(u)
  BY <1>2, <1>3 DEF Steady
<1>5. u[Len(u)] = t[Len(t)] /\ u[1] = s[1] /\ Len(u) > 0
  <2>1. Len(t) \in 1 .. Len(t) /\ 1 \in 1 .. Len(s)
    BY <1>1
  <2> QED
    BY <1>1, <1>2, <2>1
<1> QED
  BY <1>4, <1>5 DEF u

LEMMA OneAndRest ==
  ASSUME NEW V, NEW r \in V, NEW t \in Seq(V), NEW u, u = <<r>> \o t
  PROVE  u \in Seq(V) /\ Len(u) = Len(t) + 1 /\ u[1] = r /\ \A n \in 1 .. Len(t) : u[1 + n] = t[n]
  OBVIOUS

(* A record and the idle days after it, as far as the next.                     *)
LEMMA BlockIs ==
  ASSUME NEW r \in Noted, NEW idle, NEW k \in Nat, k = Curve!Cardinality(idle),
         NEW block, block = Curve!Block(r, idle)
  PROVE  /\ Steady(block) /\ Len(block) = k + 1 /\ block[1] = r
         /\ block[k + 1] \in Noted /\ block[k + 1].time = r.time + k * 4
<1> DEFINE moved(n) == [r EXCEPT !.time = @ + n * 4]
           later == [n \in 1 .. k |-> moved(n)]
<1>1. block = <<r>> \o later
  BY DEF Curve!Block, Curve!Day
<1>2. r.time \in Nat /\ \A n \in 1 .. k : n \in Nat /\ r.time + n * 4 \in Nat
  BY NotedParts
<1>3. \A n \in 1 .. k : moved(n) \in Noted /\ moved(n).time = r.time + n * 4
  <2> TAKE n \in 1 .. k
  <2>1. moved(n) = [r EXCEPT !.time = r.time + n * 4]
    OBVIOUS
  <2> QED
    BY <1>2, <2>1, NotedParts
<1> HIDE DEF moved
<1>4. later \in Seq(Noted) /\ Len(later) = k /\ \A n \in 1 .. k : later[n].time = r.time + n * 4
  BY <1>3
<1> HIDE DEF later
<1>6. /\ block \in Seq(Noted) /\ Len(block) = k + 1 /\ block[1] = r
      /\ \A n \in 1 .. k : block[1 + n] = later[n]
  BY <1>1, <1>4, OneAndRest
<1>7. \A n \in 1 .. k + 1 : block[n].time = r.time + (n - 1) * 4 /\ block[n] \in Noted
  <2> TAKE n \in 1 .. k + 1
  <2>1. CASE n = 1
    BY <1>2, <1>6, <2>1
  <2>2. CASE n # 1
    <3>1. n - 1 \in 1 .. k /\ 1 + (n - 1) = n
      BY <2>2
    <3>2. block[n] = later[n - 1] /\ later[n - 1].time = r.time + (n - 1) * 4
      BY <1>4, <1>6, <3>1
    <3>3. later[n - 1] \in Noted
      BY <1>4, <3>1
    <3> QED
      BY <3>2, <3>3
  <2> QED
    BY <2>1, <2>2
<1>8. Steady(block)
  <2>1. ASSUME NEW n \in 2 .. Len(block) PROVE Near(block[n - 1], block[n])
    <3>1. n \in 1 .. k + 1 /\ n - 1 \in 1 .. k + 1
      BY <1>6
    <3>2. block[n - 1].time = r.time + ((n - 1) - 1) * 4 /\ block[n].time = r.time + (n - 1) * 4
      BY <1>7, <3>1
    <3> QED
      BY <1>2, <3>1, <3>2 DEF Near
  <2> QED
    BY <1>6, <2>1 DEF Steady
<1>9. k + 1 \in 1 .. k + 1 /\ (k + 1) - 1 = k
  OBVIOUS
<1> QED
  BY <1>6, <1>7, <1>8, <1>9

(* The blocks in a row.                                                         *)
RowsOf(rs) ==
    [i \in DOMAIN rs |->
        Curve!Block(rs[i], IF i < Len(rs) THEN Curve!IdleDays(rs[i].time, rs[i + 1].time) ELSE {})]
Rows(rs, f) == f = [i \in 1 .. Len(RowsOf(rs)) |-> IF i = 1 THEN RowsOf(rs)[i] ELSE f[i - 1] \o RowsOf(rs)[i]]

LEMMA RowIs ==
  ASSUME NEW rs, Climbs(Noted, At, rs), NEW i \in 1 .. Len(rs)
  PROVE  LET row == RowsOf(rs)[i]
         IN  /\ Steady(row) /\ Len(row) > 0 /\ row[1] = rs[i]
             /\ i < Len(rs) => Near(row[Len(row)], rs[i + 1])
<1> DEFINE row == RowsOf(rs)[i]
           idle == IF i < Len(rs) THEN Curve!IdleDays(rs[i].time, rs[i + 1].time) ELSE {}
           k == Curve!Cardinality(idle)
<1>1. /\ Len(rs) \in Nat /\ DOMAIN rs = 1 .. Len(rs)
      /\ \A j \in 1 .. Len(rs) : rs[j] \in Noted /\ rs[j].time \in Nat
      /\ \A j, l \in 1 .. Len(rs) : j < l => rs[j].time < rs[l].time
  BY NotedRise
<1>2. row = Curve!Block(rs[i], idle)
  BY <1>1 DEF RowsOf
<1>3. CASE i < Len(rs)
  <2> DEFINE from == rs[i].time
             to == rs[i + 1].time
  <2>1. from \in Nat /\ to \in Nat /\ from < to /\ rs[i + 1] \in Noted
    <3>1. i + 1 \in 1 .. Len(rs) /\ i < i + 1
      BY <1>1, <1>3
    <3> QED
      BY <1>1, <3>1
  <2>2. k = Curve!Cardinality(Curve!IdleDays(from, to))
    BY <1>3
  <2> HIDE DEF k, from, to
  <2>3. k \in Nat /\ to <= from + k * 4 + 6 /\ from + k * 4 < to
    BY <2>1, <2>2, IdleCount DEF Curve!Day
  <2> HIDE DEF idle
  <2>4. /\ Steady(row) /\ Len(row) = k + 1 /\ row[1] = rs[i]
        /\ row[k + 1] \in Noted /\ row[k + 1].time = rs[i].time + k * 4
    <3>1. k = Curve!Cardinality(idle) /\ rs[i] \in Noted
      BY <1>1 DEF k
    <3> QED
      BY <1>2, <2>3, <3>1, BlockIs
  <2> HIDE DEF row
  <2>5. Near(row[k + 1], rs[i + 1])
    BY <2>1, <2>3, <2>4 DEF Near, from, to
  <2> QED
    BY <2>3, <2>4, <2>5 DEF row
<1>4. CASE ~(i < Len(rs))
  <2>1. k = 0
    <3>1. idle = {} /\ Cardinality({}) = 0
      BY <1>4, FS_EmptySet
    <3> QED
      BY <3>1, CurveCardinality
  <2> HIDE DEF k, idle
  <2>2. /\ Steady(row) /\ Len(row) = k + 1 /\ row[1] = rs[i]
    <3>1. k = Curve!Cardinality(idle) /\ rs[i] \in Noted /\ k \in Nat
      BY <1>1, <2>1 DEF k
    <3> QED
      BY <1>2, <3>1, BlockIs
  <2> QED
    BY <1>4, <2>1, <2>2
<1> QED
  BY <1>3, <1>4

-----------------------------------------------------------------------------
LEMMA RowsLength ==
  ASSUME NEW rs, Climbs(Noted, At, rs)
  PROVE  /\ RowsOf(rs) \in Seq(Seq(Noted)) /\ Len(RowsOf(rs)) = Len(rs) /\ Len(rs) \in Nat
         /\ DOMAIN RowsOf(rs) = 1 .. Len(rs)
<1> DEFINE rows == RowsOf(rs)
<1>1. Len(rs) \in Nat /\ DOMAIN rs = 1 .. Len(rs)
  BY NotedRise
<1>2. rows = [i \in 1 .. Len(rs) |-> rows[i]]
  BY <1>1 DEF RowsOf
<1>3. \A i \in 1 .. Len(rs) : rows[i] \in Seq(Noted)
  BY RowIs DEF Steady
<1> HIDE DEF rows
<1>4. rows \in [1 .. Len(rs) -> Seq(Noted)]
  BY <1>2, <1>3
<1> DEFINE V == Seq(Noted)
<1>5. rows \in [1 .. Len(rs) -> V]
  BY <1>4
<1> HIDE DEF V
<1>6. rows \in Seq(V) /\ Len(rows) = Len(rs) /\ DOMAIN rows = 1 .. Len(rs)
  BY <1>1, <1>5
<1> QED
  BY <1>1, <1>6 DEF rows, V

LEMMA RowsExist ==
  ASSUME NEW rs, Climbs(Noted, At, rs)
  PROVE  \E f : Rows(rs, f)
<1> DEFINE n == Len(rs)
           S == 1 .. n
           V == Seq(Noted)
           rows == RowsOf(rs)
           next == [i \in S |-> IF i = 1 THEN i ELSE i - 1]
           step == [x \in S \X V |-> x[2] \o rows[x[1]]]
           measure == [i \in S |-> i]
           stop == {1}
<1>1. n \in Nat /\ rows \in [S -> V] /\ Len(rows) = n
  <2>1. rows \in Seq(V) /\ Len(rows) = n /\ n \in Nat /\ DOMAIN rows = S
    BY RowsLength
  <2> HIDE DEF rows, V
  <2> QED
    BY <2>1
<1>2. \A v, w \in V : v \o w \in V
  OBVIOUS
<1> HIDE DEF rows, V, n
<1>3. next \in [S -> S] /\ measure \in [S -> Nat] /\ \A i \in S \ stop : measure[next[i]] < measure[i]
  BY <1>1
<1>4. step \in [S \X V -> V]
  <2> SUFFICES ASSUME NEW x \in S \X V PROVE x[2] \o rows[x[1]] \in V
    OBVIOUS
  <2>1. x[1] \in S /\ x[2] \in V
    OBVIOUS
  <2> QED
    BY <1>1, <1>2, <2>1
<1>5. ASSUME NEW i \in S, NEW v \in V PROVE step[<<i, v>>] = v \o rows[i]
  <2>1. <<i, v>> \in S \X V
    OBVIOUS
  <2> QED
    BY <2>1
<1>6. \A i \in S : i # 1 => next[i] = i - 1 /\ i - 1 \in S
  BY <1>1
<1> HIDE DEF S, next, step, measure, stop
<1>7. PICK f \in [S -> V] : \A x \in S : f[x] = IF x \in stop THEN rows[x] ELSE step[<<x, f[next[x]]>>]
  <2>1. Descends(S, V, stop, rows, next, step, measure)
    BY <1>1, <1>3, <1>4 DEF Descends
  <2> QED
    BY <2>1, Recursion
<1>8. ASSUME NEW i \in S PROVE f[i] = IF i = 1 THEN rows[i] ELSE f[i - 1] \o rows[i]
  <2>1. CASE i = 1
    BY <1>7, <2>1 DEF stop
  <2>2. CASE i # 1
    <3>1. i \notin stop
      BY <2>2 DEF stop
    <3>2. f[i] = step[<<i, f[i - 1]>>] /\ f[i - 1] \in V
      BY <1>6, <1>7, <2>2, <3>1
    <3> QED
      BY <1>5, <2>2, <3>2
  <2> QED
    BY <2>1, <2>2
<1>9. f = [i \in S |-> IF i = 1 THEN rows[i] ELSE f[i - 1] \o rows[i]]
  BY <1>7, <1>8
<1> QED
  BY <1>1, <1>9 DEF Rows, S, n, rows

(* The rows in a row are steady, and end shortly before the next record.        *)
LEMMA FilledIsSteady ==
  ASSUME NEW rs, Climbs(Noted, At, rs)
  PROVE  Steady(Curve!WithIdleDays(rs))
<1> DEFINE n == Len(rs)
           rows == RowsOf(rs)
           f == CHOOSE g : Rows(rs, g)
<1>1. n \in Nat /\ Len(rows) = n /\ rows \in Seq(Seq(Noted))
  BY RowsLength
<1>2. Curve!WithIdleDays(rs) = IF Len(rows) = 0 THEN rows ELSE f[Len(rows)]
  BY DEF Curve!WithIdleDays, Curve!FlattenSeq, RowsOf, Rows
<1>3. Rows(rs, f)
  BY RowsExist
<1> HIDE DEF f
<1>4. \A i \in 1 .. n : f[i] = IF i = 1 THEN rows[i] ELSE f[i - 1] \o rows[i]
  BY <1>1, <1>3 DEF Rows
<1>5. \A i \in 1 .. n : /\ Steady(rows[i]) /\ Len(rows[i]) > 0 /\ rows[i][1] = rs[i]
                        /\ i < n => Near(rows[i][Len(rows[i])], rs[i + 1])
  BY RowIs
<1> HIDE DEF rows, n
<1>6. CASE n = 0
  <2>1. rows \in Seq(Noted) /\ Len(rows) = 0
    BY <1>1, <1>6
  <2>2. Steady(rows)
    BY <2>1 DEF Steady
  <2> QED
    BY <1>1, <1>2, <1>6, <2>2
<1>7. CASE n # 0
  <2> DEFINE Good(i) == Steady(f[i]) /\ Len(f[i]) > 0 /\ f[i][Len(f[i])] = rows[i][Len(rows[i])]
             T == {m \in Nat : m + 1 <= n => Good(m + 1)}
  <2>1. 0 \in T
    <3>1. 0 + 1 = 1 /\ 1 \in 1 .. n
      BY <1>1, <1>7
    <3>2. f[1] = rows[1] /\ Steady(rows[1]) /\ Len(rows[1]) > 0
      BY <1>4, <1>5, <3>1
    <3> QED
      BY <3>1, <3>2
  <2>2. ASSUME NEW m \in Nat, m \in T PROVE m + 1 \in T
    <3> SUFFICES ASSUME (m + 1) + 1 <= n PROVE Good((m + 1) + 1)
      OBVIOUS
    <3> DEFINE i == m + 1
               j == (m + 1) + 1
    <3>1. i \in 1 .. n /\ j \in 1 .. n /\ i < n /\ j = i + 1 /\ j # 1 /\ j - 1 = i
      BY <1>1
    <3>2. Good(i)
      BY <1>1, <2>2
    <3> HIDE DEF i, j
    <3>3. f[j] = f[i] \o rows[j]
      BY <1>4, <3>1
    <3>4. Steady(rows[j]) /\ Len(rows[j]) > 0 /\ rows[j][1] = rs[i + 1] /\ Near(rows[i][Len(rows[i])], rs[i + 1])
      BY <1>5, <3>1
    <3>5. Near(f[i][Len(f[i])], rows[j][1])
      BY <3>2, <3>4
    <3> DEFINE a == f[i]
               b == rows[j]
    <3>6. Steady(a) /\ Steady(b) /\ Len(a) > 0 /\ Len(b) > 0 /\ Near(a[Len(a)], b[1])
      BY <3>2, <3>4, <3>5
    <3> HIDE DEF a, b
    <3>7. Steady(a \o b) /\ Len(a \o b) > 0 /\ (a \o b)[Len(a \o b)] = b[Len(b)]
      BY <3>6, SteadyBoth
    <3>8. Good(j)
      BY <3>3, <3>7 DEF a, b
    <3> HIDE DEF Good
    <3> QED
      BY <3>8 DEF j
  <2>3. Nat \subseteq T
    <3> HIDE DEF T
    <3> QED
      BY <2>1, <2>2, Induction
  <2>4. Good(n)
    <3>1. n - 1 \in Nat /\ (n - 1) + 1 = n /\ n <= n
      BY <1>1, <1>7
    <3>2. n - 1 \in T
      <4> HIDE DEF T
      <4> QED
        BY <2>3, <3>1
    <3> HIDE DEF Good
    <3> QED
      BY <3>1, <3>2
  <2> QED
    BY <1>1, <1>2, <1>7, <2>4
<1> QED
  BY <1>6, <1>7

(* The rebuilt curve never goes back in time and has no silence of more than a  *)
(* day and a half between two records (build_equity_backfill, detect_gaps).     *)
THEOREM CurveIsDense ==
  ASSUME NEW in0, Income(in0)
  PROVE  Curve!NoLongSilence(in0)
<1> SUFFICES ASSUME Curve!Distinct(in0) PROVE Curve!Dense(Curve!Times(Curve!Filled(in0)))
  BY DEF Curve!NoLongSilence
<1> DEFINE s == Curve!Filled(in0)
           t == Curve!Times(s)
<1>1. Steady(s)
  BY TrimmedRises, FilledIsSteady DEF Curve!Filled
<1> HIDE DEF s
<1>2. s \in Seq(Noted) /\ Len(s) \in Nat /\ DOMAIN s = 1 .. Len(s) /\ \A i \in 1 .. Len(s) : s[i] \in Noted
  <2>1. s \in Seq(Noted)
    BY <1>1 DEF Steady
  <2> QED
    BY <2>1
<1>3. t = [j \in 1 .. Len(s) |-> s[j].time]
  BY <1>2 DEF Curve!Times
<1>4. Len(t) = Len(s) /\ \A i \in 1 .. Len(s) : t[i] = s[i].time /\ t[i] \in Nat
  BY <1>2, <1>3, NotedParts
<1> HIDE DEF t
<1>5. \A i \in 2 .. Len(t) : t[i - 1] < t[i] /\ t[i] - t[i - 1] <= 6
  <2> TAKE i \in 2 .. Len(t)
  <2>1. i \in 1 .. Len(s) /\ i - 1 \in 1 .. Len(s) /\ i \in 2 .. Len(s)
    BY <1>2, <1>4
  <2>2. Near(s[i - 1], s[i])
    BY <1>1, <2>1 DEF Steady
  <2>3. t[i - 1] \in Nat /\ t[i] \in Nat /\ t[i - 1] = s[i - 1].time /\ t[i] = s[i].time
    BY <1>4, <2>1
  <2> QED
    BY <2>2, <2>3 DEF Near
<1>6. Curve!Gaps(t, (3 * Curve!Day) \div 4) = {}
  <2>1. 2 * ((3 * Curve!Day) \div 4) = 6
    BY DEF Curve!Day
  <2>2. \A j \in 2 .. Len(t) : ~(t[j] - t[j - 1] > 6)
    <3> TAKE j \in 2 .. Len(t)
    <3>1. j \in 1 .. Len(s) /\ j - 1 \in 1 .. Len(s)
      BY <1>2, <1>4
    <3> QED
      BY <1>4, <1>5, <3>1
  <2> QED
    BY <2>1, <2>2 DEF Curve!Gaps
<1> QED
  BY <1>5, <1>6 DEF Curve!Dense, t, s

-----------------------------------------------------------------------------
(* The rules one after another.                                                *)

(* The inputs of the rules, as wide as their theorems take them.               *)
Asked ==
    /\ rule = "size" => in \in SizeInputs /\ (in.spec.lot[1] > 0 \/ in.spec.minNotional[1] = 0)
    /\ rule = "order" => in \in [type : DOMAIN Sources!BinanceTypes, orig : DOMAIN Sources!BinanceTypes,
                                 state : DOMAIN Sources!BinanceStates, reduce : BOOLEAN, closes : BOOLEAN]
    /\ rule = "bybit" => in.state \in DOMAIN Sources!Unified
    /\ rule = "position" => /\ in.long \in Nat /\ in.short \in Nat /\ in.size \in Nat \ {0}
                            /\ in.long % in.size = 0 /\ in.short % in.size = 0
    /\ rule = "exits" => /\ in.mark \in Nat /\ in.average \in Nat /\ in.dir \in {"LONG", "SHORT"}
                         /\ \A o \in in.orders : o.stop \in Int
    /\ rule = "window" => in.made \in Int /\ in.account \in Int /\ in.override \in Int /\ in.time \in Int
    /\ rule = "life" => Trade(in) /\ in.start <= in.end /\ in.span > 0 /\ in.end < in.start + 501 * 12
    /\ rule = "result" => /\ in.high \in Int /\ in.low \in Int /\ in.entry \in Int /\ in.exit \in Int
                          /\ in.qty \in Nat
    /\ rule = "backfill" => Income(in)
    /\ rule = "signals" => in \in Signal
    /\ rule = "store" => Stored(in)
    /\ rule = "range" => in.days \in Nat
    /\ rule = "rates" => /\ Dated(in.times) /\ Spaced(in.times) /\ in.until \in Nat \ {0}
                         /\ in.limit \in Nat /\ in.limit >= 2

LEMMA BooksAreLevels == OrderBooks \subseteq Levels
<1> DEFINE K == [price : Int, qty : Int]
<1>1. \A p, q \in Int : Level(p, q) \in K
  BY DEF Level
<1> HIDE DEF K
<1>2. /\ Level(10, 1) \in K /\ Level(12, 2) \in K /\ Level(0, 3) \in K /\ Level(11, 1) \in K /\ Level(15, 5) \in K
      /\ Level(10, 3) \in K /\ Level(50, 9) \in K /\ Level(10, 2) \in K /\ Level(9, 1) \in K /\ Level(7, 3) \in K
  BY <1>1
<1> HIDE DEF Level
<1>3. OrderBooks \subseteq Seq(K)
  BY <1>2 DEF OrderBooks
<1> QED
  BY <1>3 DEF Levels, K

LEMMA PartsOfWholes ==
  /\ \A a \in Nat : \A b \in Nat \ {0} : Over(a, b) \in NonNeg
  /\ \A a, b \in Nat \ {0} : Over(a, b) \in Positive
<1> SUFFICES ASSUME NEW a \in Nat, NEW b \in Nat \ {0}
             PROVE  Over(a, b) \in NonNeg /\ (a # 0 => Over(a, b) \in Positive)
  OBVIOUS
<1>1. Val(Over(a, b), a, b)
  BY ValOver
<1>2. Over(a, b) \in Frac /\ Over(a, b)[1] >= 0 /\ (a > 0 => Over(a, b)[1] > 0)
  BY <1>1, OverFrac, ValSign
<1> QED
  BY <1>2, NonNegIs, PositiveIs

LEMMA SizesAsked ==
  ASSUME NEW i \in Sized \cup GatedSizes
  PROVE  i \in SizeInputs /\ (i.spec.lot[1] > 0 \/ i.spec.minNotional[1] = 0)
<1>1. /\ {Over(2, 5), Over(6, 5), Over(1, 4), Over(1, 5), Over(1, 2), Whole(0), Whole(1), Whole(3), Whole(5), Whole(12)} \subseteq NonNeg
      /\ Over(1, 10) \in Positive /\ Over(1, 4) \in Positive
  BY PartsOfWholes, WholeFrac
<1>2. OrderBooks \subseteq Levels
  BY BooksAreLevels
<1>3. {Over(1, 10), Over(1, 4)} \subseteq NonNeg
  BY <1>1, PositiveIs
<1>4. CASE i \in Sized
  <2>1. PICK l \in {Over(1, 10), Over(1, 4)}, q \in {Whole(0), Over(1, 2)}, n \in {Whole(0), Whole(5), Whole(12)} :
          i.spec = Contract(l, q, n)
    BY <1>4 DEF Sized, Contracts
  <2>2. i.spec \in [lot : NonNeg, minQty : NonNeg, minNotional : NonNeg] /\ i.spec.lot[1] > 0
    BY <1>1, <1>3, <2>1, PositiveIs DEF Contract
  <2>3. i.mult \in NonNeg /\ i.maxExposure \in NonNeg /\ i.maxSector \in NonNeg /\ i.levels \in Levels
    BY <1>1, <1>2, <1>4 DEF Sized
  <2>4. i = [ready |-> i.ready, capable |-> i.capable, atr14 |-> i.atr14, atr100 |-> i.atr100, risk |-> i.risk,
             equity |-> i.equity, avg |-> i.avg, sl |-> i.sl, levels |-> i.levels, mult |-> i.mult,
             spec |-> i.spec, known |-> i.known, count |-> i.count, maxCount |-> i.maxCount,
             notional |-> i.notional, maxExposure |-> i.maxExposure, sector |-> i.sector,
             maxSector |-> i.maxSector]
    BY <1>4 DEF Sized
  <2>5. i.ready \in BOOLEAN /\ i.capable \in BOOLEAN /\ i.known \in BOOLEAN
    <3>1. i.ready \in {TRUE} /\ i.capable \in {TRUE} /\ i.known \in {TRUE}
      BY <1>4, Zenon DEF Sized
    <3>2. {TRUE} \subseteq BOOLEAN
      BY Zenon
    <3> QED
      BY <3>1, <3>2, Zenon
  <2>6. i.atr14 \in {10} /\ i.atr100 \in {1, 5, 12} /\ i.risk \in {1, 2, 4} /\ i.equity \in {100}
    BY <1>4 DEF Sized
  <2>7. i.avg \in {10} /\ i.sl \in {8, 9, 13} /\ i.count \in {0} /\ i.maxCount \in {1}
    BY <1>4 DEF Sized
  <2>8. i.notional \in {0} /\ i.sector \in {0, -15}
    BY <1>4 DEF Sized
  <2>9. /\ i.atr14 \in Nat /\ i.atr100 \in Nat /\ i.risk \in Nat /\ i.equity \in Nat
        /\ i.avg \in Int /\ i.sl \in Int /\ i.count \in Nat /\ i.maxCount \in Nat
        /\ i.notional \in Int /\ i.sector \in Int
    BY <2>6, <2>7, <2>8
  <2> QED
    BY <2>2, <2>3, <2>4, <2>5, <2>9 DEF SizeInputs
<1>5. CASE i \in GatedSizes
  <2>1. i.spec = Contract(Whole(0), Whole(0), Whole(0))
    BY <1>5 DEF GatedSizes
  <2>2. i.spec \in [lot : NonNeg, minQty : NonNeg, minNotional : NonNeg] /\ i.spec.minNotional[1] = 0
    BY <1>1, <2>1 DEF Contract, Whole
  <2>3. i.mult \in NonNeg /\ i.maxExposure \in NonNeg /\ i.maxSector \in NonNeg /\ i.levels \in Levels
    BY <1>1, <1>2, <1>5 DEF GatedSizes
  <2> QED
    BY <1>5, <2>2, <2>3 DEF GatedSizes, SizeInputs
<1> QED
  BY <1>4, <1>5

LEMMA LivesAsked ==
  ASSUME NEW i \in Lives
  PROVE  Trade(i) /\ i.start <= i.end /\ i.span > 0 /\ i.end < i.start + 501 * 12
<1>1. PICK s \in 36 .. 47, d \in Lengths, r \in Raising, m \in Blanks : i = Lived(s, d, r, m)
  BY DEF Lives
<1>2. i.start = s /\ i.end = s + d /\ i.span = 4
  BY <1>1 DEF Lived
<1>3. s \in Int /\ d \in Int /\ d > 0 /\ d <= 51
  BY DEF Lengths
<1> QED
  BY <1>2, <1>3 DEF Trade

LEMMA HistoriesAsked ==
  ASSUME NEW i \in Backfills
  PROVE  Income(i)
<1>1. i.events \in Histories /\ i.equity \in Int /\ i.start \in Nat /\ i.end \in Nat /\ i.limit \in Nat \ {0}
  BY DEF Backfills
<1>2. \A t \in Nat : \A y \in {"pnl", "transfer", "other"} : \A a \in Int : Ev(t, y, a) \in Events
  BY DEF Ev, Events
<1> DEFINE K == Events
<1>3. {Ev(3, "pnl", 5), Ev(3, "pnl", -2), Ev(4, "transfer", 20), Ev(19, "pnl", 1)} \subseteq K
      /\ {Ev(2, "transfer", 9), Ev(9, "other", -1), Ev(10, "pnl", 4), Ev(30, "pnl", -3)} \subseteq K
      /\ {Ev(1, "pnl", 1), Ev(2, "pnl", -4), Ev(3, "pnl", 2), Ev(12, "pnl", 1), Ev(13, "pnl", 1)} \subseteq K
      /\ {Ev(5, "pnl", 1), Ev(5, "pnl", 2), Ev(8, "pnl", -1)} \subseteq K
      /\ {Ev(1, "pnl", -100), Ev(7, "pnl", 300), Ev(18, "pnl", -1), Ev(23, "pnl", -1)} \subseteq K
  BY <1>2
<1> HIDE DEF K
<1>4. Histories \subseteq Seq(K)
  BY <1>3 DEF Histories
<1> QED
  BY <1>1, <1>4 DEF Income, K

LEMMA StoresAsked ==
  ASSUME NEW i \in Stores
  PROVE  Stored(i)
<1> DEFINE all == <<1, 3, 20, 35, 40>>
<1>1. all \in Seq(Nat) /\ Len(all) = 5
  OBVIOUS
<1>2. Dated(all)
  <2>1. \A k, l \in 1 .. 5 : k < l => Itself[all[k]] < Itself[all[l]]
    BY DEF Itself
  <2>2. all \in Seq(Int) /\ Itself \in [Int -> Int]
    BY DEF Itself
  <2> HIDE DEF all
  <2> QED
    BY <1>1, <2>1, <2>2 DEF Dated, Climbs, Rising
<1> HIDE DEF all
<1>3. \A D : Dated(Curve!Kept(all, D))
  <2> TAKE D
  <2>1. Curve!Kept(all, D) = Sifted(all, D, Len(all)) /\ Sifted(all, D, Len(all)) \in Seq(Nat)
    <3>1. Len(all) \in 0 .. Len(all)
      BY <1>1
    <3> QED
      BY <1>1, <3>1, KeptIs, SiftedSteps
  <2>2. Climbs(Int, Itself, Sifted(all, D, Len(all)))
    <3>1. Climbs(Int, Itself, all) /\ Len(all) \in 0 .. Len(all)
      BY <1>1, <1>2 DEF Dated
    <3> QED
      BY <3>1, SiftedRising
  <2> QED
    BY <2>1, <2>2 DEF Dated
<1>4. \A s \in DaySets : Dated(s)
  BY <1>3 DEF DaySets, all
<1>5. Dated(<<>>)
  <2>1. Itself \in [Int -> Int]
    BY DEF Itself
  <2> QED
    BY <2>1 DEF Dated, Climbs, Rising
<1>6. Dated(<<3, 35>>)
  <2> DEFINE two == <<3, 35>>
  <2>1. two \in Seq(Nat) /\ two \in Seq(Int) /\ Len(two) = 2 /\ two[1] = 3 /\ two[2] = 35
    OBVIOUS
  <2>2. \A k, l \in 1 .. 2 : k < l => k = 1 /\ l = 2
    OBVIOUS
  <2>3. Itself \in [Int -> Int] /\ Itself[3] < Itself[35]
    BY DEF Itself
  <2> HIDE DEF two
  <2>4. Dated(two)
    BY <2>1, <2>2, <2>3 DEF Dated, Climbs, Rising
  <2> QED
    BY <2>4 DEF two
<1> DEFINE Kinds == [vix : DaySets, hy : DaySets, rvol : {<<>>, <<3, 35>>}, oi : {<<>>}, funding : {<<>>}]
<1>10. i.days \in Kinds /\ i.today \in Nat
  <2> DEFINE V == {[vix |-> [d \in 1..40 |-> 150 + 8 * (d % 20)],
                    hy |-> [d \in 1..40 |-> 30 + (d % 17)], rvol |-> [d \in 1..40 |-> 10 + (d % 4)]]}
              T == {0, 3, 30, 36, 42, 48}
  <2>1. i \in [days : Kinds, value : V, today : T]
    BY DEF Stores
  <2>2. T \subseteq Nat
    OBVIOUS
  <2> HIDE DEF Kinds, V, T
  <2> QED
    BY <2>1, <2>2
<1>7. i.days.vix \in DaySets /\ i.days.hy \in DaySets /\ i.days.rvol \in {<<>>, <<3, 35>>}
      /\ i.days.oi = <<>> /\ i.days.funding = <<>>
      /\ i.days = [vix |-> i.days.vix, hy |-> i.days.hy, rvol |-> i.days.rvol, oi |-> i.days.oi, funding |-> i.days.funding]
  BY <1>10
<1>8. Mood!Names = {"vix", "hy", "rvol", "oi", "funding"}
  BY DEF Mood!Names
<1>9. Dated(i.days.vix) /\ Dated(i.days.hy) /\ Dated(i.days.rvol) /\ Dated(i.days.oi) /\ Dated(i.days.funding)
  BY <1>4, <1>5, <1>6, <1>7
<1> QED
  BY <1>7, <1>8, <1>9, <1>10 DEF Stored

LEMMA RatesAsked ==
  ASSUME NEW i \in Rates
  PROVE  Dated(i.times) /\ Spaced(i.times) /\ i.until \in Nat \ {0} /\ i.limit \in Nat /\ i.limit >= 2
<1>1. i.until \in Nat \ {0} /\ i.limit \in Nat /\ i.limit >= 2
  BY DEF Rates
<1>2. PICK n \in 0 .. 12 : i.times = [k \in 1 .. n |-> 8 * (k - 1)]
  BY DEF Rates
<1> DEFINE t == i.times
<1> HIDE DEF t
<1>3. Len(t) = n /\ t \in Seq(Nat) /\ t \in Seq(Int) /\ \A k \in 1 .. n : t[k] = 8 * (k - 1)
  BY <1>2 DEF t
<1>4. Dated(t)
  <2>1. Itself \in [Int -> Int] /\ \A x \in Int : Itself[x] = x
    BY DEF Itself
  <2>2. \A k, l \in 1 .. n : k < l => t[k] \in Int /\ t[l] \in Int /\ t[k] < t[l]
    BY <1>3
  <2> QED
    BY <1>3, <2>1, <2>2 DEF Dated, Climbs, Rising
<1>5. Spaced(t)
  <2>1. ASSUME NEW x \in Elements(t), NEW y \in Elements(t), x < y
        PROVE  x + 2 <= y /\ \E z \in Elements(t) : x < z /\ z <= x + 30 /\ z <= y
    <3>1. PICK k \in 1 .. n : x = t[k]
      BY <1>3 DEF Elements
    <3>2. PICK l \in 1 .. n : y = t[l]
      BY <1>3 DEF Elements
    <3>3. x = 8 * (k - 1) /\ y = 8 * (l - 1) /\ k < l
      BY <1>3, <2>1, <3>1, <3>2
    <3>4. k + 1 \in 1 .. n /\ t[k + 1] = 8 * k /\ t[k + 1] \in Elements(t)
      BY <1>3, <3>3 DEF Elements
    <3> QED
      BY <3>3, <3>4
  <2>2. ASSUME NEW y \in Elements(t) PROVE \E z \in Elements(t) : z <= 30 /\ z <= y
    <3>1. PICK l \in 1 .. n : y = t[l]
      BY <1>3 DEF Elements
    <3>2. 1 \in 1 .. n /\ t[1] = 0 /\ t[1] \in Elements(t) /\ y = 8 * (l - 1)
      BY <1>3, <3>1 DEF Elements
    <3> QED
      BY <3>2
  <2> QED
    BY <2>1, <2>2 DEF Spaced
<1> QED
  BY <1>1, <1>4, <1>5 DEF t

(* A rule is asked about inputs of its kind only.                              *)
LEMMA AskedRight == RulesNext => Asked'
<1> SUFFICES ASSUME RulesNext PROVE Asked'
  OBVIOUS
<1>1. CASE Pick("size", Sized)
  BY <1>1, SizesAsked DEF Asked, Pick
<1>2. CASE Pick("size", GatedSizes)
  BY <1>2, SizesAsked DEF Asked, Pick
<1>3. CASE Pick("order", Orders)
  BY <1>3 DEF Asked, Pick, Orders
<1>4. CASE Pick("bybit", BybitOrders)
  BY <1>4, Zenon DEF Asked, Pick, BybitOrders
<1>5. CASE Pick("position", Holdings)
  BY <1>5 DEF Asked, Pick, Holdings
<1>6. CASE Pick("exits", Protected)
  BY <1>6 DEF Asked, Pick, Protected, Exit
<1>7. CASE Pick("window", Windows)
  BY <1>7 DEF Asked, Pick, Windows
<1>8. CASE Pick("balance", Answers)
  BY <1>8 DEF Asked, Pick
<1>9. CASE Pick("life", Lives)
  BY <1>9, LivesAsked DEF Asked, Pick
<1>10. CASE Pick("result", Results)
  BY <1>10 DEF Asked, Pick, Results
<1>11. CASE Pick("backfill", Backfills)
  BY <1>11, HistoriesAsked DEF Asked, Pick
<1>12. CASE Pick("signals", Signals)
  <2>1. Mood!Absent \in Int
    BY DEF Mood!Absent
  <2>2. Signals \subseteq Signal
    BY <2>1 DEF Signals, Signal
  <2>3. rule' = "signals" /\ in' \in Signals
    BY <1>12 DEF Pick
  <2> QED
    BY <2>2, <2>3 DEF Asked
<1>13. CASE Pick("store", Stores)
  BY <1>13, StoresAsked DEF Asked, Pick
<1>14. CASE Pick("range", Ranges)
  BY <1>14 DEF Asked, Pick, Ranges
<1>15. CASE Pick("rates", Rates)
  BY <1>15, RatesAsked DEF Asked, Pick
<1>16. CASE rule # "none" /\ rule' = "none" /\ in' = <<>>
  BY <1>16 DEF Asked
<1> QED
  BY <1>1, <1>2, <1>3, <1>4, <1>5, <1>6, <1>7, <1>8, <1>9, <1>10, <1>11, <1>12, <1>13, <1>14, <1>15, <1>16, Zenon DEF RulesNext

(* What a rule says of an input it is asked about is true.                     *)
LEMMA AskedShown == Asked => ShownTrue
<1> SUFFICES ASSUME Asked PROVE ShownTrue
  OBVIOUS
<1>1. SizesHold
  BY RiskIsBounded, SuggestionIsTaken, LargerOrderIsWorse, SectorIsHeld DEF SizesHold, Asked
<1>2. CountdownKept
  BY CountdownIsKept DEF CountdownKept, Asked
<1>3. ShownIsNext
  BY NextStopShown DEF ShownIsNext, Asked
<1>4. NoPhantomZero
  BY MissingIsNotZero DEF NoPhantomZero
<1>5. StreamAgrees
  BY StreamAsRest DEF StreamAgrees, Asked
<1>6. EndsAgree
  BY BybitEndsAgree DEF EndsAgree, Asked
<1>7. BaseUnits
  <2> SUFFICES ASSUME rule = "position"
               PROVE  Sources!BaseUnits([LONG |-> in.long, SHORT |-> in.short], in.size)
    BY DEF BaseUnits
  <2> DEFINE sizes == [LONG |-> in.long, SHORT |-> in.short]
  <2>1. in.long \in Nat /\ in.short \in Nat /\ in.size \in Nat \ {0} /\ in.long % in.size = 0 /\ in.short % in.size = 0
    BY DEF Asked
  <2>2. sizes \in [Sources!Dirs -> Nat] /\ \A d \in Sources!Dirs : sizes[d] % in.size = 0
    BY <2>1 DEF Sources!Dirs
  <2> HIDE DEF sizes
  <2>3. Sources!BaseUnits(sizes, in.size)
    BY <2>1, <2>2, PositionsInBase
  <2> QED
    BY <2>3 DEF sizes
<1> QED
  BY <1>1, <1>2, <1>3, <1>4, <1>5, <1>6, <1>7 DEF ShownTrue

LEMMA AskedRebuilt == Asked => RebuiltTrue
<1> SUFFICES ASSUME Asked PROVE RebuiltTrue
  OBVIOUS
<1>1. HolesAreSmall /\ MiddleCovered /\ InsideLife
  BY HolesStaySmall, MiddleStaysCovered, PricesOfItsLife DEF HolesAreSmall, MiddleCovered, InsideLife, Asked
<1>2. ResultBetween
  BY ResultsBetween DEF ResultBetween, Asked
<1>3. PagesComplete /\ EquityBefore /\ StepsAreResults /\ NoLongSilence
  BY PagesAreComplete, EquityIsThatBefore, TransfersDoNotCount, CurveIsDense
     DEF PagesComplete, EquityBefore, StepsAreResults, NoLongSilence, Asked
<1>4. NeverBolder
  BY WorseIsNotBolder DEF NeverBolder, Asked
<1>5. NeverFromTheFuture /\ WaysAgree
  BY KnownThatDay, RegimesAgree DEF NeverFromTheFuture, WaysAgree, Asked
<1>6. DaysOnce
  BY EachDayOnce DEF DaysOnce, Asked
<1>7. RatesOnce
  BY EachRateOnce DEF RatesOnce, Asked
<1> QED
  BY <1>1, <1>2, <1>3, <1>4, <1>5, <1>6, <1>7 DEF RebuiltTrue

LEMMA AlwaysAsked == RulesSpec => []Asked
<1>1. RulesInit => Asked
  BY DEF RulesInit, Asked
<1>2. Asked /\ [RulesNext]_rules => Asked'
  <2>1. Asked /\ UNCHANGED rules => Asked'
    BY DEF rules, Asked
  <2> QED
    BY <2>1, AskedRight
<1> QED
  BY <1>1, <1>2, PTL DEF RulesSpec

(* Whatever inputs the rules are asked about, what the user is shown before and *)
(* during a trade is true: sizes, windows, stops, balances, orders, positions.  *)
THEOREM WhatIsShownIsTrue == RulesSpec => []ShownTrue
  BY AlwaysAsked, AskedShown, PTL

(* Whatever inputs the rules are asked about, what is rebuilt afterwards is     *)
(* true: extremes of a trade, the equity curve, regimes and their signals.      *)
THEOREM WhatIsRebuiltIsTrue == RulesSpec => []RebuiltTrue
  BY AlwaysAsked, AskedRebuilt, PTL
=============================================================================
