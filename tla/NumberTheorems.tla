---------------------------- MODULE NumberTheorems ---------------------------
(***************************************************************************)
(* Facts about numbers that the proofs of several modules need: induction  *)
(* and definition by recursion, stated with sets and functions in place of *)
(* predicates and operators, division, and the powers of two.              *)
(***************************************************************************)
EXTENDS Words, WellFoundedInduction, TLAPS

Less == {p \in Nat \X Nat : p[1] < p[2]}

LEMMA LessWellFounded == IsWellFoundedOn(Less, Nat)
BY NatLessThanWellFounded DEF OpToRel, Less

\* A set of natural numbers that is not empty has a least element.
THEOREM LeastNumber ==
    ASSUME NEW T \in SUBSET Nat, T # {}
    PROVE  \E n \in T : \A m \in T : n <= m
<1>1. PICK n \in T : \A m \in T : <<m, n>> \notin Less
    BY LessWellFounded, WFMin
<1>2. \A m \in T : ~ (m < n)
    BY <1>1 DEF Less
<1> QED
    BY <1>2

\* A set that contains 0 and the successor of every number it contains has them all.
THEOREM NumberInduction ==
    ASSUME NEW S, 0 \in S, \A n \in Nat : n \in S => n + 1 \in S
    PROVE  \A n \in Nat : n \in S
<1> SUFFICES ASSUME Nat \ S # {}
             PROVE  FALSE
    OBVIOUS
<1>1. PICK n \in Nat \ S : \A m \in Nat \ S : n <= m
    BY LeastNumber
<1>2. n - 1 \in Nat /\ n - 1 \in S
    BY <1>1
<1> QED
    BY <1>1, <1>2

\* A set that contains 0 and, below a bound, the successor of every number it contains
\* has all the numbers up to the bound.
THEOREM BoundedInduction ==
    ASSUME NEW S, NEW b \in Nat, 0 \in S, \A n \in 0 .. b - 1 : n \in S => n + 1 \in S
    PROVE  \A n \in 0 .. b : n \in S
<1> DEFINE T == {n \in Nat : n <= b => n \in S}
<1>1. 0 \in T /\ \A n \in Nat : n \in T => n + 1 \in T
    OBVIOUS
<1>2. \A n \in Nat : n \in T
    <2> HIDE DEF T
    <2> QED
        BY <1>1, NumberInduction
<1> QED
    BY <1>2

\* f is the sequence of values of X that begins with x0 and goes on by step.
IsRecursion(f, X, x0, step) ==
    f \in [Nat -> X] /\ f[0] = x0 /\ \A n \in Nat : f[n + 1] = step[n][f[n]]

\* A first value and a step define a sequence of values.
THEOREM Recursion ==
    ASSUME NEW X, NEW x0 \in X, NEW step \in [Nat -> [X -> X]]
    PROVE  \E f : IsRecursion(f, X, x0, step)
<1> DEFINE Upto(b, f) == f[0] = x0 /\ \A n \in 0 .. b - 1 : f[n + 1] = step[n][f[n]]
           S == {b \in Nat : \E f \in [0 .. b -> X] : Upto(b, f)}
<1>1. \A b \in Nat : \E f \in [0 .. b -> X] : Upto(b, f)
    <2>1. 0 \in S
        <3> [n \in 0 .. 0 |-> x0] \in [0 .. 0 -> X] /\ Upto(0, [n \in 0 .. 0 |-> x0])
            OBVIOUS
        <3> QED
            OBVIOUS
    <2>2. ASSUME NEW b \in Nat, b \in S
          PROVE  b + 1 \in S
        <3>1. PICK f \in [0 .. b -> X] : Upto(b, f)
            BY <2>2
        <3> DEFINE g == [n \in 0 .. b + 1 |-> IF n = b + 1 THEN step[b][f[b]] ELSE f[n]]
        <3>2. g \in [0 .. b + 1 -> X]
            OBVIOUS
        <3>3. \A n \in 0 .. b : g[n] = f[n]
            OBVIOUS
        <3>4. g[b + 1] = step[b][g[b]]
            BY <3>3
        <3>5. Upto(b + 1, g)
            <4> HIDE DEF g
            <4> QED
                BY <3>1, <3>3, <3>4
        <3> HIDE DEF g
        <3> QED
            BY <3>2, <3>5
    <2> HIDE DEF S
    <2>3. \A n \in Nat : n \in S
        BY <2>1, <2>2, NumberInduction
    <2> QED
        BY <2>3 DEF S
<1> DEFINE F(b) == CHOOSE f \in [0 .. b -> X] : Upto(b, f)
           h == [n \in Nat |-> F(n)[n]]
<1>2. \A b \in Nat : F(b) \in [0 .. b -> X] /\ Upto(b, F(b))
    <2> HIDE DEF Upto
    <2> QED BY <1>1
<1> HIDE DEF F
<1>3. \A b, c \in Nat : b <= c => \A n \in 0 .. b : F(b)[n] = F(c)[n]
    <2> SUFFICES ASSUME NEW b \in Nat, NEW c \in Nat, b <= c
                 PROVE  \A n \in 0 .. b : n \in {m \in 0 .. b : F(b)[m] = F(c)[m]}
        OBVIOUS
    <2> DEFINE E == {m \in 0 .. b : F(b)[m] = F(c)[m]}
    <2>1. 0 \in E
        BY <1>2
    <2>2. \A n \in 0 .. b - 1 : n \in E => n + 1 \in E
        BY <1>2
    <2> HIDE DEF E
    <2>3. \A n \in 0 .. b : n \in E
        BY <2>1, <2>2, BoundedInduction
    <2> QED
        BY <2>3 DEF E
<1>4. h \in [Nat -> X]
    BY <1>2
<1>5. h[0] = x0
    BY <1>2
<1>6. ASSUME NEW n \in Nat
      PROVE  h[n + 1] = step[n][h[n]]
    <2>1. h[n + 1] = F(n + 1)[n + 1] /\ h[n] = F(n)[n]
        OBVIOUS
    <2>2. F(n + 1)[n + 1] = step[n][F(n + 1)[n]]
        BY <1>2
    <2>3. F(n + 1)[n] = F(n)[n]
        BY <1>3
    <2> QED
        BY <2>1, <2>2, <2>3
<1> HIDE DEF h
<1> QED
    BY <1>4, <1>5, <1>6 DEF IsRecursion

-----------------------------------------------------------------------------
\* Quotient and remainder.
LEMMA Quotient ==
    ASSUME NEW v \in Nat, NEW d \in Nat \ {0}
    PROVE  /\ v \div d \in Nat /\ v % d \in 0 .. d - 1 
           /\ v = d * (v \div d) + (v % d)
OBVIOUS

\* What remains of a number is not more than it.
LEMMA Remainder ==
    ASSUME NEW v \in Nat, NEW d \in Nat \ {0}
    PROVE  v % d \in 0 .. v /\ v % d < d
<1>1. v \div d \in Nat /\ v % d \in 0 .. d - 1 /\ v = d * (v \div d) + (v % d)
    BY Quotient
<1>2. d * (v \div d) >= 0
    BY <1>1
<1> QED
    BY <1>1, <1>2

\* There is one quotient and one remainder.
LEMMA QuotientIsUnique ==
    ASSUME NEW d \in Nat \ {0}, NEW q \in Nat, NEW r \in 0 .. d - 1
    PROVE  (d * q + r) \div d = q /\ (d * q + r) % d = r
<1> DEFINE a == d * q + r
<1>1. a \in Nat
    OBVIOUS
<1> DEFINE p == a \div d
           s == a % d
<1>2. p \in Nat /\ s \in 0 .. d - 1 /\ a = d * p + s
    BY <1>1, Quotient
<1>3. d * (p - q) = r - s
    BY <1>2
<1>4. ~ (p > q)
    <2> SUFFICES ASSUME p - q >= 1 PROVE FALSE
        BY <1>2
    <2>1. d * (p - q) >= d
        BY <1>2
    <2> QED
        BY <1>2, <1>3, <2>1
<1>5. ~ (p < q)
    <2> SUFFICES ASSUME q - p >= 1 PROVE FALSE
        BY <1>2
    <2>1. d * (q - p) >= d
        BY <1>2
    <2> QED
        BY <1>2, <1>3, <2>1
<1> QED
    BY <1>2, <1>3, <1>4, <1>5

\* The sum of two multiples is one.
LEMMA SumOfMultiples ==
    ASSUME NEW d \in Nat \ {0}, NEW a \in Nat, NEW b \in Nat, a % d = 0, b % d = 0
    PROVE  (a + b) % d = 0
<1>1. PICK q \in Nat : a = d * q + 0
    <2>1. a \div d \in Nat /\ a = d * (a \div d) + (a % d)
        BY Quotient
    <2>2. a = d * (a \div d) + 0
        BY <2>1
    <2> QED
        BY <2>1, <2>2
<1>2. PICK r \in Nat : b = d * r + 0
    <2>1. b \div d \in Nat /\ b = d * (b \div d) + (b % d)
        BY Quotient
    <2>2. b = d * (b \div d) + 0
        BY <2>1
    <2> QED
        BY <2>1, <2>2
<1>3. q + r \in Nat /\ 0 \in 0 .. d - 1 /\ a + b = d * (q + r) + 0
    BY <1>1, <1>2
<1>4. (d * (q + r) + 0) % d = 0
    <2> DEFINE t == q + r
               zero == 0
    <2>1. t \in Nat /\ zero \in 0 .. d - 1
        BY <1>3
    <2> HIDE DEF t, zero
    <2>2. (d * t + zero) % d = zero
        BY <2>1, QuotientIsUnique
    <2> QED
        BY <2>2 DEF t, zero
<1> QED
    BY <1>3, <1>4

\* To divide by a product is to divide by its factors.
LEMMA QuotientOfProduct ==
    ASSUME NEW v \in Nat, NEW d \in Nat \ {0}, NEW e \in Nat \ {0}
    PROVE  v \div (e * d) = (v \div d) \div e
<1> DEFINE q == v \div d
           r == v % d
           p == q \div e
           s == q % e
<1>1. q \in Nat /\ r \in 0 .. d - 1 /\ v = d * q + r
    BY Quotient
<1>2. p \in Nat /\ s \in 0 .. e - 1 /\ q = e * p + s
    BY <1>1, Quotient
<1>3. d * s + r \in 0 .. e * d - 1
    <2>1. s + 1 <= e /\ s >= 0 /\ r + 1 <= d /\ r >= 0
        BY <1>1, <1>2
    <2>2. d * (s + 1) <= d * e /\ d * s >= 0
        BY <2>1, <1>2
    <2> QED
        BY <2>1, <2>2, <1>1, <1>2
<1>5. e * d \in Nat \ {0}
    OBVIOUS
<1> HIDE DEF q, r, p, s
<1>4. v = (e * d) * p + (d * s + r)
    <2>1. d * (e * p + s) = (e * d) * p + d * s
        BY <1>1, <1>2
    <2> QED
        BY <2>1, <1>1, <1>2
<1>6. v \div (e * d) = p
    BY <1>2, <1>3, <1>4, <1>5, QuotientIsUnique
<1> QED
    BY <1>6 DEF p, q

\* The remainder of an integer, negative or not.
LEMMA ResidueIs ==
    ASSUME NEW d \in Nat \ {0}, NEW q \in Int, NEW r \in 0 .. d - 1, NEW a \in Int, a = d * q + r
    PROVE  a % d = r
<1> DEFINE p == a \div d
           s == a % d
<1>1. p \in Int /\ s \in 0 .. d - 1 /\ a = d * p + s
    OBVIOUS
<1> HIDE DEF p, s
<1>2. d * (p - q) = r - s
    BY <1>1
<1>3. ~ (p > q)
    <2> SUFFICES ASSUME p - q >= 1 PROVE FALSE
        BY <1>1
    <2>1. d * (p - q) >= d
        BY <1>1
    <2> QED
        BY <1>1, <1>2, <2>1
<1>4. ~ (p < q)
    <2> SUFFICES ASSUME q - p >= 1 PROVE FALSE
        BY <1>1
    <2>1. d * (q - p) >= d
        BY <1>1
    <2> QED
        BY <1>1, <1>2, <2>1
<1>5. p = q
    BY <1>1, <1>3, <1>4
<1>6. d * p = d * q
    BY <1>5
<1>7. s = r
    <2> DEFINE x == d * q
    <2>1. x \in Int /\ a = x + r /\ a = x + s
        BY <1>1, <1>6
    <2> HIDE DEF x
    <2> QED
        BY <1>1, <2>1
<1> QED
    BY <1>7 DEF s

\* To cut a number to more bits first does not change what is left of it.
LEMMA ResidueOfResidue ==
    ASSUME NEW a \in Int, NEW d \in Nat \ {0}, NEW e \in Nat \ {0}
    PROVE  (a % (d * e)) % d = a % d
<1> DEFINE b == a % (d * e)
           p == a \div (d * e)
           q == b \div d
           r == b % d
<1>0. d * e \in Nat \ {0}
    OBVIOUS
<1>1. b \in Nat /\ p \in Int /\ a = (d * e) * p + b
    BY <1>0
<1>2. q \in Nat /\ r \in 0 .. d - 1 /\ b = d * q + r
    BY <1>1, Quotient
<1> HIDE DEF b, p, q, r
<1>3. a = d * (e * p + q) + r /\ e * p + q \in Int
    <2>1. (d * e) * p = d * (e * p)
        BY <1>1
    <2>2. d * (e * p + q) = d * (e * p) + d * q
        BY <1>1, <1>2
    <2> QED
        BY <1>1, <1>2, <2>1, <2>2
<1> DEFINE t == e * p + q
<1> HIDE DEF t
<1>4. t \in Int /\ a = d * t + r
    BY <1>3 DEF t
<1>5. a % d = r
    BY <1>2, <1>4, ResidueIs
<1> QED
    BY <1>5 DEF b, r

-----------------------------------------------------------------------------
\* The recursive definition of TwoTo has a solution.
LEMMA TwoToExists ==
    \E f \in [Nat -> Nat \ {0}] : f = [n \in Nat |-> IF n = 0 THEN 1 ELSE 2 * f[n - 1]]
<1> DEFINE X == Nat \ {0}
           one == 1
           step == [n \in Nat |-> [x \in X |-> 2 * x]]
<1>1. one \in X /\ step \in [Nat -> [X -> X]]
    OBVIOUS
<1>2. \A n \in Nat : \A x \in X : step[n][x] = 2 * x
    OBVIOUS
<1> HIDE DEF X, one, step
<1>3. PICK f : IsRecursion(f, X, one, step)
    BY <1>1, Recursion
<1>4. f \in [Nat -> X] /\ f[0] = one /\ \A n \in Nat : f[n + 1] = 2 * f[n]
    BY <1>2, <1>3 DEF IsRecursion
<1>5. \A n \in Nat : f[n] = IF n = 0 THEN 1 ELSE 2 * f[n - 1]
    <2> TAKE n \in Nat
    <2>1. n # 0 => n - 1 \in Nat /\ (n - 1) + 1 = n
        OBVIOUS
    <2> QED
        BY <1>4, <2>1 DEF one
<1>6. f = [n \in Nat |-> IF n = 0 THEN 1 ELSE 2 * f[n - 1]]
    BY <1>4, <1>5
<1> QED
    BY <1>4, <1>6 DEF X

\* What TwoTo computes.
THEOREM TwoToAt ==
    /\ TwoTo[0] = 1
    /\ \A n \in Nat : TwoTo[n] \in Nat \ {0} /\ TwoTo[n + 1] = 2 * TwoTo[n]
<1>1. TwoTo = CHOOSE f : f = [n \in Nat |-> IF n = 0 THEN 1 ELSE 2 * f[n - 1]]
    BY DEF TwoTo
<1>2. TwoTo = [n \in Nat |-> IF n = 0 THEN 1 ELSE 2 * TwoTo[n - 1]]
    BY <1>1, TwoToExists
<1>3. TwoTo[0] = 1 /\ \A n \in Nat : TwoTo[n + 1] = 2 * TwoTo[n]
    <2>1. \A n \in Nat : TwoTo[n] = IF n = 0 THEN 1 ELSE 2 * TwoTo[n - 1]
        BY <1>2
    <2>2. ASSUME NEW n \in Nat
          PROVE  TwoTo[n + 1] = 2 * TwoTo[n]
        <3>1. n + 1 \in Nat /\ n + 1 # 0 /\ (n + 1) - 1 = n
            OBVIOUS
        <3> QED
            BY <2>1, <3>1
    <2> QED
        BY <2>1, <2>2
<1>4. \A n \in Nat : n \in {m \in Nat : TwoTo[m] \in Nat \ {0}}
    <2> DEFINE S == {m \in Nat : TwoTo[m] \in Nat \ {0}}
    <2>1. 0 \in S /\ \A n \in Nat : n \in S => n + 1 \in S
        BY <1>3
    <2> HIDE DEF S
    <2>2. \A n \in Nat : n \in S
        BY <2>1, NumberInduction
    <2> QED
        BY <2>2 DEF S
<1> QED
    BY <1>3, <1>4

\* Powers are multiplied by adding what they are powers of.
LEMMA TwoToSum ==
    ASSUME NEW m \in Nat, NEW n \in Nat
    PROVE  TwoTo[m + n] = TwoTo[m] * TwoTo[n]
<1> DEFINE S == {k \in Nat : TwoTo[m + k] = TwoTo[m] * TwoTo[k]}
<1>1. 0 \in S
    BY TwoToAt
<1>2. ASSUME NEW k \in Nat, k \in S PROVE k + 1 \in S
    <2>1. (m + k) + 1 = m + (k + 1) /\ m + k \in Nat
        OBVIOUS
    <2>2. TwoTo[m + (k + 1)] = 2 * TwoTo[m + k] /\ TwoTo[k + 1] = 2 * TwoTo[k]
        BY <2>1, TwoToAt
    <2>3. TwoTo[m + k] = TwoTo[m] * TwoTo[k]
        BY <1>2
    <2>4. TwoTo[m] \in Nat /\ TwoTo[k] \in Nat
        BY TwoToAt
    <2> DEFINE a == TwoTo[m]
               b == TwoTo[k]
    <2>5. TwoTo[m + (k + 1)] = 2 * (a * b) /\ TwoTo[k + 1] = 2 * b /\ a \in Nat /\ b \in Nat
        BY <2>2, <2>3, <2>4
    <2> HIDE DEF a, b
    <2>6. 2 * (a * b) = a * (2 * b)
        BY <2>5
    <2>7. TwoTo[m + (k + 1)] = a * TwoTo[k + 1]
        BY <2>5, <2>6
    <2> QED
        BY <2>7 DEF a
<1> HIDE DEF S
<1>3. n \in S
    BY <1>1, <1>2, NumberInduction
<1> QED
    BY <1>3 DEF S

==============================================================================
