----------------------------- MODULE DeskProofs -----------------------------
(***************************************************************************)
(* The properties of Desk for every project, chain, pool, number of        *)
(* decimals and width of the integers.                                     *)
(*                                                                         *)
(* First the arithmetic of typed numbers, which needs induction: powers of *)
(* the radix are a recursive function, and normalizing looks for a largest *)
(* exponent.  Then three invariants, each inductive on the ones before it: *)
(* DeskInv (the vault's own, which holds because every step of the desk is *)
(* a step of the vault with typed arguments; types; what is signed is made *)
(* of what was typed; what the router keeps is of one moment), ToldInv     *)
(* (reports against effects) and PassedInv (checks against the chain).     *)
(***************************************************************************)
EXTENDS Desk, VaultProofs, SequenceTheorems, WellFoundedInduction, TLAPS

-----------------------------------------------------------------------------
(* Numbers.                                                                 *)

\* Induction in the form of the least number: a set of naturals that is not empty has one.
LEMMA LeastNumber ==
    ASSUME NEW T \in SUBSET Nat, T # {}
    PROVE  \E x \in T : \A y \in T : x <= y
  <1>1. \E x \in T : \A y \in T : ~(<<y, x>> \in OpToRel(<, Nat))
    BY NatLessThanWellFounded, WFMin
  <1>2. PICK x \in T : \A y \in T : ~(<<y, x>> \in OpToRel(<, Nat))
    BY <1>1
  <1>3. ASSUME NEW y \in T PROVE x <= y
    <2>1. ~(y < x)
      BY <1>2 DEF OpToRel
    <2> QED
      BY <2>1
  <1> QED
    BY <1>3

\* A table of the powers up to the n-th.
Table(g, n) ==
    /\ g \in [0..n -> Nat]
    /\ g[0] = 1
    /\ \A k \in 1..n : g[k] = RADIX * g[k - 1]

\* There is a table of the powers up to any exponent.
LEMMA TableExists == \A n \in Nat : \E g : Table(g, n)
  <1> DEFINE T == {n \in Nat : ~\E g : Table(g, n)}
  <1> SUFFICES ASSUME T # {} PROVE FALSE
    OBVIOUS
  <1>1. PICK n \in T : \A m \in T : n <= m
    BY LeastNumber
  <1>2. CASE n = 0
    <2>1. Table([k \in 0..0 |-> 1], 0)
      BY DEF Table
    <2> QED
      BY <1>1, <1>2, <2>1
  <1>3. CASE n # 0
    <2>1. n - 1 \in Nat /\ n \in Nat
      BY <1>3
    <2>2. PICK g : Table(g, n - 1)
      BY <1>1, <2>1
    <2> DEFINE h == [k \in 0..n |-> IF k = n THEN RADIX * g[n - 1] ELSE g[k]]
    <2>3. g[n - 1] \in Nat /\ \A k \in 0..n : k # n => k \in 0..(n - 1) /\ g[k] \in Nat
      BY <2>1, <2>2 DEF Table
    <2>4. RADIX * g[n - 1] \in Nat
      BY <2>3, AmountAssumption, SMT
    <2>5. h \in [0..n -> Nat]
      BY <2>1, <2>3, <2>4
    <2>6. h[0] = 1
      BY <1>3, <2>1, <2>2 DEF Table
    <2>7. ASSUME NEW k \in 1..n PROVE h[k] = RADIX * h[k - 1]
      <3>1. h[k - 1] = g[k - 1]
        BY <2>1
      <3>2. CASE k = n
        BY <2>1, <3>1, <3>2
      <3>3. CASE k # n
        <4>1. k \in 1..(n - 1)
          BY <2>1, <3>3
        <4>2. g[k] = RADIX * g[k - 1]
          BY <2>2, <4>1 DEF Table
        <4>3. h[k] = g[k]
          BY <2>1, <3>3
        <4> QED
          BY <3>1, <4>2, <4>3
      <3> QED
        BY <3>2, <3>3
    <2>8. Table(h, n)
      BY <2>5, <2>6, <2>7 DEF Table
    <2> QED
      BY <1>1, <2>8
  <1> QED
    BY <1>2, <1>3

\* Two tables agree as far as both go.
LEMMA TableUnique ==
    ASSUME NEW n \in Nat, NEW m \in Nat, NEW g, NEW h, Table(g, n), Table(h, m)
    PROVE  \A k \in Nat : k <= n /\ k <= m => g[k] = h[k]
  <1> DEFINE T == {k \in Nat : k <= n /\ k <= m /\ g[k] # h[k]}
  <1> SUFFICES ASSUME T # {} PROVE FALSE
    OBVIOUS
  <1>1. PICK k \in T : \A j \in T : k <= j
    BY LeastNumber
  <1>2. k # 0
    BY DEF Table
  <1>3. k \in Nat /\ k - 1 \in Nat /\ k \in 1..n /\ k \in 1..m /\ k - 1 \notin T
    BY <1>1, <1>2
  <1>4. g[k - 1] = h[k - 1]
    BY <1>3
  <1>5. g[k] = RADIX * g[k - 1] /\ h[k] = RADIX * h[k - 1]
    BY <1>3 DEF Table
  <1> QED
    BY <1>4, <1>5

\* The recursive definition of powers has a solution.
LEMMA PowerDef ==
    powers = [n \in Nat |-> IF n = 0 THEN 1 ELSE RADIX * powers[n - 1]]
  <1> DEFINE t(n) == CHOOSE g : Table(g, n)
             G == [n \in Nat |-> t(n)[n]]
             Rec(g) == g = [n \in Nat |-> IF n = 0 THEN 1 ELSE RADIX * g[n - 1]]
  <1>1. \A n \in Nat : Table(t(n), n)
    BY TableExists
  <1> HIDE DEF t
  <1>2. ASSUME NEW n \in Nat PROVE G[n] = IF n = 0 THEN 1 ELSE RADIX * G[n - 1]
    <2>1. CASE n = 0
      BY <1>1, <2>1 DEF Table
    <2>2. CASE n # 0
      <3>1. n - 1 \in Nat /\ n \in 1..n
        BY <2>2
      <3>2. t(n)[n] = RADIX * t(n)[n - 1]
        BY <1>1, <3>1 DEF Table
      <3>3. t(n)[n - 1] = t(n - 1)[n - 1]
        BY <1>1, <3>1, TableUnique
      <3> QED
        BY <2>2, <3>1, <3>2, <3>3
    <2> QED
      BY <2>1, <2>2
  <1>3. G = [n \in Nat |-> G[n]]
    OBVIOUS
  <1>4. Rec(G)
    <2> HIDE DEF G
    <2> QED
      BY <1>2, <1>3
  <1>5. powers = CHOOSE g : Rec(g)
    BY DEF powers
  <1>6. Rec(powers)
    <2> HIDE DEF Rec
    <2> QED
      BY <1>4, <1>5
  <1> QED
    BY <1>6

\* The powers of the radix, as a recurrence.
LEMMA PowerStep ==
    /\ pow10(0) = 1
    /\ \A n \in Nat : pow10(n + 1) = RADIX * pow10(n)
  <1>1. ASSUME NEW n \in Nat
        PROVE  powers[n] = IF n = 0 THEN 1 ELSE RADIX * powers[n - 1]
    <2> DEFINE F == [m \in Nat |-> IF m = 0 THEN 1 ELSE RADIX * powers[m - 1]]
    <2>1. F[n] = IF n = 0 THEN 1 ELSE RADIX * powers[n - 1]
      OBVIOUS
    <2>2. powers = F
      BY PowerDef
    <2> HIDE DEF F
    <2> QED
      BY <2>1, <2>2
  <1>2. powers[0] = 1
    BY <1>1
  <1>3. ASSUME NEW n \in Nat PROVE powers[n + 1] = RADIX * powers[n]
    <2>1. n + 1 \in Nat /\ n + 1 # 0 /\ (n + 1) - 1 = n
      OBVIOUS
    <2> QED
      BY <1>1, <2>1
  <1> QED
    BY <1>2, <1>3 DEF pow10

\* A power is a positive number.
LEMMA PowerPositive == \A n \in Nat : pow10(n) \in Nat /\ pow10(n) > 0
  <1> DEFINE T == {n \in Nat : ~(pow10(n) \in Nat /\ pow10(n) > 0)}
  <1> SUFFICES ASSUME T # {} PROVE FALSE
    OBVIOUS
  <1>1. PICK n \in T : \A m \in T : n <= m
    BY LeastNumber
  <1>2. n # 0
    BY PowerStep
  <1>3. n - 1 \in Nat /\ n - 1 \notin T /\ (n - 1) + 1 = n
    BY <1>1, <1>2
  <1>4. pow10(n - 1) \in Nat /\ pow10(n - 1) > 0
    BY <1>3
  <1>5. pow10(n) = RADIX * pow10(n - 1)
    BY <1>3, PowerStep
  <1>6. RADIX * pow10(n - 1) \in Nat /\ RADIX * pow10(n - 1) > 0
    BY <1>4, AmountAssumption, SMT
  <1> QED
    BY <1>5, <1>6

\* Powers multiply by adding exponents.
LEMMA PowerSum == \A a, b \in Nat : pow10(a + b) = pow10(a) * pow10(b)
  <1> SUFFICES ASSUME NEW a \in Nat PROVE \A b \in Nat : pow10(a + b) = pow10(a) * pow10(b)
    OBVIOUS
  <1> DEFINE T == {b \in Nat : pow10(a + b) # pow10(a) * pow10(b)}
  <1> SUFFICES ASSUME T # {} PROVE FALSE
    OBVIOUS
  <1>1. PICK b \in T : \A m \in T : b <= m
    BY LeastNumber
  <1>2. b # 0
    BY PowerStep, PowerPositive
  <1>3. b - 1 \in Nat /\ b - 1 \notin T /\ (b - 1) + 1 = b /\ a + (b - 1) \in Nat
        /\ (a + (b - 1)) + 1 = a + b
    BY <1>1, <1>2
  <1>4. pow10(a + (b - 1)) = pow10(a) * pow10(b - 1)
    BY <1>3
  <1>5. pow10(b) = RADIX * pow10(b - 1) /\ pow10(a + b) = RADIX * pow10(a + (b - 1))
    BY <1>3, PowerStep
  <1>6. pow10(a) \in Nat /\ pow10(b - 1) \in Nat
    BY <1>3, PowerPositive
  <1>7. RADIX * (pow10(a) * pow10(b - 1)) = pow10(a) * (RADIX * pow10(b - 1))
    BY <1>6, AmountAssumption, SMT
  <1> QED
    BY <1>4, <1>5, <1>7

\* A set of naturals with a bound has a largest one.
LEMMA LargestNumber ==
    ASSUME NEW n \in Nat, NEW S \in SUBSET (0..n), S # {}
    PROVE  \E x \in S : \A y \in S : x >= y
  <1> DEFINE T == {m \in Nat : n - m \in S}
  <1>1. T # {}
    <2>1. PICK y \in S : TRUE
      OBVIOUS
    <2>2. n - y \in Nat /\ n - (n - y) = y
      BY <2>1
    <2> QED
      BY <2>2
  <1>2. PICK m \in T : \A k \in T : m <= k
    BY <1>1, LeastNumber
  <1>3. ASSUME NEW y \in S PROVE n - m >= y
    <2>1. n - y \in Nat /\ n - (n - y) = y /\ n - y \in T
      OBVIOUS
    <2>2. m <= n - y
      BY <1>2, <2>1
    <2> QED
      BY <2>1, <2>2
  <1> QED
    BY <1>2, <1>3

\* Normalizing divides by the largest power, up to the scale, that goes without a rest.
LEMMA NormalizedIs ==
    ASSUME NEW d \in Decimal
    PROVE  \E z \in 0..d.scale :
               /\ normalized(d) = [mantissa |-> d.mantissa \div pow10(z), scale |-> d.scale - z]
               /\ d.mantissa % pow10(z) = 0
               /\ \A k \in 0..d.scale : d.mantissa % pow10(k) = 0 => k <= z
  <1> DEFINE S == {k \in 0..d.scale : d.mantissa % pow10(k) = 0}
             z == CHOOSE x \in S : \A y \in S : x >= y
  <1>1. d.scale \in Nat /\ d.mantissa \in Nat
    BY DEF Decimal
  <1>2. 0 \in S
    BY <1>1, PowerStep
  <1>3. z \in S /\ \A y \in S : z >= y
    BY <1>1, <1>2, LargestNumber
  <1>4. normalized(d) = [mantissa |-> d.mantissa \div pow10(z), scale |-> d.scale - z]
    BY DEF normalized, Max
  <1> QED
    BY <1>3, <1>4

\* A division that comes out even undoes a product.
LEMMA Divides ==
    ASSUME NEW x \in Nat, NEW p \in Nat \ {0}
    PROVE  /\ x \div p \in Nat
           /\ x % p = 0 <=> x = (x \div p) * p
           /\ \A m \in Nat : x = m * p => x % p = 0 /\ x \div p = m
  <1> DEFINE q == x \div p
  <1>1. q \in Nat /\ x % p \in Nat /\ x = q * p + (x % p)
    <2>1. q \in Nat
      BY FloorBounds
    <2>2. x % p \in Nat
      BY SMT
    <2>3. x = p * (x \div p) + (x % p)
      BY SMT
    <2>4. p * (x \div p) = (x \div p) * p
      BY <2>1, SMT
    <2> QED
      BY <2>1, <2>2, <2>3, <2>4
  <1>2. ASSUME NEW m \in Nat, x = m * p PROVE q = m
    <2>1. m <= q
      BY <1>2, FloorGreatest
    <2>2. q <= m
      BY <1>2, FloorLeast
    <2> QED
      BY <1>1, <2>1, <2>2
  <1> HIDE DEF q
  <1>3. q * p \in Nat
    BY <1>1, SMT
  <1>4. x % p = 0 <=> x = q * p
    BY <1>1, <1>3, SMT
  <1>5. ASSUME NEW m \in Nat, x = m * p PROVE x % p = 0
    BY <1>2, <1>4, <1>5
  <1> QED
    BY <1>1, <1>2, <1>4, <1>5 DEF q

\* Rearranging products, for the provers.
LEMMA Products ==
    ASSUME NEW a \in Nat, NEW b \in Nat, NEW c \in Nat
    PROVE  /\ a * (b * c) = (a * b) * c
           /\ (a * b) * c = (a * c) * b
           /\ a * b = b * a
           /\ a * b \in Nat
  BY SMT

\* A common factor cancels.
LEMMA Cancel ==
    ASSUME NEW a \in Nat, NEW b \in Nat, NEW k \in Nat \ {0}, a * k = b * k
    PROVE  a = b
  BY SMT

\* Stripping zeros leaves the number as it was, and there is one stripped form of it:
\* its mantissa ends in no zero that the scale could give up.
LEMMA NormalForm ==
    ASSUME NEW d \in Decimal
    PROVE  LET n == normalized(d)
           IN  /\ n \in Decimal /\ n.scale <= d.scale
               /\ d.mantissa = n.mantissa * pow10(d.scale - n.scale)
               /\ \A k \in 0..d.scale : d.mantissa % pow10(k) = 0 => k <= d.scale - n.scale
  <1>1. PICK z \in 0..d.scale :
               /\ normalized(d) = [mantissa |-> d.mantissa \div pow10(z), scale |-> d.scale - z]
               /\ d.mantissa % pow10(z) = 0
               /\ \A k \in 0..d.scale : d.mantissa % pow10(k) = 0 => k <= z
    BY NormalizedIs
  <1>2. d.mantissa \in Nat /\ d.scale \in Nat /\ z \in Nat /\ d.scale - z \in Nat
        /\ d.scale - (d.scale - z) = z /\ d.scale - z <= d.scale
    BY DEF Decimal
  <1>3. pow10(z) \in Nat \ {0}
    BY <1>2, PowerPositive
  <1>4. d.mantissa \div pow10(z) \in Nat /\ d.mantissa = (d.mantissa \div pow10(z)) * pow10(z)
    BY <1>1, <1>2, <1>3, Divides
  <1>5. /\ normalized(d).mantissa = d.mantissa \div pow10(z)
        /\ normalized(d).scale = d.scale - z
    BY <1>1
  <1>6. normalized(d) \in Decimal
    BY <1>1, <1>2, <1>4 DEF Decimal
  <1> QED
    BY <1>1, <1>2, <1>4, <1>5, <1>6

\* Of two ways to write one number, normalizing leaves neither with more places than
\* the other.
LEMMA NotFiner ==
    ASSUME NEW d \in Decimal, NEW e \in Decimal,
           d.mantissa * pow10(e.scale) = e.mantissa * pow10(d.scale)
    PROVE  normalized(e).scale <= normalized(d).scale
  <1> DEFINE m == normalized(d).mantissa
             s == normalized(d).scale
             n == normalized(e).mantissa
             t == normalized(e).scale
             z == d.scale - s
             y == e.scale - t
  <1>1. /\ d.scale \in Nat /\ s \in Nat /\ m \in Nat /\ s <= d.scale
        /\ d.mantissa = m * pow10(d.scale - s)
    BY NormalForm DEF Decimal
  <1>2. /\ e.scale \in Nat /\ t \in Nat /\ n \in Nat /\ t <= e.scale
        /\ e.mantissa = n * pow10(e.scale - t) /\ e.mantissa \in Nat
        /\ \A k \in 0..e.scale : e.mantissa % pow10(k) = 0 => k <= e.scale - t
    BY NormalForm DEF Decimal
  <1> HIDE DEF m, s, n, t
  <1> SUFFICES ASSUME s < t PROVE FALSE
    BY <1>1, <1>2 DEF s, t
  <1>3. z \in Nat /\ y \in Nat /\ s + z = d.scale /\ t + y = e.scale
        /\ e.scale - s \in 0..e.scale /\ e.scale - s > y
    BY <1>1, <1>2
  <1> DEFINE x == e.scale - s
  <1>4. x \in Nat /\ x + s = e.scale
    BY <1>1, <1>2, <1>3
  <1>5. /\ pow10(d.scale) = pow10(s) * pow10(z)
        /\ pow10(e.scale) = pow10(x) * pow10(s)
    BY <1>1, <1>3, <1>4, PowerSum
  <1>6. /\ pow10(s) \in Nat \ {0} /\ pow10(z) \in Nat \ {0} /\ pow10(x) \in Nat \ {0}
    BY <1>1, <1>3, <1>4, PowerPositive
  <1>7. d.mantissa = m * pow10(z)
    BY <1>1
  <1> HIDE DEF z, y, x
  <1> DEFINE ps == pow10(s)  pz == pow10(z)  px == pow10(x)
  <1>8. (m * pz) * (px * ps) = e.mantissa * (ps * pz)
    BY <1>5, <1>7
  <1>9. ps \in Nat \ {0} /\ pz \in Nat \ {0} /\ px \in Nat \ {0}
    BY <1>6
  <1> HIDE DEF ps, pz, px
  <1>10. (m * px) * (ps * pz) = e.mantissa * (ps * pz) /\ m * px \in Nat
         /\ ps * pz \in Nat \ {0}
    <2>1. (m * pz) * (px * ps) = (m * px) * (ps * pz)
      BY <1>1, <1>9, SMT
    <2>2. m * px \in Nat /\ ps * pz \in Nat \ {0}
      BY <1>1, <1>9, SMT
    <2> QED
      BY <1>8, <2>1, <2>2
  <1>11. m * px = e.mantissa
    BY <1>2, <1>10, Cancel
  <1>12. e.mantissa % px = 0
    BY <1>1, <1>2, <1>9, <1>11, Divides
  <1>13. x <= y
    BY <1>2, <1>3, <1>12 DEF px, x, y
  <1> QED
    BY <1>3, <1>13 DEF x

\* Two ways to write one number are normalized to one.
LEMMA SameNumber ==
    ASSUME NEW d \in Decimal, NEW e \in Decimal,
           d.mantissa * pow10(e.scale) = e.mantissa * pow10(d.scale)
    PROVE  normalized(d) = normalized(e)
  <1> DEFINE m == normalized(d).mantissa
             s == normalized(d).scale
             n == normalized(e).mantissa
             z == d.scale - s
             y == e.scale - s
  <1>1. normalized(d) \in Decimal /\ normalized(e) \in Decimal
    BY NormalForm
  <1>2. normalized(d).scale = normalized(e).scale
    BY <1>1, NotFiner DEF Decimal
  <1>3. /\ d.scale \in Nat /\ s \in Nat /\ m \in Nat /\ s <= d.scale
        /\ d.mantissa = m * pow10(z)
    BY NormalForm DEF Decimal
  <1>4. /\ e.scale \in Nat /\ n \in Nat /\ s <= e.scale /\ e.mantissa = n * pow10(y)
    BY <1>2, NormalForm DEF Decimal
  <1> HIDE DEF m, s, n
  <1>5. z \in Nat /\ y \in Nat /\ s + z = d.scale /\ s + y = e.scale
    BY <1>3, <1>4
  <1>6. /\ pow10(d.scale) = pow10(s) * pow10(z) /\ pow10(e.scale) = pow10(s) * pow10(y)
    BY <1>3, <1>5, PowerSum
  <1>7. pow10(s) \in Nat \ {0} /\ pow10(z) \in Nat \ {0} /\ pow10(y) \in Nat \ {0}
    BY <1>3, <1>5, PowerPositive
  <1> HIDE DEF z, y
  <1> DEFINE ps == pow10(s)  pz == pow10(z)  py == pow10(y)
  <1>8. (m * pz) * (ps * py) = (n * py) * (ps * pz)
    BY <1>3, <1>4, <1>6
  <1>9. ps \in Nat \ {0} /\ pz \in Nat \ {0} /\ py \in Nat \ {0}
    BY <1>7
  <1> HIDE DEF ps, pz, py
  <1>10. /\ m * ((ps * py) * pz) = n * ((ps * py) * pz)
    <2>1. /\ (m * pz) * (ps * py) = m * ((ps * py) * pz)
          /\ (n * py) * (ps * pz) = n * ((ps * py) * pz)
      BY <1>3, <1>4, <1>9, SMT
    <2> QED
      BY <1>8, <2>1
  <1>11. (ps * py) * pz \in Nat \ {0}
    <2>1. ps * py \in Nat \ {0}
      BY <1>9, SMT
    <2> QED
      BY <1>9, <2>1, SMT
  <1>12. m = n
    BY <1>3, <1>4, <1>10, <1>11, Cancel
  <1> QED
    BY <1>1, <1>2, <1>12 DEF Decimal, m, n

\* An amount that is not refused as too fine is carried to the last unit: what is printed
\* of it is the number that was typed.
LEMMA RawIsTyped ==
    ASSUME NEW d \in Decimal, NEW decimals \in Nat, normalized(d).scale <= decimals
    PROVE  /\ to_raw(d, decimals) \in Nat
           /\ format_raw(to_raw(d, decimals), decimals) = normalized(d)
  <1> DEFINE m == normalized(d).mantissa
             s == normalized(d).scale
             z == decimals - s
             r == [mantissa |-> m * pow10(z), scale |-> decimals]
  <1>1. /\ m \in Nat /\ s \in Nat /\ d.scale \in Nat /\ s <= d.scale /\ s <= decimals
        /\ d.mantissa = m * pow10(d.scale - s)
    BY NormalForm DEF Decimal
  <1>2. to_raw(d, decimals) = m * pow10(z)
    BY DEF to_raw
  <1>3. format_raw(to_raw(d, decimals), decimals) = normalized(r)
    BY <1>2 DEF format_raw, render
  <1> HIDE DEF m, s
  <1> DEFINE y == d.scale - s
  <1>4. z \in Nat /\ y \in Nat /\ s + z = decimals /\ s + y = d.scale
    BY <1>1
  <1>5. pow10(decimals) = pow10(s) * pow10(z) /\ pow10(d.scale) = pow10(s) * pow10(y)
    BY <1>1, <1>4, PowerSum
  <1>6. pow10(s) \in Nat \ {0} /\ pow10(z) \in Nat \ {0} /\ pow10(y) \in Nat \ {0}
    BY <1>1, <1>4, PowerPositive
  <1>7. m * pow10(z) \in Nat
    BY <1>1, <1>6, SMT
  <1>8. r \in Decimal
    BY <1>7 DEF Decimal
  <1>9. r.mantissa * pow10(d.scale) = d.mantissa * pow10(r.scale)
    <2>1. (m * pow10(z)) * (pow10(s) * pow10(y)) = (m * pow10(y)) * (pow10(s) * pow10(z))
      BY <1>1, <1>6, SMT
    <2> QED
      BY <1>1, <1>5, <2>1
  <1>10. normalized(r) = normalized(d)
    BY <1>8, <1>9, SameNumber
  <1> QED
    BY <1>2, <1>3, <1>7, <1>10

\* The two halves of the fraction a price comes to.
LEMMA MidFraction ==
    ASSUME NEW d \in Decimal, NEW bd \in Nat, NEW qd \in Nat
    PROVE  LET N == MidNumerator(d, qd)
               D == MidDenominator(d, bd)
           IN  /\ N \in Nat /\ D \in Nat \ {0}
               /\ to_mid_e9(d, bd, qd) \in Nat
               /\ to_mid_e9(d, bd, qd) = N \div D
               /\ exact(d, bd, qd) <=> N % D = 0
  <1>1. normalized(d).mantissa \in Nat /\ normalized(d).scale \in Nat
    BY NormalForm DEF Decimal
  <1>2. /\ pow10(qd + PRICE_SCALE_POW) \in Nat
        /\ pow10(normalized(d).scale + bd) \in Nat \ {0}
    BY <1>1, PowerPositive, AmountAssumption
  <1>3. MidNumerator(d, qd) \in Nat /\ MidDenominator(d, bd) \in Nat \ {0}
    BY <1>1, <1>2, SMT DEF MidNumerator, MidDenominator
  <1>4. MidNumerator(d, qd) \div MidDenominator(d, bd) \in Nat
    BY <1>3, FloorBounds
  <1> QED
    BY <1>3, <1>4 DEF to_mid_e9, exact

\* A price is carried to within one unit of its fixed point.
LEMMA MidWithinUnit ==
    ASSUME NEW d \in Decimal, NEW bd \in Nat, NEW qd \in Nat
    PROVE  LET mid == to_mid_e9(d, bd, qd)
               unit == pow10(bd + d.scale)
               asked == d.mantissa * pow10(qd) * PRICE_SCALE
           IN  mid * unit <= asked /\ asked < (mid + 1) * unit
  <1> DEFINE mid == to_mid_e9(d, bd, qd)
             N == MidNumerator(d, qd)
             D == MidDenominator(d, bd)
             m == normalized(d).mantissa
             s == normalized(d).scale
             z == d.scale - s
             f == pow10(qd)
             P == PRICE_SCALE
  <1>1. N \in Nat /\ D \in Nat \ {0} /\ mid \in Nat /\ mid = N \div D
    BY MidFraction
  <1>2. /\ m \in Nat /\ s \in Nat /\ d.scale \in Nat /\ s <= d.scale
        /\ d.mantissa = m * pow10(z)
    BY NormalForm DEF Decimal
  <1>3. z \in Nat /\ bd + d.scale = (s + bd) + z /\ s + bd \in Nat
    BY <1>2
  <1>4. pow10(bd + d.scale) = D * pow10(z)
    BY <1>2, <1>3, PowerSum DEF MidDenominator
  <1>5. N = m * (f * P)
    BY PowerSum, AmountAssumption DEF MidNumerator
  <1>6. f \in Nat \ {0} /\ P \in Nat \ {0} /\ pow10(z) \in Nat \ {0}
    BY <1>3, PowerPositive, MathAssumption
  <1>7. mid * D <= N /\ N < (mid + 1) * D
    BY <1>1, FloorBounds
  <1> HIDE DEF mid, D, N, m, s, z, f, P
  <1> DEFINE k == pow10(z)
  <1>8. k \in Nat \ {0}
    BY <1>6
  <1> HIDE DEF k
  <1>9. (m * k) * f * P = N * k
    BY <1>2, <1>5, <1>6, <1>8, SMT
  <1>10. mid * (D * k) = (mid * D) * k /\ (mid + 1) * (D * k) = ((mid + 1) * D) * k
    <2>1. mid + 1 \in Nat /\ mid \in Nat /\ D \in Nat /\ k \in Nat
      BY <1>1, <1>8
    <2> DEFINE over == mid + 1
    <2> HIDE DEF over
    <2>2. over \in Nat
      BY <2>1 DEF over
    <2>3. mid * (D * k) = (mid * D) * k /\ over * (D * k) = (over * D) * k
      BY <2>1, <2>2, Products
    <2> QED
      BY <2>3 DEF over
  <1>11. mid * D \in Nat /\ (mid + 1) * D \in Nat
    BY <1>1, SMT
  <1>12. (mid * D) * k <= N * k
    BY <1>1, <1>7, <1>8, <1>11, ProductMonotone
  <1>13. N * k < ((mid + 1) * D) * k
    BY <1>1, <1>7, <1>8, <1>11, SMT
  <1>14. d.mantissa * pow10(qd) * PRICE_SCALE = N * k
    BY <1>2, <1>9 DEF k, f, P
  <1>15. pow10(bd + d.scale) = D * k
    BY <1>4 DEF k
  <1> QED
    BY <1>10, <1>12, <1>13, <1>14, <1>15 DEF mid

\* The price printed reads as typed exactly when the division came out even.
LEMMA ExactReadsAsTyped ==
    ASSUME NEW d \in Decimal, NEW bd \in Nat, NEW qd \in Nat
    PROVE  exact(d, bd, qd)
               <=> format_mid_e9(to_mid_e9(d, bd, qd), bd, qd) = normalized(d)
  <1> DEFINE mid == to_mid_e9(d, bd, qd)
             N == MidNumerator(d, qd)
             D == MidDenominator(d, bd)
             m == normalized(d).mantissa
             s == normalized(d).scale
             w == qd + PRICE_SCALE_POW
             x == pow10(bd)
             e == [mantissa |-> mid * x, scale |-> PRICE_SCALE_POW + qd]
  <1>1. /\ N \in Nat /\ D \in Nat \ {0} /\ mid \in Nat /\ mid = N \div D
        /\ exact(d, bd, qd) <=> N % D = 0
    BY MidFraction
  <1>2. /\ m \in Nat /\ s \in Nat /\ d.scale \in Nat /\ s <= d.scale
        /\ d.mantissa = m * pow10(d.scale - s) /\ d.mantissa \in Nat
    BY NormalForm DEF Decimal
  <1>3. exact(d, bd, qd) <=> N = mid * D
    BY <1>1, Divides
  <1>4. format_mid_e9(mid, bd, qd) = normalized(e)
    BY DEF format_mid_e9, render
  <1>5. w \in Nat /\ e.scale = w /\ e.mantissa = mid * x
    BY AmountAssumption
  <1>6. N = m * pow10(w) /\ D = pow10(s) * x
    BY <1>2, PowerSum DEF MidNumerator, MidDenominator
  <1>7. x \in Nat \ {0} /\ pow10(s) \in Nat \ {0} /\ pow10(w) \in Nat \ {0}
    BY <1>2, <1>5, PowerPositive
  <1>8. e \in Decimal
    <2>1. mid * x \in Nat
      BY <1>1, <1>7, SMT
    <2> QED
      BY <2>1, <1>5 DEF Decimal
  <1>9. normalized(d) \in Decimal
    BY NormalForm
  <1> HIDE DEF mid, N, D, m, s, w, x, e
  <1>10. ASSUME N = mid * D PROVE normalized(e) = normalized(d)
    <2> DEFINE y == d.scale - s
    <2>1. y \in Nat /\ s + y = d.scale
      BY <1>2
    <2>2. pow10(d.scale) = pow10(s) * pow10(y) /\ pow10(y) \in Nat
      BY <1>2, <2>1, PowerSum, PowerPositive
    <2>3. m * pow10(w) = (mid * x) * pow10(s)
      <3>1. mid * (pow10(s) * x) = (mid * x) * pow10(s)
        BY <1>1, <1>7, SMT
      <3> QED
        BY <1>6, <1>10, <3>1
    <2>4. e.mantissa * pow10(d.scale) = d.mantissa * pow10(e.scale)
      <3>1. (mid * x) * (pow10(s) * pow10(y)) = ((mid * x) * pow10(s)) * pow10(y)
        BY <1>1, <1>7, <2>2, SMT
      <3>2. (m * pow10(w)) * pow10(y) = (m * pow10(y)) * pow10(w)
        BY <1>2, <1>7, <2>2, SMT
      <3> QED
        BY <1>2, <1>5, <2>2, <2>3, <3>1, <3>2
    <2> QED
      BY <1>8, <2>4, SameNumber
  <1>11. ASSUME normalized(e) = normalized(d) PROVE N = mid * D
    <2> DEFINE y == w - s
    <2>1. s <= w /\ mid * x = m * pow10(y)
      BY <1>5, <1>8, <1>11, NormalForm DEF m, s
    <2>2. y \in Nat /\ s + y = w
      BY <1>2, <1>5, <2>1
    <2>3. pow10(w) = pow10(s) * pow10(y) /\ pow10(y) \in Nat
      BY <1>2, <2>2, PowerSum, PowerPositive
    <2>4. mid * (pow10(s) * x) = (mid * x) * pow10(s)
      BY <1>1, <1>7, SMT
    <2>5. m * (pow10(s) * pow10(y)) = (m * pow10(y)) * pow10(s)
      BY <1>2, <1>7, <2>3, SMT
    <2> QED
      BY <1>6, <2>1, <2>3, <2>4, <2>5
  <1> QED
    BY <1>3, <1>4, <1>10, <1>11 DEF mid

\* The engine, given the typed price by its feed with any number of zeros moved between
\* mantissa and exponent, comes to the same mid.
LEMMA FeedReadsTheSame ==
    ASSUME NEW d \in Decimal, NEW bd \in Nat, NEW qd \in Nat, NEW zeros \in Nat
    PROVE  LET feed == [mantissa |-> d.mantissa * pow10(zeros), expo |-> -d.scale - zeros]
           IN  feed_mid_e9(feed, NoFeed, bd, qd) = to_mid_e9(d, bd, qd)
  <1> DEFINE feed == [mantissa |-> d.mantissa * pow10(zeros), expo |-> -d.scale - zeros]
             N == MidNumerator(d, qd)
             D == MidDenominator(d, bd)
             m == normalized(d).mantissa
             s == normalized(d).scale
             y == d.scale - s
             w == qd + PRICE_SCALE_POW
             power == ScalePower(feed, NoFeed, bd, qd)
             up == IF power > 0 THEN power ELSE 0
             down == IF -power > 0 THEN -power ELSE 0
  <1>1. /\ N \in Nat /\ D \in Nat \ {0} /\ to_mid_e9(d, bd, qd) = N \div D
    BY MidFraction
  <1>2. /\ m \in Nat /\ s \in Nat /\ d.scale \in Nat /\ s <= d.scale
        /\ d.mantissa = m * pow10(y) /\ d.mantissa \in Nat
    BY NormalForm DEF Decimal
  <1>3. N = m * pow10(w) /\ D = pow10(s + bd) /\ w \in Nat /\ s + bd \in Nat /\ y \in Nat
    BY <1>2, AmountAssumption DEF MidNumerator, MidDenominator
  <1>4. power = w - (d.scale + zeros + bd) /\ power \in Int
    BY <1>2, <1>3, AmountAssumption DEF ScalePower, NoFeed
  <1>5. /\ up \in Nat /\ down \in Nat /\ up - down = power
    BY <1>4
  <1>6. (zeros + up) + (s + bd) + y = w + down
    BY <1>2, <1>3, <1>4, <1>5
  <1>7. feed_mid_e9(feed, NoFeed, bd, qd)
            = ((d.mantissa * pow10(zeros)) * pow10(up)) \div (1 * pow10(down))
    BY DEF feed_mid_e9, ScaleProduct, NoFeed
  <1> HIDE DEF N, D, m, s, w, power, up, down
  <1>8. pow10(y + zeros + up + (s + bd)) = pow10(w + down)
    BY <1>2, <1>3, <1>5, <1>6
  <1> HIDE DEF y
  <1>9. /\ pow10(y + zeros + up + (s + bd))
               = pow10(y) * pow10(zeros) * pow10(up) * pow10(s + bd)
        /\ pow10(w + down) = pow10(w) * pow10(down)
    <2>1. y + zeros \in Nat /\ y + zeros + up \in Nat
      BY <1>3, <1>5
    <2>2. pow10(y + zeros) = pow10(y) * pow10(zeros)
      BY <1>3, PowerSum
    <2>3. pow10(y + zeros + up) = pow10(y + zeros) * pow10(up)
      BY <1>5, <2>1, PowerSum
    <2>4. pow10(y + zeros + up + (s + bd)) = pow10(y + zeros + up) * pow10(s + bd)
      BY <1>3, <2>1, PowerSum
    <2>5. pow10(w + down) = pow10(w) * pow10(down)
      BY <1>3, <1>5, PowerSum
    <2> QED
      BY <2>2, <2>3, <2>4, <2>5
  <1> DEFINE a == pow10(y)  b == pow10(zeros)  c == pow10(up)  k == pow10(down)
             e == pow10(w)
  <1>10. a \in Nat /\ b \in Nat /\ c \in Nat /\ k \in Nat \ {0} /\ e \in Nat
    BY <1>3, <1>5, PowerPositive
  <1>11. a * b * c * D = e * k
    BY <1>3, <1>8, <1>9
  <1>12. /\ N = m * e /\ d.mantissa = m * a
         /\ feed_mid_e9(feed, NoFeed, bd, qd) = ((m * a * b) * c) \div (1 * k)
    BY <1>2, <1>3, <1>7
  <1> HIDE DEF a, b, c, k, e
  <1>13. (m * a * b) * c \in Nat /\ 1 * k = k
    BY <1>2, <1>10, SMT
  <1>14. ((m * a * b) * c) * D = N * k
    <2> DEFINE ab == a * b
               abc == ab * c
    <2>1. /\ ab \in Nat /\ abc \in Nat
      BY <1>10, Products
    <2>2. m * a * b = m * ab
      BY <1>2, <1>10, Products
    <2> HIDE DEF ab
    <2>3. (m * ab) * c = m * abc
      BY <1>2, <1>10, <2>1, Products
    <2> HIDE DEF abc
    <2>4. (m * abc) * D = m * (abc * D)
      BY <1>1, <1>2, <2>1, Products
    <2>5. (m * e) * k = m * (e * k)
      BY <1>2, <1>10, Products
    <2> QED
      BY <1>11, <1>12, <2>2, <2>3, <2>4, <2>5 DEF ab, abc
  <1>15. ((m * a * b) * c) \div k = N \div D
    <2> DEFINE top == (m * a * b) * c
    <2>1. top \in Nat /\ top * D = N * k
      BY <1>13, <1>14
    <2> HIDE DEF top
    <2>2. top \div k = N \div D
      <3>1. N \in Nat /\ D \in Nat \ {0} /\ k \in Nat \ {0}
        BY <1>1, <1>10
      <3>2. (D * top) \div (D * k) = top \div k /\ (k * N) \div (k * D) = N \div D
        BY <2>1, <3>1, FloorScales
      <3>3. D * top = k * N /\ D * k = k * D
        BY <2>1, <3>1, SMT
      <3> QED
        BY <3>2, <3>3
    <2> QED
      BY <2>2 DEF top
  <1> QED
    BY <1>1, <1>12, <1>13, <1>15

-----------------------------------------------------------------------------
(* The invariant.                                                           *)

\* The keys an account may hold.
AnyKey == Keys \union {DefaultKey}

\* What a command may have seen of the chain.
Seens ==
    {Nil} \union {<<k>> : k \in AnyKey}
        \union (AnyKey \X Nat \X Nat) \union (AnyKey \X BOOLEAN)
        \union [quote_slot : Nat, posted : BOOLEAN, max_age : Nat, at : Nat]

\* Arguments of a command.
Args == {Nil} \union Funds \union Sets

\* Where a command may be.
Places == {"idle", "look", "sign", "send", "poll", "vaults", "details"}

\* The commands that sign.
Signing == {"deploy", "fund", "quote", "clear"}

\* A command, typed.
Cmds == [pc : Places, kind : Commands, args : Args, keypair : Keys \union {NoKey},
         tx : Txs \union {Nil}, seen : Seens, slot : Nat]

\* A line of the log, typed.
Entries == [verdict : Verdicts, kind : Commands, tx : Txs \union {Nil}, args : Args,
            seen : Seens]

\* The mint of a side, as the project names it.
OurMint(side) == IF side = "base" THEN Base ELSE Quote

\* There is one vault, it is the owner's and it trades the project's pair.
OurPair ==
    Deployed =>
        vault.owner = OwnerKey /\ vault.base_mint = Base /\ vault.quote_mint = Quote

\* A command that has passed its checks: its arguments convert without a loss.
Ready(s) ==
    /\ s.kind \in Signing
    /\ s.kind = "fund" =>
           /\ s.args \in Funds
           /\ normalized(s.args.amount).scale <= Decimals[OurMint(s.args.side)]
    /\ s.kind = "quote" => s.args \in Sets /\ Converts(s.args)

\* Its transaction is made of its arguments, and what only the owner may do he signs.
Carries(s) ==
    /\ Ready(s)
    /\ s.tx.ix.op = s.kind
    /\ s.kind \in {"deploy", "fund"} => s.tx.signer = OwnerKey
    /\ s.kind = "fund" =>
           s.tx.ix = [op |-> "fund", side |-> s.args.side,
                      amount |-> to_raw(s.args.amount, Decimals[OurMint(s.args.side)])]
    /\ s.kind = "quote" => s.tx.ix = [op |-> "quote", terms |-> summarize(s.args)]

\* Transactions as this command line signs them: a deployment is the owner's.
OwnTxs == {tx \in Txs : tx.ix.op = "deploy" => tx.signer = OwnerKey}

\* The command line's variables, typed.
ForgeFits ==
    /\ files \subseteq {InitFiles[i] : i \in 1..Len(InitFiles)}
    /\ wallet \in [base : Nat, quote : Nat]
    /\ cmd \in Cmds
    /\ log \in Seq(Entries)
    /\ mempool \subseteq OwnTxs
    /\ landed \subseteq [tx : Txs, outcome : {"ok", "err"}]

\* What a command has at each of its places.
CmdFits ==
    /\ cmd.pc = "look" =>
           /\ cmd.kind \in Signing \union {"status"}
           /\ cmd.kind = "fund" => cmd.args \in Funds
           /\ cmd.kind = "quote" => cmd.args \in Sets
    /\ cmd.pc \in {"sign", "send", "poll"} => Ready(cmd)
    /\ cmd.tx # Nil <=> cmd.pc \in {"send", "poll"}

\* Every command that has signed, running or finished, carries what was typed.
SignedFits ==
    /\ cmd.tx # Nil => Carries(cmd)
    /\ \A i \in 1..Len(log) : log[i].tx # Nil => Carries(log[i])

\* Only a deployment is signed for a vault that is not there.
SignedStand ==
    Deployed \/ /\ cmd.pc \in {"sign", "send", "poll"} => cmd.kind = "deploy"
                /\ \A i \in 1..Len(log) : log[i].tx # Nil => log[i].kind = "deploy"

\* The adapter's two states of having read nothing, and the venues that may be asked.
AdapterFits ==
    /\ adapter \in Views \union {NoView} /\ read \in Views \union {NoView}
    /\ adapter = NoView => read = NoView
    /\ adapter # NoView =>
           IF adapter.inventory = NoView THEN read = NoView ELSE adapter = read
    /\ Amm \in synced => adapter # NoView /\ adapter.inventory # NoView

\* The pool, as it is and as it was read.
RivalFits ==
    /\ pool \in Holdings /\ rival \in Holdings \union {NoView}
    /\ Rival \in synced => rival # NoView

\* A route is the best answer there was; through the vault, it is one the vault took
\* as it was read.
RouteFits ==
    route # NoRoute =>
        /\ route.venue \in Venues /\ route.out \in 1..U64Max
        /\ route.request \in SwapRequest
        /\ \A v \in DOMAIN route.outs \ {route.venue} :
               \/ route.out > route.outs[v]
               \/ route.venue = Rival /\ route.out = route.outs[v]
        /\ route.venue = Amm =>
               /\ ~route.view.halted
               /\ SwapAllowed(route.view.params, route.view.inventory, route.request,
                              route.clock)
               /\ AmountOut(route.view.params, route.request) = route.out

\* The router's variables.
MarketFits ==
    /\ AdapterFits
    /\ RivalFits
    /\ synced \subseteq Venues
    /\ clock \in Nat /\ clock <= slot
    /\ RouteFits

\* The inductive invariant of the desk: the vault's own, the owner's side and the
\* taker's side.
DeskInv ==
    /\ IInv
    /\ OurPair
    /\ ForgeFits /\ CmdFits /\ SignedFits /\ SignedStand
    /\ MarketFits

-----------------------------------------------------------------------------
(* What the chain does.                                                     *)

\* The project's addresses and mints are among those the vault knows.
LEMMA Ours ==
    /\ OwnerKey \in Keys /\ Base \in Mints /\ Quote \in Mints /\ Base # Quote
    /\ Limits \in RiskLimits /\ Decimals \in [Mints -> Nat]
    /\ DefaultKey \notin Keys /\ Nil \notin Txs
    /\ Funds \subseteq [side : TreasurySides, amount : Decimal]
  BY ForgeAssumption, VaultAssumption

\* The parts of a transaction.
LEMMA TxShape ==
    ASSUME NEW tx \in Txs
    PROVE  /\ tx.signer \in Keys /\ tx.hash \in Nat
           /\ tx.ix.op = "fund" => tx.ix.side \in TreasurySides /\ tx.ix.amount \in Nat
           /\ tx.ix.op = "quote" => tx.ix.terms \in QuoteUpdate
  BY DEF Txs

\* What a transaction does is an instruction of the vault with typed arguments,
LEMMA ExecuteIsAny ==
    ASSUME NEW tx \in Txs, Execute(tx)
    PROVE  AnyStep
  <1>1. CASE tx.ix.op = "deploy" /\
             initialize_vault(tx.signer, Base, Quote, tx.signer, tx.signer, Limits)
    BY <1>1, Ours, TxShape DEF AnyStep, StepOf
  <1>2. CASE tx.ix.op = "fund" /\ deposit(tx.signer, tx.ix.side, tx.ix.amount)
    BY <1>2, TxShape DEF AnyStep, StepOf
  <1>3. CASE tx.ix.op = "quote" /\ update_quote(tx.signer, tx.ix.terms)
    BY <1>3, TxShape DEF AnyStep, StepOf
  <1>4. CASE clear_quote_ix(tx.signer)
    BY <1>4, TxShape DEF AnyStep, StepOf
  <1> QED
    BY <1>1, <1>2, <1>3, <1>4 DEF Execute

\* so is what anybody else does,
LEMMA OthersAreAny ==
    ASSUME IInv, OthersMove
    PROVE  AnyStep
  <1>1. Deployed => vault.pricing_authority \in Keys
    BY DEF IInv, Screened
  <1>2. /\ LimitInputs \subseteq RiskLimits /\ QuoteInputs \subseteq QuoteUpdate
        /\ Amounts \subseteq Nat /\ Gifts \subseteq Nat /\ Orders \subseteq SwapRequest
    BY VaultAssumption DEF Orders, SwapRequest
  <1>3. CASE \E k \in Keys : set_pricing_authority(OwnerKey, k)
    BY <1>3, Ours DEF AnyStep, StepOf
  <1>4. CASE \E flag \in BOOLEAN \ {vault.halted} : SetHalted(flag)
    BY <1>4 DEF AnyStep, StepOf
  <1>5. CASE \E l \in LimitInputs : set_risk_limits(OwnerKey, l)
    BY <1>2, <1>5, Ours DEF AnyStep, StepOf
  <1>6. CASE \E q \in QuoteInputs : update_quote(vault.pricing_authority, q)
    <2>1. vault.pricing_authority \in Keys
      BY <1>1, <1>6 DEF update_quote, ByPricing
    <2> QED
      BY <1>2, <1>6, <2>1 DEF AnyStep, StepOf
  <1>7. CASE \E req \in Orders : swap(req)
    BY <1>2, <1>7 DEF AnyStep, StepOf
  <1>8. CASE \E side \in TreasurySides, amount \in Gifts : Gift(side, amount)
    BY <1>2, <1>8 DEF AnyStep, StepOf
  <1>9. CASE \E side \in TreasurySides, amount \in Amounts : withdraw(OwnerKey, side, amount)
    BY <1>2, <1>9, Ours DEF AnyStep, StepOf
  <1> QED
    BY <1>3, <1>4, <1>5, <1>6, <1>7, <1>8, <1>9 DEF OthersMove

\* and so the vault sees, of every step of the desk, one of its own or none: what is
\* proved of the vault for arguments of whole types holds here.
LEMMA ChainStep ==
    ASSUME DeskInv, [DeskNext]_deskVars
    PROVE  [AnyStep]_vars
  <1>1. CASE Owner
    <2>1. CASE \E tx \in mempool : Land(tx)
      <3>1. PICK tx \in mempool : Land(tx)
        BY <2>1
      <3>2. tx \in Txs
        BY DEF DeskInv, ForgeFits, OwnTxs
      <3> QED
        BY <3>1, <3>2, ExecuteIsAny DEF Land
    <2>2. CASE UNCHANGED vars
      BY <2>2
    <2> QED
      BY <1>1, <2>1, <2>2
         DEF Owner, ForgeNext, init, Open, AskFails, Look, Sign, Send, SendUnanswered,
             PollFinds, PollTimesOut, PollFails, StatusSlot, StatusVaults, StatusDetails,
             Expire
  <1>2. CASE Taker
    <2>1. CASE Hop
      <3>1. CASE swap(route.request)
        <4>1. route.request \in SwapRequest
          BY <2>1 DEF Hop, DeskInv, MarketFits, RouteFits
        <4> QED
          BY <3>1, <4>1 DEF AnyStep, StepOf
      <3> QED
        BY <2>1, <3>1 DEF Hop
    <2>2. CASE UNCHANGED vars
      BY <2>2
    <2> QED
      BY <1>2, <2>1, <2>2
         DEF Taker, MarketNext, Register, SetSlot, Update, Route, Drop, RivalMoves
  <1>3. CASE Others
    BY <1>3, OthersAreAny DEF Others, DeskInv
  <1>4. CASE DeskTick
    BY <1>4 DEF DeskTick, AnyStep, StepOf
  <1>5. CASE UNCHANGED deskVars
    BY <1>5 DEF deskVars
  <1> QED
    BY <1>1, <1>2, <1>3, <1>4, <1>5 DEF DeskNext

\* A vault that is there stays, with its owner and its mints.
LEMMA VaultStays ==
    ASSUME IInv, [AnyStep]_vars, Deployed
    PROVE  /\ vault'.owner = vault.owner /\ Deployed'
           /\ vault'.base_mint = vault.base_mint /\ vault'.quote_mint = vault.quote_mint
  <1>1. vault \in Vaults
    BY DEF IInv, TypeOK
  <1>2. \/ UNCHANGED vault
        \/ \E k : vault' = [vault EXCEPT !.pricing_authority = k]
        \/ \E k : vault' = [vault EXCEPT !.halt_authority = k]
        \/ \E flag : vault' = [vault EXCEPT !.halted = flag]
    <2>1. ASSUME NEW s, NEW k, set_pricing_authority(s, k)
          PROVE  <1>2
      BY <2>1 DEF set_pricing_authority
    <2>2. ASSUME NEW s, NEW k, set_halt_authority(s, k)
          PROVE  <1>2
      BY <2>2 DEF set_halt_authority
    <2>3. ASSUME NEW flag, SetHalted(flag)
          PROVE  <1>2
      BY <2>3 DEF SetHalted
    <2>4. ASSUME \/ \E s, l : set_risk_limits(s, l)
                 \/ \E s, side, amount : deposit(s, side, amount)
                 \/ \E s, side, amount : withdraw(s, side, amount)
                 \/ \E s, q : update_quote(s, q)
                 \/ \E s : clear_quote_ix(s)
                 \/ \E req : swap(req)
                 \/ \E side, amount : Gift(side, amount)
                 \/ Tick \/ UNCHANGED vars
          PROVE  UNCHANGED vault
      BY <2>4 DEF set_risk_limits, deposit, withdraw, update_quote, clear_quote_ix, swap,
                  Gift, Tick, vars
    <2>5. ~\E owner \in Keys, base \in Mints, qte \in Mints, pricing \in Keys,
              halting \in Keys, l \in RiskLimits :
               initialize_vault(owner, base, qte, pricing, halting, l)
      BY DEF initialize_vault
    <2> QED
      BY <2>1, <2>2, <2>3, <2>4, <2>5 DEF AnyStep, StepOf
  <1> QED
    BY <1>1, <1>2 DEF Vaults, Deployed

\* The vault stays the owner's, on the project's pair.
LEMMA PairStep ==
    ASSUME DeskInv, [DeskNext]_deskVars
    PROVE  OurPair'
  <1>1. CASE Deployed
    BY <1>1, ChainStep, VaultStays DEF DeskInv, OurPair
  <1>2. CASE ~Deployed
    <2>1. CASE UNCHANGED vault
      BY <1>2, <2>1 DEF OurPair, Deployed
    <2>2. CASE \E tx \in mempool : Execute(tx)
      <3>1. PICK tx \in mempool : Execute(tx)
        BY <2>2
      <3>2. /\ tx.ix.op = "deploy"
            /\ initialize_vault(tx.signer, Base, Quote, tx.signer, tx.signer, Limits)
        BY <1>2, <3>1 DEF Execute, deposit, update_quote, clear_quote_ix, ByOwner, ByPricing
      <3>3. tx.signer = OwnerKey
        BY <3>2 DEF DeskInv, ForgeFits, OwnTxs
      <3> QED
        BY <3>2, <3>3 DEF initialize_vault, OurPair
    <2>3. CASE OthersMove
      <3>1. UNCHANGED vault
        BY <1>2, <2>3 DEF OthersMove, set_pricing_authority, SetHalted, set_risk_limits,
           update_quote, swap, Gift, withdraw, ByOwner, ByPricing
      <3> QED
        BY <2>1, <3>1
    <2>4. CASE Hop
      BY <2>1, <2>4 DEF Hop, swap, vars
    <2>5. CASE Owner
      BY <2>1, <2>2, <2>5
         DEF Owner, ForgeNext, init, Open, AskFails, Look, Sign, Send, SendUnanswered,
             PollFinds, PollTimesOut, PollFails, StatusSlot, StatusVaults, StatusDetails,
             Expire, Land, vars
    <2>6. CASE Taker
      BY <2>1, <2>4, <2>6
         DEF Taker, MarketNext, Register, SetSlot, Update, Route, Drop, RivalMoves, vars
    <2>7. CASE Others \/ DeskTick \/ UNCHANGED deskVars
      BY <2>1, <2>3, <2>7 DEF Others, DeskTick, Tick, deskVars, vars
    <2> QED
      BY <2>5, <2>6, <2>7 DEF DeskNext
  <1> QED
    BY <1>1, <1>2

\* Where a story begins, the vault is as a deployment leaves it.
LEMMA InitChain == DeskInit => IInv /\ OurPair
  <1> SUFFICES ASSUME DeskInit PROVE IInv /\ OurPair
    OBVIOUS
  <1>1. PICK start \in Starts :
           /\ treasury = start.treasury
           /\ vault = IF start.deployed THEN OwnersVault ELSE NoVault
           /\ limits = IF start.deployed THEN Limits
                       ELSE [max_quote_age_slots |-> 0, max_skew_bps |-> 0]
           /\ quote = start.quote
           /\ told = [quote |-> start.quote, holdings |-> start.treasury, sound |-> TRUE]
           /\ signer = IF start.quote = NoQuote THEN DefaultKey ELSE OwnerKey
    BY DEF DeskInit
  <1>2. Begins(start)
    BY DeskAssumption
  <1>3. slot = 0 /\ untold = Nothing
    BY DEF DeskInit
  <1>4. Posted <=> start.quote # NoQuote
    BY <1>1, <1>2 DEF Posted, Begins, NoQuote
  <1>5. OwnersVault \in Vaults /\ NoVault \in Vaults
    BY Ours DEF OwnersVault, NoVault, Vaults
  <1>6. TypeOK
    BY <1>1, <1>2, <1>3, <1>5, Ours DEF TypeOK, Begins, Holdings, RiskLimits, Nothing
  <1>7. Deployed <=> start.deployed
    BY <1>1, Ours DEF Deployed, OwnersVault, NoVault
  <1>8. Screened
    BY <1>1, <1>2, <1>4, <1>7, Ours DEF Screened, OwnersVault, Begins
  <1>9. PriceIsTheAuthoritys
    BY <1>1, <1>2, <1>4, <1>7 DEF PriceIsTheAuthoritys, OwnersVault, Begins
  <1>10. PriceIsWhole
    <2>1. CASE Posted
      <3>1. ASSUME NEW side \in Sides
            PROVE  PriceVerdict(quote_params, side) = "Ok"
        <4>1. PriceVerdict(start.quote, side) = "Ok"
          BY <1>2, <1>4, <2>1 DEF Begins
        <4>2. /\ quote_params.mid_e9 = start.quote.mid_e9
              /\ quote_params.spread_bps = start.quote.spread_bps
              /\ quote_params.skew_bps = start.quote.skew_bps
          BY <1>1 DEF quote_params
        <4> QED
          BY <4>1, <4>2, VerdictOfPrice
      <3> QED
        BY <1>1, <1>2, <1>3, <1>4, <2>1, <3>1 DEF PriceIsWhole, Begins
    <2>2. CASE ~Posted
      BY <1>1, <1>4, <2>2 DEF PriceIsWhole
    <2> QED
      BY <2>1, <2>2
  <1>11. EventsTellTheState
    BY <1>1, <1>2, <1>3 DEF EventsTellTheState, Nothing, TreasurySides, Begins, Holdings
  <1>12. OurPair
    BY <1>1, <1>7, Ours DEF OurPair, OwnersVault
  <1> QED
    BY <1>6, <1>8, <1>9, <1>10, <1>11, <1>12 DEF IInv

-----------------------------------------------------------------------------
(* What the command line does.                                              *)

\* The owner's side of the invariant.
ForgeInv == ForgeFits /\ CmdFits /\ SignedFits /\ SignedStand

\* Between commands.
LEMMA IdleFits == Idle \in Cmds /\ Idle.tx = Nil /\ Idle.pc = "idle" /\ Idle.kind = "none"
  BY DEF Idle, Cmds, Places, Commands, Args, Seens

\* The log grows by one.
LEMMA LogGrows ==
    ASSUME log \in Seq(Entries), NEW e \in Entries, log' = Append(log, e)
    PROVE  /\ log' \in Seq(Entries)
           /\ Len(log) \in Nat /\ Len(log') = Len(log) + 1
           /\ \A i \in 1..Len(log) : i \in 1..Len(log') /\ log'[i] = log[i]
           /\ Len(log) + 1 \in 1..Len(log') /\ log'[Len(log) + 1] = e
           /\ \A i \in 1..Len(log') : i \in 1..Len(log) \/ i = Len(log) + 1
  <1>1. Len(log) \in Nat
    BY LenProperties
  <1>2. /\ log' \in Seq(Entries) /\ Len(log') = Len(log) + 1
        /\ \A i \in 1..Len(log) : log'[i] = log[i]
        /\ log'[Len(log) + 1] = e
    BY AppendProperties
  <1> QED
    BY <1>1, <1>2

\* The lines of the log are typed.
LEMMA EntryFits ==
    ASSUME ForgeInv, NEW i \in 1..Len(log)
    PROVE  log[i] \in Entries
  BY ElementOfSeq DEF ForgeInv, ForgeFits


\* An entry that is well made keeps the log so, and a command that ends leaves nothing.
LEMMA LogSigned ==
    ASSUME ForgeInv, NEW e \in Entries, log' = Append(log, e),
           e.tx # Nil => Carries(e)
    PROVE  \A i \in 1..Len(log') : log'[i].tx # Nil => Carries(log'[i])
  <1>1. log \in Seq(Entries) /\ \A i \in 1..Len(log) : log[i].tx # Nil => Carries(log[i])
    BY DEF ForgeInv, ForgeFits, SignedFits
  <1> QED
    BY <1>1, LogGrows

\* The log of a vault that is not there has only deployments.
LEMMA LogStands ==
    ASSUME ForgeInv, NEW e \in Entries, log' = Append(log, e), Deployed => Deployed',
           e.tx # Nil => e.kind = "deploy" \/ Deployed'
    PROVE  Deployed' \/ \A i \in 1..Len(log') : log'[i].tx # Nil => log'[i].kind = "deploy"
  <1> SUFFICES ASSUME ~Deployed'
               PROVE  \A i \in 1..Len(log') : log'[i].tx # Nil => log'[i].kind = "deploy"
    OBVIOUS
  <1>1. /\ log \in Seq(Entries)
        /\ \A i \in 1..Len(log) : log[i].tx # Nil => log[i].kind = "deploy"
    BY DEF ForgeInv, ForgeFits, SignedStand
  <1> QED
    BY <1>1, LogGrows

\* What the end of a command leaves of the invariant.
LEMMA EndFits ==
    ASSUME ForgeInv, NEW e \in Entries, log' = Append(log, e), cmd' = Idle \/ cmd' = cmd,
           Deployed => Deployed', UNCHANGED <<wallet, mempool, landed>>,
           files' \subseteq {InitFiles[i] : i \in 1..Len(InitFiles)},
           e.tx # Nil => Carries(e) /\ (e.kind = "deploy" \/ Deployed)
    PROVE  ForgeInv'
  <1>1. ForgeFits /\ CmdFits /\ SignedFits /\ SignedStand
    BY DEF ForgeInv
  <1>2. log \in Seq(Entries) /\ log' \in Seq(Entries)
    BY <1>1, LogGrows DEF ForgeFits
  <1>3. ForgeFits'
    BY <1>1, <1>2, IdleFits DEF ForgeFits
  <1>4. CmdFits'
    BY <1>1, IdleFits DEF CmdFits
  <1>5. SignedFits'
    BY <1>1, IdleFits, LogSigned DEF SignedFits
  <1>6. SignedStand'
    <2>1. Deployed' \/ \A i \in 1..Len(log') : log'[i].tx # Nil => log'[i].kind = "deploy"
      BY LogStands
    <2> QED
      BY <1>1, <2>1, IdleFits DEF SignedStand
  <1> QED
    BY <1>3, <1>4, <1>5, <1>6 DEF ForgeInv

\* A command that ends with a verdict keeps the invariant.
LEMMA TellFits ==
    ASSUME ForgeInv, NEW verdict \in Verdicts, Tell(verdict), Deployed => Deployed',
           UNCHANGED <<files, wallet, mempool, landed>>
    PROVE  ForgeInv'
  <1> DEFINE e == [verdict |-> verdict, kind |-> cmd.kind, tx |-> cmd.tx,
                   args |-> IF cmd.tx = Nil THEN Nil ELSE cmd.args,
                   seen |-> IF verdict = "refused" THEN Nil ELSE cmd.seen]
  <1>1. ForgeFits /\ CmdFits /\ SignedFits /\ SignedStand
    BY DEF ForgeInv
  <1>2. cmd \in Cmds /\ Nil \in Args /\ Nil \in Seens
    BY <1>1 DEF ForgeFits, Args, Seens
  <1>3. e \in Entries
    BY <1>2 DEF Cmds, Entries
  <1>4. log' = Append(log, e) /\ cmd' = Idle
    BY DEF Tell
  <1>5. e.tx # Nil => Carries(e) /\ (e.kind = "deploy" \/ Deployed)
    <2>1. e.tx # Nil => e.tx = cmd.tx /\ e.kind = cmd.kind /\ e.args = cmd.args
      OBVIOUS
    <2> HIDE DEF e
    <2>2. e.tx # Nil => Carries(cmd) /\ (Deployed \/ cmd.kind = "deploy")
      BY <1>1, <2>1 DEF SignedFits, CmdFits, SignedStand
    <2> QED
      BY <2>1, <2>2 DEF Carries, Ready
  <1>6. files' \subseteq {InitFiles[i] : i \in 1..Len(InitFiles)}
    BY <1>1 DEF ForgeFits
  <1> HIDE DEF e
  <1> QED
    BY <1>3, <1>4, <1>5, <1>6, EndFits

\* Steps that leave the command line where it is, whatever the wallet holds.
LEMMA ForgeKept ==
    ASSUME ForgeInv, UNCHANGED <<files, cmd, mempool, landed, log>>,
           wallet' \in [base : Nat, quote : Nat], Deployed => Deployed'
    PROVE  ForgeInv'
  <1>1. ForgeFits /\ CmdFits /\ SignedFits /\ SignedStand
    BY DEF ForgeInv
  <1>2. ForgeFits'
    BY <1>1 DEF ForgeFits
  <1>3. CmdFits'
    BY <1>1 DEF CmdFits
  <1>4. SignedFits'
    BY <1>1 DEF SignedFits
  <1>5. SignedStand'
    BY <1>1 DEF SignedStand
  <1> QED
    BY <1>2, <1>3, <1>4, <1>5 DEF ForgeInv

\* init keeps it, however far it comes.
LEMMA InitFits ==
    ASSUME ForgeInv, NEW force \in BOOLEAN, NEW written \in 0..Len(InitFiles),
           init(force, written), Deployed => Deployed'
    PROVE  ForgeInv'
  <1> DEFINE e == [verdict |-> IF written = Len(InitFiles) THEN "done" ELSE "failed",
                   kind |-> "init", args |-> Nil, tx |-> Nil, seen |-> Nil]
  <1>1. e \in Entries /\ e.tx = Nil
    BY DEF Entries, Args, Seens, Commands, Verdicts
  <1>2. log' = Append(log, e) /\ UNCHANGED <<wallet, cmd, mempool, landed>>
    BY DEF init
  <1>3. files' \subseteq {InitFiles[i] : i \in 1..Len(InitFiles)}
    <2>1. Len(InitFiles) = 3
      BY DEF InitFiles
    <2>2. /\ files \subseteq {InitFiles[i] : i \in 1..Len(InitFiles)}
          /\ files' = files \union {InitFiles[i] : i \in 1..written}
      BY DEF ForgeInv, ForgeFits, init
    <2> QED
      BY <2>1, <2>2
  <1> HIDE DEF e
  <1> QED
    BY <1>1, <1>2, <1>3, EndFits

\* So does a request that fails,
LEMMA AskFailsFits ==
    ASSUME ForgeInv, AskFails, Deployed => Deployed'
    PROVE  ForgeInv'
  <1> DEFINE e == [verdict |-> "failed", kind |-> cmd.kind, args |-> Nil,
                   tx |-> Nil, seen |-> Nil]
  <1>1. cmd \in Cmds
    BY DEF ForgeInv, ForgeFits
  <1>2. e \in Entries /\ e.tx = Nil
    BY <1>1 DEF Entries, Args, Seens, Verdicts, Cmds
  <1>3. log' = Append(log, e) /\ cmd' = Idle /\ UNCHANGED <<files, wallet, mempool, landed>>
    BY DEF AskFails
  <1>4. files' \subseteq {InitFiles[i] : i \in 1..Len(InitFiles)}
    BY <1>3 DEF ForgeInv, ForgeFits
  <1> HIDE DEF e
  <1> QED
    BY <1>2, <1>3, <1>4, EndFits

\* A command that goes on to a next request.
LEMMA CmdGoesOn ==
    ASSUME ForgeInv, UNCHANGED <<files, wallet, landed, log>>, Deployed => Deployed',
           mempool' \subseteq OwnTxs, cmd' \in Cmds, CmdFits',
           cmd'.tx # Nil => Carries(cmd'),
           cmd'.pc \in {"sign", "send", "poll"} /\ cmd'.kind # "deploy" => Deployed'
    PROVE  ForgeInv'
  <1>1. ForgeFits /\ CmdFits /\ SignedFits /\ SignedStand
    BY DEF ForgeInv
  <1>2. ForgeFits'
    BY <1>1 DEF ForgeFits
  <1>3. SignedFits'
    BY <1>1 DEF SignedFits
  <1>4. SignedStand'
    BY <1>1 DEF SignedStand
  <1> QED
    BY <1>2, <1>3, <1>4 DEF ForgeInv

\* the opening of a command,
LEMMA OpenFits ==
    ASSUME ForgeInv, NEW kind \in Signing \union {"status"}, NEW args \in Args,
           NEW keypair \in Keys \union {NoKey}, Open(kind, args, keypair),
           kind = "fund" => args \in Funds, kind = "quote" => args \in Sets,
           Deployed => Deployed'
    PROVE  ForgeInv'
  <1>1. cmd \in Cmds /\ mempool \subseteq OwnTxs
    BY DEF ForgeInv, ForgeFits
  <1>2. /\ UNCHANGED <<files, wallet, mempool, landed, log>>
        /\ cmd' = [Idle EXCEPT !.pc = "look", !.kind = kind, !.args = args,
                               !.keypair = keypair]
    BY DEF Open
  <1>3. cmd' = [pc |-> "look", kind |-> kind, args |-> args, keypair |-> keypair,
                tx |-> Nil, seen |-> Nil, slot |-> 0]
    BY <1>2 DEF Idle
  <1>4. cmd' \in Cmds
    BY <1>3 DEF Cmds, Places, Commands, Signing, Seens
  <1>5. CmdFits'
    BY <1>3 DEF CmdFits
  <1>6. cmd'.tx = Nil /\ cmd'.pc = "look"
    BY <1>3
  <1> QED
    BY <1>1, <1>2, <1>4, <1>5, <1>6, CmdGoesOn

\* The account names the mints the project does.
LEMMA MintOfOurs ==
    ASSUME OurPair, Deployed, NEW side \in TreasurySides
    PROVE  MintOf(side) = OurMint(side)
  BY DEF OurPair, MintOf, OurMint

\* Looking: a command that goes on has arguments that convert.
LEMMA LookFits ==
    ASSUME IInv, OurPair, ForgeInv, Look, UNCHANGED vars
    PROVE  ForgeInv'
  <1>0. Deployed => Deployed'
    BY DEF vars, Deployed
  <1>1. cmd \in Cmds /\ mempool \subseteq OwnTxs /\ wallet \in [base : Nat, quote : Nat] /\ CmdFits
    BY DEF ForgeInv, ForgeFits
  <1>2. cmd.pc = "look" /\ cmd.kind \in Signing /\ cmd.tx = Nil
    BY <1>1 DEF Look, CmdFits
  <1>3. CASE Tell("refused")
    BY <1>0, <1>3, TellFits DEF Look, Verdicts
  <1>4. CASE Checks /\ cmd' = [cmd EXCEPT !.pc = "sign", !.seen = SeenBy(cmd.kind, cmd.args)]
                    /\ UNCHANGED log
    <2>1. cmd.kind = "fund" => cmd.args \in Funds /\ cmd.args.side \in TreasurySides
      BY <1>1, <1>2, Ours DEF CmdFits
    <2>2. vault \in Vaults /\ treasury \in Holdings
      BY DEF IInv, TypeOK
    <2>3. SeenBy(cmd.kind, cmd.args) \in Seens
      <3>1. /\ vault.owner \in AnyKey /\ vault.pricing_authority \in AnyKey
            /\ vault.halted \in BOOLEAN
        BY <2>2 DEF Vaults, AnyKey
      <3>2. CASE cmd.kind = "deploy"
        BY <3>1, <3>2 DEF SeenBy, Seens
      <3>3. CASE cmd.kind = "fund"
        <4>1. wallet[cmd.args.side] \in Nat /\ treasury[cmd.args.side] \in Nat
          BY <1>1, <2>1, <2>2, <3>3 DEF TreasurySides, Holdings
        <4>2. SeenBy(cmd.kind, cmd.args)
                  = <<vault.owner, wallet[cmd.args.side], treasury[cmd.args.side]>>
          BY <3>3 DEF SeenBy
        <4> QED
          BY <3>1, <4>1, <4>2 DEF Seens
      <3>4. CASE cmd.kind = "quote"
        BY <3>1, <3>4 DEF SeenBy, Seens
      <3>5. CASE cmd.kind = "clear"
        BY <3>1, <3>5 DEF SeenBy, Seens
      <3> QED
        BY <1>2, <3>2, <3>3, <3>4, <3>5 DEF Signing
    <2> DEFINE seen == SeenBy(cmd.kind, cmd.args)
    <2> HIDE DEF seen
    <2>4. /\ cmd'.pc = "sign" /\ cmd'.kind = cmd.kind /\ cmd'.args = cmd.args
          /\ cmd'.tx = Nil
      BY <1>1, <1>2, <1>4 DEF Cmds
    <2>5. cmd' \in Cmds
      <3>1. cmd' = [cmd EXCEPT !.pc = "sign", !.seen = seen]
        BY <1>4 DEF seen
      <3>2. seen \in Seens
        BY <2>3 DEF seen
      <3> QED
        BY <1>1, <3>1, <3>2 DEF Cmds, Places
    <2>6. cmd.kind = "fund" =>
              /\ Deployed
              /\ normalized(cmd.args.amount).scale <= Decimals[OurMint(cmd.args.side)]
      <3> SUFFICES ASSUME cmd.kind = "fund"
                   PROVE  /\ Deployed
                          /\ normalized(cmd.args.amount).scale
                                 <= Decimals[OurMint(cmd.args.side)]
        OBVIOUS
      <3>1. FundLook
        BY <1>4 DEF Checks
      <3>2. Deployed /\ MintOf(cmd.args.side) = OurMint(cmd.args.side)
        BY <2>1, <3>1, MintOfOurs DEF FundLook
      <3>3. ~(normalized(cmd.args.amount).scale > Decimals[OurMint(cmd.args.side)])
        BY <3>1, <3>2 DEF FundLook, ToRawVerdict
      <3>4. normalized(cmd.args.amount).scale \in Nat
        <4>1. cmd.args.amount \in Decimal
          BY <2>1, Ours
        <4> QED
          BY <4>1, NormalForm DEF Decimal
      <3>5. Decimals[OurMint(cmd.args.side)] \in Nat
        BY Ours DEF OurMint
      <3> QED
        BY <3>2, <3>3, <3>4, <3>5
    <2>11. cmd.kind # "deploy" => Deployed
      BY <1>2, <1>4, <2>6 DEF Checks, QuoteLook, Signing
    <2>7. cmd.kind = "quote" => cmd.args \in Sets /\ Converts(cmd.args)
      BY <1>1, <1>2, <1>4 DEF CmdFits, Checks, InDomain
    <2>8. Ready(cmd)
      BY <1>2, <2>1, <2>6, <2>7 DEF Ready
    <2>9. Ready(cmd')
      BY <2>4, <2>8 DEF Ready
    <2>10. CmdFits'
      BY <2>4, <2>9 DEF CmdFits
    <2> QED
      BY <1>0, <1>1, <1>4, <2>4, <2>5, <2>10, <2>11, CmdGoesOn DEF Look
  <1> QED
    BY <1>3, <1>4 DEF Look

\* What summarize hands over has the types of the instruction.
LEMMA SummaryTyped ==
    ASSUME NEW a \in Sets, Converts(a)
    PROVE  summarize(a) \in QuoteUpdate
  <1>1. /\ a.mid \in Decimal /\ a.size \in Decimal
        /\ a.spread_bps \in Nat /\ a.skew_bps \in Int
        /\ a.mid_how \in HowGiven /\ a.size_how \in HowGiven
    BY ForgeAssumption
  <1>2. Decimals[Base] \in Nat /\ Decimals[Quote] \in Nat
    BY Ours
  <1>3. to_mid_e9(a.mid, Decimals[Base], Decimals[Quote]) \in Nat
    BY <1>1, <1>2, MidFraction
  <1>4. MidOf(a) \in Nat
    BY <1>1, <1>3 DEF MidOf, Decimal
  <1>5. SizeOf(a) \in Nat
    <2>1. CASE a.size_how = "raw"
      BY <1>1, <2>1 DEF SizeOf, Decimal
    <2>2. CASE a.size_how # "raw"
      <3>1. ToRawVerdict(a.size, Decimals[Base]) = "Ok"
        BY <1>1, <2>2 DEF Converts, HowGiven
      <3>2. ~(normalized(a.size).scale > Decimals[Base])
        BY <3>1 DEF ToRawVerdict
      <3>3. normalized(a.size).scale \in Nat
        BY <1>1, NormalForm DEF Decimal
      <3>4. to_raw(a.size, Decimals[Base]) \in Nat
        BY <1>1, <1>2, <3>2, <3>3, RawIsTyped
      <3> QED
        BY <2>2, <3>4 DEF SizeOf
    <2> QED
      BY <2>1, <2>2
  <1> QED
    BY <1>1, <1>4, <1>5 DEF summarize, QuoteUpdate

\* Signing: what is signed is an instruction with typed arguments, made of what was typed.
LEMMA SignFits ==
    ASSUME IInv, OurPair, ForgeInv, Sign, UNCHANGED vars
    PROVE  ForgeInv'
  <1> DEFINE tx == [ix |-> Instruction, hash |-> slot,
                    signer |-> IF cmd.kind \in {"quote", "clear"} THEN Signer ELSE OwnerKey]
  <1>0. Deployed => Deployed'
    BY DEF vars, Deployed
  <1>1. cmd \in Cmds /\ mempool \subseteq OwnTxs /\ CmdFits /\ SignedStand
    BY DEF ForgeInv, ForgeFits
  <1>2. cmd.pc = "sign" /\ Ready(cmd)
    BY <1>1 DEF Sign, CmdFits
  <1>3. cmd' = [cmd EXCEPT !.pc = "send", !.tx = tx]
    BY DEF Sign
  <1>4. tx.hash \in Nat /\ tx.signer \in Keys
    <2>1. slot \in Nat
      BY DEF IInv, TypeOK
    <2>2. cmd.keypair \in Keys \union {NoKey} /\ OwnerKey \in Keys
      BY <1>1, Ours DEF Cmds
    <2> QED
      BY <2>1, <2>2 DEF Signer
  <1> DEFINE units == to_raw(cmd.args.amount, Decimals[OurMint(cmd.args.side)])
             fund == [op |-> "fund", side |-> cmd.args.side, amount |-> units]
  <1>5. ASSUME cmd.kind = "fund"
        PROVE  /\ Deployed /\ cmd.args.side \in TreasurySides
               /\ Instruction = fund /\ units \in Nat
    <2>1. Deployed
      BY <1>1, <1>2, <1>5 DEF SignedStand
    <2>2. /\ cmd.args.side \in TreasurySides /\ cmd.args.amount \in Decimal
          /\ normalized(cmd.args.amount).scale <= Decimals[OurMint(cmd.args.side)]
      BY <1>2, <1>5, Ours DEF Ready
    <2>3. Decimals[OurMint(cmd.args.side)] \in Nat
      BY Ours DEF OurMint
    <2>4. units \in Nat
      BY <2>2, <2>3, RawIsTyped
    <2>5. MintOf(cmd.args.side) = OurMint(cmd.args.side)
      BY <2>1, <2>2, MintOfOurs
    <2> QED
      BY <1>5, <2>1, <2>2, <2>4, <2>5 DEF Instruction, FundIx
  <1>6. cmd.kind = "quote" =>
             /\ Instruction = [op |-> "quote", terms |-> summarize(cmd.args)]
             /\ summarize(cmd.args) \in QuoteUpdate
    BY <1>2, SummaryTyped DEF Ready, Instruction, QuoteIx
  <1>7. cmd.kind = "deploy" => Instruction = [op |-> "deploy"]
    BY DEF Instruction, DeployIx
  <1>8. cmd.kind = "clear" => Instruction = [op |-> "clear"]
    BY DEF Instruction, QuoteIx
  <1>9. tx.ix = Instruction
    OBVIOUS
  <1>10. tx \in Txs
    <2>1. Instruction \in [op : {"deploy", "clear"}]
             \union [op : {"fund"}, side : TreasurySides, amount : Nat]
             \union [op : {"quote"}, terms : QuoteUpdate]
      <3>1. cmd.kind \in Signing
        BY <1>2 DEF Ready
      <3> QED
        BY <3>1, <1>5, <1>6, <1>7, <1>8 DEF Signing
    <2> QED
      BY <1>4, <2>1 DEF Txs
  <1> HIDE DEF tx
  <1>11. tx # Nil
    BY <1>10, Ours
  <1>12. /\ cmd'.pc = "send" /\ cmd'.kind = cmd.kind /\ cmd'.args = cmd.args /\ cmd'.tx = tx
         /\ cmd' \in Cmds
    BY <1>1, <1>3, <1>10 DEF Cmds, Places
  <1>13. Ready(cmd')
    BY <1>2, <1>12 DEF Ready
  <1>14. Carries(cmd')
    <2>1. tx.ix.op = cmd.kind
      BY <1>2, <1>5, <1>6, <1>7, <1>8, <1>9 DEF Ready, Signing
    <2>2. cmd.kind \in {"deploy", "fund"} => tx.signer = OwnerKey
      BY DEF tx
    <2> QED
      BY <1>5, <1>6, <1>9, <1>12, <1>13, <2>1, <2>2 DEF Carries
  <1>15. CmdFits'
    BY <1>11, <1>12, <1>13 DEF CmdFits
  <1>16. cmd.kind # "deploy" => Deployed
    BY <1>1, <1>2 DEF SignedStand
  <1> QED
    BY <1>0, <1>1, <1>12, <1>14, <1>15, <1>16, CmdGoesOn DEF Sign

\* Sending.
LEMMA SendFits ==
    ASSUME ForgeInv, Send, Deployed => Deployed'
    PROVE  ForgeInv'
  <1>1. /\ cmd \in Cmds /\ mempool \subseteq OwnTxs /\ CmdFits /\ SignedStand /\ SignedFits
    BY DEF ForgeInv, ForgeFits
  <1>2. cmd.pc = "send" /\ Ready(cmd) /\ cmd.tx \in OwnTxs /\ cmd.tx # Nil
    BY <1>1 DEF Send, CmdFits, Cmds, SignedFits, Carries, OwnTxs
  <1>3. CASE Tell("rejected") /\ UNCHANGED mempool
    BY <1>3, TellFits DEF Send, Verdicts
  <1>4. CASE /\ mempool' = mempool \union {cmd.tx}
             /\ cmd' = [cmd EXCEPT !.pc = "poll"]
             /\ UNCHANGED log
    <2>1. /\ cmd'.pc = "poll" /\ cmd'.kind = cmd.kind /\ cmd'.args = cmd.args
          /\ cmd'.tx = cmd.tx /\ cmd' \in Cmds
      BY <1>1, <1>4 DEF Cmds, Places
    <2>2. mempool' \subseteq OwnTxs
      BY <1>1, <1>2, <1>4
    <2>3. Carries(cmd')
      BY <1>1, <1>2, <2>1 DEF SignedFits, Carries, Ready
    <2>4. CmdFits'
      BY <1>2, <2>1, <2>3 DEF CmdFits, Carries
    <2>5. cmd'.kind # "deploy" => Deployed'
      BY <1>1, <1>2, <2>1 DEF SignedStand
    <2> QED
      BY <1>4, <2>1, <2>2, <2>3, <2>4, <2>5, CmdGoesOn DEF Send
  <1> QED
    BY <1>3, <1>4 DEF Send

\* The end of a command whose transaction the node may have taken.
LEMMA SendUnansweredFits ==
    ASSUME ForgeInv, SendUnanswered, Deployed => Deployed'
    PROVE  ForgeInv'
  <1> DEFINE e == [verdict |-> "unanswered", kind |-> cmd.kind, tx |-> cmd.tx,
                   args |-> cmd.args, seen |-> cmd.seen]
  <1>1. /\ cmd \in Cmds /\ mempool \subseteq OwnTxs /\ CmdFits /\ SignedStand /\ SignedFits
        /\ ForgeFits
    BY DEF ForgeInv, ForgeFits
  <1>2. cmd.pc = "send" /\ cmd.tx \in OwnTxs /\ cmd.tx # Nil /\ Carries(cmd)
    BY <1>1 DEF SendUnanswered, CmdFits, SignedFits, Cmds, Carries, OwnTxs
  <1>3. log' = Append(log, e) /\ cmd' = Idle
    BY <1>2 DEF SendUnanswered, Tell
  <1>4. e \in Entries
    BY <1>1, <1>2 DEF Cmds, Entries, Verdicts
  <1>5. Carries(e) /\ (e.kind = "deploy" \/ Deployed')
    BY <1>1, <1>2 DEF Carries, Ready, SignedStand
  <1>6. mempool' \subseteq OwnTxs /\ UNCHANGED <<files, wallet, landed>>
    BY <1>1, <1>2 DEF SendUnanswered
  <1> HIDE DEF e
  <1>7. log' \in Seq(Entries)
    BY <1>1, <1>3, <1>4, LogGrows DEF ForgeFits
  <1>8. ForgeFits'
    BY <1>1, <1>3, <1>6, <1>7, IdleFits DEF ForgeFits
  <1>9. CmdFits'
    BY <1>3, IdleFits DEF CmdFits
  <1>10. SignedFits'
    BY <1>3, <1>4, <1>5, IdleFits, LogSigned DEF SignedFits
  <1>11. SignedStand'
    <2>1. Deployed' \/ \A i \in 1..Len(log') : log'[i].tx # Nil => log'[i].kind = "deploy"
      BY <1>3, <1>4, <1>5, LogStands
    <2> QED
      BY <1>3, <2>1, IdleFits DEF SignedStand
  <1> QED
    BY <1>8, <1>9, <1>10, <1>11 DEF ForgeInv

\* Polling.
LEMMA PollFits ==
    ASSUME ForgeInv, PollFinds \/ PollTimesOut \/ PollFails, Deployed => Deployed'
    PROVE  ForgeInv'
  <1>1. UNCHANGED <<files, wallet, mempool, landed>>
    BY DEF PollFinds, PollTimesOut, PollFails
  <1>2. \E verdict \in Verdicts : Tell(verdict)
    BY DEF PollFinds, PollTimesOut, PollFails, Verdicts
  <1> QED
    BY <1>1, <1>2, TellFits

\* The three requests of status.
LEMMA StatusFits ==
    ASSUME IInv, ForgeInv, StatusSlot \/ StatusVaults \/ StatusDetails, UNCHANGED vars
    PROVE  ForgeInv'
  <1>0. Deployed => Deployed'
    BY DEF vars, Deployed
  <1>1. cmd \in Cmds /\ mempool \subseteq OwnTxs /\ CmdFits
    BY DEF ForgeInv, ForgeFits
  <1>2. cmd.tx = Nil
    BY <1>1 DEF CmdFits, StatusSlot, StatusVaults, StatusDetails
  <1>3. UNCHANGED <<files, wallet, mempool, landed>>
    BY DEF StatusSlot, StatusVaults, StatusDetails
  <1>4. slot \in Nat /\ quote.quote_slot \in Nat /\ limits.max_quote_age_slots \in Nat
    BY DEF IInv, TypeOK, Quotes, RiskLimits
  <1>5. CASE StatusSlot
    <2>1. cmd' = [cmd EXCEPT !.pc = "vaults", !.slot = slot] /\ UNCHANGED log
      BY <1>5 DEF StatusSlot
    <2>2. cmd' \in Cmds /\ cmd'.pc = "vaults" /\ cmd'.tx = Nil
      BY <1>1, <1>2, <1>4, <2>1 DEF Cmds, Places
    <2>3. CmdFits'
      BY <2>2 DEF CmdFits
    <2> QED
      BY <1>0, <1>1, <1>3, <2>1, <2>2, <2>3, CmdGoesOn
  <1>6. CASE StatusVaults /\ Deployed
    <2> DEFINE seen == [quote_slot |-> quote.quote_slot, posted |-> quote.mid_e9 # 0,
                        max_age |-> limits.max_quote_age_slots, at |-> slot]
    <2>1. cmd' = [cmd EXCEPT !.pc = "details", !.seen = seen] /\ UNCHANGED log
      BY <1>6 DEF StatusVaults
    <2>2. seen \in Seens
      BY <1>4 DEF Seens
    <2> HIDE DEF seen
    <2>3. cmd' \in Cmds /\ cmd'.pc = "details" /\ cmd'.tx = Nil
      BY <1>1, <1>2, <2>1, <2>2 DEF Cmds, Places
    <2>4. CmdFits'
      BY <2>3 DEF CmdFits
    <2> QED
      BY <1>0, <1>1, <1>3, <2>1, <2>3, <2>4, CmdGoesOn
  <1>7. CASE \E verdict \in Verdicts : Tell(verdict)
    BY <1>0, <1>3, <1>7, TellFits
  <1> QED
    BY <1>5, <1>6, <1>7 DEF StatusVaults, StatusDetails, Verdicts

\* A transaction executes.
LEMMA LandFits ==
    ASSUME ForgeInv, NEW tx \in mempool, Land(tx), Deployed => Deployed'
    PROVE  ForgeInv'
  <1>1. /\ wallet \in [base : Nat, quote : Nat] /\ mempool \subseteq OwnTxs
        /\ landed \subseteq [tx : Txs, outcome : {"ok", "err"}] /\ ForgeFits
    BY DEF ForgeInv, ForgeFits
  <1>2. /\ UNCHANGED <<files, cmd, log>> /\ mempool' = mempool \ {tx} /\ tx \in Txs
        /\ landed' \subseteq [tx : Txs, outcome : {"ok", "err"}]
    BY <1>1 DEF Land, OwnTxs
  <1>3. wallet' \in [base : Nat, quote : Nat]
    <2>1. CASE UNCHANGED wallet
      BY <1>1, <2>1
    <2>2. CASE /\ tx.ix.op = "fund" /\ wallet[tx.ix.side] >= tx.ix.amount
               /\ wallet' = [wallet EXCEPT ![tx.ix.side] = @ - tx.ix.amount]
      <3>1. tx.ix.side \in TreasurySides /\ tx.ix.amount \in Nat
        BY <1>2, <2>2, TxShape
      <3>2. wallet[tx.ix.side] - tx.ix.amount \in Nat
        BY <1>1, <2>2, <3>1 DEF TreasurySides
      <3> QED
        BY <1>1, <2>2, <3>1, <3>2 DEF TreasurySides
    <2> QED
      BY <2>1, <2>2 DEF Land, Execute
  <1>4. ForgeFits'
    BY <1>1, <1>2, <1>3 DEF ForgeFits
  <1>5. CmdFits' /\ SignedFits' /\ SignedStand'
    BY <1>2 DEF ForgeInv, CmdFits, SignedFits, SignedStand
  <1> QED
    BY <1>4, <1>5 DEF ForgeInv

\* A transaction is lost.
LEMMA ExpireFits ==
    ASSUME ForgeInv, NEW tx \in mempool, Expire(tx), Deployed => Deployed'
    PROVE  ForgeInv'
  <1>1. /\ UNCHANGED <<files, wallet, cmd, landed, log>> /\ mempool' = mempool \ {tx}
    BY DEF Expire
  <1>2. ForgeFits'
    BY <1>1 DEF ForgeInv, ForgeFits
  <1>3. CmdFits' /\ SignedFits' /\ SignedStand'
    BY <1>1 DEF ForgeInv, CmdFits, SignedFits, SignedStand
  <1> QED
    BY <1>2, <1>3 DEF ForgeInv

\* Every step of the desk keeps the owner's side.
LEMMA ForgeStep ==
    ASSUME DeskInv, [DeskNext]_deskVars
    PROVE  ForgeInv'
  <1>1. IInv /\ OurPair /\ ForgeInv /\ ForgeFits
    BY DEF DeskInv, ForgeInv
  <1>2. Deployed => Deployed'
    BY <1>1, ChainStep, VaultStays
  <1>3. wallet \in [base : Nat, quote : Nat]
    BY <1>1 DEF ForgeFits
  <1>4. CASE ForgeNext
    <2>1. CASE \E force \in BOOLEAN, written \in 0..Len(InitFiles) : init(force, written)
      BY <1>1, <1>2, <2>1, InitFits
    <2>2. CASE \/ Open("deploy", Nil, NoKey)
               \/ \E a \in Funds : Open("fund", a, NoKey)
               \/ \E a \in Sets, k \in Keys \union {NoKey} : Open("quote", a, k)
               \/ \E k \in Keys \union {NoKey} : Open("clear", Nil, k)
               \/ Open("status", Nil, NoKey)
      <3>1. /\ Nil \in Args /\ Funds \subseteq Args /\ Sets \subseteq Args
            /\ NoKey \in Keys \union {NoKey}
            /\ {"deploy", "fund", "quote", "clear", "status"} = Signing \union {"status"}
        BY DEF Args, Signing
      <3>2. CASE Open("deploy", Nil, NoKey)
        BY <1>1, <1>2, <3>1, <3>2, OpenFits
      <3>3. CASE \E a \in Funds : Open("fund", a, NoKey)
        BY <1>1, <1>2, <3>1, <3>3, OpenFits
      <3>4. CASE \E a \in Sets, k \in Keys \union {NoKey} : Open("quote", a, k)
        BY <1>1, <1>2, <3>1, <3>4, OpenFits
      <3>5. CASE \E k \in Keys \union {NoKey} : Open("clear", Nil, k)
        BY <1>1, <1>2, <3>1, <3>5, OpenFits
      <3>6. CASE Open("status", Nil, NoKey)
        BY <1>1, <1>2, <3>1, <3>6, OpenFits
      <3> QED
        BY <2>2, <3>2, <3>3, <3>4, <3>5, <3>6
    <2>3. CASE AskFails
      BY <1>1, <1>2, <2>3, AskFailsFits
    <2>4. CASE Look
      <3>1. UNCHANGED vars
        BY <2>4 DEF Look
      <3> QED
        BY <1>1, <2>4, <3>1, LookFits
    <2>5. CASE Sign
      <3>1. UNCHANGED vars
        BY <2>5 DEF Sign
      <3> QED
        BY <1>1, <2>5, <3>1, SignFits
    <2>6. CASE Send
      BY <1>1, <1>2, <2>6, SendFits
    <2>7. CASE SendUnanswered
      BY <1>1, <1>2, <2>7, SendUnansweredFits
    <2>8. CASE PollFinds \/ PollTimesOut \/ PollFails
      BY <1>1, <1>2, <2>8, PollFits
    <2>9. CASE StatusSlot \/ StatusVaults \/ StatusDetails
      <3>1. UNCHANGED vars
        BY <2>9 DEF StatusSlot, StatusVaults, StatusDetails
      <3> QED
        BY <1>1, <2>9, <3>1, StatusFits
    <2>10. CASE \E tx \in mempool : Land(tx) \/ Expire(tx)
      BY <1>1, <1>2, <2>10, LandFits, ExpireFits
    <2> QED
      BY <1>4, <2>1, <2>2, <2>3, <2>4, <2>5, <2>6, <2>7, <2>8, <2>9, <2>10 DEF ForgeNext
  <1>5. CASE Others
    <2>1. UNCHANGED <<files, cmd, mempool, landed, log>>
      BY <1>5 DEF Others
    <2>2. wallet' \in [base : Nat, quote : Nat]
      <3>1. CASE UNCHANGED wallet
        BY <1>3, <3>1
      <3>2. CASE \E side \in TreasurySides, amount \in Amounts :
                     wallet' = [wallet EXCEPT ![side] = @ + amount]
        <4>1. PICK side \in TreasurySides, amount \in Nat :
                   wallet' = [wallet EXCEPT ![side] = @ + amount]
          BY <3>2, VaultAssumption
        <4>2. wallet[side] + amount \in Nat
          BY <1>3 DEF TreasurySides
        <4> QED
          BY <1>3, <4>1, <4>2 DEF TreasurySides
      <3> QED
        BY <1>5, <3>1, <3>2 DEF Others, OthersMove
    <2> QED
      BY <1>1, <1>2, <2>1, <2>2, ForgeKept
  <1>6. CASE UNCHANGED forgeVars
    <2>1. UNCHANGED <<files, wallet, cmd, mempool, landed, log>>
      BY <1>6 DEF forgeVars
    <2> QED
      BY <1>1, <1>2, <1>3, <2>1, ForgeKept
  <1> QED
    BY <1>4, <1>5, <1>6 DEF DeskNext, Owner, Taker, DeskTick, deskVars

\* It holds at the beginning.
LEMMA InitForge == DeskInit => ForgeInv
  <1> SUFFICES ASSUME DeskInit PROVE ForgeInv
    OBVIOUS
  <1>1. /\ cmd = Idle /\ mempool = {} /\ landed = {} /\ log = <<>>
    BY DEF DeskInit, ForgeInit
  <1>2. /\ files \subseteq {InitFiles[i] : i \in 1..Len(InitFiles)}
        /\ wallet \in [base : Nat, quote : Nat]
    BY DeskAssumption DEF DeskInit, Begins
  <1>3. log \in Seq(Entries) /\ 1..Len(log) = {}
    BY <1>1
  <1>4. ForgeFits
    BY <1>1, <1>2, <1>3, IdleFits DEF ForgeFits
  <1>5. CmdFits
    BY <1>1, IdleFits DEF CmdFits
  <1>6. SignedFits
    BY <1>1, <1>3, IdleFits DEF SignedFits
  <1>7. SignedStand
    BY <1>1, <1>3, IdleFits DEF SignedStand
  <1> QED
    BY <1>4, <1>5, <1>6, <1>7 DEF ForgeInv

-----------------------------------------------------------------------------
(* What the router does.                                                    *)

\* What an adapter keeps of the chain.
LEMMA ViewFits ==
    ASSUME IInv
    PROVE  /\ View \in Views /\ View # NoView /\ View.inventory # NoView
           /\ from_keyed_account \in Views /\ from_keyed_account # NoView
           /\ from_keyed_account.inventory = NoView
  <1>1. TypeOK
    BY DEF IInv
  <1>2. quote_params \in QuoteParams /\ vault.halted \in BOOLEAN /\ treasury \in Holdings
    BY <1>1, ParamsTyped DEF TypeOK, Vaults
  <1>3. /\ View = [params |-> quote_params, halted |-> vault.halted, inventory |-> treasury]
        /\ from_keyed_account = [params |-> quote_params, halted |-> vault.halted,
                                 inventory |-> NoView]
    BY DEF View, from_keyed_account
  <1> QED
    BY <1>2, <1>3, MarketAssumption DEF Views

\* A router that keeps what it has, while the chain's clock may go on.
LEMMA MarketKept ==
    ASSUME IInv, MarketFits, UNCHANGED <<pool, adapter, rival, synced, route, read>>,
           slot' \in Nat, clock' \in Nat, clock' <= slot'
    PROVE  MarketFits'
  BY DEF MarketFits, AdapterFits, RivalFits, RouteFits

\* An adapter just registered has read nothing.
LEMMA RegisterFits ==
    ASSUME IInv, MarketFits, Register, UNCHANGED vars
    PROVE  MarketFits'
  <1>1. /\ adapter = NoView /\ adapter' = from_keyed_account
        /\ UNCHANGED <<pool, rival, clock, synced, route, read, slot>>
    BY DEF Register, vars
  <1>2. read = NoView /\ Amm \notin synced
    BY <1>1 DEF MarketFits, AdapterFits
  <1>3. AdapterFits'
    BY <1>1, <1>2, ViewFits DEF MarketFits, AdapterFits
  <1>4. RivalFits' /\ RouteFits'
    BY <1>1 DEF MarketFits, RivalFits, RouteFits
  <1> QED
    BY <1>1, <1>3, <1>4 DEF MarketFits

\* An update stores all of a moment or nothing of it.
LEMMA UpdateFits ==
    ASSUME IInv, MarketFits, NEW bad \in SUBSET AccountsToUpdate, Update(bad), UNCHANGED vars
    PROVE  MarketFits'
  <1>1. /\ adapter # NoView /\ adapter' = amm_update(bad) /\ rival' = rival_update(bad)
        /\ synced' = {v \in Venues : bad \intersect get_accounts_to_update(v) = {}}
        /\ read' = IF Amm \in synced' THEN View ELSE read
        /\ UNCHANGED <<pool, clock, route, slot>>
    BY DEF Update, vars
  <1>2. Amm \in synced' <=> bad \intersect get_accounts_to_update(Amm) = {}
    BY <1>1 DEF Venues
  <1>3. AdapterFits'
    BY <1>1, <1>2, ViewFits DEF MarketFits, AdapterFits, amm_update
  <1>4. pool \in Holdings /\ rival \in Holdings \union {NoView}
    BY DEF MarketFits, RivalFits
  <1>5. pool # NoView
    BY <1>4, MarketAssumption
  <1>6. RivalFits'
    BY <1>1, <1>4, <1>5 DEF RivalFits, rival_update
  <1>7. RouteFits'
    BY <1>1 DEF MarketFits, RouteFits
  <1>8. synced' \subseteq Venues
    BY <1>1
  <1> QED
    BY <1>1, <1>3, <1>6, <1>7, <1>8 DEF MarketFits

\* The pool moves.
LEMMA RivalMovesFits ==
    ASSUME MarketFits, RivalMoves, UNCHANGED vars
    PROVE  MarketFits'
  <1>1. pool' \in Holdings /\ UNCHANGED <<adapter, rival, clock, synced, route, read, slot>>
    BY MarketAssumption DEF RivalMoves, vars, PoolFits
  <1> QED
    BY <1>1 DEF MarketFits, AdapterFits, RivalFits, RouteFits

\* A route is used or forgotten.
LEMMA DropFits ==
    ASSUME MarketFits, Hop \/ Drop, slot' = slot
    PROVE  MarketFits'
  <1>1. /\ route' = NoRoute
        /\ UNCHANGED <<pool, adapter, rival, clock, synced, read, slot>>
    BY DEF Hop, Drop, vars
  <1> QED
    BY <1>1 DEF MarketFits, AdapterFits, RivalFits, RouteFits

\* What the vault pays for an order it takes fits a token amount.
LEMMA AmmPays ==
    ASSUME IInv, MarketFits, NEW o \in RouterOrders, Amm \in Asked(o)
    PROVE  OutOf(Amm, o) \in 1..U64Max
  <1> DEFINE req == Request(o, 0)
             out == AmountOut(adapter.params, req)
  <1>1. o \in OrderFields
    BY MarketAssumption
  <1>2. req \in SwapRequest
    BY <1>1 DEF OrderFields, Request, SwapRequest
  <1>3. Amm \in synced /\ amm_quotes(o) /\ OutOf(Amm, o) > 0
    BY DEF Asked
  <1>4. adapter.params \in QuoteParams
    BY <1>3, MarketAssumption DEF MarketFits, AdapterFits, Views
  <1>5. SwapVerdict(adapter.params, adapter.inventory, req, clock) = "Ok"
    BY <1>3 DEF amm_quotes, SwapAllowed
  <1>6. PriceVerdict(adapter.params, req.side) = "Ok" /\ out <= U64Max
    BY <1>5 DEF SwapVerdict, FitsU64
  <1>7. adapter.params.mid_e9 # 0 /\ FactorInDomain(adapter.params)
    BY <1>6 DEF PriceVerdict
  <1>8. out \in Nat
    BY <1>2, <1>4, <1>7, OutBounds
  <1>9. OutOf(Amm, o) = out
    BY DEF OutOf, amm_out
  <1> HIDE DEF out
  <1> QED
    BY <1>3, <1>6, <1>8, <1>9, MathAssumption

\* What the pool pays is less than it has.
LEMMA RivalPays ==
    ASSUME MarketFits, NEW o \in RouterOrders, Rival \in Asked(o)
    PROVE  OutOf(Rival, o) \in 1..U64Max
  <1> DEFINE in == InAfterFee(o)
             have == ReserveOut(o)
             old == ReserveIn(o) * BPS_DENOM
  <1>1. o.amount \in Nat /\ FeeBps \in 0..(BPS_DENOM - 1)
    BY MarketAssumption DEF OrderFields, PoolFits
  <1>2. Rival \in synced /\ rival_quotes(o) /\ OutOf(Rival, o) > 0
    BY MarketAssumption DEF Asked
  <1>3. rival \in Holdings
    BY <1>2 DEF MarketFits, RivalFits
  <1>4. have \in 0..U64Max /\ ReserveIn(o) \in 0..U64Max /\ ReserveIn(o) > 0
    BY <1>2, <1>3 DEF Holdings, ReserveOut, ReserveIn, rival_quotes
  <1>5. in \in Nat
    <2> DEFINE keep == BPS_DENOM - FeeBps
    <2>1. keep \in Nat
      BY <1>1, MathAssumption
    <2> HIDE DEF keep
    <2>2. o.amount * keep \in Nat
      BY <1>1, <2>1, SMT
    <2> QED
      BY <2>2 DEF InAfterFee, keep
  <1>6. old \in Nat /\ old > 0
    <2> DEFINE r == ReserveIn(o)
    <2>1. r \in Nat /\ r > 0 /\ BPS_DENOM \in Nat /\ BPS_DENOM > 0
      BY <1>4, MathAssumption
    <2> HIDE DEF r
    <2>2. r * BPS_DENOM \in Nat /\ r * BPS_DENOM > 0
      BY <2>1, SMT
    <2> QED
      BY <2>2 DEF r
  <1>7. OutOf(Rival, o) = (in * have) \div (old + in)
    BY MarketAssumption DEF OutOf, constant_product_out
  <1> HIDE DEF in, have, old
  <1>8. (in * have) \div (old + in) \in Nat /\ (in * have) \div (old + in) <= have
    <2>1. in * have \in Nat /\ old + in \in Nat /\ old + in > 0 /\ have \in Nat
      BY <1>4, <1>5, <1>6, MathAssumption, SMT
    <2>2. in * have <= (old + in) * have
      BY <1>5, <1>6, <2>1, SMT
    <2> DEFINE N == in * have
               D == old + in
    <2>3. N \in Nat /\ D \in Nat \ {0} /\ N <= D * have
      BY <2>1, <2>2
    <2> HIDE DEF N, D
    <2>4. N \div D \in Nat /\ N \div D <= have
      BY <2>1, <2>3, SMT
    <2> QED
      BY <2>4 DEF N, D
  <1> QED
    BY <1>2, <1>4, <1>7, <1>8, MathAssumption

\* The choice between the venues that answered is one of them, and it is well made.
LEMMA BestIsBest ==
    ASSUME IInv, MarketFits, NEW o \in RouterOrders, Asked(o) # {}
    PROVE  /\ Best(o) \in Asked(o)
           /\ \A w \in Asked(o) \ {Best(o)} :
                  \/ OutOf(Best(o), o) > OutOf(w, o)
                  \/ OutOf(Best(o), o) = OutOf(w, o) /\ Best(o) = Rival
  <1> DEFINE Wins(v) == \A w \in Asked(o) \ {v} :
                            \/ OutOf(v, o) > OutOf(w, o)
                            \/ OutOf(v, o) = OutOf(w, o) /\ v = Rival
  <1>1. Asked(o) \subseteq {Amm, Rival} /\ Amm # Rival
    BY MarketAssumption DEF Asked, MarketFits, Venues
  <1>2. \E v \in Asked(o) : Wins(v)
    <2>1. CASE Asked(o) = {Amm} \/ Asked(o) = {Rival}
      BY <2>1
    <2>2. CASE Asked(o) = {Amm, Rival}
      <3>1. OutOf(Amm, o) \in 1..U64Max /\ OutOf(Rival, o) \in 1..U64Max
        BY <2>2, AmmPays, RivalPays
      <3>2. CASE OutOf(Amm, o) > OutOf(Rival, o)
        BY <1>1, <2>2, <3>2
      <3>3. CASE ~(OutOf(Amm, o) > OutOf(Rival, o))
        <4>1. OutOf(Rival, o) > OutOf(Amm, o) \/ OutOf(Rival, o) = OutOf(Amm, o)
          BY <3>1, <3>3, MathAssumption
        <4> QED
          BY <1>1, <2>2, <4>1
      <3> QED
        BY <3>2, <3>3
    <2> QED
      BY <1>1, <2>1, <2>2
  <1>3. Best(o) = CHOOSE v \in Asked(o) : Wins(v)
    BY DEF Best
  <1> HIDE DEF Wins
  <1>4. Best(o) \in Asked(o) /\ Wins(Best(o))
    BY <1>2, <1>3
  <1> QED
    BY <1>4 DEF Wins

\* A bound is at most the result it bounds.
LEMMA BoundTyped ==
    ASSUME NEW out \in Nat, NEW slippage_bps \in Nat, slippage_bps <= BPS_DENOM
    PROVE  bound(out, slippage_bps) \in Nat /\ bound(out, slippage_bps) <= out
  <1> DEFINE keep == BPS_DENOM - slippage_bps
  <1>1. keep \in Nat /\ keep <= BPS_DENOM /\ BPS_DENOM \in Nat \ {0}
    BY MathAssumption
  <1> HIDE DEF keep
  <1> DEFINE N == out * keep
  <1>2. N \in Nat /\ N <= out * BPS_DENOM
    <2>1. out * keep \in Nat /\ out * BPS_DENOM \in Nat
      BY <1>1, SMT
    <2>2. keep * out <= BPS_DENOM * out
      BY <1>1, ProductMonotone
    <2> QED
      BY <1>1, <2>1, <2>2, SMT
  <1> HIDE DEF N
  <1>3. N \div BPS_DENOM \in Nat /\ N \div BPS_DENOM <= out
    BY <1>1, <1>2, SMT
  <1> QED
    BY <1>3 DEF bound, N, keep

\* An order the vault takes with no bound it takes with any bound the result reaches.
LEMMA BoundReached ==
    ASSUME NEW p, NEW inv, NEW now, NEW o, NEW least,
           SwapAllowed(p, inv, Request(o, 0), now),
           ~(AmountOut(p, Request(o, 0)) < least)
    PROVE  /\ AmountOut(p, Request(o, least)) = AmountOut(p, Request(o, 0))
           /\ SwapAllowed(p, inv, Request(o, least), now)
  <1> DEFINE r == Request(o, 0)
             q == Request(o, least)
             out == AmountOut(p, r)
  <1>1. q.side = r.side /\ q.amount_in = r.amount_in /\ q.min_amount_out = least
    BY DEF Request
  <1> HIDE DEF r, q
  <1>2. AmountOut(p, q) = out
    BY <1>1 DEF AmountOut
  <1>3. /\ OutProduct(p, q) = OutProduct(p, r) /\ BaseLeg(q, out) = BaseLeg(r, out)
        /\ InventoryAfter(inv, q, out) = InventoryAfter(inv, r, out)
        /\ InventoryVerdict(inv, q, out) = InventoryVerdict(inv, r, out)
    BY <1>1 DEF OutProduct, BaseLeg, InventoryAfter, InventoryVerdict
  <1>4. SwapVerdict(p, inv, r, now) = "Ok"
    BY DEF SwapAllowed, r
  <1> HIDE DEF out
  <1>5. /\ PriceVerdict(p, r.side) = "Ok" /\ is_fresh(p, now) /\ r.amount_in # 0
        /\ FitsU128(OutProduct(p, r)) /\ FitsU64(out) /\ ~(BaseLeg(r, out) > p.max_size_base)
        /\ out # 0 /\ InventoryVerdict(inv, r, out) = "Ok"
        /\ LimitVerdict(p, inv, r, out) = "Ok"
    BY <1>4 DEF SwapVerdict, out
  <1>6. LimitVerdict(p, inv, q, out) = "Ok"
    <2>1. ~(out < least)
      BY DEF out, r
    <2> QED
      BY <1>1, <1>3, <1>5, <2>1 DEF LimitVerdict
  <1>7. SwapVerdict(p, inv, q, now) = "Ok"
    BY <1>1, <1>2, <1>3, <1>5, <1>6 DEF SwapVerdict
  <1> QED
    BY <1>2, <1>7 DEF SwapAllowed, r, q, out

\* An order the vault takes it takes whenever the price is fresh.
LEMMA TakenWhileFresh ==
    ASSUME NEW p, NEW inv, NEW req, NEW now, NEW later,
           SwapAllowed(p, inv, req, now), is_fresh(p, later)
    PROVE  SwapAllowed(p, inv, req, later)
  <1> DEFINE out == AmountOut(p, req)
  <1>1. SwapVerdict(p, inv, req, now) = "Ok"
    BY DEF SwapAllowed
  <1> HIDE DEF out
  <1>2. /\ PriceVerdict(p, req.side) = "Ok" /\ req.amount_in # 0
        /\ FitsU128(OutProduct(p, req)) /\ FitsU64(out)
        /\ ~(BaseLeg(req, out) > p.max_size_base)
        /\ out # 0 /\ InventoryVerdict(inv, req, out) = "Ok"
        /\ LimitVerdict(p, inv, req, out) = "Ok"
    BY <1>1 DEF SwapVerdict, out
  <1>3. SwapVerdict(p, inv, req, later) = "Ok"
    BY <1>2 DEF SwapVerdict, out
  <1> QED
    BY <1>3 DEF SwapAllowed

\* A route is built.
LEMMA RouteFitsNext ==
    ASSUME IInv, MarketFits, NEW o \in RouterOrders, Route(o), UNCHANGED vars
    PROVE  MarketFits'
  <1> DEFINE v == Best(o)
             out == OutOf(v, o)
             outs == [w \in Asked(o) |-> OutOf(w, o)]
  <1>1. /\ route' = RouteBy(v, o) /\ o.slippage_bps <= BPS_DENOM /\ Asked(o) # {}
        /\ UNCHANGED <<pool, adapter, rival, clock, synced, read, slot>>
    BY DEF Route, vars
  <1>2. /\ v \in Asked(o)
        /\ \A w \in Asked(o) \ {v} :
               \/ OutOf(v, o) > OutOf(w, o)
               \/ OutOf(v, o) = OutOf(w, o) /\ v = Rival
    BY <1>1, BestIsBest
  <1>3. v \in Venues
    BY <1>2 DEF Asked, MarketFits
  <1>4. out \in 1..U64Max
    BY <1>2, <1>3, AmmPays, RivalPays DEF Venues
  <1>5. o \in OrderFields
    BY MarketAssumption
  <1> HIDE DEF v
  <1>6. Request(o, bound(out, o.slippage_bps)) \in SwapRequest
    <2>1. out \in Nat
      BY <1>4
    <2> HIDE DEF out
    <2>2. bound(out, o.slippage_bps) \in Nat /\ bound(out, o.slippage_bps) <= out
      BY <1>1, <1>5, <2>1, BoundTyped DEF OrderFields
    <2> QED
      BY <1>5, <2>2 DEF Request, SwapRequest, OrderFields
  <1>7. /\ route'.venue = v /\ route'.out = out /\ route'.outs = outs
        /\ route'.request = Request(o, bound(out, o.slippage_bps))
        /\ route'.clock = clock /\ route'.view = read
    BY <1>1 DEF RouteBy
  <1>8. /\ DOMAIN route'.outs = Asked(o)
        /\ \A w \in Asked(o) : route'.outs[w] = OutOf(w, o)
    BY <1>7
  <1>10. ASSUME v = Amm
         PROVE  /\ ~read.halted
                /\ SwapAllowed(read.params, read.inventory,
                               Request(o, bound(out, o.slippage_bps)), clock)
                /\ AmountOut(read.params, Request(o, bound(out, o.slippage_bps))) = out
    <2>1. Amm \in synced /\ amm_quotes(o)
      BY <1>2, <1>10 DEF Asked
    <2>2. adapter = read
      BY <2>1 DEF MarketFits, AdapterFits
    <2>3. out = AmountOut(read.params, Request(o, 0))
      BY <1>10, <2>2 DEF OutOf, amm_out
    <2>4. ~(out < bound(out, o.slippage_bps))
      <3>1. out \in Nat
        BY <1>4
      <3> HIDE DEF out
      <3>2. bound(out, o.slippage_bps) \in Nat /\ bound(out, o.slippage_bps) <= out
        BY <1>1, <1>5, <3>1, BoundTyped DEF OrderFields
      <3> QED
        BY <3>1, <3>2
    <2>5. ~read.halted /\ SwapAllowed(read.params, read.inventory, Request(o, 0), clock)
      BY <2>1, <2>2 DEF amm_quotes
    <2> HIDE DEF out
    <2> QED
      BY <2>3, <2>4, <2>5, BoundReached
  <1> HIDE DEF out, outs
  <1>9. RouteFits'
    <2> DEFINE req == Request(o, bound(out, o.slippage_bps))
    <2> HIDE DEF req
    <2>1. /\ route'.venue \in Venues /\ route'.out \in 1..U64Max
          /\ route'.request \in SwapRequest
      BY <1>3, <1>4, <1>6, <1>7
    <2>2. \A w \in DOMAIN route'.outs \ {route'.venue} :
              \/ route'.out > route'.outs[w]
              \/ route'.venue = Rival /\ route'.out = route'.outs[w]
      BY <1>2, <1>7, <1>8 DEF out
    <2>3. route'.venue = Amm =>
              /\ ~route'.view.halted
              /\ SwapAllowed(route'.view.params, route'.view.inventory, route'.request,
                             route'.clock)
              /\ AmountOut(route'.view.params, route'.request) = route'.out
      BY <1>7, <1>10
    <2> QED
      BY <2>1, <2>2, <2>3 DEF RouteFits
  <1> QED
    BY <1>1, <1>9 DEF MarketFits, AdapterFits, RivalFits

\* Every step of the desk keeps the taker's side.
LEMMA MarketStep ==
    ASSUME DeskInv, [DeskNext]_deskVars
    PROVE  MarketFits'
  <1>1. IInv /\ MarketFits /\ slot \in Nat /\ clock \in Nat /\ clock <= slot
    BY DEF DeskInv, IInv, TypeOK, MarketFits
  <1>2. slot' \in Nat /\ slot <= slot'
    <2>1. slot' = slot \/ slot' = slot + 1
      BY <1>1, ChainStep
         DEF AnyStep, StepOf, vars, initialize_vault, set_pricing_authority, set_halt_authority,
             set_risk_limits, SetHalted, deposit, withdraw, update_quote, clear_quote_ix,
             swap, Gift, Tick
    <2> QED
      BY <1>1, <2>1
  <1>3. CASE UNCHANGED marketVars
    <2>1. UNCHANGED <<pool, adapter, rival, synced, route, read, clock>>
      BY <1>3 DEF marketVars
    <2>2. clock' \in Nat /\ clock' <= slot'
      BY <1>1, <1>2, <2>1
    <2> QED
      BY <1>1, <1>2, <2>1, <2>2, MarketKept
  <1>4. CASE MarketNext
    <2>1. CASE Register
      <3>1. UNCHANGED vars
        BY <2>1 DEF Register
      <3> QED
        BY <1>1, <2>1, <3>1, RegisterFits
    <2>2. CASE SetSlot
      <3>1. clock' = slot /\ UNCHANGED <<pool, adapter, rival, synced, route, read, slot>>
        BY <2>2 DEF SetSlot, vars
      <3> QED
        BY <1>1, <3>1, MarketKept
    <2>3. CASE \E bad \in SUBSET AccountsToUpdate : Update(bad)
      <3>1. UNCHANGED vars
        BY <2>3 DEF Update
      <3> QED
        BY <1>1, <2>3, <3>1, UpdateFits
    <2>4. CASE \E o \in RouterOrders : Route(o)
      <3>1. UNCHANGED vars
        BY <2>4 DEF Route
      <3> QED
        BY <1>1, <2>4, <3>1, RouteFitsNext
    <2>5. CASE Hop \/ Drop
      <3>1. slot' = slot
        BY <2>5 DEF Hop, Drop, swap, vars
      <3> QED
        BY <1>1, <2>5, <3>1, DropFits
    <2>6. CASE RivalMoves
      <3>1. UNCHANGED vars
        BY <2>6 DEF RivalMoves
      <3> QED
        BY <1>1, <2>6, <3>1, RivalMovesFits
    <2> QED
      BY <1>4, <2>1, <2>2, <2>3, <2>4, <2>5, <2>6 DEF MarketNext
  <1> QED
    BY <1>3, <1>4 DEF DeskNext, Owner, Taker, Others, DeskTick, deskVars

\* It holds at the beginning.
LEMMA InitMarket == DeskInit => MarketFits
  <1> SUFFICES ASSUME DeskInit PROVE MarketFits
    OBVIOUS
  <1>1. /\ adapter = NoView /\ rival = NoView /\ clock = 0 /\ synced = {} /\ route = NoRoute
        /\ read = NoView /\ slot = 0
    BY DEF DeskInit, MarketInit
  <1>2. pool \in Holdings
    BY DeskAssumption DEF DeskInit, Begins
  <1> QED
    BY <1>1, <1>2 DEF MarketFits, AdapterFits, RivalFits, RouteFits

\* The invariant is inductive,
LEMMA DeskInvStep == DeskInv /\ [DeskNext]_deskVars => DeskInv'
  <1> SUFFICES ASSUME DeskInv, [DeskNext]_deskVars PROVE DeskInv'
    OBVIOUS
  <1>1. IInv'
    BY ChainStep, InvStep DEF DeskInv
  <1> QED
    BY <1>1, PairStep, ForgeStep, MarketStep DEF DeskInv, ForgeInv

\* holds at the beginning,
LEMMA InitDesk == DeskInit => DeskInv
  BY InitChain, InitForge, InitMarket DEF DeskInv, ForgeInv

\* and so always: whatever the owner, the taker and everybody else do, the vault's
\* invariant and those of its two clients stand together.
THEOREM DeskInvariant == DeskSpec => []DeskInv
  BY InitDesk, DeskInvStep, PTL DEF DeskSpec

\* The invariant types the variables.
LEMMA InvTyped == DeskInv => DeskTypeOK
  <1> SUFFICES ASSUME DeskInv PROVE DeskTypeOK
    OBVIOUS
  <1>1. ForgeInv /\ ForgeFits /\ MarketFits /\ TypeOK
    BY DEF DeskInv, ForgeInv, IInv
  <1>2. cmd \in Cmds
    BY <1>1 DEF ForgeFits
  <1>3. \A i \in 1..Len(log) : log[i].verdict \in Verdicts /\ log[i].kind \in Commands
    BY <1>1, EntryFits DEF Entries
  <1>4. clock \in 0..slot
    BY <1>1 DEF MarketFits, TypeOK
  <1>5. route # NoRoute => route.venue \in Venues /\ route.out \in 1..U64Max
    BY <1>1 DEF MarketFits, RouteFits
  <1> QED
    BY <1>1, <1>2, <1>3, <1>4, <1>5 DEF DeskTypeOK, ForgeFits, OwnTxs, Cmds, Places, MarketFits

\* Every variable has its type.
THEOREM DeskTyped == DeskSpec => []DeskTypeOK
  BY DeskInvariant, InvTyped, PTL

\* The invariant says what an adapter quotes from.
LEMMA InvSnapshot == DeskInv => SnapshotIsOneMoment
  <1> SUFFICES ASSUME DeskInv PROVE SnapshotIsOneMoment
    OBVIOUS
  <1>1. AdapterFits /\ RouteFits
    BY DEF DeskInv, MarketFits
  <1>2. Amm \in synced => read # NoView
    BY <1>1 DEF AdapterFits
  <1> QED
    BY <1>1, <1>2 DEF AdapterFits, RouteFits, SnapshotIsOneMoment

\* The adapter quotes from the vault and both treasuries of one moment, and the venue
\* under test wins an order only by paying more.
THEOREM SnapshotOneMoment == DeskSpec => []SnapshotIsOneMoment
  BY DeskInvariant, InvSnapshot, PTL

\* Every command that has signed carries what was typed, and only a deployment is
\* signed for a vault that is not there.
LEMMA SignedCarries ==
    ASSUME DeskInv, NEW s \in Signed
    PROVE  Carries(s) /\ (s.kind # "deploy" => Deployed)
  <1>1. CmdFits /\ SignedFits /\ SignedStand
    BY DEF DeskInv
  <1>2. CASE s \in {log[i] : i \in {j \in 1..Len(log) : log[j].tx # Nil}}
    BY <1>1, <1>2 DEF SignedFits, SignedStand
  <1>3. CASE /\ cmd.tx # Nil
             /\ s = [verdict |-> "running", kind |-> cmd.kind, args |-> cmd.args,
                     tx |-> cmd.tx, seen |-> cmd.seen]
    <2>1. s.kind = cmd.kind /\ s.args = cmd.args /\ s.tx = cmd.tx
      BY <1>3
    <2>2. Carries(cmd) /\ (cmd.kind # "deploy" => Deployed)
      BY <1>1, <1>3 DEF SignedFits, CmdFits, SignedStand
    <2> QED
      BY <2>1, <2>2 DEF Carries, Ready
  <1> QED
    BY <1>2, <1>3 DEF Signed

\* What is carried reads back as it was typed.
LEMMA InvCarried == DeskInv => TypedIsSigned
  <1> SUFFICES ASSUME DeskInv, NEW s \in Signed
               PROVE
        /\ s.kind = "fund" =>
               format_raw(s.tx.ix.amount, Decimals[MintOf(s.args.side)])
                   = normalized(s.args.amount)
        /\ s.kind = "quote" /\ s.args.mid_how = "human" =>
               LET mid == s.tx.ix.terms.mid_e9
                   typed == s.args.mid
                   unit == pow10(Decimals[Base] + typed.scale)
                   asked == typed.mantissa * pow10(Decimals[Quote]) * PRICE_SCALE
               IN  /\ mid * unit <= asked /\ asked < (mid + 1) * unit
                   /\ exact(typed, Decimals[Base], Decimals[Quote])
                          <=> format_mid_e9(mid, Decimals[Base], Decimals[Quote])
                                  = normalized(typed)
                   /\ \A zeros \in 0..1 :
                          LET feed == [mantissa |-> typed.mantissa * pow10(zeros),
                                       expo |-> -typed.scale - zeros]
                          IN  ScaleVerdict(feed, NoFeed, Decimals[Base], Decimals[Quote]) = "Ok"
                                  => mid = feed_mid_e9(feed, NoFeed, Decimals[Base],
                                                       Decimals[Quote])
    BY DEF TypedIsSigned
  <1>1. Carries(s) /\ (s.kind # "deploy" => Deployed) /\ Ready(s)
    BY SignedCarries DEF Carries
  <1>2. OurPair
    BY DEF DeskInv
  <1>3. Decimals[Base] \in Nat /\ Decimals[Quote] \in Nat
    BY Ours
  <1>4. ASSUME s.kind = "fund"
        PROVE  format_raw(s.tx.ix.amount, Decimals[MintOf(s.args.side)])
                   = normalized(s.args.amount)
    <2>1. /\ s.args.side \in TreasurySides /\ s.args.amount \in Decimal
          /\ normalized(s.args.amount).scale <= Decimals[OurMint(s.args.side)]
      BY <1>1, <1>4, Ours DEF Ready
    <2>2. Decimals[OurMint(s.args.side)] \in Nat
      BY <1>3 DEF OurMint
    <2>3. MintOf(s.args.side) = OurMint(s.args.side)
      BY <1>1, <1>2, <1>4, <2>1, MintOfOurs
    <2>4. s.tx.ix.amount = to_raw(s.args.amount, Decimals[OurMint(s.args.side)])
      BY <1>1, <1>4 DEF Carries
    <2> QED
      BY <2>1, <2>2, <2>3, <2>4, RawIsTyped
  <1>5. ASSUME s.kind = "quote", s.args.mid_how = "human"
        PROVE  LET mid == s.tx.ix.terms.mid_e9
                   typed == s.args.mid
                   unit == pow10(Decimals[Base] + typed.scale)
                   asked == typed.mantissa * pow10(Decimals[Quote]) * PRICE_SCALE
               IN  /\ mid * unit <= asked /\ asked < (mid + 1) * unit
                   /\ exact(typed, Decimals[Base], Decimals[Quote])
                          <=> format_mid_e9(mid, Decimals[Base], Decimals[Quote])
                                  = normalized(typed)
                   /\ \A zeros \in 0..1 :
                          LET feed == [mantissa |-> typed.mantissa * pow10(zeros),
                                       expo |-> -typed.scale - zeros]
                          IN  ScaleVerdict(feed, NoFeed, Decimals[Base], Decimals[Quote]) = "Ok"
                                  => mid = feed_mid_e9(feed, NoFeed, Decimals[Base],
                                                       Decimals[Quote])
    <2>1. s.args \in Sets /\ s.args.mid \in Decimal
      BY <1>1, <1>5, ForgeAssumption DEF Ready
    <2>2. s.tx.ix.terms.mid_e9 = to_mid_e9(s.args.mid, Decimals[Base], Decimals[Quote])
      BY <1>1, <1>5 DEF Carries, summarize, MidOf
    <2>3. \A zeros \in 0..1 :
              LET feed == [mantissa |-> s.args.mid.mantissa * pow10(zeros),
                           expo |-> -s.args.mid.scale - zeros]
              IN  feed_mid_e9(feed, NoFeed, Decimals[Base], Decimals[Quote])
                      = to_mid_e9(s.args.mid, Decimals[Base], Decimals[Quote])
      BY <1>3, <2>1, FeedReadsTheSame
    <2>4. LET mid == to_mid_e9(s.args.mid, Decimals[Base], Decimals[Quote])
              unit == pow10(Decimals[Base] + s.args.mid.scale)
              asked == s.args.mid.mantissa * pow10(Decimals[Quote]) * PRICE_SCALE
          IN  mid * unit <= asked /\ asked < (mid + 1) * unit
      BY <1>3, <2>1, MidWithinUnit
    <2>5. exact(s.args.mid, Decimals[Base], Decimals[Quote])
              <=> format_mid_e9(to_mid_e9(s.args.mid, Decimals[Base], Decimals[Quote]),
                                Decimals[Base], Decimals[Quote]) = normalized(s.args.mid)
      BY <1>3, <2>1, ExactReadsAsTyped
    <2> QED
      BY <2>2, <2>3, <2>4, <2>5, Zenon
  <1> QED
    BY <1>4, <1>5, Zenon

\* What is typed is what is signed: an amount to the last unit, a price within one unit
\* of its fixed point and flagged exactly when it is not even, and the mid the engine
\* would make of the same price.
THEOREM TypedSigned == DeskSpec => []TypedIsSigned
  BY DeskInvariant, InvCarried, PTL

-----------------------------------------------------------------------------
(* What the owner is told.                                                  *)

\* The verdicts of a finished command that leave room for an effect.
Hopeful == {"confirmed", "unanswered", "unconfirmed"}

\* The transactions that have had their effect.
LandedWell == {l.tx : l \in {m \in landed : m.outcome = "ok"}}

\* No confirmation stands for another.
OneEach ==
    \A i, j \in 1..Len(log) :
        i # j /\ log[i].verdict = "confirmed" /\ log[j].verdict = "confirmed"
            => log[i].tx # log[j].tx

\* What was reported executed was, in the way that was reported.
TrueReports ==
    \A i \in 1..Len(log) :
        /\ log[i].verdict = "confirmed" => [tx |-> log[i].tx, outcome |-> "ok"] \in landed
        /\ log[i].verdict = "error" => [tx |-> log[i].tx, outcome |-> "err"] \in landed

\* A transaction is executed once, and one that is waited for was not before.
OnceOnly ==
    /\ mempool \intersect Ended = {}
    /\ \A l, m \in landed : l.tx = m.tx => l = m
    /\ cmd.pc = "poll" =>
           \A i \in 1..Len(log) : log[i].verdict = "confirmed" => log[i].tx # cmd.tx

\* Every effect there is or may come is one the owner was told of, or is waiting for.
Accounted ==
    \A tx \in mempool \union LandedWell :
        \/ \E i \in 1..Len(log) : log[i].tx = tx /\ log[i].verdict \in Hopeful
        \/ cmd.pc = "poll" /\ cmd.tx = tx

\* The second invariant: what the owner was told against what the chain did.
ToldInv == TrueReports /\ OneEach /\ OnceOnly /\ Accounted

\* Steps that neither end a command nor move a transaction.
LEMMA ToldKept ==
    ASSUME ToldInv, UNCHANGED <<mempool, landed, log>>,
           cmd' = cmd \/ (cmd.pc # "poll" /\ cmd'.pc # "poll")
    PROVE  ToldInv'
  <1>1. TrueReports' /\ OneEach'
    BY DEF ToldInv, TrueReports, OneEach
  <1>2. OnceOnly'
    BY DEF ToldInv, OnceOnly, Ended
  <1>3. Accounted'
    BY DEF ToldInv, Accounted, LandedWell
  <1> QED
    BY <1>1, <1>2, <1>3 DEF ToldInv

\* The end of a command.
LEMMA ToldEnd ==
    ASSUME ForgeInv, ToldInv, NEW e \in Entries, log' = Append(log, e), cmd'.pc # "poll",
           landed' = landed,
           \/ mempool' = mempool
           \/ /\ mempool' = mempool \union {e.tx}
              /\ e.tx \notin Ended /\ e.verdict = "unanswered",
           e.verdict = "confirmed" =>
               /\ [tx |-> e.tx, outcome |-> "ok"] \in landed
               /\ \A i \in 1..Len(log) : log[i].verdict = "confirmed" => log[i].tx # e.tx,
           e.verdict = "error" => [tx |-> e.tx, outcome |-> "err"] \in landed,
           cmd.pc = "poll" => e.tx = cmd.tx /\ e.verdict \in Hopeful \union {"error"}
    PROVE  ToldInv'
  <1>0. /\ Len(log) \in Nat /\ Len(log') = Len(log) + 1
        /\ \A i \in 1..Len(log) : i \in 1..Len(log') /\ log'[i] = log[i]
        /\ Len(log) + 1 \in 1..Len(log') /\ log'[Len(log) + 1] = e
        /\ \A i \in 1..Len(log') : i \in 1..Len(log) \/ i = Len(log) + 1
    BY LogGrows DEF ForgeInv, ForgeFits
  <1>1. TrueReports /\ OneEach /\ OnceOnly /\ Accounted
    BY DEF ToldInv
  <1> DEFINE last == Len(log) + 1
  <1>2. /\ \A i \in 1..Len(log) : i \in 1..Len(log') /\ log'[i] = log[i]
        /\ last \in 1..Len(log') /\ log'[last] = e
        /\ \A i \in 1..Len(log') : i \in 1..Len(log) \/ i = last
    BY <1>0
  <1> HIDE DEF last
  <1>3. TrueReports'
    BY <1>1, <1>2 DEF TrueReports
  <1>4. OneEach'
    BY <1>1, <1>2 DEF OneEach
  <1>5. OnceOnly'
    BY <1>1 DEF OnceOnly, Ended
  <1>6. Accounted'
    <2> SUFFICES ASSUME NEW tx \in mempool' \union LandedWell'
                 PROVE  \E i \in 1..Len(log') : log'[i].tx = tx /\ log'[i].verdict \in Hopeful
      BY DEF Accounted
    <2>1. CASE e.tx = tx /\ e.verdict \in Hopeful
      BY <1>2, <2>1
    <2>2. CASE tx \in mempool \union LandedWell
      <3>1. CASE \E i \in 1..Len(log) : log[i].tx = tx /\ log[i].verdict \in Hopeful
        BY <1>2, <3>1
      <3>2. CASE cmd.pc = "poll" /\ cmd.tx = tx
        <4>1. CASE e.verdict = "error"
          <5>1. [tx |-> tx, outcome |-> "err"] \in landed
            BY <3>2, <4>1
          <5>2. tx \in Ended
            BY <5>1 DEF Ended
          <5>3. tx \notin mempool
            BY <1>1, <5>2 DEF OnceOnly
          <5>4. tx \notin LandedWell
            <6> SUFFICES ASSUME NEW l \in landed, l.outcome = "ok", l.tx = tx
                         PROVE  FALSE
              BY DEF LandedWell
            <6> QED
              BY <1>1, <5>1 DEF OnceOnly
          <5> QED
            BY <2>2, <5>3, <5>4
        <4>2. CASE e.verdict \in Hopeful
          BY <2>1, <3>2, <4>2
        <4> QED
          BY <3>2, <4>1, <4>2
      <3> QED
        BY <1>1, <2>2, <3>1, <3>2 DEF Accounted
    <2>3. CASE tx = e.tx /\ e.verdict = "unanswered"
      BY <2>1, <2>3 DEF Hopeful
    <2> QED
      BY <2>2, <2>3 DEF LandedWell
  <1> QED
    BY <1>3, <1>4, <1>5, <1>6 DEF ToldInv

\* The end of a command that may have signed.
LEMMA ToldTell ==
    ASSUME ForgeInv, ToldInv, NEW verdict \in Verdicts \ {"refused"}, Tell(verdict),
           landed' = landed,
           \/ mempool' = mempool
           \/ /\ mempool' = mempool \union {cmd.tx}
              /\ cmd.tx \notin Ended /\ verdict = "unanswered",
           verdict = "confirmed" =>
               cmd.pc = "poll" /\ [tx |-> cmd.tx, outcome |-> "ok"] \in landed,
           verdict = "error" => [tx |-> cmd.tx, outcome |-> "err"] \in landed,
           cmd.pc = "poll" => verdict \in Hopeful \union {"error"}
    PROVE  ToldInv'
  <1> DEFINE e == [verdict |-> verdict, kind |-> cmd.kind, tx |-> cmd.tx,
                   args |-> IF cmd.tx = Nil THEN Nil ELSE cmd.args, seen |-> cmd.seen]
  <1>1. log' = Append(log, e) /\ cmd'.pc # "poll"
    BY IdleFits DEF Tell
  <1>2. cmd \in Cmds /\ Nil \in Args
    BY DEF ForgeInv, ForgeFits, Args
  <1>3. e \in Entries /\ e.tx = cmd.tx /\ e.verdict = verdict
    BY <1>2 DEF Cmds, Entries
  <1> HIDE DEF e
  <1>4. verdict = "confirmed" =>
            \A i \in 1..Len(log) : log[i].verdict = "confirmed" => log[i].tx # cmd.tx
    BY DEF ToldInv, OnceOnly
  <1> QED
    BY <1>1, <1>3, <1>4, ToldEnd

\* A command that ends before it has signed anything.
LEMMA ToldQuietEnd ==
    ASSUME ForgeInv, ToldInv, NEW e \in Entries, log' = Append(log, e), cmd.pc # "poll",
           cmd' = cmd \/ cmd' = Idle, UNCHANGED <<mempool, landed>>,
           e.verdict \notin {"confirmed", "error"}
    PROVE  ToldInv'
  <1>1. cmd'.pc # "poll"
    BY IdleFits
  <1> QED
    BY <1>1, ToldEnd

\* A transaction executes: the owner was told of it when it entered the mempool, or is
\* waiting for it.
LEMMA ToldLand ==
    ASSUME ForgeInv, ToldInv, NEW tx \in mempool, Land(tx)
    PROVE  ToldInv'
  <1>1. PICK o \in {"ok", "err"} : landed' = landed \union {[tx |-> tx, outcome |-> o]}
    BY DEF Land
  <1>2. UNCHANGED <<cmd, log>> /\ mempool' = mempool \ {tx}
    BY DEF Land
  <1>3. TrueReports /\ OneEach /\ OnceOnly /\ Accounted
    BY DEF ToldInv
  <1>4. tx \notin Ended
    BY <1>3 DEF OnceOnly
  <1>5. Ended' = Ended \union {tx}
    <2>1. landed' = landed \union {[tx |-> tx, outcome |-> o]} /\ [tx |-> tx, outcome |-> o].tx = tx
      BY <1>1
    <2>2. \A x : x \in Ended' <=> \E l \in landed' : x = l.tx
      BY DEF Ended
    <2>3. \A x : x \in Ended <=> \E l \in landed : x = l.tx
      BY DEF Ended
    <2> QED
      BY <2>1, <2>2, <2>3
  <1>6. TrueReports' /\ OneEach'
    BY <1>1, <1>2, <1>3 DEF TrueReports, OneEach
  <1>7. \A l, m \in landed' : l.tx = m.tx => l = m
    <2>1. \A l \in landed : l.tx # tx
      BY <1>4 DEF Ended
    <2> QED
      BY <1>1, <1>3, <2>1 DEF OnceOnly
  <1>8. OnceOnly'
    BY <1>2, <1>3, <1>5, <1>7 DEF OnceOnly
  <1>9. LandedWell' \subseteq LandedWell \union {tx}
    BY <1>1 DEF LandedWell
  <1>10. mempool' \union LandedWell' \subseteq mempool \union LandedWell
    BY <1>2, <1>9
  <1>11. Accounted'
    BY <1>2, <1>3, <1>10 DEF Accounted
  <1> QED
    BY <1>6, <1>8, <1>11 DEF ToldInv

\* A transaction is lost.
LEMMA ToldExpire ==
    ASSUME ToldInv, NEW tx \in mempool, Expire(tx)
    PROVE  ToldInv'
  <1>1. UNCHANGED <<cmd, log, landed>> /\ mempool' = mempool \ {tx}
    BY DEF Expire
  <1>2. TrueReports' /\ OneEach'
    BY <1>1 DEF ToldInv, TrueReports, OneEach
  <1>3. OnceOnly'
    BY <1>1 DEF ToldInv, OnceOnly, Ended
  <1>4. Accounted'
    BY <1>1 DEF ToldInv, Accounted, LandedWell
  <1> QED
    BY <1>2, <1>3, <1>4 DEF ToldInv

\* The node takes a transaction, which by its preflight has not been executed before.
LEMMA ToldSend ==
    ASSUME ForgeInv, ToldInv, Send
    PROVE  ToldInv'
  <1>1. cmd \in Cmds
    BY DEF ForgeInv, ForgeFits
  <1>2. CASE Tell("rejected") /\ UNCHANGED <<mempool, landed>>
    BY <1>2, ToldTell DEF Send, Verdicts
  <1>3. CASE /\ Preflight(cmd.tx) /\ mempool' = mempool \union {cmd.tx}
             /\ cmd' = [cmd EXCEPT !.pc = "poll"] /\ UNCHANGED <<log, landed>>
    <2>1. cmd'.tx = cmd.tx /\ cmd'.pc = "poll" /\ cmd.pc = "send"
      BY <1>1, <1>3 DEF Cmds, Send
    <2>2. cmd.tx \notin Ended
      BY <1>3 DEF Preflight
    <2>3. TrueReports /\ OneEach /\ OnceOnly /\ Accounted
      BY DEF ToldInv
    <2>4. TrueReports' /\ OneEach'
      BY <1>3, <2>3 DEF TrueReports, OneEach
    <2>5. ASSUME NEW i \in 1..Len(log), log[i].verdict = "confirmed"
          PROVE  log[i].tx # cmd.tx
      <3> DEFINE l == [tx |-> log[i].tx, outcome |-> "ok"]
      <3>1. l \in landed /\ l.tx = log[i].tx
        BY <2>3, <2>5 DEF TrueReports
      <3>2. l.tx \in Ended
        BY <3>1 DEF Ended
      <3> QED
        BY <2>2, <3>1, <3>2
    <2>6. OnceOnly'
      BY <1>3, <2>1, <2>2, <2>3, <2>5 DEF OnceOnly, Ended
    <2>7. Accounted'
      BY <1>3, <2>1, <2>3 DEF Accounted, LandedWell
    <2> QED
      BY <2>4, <2>6, <2>7 DEF ToldInv
  <1> QED
    BY <1>2, <1>3 DEF Send

\* The wait ends.
LEMMA ToldPoll ==
    ASSUME ForgeInv, ToldInv, PollFinds \/ PollTimesOut \/ PollFails
    PROVE  ToldInv'
  <1>1. cmd.pc = "poll" /\ UNCHANGED <<mempool, landed>>
    BY DEF PollFinds, PollTimesOut, PollFails
  <1>2. CASE PollFinds
    <2>1. PICK l \in landed : /\ l.tx = cmd.tx
                              /\ Tell(IF l.outcome = "ok" THEN "confirmed" ELSE "error")
      BY <1>2 DEF PollFinds
    <2>2. l \in [tx : Txs, outcome : {"ok", "err"}]
      BY DEF ForgeInv, ForgeFits
    <2>3. CASE l.outcome = "ok"
      <3>1. [tx |-> cmd.tx, outcome |-> "ok"] \in landed /\ Tell("confirmed")
        BY <2>1, <2>2, <2>3
      <3> QED
        BY <1>1, <3>1, ToldTell DEF Verdicts, Hopeful
    <2>4. CASE l.outcome = "err"
      <3>1. [tx |-> cmd.tx, outcome |-> "err"] \in landed /\ Tell("error")
        BY <2>1, <2>2, <2>4
      <3> QED
        BY <1>1, <3>1, ToldTell DEF Verdicts
    <2> QED
      BY <2>2, <2>3, <2>4
  <1>3. CASE Tell("unconfirmed")
    BY <1>1, <1>3, ToldTell DEF Verdicts, Hopeful
  <1>4. CASE Tell("unanswered")
    BY <1>1, <1>4, ToldTell DEF Verdicts, Hopeful
  <1> QED
    BY <1>2, <1>3, <1>4 DEF PollTimesOut, PollFails

\* Commands that end with nothing signed.
LEMMA ToldBefore ==
    ASSUME ForgeInv, ToldInv, cmd.pc # "poll",
           \/ \E force \in BOOLEAN, written \in 0..Len(InitFiles) : init(force, written)
           \/ AskFails
           \/ Tell("refused") /\ UNCHANGED <<mempool, landed>>
    PROVE  ToldInv'
  <1>1. cmd \in Cmds
    BY DEF ForgeInv, ForgeFits
  <1>2. \E e \in Entries : log' = Append(log, e) /\ e.verdict \notin {"confirmed", "error"}
    <2>1. CASE \E force \in BOOLEAN, written \in 0..Len(InitFiles) : init(force, written)
      <3>1. PICK written \in 0..Len(InitFiles), force \in BOOLEAN : init(force, written)
        BY <2>1
      <3> DEFINE e == [verdict |-> IF written = Len(InitFiles) THEN "done" ELSE "failed",
                       kind |-> "init", args |-> Nil, tx |-> Nil, seen |-> Nil]
      <3>2. log' = Append(log, e)
        BY <3>1 DEF init
      <3>3. e \in Entries /\ e.verdict \notin {"confirmed", "error"}
        BY DEF Entries, Args, Seens, Commands, Verdicts
      <3> QED
        BY <3>2, <3>3
    <2>2. CASE AskFails
      <3> DEFINE e == [verdict |-> "failed", kind |-> cmd.kind, args |-> Nil,
                       tx |-> Nil, seen |-> Nil]
      <3>1. log' = Append(log, e)
        BY <2>2 DEF AskFails
      <3>2. e \in Entries /\ e.verdict \notin {"confirmed", "error"}
        BY <1>1 DEF Entries, Args, Seens, Cmds, Verdicts
      <3> QED
        BY <3>1, <3>2
    <2>3. CASE Tell("refused")
      <3> DEFINE e == [verdict |-> "refused", kind |-> cmd.kind, tx |-> cmd.tx,
                       args |-> IF cmd.tx = Nil THEN Nil ELSE cmd.args, seen |-> Nil]
      <3>1. log' = Append(log, e)
        BY <2>3 DEF Tell
      <3>2. e \in Entries /\ e.verdict \notin {"confirmed", "error"}
        BY <1>1 DEF Entries, Args, Seens, Cmds, Verdicts
      <3> QED
        BY <3>1, <3>2
    <2> QED
      BY <2>1, <2>2, <2>3
  <1>3. UNCHANGED <<mempool, landed>> /\ (cmd' = cmd \/ cmd' = Idle)
    BY DEF init, AskFails, Tell
  <1> QED
    BY <1>2, <1>3, ToldQuietEnd

\* The second invariant is inductive on the first,
LEMMA ToldStep ==
    ASSUME DeskInv, ToldInv, [DeskNext]_deskVars
    PROVE  ToldInv'
  <1>1. ForgeInv /\ cmd \in Cmds
    BY DEF DeskInv, ForgeInv, ForgeFits
  <1>2. CASE ForgeNext
    <2>1. CASE \/ \E force \in BOOLEAN, written \in 0..Len(InitFiles) : init(force, written)
               \/ AskFails
      BY <1>1, <2>1, ToldBefore DEF init, AskFails
    <2>2. CASE \E kind, args, keypair : Open(kind, args, keypair)
      <3>1. cmd.pc # "poll" /\ cmd'.pc # "poll" /\ UNCHANGED <<mempool, landed, log>>
        BY <2>2 DEF Open, Idle
      <3> QED
        BY <3>1, ToldKept
    <2>3. CASE Look
      <3>1. CASE Tell("refused")
        BY <1>1, <2>3, <3>1, ToldBefore DEF Look
      <3>2. CASE cmd' = [cmd EXCEPT !.pc = "sign", !.seen = SeenBy(cmd.kind, cmd.args)]
                 /\ UNCHANGED log
        <4>1. cmd.pc # "poll" /\ cmd'.pc # "poll" /\ UNCHANGED <<mempool, landed, log>>
          BY <1>1, <2>3, <3>2 DEF Look, Cmds
        <4> QED
          BY <4>1, ToldKept
      <3> QED
        BY <2>3, <3>1, <3>2 DEF Look
    <2>4. CASE Sign
      <3>1. cmd.pc # "poll" /\ cmd'.pc # "poll" /\ UNCHANGED <<mempool, landed, log>>
        BY <1>1, <2>4 DEF Sign, Cmds
      <3> QED
        BY <3>1, ToldKept
    <2>5. CASE Send
      BY <1>1, <2>5, ToldSend
    <2>6. CASE SendUnanswered
      <3>1. /\ Tell("unanswered") /\ cmd.pc = "send" /\ landed' = landed
            /\ \/ mempool' = mempool
               \/ mempool' = mempool \union {cmd.tx} /\ cmd.tx \notin Ended
        BY <2>6 DEF SendUnanswered, Preflight
      <3> QED
        BY <1>1, <3>1, ToldTell DEF Verdicts
    <2>7. CASE PollFinds \/ PollTimesOut \/ PollFails
      BY <1>1, <2>7, ToldPoll
    <2>8. CASE StatusSlot \/ StatusVaults \/ StatusDetails
      <3>1. cmd.pc # "poll" /\ UNCHANGED <<mempool, landed>>
        BY <2>8 DEF StatusSlot, StatusVaults, StatusDetails
      <3>2. CASE cmd'.pc # "poll" /\ UNCHANGED log
        BY <3>1, <3>2, ToldKept
      <3>3. CASE \E verdict \in {"not deployed", "fresh", "no price or stale"} : Tell(verdict)
        BY <1>1, <3>1, <3>3, ToldTell DEF Verdicts
      <3> QED
        BY <1>1, <2>8, <3>2, <3>3 DEF StatusSlot, StatusVaults, StatusDetails, Cmds
    <2>9. CASE \E tx \in mempool : Land(tx) \/ Expire(tx)
      BY <1>1, <2>9, ToldLand, ToldExpire
    <2> QED
      BY <1>2, <2>1, <2>2, <2>3, <2>4, <2>5, <2>6, <2>7, <2>8, <2>9 DEF ForgeNext
  <1>3. CASE UNCHANGED <<cmd, mempool, landed, log>>
    BY <1>3, ToldKept
  <1> QED
    BY <1>2, <1>3 DEF DeskNext, Owner, Taker, Others, DeskTick, deskVars, forgeVars

\* holds at the beginning,
LEMMA InitTold == DeskInit => ToldInv
  <1> SUFFICES ASSUME DeskInit PROVE ToldInv
    OBVIOUS
  <1>1. cmd = Idle /\ mempool = {} /\ landed = {} /\ log = <<>>
    BY DEF DeskInit, ForgeInit
  <1>2. 1..Len(log) = {} /\ cmd.pc # "poll" /\ Ended = {} /\ LandedWell = {}
    BY <1>1, IdleFits DEF Ended, LandedWell
  <1> QED
    BY <1>1, <1>2 DEF ToldInv, TrueReports, OneEach, OnceOnly, Accounted

\* and so always.
THEOREM ReportsInvariant == DeskSpec => []ToldInv
  <1>1. DeskInit => ToldInv
    BY InitTold
  <1>2. DeskInv /\ ToldInv /\ [DeskNext]_deskVars => ToldInv'
    BY ToldStep
  <1> QED
    BY <1>1, <1>2, DeskInvariant, PTL DEF DeskSpec

\* It says what the reports are worth.
LEMMA ToldMatches == DeskInv /\ ToldInv => ReportsMatchEffects
  <1> SUFFICES ASSUME DeskInv, ToldInv PROVE ReportsMatchEffects
    OBVIOUS
  <1>1. TrueReports /\ OneEach /\ Accounted /\ mempool \subseteq OwnTxs
        /\ landed \subseteq [tx : Txs, outcome : {"ok", "err"}]
    BY DEF DeskInv, ForgeFits, ToldInv, OwnTxs
  <1>2. ASSUME NEW tx \in mempool \union LandedWell
        PROVE  \E s \in Signed : s.tx = tx /\ s.verdict \in MayHaveWorked
    <2>1. tx \in Txs
      BY <1>1 DEF LandedWell, OwnTxs
    <2>2. tx # Nil
      BY <2>1, Ours
    <2>3. CASE \E i \in 1..Len(log) : log[i].tx = tx /\ log[i].verdict \in Hopeful
      <3>1. PICK i \in 1..Len(log) : log[i].tx = tx /\ log[i].verdict \in Hopeful
        BY <2>3
      <3>2. log[i] \in Signed
        BY <2>2, <3>1 DEF Signed
      <3> QED
        BY <3>1, <3>2 DEF Hopeful, MayHaveWorked
    <2>4. CASE cmd.pc = "poll" /\ cmd.tx = tx
      <3> DEFINE s == [verdict |-> "running", kind |-> cmd.kind, args |-> cmd.args,
                       tx |-> cmd.tx, seen |-> cmd.seen]
      <3>1. s \in Signed
        BY <2>2, <2>4 DEF Signed
      <3>2. s.tx = tx /\ s.verdict \in MayHaveWorked
        BY <2>4 DEF MayHaveWorked
      <3> QED
        BY <3>1, <3>2
    <2> QED
      BY <1>1, <2>3, <2>4 DEF Accounted
  <1> QED
    BY <1>1, <1>2 DEF ReportsMatchEffects, TrueReports, OneEach, LandedWell

\* What the owner is told and what the chain does agree, over lost answers, waits given
\* up and repeated commands.
THEOREM ReportsMatch == DeskSpec => []ReportsMatchEffects
  BY DeskInvariant, ReportsInvariant, ToldMatches, PTL

-----------------------------------------------------------------------------
(* What a command has checked.                                              *)

\* The explicit guard of a transaction is the one of what it does.  It is needed:
LEMMA GuardIsNeeded ==
    ASSUME NEW tx \in Txs, Execute(tx)
    PROVE  Executes(tx)
  BY DEF Execute, Executes, initialize_vault, deposit, update_quote, clear_quote_ix

\* The vault a deployment makes.
Fresh(tx) == [owner |-> tx.signer, pricing_authority |-> tx.signer,
              halt_authority |-> tx.signer, halted |-> FALSE,
              base_mint |-> Base, quote_mint |-> Quote]

\* What the transaction leaves behind, variable by variable.
After(tx) ==
    LET op == tx.ix.op
        side == tx.ix.side
        amount == tx.ix.amount
        terms == tx.ix.terms
        cleared == IF quote.mid_e9 # 0 THEN QuoteCleared(told) ELSE told
        posted == [mid_e9 |-> terms.mid_e9, spread_bps |-> terms.spread_bps,
                   skew_bps |-> terms.skew_bps, max_size_base |-> terms.max_size_base,
                   quote_slot |-> slot]
    IN  [vault |-> IF op = "deploy" THEN Fresh(tx) ELSE vault,
         limits |-> IF op = "deploy" THEN Limits ELSE limits,
         quote |-> IF op \in {"deploy", "clear"} THEN NoQuote
                   ELSE IF op = "quote" THEN posted ELSE quote,
         treasury |-> IF op = "fund"
                      THEN [treasury EXCEPT ![side] = @ + Delivered(MintOf(side), amount)]
                      ELSE treasury,
         told |-> IF op = "fund" THEN CapitalMoved(told, side, treasury[side] + amount)
                  ELSE IF op = "quote" THEN QuoteUpdated(told, posted)
                  ELSE IF op = "clear" THEN cleared ELSE told,
         untold |-> IF op = "fund" THEN [untold EXCEPT ![side] = 0] ELSE untold,
         signer |-> IF op = "quote" THEN tx.signer
                    ELSE IF op = "clear" THEN DefaultKey ELSE signer,
         wallet |-> IF op = "fund" THEN [wallet EXCEPT ![side] = @ - amount] ELSE wallet]

\* And it is enough: where it holds, what After gives is a next state of the transaction.
LEMMA GuardIsEnough ==
    ASSUME NEW tx \in Txs, Executes(tx),
           vault' = After(tx).vault, limits' = After(tx).limits, quote' = After(tx).quote,
           treasury' = After(tx).treasury, told' = After(tx).told,
           untold' = After(tx).untold, signer' = After(tx).signer,
           wallet' = After(tx).wallet, slot' = slot
    PROVE  Execute(tx)
  <1>1. tx.signer \in Keys /\ tx.signer # DefaultKey /\ Base # Quote
    BY TxShape, Ours
  <1>2. CASE tx.ix.op = "deploy"
    BY <1>1, <1>2 DEF Executes, Execute, After, Fresh, initialize_vault
  <1>3. CASE tx.ix.op = "fund"
    BY <1>3 DEF Executes, Execute, After, deposit
  <1>4. CASE tx.ix.op = "quote"
    BY <1>4 DEF Executes, Execute, After, update_quote
  <1>5. CASE tx.ix.op = "clear"
    BY <1>5 DEF Executes, Execute, After, clear_quote_ix, clear_quote
  <1> QED
    BY <1>2, <1>3, <1>4, <1>5 DEF Txs

\* The key a command signs with: the one named, or the owner's.
KeyOf(keypair) == IF keypair = NoKey THEN OwnerKey ELSE keypair

\* The amount of fund, in units.
Units(s) == to_raw(s.args.amount, Decimals[OurMint(s.args.side)])

\* Terms the program would post whatever the slot and the limits.
Sound(q) ==
    /\ q.mid_e9 > 0 /\ q.max_size_base > 0
    /\ \A side \in Sides : PriceVerdict(q, side) = "Ok"

\* A command has seen that the key may do what it asks, and that its arguments pass.
Passed(s, key) ==
    /\ s.kind = "deploy" => s.seen = <<DefaultKey>>
    /\ s.kind = "fund" => Units(s) > 0 /\ s.seen[2] >= Units(s)
    /\ s.kind = "quote" => Sound(summarize(s.args)) /\ s.seen = <<key, FALSE>>
    /\ s.kind = "clear" => s.seen = <<key>>

\* The third invariant: every command that goes on has passed its checks.
PassedInv ==
    /\ cmd.pc = "sign" => Passed(cmd, KeyOf(cmd.keypair))
    /\ cmd.tx # Nil => Passed(cmd, cmd.tx.signer)
    /\ \A i \in 1..Len(log) : log[i].tx # Nil => Passed(log[i], log[i].tx.signer)

\* The program's own check of a price, at any slot and under any limits.
LEMMA SoundIsAcceptable ==
    ASSUME NEW q
    PROVE  Acceptable(q) <=> Sound(q)
  <1>1. ASSUME NEW side \in Sides
        PROVE  PriceVerdict(Candidate(q), side) = PriceVerdict(q, side)
    <2>1. /\ Candidate(q).mid_e9 = q.mid_e9 /\ Candidate(q).spread_bps = q.spread_bps
          /\ Candidate(q).skew_bps = q.skew_bps
      BY DEF Candidate, quote_params
    <2> QED
      BY <2>1, VerdictOfPrice
  <1> QED
    BY <1>1 DEF Acceptable, Sound

\* The log grows by a line that has.
LEMMA PassedLog ==
    ASSUME ForgeInv, PassedInv, NEW e \in Entries, log' = Append(log, e),
           cmd' = cmd \/ cmd' = Idle, e.tx # Nil => Passed(e, e.tx.signer)
    PROVE  PassedInv'
  <1>1. log \in Seq(Entries)
    BY DEF ForgeInv, ForgeFits
  <1>2. \A i \in 1..Len(log') : log'[i].tx # Nil => Passed(log'[i], log'[i].tx.signer)
    BY <1>1, LogGrows DEF PassedInv
  <1> QED
    BY <1>2, IdleFits DEF PassedInv

\* A command ends.
LEMMA PassedTell ==
    ASSUME ForgeInv, PassedInv, NEW verdict \in Verdicts, Tell(verdict),
           verdict = "refused" => cmd.tx = Nil
    PROVE  PassedInv'
  <1> DEFINE e == [verdict |-> verdict, kind |-> cmd.kind, tx |-> cmd.tx,
                   args |-> IF cmd.tx = Nil THEN Nil ELSE cmd.args,
                   seen |-> IF verdict = "refused" THEN Nil ELSE cmd.seen]
  <1>1. cmd \in Cmds /\ Nil \in Args /\ Nil \in Seens
    BY DEF ForgeInv, ForgeFits, Args, Seens
  <1>2. e \in Entries
    BY <1>1 DEF Cmds, Entries
  <1>3. log' = Append(log, e) /\ cmd' = Idle
    BY DEF Tell
  <1>4. e.tx # Nil => /\ e.tx = cmd.tx /\ e.kind = cmd.kind /\ e.args = cmd.args
                      /\ e.seen = cmd.seen
    OBVIOUS
  <1> HIDE DEF e
  <1>5. e.tx # Nil => Passed(e, e.tx.signer)
    BY <1>4 DEF PassedInv, Passed, Units
  <1> QED
    BY <1>2, <1>3, <1>5, PassedLog

\* A command that has signed nothing yet goes on.
LEMMA PassedKept ==
    ASSUME PassedInv, UNCHANGED log, cmd'.pc # "sign", cmd'.tx = Nil
    PROVE  PassedInv'
  BY DEF PassedInv

\* Looking is passing the checks or ending.
LEMMA PassedLook ==
    ASSUME IInv, OurPair, ForgeInv, PassedInv, Look
    PROVE  PassedInv'
  <1>1. cmd \in Cmds /\ wallet \in [base : Nat, quote : Nat] /\ CmdFits
    BY DEF ForgeInv, ForgeFits
  <1>2. cmd.pc = "look" /\ cmd.kind \in Signing /\ cmd.tx = Nil
    BY <1>1 DEF Look, CmdFits
  <1>3. CASE Tell("refused")
    BY <1>2, <1>3, PassedTell DEF Verdicts
  <1>4. CASE Checks /\ cmd' = [cmd EXCEPT !.pc = "sign", !.seen = SeenBy(cmd.kind, cmd.args)]
                    /\ UNCHANGED log
    <2> DEFINE seen == SeenBy(cmd.kind, cmd.args)
    <2> HIDE DEF seen
    <2>1. /\ cmd'.pc = "sign" /\ cmd'.kind = cmd.kind /\ cmd'.args = cmd.args
          /\ cmd'.tx = Nil /\ cmd'.seen = seen /\ cmd'.keypair = cmd.keypair
      BY <1>1, <1>2, <1>4 DEF Cmds, seen
    <2>2. cmd.kind = "deploy" => seen = <<DefaultKey>>
      BY <1>4 DEF Checks, DeployLook, Deployed, SeenBy, seen
    <2>3. cmd.kind = "fund" => Units(cmd) > 0 /\ seen[2] >= Units(cmd)
      <3> SUFFICES ASSUME cmd.kind = "fund"
                   PROVE  Units(cmd) > 0 /\ seen[2] >= Units(cmd)
        OBVIOUS
      <3>1. FundLook
        BY <1>4 DEF Checks
      <3>2. cmd.args \in Funds /\ cmd.args.side \in TreasurySides
            /\ cmd.args.amount \in Decimal
        BY <1>1, <1>2, Ours DEF CmdFits
      <3>3. MintOf(cmd.args.side) = OurMint(cmd.args.side)
        BY <3>1, <3>2, MintOfOurs DEF FundLook
      <3>4. /\ ToRawVerdict(cmd.args.amount, Decimals[OurMint(cmd.args.side)]) = "Ok"
            /\ wallet[cmd.args.side] >= Units(cmd)
        BY <3>1, <3>3 DEF FundLook, Units
      <3>5. /\ ~(normalized(cmd.args.amount).scale > Decimals[OurMint(cmd.args.side)])
            /\ Units(cmd) # 0
        BY <3>4 DEF ToRawVerdict, Units
      <3>6. normalized(cmd.args.amount).scale \in Nat
        BY <3>2, NormalForm DEF Decimal
      <3>7. Decimals[OurMint(cmd.args.side)] \in Nat
        BY Ours DEF OurMint
      <3>8. Units(cmd) \in Nat
        BY <3>2, <3>5, <3>6, <3>7, RawIsTyped DEF Units
      <3>9. seen[2] = wallet[cmd.args.side]
        BY DEF SeenBy, seen
      <3> QED
        BY <3>4, <3>5, <3>8, <3>9
    <2>4. cmd.kind = "quote" => Sound(summarize(cmd.args))
                                /\ seen = <<KeyOf(cmd.keypair), FALSE>>
      <3> SUFFICES ASSUME cmd.kind = "quote"
                   PROVE  Sound(summarize(cmd.args)) /\ seen = <<KeyOf(cmd.keypair), FALSE>>
        OBVIOUS
      <3>1. QuoteLook /\ InDomain(cmd.args)
        BY <1>4 DEF Checks
      <3>2. /\ vault.pricing_authority = KeyOf(cmd.keypair) /\ vault.halted = FALSE
        <4>1. vault.halted \in BOOLEAN
          BY DEF IInv, TypeOK, Vaults
        <4> QED
          BY <3>1, <4>1 DEF QuoteLook, Signer, KeyOf
      <3>3. cmd.args \in Sets /\ Converts(cmd.args)
        BY <1>1, <1>2, <3>1 DEF CmdFits, InDomain
      <3>4. summarize(cmd.args) \in QuoteUpdate
        BY <3>3, SummaryTyped
      <3>5. /\ summarize(cmd.args).mid_e9 # 0 /\ summarize(cmd.args).max_size_base # 0
            /\ \A side \in Sides : PriceVerdict(Candidate(summarize(cmd.args)), side) = "Ok"
        BY <3>1 DEF InDomain, summarize
      <3>6. summarize(cmd.args).mid_e9 > 0 /\ summarize(cmd.args).max_size_base > 0
        BY <3>4, <3>5 DEF QuoteUpdate
      <3>7. Sound(summarize(cmd.args))
        BY <3>5, <3>6, SoundIsAcceptable DEF Acceptable
      <3>8. seen = <<vault.pricing_authority, vault.halted>>
        BY DEF SeenBy, seen
      <3> QED
        BY <3>2, <3>7, <3>8
    <2>5. cmd.kind = "clear" => seen = <<KeyOf(cmd.keypair)>>
      BY <1>4 DEF Checks, QuoteLook, Signer, KeyOf, SeenBy, seen
    <2>6. Passed(cmd', KeyOf(cmd'.keypair))
      BY <2>1, <2>2, <2>3, <2>4, <2>5 DEF Passed, Units
    <2> QED
      BY <1>4, <2>1, <2>6 DEF PassedInv
  <1> QED
    BY <1>3, <1>4 DEF Look

\* Signing keeps what was seen, and the key is the one that was looked at.
LEMMA PassedSign ==
    ASSUME ForgeInv, PassedInv, Sign
    PROVE  PassedInv'
  <1> DEFINE key == IF cmd.kind \in {"quote", "clear"} THEN Signer ELSE OwnerKey
             tx == [ix |-> Instruction, hash |-> slot, signer |-> key]
  <1>1. cmd \in Cmds
    BY DEF ForgeInv, ForgeFits
  <1>2. cmd' = [cmd EXCEPT !.pc = "send", !.tx = tx] /\ UNCHANGED log
    BY DEF Sign
  <1>3. tx.signer = key
    OBVIOUS
  <1>4. cmd.kind \in {"quote", "clear"} => key = KeyOf(cmd.keypair)
    BY DEF Signer, KeyOf
  <1> HIDE DEF tx, key
  <1>5. /\ cmd'.pc = "send" /\ cmd'.kind = cmd.kind /\ cmd'.args = cmd.args
        /\ cmd'.tx.signer = key /\ cmd'.seen = cmd.seen
    BY <1>1, <1>2, <1>3 DEF Cmds
  <1>6. Passed(cmd, KeyOf(cmd.keypair))
    BY DEF PassedInv, Sign
  <1>7. Passed(cmd', cmd'.tx.signer)
    BY <1>4, <1>5, <1>6 DEF Passed, Units
  <1> QED
    BY <1>2, <1>5, <1>7 DEF PassedInv

\* The third invariant is inductive on the first,
LEMMA PassedStep ==
    ASSUME DeskInv, PassedInv, [DeskNext]_deskVars
    PROVE  PassedInv'
  <1>1. ForgeInv /\ cmd \in Cmds /\ IInv /\ OurPair /\ CmdFits
    BY DEF DeskInv, ForgeInv, ForgeFits
  <1>2. CASE ForgeNext
    <2>1. CASE \/ \E force \in BOOLEAN, written \in 0..Len(InitFiles) : init(force, written)
               \/ AskFails
      <3>1. \E e \in Entries : log' = Append(log, e) /\ e.tx = Nil
        <4>1. CASE \E force \in BOOLEAN, written \in 0..Len(InitFiles) : init(force, written)
          <5>1. PICK written \in 0..Len(InitFiles), force \in BOOLEAN : init(force, written)
            BY <4>1
          <5> DEFINE e == [verdict |-> IF written = Len(InitFiles) THEN "done" ELSE "failed",
                           kind |-> "init", args |-> Nil, tx |-> Nil, seen |-> Nil]
          <5>2. log' = Append(log, e)
            BY <5>1 DEF init
          <5>3. e \in Entries /\ e.tx = Nil
            BY DEF Entries, Args, Seens, Commands, Verdicts
          <5> QED
            BY <5>2, <5>3
        <4>2. CASE AskFails
          <5> DEFINE e == [verdict |-> "failed", kind |-> cmd.kind, args |-> Nil,
                           tx |-> Nil, seen |-> Nil]
          <5>1. log' = Append(log, e)
            BY <4>2 DEF AskFails
          <5>2. e \in Entries /\ e.tx = Nil
            BY <1>1 DEF Entries, Args, Seens, Cmds, Verdicts
          <5> QED
            BY <5>1, <5>2
        <4> QED
          BY <2>1, <4>1, <4>2
      <3>2. cmd' = cmd \/ cmd' = Idle
        BY <2>1 DEF init, AskFails
      <3> QED
        BY <1>1, <3>1, <3>2, PassedLog
    <2>2. CASE \E kind, args, keypair : Open(kind, args, keypair)
      <3>1. cmd'.pc # "sign" /\ cmd'.tx = Nil /\ UNCHANGED log
        BY <2>2 DEF Open, Idle
      <3> QED
        BY <3>1, PassedKept
    <2>3. CASE Look
      BY <1>1, <2>3, PassedLook
    <2>4. CASE Sign
      BY <1>1, <2>4, PassedSign
    <2>5. CASE Send
      <3>1. CASE Tell("rejected")
        BY <1>1, <3>1, PassedTell DEF Verdicts
      <3>2. CASE cmd' = [cmd EXCEPT !.pc = "poll"] /\ UNCHANGED log
        <4>1. /\ cmd'.pc = "poll" /\ cmd'.kind = cmd.kind /\ cmd'.args = cmd.args
              /\ cmd'.tx = cmd.tx /\ cmd'.seen = cmd.seen
          BY <1>1, <3>2 DEF Cmds
        <4> QED
          BY <3>2, <4>1 DEF PassedInv, Passed, Units
      <3> QED
        BY <2>5, <3>1, <3>2 DEF Send
    <2>6. CASE SendUnanswered \/ PollFinds \/ PollTimesOut \/ PollFails
      <3>1. \E verdict \in Verdicts \ {"refused"} : Tell(verdict)
        BY <2>6 DEF SendUnanswered, PollFinds, PollTimesOut, PollFails, Verdicts
      <3> QED
        BY <1>1, <3>1, PassedTell
    <2>7. CASE StatusSlot \/ StatusVaults \/ StatusDetails
      <3>1. cmd.tx = Nil
        BY <1>1, <2>7 DEF CmdFits, StatusSlot, StatusVaults, StatusDetails
      <3>2. CASE cmd'.pc # "sign" /\ cmd'.tx = Nil /\ UNCHANGED log
        BY <3>2, PassedKept
      <3>3. CASE \E verdict \in {"not deployed", "fresh", "no price or stale"} : Tell(verdict)
        BY <1>1, <3>3, PassedTell DEF Verdicts
      <3> QED
        BY <1>1, <2>7, <3>1, <3>2, <3>3 DEF StatusSlot, StatusVaults, StatusDetails, Cmds
    <2>8. CASE \E tx \in mempool : Land(tx) \/ Expire(tx)
      BY <2>8 DEF Land, Expire, PassedInv
    <2> QED
      BY <1>2, <2>1, <2>2, <2>3, <2>4, <2>5, <2>6, <2>7, <2>8 DEF ForgeNext
  <1>3. CASE UNCHANGED <<cmd, log>>
    BY <1>3 DEF PassedInv
  <1> QED
    BY <1>2, <1>3 DEF DeskNext, Owner, Taker, Others, DeskTick, deskVars, forgeVars

\* holds at the beginning,
LEMMA InitPassed == DeskInit => PassedInv
  <1> SUFFICES ASSUME DeskInit PROVE PassedInv
    OBVIOUS
  <1>1. cmd = Idle /\ log = <<>> /\ 1..Len(log) = {}
    BY DEF DeskInit, ForgeInit
  <1> QED
    BY <1>1, IdleFits DEF PassedInv

\* and so always.
THEOREM ChecksInvariant == DeskSpec => []PassedInv
  <1>1. DeskInv /\ PassedInv /\ [DeskNext]_deskVars => PassedInv'
    BY PassedStep
  <1> QED
    BY <1>1, InitPassed, DeskInvariant, PTL DEF DeskSpec

\* A hop through an unmoved vault pays its quote.
LEMMA InvHop == DeskInv => HopPaysItsQuote
  <1> SUFFICES ASSUME DeskInv, route # NoRoute, route.venue = Amm, route.view = View,
                      is_fresh(quote_params, slot)
               PROVE  /\ ~vault.halted
                      /\ SwapAllowed(quote_params, treasury, route.request, slot)
                      /\ AmountOut(quote_params, route.request) = route.out
    BY DEF HopPaysItsQuote
  <1>1. /\ ~route.view.halted
        /\ SwapAllowed(route.view.params, route.view.inventory, route.request, route.clock)
        /\ AmountOut(route.view.params, route.request) = route.out
    BY DEF DeskInv, MarketFits, RouteFits
  <1>2. /\ route.view.params = quote_params /\ route.view.halted = vault.halted
        /\ route.view.inventory = treasury
    BY DEF View
  <1> QED
    BY <1>1, <1>2, TakenWhileFresh

\* What has passed, and finds the chain as it was, executes.
LEMMA InvChecked == DeskInv /\ PassedInv => CheckedIsExecutable
  <1> SUFFICES ASSUME DeskInv, PassedInv, NEW s \in Signed,
                      s.seen = SeenBy(s.kind, s.args), LeftToTheChain(s)
               PROVE  Executes(s.tx)
    BY InvHop DEF CheckedIsExecutable
  <1>1. Carries(s) /\ Ready(s) /\ (s.kind # "deploy" => Deployed) /\ OurPair
    BY SignedCarries DEF Carries, DeskInv
  <1>2. Passed(s, s.tx.signer)
    <2>1. CASE s \in {log[i] : i \in {j \in 1..Len(log) : log[j].tx # Nil}}
      BY <2>1 DEF PassedInv
    <2>2. CASE /\ cmd.tx # Nil
               /\ s = [verdict |-> "running", kind |-> cmd.kind, args |-> cmd.args,
                       tx |-> cmd.tx, seen |-> cmd.seen]
      <3>1. s.kind = cmd.kind /\ s.args = cmd.args /\ s.tx = cmd.tx /\ s.seen = cmd.seen
        BY <2>2
      <3> QED
        BY <2>2, <3>1 DEF PassedInv, Passed, Units
    <2> QED
      BY <2>1, <2>2 DEF Signed
  <1>3. s.tx.ix.op = s.kind /\ s.kind \in Signing
    BY <1>1 DEF Carries, Ready
  <1>4. CASE s.kind = "deploy"
    <2>1. vault.owner = DefaultKey
      BY <1>2, <1>4 DEF Passed, SeenBy
    <2> QED
      BY <1>3, <1>4, <2>1 DEF Executes, Deployed, LeftToTheChain
  <1>5. CASE s.kind = "fund"
    <2>1. s.tx.ix.side = s.args.side /\ s.tx.ix.amount = Units(s) /\ s.tx.signer = OwnerKey
      BY <1>1, <1>5 DEF Carries, Units
    <2>2. wallet[s.args.side] >= Units(s) /\ Units(s) > 0
      <3>1. s.seen[2] = wallet[s.args.side]
        BY <1>5 DEF SeenBy
      <3> QED
        BY <1>2, <1>5, <3>1 DEF Passed
    <2>3. ByOwner(s.tx.signer)
      BY <1>1, <1>5, <2>1 DEF ByOwner, OurPair
    <2> QED
      BY <1>3, <1>5, <2>1, <2>2, <2>3 DEF Executes, LeftToTheChain
  <1>6. CASE s.kind = "quote"
    <2>1. s.tx.ix.terms = summarize(s.args) /\ Acceptable(summarize(s.args))
      BY <1>1, <1>2, <1>6, SoundIsAcceptable DEF Carries, Passed
    <2>2. s.tx.signer = vault.pricing_authority /\ vault.halted = FALSE
      <3>1. s.seen = <<vault.pricing_authority, vault.halted>>
        BY <1>6 DEF SeenBy
      <3>2. s.seen = <<s.tx.signer, FALSE>>
        BY <1>2, <1>6 DEF Passed
      <3>3. s.seen[1] = vault.pricing_authority /\ s.seen[2] = vault.halted
        BY <3>1
      <3>4. s.seen[1] = s.tx.signer /\ s.seen[2] = FALSE
        BY <3>2
      <3> QED
        BY <3>3, <3>4
    <2> QED
      BY <1>1, <1>3, <1>6, <2>1, <2>2 DEF Executes, ByPricing
  <1>7. CASE s.kind = "clear"
    <2>1. s.tx.signer = vault.pricing_authority
      BY <1>2, <1>7 DEF Passed, SeenBy
    <2> QED
      BY <1>1, <1>3, <1>7, <2>1 DEF Executes, ByPricing
  <1> QED
    BY <1>3, <1>4, <1>5, <1>6, <1>7 DEF Signing

\* A check made off the chain is as good as the chain's own until the chain moves, for
\* commands and for hops.
THEOREM CheckedExecutable == DeskSpec => []CheckedIsExecutable
  BY DeskInvariant, ChecksInvariant, InvChecked, PTL

-----------------------------------------------------------------------------
(* The vault, among the people around it.                                   *)

\* The vault's part of a step.
LEMMA DeskChain == DeskInv /\ [DeskNext]_deskVars => IInv /\ [AnyStep]_vars
  BY ChainStep DEF DeskInv

\* The vault's own guarantees hold among its clients, who repeat, lose, delay and race
\* their instructions: the price in force is the authority's, whole, and told.
THEOREM DeskVault ==
    DeskSpec => [](PriceIsTheAuthoritys /\ PriceIsWhole /\ EventsTellTheState)
  <1>1. DeskInv => PriceIsTheAuthoritys /\ PriceIsWhole /\ EventsTellTheState
    BY DEF DeskInv, IInv
  <1> QED
    BY <1>1, DeskInvariant, PTL

\* So do those of its steps: no loss of worth at a standing price, no trade past the
\* owner's bound, none while halted.
THEOREM DeskSteps ==
    DeskSpec => WorthNeverFalls /\ TradingKeepsBalance /\ HaltFreezesTrading
  BY DeskChain, WorthStep, BalanceStep, HaltStep, DeskInvariant, PTL
     DEF DeskSpec, WorthNeverFalls, TradingKeepsBalance, HaltFreezesTrading

\* And it stays a book of one price: a price comes up only by the key in authority, not
\* while halted and dated with its slot, whatever instruction is executed, late, twice or
\* out of turn, and whoever else moves the vault.
THEOREM DeskIsABook ==
    DeskSpec => [][BookOf(QuoteUpdate, AgesOf(RiskLimits))!Next]_
                      (BookOf(QuoteUpdate, AgesOf(RiskLimits))!vars)
  <1>1. DeskInv /\ [DeskNext]_deskVars
            => [BookOf(QuoteUpdate, AgesOf(RiskLimits))!Next]_
                   (BookOf(QuoteUpdate, AgesOf(RiskLimits))!vars)
    <2>1. ASSUME IInv, [AnyStep]_vars
          PROVE  [BookOf(QuoteUpdate, AgesOf(RiskLimits))!Next]_
                     (BookOf(QuoteUpdate, AgesOf(RiskLimits))!vars)
      BY <2>1, BookStep DEF AnyStep
    <2> QED
      BY <2>1, DeskChain
  <1> QED
    BY <1>1, DeskInvariant, PTL DEF DeskSpec
=============================================================================
