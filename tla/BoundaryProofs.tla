---------------------------- MODULE BoundaryProofs ----------------------------
(***************************************************************************)
(* What Boundary promises, for any precision and scale of the column, any  *)
(* larger precision of Python's decimals, and any coefficients and         *)
(* exponents that clients write: what is accepted is what the column       *)
(* holds, a replay answers the request that was made, and a positive       *)
(* amount may be written in another way when it is retried.  The first two *)
(* hold as they stand of amounts the context can hold, and up to a         *)
(* rounding of longer ones.                                                *)
(*                                                                         *)
(* Most of it is arithmetic.  PowerOfTen is a recursive function, so that  *)
(* it is what its definition says is proved first, by induction; then what *)
(* the length of a coefficient and its trailing zeros are; then that       *)
(* counting digits, as pydantic does, is to compare with powers of ten, as *)
(* the column does; then how far rounding moves an amount, and that what   *)
(* passes the limits has been moved by less than half a last place, so     *)
(* that the fingerprint and the column round it back to the same number.   *)
(***************************************************************************)
EXTENDS Boundary, NaturalsInduction, WellFoundedInduction, TLAPS

----------------------------------------------------------------------------
(* Numbers.                                                                *)

\* Induction, with the set of the numbers that have the property.
LEMMA EveryNumber ==
    ASSUME NEW S, 0 \in S, \A n \in Nat : n \in S => n + 1 \in S
    PROVE  Nat \subseteq S
<1> DEFINE Missing == Nat \ S
<1> SUFFICES ASSUME Missing # {} PROVE FALSE
    OBVIOUS
<1>1. PICK m \in Missing : \A n \in Missing : ~(<<n, m>> \in OpToRel(<, Nat))
    BY WFMin, NatLessThanWellFounded
<1>2. m \in Nat /\ m # 0 /\ m \notin S
    BY <1>1
<1>3. m - 1 \in Nat /\ m - 1 < m /\ (m - 1) + 1 = m
    BY <1>2
<1>4. <<m - 1, m>> \in OpToRel(<, Nat)
    BY <1>2, <1>3 DEF OpToRel
<1>5. m - 1 \in S
    BY <1>1, <1>3, <1>4
<1> QED
    BY <1>2, <1>3, <1>5

LEMMA Division ==
    ASSUME NEW a \in Nat, NEW b \in Nat, b # 0
    PROVE  /\ a \div b \in Nat /\ a % b \in Nat /\ a % b < b
           /\ a = b * (a \div b) + (a % b)
OBVIOUS

LEMMA Products ==
    ASSUME NEW a \in Nat, NEW b \in Nat
    PROVE  /\ a * b \in Nat
           /\ b # 0 => a <= a * b
           /\ a # 0 /\ b # 0 => a * b # 0
OBVIOUS

\* Order survives a factor, and the factor can be taken away again.
LEMMA Factors ==
    ASSUME NEW a \in Nat, NEW b \in Nat, NEW k \in Nat, k # 0
    PROVE  /\ a < b <=> a * k < b * k
           /\ a = b <=> a * k = b * k
OBVIOUS

LEMMA Regrouped ==
    ASSUME NEW a \in Nat, NEW b \in Nat, NEW c \in Nat
    PROVE  (a * b) * c = a * (b * c) /\ a * b = b * a
OBVIOUS

LEMMA Divides ==
    ASSUME NEW a \in Nat, NEW b \in Nat, b # 0
    PROVE  a % b = 0 <=> \E q \in Nat : a = q * b
<1>1. ASSUME a % b = 0
      PROVE  \E q \in Nat : a = q * b
  <2>1. a \div b \in Nat /\ a = (a \div b) * b
      BY <1>1, Division
  <2> QED
      BY <2>1
<1>2. ASSUME NEW q \in Nat, a = q * b
      PROVE  a % b = 0
  <2> DEFINE d == a \div b
             r == a % b
  <2>1. d \in Nat /\ r \in Nat /\ r < b /\ a = b * d + r
      BY Division
  <2> HIDE DEF d, r
  <2>2. CASE q <= d
    <3>1. q * b <= d * b
        BY <2>1, <2>2
    <3> QED
        BY <1>2, <2>1, <3>1 DEF r
  <2>3. CASE q >= d + 1
    <3>1. q * b >= (d + 1) * b
        BY <2>1, <2>3
    <3>2. (d + 1) * b = b * d + b
        BY <2>1
    <3> QED
        BY <1>2, <2>1, <3>1, <3>2
  <2> QED
      BY <2>1, <2>2, <2>3
<1> QED
    BY <1>1, <1>2

----------------------------------------------------------------------------
(* Powers of ten.                                                          *)

Powers(f, S) == \A n \in S : f[n] = IF n = 0 THEN 1 ELSE 10 * f[n - 1]

LEMMA PowersUpTo ==
    ASSUME NEW n \in Nat
    PROVE  \E f \in [0..n -> Nat] : Powers(f, 0..n)
<1> DEFINE Solved == {m \in Nat : \E f \in [0..m -> Nat] : Powers(f, 0..m)}
<1>1. 0 \in Solved
  <2>1. [m \in 0..0 |-> 1] \in [0..0 -> Nat] /\ Powers([m \in 0..0 |-> 1], 0..0)
      BY DEF Powers
  <2> QED
      BY <2>1
<1>2. ASSUME NEW m \in Nat, m \in Solved
      PROVE  m + 1 \in Solved
  <2>1. PICK f \in [0..m -> Nat] : Powers(f, 0..m)
      BY <1>2
  <2> DEFINE g == [k \in 0..(m + 1) |-> IF k = m + 1 THEN 10 * f[m] ELSE f[k]]
  <2>2. f[m] \in Nat
      BY <2>1
  <2>3. g \in [0..(m + 1) -> Nat]
      BY <2>1, <2>2
  <2>4. Powers(g, 0..(m + 1))
    <3> SUFFICES ASSUME NEW k \in 0..(m + 1)
                 PROVE  g[k] = IF k = 0 THEN 1 ELSE 10 * g[k - 1]
        BY DEF Powers
    <3>1. CASE k = m + 1
        BY <3>1
    <3>2. CASE k # m + 1
      <4>1. k \in 0..m /\ g[k] = f[k] /\ (k # 0 => g[k - 1] = f[k - 1])
          BY <3>2
      <4> QED
          BY <2>1, <4>1 DEF Powers
    <3> QED
        BY <3>1, <3>2
  <2> HIDE DEF g
  <2> QED
      BY <2>3, <2>4
<1> HIDE DEF Solved
<1>3. n \in Solved
    BY <1>1, <1>2, EveryNumber
<1> QED
    BY <1>3 DEF Solved

LEMMA PowersAgree ==
    ASSUME NEW m \in Nat, NEW n \in Nat, NEW f, NEW g, Powers(f, 0..m), Powers(g, 0..n),
           NEW k \in 0..m, k \in 0..n
    PROVE  f[k] = g[k]
<1> DEFINE Agreed == {i \in Nat : i <= m /\ i <= n => f[i] = g[i]}
<1>1. 0 \in Agreed
    BY DEF Powers
<1>2. ASSUME NEW i \in Nat, i \in Agreed
      PROVE  i + 1 \in Agreed
  <2> SUFFICES ASSUME i + 1 <= m, i + 1 <= n PROVE f[i + 1] = g[i + 1]
      OBVIOUS
  <2>1. f[i] = g[i]
      BY <1>2
  <2>2. i + 1 \in 0..m /\ i + 1 \in 0..n /\ (i + 1) - 1 = i /\ i + 1 # 0
      OBVIOUS
  <2>3. f[i + 1] = 10 * f[i] /\ g[i + 1] = 10 * g[i]
      BY <2>2 DEF Powers
  <2> QED
      BY <2>1, <2>3
<1>3. k \in Agreed
  <2> HIDE DEF Agreed
  <2> QED
      BY <1>1, <1>2, EveryNumber
<1> QED
    BY <1>3

\* The recursion has a solution, so its definition is one.
LEMMA PowerEquation ==
    /\ PowerOfTen \in [Nat -> Nat]
    /\ \A n \in Nat : PowerOfTen[n] = IF n = 0 THEN 1 ELSE 10 * PowerOfTen[n - 1]
<1> DEFINE part(n) == CHOOSE f \in [0..n -> Nat] : Powers(f, 0..n)
           whole == [n \in Nat |-> part(n)[n]]
<1>1. \A n \in Nat : part(n) \in [0..n -> Nat] /\ Powers(part(n), 0..n)
    BY PowersUpTo
<1> HIDE DEF part
<1>2. whole \in [Nat -> Nat]
    BY <1>1
<1>3. ASSUME NEW n \in Nat
      PROVE  whole[n] = IF n = 0 THEN 1 ELSE 10 * whole[n - 1]
  <2>1. CASE n = 0
      BY <1>1, <2>1 DEF Powers
  <2>2. CASE n # 0
    <3>1. n - 1 \in Nat /\ n - 1 \in 0..n /\ n - 1 \in 0..(n - 1) /\ n \in 0..n
        BY <2>2
    <3>2. part(n)[n] = 10 * part(n)[n - 1]
        BY <1>1, <2>2, <3>1 DEF Powers
    <3>3. part(n)[n - 1] = part(n - 1)[n - 1]
        BY <1>1, <3>1, PowersAgree
    <3> QED
        BY <2>2, <3>1, <3>2, <3>3
  <2> QED
      BY <2>1, <2>2
<1>4. whole = [n \in Nat |-> IF n = 0 THEN 1 ELSE 10 * whole[n - 1]]
    BY <1>3
<1> HIDE DEF whole
<1>5. PowerOfTen = [n \in Nat |-> IF n = 0 THEN 1 ELSE 10 * PowerOfTen[n - 1]]
    BY <1>4 DEF PowerOfTen
<1>6. \A n \in Nat : PowerOfTen[n] = IF n = 0 THEN 1 ELSE 10 * PowerOfTen[n - 1]
    BY <1>5
<1>7. PowerOfTen \in [Nat -> Nat]
  <2> DEFINE Good == {n \in Nat : PowerOfTen[n] \in Nat}
  <2>1. 0 \in Good
      BY <1>6
  <2>2. \A n \in Nat : n \in Good => n + 1 \in Good
    <3> SUFFICES ASSUME NEW n \in Nat, PowerOfTen[n] \in Nat PROVE PowerOfTen[n + 1] \in Nat
        OBVIOUS
    <3>1. n + 1 \in Nat /\ n + 1 # 0 /\ (n + 1) - 1 = n
        OBVIOUS
    <3>2. PowerOfTen[n + 1] = 10 * PowerOfTen[n]
        BY <1>6, <3>1
    <3> QED
        BY <3>2
  <2>3. Nat \subseteq Good
    <3> HIDE DEF Good
    <3> QED
        BY <2>1, <2>2, EveryNumber
  <2>4. \A n \in Nat : PowerOfTen[n] \in Nat
      BY <2>3
  <2> QED
      BY <1>5, <2>4
<1> QED
    BY <1>6, <1>7

LEMMA PowerTimesTen ==
    /\ PowerOfTen[0] = 1
    /\ \A n \in Nat : PowerOfTen[n + 1] = 10 * PowerOfTen[n] /\ PowerOfTen[n] \in Nat
<1>1. \A n \in Nat : n + 1 \in Nat /\ n + 1 # 0 /\ (n + 1) - 1 = n
    OBVIOUS
<1> QED
    BY <1>1, PowerEquation

LEMMA PowerGrows ==
    ASSUME NEW n \in Nat
    PROVE  PowerOfTen[n] > n
<1> DEFINE Large == {m \in Nat : PowerOfTen[m] > m}
<1>1. 0 \in Large /\ \A m \in Nat : m \in Large => m + 1 \in Large
    BY PowerTimesTen
<1> HIDE DEF Large
<1>2. n \in Large
    BY <1>1, EveryNumber
<1> QED
    BY <1>2 DEF Large

LEMMA PowerSum ==
    ASSUME NEW m \in Nat, NEW n \in Nat
    PROVE  PowerOfTen[m + n] = PowerOfTen[m] * PowerOfTen[n]
<1> DEFINE Sums == {k \in Nat : PowerOfTen[m + k] = PowerOfTen[m] * PowerOfTen[k]}
<1>1. 0 \in Sums
    BY PowerTimesTen
<1>2. ASSUME NEW k \in Nat, k \in Sums
      PROVE  k + 1 \in Sums
  <2>1. m + (k + 1) = (m + k) + 1 /\ m + k \in Nat
      OBVIOUS
  <2>2. PowerOfTen[m + (k + 1)] = 10 * (PowerOfTen[m] * PowerOfTen[k])
      BY <1>2, <2>1, PowerTimesTen
  <2>3. PowerOfTen[k + 1] = 10 * PowerOfTen[k] /\ PowerOfTen[m] \in Nat /\ PowerOfTen[k] \in Nat
      BY PowerTimesTen
  <2>4. 10 * (PowerOfTen[m] * PowerOfTen[k]) = PowerOfTen[m] * (10 * PowerOfTen[k])
      BY <2>3
  <2> QED
      BY <2>2, <2>3, <2>4
<1> HIDE DEF Sums
<1>3. n \in Sums
    BY <1>1, <1>2, EveryNumber
<1> QED
    BY <1>3 DEF Sums

LEMMA PowerOrder ==
    ASSUME NEW m \in Nat, NEW n \in Nat
    PROVE  m < n <=> PowerOfTen[m] < PowerOfTen[n]
<1>1. ASSUME NEW i \in Nat, NEW j \in Nat, i <= j
      PROVE  /\ PowerOfTen[i] <= PowerOfTen[j]
             /\ i # j => PowerOfTen[i] < PowerOfTen[j]
  <2>1. j - i \in Nat /\ i + (j - i) = j
      BY <1>1
  <2>2. PowerOfTen[j] = PowerOfTen[i] * PowerOfTen[j - i]
      BY <2>1, PowerSum
  <2>3. PowerOfTen[i] \in Nat /\ PowerOfTen[i] # 0 /\ PowerOfTen[j - i] \in Nat
        /\ PowerOfTen[j - i] > j - i /\ PowerOfTen[j - i] # 0
      BY <2>1, PowerTimesTen, PowerGrows
  <2>4. PowerOfTen[i] <= PowerOfTen[j]
      BY <2>2, <2>3, Products
  <2>5. CASE i # j
    <3>1. PowerOfTen[j - i] >= 2
        BY <2>1, <2>3, <2>5
    <3>2. PowerOfTen[i] * PowerOfTen[j - i] >= PowerOfTen[i] * 2
        BY <2>3, <3>1
    <3> QED
        BY <2>2, <2>3, <2>4, <3>2
  <2> QED
      BY <2>4, <2>5
<1>2. PowerOfTen[m] \in Nat /\ PowerOfTen[n] \in Nat
    BY PowerTimesTen
<1>3. CASE m < n
    BY <1>1, <1>3
<1>4. CASE n <= m
    BY <1>1, <1>2, <1>4
<1> QED
    BY <1>3, <1>4

----------------------------------------------------------------------------
(* Digits.                                                                 *)

\* A coefficient has a length, and lies between two powers of ten.
LEMMA LengthBounds ==
    ASSUME NEW c \in Nat
    PROVE  /\ Length(c) \in Nat \ {0}
           /\ c < PowerOfTen[Length(c)]
           /\ c # 0 => PowerOfTen[Length(c) - 1] <= c
           /\ c = 0 => Length(c) = 1
<1> DEFINE Fitting(n) == c < PowerOfTen[n] /\ (n = 1 \/ PowerOfTen[n - 1] <= c)
           Short == {i \in Nat : i <= c => PowerOfTen[i + 1] <= c}
<1>1. \E n \in 1..(c + 1) : Fitting(n)
  <2> SUFFICES ASSUME \A n \in 1..(c + 1) : ~Fitting(n) PROVE FALSE
      OBVIOUS
  <2>1. 0 \in Short
    <3>1. ~Fitting(1) /\ PowerOfTen[1] \in Nat
        BY PowerTimesTen
    <3> QED
        BY <3>1
  <2>2. ASSUME NEW i \in Nat, i \in Short
        PROVE  i + 1 \in Short
    <3> SUFFICES ASSUME i + 1 <= c PROVE PowerOfTen[(i + 1) + 1] <= c
        OBVIOUS
    <3>1. PowerOfTen[i + 1] <= c
        BY <2>2
    <3>2. (i + 1) + 1 \in 1..(c + 1) /\ ((i + 1) + 1) - 1 = i + 1 /\ (i + 1) + 1 # 1
        OBVIOUS
    <3>3. ~(c < PowerOfTen[(i + 1) + 1])
        BY <3>1, <3>2
    <3>4. PowerOfTen[(i + 1) + 1] \in Nat
        BY PowerTimesTen
    <3> QED
        BY <3>3, <3>4
  <2>3. c \in Short
    <3> HIDE DEF Short
    <3> QED
        BY <2>1, <2>2, EveryNumber
  <2>4. PowerOfTen[c + 1] > c + 1 /\ PowerOfTen[c + 1] \in Nat
      BY PowerGrows, PowerTimesTen
  <2> QED
      BY <2>3, <2>4
<1>2. Length(c) \in 1..(c + 1) /\ Fitting(Length(c))
    BY <1>1 DEF Length
<1>3. c # 0 => PowerOfTen[Length(c) - 1] <= c
    BY <1>2, PowerTimesTen
<1>4. c = 0 => Length(c) = 1
    BY <1>2
<1> QED
    BY <1>2, <1>3, <1>4

\* And there is no other length.
LEMMA LengthIs ==
    ASSUME NEW c \in Nat, c # 0, NEW n \in Nat, n # 0,
           PowerOfTen[n - 1] <= c, c < PowerOfTen[n]
    PROVE  Length(c) = n
<1> DEFINE m == Length(c)
<1>1. m \in Nat /\ m # 0 /\ PowerOfTen[m - 1] <= c /\ c < PowerOfTen[m]
    BY LengthBounds
<1> HIDE DEF m
<1>2. /\ m - 1 \in Nat /\ n - 1 \in Nat
      /\ PowerOfTen[m] \in Nat /\ PowerOfTen[n] \in Nat
      /\ PowerOfTen[m - 1] \in Nat /\ PowerOfTen[n - 1] \in Nat
    BY <1>1, PowerTimesTen
<1>3. m - 1 < n
    BY <1>1, <1>2, PowerOrder
<1>4. n - 1 < m
    BY <1>1, <1>2, PowerOrder
<1> QED
    BY <1>1, <1>3, <1>4 DEF m

\* A coefficient that is not zero is one without trailing zeros, times a
\* power of ten.
LEMMA ZerosFound ==
    ASSUME NEW c \in Nat, c # 0, NEW z, z = TrailingZeros(c), NEW q, q = c \div PowerOfTen[z]
    PROVE  /\ z \in Nat /\ z < Length(c)
           /\ q \in Nat /\ q # 0 /\ c = q * PowerOfTen[z]
           /\ ~ \E w \in Nat : q = w * 10
           /\ Length(q) = Length(c) - z
<1> DEFINE L == Length(c)
           Divided == {i \in Nat : i <= L + 1 => c % PowerOfTen[i] = 0}
<1>1. /\ L \in Nat /\ L # 0 /\ c < PowerOfTen[L] /\ PowerOfTen[L - 1] <= c
      /\ \A n \in Nat : PowerOfTen[n] \in Nat /\ PowerOfTen[n] # 0
    BY LengthBounds, PowerTimesTen, PowerGrows
<1> HIDE DEF L
<1>2. \E i \in 0..L : c % PowerOfTen[i] = 0 /\ c % PowerOfTen[i + 1] # 0
  <2> SUFFICES ASSUME \A i \in 0..L : c % PowerOfTen[i] = 0 => c % PowerOfTen[i + 1] = 0
               PROVE  FALSE
      OBVIOUS
  <2>1. 0 \in Divided
      BY PowerTimesTen
  <2>2. \A i \in Nat : i \in Divided => i + 1 \in Divided
      BY <1>1
  <2>3. L \in Divided
    <3> HIDE DEF Divided
    <3> QED
        BY <1>1, <2>1, <2>2, EveryNumber
  <2>4. c % PowerOfTen[L] = 0
      BY <1>1, <2>3
  <2>5. PICK w \in Nat : c = w * PowerOfTen[L]
      BY <1>1, <2>4, Divides
  <2>6. w # 0
      BY <1>1, <2>5
  <2>7. PowerOfTen[L] <= PowerOfTen[L] * w
      BY <1>1, <2>6, Products
  <2>8. PowerOfTen[L] * w = w * PowerOfTen[L]
      BY <1>1
  <2> QED
      BY <1>1, <2>5, <2>7, <2>8
<1>3. z \in 0..L /\ c % PowerOfTen[z] = 0 /\ c % PowerOfTen[z + 1] # 0
    BY <1>2 DEF TrailingZeros, L
<1>4. z \in Nat /\ PowerOfTen[z] \in Nat /\ PowerOfTen[z] # 0
    BY <1>1, <1>3
<1>5. q \in Nat /\ c = q * PowerOfTen[z]
  <2>1. q \in Nat /\ c = PowerOfTen[z] * q + 0
      BY <1>3, <1>4, Division
  <2> QED
      BY <1>4, <2>1
<1>6. q # 0
    BY <1>4, <1>5
<1>7. ASSUME NEW w \in Nat, q = w * 10
      PROVE  FALSE
  <2>1. PowerOfTen[z + 1] = 10 * PowerOfTen[z] /\ z + 1 \in Nat
      BY <1>4, PowerTimesTen
  <2>2. c = w * PowerOfTen[z + 1]
      BY <1>4, <1>5, <1>7, <2>1
  <2>3. PowerOfTen[z + 1] \in Nat /\ PowerOfTen[z + 1] # 0
      BY <1>1, <2>1
  <2>4. c % PowerOfTen[z + 1] = 0
      BY <2>2, <2>3, Divides
  <2> QED
      BY <1>3, <2>4
<1>8. z < L
  <2>1. PowerOfTen[z] <= PowerOfTen[z] * q
      BY <1>4, <1>5, <1>6, Products
  <2>2. PowerOfTen[z] <= c
      BY <1>4, <1>5, <2>1
  <2> QED
      BY <1>1, <1>4, <2>2, PowerOrder
<1>9. Length(q) = L - z
  <2> DEFINE n == L - z
  <2>1. n \in Nat /\ n # 0 /\ n - 1 \in Nat /\ n + z = L /\ (n - 1) + z = L - 1
      BY <1>1, <1>4, <1>8
  <2> HIDE DEF n
  <2>2. PowerOfTen[n] * PowerOfTen[z] = PowerOfTen[L]
        /\ PowerOfTen[n - 1] * PowerOfTen[z] = PowerOfTen[L - 1]
      BY <1>4, <2>1, PowerSum
  <2>3. q < PowerOfTen[n]
      BY <1>1, <1>4, <1>5, <2>1, <2>2, Factors
  <2>4. ~(q < PowerOfTen[n - 1])
      BY <1>1, <1>4, <1>5, <2>1, <2>2, Factors
  <2> QED
      BY <1>1, <1>5, <1>6, <2>1, <2>3, <2>4, LengthIs DEF n
<1> QED
    BY <1>4, <1>5, <1>6, <1>7, <1>8, <1>9 DEF L

----------------------------------------------------------------------------
(* Amounts.                                                                *)

Decimal == [kind : {"finite", "nan", "omitted"}, negative : BOOLEAN,
            coefficient : Nat, exponent : Int]

\* An amount that can be counted in units of the smallest exponent.
Countable(d) == d \in Decimal /\ Min(Exponent) <= d.exponent

LEMMA LeastExponent ==
    /\ Min(Exponent) \in Int
    /\ \A e \in Exponent : Min(Exponent) <= e
    /\ -DecimalPlaces - Min(Exponent) \in Nat
<1>1. Min(Exponent) \in Exponent /\ \A e \in Exponent : Min(Exponent) <= e
    BY SizesAssumption DEF Min
<1>2. DecimalPlaces <= -Min(Exponent)
  <2>1. PICK least \in Exponent : (\A e \in Exponent : least <= e) /\ DecimalPlaces <= -least
      BY SizesAssumption
  <2>2. least \in Int /\ Min(Exponent) \in Int /\ Min(Exponent) <= least /\ least <= Min(Exponent)
      BY <1>1, <2>1, SizesAssumption
  <2> QED
      BY <2>1, <2>2
<1>3. Min(Exponent) \in Int /\ DecimalPlaces \in Nat
    BY <1>1, SizesAssumption
<1> QED
    BY <1>1, <1>2, <1>3

LEMMA WrittenIsCountable ==
    ASSUME NEW c \in Call
    PROVE  Countable(Parsed(c)) /\ Countable(c.amount)
<1>1. Countable(Zero)
    BY LeastExponent, SizesAssumption DEF Countable, Decimal, Zero, Finite
<1>2. Countable(Special("nan")) /\ Countable(Special("omitted"))
    BY <1>1 DEF Special, Countable, Decimal, Zero, Finite
<1>3. \A n \in BOOLEAN, m \in Coefficient, e \in Exponent : Countable(Finite(n, m, e))
    BY LeastExponent, SizesAssumption DEF Countable, Decimal, Finite
<1>4. Countable(c.amount)
    BY <1>2, <1>3 DEF Call, Written
<1> QED
    BY <1>1, <1>4 DEF Parsed

LEMMA UnitsAreCounted ==
    ASSUME NEW d, Countable(d)
    PROVE  /\ Units(d) \in Nat /\ LastPlace \in Nat /\ LastPlace # 0
           /\ Units(d) = 0 <=> d.coefficient = 0
<1>1. d.coefficient \in Nat /\ d.exponent - Min(Exponent) \in Nat
    BY LeastExponent DEF Countable, Decimal
<1>2. /\ PowerOfTen[d.exponent - Min(Exponent)] \in Nat
      /\ PowerOfTen[d.exponent - Min(Exponent)] # 0
    BY <1>1, PowerTimesTen, PowerGrows
<1>3. LastPlace \in Nat /\ LastPlace # 0
    BY LeastExponent, PowerTimesTen, PowerGrows DEF LastPlace
<1> QED
    BY <1>1, <1>2, <1>3, Products DEF Units

LEMMA Larger ==
    ASSUME NEW m \in Int, NEW n \in Int
    PROVE  Max({m, n}) = IF m >= n THEN m ELSE n
<1>1. CASE m >= n
    BY <1>1 DEF Max
<1>2. CASE n > m
    BY <1>2 DEF Max
<1> QED
    BY <1>1, <1>2

\* The limits, one by one.
LEMMA FitsMeans ==
    ASSUME NEW d
    PROVE  Fits(d) <=>
               /\ \/ Digits(d) <= MaxDigits
                  \/ Digits(Normalized(d)) <= MaxDigits
               /\ \/ Decimals(d) <= DecimalPlaces
                  \/ Decimals(Normalized(d)) <= DecimalPlaces
               /\ \/ WholeDigits(d) <= MaxDigits - DecimalPlaces
                  \/ WholeDigits(Normalized(d)) <= MaxDigits - DecimalPlaces
BY DEF Fits

\* The digits of an amount are decimals and whole ones.
LEMMA DigitsAreCounted ==
    ASSUME NEW d \in Decimal
    PROVE  /\ Decimals(d) = IF d.exponent < 0 THEN -d.exponent ELSE 0
           /\ WholeDigits(d) = IF Length(d.coefficient) + d.exponent > 0
                               THEN Length(d.coefficient) + d.exponent ELSE 0
           /\ Digits(d) = Decimals(d) + WholeDigits(d)
<1>1. d.exponent \in Int /\ Length(d.coefficient) \in Nat \ {0}
    BY LengthBounds DEF Decimal
<1>2. Decimals(d) = IF d.exponent < 0 THEN -d.exponent ELSE 0
    BY DEF Decimals
<1>3. CASE d.exponent >= 0
    BY <1>1, <1>2, <1>3 DEF Digits, WholeDigits
<1>4. CASE d.exponent < 0
  <2>1. Digits(d) = IF Length(d.coefficient) >= -d.exponent
                    THEN Length(d.coefficient) ELSE -d.exponent
      BY <1>1, <1>2, <1>4, Larger DEF Digits
  <2> QED
      BY <1>1, <1>2, <1>4, <2>1 DEF WholeDigits
<1> QED
    BY <1>1, <1>3, <1>4

LEMMA WholeAndDecimal ==
    ASSUME NEW d \in Decimal
    PROVE  /\ Decimals(d) \in Nat /\ WholeDigits(d) \in Nat
           /\ Digits(d) = Decimals(d) + WholeDigits(d)
<1>1. d.exponent \in Int /\ Length(d.coefficient) \in Nat
    BY LengthBounds DEF Decimal
<1> QED
    BY <1>1, DigitsAreCounted

\* Stripping leaves the whole digits as they were, and drops decimals.
LEMMA StrippedIsSmallest ==
    ASSUME NEW d \in Decimal, d.coefficient # 0,
           NEW z, z = TrailingZeros(d.coefficient),
           NEW q, q = d.coefficient \div PowerOfTen[z],
           NEW n, n = Stripped(d)
    PROVE  /\ n \in Decimal /\ n.exponent = d.exponent + z /\ n.coefficient = q
           /\ WholeDigits(n) = WholeDigits(d)
           /\ Decimals(n) <= Decimals(d)
<1>1. d.coefficient \in Nat /\ d.exponent \in Int
    BY DEF Decimal
<1>2. z \in Nat /\ q \in Nat /\ Length(q) = Length(d.coefficient) - z
    BY <1>1, ZerosFound
<1>3. n = [d EXCEPT !.coefficient = q, !.exponent = d.exponent + z]
    BY DEF Stripped
<1>4. n = [kind |-> d.kind, negative |-> d.negative,
           coefficient |-> q, exponent |-> d.exponent + z]
    BY <1>3 DEF Decimal
<1>5. n \in Decimal /\ n.coefficient = q /\ n.exponent = d.exponent + z
    BY <1>1, <1>2, <1>4 DEF Decimal
<1>6. Length(d.coefficient) \in Nat
    BY <1>1, LengthBounds
<1>7. Length(q) + (d.exponent + z) = Length(d.coefficient) + d.exponent
    BY <1>1, <1>2, <1>6
<1>8. WholeDigits(n) = WholeDigits(d)
    BY <1>5, <1>7, DigitsAreCounted
<1>9. Decimals(n) <= Decimals(d)
    BY <1>1, <1>2, <1>5, DigitsAreCounted
<1> QED
    BY <1>5, <1>8, <1>9

\* Few enough decimals are left when the last place divides the amount.
LEMMA DecimalsMeanPlaces ==
    ASSUME NEW d, Countable(d), d.coefficient # 0
    PROVE  Decimals(Stripped(d)) <= DecimalPlaces <=> Units(d) % LastPlace = 0
<1> SUFFICES ASSUME NEW c, c = d.coefficient, NEW e, e = d.exponent,
                    NEW n, n = Stripped(d), NEW least, least = Min(Exponent)
             PROVE  Decimals(n) <= DecimalPlaces <=> Units(d) % LastPlace = 0
    OBVIOUS
<1>1. /\ d \in Decimal /\ c \in Nat /\ c # 0 /\ e \in Int
      /\ least \in Int /\ DecimalPlaces \in Nat
      /\ least <= e /\ -DecimalPlaces - least \in Nat
    BY LeastExponent, SizesAssumption DEF Countable, Decimal
<1>2. PICK q \in Nat, z \in Nat : /\ c = q * PowerOfTen[z]
                                  /\ ~ \E w \in Nat : q = w * 10
                                  /\ n \in Decimal /\ n.exponent = e + z
  <2>1. /\ TrailingZeros(c) \in Nat
        /\ c \div PowerOfTen[TrailingZeros(c)] \in Nat
        /\ c = (c \div PowerOfTen[TrailingZeros(c)]) * PowerOfTen[TrailingZeros(c)]
        /\ ~ \E w \in Nat : c \div PowerOfTen[TrailingZeros(c)] = w * 10
      BY <1>1, ZerosFound
  <2>2. n \in Decimal /\ n.exponent = e + TrailingZeros(c)
      BY <1>1, StrippedIsSmallest
  <2> QED
      BY <2>1, <2>2
<1>3. PICK k \in Nat, x \in Nat, y \in Nat :
          k = -DecimalPlaces - least /\ x = (e + z) - least /\ y = e - least /\ x = z + y
    BY <1>1
<1>4. x = z + y
    BY <1>3
<1>5. /\ \A i \in Nat : PowerOfTen[i] \in Nat /\ PowerOfTen[i] # 0
      /\ LastPlace = PowerOfTen[k]
    BY <1>3, PowerTimesTen, PowerGrows DEF LastPlace
<1>6. Units(d) = q * PowerOfTen[x]
  <2>1. PowerOfTen[x] = PowerOfTen[z] * PowerOfTen[y]
      BY <1>4, PowerSum
  <2>2. PowerOfTen[z] \in Nat /\ PowerOfTen[y] \in Nat
      BY <1>5
  <2>3. Units(d) = (q * PowerOfTen[z]) * PowerOfTen[y]
      BY <1>2, <1>3 DEF Units
  <2> QED
      BY <2>1, <2>2, <2>3, Regrouped
<1>7. Decimals(n) = IF e + z < 0 THEN -(e + z) ELSE 0
    BY <1>2, DigitsAreCounted
<1>8. Decimals(n) <= DecimalPlaces <=> k <= x
    BY <1>1, <1>3, <1>7
<1>9. CASE k <= x
  <2> DEFINE i == x - k
  <2>1. i \in Nat /\ i + k = x
      BY <1>9
  <2> HIDE DEF i
  <2>2. PowerOfTen[x] = PowerOfTen[i] * PowerOfTen[k]
      BY <2>1, PowerSum
  <2>3. PowerOfTen[i] \in Nat /\ PowerOfTen[k] \in Nat /\ PowerOfTen[k] # 0
      BY <1>5, <2>1
  <2>4. Units(d) = (q * PowerOfTen[i]) * PowerOfTen[k]
      BY <1>6, <2>2, <2>3, Regrouped
  <2>5. q * PowerOfTen[i] \in Nat /\ Units(d) \in Nat
      BY <2>3, <2>4
  <2>6. Units(d) % PowerOfTen[k] = 0
      BY <2>3, <2>4, <2>5, Divides
  <2> QED
      BY <1>5, <1>8, <1>9, <2>6
<1>10. CASE x < k
  <2> SUFFICES ASSUME Units(d) % PowerOfTen[k] = 0 PROVE FALSE
      BY <1>5, <1>8, <1>10
  <2>1. PowerOfTen[k] \in Nat /\ PowerOfTen[k] # 0 /\ Units(d) \in Nat
      BY <1>5, UnitsAreCounted
  <2>2. PICK w \in Nat : Units(d) = w * PowerOfTen[k]
      BY <2>1, Divides
  <2> DEFINE j == (k - x) - 1
  <2>3. j \in Nat /\ j + 1 \in Nat /\ (j + 1) + x = k
      BY <1>10
  <2> HIDE DEF j
  <2>4. PowerOfTen[k] = PowerOfTen[j + 1] * PowerOfTen[x]
      BY <2>3, PowerSum
  <2>5. /\ PowerOfTen[j + 1] = 10 * PowerOfTen[j]
        /\ PowerOfTen[j + 1] \in Nat /\ PowerOfTen[j] \in Nat
        /\ PowerOfTen[x] \in Nat /\ PowerOfTen[x] # 0
      BY <1>5, <2>3, PowerTimesTen
  <2> DEFINE v == w * PowerOfTen[j + 1]
  <2>6. v \in Nat
      BY <2>5
  <2>7. q * PowerOfTen[x] = v * PowerOfTen[x]
      BY <1>6, <2>2, <2>4, <2>5, Regrouped
  <2>8. q = v
    <3> HIDE DEF v
    <3> QED
        BY <2>5, <2>6, <2>7, Factors
  <2>9. q = (w * PowerOfTen[j]) * 10 /\ w * PowerOfTen[j] \in Nat
      BY <2>5, <2>8
  <2> QED
      BY <1>2, <2>9
<1> QED
    BY <1>9, <1>10

\* Few enough whole digits are there when the amount is small enough.
LEMMA WholeDigitsMeanSize ==
    ASSUME NEW d, Countable(d), d.coefficient # 0
    PROVE  WholeDigits(d) <= MaxDigits - DecimalPlaces <=>
               Units(d) < PowerOfTen[MaxDigits - DecimalPlaces - Min(Exponent)]
<1> SUFFICES ASSUME NEW c, c = d.coefficient, NEW L, L = Length(c),
                    NEW x, x = d.exponent - Min(Exponent),
                    NEW t, t = MaxDigits - DecimalPlaces - Min(Exponent)
             PROVE  WholeDigits(d) <= MaxDigits - DecimalPlaces <=> Units(d) < PowerOfTen[t]
    OBVIOUS
<1>1. /\ d \in Decimal /\ c \in Nat /\ c # 0 /\ d.exponent \in Int
      /\ Min(Exponent) \in Int /\ DecimalPlaces \in Nat /\ MaxDigits \in Nat
      /\ DecimalPlaces < MaxDigits /\ -DecimalPlaces - Min(Exponent) \in Nat
      /\ x \in Nat
    BY LeastExponent, SizesAssumption DEF Countable, Decimal
<1>2. t \in Nat
    BY <1>1
<1>3. /\ L \in Nat /\ L # 0 /\ L - 1 \in Nat
      /\ c < PowerOfTen[L] /\ PowerOfTen[L - 1] <= c
    BY <1>1, LengthBounds
<1>4. WholeDigits(d) <= MaxDigits - DecimalPlaces <=> L + x <= t
    BY <1>1, <1>3, DigitsAreCounted
<1>5. Units(d) = c * PowerOfTen[x] /\ Units(d) \in Nat
    BY UnitsAreCounted DEF Units
<1>6. /\ L + x \in Nat /\ (L - 1) + x \in Nat
      /\ PowerOfTen[L + x] = PowerOfTen[L] * PowerOfTen[x]
      /\ PowerOfTen[(L - 1) + x] = PowerOfTen[L - 1] * PowerOfTen[x]
  <2>1. x \in Nat /\ L \in Nat /\ L - 1 \in Nat
      BY <1>1, <1>3
  <2>2. PowerOfTen[L + x] = PowerOfTen[L] * PowerOfTen[x]
      BY <2>1, PowerSum
  <2>3. PowerOfTen[(L - 1) + x] = PowerOfTen[L - 1] * PowerOfTen[x]
      BY <2>1, PowerSum
  <2> QED
      BY <2>1, <2>2, <2>3
<1>7. /\ \A i \in Nat : PowerOfTen[i] \in Nat /\ PowerOfTen[i] # 0
    BY PowerTimesTen, PowerGrows
<1>8. /\ PowerOfTen[L] \in Nat /\ PowerOfTen[L - 1] \in Nat
      /\ PowerOfTen[x] \in Nat /\ PowerOfTen[x] # 0 /\ PowerOfTen[t] \in Nat
      /\ PowerOfTen[L + x] \in Nat /\ PowerOfTen[(L - 1) + x] \in Nat
    BY <1>1, <1>2, <1>3, <1>6, <1>7
<1>9. Units(d) < PowerOfTen[L + x]
    BY <1>1, <1>3, <1>5, <1>6, <1>8, Factors
<1>10. PowerOfTen[(L - 1) + x] <= Units(d)
    BY <1>1, <1>3, <1>5, <1>6, <1>8, Factors
<1>11. CASE L + x <= t
  <2>1. ~(PowerOfTen[t] < PowerOfTen[L + x])
      BY <1>2, <1>6, <1>11, PowerOrder
  <2> QED
      BY <1>4, <1>5, <1>8, <1>9, <1>11, <2>1
<1>12. CASE t < L + x
  <2>1. t <= (L - 1) + x
      BY <1>2, <1>3, <1>1, <1>12
  <2>2. ~(PowerOfTen[(L - 1) + x] < PowerOfTen[t])
      BY <1>2, <1>6, <2>1, PowerOrder
  <2>3. ~(Units(d) < PowerOfTen[t])
      BY <1>5, <1>8, <1>10, <2>2
  <2> QED
      BY <1>1, <1>2, <1>3, <1>4, <1>12, <2>3
<1> QED
    BY <1>1, <1>2, <1>3, <1>11, <1>12

----------------------------------------------------------------------------
(* Rounding.                                                               *)

Gap(u, v) == IF u < v THEN v - u ELSE u - v

Scaled(u, v, k) == Gap(u * k, v * k) = Gap(u, v) * k /\ Gap(u, v) \in Nat

LEMMA GapIsScaled ==
    ASSUME NEW u \in Nat, NEW v \in Nat, NEW k \in Nat
    PROVE  Scaled(u, v, k)
<1> SUFFICES Gap(u * k, v * k) = Gap(u, v) * k /\ Gap(u, v) \in Nat
    BY DEF Scaled
<1>1. CASE u < v
  <2>1. u * k <= v * k
      BY <1>1
  <2>2. v * k - u * k = (v - u) * k
      OBVIOUS
  <2> QED
      BY <1>1, <2>1, <2>2 DEF Gap
<1>2. CASE v <= u
  <2>1. v * k <= u * k
      BY <1>2
  <2>2. u * k - v * k = (u - v) * k
      OBVIOUS
  <2> QED
      BY <1>2, <2>1, <2>2 DEF Gap
<1> QED
    BY <1>1, <1>2

\* Two multiples of a unit are not both so near.
LEMMA NearIsOne ==
    ASSUME NEW a \in Nat, NEW u \in Nat, u # 0, NEW h \in Nat, NEW m \in Nat,
           2 * Gap(a, h * u) <= u, 2 * Gap(a, m * u) < u
    PROVE  h = m
<1> SUFFICES ASSUME NEW g \in Nat, g = h * u, NEW n \in Nat, n = m * u,
                    2 * Gap(a, g) <= u, 2 * Gap(a, n) < u
             PROVE  h = m
    BY Products
<1>1. ~(g >= n + u) /\ ~(n >= g + u)
    BY DEF Gap
<1>2. CASE h >= m + 1
  <2>1. h * u >= (m + 1) * u
      BY <1>2
  <2>2. (m + 1) * u = m * u + u
      OBVIOUS
  <2> QED
      BY <1>1, <2>1, <2>2
<1>3. CASE m >= h + 1
  <2>1. m * u >= (h + 1) * u
      BY <1>3
  <2>2. (h + 1) * u = h * u + u
      OBVIOUS
  <2> QED
      BY <1>1, <2>1, <2>2
<1> QED
    BY <1>2, <1>3

\* To round is to move by half a unit at most, to the only multiple that is
\* nearer than that, and below no multiple that the amount has reached.
Nearest(a, u, h) ==
    /\ h \in Nat
    /\ 2 * Gap(a, h * u) <= u
    /\ \A m \in Nat : 2 * Gap(a, m * u) < u => h = m
    /\ \A m \in Nat : m * u <= a => m <= h

LEMMA HalfEvenIsNearest ==
    ASSUME NEW a \in Nat, NEW u \in Nat, u # 0
    PROVE  Nearest(a, u, HalfEven(a, u))
<1> SUFFICES ASSUME NEW h, h = HalfEven(a, u), NEW q, q = a \div u, NEW r, r = a % u
             PROVE  Nearest(a, u, h)
    OBVIOUS
<1>1. q \in Nat /\ r \in Nat /\ r < u /\ a = u * q + r
    BY Division
<1>2. h = IF 2 * r > u \/ (2 * r = u /\ q % 2 = 1) THEN q + 1 ELSE q
    BY DEF HalfEven
<1>3. h \in Nat /\ q <= h /\ 2 * Gap(a, h * u) <= u
  <2>1. CASE h = q
    <3>1. 2 * r <= u
        BY <1>1, <1>2, <2>1
    <3>2. q * u = u * q /\ u * q \in Nat
        BY <1>1
    <3>3. h * u \in Nat /\ a = h * u + r
        BY <1>1, <2>1, <3>2
    <3> QED
        BY <1>1, <2>1, <3>1, <3>3 DEF Gap
  <2>2. CASE h = q + 1
    <3>1. 2 * r >= u
        BY <1>1, <1>2, <2>2
    <3>2. h * u = u * q + u /\ u * q \in Nat
        BY <1>1, <2>2
    <3>3. h * u - a = u - r /\ a < h * u
        BY <1>1, <3>2
    <3> QED
        BY <1>1, <2>2, <3>1, <3>3 DEF Gap
  <2> QED
      BY <1>2, <2>1, <2>2
<1>4. ASSUME NEW m \in Nat, 2 * Gap(a, m * u) < u
      PROVE  h = m
    BY <1>3, <1>4, NearIsOne
<1>5. ASSUME NEW m \in Nat, m * u <= a
      PROVE  m <= h
  <2> SUFFICES ASSUME m >= q + 1 PROVE FALSE
      BY <1>1, <1>3
  <2>1. m * u >= (q + 1) * u
      BY <1>1
  <2>2. (q + 1) * u = u * q + u
      BY <1>1
  <2> QED
      BY <1>1, <1>5, <2>1, <2>2
<1> QED
    BY <1>3, <1>4, <1>5 DEF Nearest

\* Two ways to say it.
LEMMA ApartIsGap ==
    ASSUME NEW u \in Nat, NEW v \in Nat
    PROVE  /\ PowerOfTen[Precision - 1] \in Nat
           /\ Apart(u, v) = 2 * PowerOfTen[Precision - 1] * Gap(u, v)
<1>1. Precision - 1 \in Nat
    BY SizesAssumption
<1> QED
    BY <1>1, PowerTimesTen DEF Apart, Gap

\* What the context leaves of an amount: nothing finer, nothing that was too
\* large before, and the amount itself where its digits were few enough.
LEMMA RoundedIsNear ==
    ASSUME NEW d, Countable(d), d.coefficient # 0, NEW r, r = Rounded(d)
    PROVE  /\ Countable(r) /\ r.coefficient # 0
           /\ Decimals(r) <= Decimals(d)
           /\ Apart(Units(d), Units(r)) <= Units(d)
           /\ ~TooLarge(Units(r)) => ~TooLarge(Units(d))
           /\ ~TooLarge(Units(d)) => 2 * Gap(Units(d), Units(r)) < LastPlace
           /\ Storable(d) \/ Exact(d) => Units(r) = Units(d)
<1> SUFFICES ASSUME NEW c, c = d.coefficient, NEW L, L = Length(c), NEW s, s = L - Precision,
                    NEW least, least = Min(Exponent), NEW x, x = d.exponent - least,
                    NEW t, t = MaxDigits - DecimalPlaces - least,
                    NEW k, k = -DecimalPlaces - least,
                    NEW p, p = Precision - 1,
                    NEW T, T = PowerOfTen[t], NEW K, K = PowerOfTen[k],
                    NEW X, X = PowerOfTen[x], NEW S, S = PowerOfTen[s],
                    NEW Q, Q = PowerOfTen[p], NEW h, h = HalfEven(c, S)
             PROVE  /\ Countable(r) /\ r.coefficient # 0
                    /\ Decimals(r) <= Decimals(d)
                    /\ Apart(Units(d), Units(r)) <= Units(d)
                    /\ ~TooLarge(Units(r)) => ~TooLarge(Units(d))
                    /\ ~TooLarge(Units(d)) => 2 * Gap(Units(d), Units(r)) < LastPlace
                    /\ Storable(d) \/ Exact(d) => Units(r) = Units(d)
    OBVIOUS
<1>1. /\ d \in Decimal /\ c \in Nat /\ c # 0 /\ d.exponent \in Int
      /\ least \in Int /\ DecimalPlaces \in Nat /\ MaxDigits \in Nat /\ Precision \in Nat
      /\ DecimalPlaces < MaxDigits /\ MaxDigits < Precision
      /\ x \in Nat /\ k \in Nat /\ t \in Nat /\ p \in Nat /\ t = k + MaxDigits
    BY LeastExponent, SizesAssumption DEF Countable, Decimal
<1>2. \A i \in Nat : PowerOfTen[i] \in Nat /\ PowerOfTen[i] # 0
    BY PowerTimesTen, PowerGrows
<1>3. /\ L \in Nat /\ L # 0 /\ L - 1 \in Nat
      /\ c < PowerOfTen[L] /\ PowerOfTen[L - 1] <= c
    BY <1>1, LengthBounds
<1>4. /\ T \in Nat /\ K \in Nat /\ X \in Nat /\ X # 0
      /\ Units(d) = c * X /\ Units(d) \in Nat /\ LastPlace = K /\ K # 0
    BY <1>1, <1>2, UnitsAreCounted DEF Units, LastPlace
<1>5. \A u : TooLarge(u) <=> u >= T
    BY DEF TooLarge
<1>6. CASE s <= 0
  <2>1. r = d
      BY <1>6 DEF Rounded
  <2>2. Gap(Units(d), Units(d)) = 0
      BY <1>4 DEF Gap
  <2>3. Apart(Units(d), Units(d)) = 0
      BY <1>4, <2>2, ApartIsGap
  <2>4. Decimals(d) <= Decimals(d)
      BY <1>1, DigitsAreCounted
  <2> QED
      BY <1>1, <1>4, <2>1, <2>2, <2>3, <2>4
<1>7. CASE s > 0
  <2>1. /\ s \in Nat /\ p + s = L - 1 /\ S \in Nat /\ S # 0 /\ Q \in Nat /\ Q # 0
        /\ x + s \in Nat /\ L + x \in Nat /\ (L - 1) + x \in Nat
        /\ p + (x + s) = (L - 1) + x
      BY <1>1, <1>2, <1>3, <1>7
  <2>2. Nearest(c, S, h) /\ h \in Nat
    <3>1. Nearest(c, S, HalfEven(c, S))
        BY <1>1, <2>1, HalfEvenIsNearest
    <3> QED
        BY <3>1 DEF Nearest
  <2>3. Q * S <= c
    <3>1. PowerOfTen[p + s] = Q * S
        BY <1>1, <2>1, PowerSum
    <3> QED
        BY <1>3, <2>1, <3>1
  <2>4. Q <= h
      BY <2>1, <2>2, <2>3 DEF Nearest
  <2>5. r = [d EXCEPT !.coefficient = h, !.exponent = d.exponent + s]
      BY <1>1, <1>3, <1>7 DEF Rounded
  <2>6. /\ r \in Decimal /\ r.coefficient = h /\ r.exponent = d.exponent + s
        /\ Countable(r) /\ h # 0
    <3>1. r = [kind |-> d.kind, negative |-> d.negative,
               coefficient |-> h, exponent |-> d.exponent + s]
        BY <1>1, <2>5 DEF Decimal
    <3>2. r \in Decimal /\ r.coefficient = h /\ r.exponent = d.exponent + s
        BY <1>1, <2>1, <2>2, <3>1 DEF Decimal
    <3> QED
        BY <1>1, <2>1, <2>2, <2>4, <3>2 DEF Countable
  <2>7. Decimals(r) <= Decimals(d)
      BY <1>1, <2>1, <2>6, DigitsAreCounted
  <2>8. PowerOfTen[x + s] = S * X /\ S * X \in Nat
    <3>1. x \in Nat /\ s \in Nat
        BY <1>1, <2>1
    <3>2. PowerOfTen[x + s] = X * S
        BY <3>1, PowerSum
    <3> QED
        BY <1>4, <2>1, <3>2
  <2>9. Units(r) = (h * S) * X /\ Units(r) \in Nat /\ h * S \in Nat
    <3>1. r.exponent - least = x + s
        BY <1>1, <2>1, <2>6
    <3>2. Units(r) = h * (S * X)
        BY <2>6, <2>8, <3>1 DEF Units
    <3> QED
        BY <1>4, <2>1, <2>2, <3>2, Regrouped
  <2>10. PICK g \in Nat : /\ g = Gap(c, h * S) /\ 2 * g <= S
                          /\ Gap(Units(d), Units(r)) = g * X
    <3>1. PICK w \in Nat : w = h * S
        BY <2>9
    <3>2. Gap(c * X, w * X) = Gap(c, w) * X /\ Gap(c, w) \in Nat
      <4>1. c \in Nat /\ w \in Nat /\ X \in Nat
          BY <1>1, <1>4, <3>1
      <4>2. Scaled(c, w, X)
          BY <4>1, GapIsScaled
      <4> QED
          BY <4>2 DEF Scaled
    <3>3. 2 * Gap(c, w) <= S
        BY <2>2, <3>1 DEF Nearest
    <3> QED
        BY <1>4, <2>9, <3>1, <3>2, <3>3
  <2>11. 2 * (g * X) <= S * X
    <3>1. (2 * g) * X <= S * X
        BY <1>4, <2>1, <2>10
    <3> QED
        BY <1>4, <2>10, <3>1
  <2>12. Apart(Units(d), Units(r)) <= Units(d)
    <3>1. Apart(Units(d), Units(r)) = 2 * Q * (g * X)
        BY <1>4, <2>9, <2>10, ApartIsGap
    <3>2. Q * (2 * g) <= Q * S /\ Q * S \in Nat
        BY <2>1, <2>10
    <3>3. PICK w \in Nat : w = Q * (2 * g) /\ w <= c
        BY <1>1, <2>1, <2>3, <2>10, <3>2
    <3>4. w * X <= c * X
        BY <1>1, <1>4, <3>3
    <3>5. 2 * Q * (g * X) = w * X
        BY <1>4, <2>1, <2>10, <3>3
    <3> QED
        BY <1>4, <3>1, <3>4, <3>5
  <2>13. ~TooLarge(Units(r)) => ~TooLarge(Units(d))
    <3> SUFFICES ASSUME Units(d) >= T PROVE Units(r) >= T
        BY <1>4, <1>5, <2>9
    <3>1. PowerOfTen[L + x] = PowerOfTen[L] * X /\ PowerOfTen[L] \in Nat
        BY <1>1, <1>2, <1>3, PowerSum
    <3>2. Units(d) < PowerOfTen[L + x] /\ PowerOfTen[L + x] \in Nat
        BY <1>1, <1>3, <1>4, <3>1, Factors
    <3>3. T < PowerOfTen[L + x]
        BY <1>4, <3>2
    <3>4. t < L + x
        BY <1>1, <2>1, <3>3, PowerOrder
    <3>5. ~(PowerOfTen[(L - 1) + x] < T)
      <4>1. ~((L - 1) + x < t)
          BY <1>1, <1>3, <3>4
      <4> QED
          BY <1>1, <2>1, <4>1, PowerOrder
    <3>6. PowerOfTen[(L - 1) + x] = Q * (S * X)
      <4>1. PowerOfTen[p + (x + s)] = PowerOfTen[p] * PowerOfTen[x + s]
          BY <1>1, <2>1, PowerSum
      <4> QED
          BY <2>1, <2>8, <4>1
    <3>7. Q * (S * X) <= h * (S * X)
        BY <2>1, <2>2, <2>4, <2>8
    <3>8. h * (S * X) = Units(r)
        BY <1>4, <2>1, <2>2, <2>9, Regrouped
    <3>9. Q * (S * X) \in Nat
        BY <2>1, <2>8
    <3> QED
        BY <1>4, <2>9, <3>5, <3>6, <3>7, <3>8, <3>9
  <2>14. ASSUME ~TooLarge(Units(d)) PROVE x + s < k
    <3>1. PowerOfTen[(L - 1) + x] = PowerOfTen[L - 1] * X /\ PowerOfTen[L - 1] \in Nat
        BY <1>1, <1>2, <1>3, PowerSum
    <3>2. PowerOfTen[L - 1] * X <= Units(d)
        BY <1>1, <1>3, <1>4, <3>1
    <3>3. Units(d) < T
        BY <1>4, <1>5, <2>14
    <3>4. PowerOfTen[(L - 1) + x] < T
        BY <1>2, <1>4, <2>1, <3>1, <3>2, <3>3
    <3>5. (L - 1) + x < t
        BY <1>1, <2>1, <3>4, PowerOrder
    <3> QED
        BY <1>1, <1>3, <2>1, <3>5
  <2>15. ~TooLarge(Units(d)) => 2 * Gap(Units(d), Units(r)) < LastPlace
    <3> SUFFICES ASSUME ~TooLarge(Units(d)) PROVE 2 * (g * X) < K
        BY <1>4, <2>10
    <3>1. S * X < K
        BY <1>1, <2>1, <2>8, <2>14, PowerOrder
    <3> QED
        BY <1>4, <2>8, <2>10, <2>11, <3>1
  <2>16. ASSUME NEW w \in Nat, c = w * S PROVE Units(r) = Units(d)
    <3>1. 2 * Gap(c, w * S) < S
        BY <1>1, <2>1, <2>16 DEF Gap
    <3>2. h = w
        BY <2>2, <2>16, <3>1 DEF Nearest
    <3> QED
        BY <1>4, <2>9, <2>16, <3>2
  <2>17. ASSUME Exact(d) PROVE Units(r) = Units(d)
    <3> DEFINE z == TrailingZeros(c)
               q == c \div PowerOfTen[z]
    <3>1. z \in Nat /\ q \in Nat /\ c = q * PowerOfTen[z]
        BY <1>1, ZerosFound
    <3>2. L - z <= Precision
        BY <1>1, <2>17 DEF Exact
    <3> HIDE DEF z, q
    <3>3. PICK i \in Nat : i + s = z
      <4>1. z - s \in Nat /\ (z - s) + s = z
          BY <1>1, <1>3, <2>1, <3>1, <3>2
      <4> QED
          BY <4>1
    <3>4. PowerOfTen[z] = PowerOfTen[i] * S /\ PowerOfTen[i] \in Nat
        BY <1>2, <2>1, <3>3, PowerSum
    <3>5. c = (q * PowerOfTen[i]) * S /\ q * PowerOfTen[i] \in Nat
        BY <2>1, <3>1, <3>4, Regrouped
    <3> QED
        BY <2>16, <3>5
  <2>18. ASSUME Storable(d) PROVE Units(r) = Units(d)
    <3>1. x + s < k /\ Units(d) % K = 0
        BY <1>4, <2>14, <2>18 DEF Storable
    <3>2. PICK m \in Nat : c * X = m * K
      <4>1. \E m \in Nat : Units(d) = m * K
          BY <1>4, <3>1, Divides
      <4> QED
          BY <1>4, <4>1
    <3>3. PICK i \in Nat : i + (x + s) = k
      <4>1. k - (x + s) \in Nat /\ (k - (x + s)) + (x + s) = k
          BY <1>1, <2>1, <3>1
      <4> QED
          BY <4>1
    <3>4. K = PowerOfTen[i] * (S * X) /\ PowerOfTen[i] \in Nat
      <4>1. PowerOfTen[i + (x + s)] = PowerOfTen[i] * PowerOfTen[x + s]
          BY <2>1, PowerSum
      <4> QED
          BY <1>2, <2>8, <3>3, <4>1
    <3>5. PICK w \in Nat : w = m * PowerOfTen[i]
        BY <3>4
    <3>6. m * K = w * (S * X)
        BY <2>8, <3>4, <3>5, Regrouped
    <3>7. w * (S * X) = (w * S) * X /\ w * S \in Nat
      <4>1. w \in Nat /\ S \in Nat /\ X \in Nat
          BY <1>4, <2>1, <3>5
      <4> QED
          BY <4>1, Regrouped, Products
    <3>8. c * X = (w * S) * X
        BY <3>2, <3>6, <3>7
    <3>9. c = w * S
      <4>1. PICK v \in Nat : v = w * S
          BY <3>7
      <4>2. c * X = v * X /\ c \in Nat /\ v \in Nat /\ X \in Nat /\ X # 0
          BY <1>1, <1>4, <3>8, <4>1
      <4>3. c = v
          BY <4>2, Factors
      <4> QED
          BY <4>1, <4>3
    <3> QED
        BY <2>16, <3>5, <3>9
  <2> QED
      BY <2>6, <2>7, <2>12, <2>13, <2>15, <2>17, <2>18
<1> QED
    BY <1>1, <1>3, <1>6, <1>7

----------------------------------------------------------------------------
(* What is accepted.                                                       *)

LEMMA SizeMeans ==
    ASSUME NEW d, Countable(d), d.coefficient # 0
    PROVE  WholeDigits(d) <= MaxDigits - DecimalPlaces <=> ~TooLarge(Units(d))
<1>1. MaxDigits - DecimalPlaces - Min(Exponent) \in Nat
    BY LeastExponent, SizesAssumption
<1>2. PowerOfTen[MaxDigits - DecimalPlaces - Min(Exponent)] \in Nat
    BY <1>1, PowerTimesTen
<1> QED
    BY <1>2, WholeDigitsMeanSize, UnitsAreCounted DEF TooLarge

LEMMA ZeroFits ==
    ASSUME NEW d, Countable(d), d.coefficient = 0
    PROVE  Fits(d) /\ Units(d) = 0 /\ Storable(d)
<1>1. /\ d \in Decimal /\ d.coefficient \in Nat /\ d.exponent \in Int
      /\ DecimalPlaces \in Nat /\ MaxDigits \in Nat /\ DecimalPlaces < MaxDigits
      /\ Precision \in Nat /\ MaxDigits < Precision
      /\ Min(Exponent) \in Int /\ -DecimalPlaces - Min(Exponent) \in Nat
    BY LeastExponent, SizesAssumption DEF Countable, Decimal
<1>2. Length(0) = 1
    BY LengthBounds
<1>3. Rounded(d) = d
    BY <1>1, <1>2 DEF Rounded
<1> SUFFICES ASSUME NEW n, n = Normalized(d)
             PROVE  Fits(d) /\ Units(d) = 0 /\ Storable(d)
    OBVIOUS
<1>4. n = [kind |-> d.kind, negative |-> d.negative, coefficient |-> 0, exponent |-> 0]
    BY <1>1, <1>3 DEF Normalized, Stripped, Decimal
<1>5. n \in Decimal /\ n.coefficient = 0 /\ n.exponent = 0
    BY <1>1, <1>4 DEF Decimal
<1>6. Decimals(n) = 0 /\ WholeDigits(n) = 1 /\ Digits(n) = 1
    BY <1>2, <1>5, DigitsAreCounted
<1>7. Fits(d)
    BY <1>1, <1>6, FitsMeans
<1>8. Units(d) = 0 /\ LastPlace \in Nat /\ LastPlace # 0
    BY UnitsAreCounted
<1>9. Units(d) % LastPlace = 0
  <2>1. 0 = 0 * LastPlace
      BY <1>8
  <2> QED
      BY <1>8, <2>1, Divides
<1>10. MaxDigits - DecimalPlaces - Min(Exponent) \in Nat
    BY <1>1
<1>11. ~TooLarge(0)
    BY <1>10, PowerGrows, PowerTimesTen DEF TooLarge
<1> QED
    BY <1>7, <1>8, <1>9, <1>11 DEF Storable

\* A multiple of the last place is stored as it is, and so is what is nearer
\* to one than half of it.
LEMMA StoredIsNearest ==
    ASSUME NEW d, Countable(d), NEW u \in Nat, u % LastPlace = 0,
           2 * Gap(Units(d), u) < LastPlace
    PROVE  Stored(d) = u
<1>1. Units(d) \in Nat /\ LastPlace \in Nat /\ LastPlace # 0
    BY UnitsAreCounted
<1>2. PICK m \in Nat : u = m * LastPlace
    BY <1>1, Divides
<1>3. Nearest(Units(d), LastPlace, HalfEven(Units(d), LastPlace))
    BY <1>1, HalfEvenIsNearest
<1>4. HalfEven(Units(d), LastPlace) = m
    BY <1>2, <1>3 DEF Nearest
<1> QED
    BY <1>1, <1>2, <1>4 DEF Stored

LEMMA StorableIsStored ==
    ASSUME NEW d, Countable(d), Storable(d)
    PROVE  Stored(d) = Units(d)
<1>1. Units(d) \in Nat /\ LastPlace \in Nat /\ LastPlace # 0
    BY UnitsAreCounted
<1>2. 2 * Gap(Units(d), Units(d)) < LastPlace
    BY <1>1 DEF Gap
<1> QED
    BY <1>1, <1>2, StoredIsNearest DEF Storable

\* Counting digits, as written or as normalised and one limit at a time, is
\* comparing with powers of ten, and rounding to the precision.
LEMMA WhatFits ==
    ASSUME NEW d, Countable(d)
    PROVE  /\ Storable(d) => Fits(d)
           /\ Fits(d) => /\ ~TooLarge(Units(d))
                         /\ Exact(d) => Storable(d)
                         /\ Apart(Units(d), Stored(d)) <= Units(d)
<1>1. /\ d \in Decimal /\ d.coefficient \in Nat
      /\ DecimalPlaces \in Nat /\ MaxDigits \in Nat /\ DecimalPlaces < MaxDigits
      /\ Units(d) \in Nat
    BY SizesAssumption, UnitsAreCounted DEF Countable, Decimal
<1>2. CASE d.coefficient = 0
  <2>1. Fits(d) /\ Units(d) = 0 /\ Storable(d)
      BY <1>2, ZeroFits
  <2>2. Stored(d) = 0
      BY <2>1, StorableIsStored
  <2>3. Gap(0, 0) = 0
      BY DEF Gap
  <2>4. Apart(0, 0) = 0
      BY <2>3, ApartIsGap
  <2> QED
      BY <2>1, <2>2, <2>4 DEF Storable
<1>3. CASE d.coefficient # 0
  <2> SUFFICES ASSUME NEW r, r = Rounded(d), NEW n, n = Stripped(r)
               PROVE  /\ Storable(d) => Fits(d)
                      /\ Fits(d) => /\ ~TooLarge(Units(d))
                                    /\ Exact(d) => Storable(d)
                                    /\ Apart(Units(d), Stored(d)) <= Units(d)
      OBVIOUS
  <2>1. /\ Countable(r) /\ r.coefficient # 0
        /\ Decimals(r) <= Decimals(d)
        /\ Apart(Units(d), Units(r)) <= Units(d)
        /\ ~TooLarge(Units(r)) => ~TooLarge(Units(d))
        /\ ~TooLarge(Units(d)) => 2 * Gap(Units(d), Units(r)) < LastPlace
        /\ Storable(d) \/ Exact(d) => Units(r) = Units(d)
      BY <1>3, RoundedIsNear
  <2>2. r \in Decimal /\ Units(r) \in Nat
      BY <2>1, UnitsAreCounted DEF Countable
  <2>3. n \in Decimal /\ WholeDigits(n) = WholeDigits(r) /\ Decimals(n) <= Decimals(r)
      BY <2>1, <2>2, StrippedIsSmallest
  <2>4. /\ Digits(d) = Decimals(d) + WholeDigits(d) /\ Digits(n) = Decimals(n) + WholeDigits(n)
        /\ Decimals(d) \in Nat /\ Decimals(n) \in Nat
        /\ WholeDigits(d) \in Nat /\ WholeDigits(n) \in Nat
      BY <1>1, <2>3, WholeAndDecimal
  <2>5. /\ WholeDigits(d) <= MaxDigits - DecimalPlaces <=> ~TooLarge(Units(d))
        /\ WholeDigits(n) <= MaxDigits - DecimalPlaces <=> ~TooLarge(Units(r))
      BY <1>3, <2>1, <2>3, SizeMeans
  <2>6. Decimals(n) <= DecimalPlaces <=> Units(r) % LastPlace = 0
      BY <2>1, DecimalsMeanPlaces
  <2>7. n = Normalized(d)
      BY DEF Normalized
  <2>8. Fits(d) => ~TooLarge(Units(d)) /\ Units(r) % LastPlace = 0
    <3>1. Decimals(r) \in Nat
        BY <2>2, WholeAndDecimal
    <3> QED
        BY <1>1, <2>1, <2>3, <2>4, <2>5, <2>6, <2>7, <3>1, FitsMeans
  <2>9. ASSUME Storable(d) PROVE Fits(d)
    <3>1. Units(r) = Units(d) /\ ~TooLarge(Units(d)) /\ Units(r) % LastPlace = 0
        BY <2>1, <2>9 DEF Storable
    <3>2. Decimals(n) <= DecimalPlaces /\ WholeDigits(n) <= MaxDigits - DecimalPlaces
        BY <2>5, <2>6, <3>1
    <3>3. Digits(n) <= MaxDigits
        BY <1>1, <2>4, <3>2
    <3> QED
        BY <2>7, <3>2, <3>3, FitsMeans
  <2>10. ASSUME Fits(d) PROVE Apart(Units(d), Stored(d)) <= Units(d)
    <3>1. Stored(d) = Units(r)
        BY <2>1, <2>2, <2>8, <2>10, StoredIsNearest
    <3> QED
        BY <2>1, <3>1
  <2> QED
      BY <2>1, <2>8, <2>9, <2>10 DEF Storable
<1> QED
    BY <1>2, <1>3

Meaningful(c, d) ==
    /\ ~c.extra
    /\ d.kind = "finite"
    /\ IF c.operation = "create_transfer" THEN ~d.negative /\ Units(d) > 0
                                          ELSE d.negative => Units(d) = 0

LEMMA AcceptedMeans ==
    ASSUME NEW c \in Call, NEW d, d = Parsed(c)
    PROVE  Accepted(c) <=> Meaningful(c, d) /\ Fits(d)
<1> SUFFICES Accepted(c) <=>
                 /\ ~c.extra
                 /\ d.kind = "finite"
                 /\ Fits(d)
                 /\ IF c.operation = "create_transfer" THEN ~d.negative /\ Units(d) > 0
                                                       ELSE d.negative => Units(d) = 0
    BY DEF Meaningful
<1>1. Countable(d) /\ d.coefficient \in Nat
    BY WrittenIsCountable DEF Countable, Decimal
<1>2. (Units(d) = 0 <=> d.coefficient = 0) /\ Units(d) \in Nat
    BY <1>1, UnitsAreCounted
<1>3. c.operation = "create_transfer" \/ c.operation = "create_account"
    BY DEF Call
<1>4. CASE c.operation = "create_transfer"
  <2>1. Accepted(c) <=> ~c.extra /\ PositiveMoney(d)
      BY <1>4 DEF Accepted
  <2>2. d.coefficient > 0 <=> Units(d) > 0
      BY <1>1, <1>2
  <2> QED
      BY <1>2, <1>4, <2>1, <2>2 DEF PositiveMoney
<1>5. CASE c.operation = "create_account"
  <2>1. Accepted(c) <=> ~c.extra /\ NonNegativeMoney(d)
      BY <1>5 DEF Accepted
  <2> QED
      BY <1>2, <1>5, <2>1 DEF NonNegativeMoney
<1> QED
    BY <1>3, <1>4, <1>5

\* Two amounts that are stored alike are as near as their roundings are.
LEMMA StoredAlike ==
    ASSUME NEW d, NEW e, Countable(d), Countable(e), Fits(d), Fits(e), Stored(d) = Stored(e)
    PROVE  /\ Apart(Units(d), Units(e)) <= Units(d) + Units(e)
           /\ Exact(d) /\ Exact(e) => Units(d) = Units(e)
<1> SUFFICES ASSUME NEW u, u = Units(d), NEW v, v = Units(e), NEW s, s = Stored(d),
                    NEW P, P = 2 * PowerOfTen[Precision - 1]
             PROVE  Apart(u, v) <= u + v /\ (Exact(d) /\ Exact(e) => u = v)
    OBVIOUS
<1>1. u \in Nat /\ v \in Nat
    BY UnitsAreCounted
<1>2. s \in Nat
  <2>1. LastPlace \in Nat /\ LastPlace # 0
      BY UnitsAreCounted
  <2>2. Nearest(u, LastPlace, HalfEven(u, LastPlace))
      BY <1>1, <2>1, HalfEvenIsNearest
  <2> QED
      BY <2>1, <2>2 DEF Nearest, Stored
<1>3. Apart(u, s) <= u /\ Apart(v, s) <= v
    BY WhatFits
<1>4. /\ P \in Nat /\ Apart(u, v) = P * Gap(u, v)
      /\ Apart(u, s) = P * Gap(u, s) /\ Apart(v, s) = P * Gap(v, s)
    BY <1>1, <1>2, ApartIsGap
<1>5. /\ Gap(u, v) \in Nat /\ Gap(u, s) \in Nat /\ Gap(v, s) \in Nat
      /\ Gap(u, v) <= Gap(u, s) + Gap(v, s)
    BY <1>1, <1>2 DEF Gap
<1>6. Apart(u, v) <= u + v
  <2> SUFFICES ASSUME NEW x \in Nat, NEW y \in Nat, NEW z \in Nat, z <= x + y,
                      P * x <= u, P * y <= v
               PROVE  P * z <= u + v
      BY <1>3, <1>4, <1>5
  <2>1. P * z <= P * (x + y) /\ P * (x + y) = P * x + P * y
      BY <1>4
  <2> QED
      BY <1>1, <1>4, <2>1
<1>7. ASSUME Exact(d), Exact(e) PROVE u = v
    BY <1>7, WhatFits, StorableIsStored
<1> QED
    BY <1>6, <1>7

----------------------------------------------------------------------------
(* The invariant: what was answered is what the row and the call say.      *)

Performed(c) == Accepted(c) /\ ~TooLarge(Stored(Parsed(c)))

IInv ==
    /\ TypeOK
    /\ row # NoRow => Performed(first)
    /\ latest.status = 201 => Performed(latest.call)
    /\ latest.status = 422 => ~Performed(latest.call)
    /\ latest.status # 422 => Accepted(latest.call)
    /\ latest.status = 200 => row # NoRow /\ row = RowOf(latest.call)
    /\ latest.status = 409 => row # NoRow /\ row # RowOf(latest.call)

LEMMA Starts ==
    ASSUME Init
    PROVE  IInv
<1> DEFINE c == [operation |-> "create_account", amount |-> Special("nan"), extra |-> FALSE]
<1>1. /\ row = NoRow /\ calls = 0 /\ latest = [call |-> c, status |-> 422]
    BY DEF Init
<1>2. c \in Call
    BY DEF Call, Written
<1>3. c.amount.kind = "nan"
    BY DEF Special, Zero, Finite
<1>4. ~Performed(c)
    BY <1>3 DEF Performed, Accepted, Parsed, NonNegativeMoney
<1> HIDE DEF c
<1> QED
    BY <1>1, <1>2, <1>4, SizesAssumption DEF IInv, TypeOK

LEMMA Steps ==
    ASSUME IInv, [Next]_vars
    PROVE  IInv'
<1>1. CASE UNCHANGED vars
    BY <1>1 DEF vars, IInv, TypeOK
<1>2. ASSUME NEW c \in Call, calls < MaxCalls,
             Reject(c) \/ Overflow(c) \/ Perform(c) \/ Retry(c)
      PROVE  IInv'
  <2>1. calls' \in 0..MaxCalls
      BY <1>2, SizesAssumption DEF IInv, TypeOK, Reject, Overflow, Perform, Retry, Answer
  <2>2. CASE Reject(c) \/ Overflow(c)
    <3>1. /\ ~Performed(c) /\ latest' = [call |-> c, status |-> 422]
          /\ row' = row /\ first' = first
        BY <2>2 DEF Reject, Overflow, Answer, Performed
    <3> QED
        BY <2>1, <3>1 DEF IInv, TypeOK
  <2>3. CASE Perform(c)
    <3>1. /\ Performed(c) /\ latest' = [call |-> c, status |-> 201]
          /\ row' = RowOf(c) /\ first' = c
        BY <2>3 DEF Perform, Answer, Performed
    <3>2. Accepted(c)
        BY <3>1 DEF Performed
    <3> QED
        BY <2>1, <3>1, <3>2 DEF IInv, TypeOK
  <2>4. CASE Retry(c)
    <3>1. /\ Accepted(c) /\ row # NoRow /\ row' = row /\ first' = first
          /\ latest' = [call |-> c, status |-> IF row = RowOf(c) THEN 200 ELSE 409]
        BY <2>4 DEF Retry, Answer
    <3>2. latest'.call = c /\ latest'.status \in {200, 409}
          /\ (latest'.status = 200 <=> row = RowOf(c))
        BY <3>1
    <3> QED
        BY <2>1, <3>1, <3>2 DEF IInv, TypeOK
  <2> QED
      BY <1>2, <2>2, <2>3, <2>4
<1> QED
    BY <1>1, <1>2 DEF Next

----------------------------------------------------------------------------
(* The theorems.                                                           *)

LEMMA Invariance == Spec => []IInv
BY Starts, Steps, PTL DEF Spec

\* The row of the key is always that of the call that claimed it, and every
\* call is answered with a status of its own (idempotency.py 94-127).
THEOREM TypeCorrect == Spec => []TypeOK
<1>1. IInv => TypeOK
    BY DEF IInv
<1> QED
    BY <1>1, Invariance, PTL

\* What NUMERIC(max_digits, decimal_places) holds is accepted however it is
\* written, and, of what the context of Python's decimals can hold, nothing
\* else is: counting digits as pydantic does, one limit at a time, comes to
\* the same.  A longer amount is accepted only next to one that the column
\* holds: within half a unit in the last digit of the context, and below
\* the largest amount (schemas.py 20-37, models.py 18-21).
THEOREM AcceptedIsWhatTheColumnHolds == Spec => []AcceptedIsStorable
<1>1. IInv => AcceptedIsStorable
  <2> SUFFICES ASSUME IInv, NEW c, c = latest.call, NEW d, d = Parsed(c)
               PROVE  /\ Meaningful(c, d) /\ Storable(d) => latest.status # 422
                      /\ latest.status # 422 =>
                             /\ Meaningful(c, d)
                             /\ ~TooLarge(Units(d))
                             /\ Exact(d) => Storable(d)
                             /\ Apart(Units(d), Stored(d)) <= Units(d)
                      /\ latest.status \in {200, 201} => ~TooLarge(Stored(d))
      BY DEF AcceptedIsStorable, Meaningful
  <2>1. c \in Call /\ Countable(d)
      BY WrittenIsCountable DEF IInv, TypeOK
  <2>2. Accepted(c) <=> Meaningful(c, d) /\ Fits(d)
      BY <2>1, AcceptedMeans
  <2>3. ASSUME Meaningful(c, d), Storable(d) PROVE latest.status # 422
    <3>1. Stored(d) = Units(d) /\ Accepted(c)
        BY <2>1, <2>2, <2>3, WhatFits, StorableIsStored
    <3>2. Performed(c)
        BY <2>3, <3>1 DEF Performed, Storable
    <3> QED
        BY <3>2 DEF IInv
  <2>4. ASSUME latest.status # 422 PROVE Meaningful(c, d) /\ Fits(d)
      BY <2>2, <2>4 DEF IInv
  <2>5. ASSUME latest.status = 200 PROVE ~TooLarge(Stored(d))
    <3>1. RowOf(c) = RowOf(first) /\ Performed(first)
        BY <2>5 DEF IInv, TypeOK
    <3>2. Stored(d) = Stored(Parsed(first))
        BY <3>1 DEF RowOf, Rendered, Stored
    <3> QED
        BY <3>1, <3>2 DEF Performed
  <2>6. ASSUME latest.status = 201 PROVE ~TooLarge(Stored(d))
      BY <2>6 DEF IInv, Performed
  <2> QED
      BY <2>1, <2>3, <2>4, <2>5, <2>6, WhatFits
<1> QED
    BY <1>1, Invariance, PTL

\* A call that is answered as a replay asks for what the first call asked
\* for: equal hashes are equal requests, for what is accepted and has no more
\* digits than the context holds.  Of longer amounts, that they are as near
\* as their roundings can be (schemas.py 88-93, idempotency.py 94-127).
THEOREM ReplaysAreHonest == Spec => []ReplaysAreOfTheSameRequest
<1>1. IInv => ReplaysAreOfTheSameRequest
  <2> SUFFICES ASSUME IInv, latest.status = 200, NEW c, c = latest.call,
                      NEW d, d = Parsed(c), NEW e, e = Parsed(first)
               PROVE  /\ c.operation = first.operation
                      /\ c.extra = first.extra
                      /\ Exact(d) /\ Exact(e) => SameNumber(d, e)
                      /\ d.negative = e.negative
                      /\ Apart(Units(d), Units(e)) <= Units(d) + Units(e)
      BY DEF ReplaysAreOfTheSameRequest
  <2>1. /\ c \in Call /\ first \in Call /\ Accepted(c) /\ Accepted(first)
        /\ RowOf(c) = RowOf(first)
      BY DEF IInv, TypeOK, Performed
  <2>2. c.extra = FALSE /\ first.extra = FALSE
      BY <2>1, AcceptedMeans DEF Call, Meaningful
  <2>3. Countable(d) /\ Countable(e) /\ Fits(d) /\ Fits(e)
      BY <2>1, AcceptedMeans, WrittenIsCountable
  <2>4. c.operation = first.operation /\ Rendered(d) = Rendered(e)
      BY <2>1 DEF RowOf
  <2>5. d.negative = e.negative /\ Stored(d) = Stored(e)
      BY <2>4 DEF Rendered, Stored
  <2>6. /\ Apart(Units(d), Units(e)) <= Units(d) + Units(e)
        /\ Exact(d) /\ Exact(e) => Units(d) = Units(e)
      BY <2>3, <2>5, StoredAlike
  <2> QED
      BY <2>2, <2>4, <2>5, <2>6 DEF SameNumber
<1> QED
    BY <1>1, Invariance, PTL

\* A positive amount that is written in another way when the call is retried
\* is the same request (schemas.py 28-32 and 121-124).
THEOREM RewritingReplays == Spec => []PositiveRetriesReplay
<1>1. IInv => PositiveRetriesReplay
  <2> SUFFICES ASSUME IInv, latest.status = 409, NEW c, c = latest.call,
                      Units(Parsed(c)) > 0, c.operation = first.operation,
                      SameNumber(Parsed(c), Parsed(first))
               PROVE  FALSE
      BY DEF PositiveRetriesReplay
  <2>1. row = RowOf(first) /\ row # RowOf(c)
      BY DEF IInv, TypeOK
  <2>2. /\ Units(Parsed(c)) = Units(Parsed(first))
        /\ Parsed(c).negative = Parsed(first).negative
      BY DEF SameNumber
  <2>3. Rendered(Parsed(c)) = Rendered(Parsed(first))
      BY <2>2 DEF Rendered
  <2> QED
      BY <2>1, <2>3 DEF RowOf
<1> QED
    BY <1>1, Invariance, PTL

==============================================================================
