--------------------------- MODULE CalculationProofs ---------------------------
(***************************************************************************)
(* The calculation of a result: decimals against fractions, and the tree   *)
(* that is evaluated node by node.                                         *)
(***************************************************************************)
EXTENDS Calculation, FormulaProofs, WellFoundedInduction

-----------------------------------------------------------------------------
(* The powers of ten.                                                       *)

\* Induction, for a set.
LEMMA SetInduction ==
  ASSUME NEW S, 0 \in S, \A n \in Nat : n \in S => n + 1 \in S
  PROVE  Nat \subseteq S
<1> DEFINE missing == Nat \ S
           R == OpToRel(<, Nat)
<1>1. ASSUME missing # {}  PROVE FALSE
  <2>1. IsWellFoundedOn(R, Nat)  BY NatLessThanWellFounded
  <2>2. missing \subseteq Nat  OBVIOUS
  <2> HIDE DEF missing, R
  <2>3. PICK x \in missing : \A y \in missing : <<y, x>> \notin R
    BY <1>1, <2>1, <2>2, WFMin
  <2>4. x \in Nat /\ x \notin S  BY <2>3 DEF missing
  <2>5. x # 0  BY <2>4
  <2>6. PICK y \in Nat : x = y + 1
    <3>1. x - 1 \in Nat /\ x = (x - 1) + 1  BY <2>4, <2>5
    <3> QED  BY <3>1
  <2>7. y \in missing  BY <2>4, <2>6 DEF missing
  <2>8. <<y, x>> \in R  BY <2>4, <2>6 DEF R, OpToRel
  <2> QED  BY <2>3, <2>7, <2>8
<1> QED  BY <1>1

\* A beginning of the powers.
Powers(k) ==
  {f \in [0 .. k -> Nat \ {0}] : f[0] = 1 /\ \A i \in 1 .. k : f[i] = 10 * f[i - 1]}

LEMMA PowersExist ==
  \A k \in Nat : Powers(k) # {}
<1> DEFINE S == {k \in Nat : Powers(k) # {}}
<1>1. 0 \in S
  <2> DEFINE f == [i \in 0 .. 0 |-> 1]
  <2>1. f \in Powers(0)  BY DEF Powers
  <2> QED  BY <2>1
<1>2. ASSUME NEW k \in Nat, k \in S  PROVE k + 1 \in S
  <2>1. PICK f \in Powers(k) : TRUE  BY <1>2
  <2>2. /\ f \in [0 .. k -> Nat \ {0}] /\ f[0] = 1
        /\ \A i \in 1 .. k : f[i] = 10 * f[i - 1]
    BY <2>1 DEF Powers
  <2> DEFINE g == [i \in 0 .. k + 1 |-> IF i = k + 1 THEN 10 * f[k] ELSE f[i]]
  <2>3. f[k] \in Nat \ {0}  BY <2>2
  <2>4. g \in [0 .. k + 1 -> Nat \ {0}]
    <3>1. 10 * f[k] \in Nat \ {0}  BY <2>3
    <3>2. ASSUME NEW i \in 0 .. k + 1, i # k + 1  PROVE f[i] \in Nat \ {0}
      <4>1. i \in 0 .. k  BY <3>2
      <4> QED  BY <2>2, <4>1
    <3> QED  BY <3>1, <3>2
  <2>5. g[0] = 1  BY <2>2
  <2>6. ASSUME NEW i \in 1 .. k + 1  PROVE g[i] = 10 * g[i - 1]
    <3>1. CASE i = k + 1  BY <3>1
    <3>2. CASE i # k + 1
      <4>1. i \in 1 .. k /\ i \in 0 .. k + 1 /\ i - 1 \in 0 .. k + 1 /\ i - 1 # k + 1
        BY <3>2
      <4> QED  BY <2>2, <3>2, <4>1
    <3> QED  BY <3>1, <3>2
  <2> HIDE DEF g
  <2>7. g \in Powers(k + 1)  BY <2>4, <2>5, <2>6 DEF Powers
  <2> QED  BY <2>7
<1> HIDE DEF S
<1>3. Nat \subseteq S  BY <1>1, <1>2, SetInduction
<1> QED  BY <1>3 DEF S

\* Two beginnings agree as far as both go.
LEMMA PowersAgree ==
  ASSUME NEW k \in Nat, NEW m \in Nat, NEW f \in Powers(k), NEW g \in Powers(m)
  PROVE  \A i \in Nat : i <= k /\ i <= m => f[i] = g[i]
<1> DEFINE S == {i \in Nat : i <= k /\ i <= m => f[i] = g[i]}
<1>1. 0 \in S  BY DEF Powers
<1>2. ASSUME NEW i \in Nat, i \in S, i + 1 <= k, i + 1 <= m
      PROVE  f[i + 1] = g[i + 1]
  <2>1. f[i] = g[i]  BY <1>2
  <2>2. i + 1 \in 1 .. k /\ i + 1 \in 1 .. m /\ (i + 1) - 1 = i  BY <1>2
  <2>3. f[i + 1] = 10 * f[i] /\ g[i + 1] = 10 * g[i]  BY <2>2 DEF Powers
  <2> QED  BY <2>1, <2>3
<1>3. \A i \in Nat : i \in S => i + 1 \in S  BY <1>2
<1> HIDE DEF S
<1>4. Nat \subseteq S  BY <1>1, <1>3, SetInduction
<1> QED  BY <1>4 DEF S

LEMMA TenIs ==
  /\ Ten[0] = 1
  /\ \A k \in Nat : Ten[k] \in Nat \ {0} /\ Ten[k + 1] = 10 * Ten[k]
<1> DEFINE Of(k) == CHOOSE f \in Powers(k) : TRUE
           T == [k \in Nat |-> Of(k)[k]]
<1>1. \A k \in Nat : Of(k) \in Powers(k)  BY PowersExist
<1> HIDE DEF Of
<1>2. T[0] = 1  BY <1>1 DEF Powers
<1>3. ASSUME NEW k \in Nat
      PROVE  T[k] \in Nat \ {0} /\ T[k + 1] = 10 * T[k]
  <2>1. Of(k) \in Powers(k) /\ Of(k + 1) \in Powers(k + 1)  BY <1>1
  <2>2. Of(k)[k] = Of(k + 1)[k]  BY <2>1, PowersAgree
  <2>3. Of(k + 1)[k + 1] = 10 * Of(k + 1)[k]
    <3>1. k + 1 \in 1 .. k + 1 /\ (k + 1) - 1 = k  OBVIOUS
    <3> QED  BY <2>1, <3>1 DEF Powers
  <2>4. Of(k)[k] \in Nat \ {0}  BY <2>1 DEF Powers
  <2> QED  BY <2>2, <2>3, <2>4
<1>4. T = [k \in Nat |-> IF k = 0 THEN 1 ELSE 10 * T[k - 1]]
  <2>1. ASSUME NEW k \in Nat  PROVE T[k] = IF k = 0 THEN 1 ELSE 10 * T[k - 1]
    <3>1. CASE k = 0  BY <1>2, <3>1
    <3>2. CASE k # 0
      <4>1. PICK j \in Nat : j = k - 1  BY <3>2
      <4>2. k = j + 1  BY <4>1
      <4>3. T[j + 1] = 10 * T[j]  BY <1>3, <4>1
      <4> HIDE DEF T
      <4> QED  BY <3>2, <4>1, <4>2, <4>3
    <3> QED  BY <3>1, <3>2
  <2>2. T = [k \in Nat |-> T[k]]  OBVIOUS
  <2> HIDE DEF T
  <2> QED  BY <2>1, <2>2
<1> HIDE DEF T
<1>5. Ten = [k \in Nat |-> IF k = 0 THEN 1 ELSE 10 * Ten[k - 1]]
  BY <1>4 DEF Ten
<1>6. Ten = T
  <2> DEFINE S == {k \in Nat : Ten[k] = T[k]}
  <2>1. 0 \in S  BY <1>2, <1>5
  <2>2. ASSUME NEW k \in Nat, k \in S  PROVE k + 1 \in S
    <3>1. k + 1 \in Nat /\ k + 1 # 0 /\ (k + 1) - 1 = k  OBVIOUS
    <3>2. Ten[k + 1] = 10 * Ten[k]  BY <1>5, <3>1
    <3> QED  BY <1>3, <2>2, <3>2
  <2> HIDE DEF S
  <2>3. Nat \subseteq S  BY <2>1, <2>2, SetInduction
  <2>4. \A k \in Nat : Ten[k] = T[k]  BY <2>3 DEF S
  <2>5. Ten = [k \in Nat |-> Ten[k]]  BY <1>5
  <2>6. T = [k \in Nat |-> T[k]]  BY <1>4
  <2> QED  BY <2>4, <2>5, <2>6
<1> QED  BY <1>2, <1>3, <1>6

LEMMA TenPlus ==
  \A a, b \in Nat : Ten[a + b] = Ten[a] * Ten[b]
<1> DEFINE S == {b \in Nat : \A a \in Nat : Ten[a + b] = Ten[a] * Ten[b]}
<1>1. 0 \in S
  <2>1. ASSUME NEW a \in Nat  PROVE Ten[a + 0] = Ten[a] * Ten[0]
    <3>1. a + 0 = a /\ Ten[0] = 1 /\ Ten[a] \in Nat  BY TenIs
    <3> QED  BY <3>1
  <2> QED  BY <2>1
<1>2. ASSUME NEW b \in Nat, b \in S  PROVE b + 1 \in S
  <2>1. ASSUME NEW a \in Nat  PROVE Ten[a + (b + 1)] = Ten[a] * Ten[b + 1]
    <3>1. a + (b + 1) = (a + b) + 1 /\ a + b \in Nat  OBVIOUS
    <3>2. Ten[(a + b) + 1] = 10 * Ten[a + b] /\ Ten[b + 1] = 10 * Ten[b]
      BY <3>1, TenIs
    <3>3. Ten[a + b] = Ten[a] * Ten[b]  BY <1>2
    <3>4. PICK t, u \in Nat : t = Ten[a] /\ u = Ten[b]  BY TenIs
    <3>5. 10 * (t * u) = t * (10 * u)  OBVIOUS
    <3> QED  BY <3>1, <3>2, <3>3, <3>4, <3>5
  <2> QED  BY <2>1
<1> HIDE DEF S
<1>3. Nat \subseteq S  BY <1>1, <1>2, SetInduction
<1> QED  BY <1>3 DEF S

-----------------------------------------------------------------------------
(* Integers.                                                                *)

LEMMA Cancelled ==
  ASSUME NEW a \in Int, NEW b \in Int, NEW c \in Int, c # 0, a * c = b * c
  PROVE  a = b
<1>1. (a - b) * c = 0  OBVIOUS
<1>2. a - b \in Int  OBVIOUS
<1>3. a - b = 0  BY <1>1, <1>2
<1> QED  BY <1>3

LEMMA NoZero ==
  ASSUME NEW a \in Int, NEW b \in Int, a # 0, b # 0
  PROVE  a * b # 0
OBVIOUS

\* A smaller product has a smaller factor.
LEMMA SmallerFactor ==
  ASSUME NEW a \in Int, NEW b \in Int, NEW c \in Nat \ {0}
  PROVE  (a * c < b * c <=> a < b) /\ (a * c <= b * c <=> a <= b)
<1>1. c > 0  OBVIOUS
<1>2. a < b => a * c < b * c
  <2>1. ASSUME a < b  PROVE a * c < b * c
    <3>1. PICK d \in Nat \ {0} : b = a + d
      <4>1. b - a \in Nat \ {0} /\ b = a + (b - a)  BY <2>1
      <4> QED  BY <4>1
    <3>2. b * c = a * c + d * c  BY <3>1
    <3>3. d * c > 0  BY <1>1, <3>1
    <3> QED  BY <3>2, <3>3
  <2> QED  BY <2>1
<1>3. b < a => b * c < a * c
  <2>1. ASSUME b < a  PROVE b * c < a * c
    <3>1. PICK d \in Nat \ {0} : a = b + d
      <4>1. a - b \in Nat \ {0} /\ a = b + (a - b)  BY <2>1
      <4> QED  BY <4>1
    <3>2. a * c = b * c + d * c  BY <3>1
    <3>3. d * c > 0  BY <1>1, <3>1
    <3> QED  BY <3>2, <3>3
  <2> QED  BY <2>1
<1>4. a = b => a * c = b * c  OBVIOUS
<1>5. PICK p, q \in Int : p = a * c /\ q = b * c  OBVIOUS
<1>6. /\ a < b => p < q
      /\ b < a => q < p
      /\ a = b => p = q
  BY <1>2, <1>3, <1>4, <1>5
<1>7. (p < q <=> a < b) /\ (p <= q <=> a <= b)  BY <1>6
<1> QED  BY <1>5, <1>7

LEMMA AbsTimes ==
  ASSUME NEW a \in Int, NEW c \in Int
  PROVE  Abs(a) \in Nat /\ Abs(a * c) = Abs(a) * Abs(c)
<1>1. Abs(a) \in Nat  BY DEF Abs
<1>2. CASE a >= 0 /\ c >= 0
  <2>1. a * c >= 0  BY <1>2
  <2> QED  BY <1>1, <1>2, <2>1 DEF Abs
<1>3. CASE a < 0 /\ c >= 0
  <2>1. c # 0 => a * c < 0  BY <1>3
  <2>2. (-a) * c = -(a * c)  OBVIOUS
  <2> QED  BY <1>1, <1>3, <2>1, <2>2 DEF Abs
<1>4. CASE a >= 0 /\ c < 0
  <2>1. a # 0 => a * c < 0  BY <1>4
  <2>2. a * (-c) = -(a * c)  OBVIOUS
  <2> QED  BY <1>1, <1>4, <2>1, <2>2 DEF Abs
<1>5. CASE a < 0 /\ c < 0
  <2>1. a * c > 0  BY <1>5
  <2>2. (-a) * (-c) = a * c  OBVIOUS
  <2> QED  BY <1>1, <1>5, <2>1, <2>2 DEF Abs
<1> QED  BY <1>2, <1>3, <1>4, <1>5

-----------------------------------------------------------------------------
(* Rounding.                                                                *)

\* What is nearest is no further than half away, and outwards if it is that far.
LEMMA NearestIs ==
  ASSUME NEW num \in Int, NEW d \in Nat \ {0}
  PROVE  /\ Nearest(num, d) \in Int
         /\ 2 * Abs(Nearest(num, d) * d - num) <= d
         /\ 2 * Abs(Nearest(num, d) * d - num) = d => Abs(Nearest(num, d)) * d > Abs(num)
<1>1. Abs(d) = d /\ ~(d < 0) /\ Abs(num) \in Nat  BY DEF Abs
<1>2. PICK a \in Nat : a = Abs(num)  BY <1>1
<1>3. PICK q \in Int : q = (2 * a + d) \div (2 * d)  OBVIOUS
<1>4. 2 * d > 0 /\ 2 * d \in Nat /\ 2 * a + d \in Nat  OBVIOUS
<1>5. q * (2 * d) <= 2 * a + d /\ 2 * a + d < (q + 1) * (2 * d)  BY <1>3, <1>4
<1>6. 2 * (q * d) <= 2 * a + d /\ 2 * a < 2 * (q * d) + d
  <2>1. q * (2 * d) = 2 * (q * d) /\ (q + 1) * (2 * d) = 2 * (q * d) + 2 * d  OBVIOUS
  <2> QED  BY <1>5, <2>1
<1>7. q \in Nat
  <2>1. ASSUME q < 0  PROVE FALSE
    <3>1. q + 1 <= 0  BY <2>1
    <3>2. (q + 1) * (2 * d) <= 0  BY <1>4, <3>1
    <3> QED  BY <1>4, <1>5, <3>2
  <2> QED  BY <2>1
<1>8. Nearest(num, d) = IF num < 0 THEN -q ELSE q
  BY <1>1, <1>2, <1>3 DEF Nearest
<1>9. PICK p \in Int : p = q * d  OBVIOUS
<1>10. CASE num < 0
  <2>1. num = -a /\ Nearest(num, d) = -q  BY <1>2, <1>8, <1>10 DEF Abs
  <2>2. (-q) * d = -p  BY <1>9
  <2>3. Nearest(num, d) * d - num = a - p  BY <2>1, <2>2
  <2>4. Abs(Nearest(num, d)) = q  BY <1>7, <2>1 DEF Abs
  <2> QED  BY <1>2, <1>6, <1>9, <2>1, <2>3, <2>4 DEF Abs
<1>11. CASE num >= 0
  <2>1. num = a /\ Nearest(num, d) = q  BY <1>2, <1>8, <1>11 DEF Abs
  <2>3. Nearest(num, d) * d - num = p - a  BY <1>9, <2>1
  <2>4. Abs(Nearest(num, d)) = q  BY <1>7, <2>1 DEF Abs
  <2> QED  BY <1>2, <1>6, <1>9, <2>1, <2>3, <2>4 DEF Abs
<1> QED  BY <1>10, <1>11

\* It is an integer, and the quotient itself where that is one.
LEMMA NearestExact ==
  ASSUME NEW m \in Int, NEW d \in Int \ {0}
  PROVE  Nearest(m * d, d) = m
<1>1. Abs(m) \in Nat /\ Abs(d) \in Nat \ {0} /\ Abs(m * d) = Abs(m) * Abs(d)
  BY AbsTimes DEF Abs
<1>2. PICK a \in Nat : a = Abs(m)  BY <1>1
<1>3. PICK c \in Nat \ {0} : c = Abs(d)  BY <1>1
<1>4. (2 * (a * c) + c) \div (2 * c) = a
  <2>1. 2 * (a * c) + c = a * (2 * c) + c  OBVIOUS
  <2>2. 0 <= c /\ c < 2 * c /\ 2 * c > 0  OBVIOUS
  <2>3. PICK b, e \in Int : b = 2 * c /\ e = a * b + c  OBVIOUS
  <2>4. a * b <= e /\ e < (a + 1) * b
    <3>1. (a + 1) * b = a * b + b  BY <2>3
    <3> QED  BY <2>2, <2>3, <3>1
  <2>5. PICK q \in Int : q = e \div b  BY <2>2, <2>3
  <2>6. q * b <= e /\ e < (q + 1) * b  BY <2>2, <2>3, <2>5
  <2>7. b \in Nat \ {0}  BY <2>2, <2>3
  <2>8. a * b < (q + 1) * b /\ q * b < (a + 1) * b
    <3>1. a * b \in Int /\ (q + 1) * b \in Int /\ q * b \in Int /\ (a + 1) * b \in Int
      BY <2>3
    <3> QED  BY <2>3, <2>4, <2>6, <3>1
  <2>9. a < q + 1 /\ q < a + 1  BY <2>7, <2>8, SmallerFactor
  <2> QED  BY <2>1, <2>3, <2>5, <2>9
<1>5. Nearest(m * d, d) = IF (m * d < 0) = (d < 0) THEN a ELSE -a
  <2>1. (2 * Abs(m * d) + Abs(d)) \div (2 * Abs(d)) = a  BY <1>1, <1>2, <1>3, <1>4
  <2> QED  BY <2>1 DEF Nearest
<1>6. CASE m = 0
  <2>1. a = 0  BY <1>2, <1>6 DEF Abs
  <2> QED  BY <1>5, <1>6, <2>1
<1>7. CASE m > 0
  <2>1. (m * d < 0) <=> (d < 0)
    <3>1. d < 0 => m * d < 0  BY <1>7
    <3>2. d > 0 => m * d > 0  BY <1>7
    <3> QED  BY <3>1, <3>2
  <2> QED  BY <1>2, <1>5, <1>7, <2>1 DEF Abs
<1>8. CASE m < 0
  <2>1. (m * d < 0) <=> ~(d < 0)
    <3>1. d < 0 => m * d > 0  BY <1>8
    <3>2. d > 0 => m * d < 0  BY <1>8
    <3> QED  BY <3>1, <3>2
  <2> QED  BY <1>2, <1>5, <1>8, <2>1 DEF Abs
<1> QED  BY <1>6, <1>7, <1>8

LEMMA NearestType ==
  ASSUME NEW num \in Int, NEW d \in Int \ {0}
  PROVE  Nearest(num, d) \in Int
<1>1. Abs(num) \in Nat /\ Abs(d) \in Nat \ {0}  BY DEF Abs
<1>2. PICK a \in Nat, c \in Nat \ {0} : a = Abs(num) /\ c = Abs(d)  BY <1>1
<1>3. (2 * a + c) \div (2 * c) \in Int
  <2>1. 2 * c > 0 /\ 2 * c \in Int /\ 2 * a + c \in Int  OBVIOUS
  <2> QED  BY <2>1
<1> QED  BY <1>2, <1>3 DEF Nearest

-----------------------------------------------------------------------------
(* Decimals and fractions.                                                  *)

LEMMA FractionIs ==
  ASSUME NEW n \in Int, NEW d \in Int
  PROVE  /\ Fraction(n, d) \in Fractions
         /\ d >= 0 => Fraction(n, d).num = n /\ Fraction(n, d).den = d
         /\ d < 0 => Fraction(n, d).num = -n /\ Fraction(n, d).den = -d
BY DEF Fraction, Fractions

\* Two decimals on a common number of places.
LEMMA CommonIs ==
  ASSUME NEW x \in Decimals, NEW y \in Decimals
  PROVE  /\ Common(x, y) \in Nat
         /\ \E a, b \in Nat \ {0} :
              /\ Scaled(x, Common(x, y)) = x.n * a
              /\ Scaled(y, Common(x, y)) = y.n * b
              /\ Ten[x.e] * a = Ten[Common(x, y)]
              /\ Ten[y.e] * b = Ten[Common(x, y)]
<1>1. x.e \in Nat /\ y.e \in Nat  BY DEF Decimals
<1>2. PICK e \in Nat : e = Common(x, y) /\ x.e <= e /\ y.e <= e  BY <1>1 DEF Common
<1>3. e - x.e \in Nat /\ e - y.e \in Nat  BY <1>1, <1>2
<1>4. x.e + (e - x.e) = e /\ y.e + (e - y.e) = e  BY <1>1, <1>2
<1>5. Ten[x.e] * Ten[e - x.e] = Ten[e] /\ Ten[y.e] * Ten[e - y.e] = Ten[e]
  BY <1>1, <1>3, <1>4, TenPlus
<1>6. Ten[e - x.e] \in Nat \ {0} /\ Ten[e - y.e] \in Nat \ {0}  BY <1>3, TenIs
<1>7. PICK a, b \in Nat \ {0} : a = Ten[e - x.e] /\ b = Ten[e - y.e]  BY <1>6
<1>8. Scaled(x, e) = x.n * a /\ Scaled(y, e) = y.n * b  BY <1>7 DEF Scaled
<1>9. Ten[x.e] * a = Ten[e] /\ Ten[y.e] * b = Ten[e]  BY <1>5, <1>7
<1> QED  BY <1>2, <1>7, <1>8, <1>9, Zenon

\* A fraction that is defined.
Defined(v) == v \in Fractions /\ v.den # 0

LEMMA ExactlyIs ==
  ASSUME NEW x \in Decimals
  PROVE  Defined(Exactly(x)) /\ Is(x, Exactly(x))
<1>1. x.n \in Int /\ Ten[x.e] \in Nat \ {0}  BY TenIs DEF Decimals
<1>2. Exactly(x) \in Fractions /\ Exactly(x).num = x.n /\ Exactly(x).den = Ten[x.e]
  BY <1>1, FractionIs DEF Exactly
<1> QED  BY <1>1, <1>2 DEF Defined, Is

\* Sums, differences and products are exact.
LEMMA PlusExact ==
  ASSUME NEW x \in Decimals, NEW y \in Decimals, NEW v, NEW w,
         Defined(v), Defined(w), Is(x, v), Is(y, w)
  PROVE  Plus(x, y) \in Decimals /\ Defined(Sum(v, w)) /\ Is(Plus(x, y), Sum(v, w))
<1>1. /\ x.n \in Int /\ y.n \in Int /\ v.num \in Int /\ w.num \in Int
      /\ v.den \in Nat \ {0} /\ w.den \in Nat \ {0}
      /\ Ten[x.e] \in Nat \ {0} /\ Ten[y.e] \in Nat \ {0}
  BY TenIs DEF Decimals, Fractions, Defined
<1>2. PICK e \in Nat : e = Common(x, y)  BY CommonIs
<1>3. PICK a, b \in Nat \ {0} : /\ Scaled(x, e) = x.n * a /\ Scaled(y, e) = y.n * b
                               /\ Ten[x.e] * a = Ten[e] /\ Ten[y.e] * b = Ten[e]
  BY <1>2, CommonIs
<1>4. Plus(x, y) = Decimal(x.n * a + y.n * b, e)  BY <1>2, <1>3 DEF Plus
<1>5. x.n * a + y.n * b \in Int  BY <1>1
<1>6. Plus(x, y) \in Decimals /\ Plus(x, y).n = x.n * a + y.n * b /\ Plus(x, y).e = e
  BY <1>4, <1>5 DEF Decimal, Decimals
<1>7. v.den * w.den \in Nat \ {0} /\ v.num * w.den + w.num * v.den \in Int  BY <1>1
<1>8. /\ Sum(v, w) \in Fractions
      /\ Sum(v, w).num = v.num * w.den + w.num * v.den /\ Sum(v, w).den = v.den * w.den
  BY <1>7, FractionIs DEF Sum
<1>9. (x.n * a + y.n * b) * (v.den * w.den) = (v.num * w.den + w.num * v.den) * Ten[e]
  <2>1. (x.n * a + y.n * b) * (v.den * w.den)
          = (x.n * v.den) * (a * w.den) + (y.n * w.den) * (b * v.den)
    BY <1>1
  <2>2. /\ (x.n * v.den) * (a * w.den) = (v.num * Ten[x.e]) * (a * w.den)
        /\ (y.n * w.den) * (b * v.den) = (w.num * Ten[y.e]) * (b * v.den)
    BY DEF Is
  <2>3. /\ (v.num * Ten[x.e]) * (a * w.den) = (v.num * w.den) * (Ten[x.e] * a)
        /\ (w.num * Ten[y.e]) * (b * v.den) = (w.num * v.den) * (Ten[y.e] * b)
    BY <1>1
  <2>4. PICK t \in Int : t = Ten[e]  BY TenIs
  <2>5. (v.num * w.den) * t + (w.num * v.den) * t = (v.num * w.den + w.num * v.den) * t
    BY <1>1
  <2> QED  BY <1>3, <2>1, <2>2, <2>3, <2>4, <2>5
<1> QED  BY <1>6, <1>7, <1>8, <1>9 DEF Is, Defined

LEMMA MinusExact ==
  ASSUME NEW x \in Decimals, NEW y \in Decimals, NEW v, NEW w,
         Defined(v), Defined(w), Is(x, v), Is(y, w)
  PROVE  Minus(x, y) \in Decimals /\ Defined(Difference(v, w))
         /\ Is(Minus(x, y), Difference(v, w))
<1> DEFINE z == Decimal(-y.n, y.e)
           u == [num |-> -w.num, den |-> w.den]
<1>1. y.n \in Int /\ w.num \in Int /\ w.den \in Nat /\ v.num \in Int /\ v.den \in Nat
  BY DEF Decimals, Fractions, Defined
<1>2. z \in Decimals /\ z.n = -y.n /\ z.e = y.e  BY <1>1 DEF Decimal, Decimals
<1>3. Defined(u) /\ u.num = -w.num /\ u.den = w.den  BY <1>1 DEF Defined, Fractions
<1>4. Is(z, u)
  <2>1. Ten[y.e] \in Int  BY TenIs DEF Decimals
  <2>2. y.n * w.den = w.num * Ten[y.e]  BY DEF Is
  <2>3. (-y.n) * w.den = -(y.n * w.den) /\ (-w.num) * Ten[y.e] = -(w.num * Ten[y.e])
    BY <1>1, <2>1
  <2> HIDE DEF z, u
  <2> QED  BY <1>2, <1>3, <2>2, <2>3 DEF Is
<1> HIDE DEF z, u
<1>5. Plus(x, z) \in Decimals /\ Defined(Sum(v, u)) /\ Is(Plus(x, z), Sum(v, u))
  BY <1>2, <1>3, <1>4, PlusExact
<1>6. Minus(x, y) = Plus(x, z)  BY DEF Minus, z
<1>7. Difference(v, w) = Sum(v, u)
  <2>1. v.num * w.den - w.num * v.den = v.num * w.den + (-w.num) * v.den  BY <1>1
  <2> QED  BY <1>3, <2>1 DEF Difference, Sum
<1> QED  BY <1>5, <1>6, <1>7

LEMMA TimesExact ==
  ASSUME NEW x \in Decimals, NEW y \in Decimals, NEW v, NEW w,
         Defined(v), Defined(w), Is(x, v), Is(y, w)
  PROVE  Times(x, y) \in Decimals /\ Defined(Product(v, w))
         /\ Is(Times(x, y), Product(v, w))
<1>1. /\ x.n \in Int /\ y.n \in Int /\ v.num \in Int /\ w.num \in Int
      /\ v.den \in Nat \ {0} /\ w.den \in Nat \ {0} /\ x.e \in Nat /\ y.e \in Nat
      /\ Ten[x.e] \in Nat \ {0} /\ Ten[y.e] \in Nat \ {0}
  BY TenIs DEF Decimals, Fractions, Defined
<1>2. /\ Times(x, y) \in Decimals /\ Times(x, y).n = x.n * y.n
      /\ Times(x, y).e = x.e + y.e
  BY <1>1 DEF Times, Decimal, Decimals
<1>3. /\ v.den * w.den \in Nat \ {0} /\ v.num * w.num \in Int
      /\ Product(v, w) \in Fractions /\ Product(v, w).num = v.num * w.num
      /\ Product(v, w).den = v.den * w.den
  <2>1. v.den * w.den \in Nat \ {0} /\ v.num * w.num \in Int  BY <1>1
  <2> QED  BY <2>1, FractionIs DEF Product
<1>4. Ten[x.e + y.e] = Ten[x.e] * Ten[y.e]  BY <1>1, TenPlus
<1>5. (x.n * y.n) * (v.den * w.den) = (v.num * w.num) * (Ten[x.e] * Ten[y.e])
  <2>1. (x.n * y.n) * (v.den * w.den) = (x.n * v.den) * (y.n * w.den)  BY <1>1
  <2>2. (x.n * v.den) * (y.n * w.den) = (v.num * Ten[x.e]) * (w.num * Ten[y.e])
    BY DEF Is
  <2>3. (v.num * Ten[x.e]) * (w.num * Ten[y.e])
          = (v.num * w.num) * (Ten[x.e] * Ten[y.e])
    BY <1>1
  <2> QED  BY <2>1, <2>2, <2>3
<1> QED  BY <1>2, <1>3, <1>4, <1>5 DEF Is, Defined

\* Decimals are compared as what they are.
LEMMA LessExact ==
  ASSUME NEW x \in Decimals, NEW y \in Decimals, NEW v, NEW w,
         Defined(v), Defined(w), Is(x, v), Is(y, w)
  PROVE  Less(x, y) <=> ~AtMost(w, v)
<1>1. /\ x.n \in Int /\ y.n \in Int /\ v.num \in Int /\ w.num \in Int
      /\ v.den \in Nat \ {0} /\ w.den \in Nat \ {0}
      /\ Ten[x.e] \in Nat \ {0} /\ Ten[y.e] \in Nat \ {0}
  BY TenIs DEF Decimals, Fractions, Defined
<1>2. PICK e \in Nat : e = Common(x, y)  BY CommonIs
<1>3. PICK a, b \in Nat \ {0} : /\ Scaled(x, e) = x.n * a /\ Scaled(y, e) = y.n * b
                               /\ Ten[x.e] * a = Ten[e] /\ Ten[y.e] * b = Ten[e]
  BY <1>2, CommonIs
<1>4. PICK t \in Nat \ {0} : t = Ten[e]  BY TenIs
<1>5. PICK d \in Nat \ {0} : d = v.den * w.den  BY <1>1
<1>6. (x.n * a) * d = (v.num * w.den) * t
  <2>1. (x.n * a) * (v.den * w.den) = (x.n * v.den) * (a * w.den)  BY <1>1
  <2>2. (x.n * v.den) * (a * w.den) = (v.num * Ten[x.e]) * (a * w.den)  BY DEF Is
  <2>3. (v.num * Ten[x.e]) * (a * w.den) = (v.num * w.den) * (Ten[x.e] * a)  BY <1>1
  <2> QED  BY <1>3, <1>4, <1>5, <2>1, <2>2, <2>3
<1>7. (y.n * b) * d = (w.num * v.den) * t
  <2>1. (y.n * b) * (v.den * w.den) = (y.n * w.den) * (b * v.den)  BY <1>1
  <2>2. (y.n * w.den) * (b * v.den) = (w.num * Ten[y.e]) * (b * v.den)  BY DEF Is
  <2>3. (w.num * Ten[y.e]) * (b * v.den) = (w.num * v.den) * (Ten[y.e] * b)  BY <1>1
  <2> QED  BY <1>3, <1>4, <1>5, <2>1, <2>2, <2>3
<1>8. PICK p, q, r, s \in Int : /\ p = x.n * a /\ q = y.n * b
                               /\ r = v.num * w.den /\ s = w.num * v.den
  <2>1. x.n * a \in Int /\ y.n * b \in Int /\ v.num * w.den \in Int /\ w.num * v.den \in Int
    BY <1>1
  <2> QED  BY <2>1
<1>9. p < q <=> p * d < q * d  BY SmallerFactor
<1>10. r < s <=> r * t < s * t  BY SmallerFactor
<1>11. p * d = r * t /\ q * d = s * t  BY <1>6, <1>7, <1>8
<1>12. p < q <=> r < s  BY <1>9, <1>10, <1>11
<1>13. Less(x, y) <=> p < q  BY <1>2, <1>3, <1>8 DEF Less
<1>14. AtMost(w, v) <=> s <= r  BY <1>8 DEF AtMost
<1> QED  BY <1>8, <1>12, <1>13, <1>14

LEMMA DivType ==
  ASSUME NEW x \in Decimals, NEW y \in Decimals, y.n # 0
  PROVE  Div(x, y) \in Decimals
<1>1. /\ x.n \in Int /\ y.n \in Int /\ x.e \in Nat /\ y.e \in Nat
      /\ DivisionPrecision \in Nat
  BY DecimalAssumption DEF Decimals
<1>2. Ten[x.e] \in Nat \ {0} /\ Ten[y.e + DivisionPrecision] \in Nat \ {0}
  BY <1>1, TenIs
<1>3. x.n * Ten[y.e + DivisionPrecision] \in Int  BY <1>1, <1>2
<1>4. y.n * Ten[x.e] \in Int \ {0}  BY <1>1, <1>2, NoZero
<1>5. Nearest(x.n * Ten[y.e + DivisionPrecision], y.n * Ten[x.e]) \in Int
  BY <1>3, <1>4, NearestType
<1> QED  BY <1>1, <1>5 DEF Div, Decimal, Decimals

LEMMA Divided ==
  ASSUME NEW r \in Int, NEW q \in Nat \ {0}, r % q = 0
  PROVE  \E m \in Int : r = m * q
<1>1. q > 0 /\ q \in Int  OBVIOUS
<1>2. PICK m \in Int : m = r \div q  BY <1>1
<1>3. r = q * m + (r % q)  BY <1>1, <1>2
<1>4. q * m = m * q  OBVIOUS
<1> QED  BY <1>3, <1>4

\* A quotient is exact if it has no more than the places it keeps.
LEMMA DivExact ==
  ASSUME NEW x \in Decimals, NEW y \in Decimals, NEW v, NEW w, y.n # 0,
         Defined(v), Defined(w), Is(x, v), Is(y, w), Terminates(Quotient(v, w))
  PROVE  Defined(Quotient(v, w)) /\ Is(Div(x, y), Quotient(v, w))
<1>1. /\ x.n \in Int /\ y.n \in Int /\ v.num \in Int /\ w.num \in Int
      /\ v.den \in Nat \ {0} /\ w.den \in Nat \ {0}
      /\ x.e \in Nat /\ y.e \in Nat /\ DivisionPrecision \in Nat
  BY DecimalAssumption DEF Decimals, Fractions, Defined
<1>2. PICK t, u, k \in Nat \ {0} :
        t = Ten[x.e] /\ u = Ten[y.e] /\ k = Ten[DivisionPrecision]
  BY <1>1, TenIs
<1>3. x.n * v.den = v.num * t /\ y.n * w.den = w.num * u  BY <1>2 DEF Is
<1>4. w.num # 0
  <2>1. y.n * w.den # 0  BY <1>1, NoZero
  <2>2. w.num = 0 => w.num * u = 0  OBVIOUS
  <2> QED  BY <1>3, <2>1, <2>2
<1>5. PICK a, b \in Int : a = v.num * w.den /\ b = v.den * w.num
  <2>1. v.num * w.den \in Int /\ v.den * w.num \in Int  BY <1>1
  <2> QED  BY <2>1
<1>6. b # 0  BY <1>1, <1>4, <1>5, NoZero
<1>7. Quotient(v, w) \in Fractions /\ Quotient(v, w) = Fraction(a, b)
  BY <1>5, FractionIs DEF Quotient
<1>8. PICK p \in Int, q \in Nat : p = Quotient(v, w).num /\ q = Quotient(v, w).den
  BY <1>7 DEF Fractions
<1>9. q # 0 /\ (p * k) % q = 0  BY <1>2, <1>8 DEF Terminates
<1>10. p * b = q * a
  <2>1. CASE b >= 0  BY <1>7, <1>8, <2>1, FractionIs
  <2>2. CASE b < 0
    <3>1. p = -a /\ q = -b  BY <1>7, <1>8, <2>2, FractionIs
    <3> QED  BY <3>1
  <2> QED  BY <2>1, <2>2
<1>11. PICK m \in Int : p * k = m * q
  <2>1. PICK r \in Int : r = p * k  OBVIOUS
  <2>2. q \in Nat \ {0} /\ r % q = 0  BY <1>9, <2>1
  <2> QED  BY <2>1, <2>2, Divided
<1>12. x.n * (u * k) = m * (y.n * t)
  <2> DEFINE c == b * q
             l == x.n * (u * k)
             r == m * (y.n * t)
  <2>1. b * q # 0 /\ b * q \in Int /\ l \in Int /\ r \in Int
    BY <1>1, <1>6, <1>9, NoZero
  <2>2. l * c = (x.n * v.den) * (w.num * u) * (k * q)  BY <1>1, <1>5
  <2>3. (x.n * v.den) * (w.num * u) * (k * q) = (v.num * t) * (y.n * w.den) * (k * q)
    BY <1>3
  <2>4. (v.num * t) * (y.n * w.den) * (k * q) = (q * a) * (t * y.n * k)  BY <1>1, <1>5
  <2>5. (q * a) * (t * y.n * k) = (p * b) * (t * y.n * k)  BY <1>10
  <2>6. (p * b) * (t * y.n * k) = (p * k) * (b * t * y.n)  BY <1>1
  <2>7. (p * k) * (b * t * y.n) = (m * q) * (b * t * y.n)  BY <1>11
  <2>8. (m * q) * (b * t * y.n) = r * c  BY <1>1
  <2>9. l * c = r * c  BY <2>2, <2>3, <2>4, <2>5, <2>6, <2>7, <2>8
  <2> HIDE DEF l, r
  <2>10. c # 0 /\ c \in Int  BY <2>1
  <2> HIDE DEF c
  <2>11. l = r  BY <2>1, <2>9, <2>10, Cancelled
  <2> QED  BY <2>11 DEF l, r
<1>13. Ten[y.e + DivisionPrecision] = u * k  BY <1>1, <1>2, TenPlus
<1>14. PICK d \in Int \ {0} : d = y.n * t  BY <1>1, NoZero
<1>15. Nearest(m * d, d) = m  BY NearestExact
<1>16. Div(x, y).n = m /\ Div(x, y).e = DivisionPrecision
  BY <1>2, <1>12, <1>13, <1>14, <1>15 DEF Div, Decimal
<1>17. Is(Div(x, y), Quotient(v, w))  BY <1>2, <1>8, <1>11, <1>16 DEF Is
<1> QED  BY <1>7, <1>8, <1>9, <1>17 DEF Defined

\* A decimal that is rounded is rounded as its value is.
LEMMA RoundRight ==
  ASSUME NEW x \in Decimals, NEW v, Defined(v), Is(x, v)
  PROVE  Rounds(Round(x), v)
<1>1. /\ x.n \in Int /\ x.e \in Nat /\ v.num \in Int /\ v.den \in Nat \ {0}
      /\ Precision \in Nat
  BY DecimalAssumption DEF Decimals, Fractions, Defined
<1>2. PICK t, k \in Nat \ {0} : t = Ten[x.e] /\ k = Ten[Precision]  BY <1>1, TenIs
<1>3. x.n * v.den = v.num * t  BY <1>2 DEF Is
<1>4. CASE x.e <= Precision
  <2>1. Precision - x.e \in Nat /\ x.e + (Precision - x.e) = Precision  BY <1>1, <1>4
  <2>2. PICK a \in Nat : a = Ten[Precision - x.e]  BY <2>1, TenIs
  <2>3. t * a = k  BY <1>1, <1>2, <2>1, <2>2, TenPlus
  <2>4. (x.n * a) * v.den = v.num * k
    <3>1. (x.n * a) * v.den = (x.n * v.den) * a  BY <1>1
    <3>2. (x.n * v.den) * a = (v.num * t) * a  BY <1>3
    <3>3. (v.num * t) * a = v.num * (t * a)  BY <1>1
    <3> QED  BY <2>3, <3>1, <3>2, <3>3
  <2>5. PICK r \in Int : r = v.num * k  BY <1>1
  <2>6. 2 * Abs(r - r) = 0  BY DEF Abs
  <2>7. Round(x) = x /\ Scaled(x, Precision) = x.n * a  BY <1>4, <2>2 DEF Round, Scaled
  <2> QED  BY <1>1, <1>2, <1>4, <2>4, <2>5, <2>6, <2>7 DEF Rounds
<1>5. CASE x.e > Precision
  <2>1. x.e - Precision \in Nat /\ Precision + (x.e - Precision) = x.e  BY <1>1, <1>5
  <2>2. PICK d \in Nat \ {0} : d = Ten[x.e - Precision]  BY <2>1, TenIs
  <2>3. k * d = t
    <3>1. Ten[Precision + (x.e - Precision)] = Ten[Precision] * Ten[x.e - Precision]
      BY <1>1, <2>1, TenPlus
    <3> QED  BY <1>2, <2>1, <2>2, <3>1
  <2>4. PICK m \in Int :
          /\ m = Nearest(x.n, d) /\ 2 * Abs(m * d - x.n) <= d
          /\ 2 * Abs(m * d - x.n) = d => Abs(m) * d > Abs(x.n)
    BY <1>1, NearestIs
  <2>5. Round(x).n = m /\ Round(x).e = Precision
    BY <1>1, <1>5, <2>2, <2>4 DEF Round, Decimal
  <2>6. Scaled(Round(x), Precision) = m
    <3>1. Precision - Precision = 0 /\ Ten[0] = 1  BY <1>1, TenIs
    <3> QED  BY <2>5, <3>1 DEF Scaled
  <2>7. PICK g, h \in Int : g = m * v.den - v.num * k /\ h = m * d - x.n
    <3>1. m * v.den - v.num * k \in Int /\ m * d - x.n \in Int  BY <1>1
    <3> QED  BY <3>1
  <2>8. g * d = v.den * h
    <3>1. g * d = (m * v.den) * d - (v.num * k) * d  BY <1>1, <2>7
    <3>2. (v.num * k) * d = v.num * (k * d)  BY <1>1
    <3>3. v.num * (k * d) = x.n * v.den  BY <1>3, <2>3
    <3>4. (m * v.den) * d - x.n * v.den = v.den * h  BY <1>1, <2>7
    <3> QED  BY <3>1, <3>2, <3>3, <3>4
  <2>9. PICK e, f \in Nat : e = Abs(g) /\ f = Abs(h)  BY AbsTimes
  <2>10. e * d = v.den * f
    <3>1. Abs(g * d) = e * Abs(d) /\ Abs(h * v.den) = f * Abs(v.den)
      <4>1. Abs(g * d) = Abs(g) * Abs(d)  BY AbsTimes
      <4>2. v.den \in Int  BY <1>1
      <4>3. Abs(h * v.den) = Abs(h) * Abs(v.den)  BY <4>2, AbsTimes
      <4> QED  BY <2>9, <4>1, <4>3
    <3>2. Abs(d) = d /\ Abs(v.den) = v.den  BY <1>1 DEF Abs
    <3>3. g * d = h * v.den  BY <1>1, <2>8
    <3>4. f * v.den = v.den * f  BY <1>1
    <3> QED  BY <3>1, <3>2, <3>3, <3>4
  <2>11. 2 * f <= d /\ (2 * f = d => Abs(m) * d > Abs(x.n))  BY <2>4, <2>7, <2>9
  <2>12. PICK c \in Nat \ {0} : c = v.den  BY <1>1
  <2>13. (2 * e) * d = (2 * f) * c  BY <2>10, <2>12
  <2>14. 2 * e <= c
    <3>1. (2 * f) * c <= d * c  BY <2>11, SmallerFactor
    <3>2. d * c = c * d  OBVIOUS
    <3>3. (2 * e) * d <= c * d  BY <2>13, <3>1, <3>2
    <3> QED  BY <3>3, SmallerFactor
  <2>15. ASSUME 2 * e = c  PROVE Abs(m) * c > Abs(v.num) * k
    <3>1. (2 * f) * c = d * c
      <4>1. (2 * e) * d = c * d  BY <2>15
      <4>2. c * d = d * c  OBVIOUS
      <4> QED  BY <2>13, <4>1, <4>2
    <3>2. 2 * f = d  BY <3>1, Cancelled
    <3>3. PICK i, j, n \in Nat : i = Abs(m) /\ j = Abs(x.n) /\ n = Abs(v.num)
      BY <1>1, AbsTimes
    <3>4. j < i * d  BY <2>11, <3>2, <3>3
    <3>5. j * c < (i * d) * c  BY <3>4, SmallerFactor
    <3>6. j * c = n * (k * d)
      <4>1. Abs(x.n * v.den) = j * Abs(v.den) /\ Abs(v.num * t) = n * Abs(t)
        <5>1. x.n \in Int /\ v.den \in Int /\ v.num \in Int /\ t \in Int  BY <1>1
        <5>2. Abs(x.n * v.den) = Abs(x.n) * Abs(v.den)  BY <5>1, AbsTimes
        <5>3. Abs(v.num * t) = Abs(v.num) * Abs(t)  BY <5>1, AbsTimes
        <5> QED  BY <3>3, <5>2, <5>3
      <4>2. Abs(v.den) = c /\ Abs(t) = t  BY <1>1, <2>12 DEF Abs
      <4> QED  BY <1>3, <2>3, <4>1, <4>2
    <3>7. n * (k * d) = (n * k) * d /\ (i * d) * c = (i * c) * d  OBVIOUS
    <3>8. (n * k) * d < (i * c) * d  BY <3>5, <3>6, <3>7
    <3>9. n * k < i * c  BY <3>8, SmallerFactor
    <3> QED  BY <3>3, <3>9
  <2> QED
    BY <1>1, <1>2, <2>5, <2>6, <2>7, <2>9, <2>12, <2>14, <2>15 DEF Rounds
<1> QED  BY <1>1, <1>4, <1>5

\* The value that is the least among some, or the greatest, is only one.
LEMMA SameFraction ==
  ASSUME NEW x \in Decimals, NEW v, NEW w, Defined(v), Defined(w),
         Is(x, v), AtMost(v, w), AtMost(w, v)
  PROVE  Is(x, w)
<1>1. /\ x.n \in Int /\ v.num \in Int /\ w.num \in Int
      /\ v.den \in Nat \ {0} /\ w.den \in Nat \ {0}
  BY DEF Decimals, Fractions, Defined
<1>2. PICK t \in Nat \ {0} : t = Ten[x.e]  BY TenIs DEF Decimals
<1>3. v.num * w.den = w.num * v.den
  <2>1. PICK p, q \in Int : p = v.num * w.den /\ q = w.num * v.den
    <3>1. v.num * w.den \in Int /\ w.num * v.den \in Int  BY <1>1
    <3> QED  BY <3>1
  <2>2. p <= q /\ q <= p  BY <2>1 DEF AtMost
  <2> QED  BY <2>1, <2>2
<1>4. (x.n * w.den) * v.den = (w.num * t) * v.den
  <2>1. (x.n * w.den) * v.den = (x.n * v.den) * w.den  BY <1>1
  <2>2. (x.n * v.den) * w.den = (v.num * t) * w.den  BY <1>2 DEF Is
  <2>3. (v.num * t) * w.den = (v.num * w.den) * t  BY <1>1
  <2>4. (v.num * w.den) * t = (w.num * v.den) * t  BY <1>3
  <2>5. (w.num * v.den) * t = (w.num * t) * v.den  BY <1>1
  <2> QED  BY <2>1, <2>2, <2>3, <2>4, <2>5
<1>5. x.n * w.den \in Int /\ w.num * t \in Int /\ v.den \in Int /\ v.den # 0  BY <1>1
<1>6. x.n * w.den = w.num * t  BY <1>4, <1>5, Cancelled
<1> QED  BY <1>2, <1>6 DEF Is

LEMMA AtMostOrder ==
  ASSUME NEW u, NEW v, Defined(u), Defined(v)
  PROVE  /\ AtMost(u, u)
         /\ AtMost(u, v) \/ AtMost(v, u)
         /\ \A w : Defined(w) /\ AtMost(u, v) /\ AtMost(v, w) => AtMost(u, w)
<1>1. /\ u.num \in Int /\ v.num \in Int
      /\ u.den \in Nat \ {0} /\ v.den \in Nat \ {0}
  BY DEF Fractions, Defined
<1>2. AtMost(u, u) /\ (AtMost(u, v) \/ AtMost(v, u))
  <2>1. PICK p, q, r \in Int : /\ p = u.num * v.den /\ q = v.num * u.den
                               /\ r = u.num * u.den
    <3>1. u.num * v.den \in Int /\ v.num * u.den \in Int /\ u.num * u.den \in Int
      BY <1>1
    <3> QED  BY <3>1
  <2> QED  BY <2>1 DEF AtMost
<1>3. ASSUME NEW w, Defined(w), AtMost(u, v), AtMost(v, w)
      PROVE  AtMost(u, w)
  <2>1. PICK a, c, e \in Int, b, d, f \in Nat \ {0} :
          a = u.num /\ c = v.num /\ e = w.num /\ b = u.den /\ d = v.den /\ f = w.den
    BY <1>1, <1>3 DEF Fractions, Defined
  <2>2. a * d <= c * b /\ c * f <= e * d  BY <1>3, <2>1 DEF AtMost
  <2>3. PICK p, q, r, s \in Int : p = a * d /\ q = c * b /\ r = c * f /\ s = e * d  OBVIOUS
  <2>4. p * f <= q * f /\ r * b <= s * b  BY <2>2, <2>3, SmallerFactor
  <2>5. q * f = r * b /\ p * f = (a * f) * d /\ s * b = (e * b) * d  BY <2>3
  <2>6. PICK i, j \in Int : i = a * f /\ j = e * b  OBVIOUS
  <2>7. i * d <= j * d
    <3>1. p * f \in Int /\ q * f \in Int /\ s * b \in Int  OBVIOUS
    <3> QED  BY <2>4, <2>5, <2>6, <3>1
  <2>8. i <= j  BY <2>7, SmallerFactor
  <2> QED  BY <2>1, <2>6, <2>8 DEF AtMost
<1> QED  BY <1>2, <1>3

-----------------------------------------------------------------------------
(* The invariant of the evaluation.                                         *)

Begun == {"evaluating", "calculated", "failed"}

\* As many values as nodes were evaluated, and partial results of a call only
\* while there is one.
EvaluationTypeOK ==
  /\ values \in Seq(Decimals) /\ parts \in Seq(Decimals)
  /\ (\E S : exact \in Seq(S)) /\ Len(exact) = Len(values)
  /\ (\E S : totals \in Seq(S)) /\ Len(totals) = Len(parts)
  /\ \A f \in DOMAIN readings : readings[f] \in Decimals
  /\ Len(values) <= Len(nodes)
  /\ phase = "calculated" => Len(values) = Len(nodes)
  /\ parts # <<>> => Len(values) < Len(nodes) /\ Len(parts) <= Len(Current.kids)
  /\ phase \notin Begun =>
       values = <<>> /\ exact = <<>> /\ parts = <<>> /\ totals = <<>>

ReadingsOK == phase \in Begun => Enterable(readings)

\* A decimal is what the node is worth, unless a quotient was cut off.
ValuesOK ==
  \A k \in 1 .. Len(values) :
    /\ Terminating(k) => Defined(exact[k]) /\ Is(values[k], exact[k])
    /\ Terminating(k - 1) => HasValue(k)

\* So is what the first arguments of a call come to.
Least(n, i)    == \A j \in 1 .. n : AtMost(ExactKid(i), ExactKid(j))
Greatest(n, i) == \A j \in 1 .. n : AtMost(ExactKid(j), ExactKid(i))

PartsOK ==
  Terminating(Len(values)) =>
    \A n \in 1 .. Len(parts) :
      /\ Word = "min" => \E i \in 1 .. n : parts[n] = Kid(i) /\ Least(n, i)
      /\ Word = "max" => \E i \in 1 .. n : parts[n] = Kid(i) /\ Greatest(n, i)
      /\ Word = "avg" => Defined(totals[n]) /\ Is(parts[n], totals[n])

\* What an evaluation can fail for.
FailedOK ==
  phase = "failed" =>
    /\ Len(values) < Len(nodes)
    /\ \/ Word \in Name /\ ~IsCallNode /\ Word \notin DOMAIN readings
       \/ ByZero
       \/ Word \in Name \ Functions /\ IsCallNode

CalculationInv ==
  /\ EvaluationTypeOK /\ ReadingsOK /\ ValuesOK /\ PartsOK /\ FailedOK

-----------------------------------------------------------------------------
(* The node that is evaluated.                                              *)

LEMMA CurrentIs ==
  ASSUME ParserInv, CalculationInv, Len(values) < Len(nodes)
  PROVE  /\ Len(values) + 1 \in DOMAIN nodes /\ Current = nodes[Len(values) + 1]
         /\ Current \in NodeType /\ NodeOK(Len(values) + 1)
         /\ Len(values) \in Nat /\ Len(exact) = Len(values)
<1>1. Len(values) \in Nat /\ Len(nodes) \in Nat /\ nodes \in Seq(NodeType)
  BY DEF CalculationInv, EvaluationTypeOK, ParserInv, ParserTypeOK
<1>2. Len(values) + 1 \in DOMAIN nodes  BY <1>1
<1>3. nodes[Len(values) + 1] \in NodeType /\ NodeOK(Len(values) + 1)
  BY <1>1, <1>2 DEF ParserInv, NodesOK
<1> QED  BY <1>1, <1>2, <1>3 DEF Current, CalculationInv, EvaluationTypeOK

LEMMA KidIs ==
  ASSUME ParserInv, CalculationInv, Len(values) < Len(nodes), NEW i \in DOMAIN Current.kids
  PROVE  /\ Current.kids[i] \in 1 .. Len(values)
         /\ Kid(i) \in Decimals
         /\ Terminating(Len(values)) => Defined(ExactKid(i)) /\ Is(Kid(i), ExactKid(i))
<1>1. /\ Len(values) \in Nat /\ Current = nodes[Len(values) + 1] /\ NodeOK(Len(values) + 1)
  BY CurrentIs
<1>2. Current.kids[i] \in 1 .. (Len(values) + 1) - 1  BY <1>1 DEF NodeOK
<1>3. PICK k \in 1 .. Len(values) : k = Current.kids[i]  BY <1>1, <1>2
<1>4. values[k] \in Decimals  BY DEF CalculationInv, EvaluationTypeOK
<1>5. Terminating(Len(values)) => Terminating(k)
  <2>1. \A j \in 1 .. k : j \in 1 .. Len(values)  BY <1>1
  <2> QED  BY <2>1 DEF Terminating
<1>6. Terminating(k) => Defined(exact[k]) /\ Is(values[k], exact[k])
  BY DEF CalculationInv, ValuesOK
<1> QED  BY <1>3, <1>4, <1>5, <1>6 DEF Kid, ExactKid

\* A binary operator has two.
LEMMA TwoKids ==
  ASSUME ParserInv, CalculationInv, Len(values) < Len(nodes), Word \in Operators
  PROVE  1 \in DOMAIN Current.kids /\ 2 \in DOMAIN Current.kids
<1>1. Len(Current.kids) = 2  BY CurrentIs DEF NodeOK, Word
<1>2. Current.kids \in Seq(Nat)  BY CurrentIs DEF NodeType
<1> QED  BY <1>1, <1>2

LEMMA SameTerminating ==
  ASSUME formula' = formula, nodes' = nodes, NEW n \in Nat,
         \A j \in 1 .. n : exact'[j] = exact[j]
  PROVE  \A k \in 0 .. n : Terminating(k)' = Terminating(k)
<1>1. ASSUME NEW k \in 0 .. n  PROVE Terminating(k)' = Terminating(k)
  <2>1. \A j \in 1 .. k : j \in 1 .. n  OBVIOUS
  <2>2. \A j \in 1 .. k : exact'[j] = exact[j]  BY <2>1
  <2> QED  BY <2>2 DEF Terminating
<1> QED  BY <1>1

LEMMA Longer ==
  ASSUME NEW S, NEW s \in Seq(S), NEW v
  PROVE  /\ Append(s, v) \in Seq(S \cup {v}) /\ Len(Append(s, v)) = Len(s) + 1
         /\ Append(s, v)[Len(s) + 1] = v
         /\ \A k \in 1 .. Len(s) : Append(s, v)[k] = s[k]
<1>1. s \in Seq(S \cup {v}) /\ v \in S \cup {v}
  <2>1. \A k \in 1 .. Len(s) : s[k] \in S \cup {v}  OBVIOUS
  <2> QED  BY <2>1
<1> QED  BY <1>1

\* The value of a node that is worth what it is in fractions.
Dividing(k) ==
  \/ formula[nodes[k].at] = "/"
  \/ formula[nodes[k].at] = "avg" /\ nodes[k].kids # <<>>

LEMMA Returned ==
  ASSUME NEW x, NEW v, NEW n,
         ParserInv, CalculationInv, phase = "evaluating", Len(values) < Len(nodes),
         Return(x, v), n = Len(values) + 1, x \in Decimals,
         Terminating(Len(values)) => HasValue(n),
         Terminating(Len(values)) /\ (Dividing(n) => Terminates(v))
           => Defined(v) /\ Is(x, v)
  PROVE  CalculationInv'
<1>1. /\ values' = Append(values, x) /\ exact' = Append(exact, v)
      /\ parts' = <<>> /\ totals' = <<>> /\ formula' = formula /\ nodes' = nodes
      /\ phase' = phase /\ readings' = readings
  BY DEF Return, parserVars
<1>2. PICK S : exact \in Seq(S)  BY DEF CalculationInv, EvaluationTypeOK
<1>3. values \in Seq(Decimals) /\ Len(exact) = Len(values) /\ Len(values) \in Nat
      /\ Len(nodes) \in Nat /\ n \in Nat
  BY DEF CalculationInv, EvaluationTypeOK, ParserInv, ParserTypeOK
<1>4. /\ values' \in Seq(Decimals) /\ Len(values') = n
      /\ values'[n] = x /\ \A k \in 1 .. Len(values) : values'[k] = values[k]
  BY <1>1, <1>3
<1>5. /\ exact' \in Seq(S \cup {v}) /\ Len(exact') = n
      /\ exact'[n] = v /\ \A k \in 1 .. Len(values) : exact'[k] = exact[k]
  BY <1>1, <1>2, <1>3, Longer
<1>6. EvaluationTypeOK'
  <2>1. <<>> \in Seq(Decimals) /\ Len(<<>>) = 0 /\ <<>> \in Seq({})  OBVIOUS
  <2>2. \A f \in DOMAIN readings' : readings'[f] \in Decimals
    BY <1>1 DEF CalculationInv, EvaluationTypeOK
  <2>3. Len(values') <= Len(nodes')  BY <1>1, <1>3, <1>4
  <2>4. phase' = "evaluating" /\ parts' = <<>> /\ totals' = <<>>  BY <1>1
  <2>5. (\E T : exact' \in Seq(T)) /\ Len(exact') = Len(values')  BY <1>4, <1>5
  <2>6. (\E T : totals' \in Seq(T)) /\ Len(totals') = Len(parts') /\ parts' \in Seq(Decimals)
    BY <2>1, <2>4
  <2> QED  BY <1>4, <2>2, <2>3, <2>4, <2>5, <2>6 DEF EvaluationTypeOK, Begun
<1>7. ReadingsOK'
  BY <1>1 DEF CalculationInv, ReadingsOK, Enterable, InRange, Begun
<1>8. \A k \in 0 .. Len(values) : Terminating(k)' = Terminating(k)
  BY <1>1, <1>3, <1>5, SameTerminating
<1>9. \A k \in 1 .. Len(values) : HasValue(k)' = HasValue(k)
  <2>1. ASSUME NEW k \in 1 .. Len(values)  PROVE HasValue(k)' = HasValue(k)
    <3>1. ASSUME formula[nodes[k].at] = "/"
          PROVE  exact'[nodes[k].kids[2]] = exact[nodes[k].kids[2]]
      <4>1. k \in DOMAIN nodes /\ nodes \in Seq(NodeType)
        BY <1>3 DEF ParserInv, ParserTypeOK
      <4>2. NodeOK(k)  BY <4>1 DEF ParserInv, NodesOK
      <4>3. Len(nodes[k].kids) = 2
        BY <3>1, <4>2 DEF NodeOK, Operators
      <4>0. nodes[k] \in NodeType  BY <4>1
      <4>4. nodes[k].kids \in Seq(Nat)  BY <4>0 DEF NodeType
      <4>5. 2 \in DOMAIN nodes[k].kids  BY <4>3, <4>4
      <4>6. nodes[k].kids[2] \in 1 .. k - 1  BY <4>2, <4>5 DEF NodeOK
      <4>7. nodes[k].kids[2] \in 1 .. Len(values)  BY <1>3, <4>6
      <4> QED  BY <1>5, <4>7
    <3> QED  BY <1>1, <3>1 DEF HasValue
  <2> QED  BY <2>1
<1>10. HasValue(n)' = HasValue(n)
  <2>1. ASSUME formula[nodes[n].at] = "/"
        PROVE  exact'[nodes[n].kids[2]] = exact[nodes[n].kids[2]]
    <3>1. Word \in Operators /\ Current = nodes[n]
      BY <2>1, CurrentIs DEF Word, Operators
    <3>2. 2 \in DOMAIN Current.kids  BY <3>1, TwoKids
    <3>3. Current.kids[2] \in 1 .. Len(values)  BY <3>2, KidIs
    <3> QED  BY <1>5, <3>1, <3>3
  <2> QED  BY <1>1, <2>1 DEF HasValue
<1>11. ValuesOK'
  <2>1. ASSUME NEW k \in 1 .. Len(values)
        PROVE  /\ Terminating(k)' => Defined(exact'[k]) /\ Is(values'[k], exact'[k])
               /\ Terminating(k - 1)' => HasValue(k)'
    <3>1. k \in 0 .. Len(values) /\ k - 1 \in 0 .. Len(values)  BY <1>3
    <3>2. /\ Terminating(k) => Defined(exact[k]) /\ Is(values[k], exact[k])
          /\ Terminating(k - 1) => HasValue(k)
      BY DEF CalculationInv, ValuesOK
    <3>3. PICK i \in 0 .. Len(values) : i = k - 1  BY <3>1
    <3>4. Terminating(k - 1)' => Terminating(k - 1)  BY <1>8, <3>3
    <3> QED  BY <1>4, <1>5, <1>8, <1>9, <3>1, <3>2, <3>4
  <2>2. ASSUME Terminating(n)'
        PROVE  Defined(exact'[n]) /\ Is(values'[n], exact'[n])
    <3>1. Terminating(Len(values))
      <4>1. PICK m \in 0 .. Len(values) : m = Len(values)  BY <1>3
      <4>2. \A j \in 1 .. m : j \in 1 .. n  BY <1>3, <4>1
      <4>3. Terminating(m)'  BY <2>2, <4>2 DEF Terminating
      <4> QED  BY <1>8, <4>1, <4>3
    <3>2. n \in 1 .. n  BY <1>3
    <3>3. Dividing(n) => Terminates(v)
      BY <1>1, <1>5, <2>2, <3>2 DEF Terminating, Dividing
    <3> QED  BY <1>4, <1>5, <3>1, <3>3
  <2>3. \A m : m = n - 1 /\ Terminating(m)' => HasValue(n)'
    <3>1. ASSUME NEW m, m = n - 1, Terminating(m)'  PROVE HasValue(n)'
      <4>1. m = Len(values) /\ m \in 0 .. Len(values)  BY <1>3, <3>1
      <4> QED  BY <1>8, <1>10, <3>1, <4>1
    <3> QED  BY <3>1
  <2>4. ASSUME NEW k \in 1 .. n
        PROVE  /\ Terminating(k)' => Defined(exact'[k]) /\ Is(values'[k], exact'[k])
               /\ Terminating(k - 1)' => HasValue(k)'
    <3>1. CASE k \in 1 .. Len(values)  BY <2>1, <3>1
    <3>2. CASE k \notin 1 .. Len(values)
      <4>1. k = n  BY <1>3, <3>2
      <4>2. PICK m : m = n - 1  OBVIOUS
      <4> QED  BY <2>2, <2>3, <4>1, <4>2
    <3> QED  BY <3>1, <3>2
  <2> QED  BY <1>4, <2>4 DEF ValuesOK
<1>12. PartsOK'  BY <1>1 DEF PartsOK
<1>13. FailedOK'  BY <1>1 DEF FailedOK
<1> QED  BY <1>6, <1>7, <1>11, <1>12, <1>13 DEF CalculationInv

LEMMA NumberKept ==
  ASSUME ParserInv, CalculationInv, EvalNumber
  PROVE  CalculationInv'
<1>1. PICK x, v, n : x = Literal[Word] /\ v = Exactly(x) /\ n = Len(values) + 1  OBVIOUS
<1>2. /\ phase = "evaluating" /\ Len(values) < Len(nodes) /\ Word \in DOMAIN Literal
      /\ Return(x, v)
  BY <1>1 DEF EvalNumber, Evaluates
<1>3. x \in Decimals  BY <1>1, <1>2, FormulaAssumption
<1>4. Defined(v) /\ Is(x, v)  BY <1>1, <1>3, ExactlyIs
<1>5. Word = formula[nodes[n].at]  BY <1>1 DEF Word, Current
<1>6. Word \notin Name /\ Word # "/"
  BY <1>2, FormulaAssumption DEF Name, Operators
<1>7. HasValue(n)  BY <1>5, <1>6 DEF HasValue
<1> QED  BY <1>1, <1>2, <1>3, <1>4, <1>7, Returned

LEMMA VariableKept ==
  ASSUME ParserInv, CalculationInv, EvalVariable
  PROVE  CalculationInv'
<1>1. /\ phase = "evaluating" /\ Len(values) < Len(nodes)
      /\ Word \in Name /\ Current.kids = <<>>
  BY DEF EvalVariable, Evaluates
<1>2. PICK x : x \in Lookup(Word) /\ Return(x, Exactly(x))  BY DEF EvalVariable
<1>3. Word \in DOMAIN readings /\ x = readings[Word]  BY <1>2 DEF Lookup
<1>4. x \in Decimals  BY <1>3 DEF CalculationInv, EvaluationTypeOK
<1>5. PICK v, n : v = Exactly(x) /\ n = Len(values) + 1  OBVIOUS
<1>6. Defined(v) /\ Is(x, v)  BY <1>4, <1>5, ExactlyIs
<1>7. Word = formula[nodes[n].at] /\ Current = nodes[n]  BY <1>5 DEF Word, Current
<1>8. Word # "/"  BY <1>1 DEF Name, Operators
<1>9. HasValue(n)  BY <1>1, <1>3, <1>7, <1>8 DEF HasValue
<1> QED  BY <1>1, <1>2, <1>4, <1>5, <1>6, <1>9, Returned

LEMMA BinaryKept ==
  ASSUME ParserInv, CalculationInv, EvalBinary
  PROVE  CalculationInv'
<1>1. /\ phase = "evaluating" /\ Len(values) < Len(nodes) /\ Word \in Operators /\ ~ByZero
  BY DEF EvalBinary, Evaluates
<1>2. 1 \in DOMAIN Current.kids /\ 2 \in DOMAIN Current.kids  BY <1>1, TwoKids
<1>3. PICK x, y, v, w, n : /\ x = Kid(1) /\ y = Kid(2) /\ v = ExactKid(1) /\ w = ExactKid(2)
                          /\ n = Len(values) + 1
  OBVIOUS
<1>4. /\ x \in Decimals /\ y \in Decimals
      /\ Terminating(Len(values)) => /\ Defined(v) /\ Is(x, v)
                                     /\ Defined(w) /\ Is(y, w)
  BY <1>1, <1>2, <1>3, KidIs
<1>5. Word = formula[nodes[n].at] /\ Current = nodes[n]  BY <1>3 DEF Word, Current
<1>6. Word \notin Name /\ Word # "avg"  BY <1>1 DEF Name, Operators
<1>7. Word # "/" => HasValue(n)  BY <1>5, <1>6 DEF HasValue
<1>8. CASE Word = "+" /\ Return(Plus(x, y), Sum(v, w))
  <2>1. HasValue(n)  BY <1>7, <1>8
  <2>2. Terminating(Len(values)) => Defined(Sum(v, w)) /\ Is(Plus(x, y), Sum(v, w))
    BY <1>4, PlusExact
  <2>3. Plus(x, y) \in Decimals
    <3>1. /\ Defined(Exactly(x)) /\ Is(x, Exactly(x))
          /\ Defined(Exactly(y)) /\ Is(y, Exactly(y))
      BY <1>4, ExactlyIs
    <3> QED  BY <1>4, <3>1, PlusExact
  <2>4. PICK z, u : z = Plus(x, y) /\ u = Sum(v, w)  OBVIOUS
  <2> QED  BY <1>1, <1>3, <1>8, <2>1, <2>2, <2>3, <2>4, Returned
<1>9. CASE Word = "-" /\ Return(Minus(x, y), Difference(v, w))
  <2>1. HasValue(n)  BY <1>7, <1>9
  <2>2. Terminating(Len(values))
          => Defined(Difference(v, w)) /\ Is(Minus(x, y), Difference(v, w))
    BY <1>4, MinusExact
  <2>3. Minus(x, y) \in Decimals
    <3>1. /\ Defined(Exactly(x)) /\ Is(x, Exactly(x))
          /\ Defined(Exactly(y)) /\ Is(y, Exactly(y))
      BY <1>4, ExactlyIs
    <3> QED  BY <1>4, <3>1, MinusExact
  <2>4. PICK z, u : z = Minus(x, y) /\ u = Difference(v, w)  OBVIOUS
  <2> QED  BY <1>1, <1>3, <1>9, <2>1, <2>2, <2>3, <2>4, Returned
<1>10. CASE Word = "*" /\ Return(Times(x, y), Product(v, w))
  <2>1. HasValue(n)  BY <1>7, <1>10
  <2>2. Terminating(Len(values))
          => Defined(Product(v, w)) /\ Is(Times(x, y), Product(v, w))
    BY <1>4, TimesExact
  <2>3. Times(x, y) \in Decimals
    <3>1. /\ Defined(Exactly(x)) /\ Is(x, Exactly(x))
          /\ Defined(Exactly(y)) /\ Is(y, Exactly(y))
      BY <1>4, ExactlyIs
    <3> QED  BY <1>4, <3>1, TimesExact
  <2>4. PICK z, u : z = Times(x, y) /\ u = Product(v, w)  OBVIOUS
  <2> QED  BY <1>1, <1>3, <1>10, <2>1, <2>2, <2>3, <2>4, Returned
<1>11. CASE Word = "/" /\ Return(Div(x, y), Quotient(v, w))
  <2>1. y.n # 0  BY <1>1, <1>3, <1>11 DEF ByZero
  <2>2. Terminating(Len(values)) => HasValue(n)
    <3>1. ASSUME Terminating(Len(values))  PROVE w.num # 0
      <4>1. y.n * w.den = w.num * Ten[y.e] /\ w.den \in Nat \ {0}
        BY <1>4, <3>1 DEF Is, Defined, Fractions
      <4>2. y.n \in Int /\ Ten[y.e] \in Nat  BY <1>4, TenIs DEF Decimals
      <4>3. y.n * w.den # 0  BY <2>1, <4>1, <4>2, NoZero
      <4>4. 0 * Ten[y.e] = 0  BY <4>2
      <4> QED  BY <4>1, <4>3, <4>4
    <3>2. w = exact[nodes[n].kids[2]]  BY <1>3, <1>5 DEF ExactKid
    <3> QED  BY <1>5, <1>6, <3>1, <3>2 DEF HasValue
  <2>3. Div(x, y) \in Decimals  BY <1>4, <2>1, DivType
  <2>4. Dividing(n)  BY <1>5, <1>11 DEF Dividing
  <2>5. PICK z, u : z = Div(x, y) /\ u = Quotient(v, w)  OBVIOUS
  <2>6. Terminating(Len(values)) /\ Terminates(u) => Defined(u) /\ Is(z, u)
    BY <1>4, <2>1, <2>5, DivExact
  <2> QED  BY <1>1, <1>3, <1>11, <2>2, <2>3, <2>4, <2>5, <2>6, Returned
<1> QED  BY <1>3, <1>8, <1>9, <1>10, <1>11 DEF EvalBinary

\* One argument more: the least so far stays the least, or it is the new one.
LEMMA ArgumentKept ==
  ASSUME ParserInv, CalculationInv, EvalArgument
  PROVE  CalculationInv'
<1> DEFINE n == Len(parts)
<1>1. /\ phase = "evaluating" /\ Len(values) < Len(nodes) /\ Word \in Functions
      /\ IsCallNode /\ n < Len(Current.kids)
      /\ formula' = formula /\ nodes' = nodes /\ phase' = phase
      /\ readings' = readings /\ values' = values /\ exact' = exact
  BY DEF EvalArgument, Evaluates, parserVars
<1>2. /\ n \in Nat /\ parts \in Seq(Decimals) /\ Len(totals) = n /\ Len(values) \in Nat
      /\ Current \in NodeType
  BY <1>1, CurrentIs DEF CalculationInv, EvaluationTypeOK
<1>3. n + 1 \in DOMAIN Current.kids /\ Current.kids \in Seq(Nat) /\ Len(Current.kids) \in Nat
  BY <1>1, <1>2 DEF NodeType
<1>4. PICK x, v, r, t : x = Kid(n + 1) /\ v = ExactKid(n + 1) /\ r = parts[n] /\ t = totals[n]
  OBVIOUS
<1>5. /\ x \in Decimals
      /\ Terminating(Len(values)) => Defined(v) /\ Is(x, v)
  BY <1>1, <1>3, <1>4, KidIs
<1>6. PICK next, total :
        /\ next = CASE n = 0                   -> x
                    [] n # 0 /\ Word = "avg" -> Plus(r, x)
                    [] OTHER -> IF Better(x, r) THEN x ELSE r
        /\ total = IF n = 0 THEN v ELSE Sum(t, v)
        /\ parts' = Append(parts, next) /\ totals' = Append(totals, total)
  BY <1>4 DEF EvalArgument
<1>7. n # 0 => r \in Decimals  BY <1>2, <1>4
<1>8. next \in Decimals
  <2>1. n # 0 => Plus(r, x) \in Decimals
    <3>1. n # 0 => /\ Defined(Exactly(x)) /\ Is(x, Exactly(x))
                   /\ Defined(Exactly(r)) /\ Is(r, Exactly(r))
      BY <1>5, <1>7, ExactlyIs
    <3> QED  BY <1>5, <1>7, <3>1, PlusExact
  <2>2. CASE n = 0  BY <1>5, <1>6, <2>2
  <2>3. CASE n # 0 /\ Word = "avg"  BY <1>6, <2>1, <2>3
  <2>4. CASE n # 0 /\ Word # "avg"
    <3>1. next = IF Better(x, r) THEN x ELSE r  BY <1>6, <2>4
    <3> QED  BY <1>5, <1>7, <2>4, <3>1
  <2> QED  BY <2>2, <2>3, <2>4
<1>9. PICK S : totals \in Seq(S)  BY DEF CalculationInv, EvaluationTypeOK
<1>10. /\ parts' \in Seq(Decimals) /\ Len(parts') = n + 1
       /\ parts'[n + 1] = next /\ \A k \in 1 .. n : parts'[k] = parts[k]
  BY <1>2, <1>6, <1>8
<1>11. /\ totals' \in Seq(S \cup {total}) /\ Len(totals') = n + 1
       /\ totals'[n + 1] = total /\ \A k \in 1 .. n : totals'[k] = totals[k]
  BY <1>2, <1>6, <1>9, Longer
<1>12. /\ Current' = Current /\ Word' = Word
       /\ \A i : Kid(i)' = Kid(i) /\ ExactKid(i)' = ExactKid(i)
  BY <1>1 DEF Current, Word, Kid, ExactKid
<1>13. EvaluationTypeOK'
  <2>1. Len(parts') <= Len(Current'.kids)  BY <1>1, <1>2, <1>3, <1>10, <1>12
  <2>2. /\ values \in Seq(Decimals) /\ (\E T : exact \in Seq(T)) /\ Len(exact) = Len(values)
        /\ \A f \in DOMAIN readings : readings[f] \in Decimals
    BY DEF CalculationInv, EvaluationTypeOK
  <2>3. Len(values) <= Len(nodes)  BY <1>1 DEF CalculationInv, EvaluationTypeOK
  <2>4. (\E T : totals' \in Seq(T)) /\ Len(totals') = Len(parts')  BY <1>10, <1>11
  <2> QED  BY <1>1, <1>10, <2>1, <2>2, <2>3, <2>4 DEF EvaluationTypeOK, Begun
<1>14. ReadingsOK'
  BY <1>1 DEF CalculationInv, ReadingsOK, Enterable, InRange, Begun
<1>15. ValuesOK'
  BY <1>1 DEF CalculationInv, ValuesOK, Terminating, HasValue
<1>16. FailedOK'  BY <1>1 DEF FailedOK
<1>17. PartsOK'
  <2>1. SUFFICES ASSUME Terminating(Len(values))'
                 PROVE  \A m \in 1 .. n + 1 :
                   /\ Word = "min" => \E i \in 1 .. m : parts'[m] = Kid(i) /\ Least(m, i)
                   /\ Word = "max" => \E i \in 1 .. m : parts'[m] = Kid(i) /\ Greatest(m, i)
                   /\ Word = "avg" => Defined(totals'[m]) /\ Is(parts'[m], totals'[m])
    <3>1. \A m, i : (Least(m, i)' <=> Least(m, i)) /\ (Greatest(m, i)' <=> Greatest(m, i))
      BY <1>12 DEF Least, Greatest
    <3> QED  BY <1>10, <1>12, <3>1 DEF PartsOK
  <2>2. Terminating(Len(values))  BY <1>1, <2>1 DEF Terminating
  <2>3. Defined(v) /\ Is(x, v)  BY <1>5, <2>2
  <2>4. \A m \in 1 .. n :
          /\ Word = "min" => \E i \in 1 .. m : parts[m] = Kid(i) /\ Least(m, i)
          /\ Word = "max" => \E i \in 1 .. m : parts[m] = Kid(i) /\ Greatest(m, i)
          /\ Word = "avg" => Defined(totals[m]) /\ Is(parts[m], totals[m])
    BY <2>2 DEF CalculationInv, PartsOK
  <2>5. CASE n = 0
    <3>1. next = x /\ total = v  BY <1>6, <2>5
    <3>2. Least(1, 1) /\ Greatest(1, 1)
      <4>1. AtMost(v, v)  BY <2>3, AtMostOrder
      <4>2. \A j \in 1 .. 1 : j = 1  OBVIOUS
      <4> QED  BY <1>4, <2>5, <4>1, <4>2 DEF Least, Greatest
    <3>3. \A m \in 1 .. n + 1 : m = 1  BY <2>5
    <3>4. parts'[1] = Kid(1) /\ totals'[1] = v /\ parts'[1] = x /\ 1 \in 1 .. 1
      BY <1>4, <1>10, <1>11, <2>5, <3>1
    <3> QED  BY <2>3, <3>2, <3>3, <3>4
  <2>6. CASE n # 0
    <3>1. n \in 1 .. n  BY <1>2, <2>6
    <3>2. ASSUME NEW i \in 1 .. n
          PROVE  /\ Kid(i) \in Decimals
                 /\ Defined(ExactKid(i)) /\ Is(Kid(i), ExactKid(i))
      <4>1. i \in DOMAIN Current.kids  BY <1>1, <1>2, <1>3
      <4> QED  BY <1>1, <2>2, <4>1, KidIs
    <3>3. \A j \in 1 .. n + 1 : j \in 1 .. n \/ j = n + 1  BY <1>2
    <3>4. Word = "min" => \E i \in 1 .. n + 1 : next = Kid(i) /\ Least(n + 1, i)
      <4>1. SUFFICES ASSUME Word = "min"
                     PROVE  \E i \in 1 .. n + 1 : next = Kid(i) /\ Least(n + 1, i)
        OBVIOUS
      <4>2. PICK i \in 1 .. n : r = Kid(i) /\ Least(n, i)  BY <1>4, <2>4, <3>1, <4>1
      <4>3. next = IF Less(x, r) THEN x ELSE r  BY <1>6, <2>6, <4>1 DEF Better
      <4>4. Less(x, r) <=> ~AtMost(ExactKid(i), v)
        BY <1>5, <2>3, <3>2, <4>2, LessExact
      <4>5. AtMost(v, v) /\ (AtMost(ExactKid(i), v) \/ AtMost(v, ExactKid(i)))
        BY <2>3, <3>2, AtMostOrder
      <4>6. CASE Less(x, r)
        <5>1. \A j \in 1 .. n : AtMost(v, ExactKid(j))
          BY <2>3, <3>2, <4>2, <4>4, <4>5, <4>6, AtMostOrder DEF Least
        <5>2. Least(n + 1, n + 1)  BY <1>4, <3>3, <4>5, <5>1 DEF Least
        <5>3. n + 1 \in 1 .. n + 1 /\ next = Kid(n + 1)  BY <1>2, <1>4, <4>3, <4>6
        <5> QED  BY <5>2, <5>3
      <4>7. CASE ~Less(x, r)
        <5>1. Least(n + 1, i)  BY <1>4, <3>3, <4>2, <4>4, <4>7 DEF Least
        <5>2. i \in 1 .. n + 1 /\ next = Kid(i)  BY <1>2, <4>2, <4>3, <4>7
        <5> QED  BY <5>1, <5>2
      <4> QED  BY <4>6, <4>7
    <3>5. Word = "max" => \E i \in 1 .. n + 1 : next = Kid(i) /\ Greatest(n + 1, i)
      <4>1. SUFFICES ASSUME Word = "max"
                     PROVE  \E i \in 1 .. n + 1 : next = Kid(i) /\ Greatest(n + 1, i)
        OBVIOUS
      <4>2. PICK i \in 1 .. n : r = Kid(i) /\ Greatest(n, i)  BY <1>4, <2>4, <3>1, <4>1
      <4>3. next = IF Less(r, x) THEN x ELSE r  BY <1>6, <2>6, <4>1 DEF Better
      <4>4. Less(r, x) <=> ~AtMost(v, ExactKid(i))
        BY <1>5, <2>3, <3>2, <4>2, LessExact
      <4>5. AtMost(v, v) /\ (AtMost(ExactKid(i), v) \/ AtMost(v, ExactKid(i)))
        BY <2>3, <3>2, AtMostOrder
      <4>6. CASE Less(r, x)
        <5>1. \A j \in 1 .. n : AtMost(ExactKid(j), v)
          BY <2>3, <3>2, <4>2, <4>4, <4>5, <4>6, AtMostOrder DEF Greatest
        <5>2. Greatest(n + 1, n + 1)  BY <1>4, <3>3, <4>5, <5>1 DEF Greatest
        <5>3. n + 1 \in 1 .. n + 1 /\ next = Kid(n + 1)  BY <1>2, <1>4, <4>3, <4>6
        <5> QED  BY <5>2, <5>3
      <4>7. CASE ~Less(r, x)
        <5>1. Greatest(n + 1, i)  BY <1>4, <3>3, <4>2, <4>4, <4>7 DEF Greatest
        <5>2. i \in 1 .. n + 1 /\ next = Kid(i)  BY <1>2, <4>2, <4>3, <4>7
        <5> QED  BY <5>1, <5>2
      <4> QED  BY <4>6, <4>7
    <3>6. Word = "avg" => Defined(total) /\ Is(next, total)
      <4>1. SUFFICES ASSUME Word = "avg"  PROVE Defined(total) /\ Is(next, total)
        OBVIOUS
      <4>2. Defined(t) /\ Is(r, t)  BY <1>4, <2>4, <3>1, <4>1
      <4>3. next = Plus(r, x) /\ total = Sum(t, v)  BY <1>6, <2>6, <4>1
      <4> QED  BY <1>5, <1>7, <2>3, <2>6, <4>2, <4>3, PlusExact
    <3>7. ASSUME NEW m \in 1 .. n + 1
          PROVE
          /\ Word = "min" => \E i \in 1 .. m : parts'[m] = Kid(i) /\ Least(m, i)
          /\ Word = "max" => \E i \in 1 .. m : parts'[m] = Kid(i) /\ Greatest(m, i)
          /\ Word = "avg" => Defined(totals'[m]) /\ Is(parts'[m], totals'[m])
      <4>1. CASE m \in 1 .. n  BY <1>10, <1>11, <2>4, <4>1
      <4>2. CASE m = n + 1  BY <1>10, <1>11, <3>4, <3>5, <3>6, <4>2
      <4> QED  BY <3>3, <4>1, <4>2
    <3> QED  BY <3>7
  <2> QED  BY <2>5, <2>6
<1> QED  BY <1>13, <1>14, <1>15, <1>16, <1>17 DEF CalculationInv

\* After the last argument.
LEMMA CallKept ==
  ASSUME ParserInv, CalculationInv, EvalCall
  PROVE  CalculationInv'
<1> DEFINE n == Len(parts)
           args == {ExactKid(i) : i \in 1 .. n}
<1>1. /\ phase = "evaluating" /\ Len(values) < Len(nodes) /\ Word \in Functions
      /\ IsCallNode /\ n = Len(Current.kids)
  BY DEF EvalCall, Evaluates
<1>2. /\ parts \in Seq(Decimals) /\ Len(totals) = n /\ Len(values) \in Nat
      /\ Current \in NodeType
  BY <1>1, CurrentIs DEF CalculationInv, EvaluationTypeOK
<1>3. n \in Nat \ {0} /\ DOMAIN Current.kids = 1 .. n
  <2>1. Current.kids \in Seq(Nat) /\ Current.kids # <<>>
    BY <1>1, <1>2 DEF NodeType, IsCallNode
  <2> QED  BY <1>1, <2>1
<1>4. PICK x, k : x = parts[n] /\ k = Len(values) + 1  OBVIOUS
<1>5. x \in Decimals  BY <1>2, <1>3, <1>4
<1>6. Word = formula[nodes[k].at] /\ Current = nodes[k]  BY <1>4 DEF Word, Current
<1>7. Word # "/"  BY <1>1 DEF Functions
<1>8. HasValue(k)  BY <1>1, <1>6, <1>7 DEF HasValue, IsCallNode
<1>9. \A i \in 1 .. n : Terminating(Len(values)) => Defined(ExactKid(i)) /\ Is(Kid(i), ExactKid(i))
  BY <1>1, <1>3, KidIs
<1>10. n \in 1 .. n  BY <1>3
<1>11. Terminating(Len(values)) =>
         /\ Word = "min" => \E i \in 1 .. n : x = Kid(i) /\ Least(n, i)
         /\ Word = "max" => \E i \in 1 .. n : x = Kid(i) /\ Greatest(n, i)
         /\ Word = "avg" => Defined(totals[n]) /\ Is(x, totals[n])
  BY <1>4, <1>10 DEF CalculationInv, PartsOK
<1>12. ASSUME NEW v, Word = "min", v = CHOOSE u \in args : \A w \in args : AtMost(u, w),
              Return(x, v)
       PROVE  CalculationInv'
  <2>1. ASSUME Terminating(Len(values))  PROVE Defined(v) /\ Is(x, v)
    <3>1. PICK i \in 1 .. n : x = Kid(i) /\ Least(n, i)  BY <1>11, <1>12, <2>1
    <3>2. \E u \in args : \A w \in args : AtMost(u, w)  BY <3>1 DEF Least
    <3>3. v \in args /\ \A w \in args : AtMost(v, w)  BY <1>12, <3>2
    <3>4. Defined(v)  BY <1>9, <2>1, <3>3
    <3>5. AtMost(ExactKid(i), v) /\ AtMost(v, ExactKid(i))  BY <3>1, <3>3 DEF Least
    <3> QED  BY <1>5, <1>9, <2>1, <3>1, <3>4, <3>5, SameFraction
  <2> HIDE DEF args
  <2> QED  BY <1>1, <1>4, <1>5, <1>8, <1>12, <2>1, Returned
<1>13. ASSUME NEW v, Word = "max", v = CHOOSE u \in args : \A w \in args : AtMost(w, u),
              Return(x, v)
       PROVE  CalculationInv'
  <2>1. ASSUME Terminating(Len(values))  PROVE Defined(v) /\ Is(x, v)
    <3>1. PICK i \in 1 .. n : x = Kid(i) /\ Greatest(n, i)  BY <1>11, <1>13, <2>1
    <3>2. \E u \in args : \A w \in args : AtMost(w, u)  BY <3>1 DEF Greatest
    <3>3. v \in args /\ \A w \in args : AtMost(w, v)  BY <1>13, <3>2
    <3>4. Defined(v)  BY <1>9, <2>1, <3>3
    <3>5. AtMost(ExactKid(i), v) /\ AtMost(v, ExactKid(i))  BY <3>1, <3>3 DEF Greatest
    <3> QED  BY <1>5, <1>9, <2>1, <3>1, <3>4, <3>5, SameFraction
  <2> HIDE DEF args
  <2> QED  BY <1>1, <1>4, <1>5, <1>8, <1>13, <2>1, Returned
<1>14. CASE Word = "avg" /\ Return(Div(x, Decimal(n, 0)), Quotient(totals[n], Fraction(n, 1)))
  <2>1. PICK y, w, t : y = Decimal(n, 0) /\ w = Fraction(n, 1) /\ t = totals[n]  OBVIOUS
  <2>2. y \in Decimals /\ y.n = n /\ y.e = 0  BY <1>3, <2>1 DEF Decimal, Decimals
  <2>3. w \in Fractions /\ w.num = n /\ w.den = 1  BY <1>3, <2>1, FractionIs
  <2>4. Defined(w) /\ Is(y, w)
    <3>1. Ten[0] = 1  BY TenIs
    <3> QED  BY <1>3, <2>2, <2>3, <3>1 DEF Defined, Is
  <2>5. y.n # 0  BY <1>3, <2>2
  <2>6. PICK z, u : z = Div(x, y) /\ u = Quotient(t, w)  OBVIOUS
  <2>7. z \in Decimals  BY <1>5, <2>2, <2>5, <2>6, DivType
  <2>8. Dividing(k)  BY <1>1, <1>6, <1>14 DEF Dividing, IsCallNode
  <2>9. ASSUME Terminating(Len(values)), Terminates(u)  PROVE Defined(u) /\ Is(z, u)
    <3>1. Defined(t) /\ Is(x, t)  BY <1>11, <1>14, <2>1, <2>9
    <3> QED  BY <1>5, <2>2, <2>4, <2>5, <2>6, <2>9, <3>1, DivExact
  <2>10. Return(z, u)  BY <1>14, <2>1, <2>6
  <2> QED  BY <1>1, <1>4, <1>8, <2>7, <2>8, <2>9, <2>10, Returned
<1> QED  BY <1>4, <1>12, <1>13, <1>14 DEF EvalCall

\* What changes no value.
LEMMA OthersKept ==
  ASSUME ParserInv, ParserInv', CalculationInv,
         \/ ParserNext /\ UNCHANGED calculationVars
         \/ SaveRound \/ Fail \/ Finish \/ UNCHANGED vars
  PROVE  CalculationInv'
<1>1. CASE ParserNext /\ UNCHANGED calculationVars
  <2>1. phase \notin Begun /\ phase' \notin Begun
    <3>1. WriteToken => phase = "writing" /\ phase' = "writing"  BY DEF WriteToken
    <3>2. Begin => phase = "writing" /\ phase' = "atom"  BY DEF Begin
    <3>3. Open \/ OpenCall => phase = "atom" /\ phase' = "atom"  BY DEF Open, OpenCall
    <3>4. Leaf => phase = "atom" /\ phase' = "product"  BY DEF Leaf
    <3>5. Join => phase \in Loops /\ phase' = phase  BY DEF Join
    <3>6. More => phase \in Loops /\ phase' = "atom"  BY DEF More
    <3>7. EndLoop => phase \in Loops /\ phase' \in {"sum", "close"}
      BY DEF EndLoop, After, Loops
    <3>8. CloseGroup \/ CloseCall => phase = "close" /\ phase' = "product"
      BY DEF CloseGroup, CloseCall
    <3>9. NextArgument => phase = "close" /\ phase' = "atom"  BY DEF NextArgument
    <3>10. Accept => phase = "close" /\ phase' = "parsed"  BY DEF Accept
    <3>11. Refuse => phase \in {"atom", "close"} /\ phase' = "refused"  BY DEF Refuse
    <3>12. \A p \in Loops : p \notin Begun  BY DEF Loops, Begun
    <3>13. \A p \in {"writing", "atom", "product", "sum", "close", "parsed", "refused"} :
             p \notin Begun
      BY DEF Begun
    <3> QED
      BY <1>1, <3>1, <3>2, <3>3, <3>4, <3>5, <3>6, <3>7, <3>8, <3>9, <3>10, <3>11,
         <3>12, <3>13 DEF ParserNext
  <2>2. /\ values' = <<>> /\ exact' = <<>> /\ parts' = <<>> /\ totals' = <<>>
        /\ readings' = readings
    BY <1>1, <2>1 DEF CalculationInv, EvaluationTypeOK, calculationVars
  <2>3. Len(<<>>) = 0 /\ <<>> \in Seq(Decimals) /\ <<>> \in Seq({})  OBVIOUS
  <2>4. Len(nodes') \in Nat  BY DEF ParserInv, ParserTypeOK
  <2>5. EvaluationTypeOK'
    <3>1. \A f \in DOMAIN readings' : readings'[f] \in Decimals
      BY <2>2 DEF CalculationInv, EvaluationTypeOK
    <3>2. phase' # "calculated"  BY <2>1 DEF Begun
    <3>3. 0 <= Len(nodes')  BY <2>4
    <3> QED  BY <2>2, <2>3, <3>1, <3>2, <3>3 DEF EvaluationTypeOK
  <2>6. \A k \in 1 .. 0 : FALSE  OBVIOUS
  <2> QED
    BY <2>1, <2>2, <2>3, <2>5, <2>6
    DEF CalculationInv, ReadingsOK, ValuesOK, PartsOK, FailedOK, Begun
<1>2. CASE SaveRound
  <2>1. /\ phase = "parsed" /\ phase' = "evaluating" /\ nodes' = nodes
        /\ values' = values /\ exact' = exact /\ parts' = parts /\ totals' = totals
    BY <1>2 DEF SaveRound
  <2>2. PICK entered \in SUBSET DOMAIN Field :
          \E given \in [entered -> Reading] : Enterable(given) /\ readings' = given
    BY <1>2 DEF SaveRound
  <2>3. \A f \in DOMAIN readings' : readings'[f] \in Decimals
    BY <2>2, CalculationAssumption
  <2>4. /\ values' = <<>> /\ exact' = <<>> /\ parts' = <<>> /\ totals' = <<>>
    BY <2>1 DEF CalculationInv, EvaluationTypeOK, Begun
  <2>5. Len(<<>>) = 0 /\ <<>> \in Seq(Decimals) /\ <<>> \in Seq({})  OBVIOUS
  <2>6. EvaluationTypeOK'
    <3>1. 0 <= Len(nodes')
      <4>1. Len(nodes') \in Nat  BY DEF ParserInv, ParserTypeOK
      <4> QED  BY <4>1
    <3> QED  BY <2>1, <2>3, <2>4, <2>5, <3>1 DEF EvaluationTypeOK
  <2>7. ReadingsOK'  BY <2>2 DEF ReadingsOK, Enterable, InRange
  <2>8. \A k \in 1 .. 0 : FALSE  OBVIOUS
  <2> QED
    BY <2>1, <2>4, <2>5, <2>6, <2>7, <2>8 DEF CalculationInv, ValuesOK, PartsOK, FailedOK
<1>3. CASE Fail
  <2>1. /\ phase = "evaluating" /\ Len(values) < Len(nodes) /\ phase' = "failed"
        /\ formula' = formula /\ nodes' = nodes /\ values' = values /\ exact' = exact
        /\ parts' = parts /\ totals' = totals /\ readings' = readings
    BY <1>3 DEF Fail, Evaluates, calculationVars
  <2>2. \/ Word \in Name /\ ~IsCallNode /\ Word \notin DOMAIN readings
        \/ ByZero
        \/ Word \in Name \ Functions /\ IsCallNode
    BY <1>3 DEF Fail, Evaluates, Lookup, IsCallNode
  <2>3. FailedOK'
    BY <2>1, <2>2 DEF FailedOK, IsCallNode, ByZero, Word, Current, Kid
  <2>4. EvaluationTypeOK'
    BY <2>1 DEF CalculationInv, EvaluationTypeOK, Begun, Current
  <2>5. ReadingsOK'
    BY <2>1 DEF CalculationInv, ReadingsOK, Enterable, InRange, Begun
  <2>6. ValuesOK'  BY <2>1 DEF CalculationInv, ValuesOK, Terminating, HasValue
  <2>7. PartsOK'
    BY <2>1 DEF CalculationInv, PartsOK, Terminating, Word, Current, Kid, ExactKid,
       Least, Greatest
  <2> QED  BY <2>3, <2>4, <2>5, <2>6, <2>7 DEF CalculationInv
<1>4. CASE Finish
  <2>1. /\ phase = "evaluating" /\ Len(values) = Len(nodes) /\ phase' = "calculated"
        /\ formula' = formula /\ nodes' = nodes /\ values' = values /\ exact' = exact
        /\ parts' = parts /\ totals' = totals /\ readings' = readings
    BY <1>4 DEF Finish, calculationVars
  <2>3. FailedOK'  BY <2>1 DEF FailedOK
  <2>4. EvaluationTypeOK'
    BY <2>1 DEF CalculationInv, EvaluationTypeOK, Begun, Current
  <2>5. ReadingsOK'
    BY <2>1 DEF CalculationInv, ReadingsOK, Enterable, InRange, Begun
  <2>6. ValuesOK'  BY <2>1 DEF CalculationInv, ValuesOK, Terminating, HasValue
  <2>7. PartsOK'
    BY <2>1 DEF CalculationInv, PartsOK, Terminating, Word, Current, Kid, ExactKid,
       Least, Greatest
  <2> QED  BY <2>3, <2>4, <2>5, <2>6, <2>7 DEF CalculationInv
<1>5. CASE UNCHANGED vars
  <2>1. /\ formula' = formula /\ nodes' = nodes /\ values' = values /\ exact' = exact
        /\ parts' = parts /\ totals' = totals /\ readings' = readings /\ phase' = phase
    BY <1>5 DEF vars, parserVars, calculationVars
  <2>3. FailedOK'
    BY <2>1 DEF CalculationInv, FailedOK, IsCallNode, ByZero, Word, Current, Kid
  <2>4. EvaluationTypeOK'
    BY <2>1 DEF CalculationInv, EvaluationTypeOK, Begun, Current
  <2>5. ReadingsOK'
    BY <2>1 DEF CalculationInv, ReadingsOK, Enterable, InRange, Begun
  <2>6. ValuesOK'  BY <2>1 DEF CalculationInv, ValuesOK, Terminating, HasValue
  <2>7. PartsOK'
    BY <2>1 DEF CalculationInv, PartsOK, Terminating, Word, Current, Kid, ExactKid,
       Least, Greatest
  <2> QED  BY <2>3, <2>4, <2>5, <2>6, <2>7 DEF CalculationInv
<1> QED  BY <1>1, <1>2, <1>3, <1>4, <1>5

-----------------------------------------------------------------------------
(* The formula engine as a whole.                                           *)

FormulaInv == ParserInv /\ CalculationInv

LEMMA FormulaStarts ==
  CalculationInit => FormulaInv
<1>1. ASSUME CalculationInit  PROVE ParserInv
  BY <1>1, ParserStarts DEF CalculationInit
<1>2. ASSUME CalculationInit  PROVE CalculationInv
  <2>1. /\ phase = "writing" /\ nodes = <<>> /\ readings = <<>> /\ values = <<>>
        /\ parts = <<>> /\ exact = <<>> /\ totals = <<>>
    BY <1>2 DEF CalculationInit, ParserInit
  <2>2. /\ <<>> \in Seq(Decimals) /\ <<>> \in Seq({}) /\ Len(<<>>) = 0
        /\ DOMAIN <<>> = {} /\ 0 <= 0
    OBVIOUS
  <2>3. EvaluationTypeOK  BY <2>1, <2>2 DEF EvaluationTypeOK
  <2>4. \A k \in 1 .. 0 : FALSE  OBVIOUS
  <2> QED
    BY <2>1, <2>2, <2>3, <2>4
    DEF CalculationInv, ReadingsOK, ValuesOK, PartsOK, FailedOK, Begun
<1> QED  BY <1>1, <1>2 DEF FormulaInv

LEMMA FormulaSteps ==
  FormulaInv /\ [CalculationNext]_vars => FormulaInv'
<1> SUFFICES ASSUME ParserInv, CalculationInv, [CalculationNext]_vars
             PROVE  ParserInv' /\ CalculationInv'
  BY DEF FormulaInv
<1>1. CASE ParserNext /\ UNCHANGED calculationVars
  <2>1. ParserInv'  BY <1>1, ParserSteps
  <2> QED  BY <1>1, <2>1, OthersKept
<1>2. ASSUME UNCHANGED parserVars  PROVE ParserInv'
  BY <1>2, ParserRests DEF parserVars
<1>3. CASE SaveRound
  <2>1. /\ UNCHANGED <<formula, pos, levels, nodes>>
        /\ phase \in Read /\ phase' \in Read
    BY <1>3 DEF SaveRound, Read
  <2>2. ParserInv'  BY <2>1, ParserRests
  <2> QED  BY <1>3, <2>2, OthersKept
<1>4. CASE EvalNumber
  <2>1. UNCHANGED parserVars  BY <1>4 DEF EvalNumber, Return
  <2> QED  BY <1>2, <1>4, <2>1, NumberKept
<1>5. CASE EvalVariable
  <2>1. UNCHANGED parserVars  BY <1>5 DEF EvalVariable, Return
  <2> QED  BY <1>2, <1>5, <2>1, VariableKept
<1>6. CASE EvalBinary
  <2>1. UNCHANGED parserVars  BY <1>6 DEF EvalBinary, Return
  <2> QED  BY <1>2, <1>6, <2>1, BinaryKept
<1>7. CASE EvalArgument
  <2>1. UNCHANGED parserVars  BY <1>7 DEF EvalArgument
  <2> QED  BY <1>2, <1>7, <2>1, ArgumentKept
<1>8. CASE EvalCall
  <2>1. UNCHANGED parserVars  BY <1>8 DEF EvalCall, Return
  <2> QED  BY <1>2, <1>8, <2>1, CallKept
<1>9. CASE Fail
  <2>1. /\ UNCHANGED <<formula, pos, levels, nodes>>
        /\ phase \in Read /\ phase' \in Read
    BY <1>9 DEF Fail, Evaluates, Read
  <2>2. ParserInv'  BY <2>1, ParserRests
  <2> QED  BY <1>9, <2>2, OthersKept
<1>10. CASE Finish
  <2>1. /\ UNCHANGED <<formula, pos, levels, nodes>>
        /\ phase \in Read /\ phase' \in Read
    BY <1>10 DEF Finish, Read
  <2>2. ParserInv'  BY <2>1, ParserRests
  <2> QED  BY <1>10, <2>2, OthersKept
<1>11. CASE UNCHANGED vars
  <2>1. ParserInv'  BY <1>2, <1>11 DEF vars
  <2> QED  BY <1>11, <2>1, OthersKept
<1> QED
  BY <1>1, <1>3, <1>4, <1>5, <1>6, <1>7, <1>8, <1>9, <1>10, <1>11 DEF CalculationNext

LEMMA FormulaSafe ==
  CalculationSpec => []FormulaInv
BY FormulaStarts, FormulaSteps, PTL DEF CalculationSpec

\* Divided by zero, a formula is not defined, and it is refused a result.
LEMMA ZeroDivisor ==
  ASSUME ParserInv, CalculationInv, Len(values) < Len(nodes), ByZero
  PROVE  /\ Word = "/"
         /\ Terminating(Len(values)) => ExactKid(2).num = 0
<1>1. Word = "/" /\ Kid(2).n = 0  BY DEF ByZero
<1>2. 2 \in DOMAIN Current.kids  BY <1>1, TwoKids DEF Operators
<1>3. PICK y, w : y = Kid(2) /\ w = ExactKid(2)  OBVIOUS
<1>4. ASSUME Terminating(Len(values))  PROVE w.num = 0
  <2>1. y \in Decimals /\ Defined(w) /\ Is(y, w)  BY <1>2, <1>3, <1>4, KidIs
  <2>2. w.num \in Int /\ w.den \in Nat /\ Ten[y.e] \in Nat \ {0}
    BY <2>1, TenIs DEF Defined, Fractions, Decimals
  <2>3. 0 * w.den = w.num * Ten[y.e]  BY <1>1, <1>3, <2>1 DEF Is
  <2>4. w.num * Ten[y.e] = 0  BY <2>2, <2>3
  <2> QED  BY <2>2, <2>4, NoZero
<1> QED  BY <1>1, <1>3, <1>4

LEMMA InvCalculates ==
  FormulaInv => CalculatedIfDefined
<1> SUFFICES ASSUME ParserInv, CalculationInv  PROVE CalculatedIfDefined
  BY DEF FormulaInv
<1>1. ASSUME phase = "failed", Terminating(Len(values)), NEW k, k = Len(values) + 1
      PROVE  ~HasValue(k)
  <2>1. Len(values) < Len(nodes)  BY <1>1 DEF CalculationInv, FailedOK
  <2>2. Word = formula[nodes[k].at] /\ Current = nodes[k]  BY <1>1 DEF Word, Current
  <2>3. CASE Word \in Name /\ ~IsCallNode /\ Word \notin DOMAIN readings
    BY <2>2, <2>3 DEF HasValue, IsCallNode
  <2>4. CASE ByZero
    <3>1. Word = "/" /\ ExactKid(2).num = 0  BY <1>1, <2>1, <2>4, ZeroDivisor
    <3> QED  BY <2>2, <3>1 DEF HasValue, ExactKid
  <2>5. CASE Word \in Name \ Functions /\ IsCallNode
    BY <2>2, <2>5 DEF HasValue, IsCallNode
  <2> QED  BY <1>1, <2>3, <2>4, <2>5 DEF CalculationInv, FailedOK
<1>2. ASSUME phase = "calculated", NEW k \in DOMAIN nodes, Terminating(k - 1)
      PROVE  HasValue(k)
  <2>1. Len(values) = Len(nodes)  BY <1>2 DEF CalculationInv, EvaluationTypeOK
  <2>2. k \in 1 .. Len(values)  BY <2>1 DEF ParserInv, ParserTypeOK
  <2> QED  BY <1>2, <2>2 DEF CalculationInv, ValuesOK
<1> QED  BY <1>1, <1>2 DEF CalculatedIfDefined

LEMMA InvRounds ==
  FormulaInv => RoundedOnce
<1> SUFFICES ASSUME ParserInv, CalculationInv, phase = "calculated",
                    Terminating(Len(nodes))
             PROVE  Rounds(Result, exact[Len(nodes)])
  BY DEF FormulaInv, RoundedOnce
<1>1. Len(nodes) \in Nat /\ Len(nodes) # 0 /\ Len(values) = Len(nodes)
  <2>1. nodes # <<>>  BY DEF ParserInv, VerdictOK, Read
  <2> QED  BY <2>1 DEF ParserInv, ParserTypeOK, CalculationInv, EvaluationTypeOK
<1>2. PICK n \in 1 .. Len(values) : n = Len(nodes)  BY <1>1
<1>3. values[n] \in Decimals  BY DEF CalculationInv, EvaluationTypeOK
<1>4. Defined(exact[n]) /\ Is(values[n], exact[n])
  BY <1>2 DEF CalculationInv, ValuesOK
<1> QED  BY <1>2, <1>3, <1>4, RoundRight DEF Result

LEMMA InvSuffices ==
  FormulaInv => RequiredSuffice
<1> SUFFICES ASSUME ParserInv, CalculationInv, phase = "failed",
                    \A k \in DOMAIN nodes :
                      LET word == formula[nodes[k].at] IN
                      word \in Name => IF nodes[k].kids = <<>>
                                       THEN Field[word].number /\ Field[word].required
                                       ELSE word \in Functions
             PROVE  Word = "/" /\ Kid(2).n = 0
  BY DEF FormulaInv, RequiredSuffice
<1>1. Len(values) < Len(nodes)  BY DEF CalculationInv, FailedOK
<1>2. PICK k \in DOMAIN nodes : k = Len(values) + 1 /\ Current = nodes[k] /\ NodeOK(k)
  BY <1>1, CurrentIs
<1>3. Word \in Name => IF Current.kids = <<>> THEN Field[Word].number /\ Field[Word].required
                                              ELSE Word \in Functions
  BY <1>2 DEF Word
<1>4. ~(Word \in Name /\ ~IsCallNode /\ Word \notin DOMAIN readings)
  <2>1. SUFFICES ASSUME Word \in Name, Current.kids = <<>>  PROVE Word \in DOMAIN readings
    BY DEF IsCallNode
  <2>2. Word \in DOMAIN Field  BY <1>2, <2>1 DEF NodeOK, Word
  <2>3. Enterable(readings)  BY DEF CalculationInv, ReadingsOK, Begun
  <2> QED  BY <1>3, <2>1, <2>2, <2>3 DEF Enterable
<1>5. ~(Word \in Name \ Functions /\ IsCallNode)  BY <1>3 DEF IsCallNode
<1>6. ByZero  BY <1>4, <1>5 DEF CalculationInv, FailedOK
<1> QED  BY <1>6 DEF ByZero

\* The parser accepts what is well formed and nothing else, and puts every
\* operator between its operands: ParseExpression reads formulas of every length
\* and every nesting as they are meant.
THEOREM ReadAsMeant ==
  CalculationSpec => []ReadsWellFormed
<1>1. FormulaInv => ReadsWellFormed  BY ParserReads DEF FormulaInv
<1> QED  BY <1>1, FormulaSafe, PTL

\* Eval gives a value exactly where the formula has one, as long as no quotient
\* was cut off before.
THEOREM DefinedCalculated ==
  CalculationSpec => []CalculatedIfDefined
BY FormulaSafe, InvCalculates, PTL

\* Calculate rounds the exact value once, for all decimals, precisions and trees
\* whose quotients terminate.
THEOREM RoundedExactly ==
  CalculationSpec => []RoundedOnce
BY FormulaSafe, InvRounds, PTL

\* What SaveRound lets in is enough for a formula of required number fields.
THEOREM RequiredEnough ==
  CalculationSpec => []RequiredSuffice
BY FormulaSafe, InvSuffices, PTL
=============================================================================
