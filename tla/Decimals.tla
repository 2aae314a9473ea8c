------------------------------- MODULE Decimals -------------------------------
(***************************************************************************)
(* Decimal arithmetic as shopspring/decimal does it: an integer and the    *)
(* number of its places.  Sums and products are exact, a quotient keeps    *)
(* DivisionPrecision places.  Beside it fractions, which are exact.        *)
(***************************************************************************)
EXTENDS Integers

CONSTANTS
  Precision,          \* places a result is rounded to
  DivisionPrecision   \* places of a quotient

ASSUME DecimalAssumption == Precision \in Nat /\ DivisionPrecision \in Nat

\* The powers of ten.
Ten[k \in Nat] == IF k = 0 THEN 1 ELSE 10 * Ten[k - 1]

Decimals == [n : Int, e : Nat]

\* n / 10^e.
Decimal(n, e) == [n |-> n, e |-> e]

Abs(n) == IF n < 0 THEN -n ELSE n

\* The integer next to num / den, halves away from zero.
Nearest_Down(num, den) ==
  LET down == Abs(num) \div Abs(den)
  IN IF (num < 0) = (den < 0) THEN down ELSE -down
Nearest(num, den) ==
  LET up == (2 * Abs(num) + Abs(den)) \div (2 * Abs(den))
  IN IF (num < 0) = (den < 0) THEN up ELSE -up

Scaled(x, e) == x.n * Ten[e - x.e]
Common(x, y) == IF x.e > y.e THEN x.e ELSE y.e

Plus(x, y)  == Decimal(Scaled(x, Common(x, y)) + Scaled(y, Common(x, y)), Common(x, y))
Minus(x, y) == Plus(x, Decimal(-y.n, y.e))
Times(x, y) == Decimal(x.n * y.n, x.e + y.e)
Div(x, y)   == Decimal(Nearest(x.n * Ten[y.e + DivisionPrecision], y.n * Ten[x.e]),
                       DivisionPrecision)
Less(x, y)  == Scaled(x, Common(x, y)) < Scaled(y, Common(x, y))

Round(x) ==
  IF x.e <= Precision THEN x
  ELSE Decimal(Nearest(x.n, Ten[x.e - Precision]), Precision)

-----------------------------------------------------------------------------
(* Fractions.                                                               *)

\* A denominator of zero stands for what is not defined, and passes it on.
Fractions == [num : Int, den : Nat]

Fraction(num, den) == IF den < 0 THEN [num |-> -num, den |-> -den]
                                 ELSE [num |-> num, den |-> den]

Exactly(x)  == Fraction(x.n, Ten[x.e])
Sum(a, b)   == Fraction(a.num * b.den + b.num * a.den, a.den * b.den)
Difference(a, b) == Fraction(a.num * b.den - b.num * a.den, a.den * b.den)
Product(a, b)    == Fraction(a.num * b.num, a.den * b.den)
Quotient(a, b)   == Fraction(a.num * b.den, a.den * b.num)
AtMost(a, b)     == a.num * b.den <= b.num * a.den

\* The decimal has the value of the fraction.
Is(x, v) == x.n * v.den = v.num * Ten[x.e]

\* The fraction has no more than the places a quotient keeps.
Terminates(v) == v.den # 0 /\ (v.num * Ten[DivisionPrecision]) % v.den = 0

\* The decimal is v rounded to Precision, halves away from zero.
Rounds(x, v) ==
  LET n == Scaled(x, Precision)
      error == 2 * Abs(n * v.den - v.num * Ten[Precision])
  IN /\ x.e <= Precision
     /\ error <= v.den
     /\ error = v.den => Abs(n) * v.den > Abs(v.num) * Ten[Precision]
=============================================================================
