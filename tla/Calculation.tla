------------------------------ MODULE Calculation ------------------------------
(***************************************************************************)
(* SaveRound's look at the readings of a round and the calculation of its  *)
(* result: the evaluation of the tree that the parser made, in decimals,   *)
(* and the rounding.  The tree is evaluated operands first, from the left, *)
(* which is the order in which its nodes were made.                        *)
(***************************************************************************)
EXTENDS Formula

CONSTANT Reading        \* decimals a tester may enter

ASSUME CalculationAssumption ==
  /\ Reading \subseteq Decimals
  /\ \A f \in DOMAIN Field : Field[f].min \cup Field[f].max \subseteq Decimals

Functions == {"min", "max", "avg"}

VARIABLES
  readings,   \* the readings of the round, by field
  values,     \* the values of the first nodes
  parts,      \* what the first arguments of a call come to, one, two, ...
  exact,      \* the values in fractions, which nobody calculates
  totals      \* and the sums of the first arguments

calculationVars == <<readings, values, parts, exact, totals>>
vars == <<parserVars, calculationVars>>

-----------------------------------------------------------------------------
(* The readings.  A field has a limit, or none.                             *)

InRange(f, given) ==
  /\ \A limit \in Field[f].min : ~Less(given[f], limit)
  /\ \A limit \in Field[f].max : ~Less(limit, given[f])

Enterable_Partly(given) ==
  \A f \in DOMAIN Field \cap DOMAIN given : Field[f].number => InRange(f, given)
Enterable(given) ==
  \A f \in DOMAIN Field : Field[f].number =>
    IF f \in DOMAIN given THEN InRange(f, given) ELSE ~Field[f].required

SaveRound ==
  /\ phase = "parsed" /\ phase' = "evaluating"
  /\ \E entered \in SUBSET DOMAIN Field : \E given \in [entered -> Reading] :
       Enterable(given) /\ readings' = given
  /\ UNCHANGED <<formula, pos, levels, nodes, values, parts, exact, totals>>

-----------------------------------------------------------------------------
(* The evaluation.                                                          *)

\* The node that is evaluated next, its token and its operands.
Current == nodes[Len(values) + 1]
Word    == formula[Current.at]
Kid(i)  == values[Current.kids[i]]
ExactKid(i) == exact[Current.kids[i]]

Evaluates(words) ==
  phase = "evaluating" /\ Len(values) < Len(nodes) /\ Word \in words

\* The node has the value x, and would have the value v.
Return(x, v) ==
  /\ values' = Append(values, x) /\ exact' = Append(exact, v)
  /\ parts' = <<>> /\ totals' = <<>>
  /\ UNCHANGED <<parserVars, readings>>

EvalNumber ==
  /\ Evaluates(DOMAIN Literal)
  /\ Return(Literal[Word], Exactly(Literal[Word]))

\* The reading of a field, if there is one.
Lookup_OrZero(f) == {IF f \in DOMAIN readings THEN readings[f] ELSE Decimal(0, 0)}
Lookup(f) == IF f \in DOMAIN readings THEN {readings[f]} ELSE {}

EvalVariable ==
  /\ Evaluates(Name) /\ Current.kids = <<>>
  /\ \E x \in Lookup(Word) : Return(x, Exactly(x))

ByZero == Word = "/" /\ Kid(2).n = 0

EvalBinary ==
  /\ Evaluates(Operators) /\ ~ByZero
  /\ LET x == Kid(1)  y == Kid(2)  v == ExactKid(1)  w == ExactKid(2) IN
     \/ Word = "+" /\ Return(Plus(x, y), Sum(v, w))
     \/ Word = "-" /\ Return(Minus(x, y), Difference(v, w))
     \/ Word = "*" /\ Return(Times(x, y), Product(v, w))
     \/ Word = "/" /\ Return(Div(x, y), Quotient(v, w))

IsCallNode == Current.kids # <<>>

\* One argument more, n + 1 in all, after which they come to x.
Better(x, r) == (Word = "min" /\ Less(x, r)) \/ (Word = "max" /\ Less(r, x))

EvalArgument ==
  /\ Evaluates(Functions) /\ IsCallNode /\ Len(parts) < Len(Current.kids)
  /\ LET n == Len(parts)
         x == Kid(n + 1)
         v == ExactKid(n + 1)
     IN /\ parts' = Append(parts,
             CASE n = 0                   -> x
               [] n # 0 /\ Word = "avg" -> Plus(parts[n], x)
               [] OTHER -> IF Better(x, parts[n]) THEN x ELSE parts[n])
        /\ totals' = Append(totals, IF n = 0 THEN v ELSE Sum(totals[n], v))
  /\ UNCHANGED <<parserVars, readings, values, exact>>

\* After the last one.  The least and the greatest argument are what they are.
EvalCall ==
  /\ Evaluates(Functions) /\ IsCallNode /\ Len(parts) = Len(Current.kids)
  /\ LET n == Len(parts)
         x == parts[n]
         args == {ExactKid(i) : i \in 1 .. n}
     IN \/ Word = "min" /\ Return(x, CHOOSE v \in args : \A w \in args : AtMost(v, w))
        \/ Word = "max" /\ Return(x, CHOOSE v \in args : \A w \in args : AtMost(w, v))
        \/ Word = "avg" /\ Return(Div(x, Decimal(n, 0)),
                                  Quotient(totals[n], Fraction(n, 1)))

\* An error in one node is an error in all.
Fail ==
  /\ \/ Evaluates(Name) /\ Current.kids = <<>> /\ Lookup(Word) = {}
     \/ Evaluates(Operators) /\ ByZero
     \/ Evaluates(Name \ Functions) /\ IsCallNode
  /\ phase' = "failed"
  /\ UNCHANGED <<formula, pos, levels, nodes, calculationVars>>

Finish ==
  /\ phase = "evaluating" /\ Len(values) = Len(nodes)
  /\ phase' = "calculated"
  /\ UNCHANGED <<formula, pos, levels, nodes, calculationVars>>

\* The result of the round, when it is calculated.
Result == Round(values[Len(nodes)])

CalculationInit ==
  /\ ParserInit
  /\ readings = <<>> /\ values = <<>> /\ parts = <<>> /\ exact = <<>> /\ totals = <<>>

CalculationNext ==
  \/ ParserNext /\ UNCHANGED calculationVars
  \/ SaveRound
  \/ EvalNumber \/ EvalVariable \/ EvalBinary \/ EvalArgument \/ EvalCall
  \/ Fail \/ Finish

CalculationSpec == CalculationInit /\ [][CalculationNext]_vars

-----------------------------------------------------------------------------
(* Safety.                                                                  *)

\* The node asks for a reading that is there, divides by something else than
\* zero, calls a function there is.
HasValue(k) ==
  LET word == formula[nodes[k].at]
      kids == nodes[k].kids
  IN /\ word \in Name /\ kids = <<>> => word \in DOMAIN readings
     /\ word = "/" => exact[kids[2]].num # 0
     /\ word \in Name /\ kids # <<>> => word \in Functions

\* No quotient among the first k nodes goes on past the places it keeps.
Terminating(k) ==
  \A j \in 1 .. k :
    formula[nodes[j].at] = "/" \/ (formula[nodes[j].at] = "avg" /\ nodes[j].kids # <<>>)
      => Terminates(exact[j])

\* A result is calculated whenever it is defined, and only then: never by
\* filling in a reading that is missing, never past a zero divisor.  (A divisor
\* that a cut off quotient went into is another than the formula's.)
CalculatedIfDefined ==
  /\ phase = "failed" /\ Terminating(Len(values)) => ~HasValue(Len(values) + 1)
  /\ phase = "calculated" =>
       \A k \in DOMAIN nodes : Terminating(k - 1) => HasValue(k)

\* The result is the exact value rounded once, halves away from zero, however
\* the formula nests, if its quotients terminate.
RoundedOnce ==
  phase = "calculated" /\ Terminating(Len(nodes)) => Rounds(Result, exact[Len(nodes)])

\* A round that SaveRound lets the tester enter has a result, if the formula
\* names only required number fields and known functions, unless it divides by
\* zero.
RequiredSuffice ==
  /\ phase = "failed"
  /\ \A k \in DOMAIN nodes :
       LET word == formula[nodes[k].at] IN
       word \in Name => IF nodes[k].kids = <<>>
                        THEN Field[word].number /\ Field[word].required
                        ELSE word \in Functions
  => Word = "/" /\ Kid(2).n = 0
=============================================================================
