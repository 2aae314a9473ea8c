------------------------------- MODULE MCFormula -------------------------------
(* Short formulas on every set of readings.  Nothing is written after two    *)
(* operands, or two operators, that stand side by side, or a parenthesis     *)
(* that closes none.                                                         *)
EXTENDS Grammar, TLC

MCLiteral == "2" :> Decimal(2, 0)
MCField ==
  ("a" :> [number |-> TRUE, required |-> TRUE, min |-> {Decimal(-5, 1)}, max |-> {}])
    @@ ("b" :> [number |-> TRUE, required |-> FALSE, min |-> {Decimal(0, 0)}, max |-> {Decimal(3, 0)}])
MCReading == {Decimal(0, 0), Decimal(-5, 1), Decimal(3, 0)}

Ends(token) == token \in {")"} \cup DOMAIN Literal \cup Name

Explored ==
  LET before == Len(formula) - 1
      Of(mark) == Cardinality({i \in 1 .. before : formula[i] = mark})
  IN /\ \A i \in 1 .. before - 1 :
          IF formula[i + 1] = "("
          THEN formula[i] # ")" /\ formula[i] \notin DOMAIN Literal
          ELSE Ends(formula[i]) # (Ends(formula[i + 1]) /\ formula[i + 1] # ")")
     /\ Of(")") <= Of("(")
=============================================================================
