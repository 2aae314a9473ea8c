-------------------------------- MODULE Formula --------------------------------
(***************************************************************************)
(* The formula of a method and the recursive descent parser that reads it, *)
(* for Validate and again for every calculation.  A formula is a sequence  *)
(* of tokens; blanks between them are gone.                                *)
(*                                                                         *)
(* The stack of Go calls is the variable levels: one level for each        *)
(* parseAdd under way, with the parseMul it is in.  The other calls leave  *)
(* nothing behind but the node they made.                                  *)
(***************************************************************************)
EXTENDS Sequences, FiniteSets, Decimals

CONSTANTS
  Token,          \* what a formula is written with
  Literal,        \* the value of each literal among the tokens, a decimal
  Field,          \* MethodField by name: number, required, min and max
  MaxLength       \* bound on the tokens of a formula

Operators == {"+", "-", "*", "/"}
Marks     == {"(", ")", ","}
Name      == Token \ (DOMAIN Literal \cup Operators \cup Marks)

ASSUME FormulaAssumption ==
  /\ MaxLength \in Nat
  /\ DOMAIN Literal \cap (Operators \cup Marks) = {}
  /\ \A literal \in DOMAIN Literal : Literal[literal] \in Decimals
  /\ DOMAIN Field \subseteq Name

VARIABLES
  formula,
  phase,    \* what the parser does next; before it "writing", after it a verdict
  pos,      \* the token it is at
  levels,   \* the calls of parseAdd that have not returned
  nodes     \* the nodes made so far; the last one is what was returned last

parserVars == <<formula, phase, pos, levels, nodes>>

-----------------------------------------------------------------------------
(* The parser.                                                              *)

\* The loops of parseMul and parseAdd, and what comes after each.
Loops == {"product", "sum"}
Takes_Alike == [product |-> Operators, sum |-> {"+", "-"}]
Takes == [product |-> {"*", "/"}, sum |-> {"+", "-"}]
After == [product |-> "sum", sum |-> "close"]

\* There is a token at i, one of these.
Sees(i, tokens) == i \in DOMAIN formula /\ formula[i] \in tokens

\* The parenthesis at open belongs to a call, whatever its name.
IsCall(open) == Sees(open - 1, Name)

\* A level is opened by a parenthesis, the lowest by none.  A loop that waits
\* for its right operand keeps the operator and the left one.
Nothing == [op |-> 0, left |-> 0]
Level(open) == [open |-> open, args |-> <<>>, waits |-> [loop \in Loops |-> Nothing]]
Top == levels[Len(levels)]
Lower == SubSeq(levels, 1, Len(levels) - 1)

Node(at, kids) == [at |-> at, kids |-> kids]

\* The names that are followed by a parenthesis and the others are two things.
SeesCall     == Sees(pos, Name) /\ Sees(pos + 1, {"("})
SeesVariable == Sees(pos, DOMAIN Field) /\ ~Sees(pos + 1, {"("})

Open ==
  /\ phase = "atom" /\ Sees(pos, {"("})
  /\ levels' = Append(levels, Level(pos)) /\ pos' = pos + 1
  /\ UNCHANGED <<formula, phase, nodes>>

OpenCall ==
  /\ phase = "atom" /\ SeesCall
  /\ levels' = Append(levels, Level(pos + 1)) /\ pos' = pos + 2
  /\ UNCHANGED <<formula, phase, nodes>>

Leaf ==
  /\ phase = "atom" /\ (Sees(pos, DOMAIN Literal) \/ SeesVariable)
  /\ nodes' = Append(nodes, Node(pos, <<>>)) /\ pos' = pos + 1
  /\ phase' = "product"
  /\ UNCHANGED <<formula, levels>>

\* A loop has its right operand, goes on to the next one, or ends.
Waits == Top.waits[phase]
SetWaits(waits) == levels' = [levels EXCEPT ![Len(levels)].waits[phase] = waits]

Join ==
  /\ phase \in Loops /\ Waits.op # 0
  /\ nodes' = Append(nodes, Node(Waits.op, <<Waits.left, Len(nodes)>>))
  /\ SetWaits(Nothing)
  /\ UNCHANGED <<formula, phase, pos>>

More ==
  /\ phase \in Loops /\ Waits.op = 0 /\ Sees(pos, Takes[phase])
  /\ SetWaits([op |-> pos, left |-> Len(nodes)])
  /\ pos' = pos + 1 /\ phase' = "atom"
  /\ UNCHANGED <<formula, nodes>>

EndLoop ==
  /\ phase \in Loops /\ Waits.op = 0 /\ ~Sees(pos, Takes[phase])
  /\ phase' = After[phase]
  /\ UNCHANGED <<formula, pos, levels, nodes>>

\* parseAdd returned to whoever called it.
InCall  == Top.open # 0 /\ IsCall(Top.open)
InGroup == Top.open # 0 /\ ~IsCall(Top.open)
Args_LastOnly == <<Len(nodes)>>
Args == Append(Top.args, Len(nodes))
SetArgs(args) == levels' = [levels EXCEPT ![Len(levels)].args = args]
AtEnd   == Top.open = 0 /\ pos = Len(formula) + 1

CloseGroup ==
  /\ phase = "close" /\ InGroup /\ Sees(pos, {")"})
  /\ levels' = Lower /\ pos' = pos + 1 /\ phase' = "product"
  /\ UNCHANGED <<formula, nodes>>

NextArgument ==
  /\ phase = "close" /\ InCall /\ Sees(pos, {","})
  /\ SetArgs(Args)
  /\ pos' = pos + 1 /\ phase' = "atom"
  /\ UNCHANGED <<formula, nodes>>

CloseCall ==
  /\ phase = "close" /\ InCall /\ Sees(pos, {")"})
  /\ nodes' = Append(nodes, Node(Top.open - 1, Args))
  /\ levels' = Lower /\ pos' = pos + 1 /\ phase' = "product"
  /\ UNCHANGED formula

Accept ==
  /\ phase = "close" /\ AtEnd
  /\ phase' = "parsed"
  /\ UNCHANGED <<formula, pos, levels, nodes>>

\* An error is returned by every call there is.
Refuse ==
  /\ \/ phase = "atom" /\ ~(\/ Sees(pos, {"("} \cup DOMAIN Literal)
                            \/ SeesCall \/ SeesVariable)
     \/ phase = "close" /\ ~(\/ Top.open # 0 /\ Sees(pos, {")"})
                             \/ InCall /\ Sees(pos, {","})
                             \/ AtEnd)
  /\ phase' = "refused"
  /\ UNCHANGED <<formula, pos, levels, nodes>>

WriteToken ==
  /\ phase = "writing" /\ Len(formula) < MaxLength
  /\ \E token \in Token : formula' = Append(formula, token)
  /\ UNCHANGED <<phase, pos, levels, nodes>>

\* ParseExpression begins.
Begin ==
  /\ phase = "writing" /\ phase' = "atom"
  /\ pos' = 1 /\ levels' = <<Level(0)>>
  /\ UNCHANGED <<formula, nodes>>

ParserInit ==
  /\ formula = <<>> /\ phase = "writing" /\ pos = 0
  /\ levels = <<>> /\ nodes = <<>>

ParserNext ==
  \/ WriteToken \/ Begin
  \/ Open \/ OpenCall \/ Leaf
  \/ Join \/ More \/ EndLoop
  \/ CloseGroup \/ NextArgument \/ CloseCall
  \/ Accept \/ Refuse

-----------------------------------------------------------------------------
(* Formulas that are well formed, and how they are to be read.              *)

\* The parentheses open after the first i tokens.
Depth(i) ==
  Cardinality({j \in 1 .. i : formula[j] = "("})
    - Cardinality({j \in 1 .. i : formula[j] = ")"})

\* The parenthesis at j is the innermost one around the token at i.
Encloses(j, i) ==
  /\ j < i /\ Sees(j, {"("}) /\ Depth(i - 1) = Depth(j)
  /\ \A k \in j .. i - 1 : Depth(k) >= Depth(j)

\* The token at i, or the beginning, wants an operand after it; or the token
\* ends an operand; or it is the name of a function.
Awaits(i)  == i = 0 \/ Sees(i, Operators \cup {"(", ","})
EndsOne(i) == Sees(i, DOMAIN Literal \cup {")"})
                \/ (Sees(i, DOMAIN Field) /\ ~Sees(i + 1, {"("}))
Calls(i)   == Sees(i, Name) /\ Sees(i + 1, {"("})

\* The token after the one at i is one that may stand there.
Follows(i) ==
  \/ Awaits(i) /\ Sees(i + 1, DOMAIN Literal \cup Name \cup {"("})
  \/ EndsOne(i) /\ (i = Len(formula) \/ Sees(i + 1, Operators \cup {")", ","}))
  \/ Calls(i)

WellFormed ==
  /\ \A i \in 0 .. Len(formula) : Follows(i) /\ Depth(i) >= 0
  /\ Depth(Len(formula)) = 0
  /\ \A i \in DOMAIN formula :
       formula[i] = "," => \E j \in DOMAIN formula : Encloses(j, i) /\ IsCall(j)

\* The operator at j is applied before the one at i beside it: it stands deeper
\* in parentheses, is a product beside a sum, or one of two alike to the left.
IsProduct(i)  == formula[i] \in {"*", "/"}
Tighter(j, i) == \/ Depth(j) > Depth(i)
                 \/ Depth(j) = Depth(i) /\ IsProduct(j) /\ ~IsProduct(i)
Alike(j, i)   == Depth(j) = Depth(i) /\ (IsProduct(j) <=> IsProduct(i))

Operation(k) == formula[nodes[k].at] \in Operators

\* The operands of an operator are what stands to its left and to its right,
\* and what is an operand of another's result is applied before it.
Ordered(k) ==
  LET at == nodes[k].at
      l  == nodes[k].kids[1]
      r  == nodes[k].kids[2]
  IN /\ l < r /\ r = k - 1
     /\ \A m \in 1 .. l : nodes[m].at < at
     /\ \A m \in l + 1 .. r : at < nodes[m].at
     /\ Operation(l) => Tighter(nodes[l].at, at) \/ Alike(nodes[l].at, at)
     /\ Operation(r) => Tighter(nodes[r].at, at)

-----------------------------------------------------------------------------
(* Safety.                                                                  *)

\* Validate accepts exactly the formulas in which operands and operators
\* alternate, every name is a function or a field, parentheses match and commas
\* stand directly in calls; and in the tree it makes every operator has its
\* operands on its two sides, products before sums and both from the left.
\* (Any name may stand before a parenthesis, although README.md:106 knows min, max
\* and avg only: that it is none of them is found out when a result is calculated.)
ReadsWellFormed ==
  /\ phase = "refused" => ~WellFormed
  /\ phase = "parsed" => /\ WellFormed
                         /\ \A k \in DOMAIN nodes : Operation(k) => Ordered(k)
=============================================================================
