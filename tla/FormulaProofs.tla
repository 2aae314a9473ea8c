----------------------------- MODULE FormulaProofs -----------------------------
(***************************************************************************)
(* The parser of formulas reads exactly what is well formed, and reads it  *)
(* as it is meant: the invariant of its stack and that of its tree.        *)
(***************************************************************************)
EXTENDS Formula, FiniteSetTheorems, SequenceTheorems, TLAPS

Parsing == {"atom", "product", "sum", "close"}
Read    == {"parsed", "evaluating", "calculated", "failed"}

WaitType  == [op : Nat, left : Nat]
LevelType == [open : Nat, args : Seq(Nat), waits : [Loops -> WaitType]]
NodeType  == [at : Nat, kids : Seq(Nat)]

ParserTypeOK ==
  /\ formula \in Seq(Token)
  /\ phase \in {"writing", "refused"} \cup Parsing \cup Read
  /\ pos \in Nat
  /\ levels \in Seq(LevelType)
  /\ nodes \in Seq(NodeType)

\* Every level belongs to a parenthesis that is open.
OpenOK(k) ==
  LET open == levels[k].open IN
  /\ open \in 1 .. pos - 1 /\ formula[open] = "(" /\ Depth(open) = k - 1
  /\ \A i \in open .. pos - 1 : Depth(i) >= k - 1

LevelsOK ==
  phase \in Parsing =>
    /\ Len(levels) >= 1 /\ levels[1].open = 0
    /\ pos \in 1 .. Len(formula) + 1
    /\ Depth(pos - 1) = Len(levels) - 1
    /\ \A i \in 0 .. pos - 1 : Depth(i) >= 0
    /\ \A k \in 2 .. Len(levels) : OpenOK(k)

\* What was read is the beginning of a formula that is well formed.
CommaOK(i) ==
  formula[i] = "," => \E j \in DOMAIN formula : Encloses(j, i) /\ IsCall(j)

PrefixOK ==
  phase \in Parsing =>
    /\ \A i \in 0 .. pos - 2 : Follows(i)
    /\ IF phase = "atom" THEN Awaits(pos - 1) ELSE EndsOne(pos - 1)
    /\ \A i \in 1 .. pos - 1 : CommaOK(i)
    /\ phase = "sum" => ~Sees(pos, {"*", "/"})
    /\ phase = "close" => ~Sees(pos, Operators)

\* The nodes made are in order.
NodeOK(k) ==
  LET at   == nodes[k].at
      kids == nodes[k].kids
  IN /\ at \in DOMAIN formula
     /\ formula[at] \in DOMAIN Literal \cup Name \cup Operators
     /\ \A i \in DOMAIN kids : kids[i] \in 1 .. k - 1
     /\ formula[at] \in DOMAIN Literal => kids = <<>>
     /\ formula[at] \in Operators => Len(kids) = 2 /\ Ordered(k)
     /\ formula[at] \in Name /\ kids = <<>> => formula[at] \in DOMAIN Field

NodesOK == \A k \in DOMAIN nodes : NodeOK(k)

\* They are nodes of what was read.
BehindOK == \A k \in DOMAIN nodes : nodes[k].at < pos

\* The operators that wait stand one behind the other, each between the nodes
\* to its left and those to its right.
WaitOK(k, loop) ==
  LET op   == levels[k].waits[loop].op
      left == levels[k].waits[loop].left
  IN op # 0 =>
     /\ op \in levels[k].open + 1 .. pos - 1
     /\ formula[op] \in Takes[loop] /\ Depth(op) = k - 1
     /\ \A higher \in k + 1 .. Len(levels) : op < levels[higher].open
     /\ left \in 1 .. Len(nodes) /\ (phase # "atom" => left < Len(nodes))
     /\ \A m \in 1 .. left : nodes[m].at < op
     /\ \A m \in left + 1 .. Len(nodes) : op < nodes[m].at
     /\ Operation(left) => Tighter(nodes[left].at, op) \/ Alike(nodes[left].at, op)

WaitsOK ==
  phase \in Parsing =>
    \A k \in DOMAIN levels :
      /\ \A loop \in Loops : WaitOK(k, loop)
      /\ levels[k].waits["sum"].op # 0 /\ levels[k].waits["product"].op # 0
           => levels[k].waits["sum"].op < levels[k].waits["product"].op
      /\ \A i \in DOMAIN levels[k].args : levels[k].args[i] \in 1 .. Len(nodes)

\* What the node made last is to the loop that has it.
LastOK ==
  LET at == nodes[Len(nodes)].at
      d  == Len(levels) - 1
      waits == levels[Len(levels)].waits
  IN
  /\ phase \in {"product", "sum", "close"} =>
       /\ nodes # <<>>
       /\ Operation(Len(nodes)) => Depth(at) >= d
  /\ phase = "product" /\ Operation(Len(nodes)) =>
       Depth(at) > d \/ (IsProduct(at) /\ waits["product"].op = 0)
  /\ phase \in {"sum", "close"} => waits["product"].op = 0
  /\ phase = "sum" /\ Operation(Len(nodes)) =>
       Depth(at) > d \/ IsProduct(at) \/ waits["sum"].op = 0
  /\ phase = "close" => waits["sum"].op = 0

\* What the parser is done with.
VerdictOK ==
  /\ phase = "writing" => nodes = <<>>
  /\ phase = "refused" => ~WellFormed
  /\ phase \in Read => WellFormed /\ nodes # <<>>

ParserInv ==
  /\ ParserTypeOK /\ LevelsOK /\ PrefixOK
  /\ NodesOK /\ BehindOK /\ WaitsOK /\ (phase \in Parsing => LastOK) /\ VerdictOK

-----------------------------------------------------------------------------
(* Parentheses.                                                             *)

\* One more token, and one more mark if it is that one.
LEMMA OneMore ==
  ASSUME NEW i \in Nat, NEW mark
  PROVE  LET Of(n) == {j \in 1 .. n : formula[j] = mark} IN
         /\ Cardinality(Of(i)) \in Nat
         /\ Cardinality(Of(i + 1)) =
              IF formula[i + 1] = mark THEN Cardinality(Of(i)) + 1 ELSE Cardinality(Of(i))
<1> DEFINE Of(n) == {j \in 1 .. n : formula[j] = mark}
<1>1. IsFiniteSet(Of(i)) /\ Cardinality(Of(i)) \in Nat
  <2>1. IsFiniteSet(1 .. i)  BY FS_Interval
  <2>2. Of(i) \subseteq 1 .. i  OBVIOUS
  <2> QED  BY <2>1, <2>2, FS_Subset, FS_CardinalityType
<1>2. CASE formula[i + 1] = mark
  <2>1. Of(i + 1) = Of(i) \cup {i + 1}  BY <1>2
  <2>2. i + 1 \notin Of(i)  OBVIOUS
  <2> QED  BY <1>1, <1>2, <2>1, <2>2, FS_AddElement
<1>3. CASE formula[i + 1] # mark
  <2>1. Of(i + 1) = Of(i)
    <3>1. ASSUME NEW j \in Of(i + 1)  PROVE j \in Of(i)
      <4>1. j \in 1 .. i + 1 /\ formula[j] = mark  BY <3>1
      <4>2. j # i + 1  BY <4>1, <1>3
      <4> QED  BY <4>1, <4>2
    <3> QED  BY <3>1
  <2> QED  BY <1>1, <1>3, <2>1
<1> QED  BY <1>1, <1>2, <1>3

\* The depth is an integer, which each parenthesis changes by one.
LEMMA DepthSteps ==
  /\ Depth(0) = 0
  /\ \A i \in Nat : Depth(i) \in Int
  /\ \A i \in Nat :
       Depth(i + 1) = IF formula[i + 1] = "(" THEN Depth(i) + 1
                      ELSE IF formula[i + 1] = ")" THEN Depth(i) - 1 ELSE Depth(i)
<1>1. Depth(0) = 0
  <2>1. \A mark : {j \in 1 .. 0 : formula[j] = mark} = {}  OBVIOUS
  <2>2. Cardinality({}) = 0  BY FS_EmptySet
  <2> QED  BY <2>1, <2>2 DEF Depth
<1>2. ASSUME NEW i \in Nat
      PROVE  /\ Depth(i) \in Int
             /\ Depth(i + 1) = IF formula[i + 1] = "(" THEN Depth(i) + 1
                               ELSE IF formula[i + 1] = ")" THEN Depth(i) - 1
                               ELSE Depth(i)
  <2> DEFINE Of(mark, n) == Cardinality({j \in 1 .. n : formula[j] = mark})
  <2>1. \A mark : /\ Of(mark, i) \in Nat
                 /\ Of(mark, i + 1) = IF formula[i + 1] = mark THEN Of(mark, i) + 1
                                                           ELSE Of(mark, i)
    BY OneMore
  <2>2. \A n : Depth(n) = Of("(", n) - Of(")", n)  BY DEF Depth
  <2> HIDE DEF Of
  <2>3. "(" # ")"  OBVIOUS
  <2>4. /\ Of("(", i) \in Nat /\ Of(")", i) \in Nat
        /\ Of("(", i + 1) = IF formula[i + 1] = "(" THEN Of("(", i) + 1 ELSE Of("(", i)
        /\ Of(")", i + 1) = IF formula[i + 1] = ")" THEN Of(")", i) + 1 ELSE Of(")", i)
    BY <2>1
  <2>5. /\ Depth(i) = Of("(", i) - Of(")", i)
        /\ Depth(i + 1) = Of("(", i + 1) - Of(")", i + 1)
    BY <2>2
  <2> QED  BY <2>3, <2>4, <2>5
<1> QED  BY <1>1, <1>2

LEMMA DepthAt ==
  ASSUME NEW i \in Nat \ {0}
  PROVE  /\ Depth(i) \in Int /\ Depth(i - 1) \in Int
         /\ formula[i] = "(" => Depth(i) = Depth(i - 1) + 1
         /\ formula[i] = ")" => Depth(i) = Depth(i - 1) - 1
         /\ formula[i] \notin {"(", ")"} => Depth(i) = Depth(i - 1)
<1>1. PICK j \in Nat : j = i - 1  OBVIOUS
<1>2. i = j + 1  BY <1>1
<1>3. "(" # ")"  OBVIOUS
<1> QED  BY <1>1, <1>2, <1>3, DepthSteps

\* What is said of the formula stays true while nobody writes.
LEMMA SameFormula ==
  ASSUME formula' = formula
  PROVE  /\ \A i : Depth(i)' = Depth(i)
         /\ \A i, tokens : Sees(i, tokens)' = Sees(i, tokens)
         /\ \A i : IsCall(i)' = IsCall(i) /\ IsProduct(i)' = IsProduct(i)
         /\ \A i : Awaits(i)' = Awaits(i) /\ EndsOne(i)' = EndsOne(i)
         /\ \A i : Follows(i)' = Follows(i) /\ CommaOK(i)' = CommaOK(i)
         /\ \A j, i : Tighter(j, i)' = Tighter(j, i) /\ Alike(j, i)' = Alike(j, i)
         /\ WellFormed' = WellFormed
<1>1. \A i : Depth(i)' = Depth(i)  BY DEF Depth
<1>2. \A i, tokens : Sees(i, tokens)' = Sees(i, tokens)  BY DEF Sees
<1>3. \A i : IsCall(i)' = IsCall(i) /\ IsProduct(i)' = IsProduct(i)
  BY DEF IsCall, IsProduct, Sees
<1>4. \A i : Awaits(i)' = Awaits(i) /\ EndsOne(i)' = EndsOne(i)
  BY DEF Awaits, EndsOne, Sees
<1>5. \A i : Follows(i)' = Follows(i)  BY DEF Follows, Awaits, EndsOne, Calls, Sees
<1>6. \A i : CommaOK(i)' = CommaOK(i)  BY <1>1 DEF CommaOK, Encloses, IsCall, Sees
<1>7. \A j, i : Tighter(j, i)' = Tighter(j, i) /\ Alike(j, i)' = Alike(j, i)
  BY <1>1 DEF Tighter, Alike, IsProduct
<1>8. WellFormed' = WellFormed
  BY <1>1, <1>5, <1>6 DEF WellFormed, CommaOK, Encloses, IsCall, Sees
<1> QED  BY <1>1, <1>2, <1>3, <1>4, <1>5, <1>6, <1>7, <1>8

-----------------------------------------------------------------------------
(* Types.                                                                   *)

LEMMA LevelTyped ==
  \A open \in Nat : Level(open) \in LevelType
BY DEF Level, LevelType, WaitType, Nothing, Loops

\* A change of what a loop of the top level waits for changes nothing else.
LEMMA WaitsSet ==
  ASSUME levels \in Seq(LevelType), Len(levels) >= 1, phase \in Loops,
         NEW waits \in WaitType, SetWaits(waits)
  PROVE  /\ levels' \in Seq(LevelType) /\ Len(levels') = Len(levels)
         /\ \A k \in 1 .. Len(levels) :
              /\ levels'[k].open = levels[k].open /\ levels'[k].args = levels[k].args
              /\ k # Len(levels) => levels'[k] = levels[k]
         /\ levels'[Len(levels)].waits[phase] = waits
         /\ \A loop \in Loops \ {phase} :
              levels'[Len(levels)].waits[loop] = levels[Len(levels)].waits[loop]
<1> DEFINE n   == Len(levels)
           top == [levels[n] EXCEPT !.waits[phase] = waits]
<1>1. n \in 1 .. n /\ levels[n] \in LevelType  OBVIOUS
<1>2. /\ top \in LevelType /\ top.open = levels[n].open /\ top.args = levels[n].args
      /\ top.waits[phase] = waits
      /\ \A loop \in Loops \ {phase} : top.waits[loop] = levels[n].waits[loop]
  BY <1>1 DEF LevelType
<1>3. levels' = [levels EXCEPT ![n] = top]  BY DEF SetWaits
<1> HIDE DEF top
<1>4. /\ levels' \in Seq(LevelType) /\ Len(levels') = n
      /\ \A k \in 1 .. n : levels'[k] = IF k = n THEN top ELSE levels[k]
  BY <1>1, <1>2, <1>3
<1> QED  BY <1>1, <1>2, <1>4

LEMMA ArgsSet ==
  ASSUME levels \in Seq(LevelType), Len(levels) >= 1, NEW args \in Seq(Nat), SetArgs(args)
  PROVE  /\ levels' \in Seq(LevelType) /\ Len(levels') = Len(levels)
         /\ \A k \in 1 .. Len(levels) :
              /\ levels'[k].open = levels[k].open /\ levels'[k].waits = levels[k].waits
              /\ levels'[k].args = IF k = Len(levels) THEN args ELSE levels[k].args
<1> DEFINE n   == Len(levels)
           top == [levels[n] EXCEPT !.args = args]
<1>1. n \in 1 .. n /\ levels[n] \in LevelType  OBVIOUS
<1>2. /\ top \in LevelType /\ top.open = levels[n].open /\ top.args = args
      /\ top.waits = levels[n].waits
  BY <1>1 DEF LevelType
<1>3. levels' = [levels EXCEPT ![n] = top]  BY DEF SetArgs
<1> HIDE DEF top
<1>4. /\ levels' \in Seq(LevelType) /\ Len(levels') = n
      /\ \A k \in 1 .. n : levels'[k] = IF k = n THEN top ELSE levels[k]
  BY <1>1, <1>2, <1>3
<1> QED  BY <1>1, <1>2, <1>4

LEMMA ParserTypes ==
  ASSUME ParserTypeOK, LevelsOK, ParserNext
  PROVE  ParserTypeOK'
<1> USE DEF ParserTypeOK, Parsing, Read
<1>1. CASE WriteToken  BY <1>1 DEF WriteToken
<1>2. CASE Begin  BY <1>2, LevelTyped DEF Begin
<1>3. CASE Open  BY <1>3, LevelTyped DEF Open
<1>4. CASE OpenCall  BY <1>4, LevelTyped DEF OpenCall
<1>5. CASE Leaf
  <2>1. Node(pos, <<>>) \in NodeType  BY DEF Node, NodeType
  <2> QED  BY <1>5, <2>1 DEF Leaf
<1>6. ASSUME phase \in Loops \cup {"close"}
      PROVE  /\ Len(levels) >= 1 /\ Len(levels) \in DOMAIN levels
             /\ Top \in LevelType
  <2>1. Len(levels) >= 1  BY <1>6 DEF LevelsOK, Loops
  <2> QED  BY <2>1 DEF Top
<1>7. CASE Join
  <2>1. Top \in LevelType /\ phase \in Loops /\ Len(levels) >= 1
    BY <1>6, <1>7 DEF Join
  <2>2. Waits \in WaitType  BY <2>1 DEF Waits, LevelType
  <2>3. Node(Waits.op, <<Waits.left, Len(nodes)>>) \in NodeType
    BY <2>2 DEF Node, NodeType, WaitType
  <2>4. levels' \in Seq(LevelType)
    <3>1. Nothing \in WaitType  BY DEF Nothing, WaitType
    <3> QED  BY <1>7, <2>1, <3>1, WaitsSet DEF Join
  <2> QED  BY <1>7, <2>3, <2>4 DEF Join
<1>8. CASE More
  <2>1. [op |-> pos, left |-> Len(nodes)] \in WaitType  BY DEF WaitType
  <2>2. levels' \in Seq(LevelType)  BY <1>6, <1>8, <2>1, WaitsSet DEF More
  <2> QED  BY <1>8, <2>2 DEF More
<1>9. CASE EndLoop  BY <1>9 DEF EndLoop, After, Loops
<1>10. Lower \in Seq(LevelType)
  <2>1. CASE Len(levels) = 0  BY <2>1 DEF Lower
  <2>2. CASE Len(levels) # 0  BY <2>2 DEF Lower
  <2> QED  BY <2>1, <2>2
<1>11. CASE CloseGroup  BY <1>10, <1>11 DEF CloseGroup
<1>12. ASSUME phase = "close"  PROVE Args \in Seq(Nat)
  <2>1. Top.args \in Seq(Nat)  BY <1>6, <1>12 DEF LevelType
  <2> QED  BY <2>1 DEF Args
<1>13. CASE NextArgument
  <2>1. levels' \in Seq(LevelType)
    BY <1>6, <1>12, <1>13, ArgsSet DEF NextArgument
  <2>2. formula' = formula /\ nodes' = nodes /\ phase' = "atom" /\ pos' = pos + 1
    BY <1>13 DEF NextArgument
  <2> QED  BY <2>1, <2>2
<1>14. CASE CloseCall
  <2>1. Node(Top.open - 1, Args) \in NodeType
    BY <1>6, <1>12, <1>14 DEF CloseCall, InCall, Node, NodeType, LevelType
  <2> QED  BY <1>10, <1>14, <2>1 DEF CloseCall
<1>15. CASE Accept  BY <1>15 DEF Accept
<1>16. CASE Refuse  BY <1>16 DEF Refuse
<1> QED
  BY <1>1, <1>2, <1>3, <1>4, <1>5, <1>7, <1>8, <1>9, <1>11, <1>13, <1>14, <1>15, <1>16
     DEF ParserNext

-----------------------------------------------------------------------------
(* The stack.                                                               *)

\* A token that is no parenthesis opens and closes nothing.
LEMMA Marked ==
  /\ \A x \in Operators \cup DOMAIN Literal \cup Name \cup {","} : x \notin {"(", ")"}
  /\ "(" # ")"
BY FormulaAssumption DEF Operators, Marks, Name

\* A range in two parts.
LEMMA TwoParts ==
  \A a, b, c \in Int : \A i \in a .. c - 1 : i \in a .. b - 1 \/ i \in b .. c - 1
OBVIOUS

LEMMA LevelsKept ==
  /\ ParserTypeOK /\ LevelsOK /\ phase \in Parsing /\ formula' = formula
  /\ Len(levels') = Len(levels)
  /\ \A k \in 1 .. Len(levels) : levels'[k].open = levels[k].open
  /\ \/ pos' = pos
     \/ pos' = pos + 1 /\ pos \in DOMAIN formula /\ formula[pos] \notin {"(", ")"}
  => LevelsOK'
<1>0. SUFFICES
        ASSUME ParserTypeOK, LevelsOK, phase \in Parsing, formula' = formula,
               Len(levels') = Len(levels),
               \A k \in 1 .. Len(levels) : levels'[k].open = levels[k].open,
               \/ pos' = pos
               \/ /\ pos' = pos + 1 /\ pos \in DOMAIN formula
                  /\ formula[pos] \notin {"(", ")"}
        PROVE  LevelsOK'
  OBVIOUS
<1>1. /\ Len(levels) >= 1 /\ levels[1].open = 0
      /\ pos \in 1 .. Len(formula) + 1
      /\ Depth(pos - 1) = Len(levels) - 1
      /\ \A i \in 0 .. pos - 1 : Depth(i) >= 0
      /\ \A k \in 2 .. Len(levels) : OpenOK(k)
      /\ pos \in Nat /\ Len(levels) \in Nat /\ Len(formula) \in Nat
  BY <1>0 DEF LevelsOK, ParserTypeOK
<1>2. pos' \in 1 .. Len(formula) + 1 /\ pos' >= pos /\ pos' \in Nat
  BY <1>0, <1>1
<1>3. \A i \in pos .. pos' - 1 : Depth(i) = Len(levels) - 1
  <2>1. CASE pos' = pos  BY <1>1, <2>1
  <2>2. CASE pos' = pos + 1 /\ formula[pos] \notin {"(", ")"}
    <3>1. pos \in Nat \ {0}  BY <1>1
    <3>2. Depth(pos) = Depth(pos - 1)  BY <2>2, <3>1, DepthAt
    <3>3. \A i \in pos .. pos' - 1 : i = pos  BY <1>1, <2>2
    <3> QED  BY <1>1, <3>2, <3>3
  <2> QED  BY <1>0, <2>1, <2>2
<1>4. Depth(pos' - 1) = Len(levels) - 1
  <2>1. CASE pos' = pos  BY <1>1, <2>1
  <2>2. CASE pos' = pos + 1
    <3>1. pos \in pos .. pos' - 1 /\ pos' - 1 = pos  BY <1>1, <2>2
    <3> QED  BY <1>3, <3>1
  <2> QED  BY <1>0, <2>1, <2>2
<1>5. \A i \in 0 .. pos' - 1 : Depth(i) >= 0
  <2>1. \A i \in 0 .. pos' - 1 : i \in 0 .. pos - 1 \/ i \in pos .. pos' - 1
    <3>1. pos \in Nat  BY <1>1
    <3> QED  BY <3>1
  <2>2. Len(levels) - 1 >= 0  BY <1>1
  <2> QED  BY <1>1, <1>3, <2>1, <2>2
<1>6. ASSUME NEW k \in 2 .. Len(levels)
      PROVE  /\ levels[k].open \in 1 .. pos' - 1 /\ formula[levels[k].open] = "("
             /\ Depth(levels[k].open) = k - 1
             /\ \A i \in levels[k].open .. pos' - 1 : Depth(i) >= k - 1
  <2>1. OpenOK(k)  BY <1>1
  <2>2. \A i \in levels[k].open .. pos' - 1 :
          i \in levels[k].open .. pos - 1 \/ i \in pos .. pos' - 1
    <3>1. PICK open \in Int : open = levels[k].open  BY <2>1 DEF OpenOK
    <3>2. pos \in Int /\ pos' \in Int  BY <1>1, <1>2
    <3> QED  BY <3>1, <3>2, TwoParts
  <2>3. \A i \in pos .. pos' - 1 : Depth(i) >= k - 1  BY <1>1, <1>3
  <2>4. levels[k].open \in 1 .. pos' - 1  BY <1>1, <1>2, <2>1 DEF OpenOK
  <2> QED  BY <2>1, <2>2, <2>3, <2>4 DEF OpenOK
<1>7. \A k \in 2 .. Len(levels') : OpenOK(k)'
  BY <1>0, <1>6, SameFormula DEF OpenOK
<1>8. levels'[1].open = 0  BY <1>0, <1>1
<1> QED  BY <1>0, <1>1, <1>2, <1>4, <1>5, <1>7, <1>8, SameFormula DEF LevelsOK

LEMMA LevelsPushed ==
  ASSUME NEW open \in Nat
  PROVE  /\ ParserTypeOK /\ LevelsOK /\ phase \in Parsing /\ formula' = formula
         /\ open \in {pos, pos + 1} /\ open \in DOMAIN formula /\ formula[open] = "("
         /\ open = pos + 1 => formula[pos] \notin {"(", ")"}
         /\ levels' = Append(levels, Level(open)) /\ pos' = open + 1
         => LevelsOK'
<1>0. SUFFICES
        ASSUME ParserTypeOK, LevelsOK, phase \in Parsing, formula' = formula,
               open \in {pos, pos + 1}, open \in DOMAIN formula, formula[open] = "(",
               open = pos + 1 => formula[pos] \notin {"(", ")"},
               levels' = Append(levels, Level(open)), pos' = open + 1
        PROVE  LevelsOK'
  OBVIOUS
<1>1. /\ Len(levels) >= 1 /\ levels[1].open = 0
      /\ pos \in 1 .. Len(formula) + 1
      /\ Depth(pos - 1) = Len(levels) - 1
      /\ \A i \in 0 .. pos - 1 : Depth(i) >= 0
      /\ \A k \in 2 .. Len(levels) : OpenOK(k)
      /\ pos \in Nat /\ Len(levels) \in Nat /\ Len(formula) \in Nat
  BY <1>0 DEF LevelsOK, ParserTypeOK
<1>2. open \in 1 .. Len(formula) /\ open >= pos /\ pos' - 1 = open  BY <1>0, <1>1 DEF ParserTypeOK
<1>3. Depth(open - 1) = Len(levels) - 1
  <2>1. CASE open = pos  BY <1>1, <2>1
  <2>2. CASE open = pos + 1
    <3>1. pos \in Nat \ {0} /\ open - 1 = pos  BY <1>1, <2>2
    <3> QED  BY <1>0, <1>1, <2>2, <3>1, DepthAt
  <2> QED  BY <1>0, <2>1, <2>2
<1>4. Depth(open) = Len(levels)
  <2>1. open \in Nat \ {0}  BY <1>1, <1>2
  <2> QED  BY <1>0, <1>1, <1>3, <2>1, DepthAt
<1>5. \A i \in pos .. open : Depth(i) >= Len(levels) - 1
  <2>1. \A i \in pos .. open : i = open \/ i = open - 1  BY <1>0, <1>1, <1>2
  <2> QED  BY <1>1, <1>3, <1>4, <2>1
<1>6. \A i \in 0 .. open : Depth(i) >= 0
  <2>1. \A i \in 0 .. open : i \in 0 .. pos - 1 \/ i \in pos .. open  BY <1>1, <1>2
  <2>2. Len(levels) - 1 >= 0  BY <1>1
  <2>3. \A i \in Nat : Depth(i) \in Int  BY DepthSteps
  <2>4. ASSUME NEW i \in pos .. open  PROVE Depth(i) >= 0
    <3>1. i \in Nat  BY <1>1
    <3> QED  BY <1>1, <1>5, <2>3, <3>1
  <2> QED  BY <1>1, <2>1, <2>4
<1>7. /\ Len(levels') = Len(levels) + 1 /\ levels'[Len(levels) + 1].open = open
      /\ \A k \in 1 .. Len(levels) : levels'[k] = levels[k]
  BY <1>0 DEF ParserTypeOK, Level
<1>8. ASSUME NEW k \in 2 .. Len(levels)
      PROVE  OpenOK(k)'
  <2>1. OpenOK(k)  BY <1>1
  <2>2. \A i \in levels[k].open .. open :
          i \in levels[k].open .. pos - 1 \/ i \in pos .. open
    BY <1>1, <1>2, <2>1 DEF OpenOK
  <2>3. ASSUME NEW i \in pos .. open  PROVE Depth(i) >= k - 1
    <3>1. Depth(i) \in Int /\ Depth(i) >= Len(levels) - 1
      <4>1. i \in Nat  BY <1>1
      <4> QED  BY <1>5, <4>1, DepthSteps
    <3>2. k <= Len(levels) /\ Len(levels) \in Nat  BY <1>1
    <3> QED  BY <3>1, <3>2
  <2>4. levels'[k] = levels[k]  BY <1>7
  <2> QED  BY <1>0, <1>1, <1>2, <2>1, <2>2, <2>3, <2>4, SameFormula DEF OpenOK
<1>9. \A k : k = Len(levels) + 1 => OpenOK(k)'
  <2>1. \A i \in open .. pos' - 1 : i = open  BY <1>2
  <2>2. Len(levels) + 1 - 1 = Len(levels) /\ levels'[Len(levels) + 1].open = open
    BY <1>1, <1>7
  <2>3. open \in 1 .. pos' - 1  BY <1>1, <1>2
  <2>4. \A i \in open .. pos' - 1 : Depth(i) >= Len(levels)  BY <1>1, <1>4, <2>1
  <2>5. ASSUME NEW k, k = Len(levels) + 1  PROVE OpenOK(k)'
    <3>1. levels'[k].open = open /\ k - 1 = Len(levels)  BY <2>2, <2>5
    <3> QED  BY <1>0, <1>4, <2>3, <2>4, <3>1, SameFormula DEF OpenOK
  <2> QED  BY <2>5
<1>10. \A k \in 2 .. Len(levels') : k \in 2 .. Len(levels) \/ k = Len(levels) + 1
  BY <1>1, <1>7
<1>11. /\ Len(levels') >= 1 /\ levels'[1].open = 0
       /\ pos' \in 1 .. Len(formula) + 1
  BY <1>0, <1>1, <1>2, <1>7
<1>12. Depth(pos' - 1) = Len(levels') - 1  BY <1>1, <1>2, <1>4, <1>7
<1> QED  BY <1>0, <1>2, <1>6, <1>8, <1>9, <1>10, <1>11, <1>12, SameFormula DEF LevelsOK

LEMMA LevelsPopped ==
  /\ ParserTypeOK /\ LevelsOK /\ phase \in Parsing /\ formula' = formula
  /\ Top.open # 0 /\ Sees(pos, {")"}) /\ levels' = Lower /\ pos' = pos + 1
  => /\ LevelsOK'
     /\ Len(levels) >= 2 /\ Len(levels') = Len(levels) - 1
     /\ \A k \in 1 .. Len(levels') : levels'[k] = levels[k]
<1>0. SUFFICES
        ASSUME ParserTypeOK, LevelsOK, phase \in Parsing, formula' = formula,
               Top.open # 0, Sees(pos, {")"}), levels' = Lower, pos' = pos + 1
        PROVE  /\ LevelsOK'
               /\ Len(levels) >= 2 /\ Len(levels') = Len(levels) - 1
               /\ \A k \in 1 .. Len(levels') : levels'[k] = levels[k]
  OBVIOUS
<1>1. /\ Len(levels) >= 1 /\ levels[1].open = 0
      /\ pos \in 1 .. Len(formula) + 1
      /\ Depth(pos - 1) = Len(levels) - 1
      /\ \A i \in 0 .. pos - 1 : Depth(i) >= 0
      /\ \A k \in 2 .. Len(levels) : OpenOK(k)
      /\ pos \in Nat /\ Len(levels) \in Nat /\ Len(formula) \in Nat
  BY <1>0 DEF LevelsOK, ParserTypeOK
<1>2. Len(levels) >= 2  BY <1>0, <1>1 DEF Top, ParserTypeOK
<1>3. /\ Len(levels') = Len(levels) - 1
      /\ \A k \in 1 .. Len(levels') : levels'[k] = levels[k]
  BY <1>0, <1>2 DEF Lower, ParserTypeOK
<1>4. pos \in DOMAIN formula /\ formula[pos] = ")"  BY <1>0 DEF Sees
<1>5. Depth(pos) = Len(levels) - 2
  <2>1. pos \in Nat \ {0}  BY <1>1
  <2> QED  BY <1>1, <1>4, <2>1, DepthAt
<1>6. \A i \in 0 .. pos : Depth(i) >= 0
  <2>1. \A i \in 0 .. pos : i \in 0 .. pos - 1 \/ i = pos  BY <1>1
  <2> QED  BY <1>1, <1>2, <1>5, <2>1
<1>7. ASSUME NEW k \in 2 .. Len(levels')
      PROVE  OpenOK(k)'
  <2>1. OpenOK(k) /\ levels'[k] = levels[k] /\ k - 1 <= Len(levels) - 2 /\ pos' - 1 = pos
    BY <1>0, <1>1, <1>2, <1>3
  <2>2. \A i \in levels[k].open .. pos : i \in levels[k].open .. pos - 1 \/ i = pos
    BY <1>1, <2>1 DEF OpenOK
  <2> QED  BY <1>0, <1>1, <1>2, <1>5, <2>1, <2>2, SameFormula DEF OpenOK
<1>8. /\ Len(levels') >= 1 /\ levels'[1].open = 0 /\ pos' - 1 = pos
      /\ pos' \in 1 .. Len(formula) + 1
  BY <1>0, <1>1, <1>2, <1>3, <1>4 DEF ParserTypeOK
<1>9. Depth(pos' - 1) = Len(levels') - 1  BY <1>2, <1>3, <1>5, <1>8
<1> QED  BY <1>0, <1>2, <1>3, <1>6, <1>7, <1>8, <1>9, SameFormula DEF LevelsOK

LEMMA LevelsStep ==
  ASSUME ParserTypeOK, LevelsOK, ParserNext
  PROVE  LevelsOK'
<1>1. /\ phase \in Loops \cup {"atom", "close"} => phase \in Parsing
      /\ phase \in Loops \cup {"close"} => Len(levels) >= 1
  BY DEF LevelsOK, Parsing, Loops
<1>2. levels \in Seq(LevelType) /\ pos \in Nat /\ formula \in Seq(Token)
  BY DEF ParserTypeOK
<1>3. CASE WriteToken  BY <1>3 DEF WriteToken, LevelsOK, Parsing
<1>4. CASE Begin
  <2>1. formula' = formula /\ pos' = 1 /\ levels' = <<Level(0)>>  BY <1>4 DEF Begin
  <2>2. Len(levels') = 1 /\ levels'[1].open = 0  BY <2>1 DEF Level
  <2>3. Depth(0) = 0  BY DepthSteps
  <2>4. pos' - 1 = 0 /\ pos' \in 1 .. Len(formula') + 1  BY <1>2, <2>1
  <2>5. \A i \in 0 .. pos' - 1 : i = 0  BY <2>4
  <2>6. Depth(pos - 1)' = 0
    <3>1. \A i : i = 0 => Depth(i)' = 0  BY <2>1, <2>3, SameFormula
    <3> QED  BY <2>4, <3>1
  <2> QED  BY <2>1, <2>2, <2>3, <2>4, <2>5, <2>6, SameFormula DEF LevelsOK
<1>5. CASE Open
  <2>1. /\ pos \in DOMAIN formula /\ formula[pos] = "(" /\ pos' = pos + 1
        /\ formula' = formula /\ levels' = Append(levels, Level(pos)) /\ phase \in Parsing
    BY <1>5 DEF Open, Sees, Parsing
  <2>2. pos # pos + 1  BY <1>2
  <2> QED  BY <1>2, <2>1, <2>2, LevelsPushed
<1>6. CASE OpenCall
  <2>1. /\ pos + 1 \in DOMAIN formula /\ formula[pos + 1] = "(" /\ formula[pos] \in Name
        /\ pos' = pos + 1 + 1 /\ pos + 1 \in Nat
        /\ formula' = formula /\ levels' = Append(levels, Level(pos + 1)) /\ phase \in Parsing
    BY <1>2, <1>6 DEF OpenCall, SeesCall, Sees, Parsing
  <2>2. formula[pos] \notin {"(", ")"}  BY <2>1, Marked
  <2> QED  BY <2>1, <2>2, LevelsPushed
<1>7. CASE Leaf
  <2>1. /\ pos \in DOMAIN formula /\ formula[pos] \in DOMAIN Literal \cup Name
        /\ pos' = pos + 1 /\ formula' = formula /\ levels' = levels /\ phase \in Parsing
    BY <1>7, FormulaAssumption DEF Leaf, SeesVariable, Sees, Parsing
  <2>2. formula[pos] \notin {"(", ")"}  BY <2>1, Marked
  <2> QED  BY <2>1, <2>2, LevelsKept
<1>8. CASE Join
  <2>1. /\ formula' = formula /\ pos' = pos /\ phase \in Loops /\ SetWaits(Nothing)
        /\ Nothing \in WaitType
    BY <1>8 DEF Join, Nothing, WaitType
  <2>2. /\ Len(levels') = Len(levels)
        /\ \A k \in 1 .. Len(levels) : levels'[k].open = levels[k].open
    BY <1>1, <1>2, <2>1, WaitsSet
  <2> QED  BY <1>1, <2>1, <2>2, LevelsKept
<1>9. CASE More
  <2>1. /\ formula' = formula /\ pos' = pos + 1 /\ phase \in Loops
        /\ pos \in DOMAIN formula /\ formula[pos] \in Operators
    BY <1>9 DEF More, Sees, Takes, Loops, Operators
  <2>2. /\ Len(levels') = Len(levels)
        /\ \A k \in 1 .. Len(levels) : levels'[k].open = levels[k].open
    <3>1. [op |-> pos, left |-> Len(nodes)] \in WaitType
      BY <1>2 DEF WaitType, ParserTypeOK
    <3> QED  BY <1>1, <1>2, <1>9, <3>1, WaitsSet DEF More
  <2>3. formula[pos] \notin {"(", ")"}  BY <2>1, Marked
  <2> QED  BY <1>1, <2>1, <2>2, <2>3, LevelsKept
<1>10. CASE EndLoop  BY <1>1, <1>10, LevelsKept DEF EndLoop
<1>11. CASE CloseGroup
  <2>1. phase \in Parsing /\ Top.open # 0  BY <1>1, <1>11 DEF CloseGroup, InGroup
  <2> QED  BY <1>11, <2>1, LevelsPopped DEF CloseGroup
<1>12. CASE NextArgument
  <2>1. /\ formula' = formula /\ pos' = pos + 1 /\ phase = "close" /\ SetArgs(Args)
        /\ pos \in DOMAIN formula /\ formula[pos] = ","
    BY <1>12 DEF NextArgument, Sees
  <2>2. Args \in Seq(Nat)
    <3>1. Top \in LevelType
      <4>1. Len(levels) >= 1  BY <1>1, <2>1
      <4> QED  BY <1>2, <4>1 DEF Top
    <3>0. nodes \in Seq(NodeType)  BY DEF ParserTypeOK
    <3>2. Top.args \in Seq(Nat) /\ Len(nodes) \in Nat  BY <3>0, <3>1 DEF LevelType
    <3> QED  BY <3>2 DEF Args
  <2>3. /\ Len(levels') = Len(levels)
        /\ \A k \in 1 .. Len(levels) : levels'[k].open = levels[k].open
    BY <1>1, <1>2, <2>1, <2>2, ArgsSet
  <2>4. formula[pos] \notin {"(", ")"}  BY <2>1, Marked
  <2> QED  BY <1>1, <2>1, <2>3, <2>4, LevelsKept
<1>13. CASE CloseCall
  <2>1. phase \in Parsing /\ Top.open # 0  BY <1>1, <1>13 DEF CloseCall, InCall
  <2> QED  BY <1>13, <2>1, LevelsPopped DEF CloseCall
<1>14. CASE Accept  BY <1>14 DEF Accept, LevelsOK, Parsing
<1>15. CASE Refuse  BY <1>15 DEF Refuse, LevelsOK, Parsing
<1> QED
  BY <1>3, <1>4, <1>5, <1>6, <1>7, <1>8, <1>9, <1>10, <1>11, <1>12, <1>13, <1>14, <1>15
     DEF ParserNext

-----------------------------------------------------------------------------
(* What was read.                                                           *)

LEMMA AtWork ==
  ASSUME ParserTypeOK, LevelsOK, phase \in Parsing
  PROVE  /\ pos \in Nat \ {0} /\ pos <= Len(formula) + 1 /\ Len(formula) \in Nat
         /\ Len(levels) \in Nat \ {0} /\ Len(levels) \in DOMAIN levels
         /\ Top \in LevelType /\ Len(nodes) \in Nat
<1>1. pos \in Nat /\ pos \in 1 .. Len(formula) + 1 /\ Len(formula) \in Nat
  BY DEF ParserTypeOK, LevelsOK
<1>2. Len(levels) \in Nat /\ Len(levels) >= 1 /\ Len(nodes) \in Nat
  BY DEF ParserTypeOK, LevelsOK
<1>3. Len(levels) \in DOMAIN levels /\ levels \in Seq(LevelType)
  BY <1>2 DEF ParserTypeOK
<1> QED  BY <1>1, <1>2, <1>3 DEF Top

\* Only commas have to stand in a call, and they do where the parser takes one.
LEMMA NoComma ==
  \A i : formula[i] # "," => CommaOK(i)
BY DEF CommaOK

LEMMA CommaTaken ==
  ASSUME ParserTypeOK, LevelsOK, phase \in Parsing, InCall, pos \in DOMAIN formula
  PROVE  CommaOK(pos)
<1> DEFINE n == Len(levels)
           j == levels[n].open
<1>1. n \in 2 .. n /\ IsCall(j)
  <2>1. n >= 1 /\ n \in Nat /\ levels[1].open = 0  BY DEF LevelsOK, ParserTypeOK
  <2>2. n # 1  BY <2>1 DEF InCall, Top
  <2> QED  BY <2>1, <2>2 DEF InCall, Top
<1>2. OpenOK(n) /\ Depth(pos - 1) = n - 1 /\ pos \in Nat  BY <1>1 DEF LevelsOK, ParserTypeOK
<1>3. /\ j \in 1 .. pos - 1 /\ formula[j] = "(" /\ Depth(j) = n - 1
      /\ \A i \in j .. pos - 1 : Depth(i) >= n - 1
  BY <1>2 DEF OpenOK
<1>4. j \in DOMAIN formula /\ j < pos  BY <1>2, <1>3 DEF ParserTypeOK
<1>5. Encloses(j, pos)  BY <1>2, <1>3, <1>4 DEF Encloses, Sees
<1> QED  BY <1>1, <1>4, <1>5 DEF CommaOK

\* The next token may stand where it does.
LEMMA NextFollows ==
  ASSUME pos \in Nat \ {0}
  PROVE  /\ Awaits(pos - 1) /\ Sees(pos, DOMAIN Literal \cup Name \cup {"("})
              => Follows(pos - 1)
         /\ EndsOne(pos - 1) /\ Sees(pos, Operators \cup {")", ","}) => Follows(pos - 1)
<1>1. pos - 1 + 1 = pos  OBVIOUS
<1> QED  BY <1>1 DEF Follows

LEMMA PrefixGrown ==
  /\ ParserTypeOK /\ LevelsOK /\ PrefixOK /\ phase \in Parsing /\ formula' = formula
  /\ pos' = pos + 1 /\ Follows(pos - 1) /\ CommaOK(pos)
  => /\ \A i \in 0 .. pos' - 2 : Follows(i)'
     /\ \A i \in 1 .. pos' - 1 : CommaOK(i)'
<1>0. SUFFICES
        ASSUME ParserTypeOK, LevelsOK, PrefixOK, phase \in Parsing, formula' = formula,
               pos' = pos + 1, Follows(pos - 1), CommaOK(pos)
        PROVE  /\ \A i \in 0 .. pos - 1 : Follows(i)
               /\ \A i \in 1 .. pos : CommaOK(i)
  <2>1. ASSUME pos' = pos + 1, pos \in Nat  PROVE pos' - 2 = pos - 1 /\ pos' - 1 = pos
    BY <2>1
  <2> QED  BY <2>1, SameFormula DEF ParserTypeOK
<1>1. pos \in Nat /\ pos >= 1  BY <1>0, AtWork
<1>2. /\ \A i \in 0 .. pos - 2 : Follows(i)
      /\ \A i \in 1 .. pos - 1 : CommaOK(i)
  BY <1>0 DEF PrefixOK
<1>3. /\ \A i \in 0 .. pos - 1 : i \in 0 .. pos - 2 \/ i = pos - 1
      /\ \A i \in 1 .. pos : i \in 1 .. pos - 1 \/ i = pos
  BY <1>1
<1> QED  BY <1>0, <1>2, <1>3

LEMMA PrefixStep ==
  ASSUME ParserTypeOK, LevelsOK, PrefixOK, ParserNext
  PROVE  PrefixOK'
<1>0. /\ Parsing = {"atom", "product", "sum", "close"} /\ Loops = {"product", "sum"}
      /\ phase \in Parsing => pos \in Nat \ {0}
  BY AtWork DEF Parsing, Loops
<1>1. CASE WriteToken  BY <1>0, <1>1 DEF WriteToken, PrefixOK
<1>2. CASE Begin
  <2>1. formula' = formula /\ pos' = 1 /\ phase' = "atom"  BY <1>2 DEF Begin
  <2>2. Awaits(0)  BY DEF Awaits
  <2>3. Awaits(pos - 1)'
    <3>1. \A i : i = 0 => Awaits(i)'  BY <2>1, <2>2, SameFormula
    <3>2. pos' - 1 = 0  BY <2>1
    <3> QED  BY <3>1, <3>2
  <2>4. (0 .. pos' - 2) = {} /\ (1 .. pos' - 1) = {}  BY <2>1
  <2> QED  BY <2>1, <2>3, <2>4 DEF PrefixOK
<1>3. ASSUME phase \in Parsing, formula' = formula, pos' = pos + 1,
             phase' \in {"atom", "product"}, Follows(pos - 1), CommaOK(pos),
             IF phase' = "atom" THEN Awaits(pos) ELSE EndsOne(pos)
      PROVE  PrefixOK'
  <2>1. /\ \A i \in 0 .. pos' - 2 : Follows(i)'
        /\ \A i \in 1 .. pos' - 1 : CommaOK(i)'
    BY <1>3, PrefixGrown
  <2>2. IF phase' = "atom" THEN Awaits(pos - 1)' ELSE EndsOne(pos - 1)'
    <3>1. \A i : i = pos => IF phase' = "atom" THEN Awaits(i)' ELSE EndsOne(i)'
      BY <1>3, SameFormula
    <3>2. pos' - 1 = pos  BY <1>0, <1>3
    <3> QED  BY <3>1, <3>2
  <2> QED  BY <1>3, <2>1, <2>2 DEF PrefixOK
<1>4. CASE Open
  <2>1. /\ phase = "atom" /\ formula' = formula /\ pos' = pos + 1 /\ phase' = "atom"
        /\ pos \in DOMAIN formula /\ formula[pos] = "("
    BY <1>4 DEF Open, Sees
  <2>2. Awaits(pos - 1)  BY <1>0, <2>1 DEF PrefixOK
  <2>3. Follows(pos - 1)  BY <1>0, <2>1, <2>2, NextFollows DEF Sees
  <2>4. Awaits(pos) /\ CommaOK(pos)  BY <2>1 DEF Awaits, Sees, CommaOK
  <2> QED  BY <1>0, <1>3, <2>1, <2>3, <2>4
<1>5. CASE OpenCall
  <2>1. /\ phase = "atom" /\ formula' = formula /\ pos' = pos + 2 /\ phase' = "atom"
        /\ pos \in DOMAIN formula /\ formula[pos] \in Name
        /\ pos + 1 \in DOMAIN formula /\ formula[pos + 1] = "("
    BY <1>5 DEF OpenCall, SeesCall, Sees
  <2>2. Awaits(pos - 1)  BY <1>0, <2>1 DEF PrefixOK
  <2>3. Follows(pos - 1)  BY <1>0, <2>1, <2>2, NextFollows DEF Sees
  <2>4. Follows(pos)  BY <2>1 DEF Follows, Calls, Sees
  <2>5. CommaOK(pos) /\ CommaOK(pos + 1) /\ Awaits(pos + 1)
    <3>1. formula[pos] # ","  BY <2>1 DEF Name, Marks
    <3> QED  BY <2>1, <3>1 DEF CommaOK, Awaits, Sees
  <2>6. \A i \in 0 .. pos : Follows(i)
    <3>1. \A i \in 0 .. pos : i \in 0 .. pos - 2 \/ i = pos - 1 \/ i = pos  BY <1>0, <2>1
    <3>2. \A i \in 0 .. pos - 2 : Follows(i)  BY <1>0, <2>1 DEF PrefixOK
    <3> QED  BY <2>3, <2>4, <3>1, <3>2
  <2>7. \A i \in 1 .. pos + 1 : CommaOK(i)
    <3>1. \A i \in 1 .. pos + 1 : i \in 1 .. pos - 1 \/ i = pos \/ i = pos + 1
      BY <1>0, <2>1
    <3>2. \A i \in 1 .. pos - 1 : CommaOK(i)  BY <1>0, <2>1 DEF PrefixOK
    <3> QED  BY <2>5, <3>1, <3>2
  <2>8. pos' - 2 = pos /\ pos' - 1 = pos + 1  BY <1>0, <2>1
  <2>9. Awaits(pos - 1)'
    <3>1. \A i : i = pos + 1 => Awaits(i)'  BY <2>1, <2>5, SameFormula
    <3> QED  BY <2>8, <3>1
  <2> QED  BY <2>1, <2>6, <2>7, <2>8, <2>9, SameFormula DEF PrefixOK
<1>6. CASE Leaf
  <2>1. /\ phase = "atom" /\ formula' = formula /\ pos' = pos + 1 /\ phase' = "product"
        /\ Sees(pos, DOMAIN Literal) \/ SeesVariable
    BY <1>6 DEF Leaf
  <2>2. pos \in DOMAIN formula /\ formula[pos] \in DOMAIN Literal \cup Name
    BY <2>1, FormulaAssumption DEF SeesVariable, Sees
  <2>3. Awaits(pos - 1)  BY <1>0, <2>1 DEF PrefixOK
  <2>4. Follows(pos - 1)  BY <1>0, <2>1, <2>2, <2>3, NextFollows DEF Sees
  <2>5. EndsOne(pos)  BY <2>1 DEF SeesVariable, EndsOne, Sees
  <2>6. CommaOK(pos)
    <3>1. formula[pos] # ","  BY <2>2, FormulaAssumption DEF Name, Marks
    <3> QED  BY <3>1, NoComma
  <2> QED  BY <1>0, <1>3, <2>1, <2>4, <2>5, <2>6
<1>7. ASSUME phase \in Loops \cup {"close"}, formula' = formula, pos' = pos,
             phase' \in Loops \cup {"close"},
             phase' = "sum" => ~Sees(pos, {"*", "/"}),
             phase' = "close" => ~Sees(pos, Operators)
      PROVE  PrefixOK'
  <2>1. /\ \A i \in 0 .. pos - 2 : Follows(i)
        /\ EndsOne(pos - 1)
        /\ \A i \in 1 .. pos - 1 : CommaOK(i)
    BY <1>0, <1>7 DEF PrefixOK
  <2>2. EndsOne(pos - 1)'
    <3>1. \A i : i = pos - 1 => EndsOne(i)'  BY <1>7, <2>1, SameFormula
    <3> QED  BY <1>7, <3>1
  <2>3. \A tokens : Sees(pos, tokens)' = Sees(pos, tokens)
    BY <1>7 DEF Sees
  <2> QED  BY <1>0, <1>7, <2>1, <2>2, <2>3, SameFormula DEF PrefixOK
<1>8. CASE Join
  <2>1. /\ phase \in Loops /\ formula' = formula /\ pos' = pos /\ phase' = phase
    BY <1>8 DEF Join
  <2> QED  BY <1>0, <1>7, <2>1 DEF PrefixOK
<1>9. CASE More
  <2>1. /\ phase \in Loops /\ formula' = formula /\ pos' = pos + 1 /\ phase' = "atom"
        /\ pos \in DOMAIN formula /\ formula[pos] \in Operators
    BY <1>9 DEF More, Sees, Takes, Loops, Operators
  <2>2. EndsOne(pos - 1)  BY <1>0, <2>1 DEF PrefixOK
  <2>3. Follows(pos - 1)  BY <1>0, <2>1, <2>2, NextFollows DEF Sees
  <2>4. Awaits(pos)  BY <2>1 DEF Awaits, Sees
  <2>5. CommaOK(pos)
    <3>1. formula[pos] # ","  BY <2>1 DEF Operators
    <3> QED  BY <3>1, NoComma
  <2> QED  BY <1>0, <1>3, <2>1, <2>3, <2>4, <2>5
<1>10. CASE EndLoop
  <2>1. /\ phase \in Loops /\ formula' = formula /\ pos' = pos /\ phase' = After[phase]
        /\ ~Sees(pos, Takes[phase])
    BY <1>10 DEF EndLoop
  <2>2. CASE phase = "product"
    <3>1. phase' = "sum" /\ ~Sees(pos, {"*", "/"})  BY <2>1, <2>2 DEF After, Takes, Loops
    <3> QED  BY <1>0, <1>7, <2>1, <3>1
  <2>3. CASE phase = "sum"
    <3>1. phase' = "close" /\ ~Sees(pos, {"+", "-"})  BY <2>1, <2>3 DEF After, Takes, Loops
    <3>2. ~Sees(pos, {"*", "/"})  BY <1>0, <2>3 DEF PrefixOK
    <3>3. ~Sees(pos, Operators)  BY <3>1, <3>2 DEF Sees, Operators
    <3> QED  BY <1>0, <1>7, <2>1, <3>1, <3>3
  <2> QED  BY <1>0, <2>1, <2>2, <2>3
<1>11. ASSUME phase = "close", formula' = formula, pos' = pos + 1, phase' = "product",
              Sees(pos, {")"})
       PROVE  PrefixOK'
  <2>1. EndsOne(pos - 1)  BY <1>0, <1>11 DEF PrefixOK
  <2>2. Follows(pos - 1)  BY <1>0, <1>11, <2>1, NextFollows DEF Sees
  <2>3. EndsOne(pos) /\ CommaOK(pos)  BY <1>11 DEF EndsOne, Sees, CommaOK
  <2> QED  BY <1>0, <1>3, <1>11, <2>2, <2>3
<1>12. CASE CloseGroup  BY <1>11, <1>12 DEF CloseGroup
<1>13. CASE CloseCall  BY <1>11, <1>13 DEF CloseCall
<1>14. CASE NextArgument
  <2>1. /\ phase = "close" /\ formula' = formula /\ pos' = pos + 1 /\ phase' = "atom"
        /\ InCall /\ pos \in DOMAIN formula /\ formula[pos] = ","
    BY <1>14 DEF NextArgument, Sees
  <2>2. EndsOne(pos - 1)  BY <1>0, <2>1 DEF PrefixOK
  <2>3. Follows(pos - 1)  BY <1>0, <2>1, <2>2, NextFollows DEF Sees
  <2>4. Awaits(pos)  BY <2>1 DEF Awaits, Sees
  <2>5. CommaOK(pos)  BY <1>0, <2>1, CommaTaken
  <2> QED  BY <1>0, <1>3, <2>1, <2>3, <2>4, <2>5
<1>15. CASE Accept  BY <1>0, <1>15 DEF Accept, PrefixOK
<1>16. CASE Refuse  BY <1>0, <1>16 DEF Refuse, PrefixOK
<1> QED
  BY <1>1, <1>2, <1>4, <1>5, <1>6, <1>8, <1>9, <1>10, <1>12, <1>13, <1>14, <1>15, <1>16
     DEF ParserNext

-----------------------------------------------------------------------------
(* Verdicts.                                                                *)

\* The kinds of tokens exclude each other.
LEMMA Kinds ==
  ASSUME formula \in Seq(Token)
  PROVE
  \A i : /\ Awaits(i) => ~EndsOne(i) /\ ~Calls(i)
         /\ EndsOne(i) => ~Calls(i)
         /\ Sees(i, Name) /\ i # 0 => ~Awaits(i)
         /\ Sees(i, Name) /\ EndsOne(i) => Sees(i, DOMAIN Field) /\ ~Sees(i + 1, {"("})
<1>1. \A i : Sees(i, DOMAIN Field) => Sees(i, Name)  BY FormulaAssumption DEF Sees
<1>2. \A i : Sees(i, Name) => ~Sees(i, DOMAIN Literal \cup Operators \cup {"(", ")", ","})
  BY DEF Sees, Name, Marks
<1>3. \A i : Sees(i, DOMAIN Literal \cup {")"}) => ~Sees(i, Operators \cup {"(", ","})
  BY FormulaAssumption DEF Sees, Operators, Marks
<1>4. ~Sees(0, DOMAIN Literal \cup {")"}) /\ ~Sees(0, Name)
  <2>1. 0 \notin DOMAIN formula  OBVIOUS
  <2> QED  BY <2>1 DEF Sees
<1> QED  BY <1>1, <1>2, <1>3, <1>4 DEF Awaits, EndsOne, Calls, Sees

\* Only the lowest level belongs to no parenthesis.
LEMMA TopOpen ==
  ASSUME ParserTypeOK, LevelsOK, phase \in Parsing
  PROVE  /\ Top.open = 0 <=> Len(levels) = 1
         /\ Top.open # 0 => Len(levels) >= 2 /\ OpenOK(Len(levels))
<1>1. Len(levels) \in Nat \ {0} /\ levels[1].open = 0  BY AtWork DEF LevelsOK
<1>2. CASE Len(levels) = 1  BY <1>1, <1>2 DEF Top
<1>3. CASE Len(levels) # 1
  <2>1. PICK n \in Nat : n = Len(levels)  BY <1>1
  <2>5. n \in 2 .. n  BY <1>1, <1>3, <2>1
  <2>2. OpenOK(n)  BY <2>1, <2>5 DEF LevelsOK
  <2>3. levels[n].open \in 1 .. pos - 1 /\ pos \in Nat  BY <2>2, AtWork DEF OpenOK
  <2>4. Top.open # 0  BY <2>1, <2>3 DEF Top
  <2> QED  BY <1>3, <2>1, <2>2, <2>4, <2>5
<1> QED  BY <1>2, <1>3

LEMMA AcceptRight ==
  ASSUME ParserTypeOK, LevelsOK, PrefixOK, Accept
  PROVE  WellFormed
<1>1. phase = "close" /\ phase \in Parsing /\ Top.open = 0 /\ pos = Len(formula) + 1
  BY DEF Accept, AtEnd, Parsing
<1>2. Len(formula) \in Nat /\ pos - 1 = Len(formula) /\ pos - 2 = Len(formula) - 1
  BY <1>1, AtWork
<1>3. /\ \A i \in 0 .. Len(formula) - 1 : Follows(i)
      /\ EndsOne(Len(formula))
      /\ \A i \in 1 .. Len(formula) : CommaOK(i)
  BY <1>1, <1>2 DEF PrefixOK
<1>4. Follows(Len(formula))  BY <1>3 DEF Follows
<1>5. \A i \in 0 .. Len(formula) : i \in 0 .. Len(formula) - 1 \/ i = Len(formula)
  BY <1>2
<1>6. Len(levels) = 1  BY <1>1, TopOpen
<1>7. /\ \A i \in 0 .. Len(formula) : Depth(i) >= 0
      /\ Depth(Len(formula)) = 0
  BY <1>1, <1>2, <1>6 DEF LevelsOK
<1>8. DOMAIN formula = 1 .. Len(formula)  BY DEF ParserTypeOK
<1> QED  BY <1>3, <1>4, <1>5, <1>7, <1>8 DEF WellFormed, CommaOK

LEMMA RefuseRight ==
  ASSUME ParserTypeOK, LevelsOK, PrefixOK, Refuse
  PROVE  ~WellFormed
<1> SUFFICES ASSUME WellFormed  PROVE FALSE
  OBVIOUS
<1>1. phase \in {"atom", "close"} /\ phase \in Parsing  BY DEF Refuse, Parsing
<1>2. /\ pos \in Nat \ {0} /\ pos <= Len(formula) + 1 /\ Len(formula) \in Nat
      /\ formula \in Seq(Token)
  BY <1>1, AtWork DEF ParserTypeOK
<1>3. Follows(pos - 1) /\ pos - 1 + 1 = pos
  <2>1. pos - 1 \in 0 .. Len(formula)  BY <1>2
  <2>2. Follows(pos - 1)  BY <2>1 DEF WellFormed
  <2> QED  BY <1>2, <2>2
<1>4. CASE phase = "atom"
  <2>1. /\ Awaits(pos - 1) /\ ~Sees(pos, {"("} \cup DOMAIN Literal)
        /\ ~SeesCall /\ ~SeesVariable
    BY <1>1, <1>4 DEF Refuse, PrefixOK
  <2>2. Sees(pos, DOMAIN Literal \cup Name \cup {"("})
    <3>1. ~EndsOne(pos - 1) /\ ~Calls(pos - 1)  BY <1>2, <2>1, Kinds
    <3> QED  BY <1>3, <3>1 DEF Follows
  <2>3. Sees(pos, Name)  BY <2>1, <2>2 DEF Sees
  <2>4. Follows(pos)
    <3>1. pos \in 0 .. Len(formula)  BY <1>2, <2>3 DEF Sees
    <3> QED  BY <3>1 DEF WellFormed
  <2>5. ~Awaits(pos) /\ ~Calls(pos)
    BY <1>2, <2>1, <2>3, Kinds DEF SeesCall, Calls
  <2>6. ~EndsOne(pos)  BY <1>2, <2>1, <2>3, Kinds DEF SeesVariable
  <2> QED  BY <2>4, <2>5, <2>6 DEF Follows
<1>5. CASE phase = "close"
  <2>1. /\ EndsOne(pos - 1) /\ ~Sees(pos, Operators)
        /\ Top.open = 0 \/ ~Sees(pos, {")"})
        /\ ~InCall \/ ~Sees(pos, {","})
        /\ ~AtEnd
    BY <1>1, <1>5 DEF Refuse, PrefixOK
  <2>2. pos - 1 = Len(formula) \/ Sees(pos, {")", ","})
    <3>1. ~Awaits(pos - 1) /\ ~Calls(pos - 1)  BY <1>2, <2>1, Kinds
    <3> QED  BY <1>3, <2>1, <3>1 DEF Follows, Sees
  <2>3. /\ Depth(pos - 1) = Len(levels) - 1 /\ Len(levels) \in Nat \ {0}
        /\ \A i \in 0 .. pos - 1 : Depth(i) >= 0
    BY <1>1, AtWork DEF LevelsOK
  <2>4. CASE pos - 1 = Len(formula)
    <3>1. pos = Len(formula) + 1  BY <1>2, <2>4
    <3>2. Top.open # 0  BY <2>1, <3>1 DEF AtEnd
    <3>3. Len(levels) # 1  BY <1>1, <3>2, TopOpen
    <3>4. Depth(pos - 1) = 0  BY <2>4 DEF WellFormed
    <3>5. Len(levels) - 1 # 0  BY <2>3, <3>3
    <3> QED  BY <2>3, <3>4, <3>5
  <2>5. CASE Sees(pos, {")"})
    <3>0. Len(levels) = 1  BY <1>1, <2>1, <2>5, TopOpen
    <3>1. Depth(pos - 1) = 0  BY <2>3, <3>0
    <3>2. formula[pos] = ")" /\ pos \in 0 .. Len(formula)  BY <1>2, <2>5 DEF Sees
    <3>3. Depth(pos) = -1  BY <1>2, <3>1, <3>2, DepthAt
    <3>4. Depth(pos) >= 0  BY <3>2 DEF WellFormed
    <3> QED  BY <3>3, <3>4
  <2>6. CASE Sees(pos, {","})
    <3>1. PICK j \in DOMAIN formula : Encloses(j, pos) /\ IsCall(j)
      BY <2>6 DEF WellFormed, Sees
    <3>2. /\ j \in Nat \ {0} /\ j < pos /\ formula[j] = "("
          /\ Depth(j) = Len(levels) - 1
          /\ \A i \in j .. pos - 1 : Depth(i) >= Len(levels) - 1
      BY <1>2, <2>3, <3>1 DEF Encloses, Sees
    <3>3. Depth(j) = Depth(j - 1) + 1 /\ Depth(j - 1) \in Int  BY <3>2, DepthAt
    <3>4. Len(levels) >= 2 /\ OpenOK(Len(levels))
      <4>1. j - 1 \in 0 .. pos - 1  BY <1>2, <3>2
      <4>2. Depth(j - 1) >= 0  BY <2>3, <4>1
      <4>3. Len(levels) # 1
        <5>1. Depth(j) # 0  BY <3>3, <4>2
        <5> QED  BY <3>2, <5>1
      <4> QED  BY <1>1, <4>3, TopOpen
    <3>5. PICK o : o = levels[Len(levels)].open  OBVIOUS
    <3>6. /\ o \in 1 .. pos - 1 /\ formula[o] = "(" /\ Depth(o) = Len(levels) - 1
          /\ \A i \in o .. pos - 1 : Depth(i) >= Len(levels) - 1
      BY <3>4, <3>5 DEF OpenOK
    <3>7. Depth(o) = Depth(o - 1) + 1 /\ Depth(o - 1) \in Int  BY <1>2, <3>6, DepthAt
    <3>8. CASE j = o
      <4>1. Len(levels) # 1  BY <1>1, <3>4, AtWork
      <4>2. Top.open # 0 /\ IsCall(Top.open)
        BY <1>1, <3>1, <3>5, <3>8, <4>1, TopOpen DEF Top
      <4> QED  BY <2>1, <2>6, <4>2 DEF InCall
    <3>9. CASE j < o
      <4>1. o - 1 \in j .. pos - 1  BY <1>2, <3>2, <3>6, <3>9
      <4> QED  BY <2>3, <3>2, <3>6, <3>7, <4>1
    <3>10. CASE o < j
      <4>1. j - 1 \in o .. pos - 1  BY <1>2, <3>2, <3>6, <3>10
      <4> QED  BY <2>3, <3>2, <3>3, <3>6, <4>1
    <3> QED  BY <1>2, <3>2, <3>6, <3>8, <3>9, <3>10
  <2> QED  BY <2>2, <2>4, <2>5, <2>6 DEF Sees
<1> QED  BY <1>1, <1>4, <1>5

-----------------------------------------------------------------------------
(* The tree.                                                                *)

\* Nodes are made one by one and never changed.
Made(node) == nodes' = nodes \/ nodes' = Append(nodes, node)

LEMMA NodesGrow ==
  ASSUME nodes \in Seq(NodeType), NEW node \in NodeType, Made(node)
  PROVE  /\ Len(nodes) \in Nat /\ Len(nodes') \in Nat
         /\ Len(nodes') = Len(nodes) \/ Len(nodes') = Len(nodes) + 1
         /\ \A m \in 1 .. Len(nodes) : nodes'[m] = nodes[m]
         /\ \A m \in Len(nodes) + 1 .. Len(nodes') : nodes'[m] = node
<1>1. CASE nodes' = nodes  BY <1>1
<1>2. CASE nodes' = Append(nodes, node)
  <2>1. Len(nodes') = Len(nodes) + 1 /\ nodes'[Len(nodes) + 1] = node  BY <1>2
  <2>2. \A m \in 1 .. Len(nodes) : nodes'[m] = nodes[m]  BY <1>2
  <2>3. \A m \in Len(nodes) + 1 .. Len(nodes') : m = Len(nodes) + 1  BY <2>1
  <2> QED  BY <2>1, <2>2, <2>3
<1> QED  BY <1>1, <1>2 DEF Made

LEMMA NodeKept ==
  ASSUME formula' = formula, nodes \in Seq(NodeType),
         NEW node \in NodeType, Made(node),
         NEW k \in 1 .. Len(nodes), NodeOK(k)
  PROVE  NodeOK(k)'
<1>1. \A m \in 1 .. k : m \in 1 .. Len(nodes) /\ nodes'[m] = nodes[m]  BY NodesGrow
<1>2. nodes'[k] = nodes[k]  BY <1>1
<1>3. \A m \in 1 .. k : Operation(m)' <=> Operation(m)  BY <1>1 DEF Operation
<1>4. ASSUME Ordered(k), Len(nodes[k].kids) = 2, \A i \in DOMAIN nodes[k].kids :
                                                    nodes[k].kids[i] \in 1 .. k - 1
      PROVE  Ordered(k)'
  <2> DEFINE at == nodes[k].at
             l  == nodes[k].kids[1]
             r  == nodes[k].kids[2]
  <2>1. l \in 1 .. k /\ r \in 1 .. k
    <3>0. nodes[k] \in NodeType  OBVIOUS
    <3>1. nodes[k].kids \in Seq(Nat)  BY <3>0 DEF NodeType
    <3>2. 1 \in DOMAIN nodes[k].kids /\ 2 \in DOMAIN nodes[k].kids  BY <1>4, <3>1
    <3> QED  BY <1>4, <3>2
  <2>2. (\A m \in 1 .. l : m \in 1 .. k) /\ (\A m \in l + 1 .. r : m \in 1 .. k)
    BY <2>1
  <2>3. /\ l < r /\ r = k - 1
        /\ \A m \in 1 .. l : nodes[m].at < at
        /\ \A m \in l + 1 .. r : at < nodes[m].at
        /\ Operation(l) => Tighter(nodes[l].at, at) \/ Alike(nodes[l].at, at)
        /\ Operation(r) => Tighter(nodes[r].at, at)
    BY <1>4 DEF Ordered
  <2>4. /\ l < r /\ r = k - 1
        /\ \A m \in 1 .. l : nodes'[m].at < at
        /\ \A m \in l + 1 .. r : at < nodes'[m].at
    BY <1>1, <2>2, <2>3
  <2>5. nodes'[l] = nodes[l] /\ nodes'[r] = nodes[r]  BY <1>1, <2>1
  <2>6. /\ Operation(l)' => Tighter(nodes[l].at, at) \/ Alike(nodes[l].at, at)
        /\ Operation(r)' => Tighter(nodes[r].at, at)
    <3>1. \A m \in 1 .. k : formula'[nodes'[m].at] = formula[nodes[m].at]  BY <1>1
    <3> QED  BY <2>1, <2>3, <3>1, <1>2 DEF Operation
  <2> QED  BY <1>2, <2>4, <2>5, <2>6, SameFormula DEF Ordered
<1> QED  BY <1>2, <1>4 DEF NodeOK

\* An operator that waits goes on waiting, whatever is made behind it.
LEMMA WaitKept ==
  ASSUME NEW k \in DOMAIN levels, NEW loop \in Loops, NEW node \in NodeType
  PROVE  /\ formula' = formula /\ pos \in Nat /\ pos' \in Nat /\ pos <= pos'
         /\ nodes \in Seq(NodeType) /\ Made(node)
         /\ levels[k] \in LevelType
         /\ levels'[k].open = levels[k].open
         /\ levels'[k].waits[loop] = levels[k].waits[loop]
         /\ WaitOK(k, loop)
         /\ levels[k].waits[loop].op # 0 =>
              /\ \A higher \in k + 1 .. Len(levels') :
                   levels[k].waits[loop].op < levels'[higher].open
              /\ nodes' # nodes => levels[k].waits[loop].op < node.at
              /\ phase' # "atom" => nodes' # nodes \/ phase # "atom"
         => WaitOK(k, loop)'
<1> DEFINE op   == levels[k].waits[loop].op
           left == levels[k].waits[loop].left
<1>0. SUFFICES
        ASSUME formula' = formula, pos \in Nat, pos' \in Nat, pos <= pos',
               nodes \in Seq(NodeType), Made(node), levels[k] \in LevelType,
               levels'[k].open = levels[k].open,
               levels'[k].waits[loop] = levels[k].waits[loop],
               WaitOK(k, loop), op # 0,
               \A higher \in k + 1 .. Len(levels') : op < levels'[higher].open,
               nodes' # nodes => op < node.at,
               phase' # "atom" => nodes' # nodes \/ phase # "atom"
        PROVE  WaitOK(k, loop)'
  <2>1. ASSUME op = 0, levels'[k].waits[loop] = levels[k].waits[loop]
        PROVE  WaitOK(k, loop)'
    BY <2>1 DEF WaitOK
  <2> QED  BY <2>1
<1>1. /\ op \in levels[k].open + 1 .. pos - 1
      /\ formula[op] \in Takes[loop] /\ Depth(op) = k - 1
      /\ left \in 1 .. Len(nodes) /\ (phase # "atom" => left < Len(nodes))
      /\ \A m \in 1 .. left : nodes[m].at < op
      /\ \A m \in left + 1 .. Len(nodes) : op < nodes[m].at
      /\ Operation(left) => Tighter(nodes[left].at, op) \/ Alike(nodes[left].at, op)
  BY <1>0 DEF WaitOK
<1>2. /\ Len(nodes) \in Nat /\ Len(nodes') \in Nat
      /\ Len(nodes') = Len(nodes) \/ Len(nodes') = Len(nodes) + 1
      /\ \A m \in 1 .. Len(nodes) : nodes'[m] = nodes[m]
      /\ \A m \in Len(nodes) + 1 .. Len(nodes') : nodes'[m] = node
  BY <1>0, NodesGrow
<1>3. nodes' # nodes <=> Len(nodes') = Len(nodes) + 1
  <2>1. CASE nodes' = nodes  BY <1>2, <2>1
  <2>2. CASE nodes' # nodes
    <3>1. nodes' = Append(nodes, node)  BY <1>0, <2>2 DEF Made
    <3> QED  BY <1>0, <2>2, <3>1
  <2> QED  BY <2>1, <2>2
<1>4. op \in levels[k].open + 1 .. pos' - 1
  <2>1. levels[k].open \in Nat /\ op \in Nat  BY <1>0 DEF LevelType, WaitType
  <2> QED  BY <1>0, <1>1, <2>1
<1>5. /\ left \in 1 .. Len(nodes')
      /\ phase' # "atom" => left < Len(nodes')
  <2>1. left \in Nat /\ left >= 1 /\ left <= Len(nodes)  BY <1>1
  <2>2. left \in 1 .. Len(nodes')  BY <1>2, <2>1
  <2>3. ASSUME phase' # "atom"  PROVE left < Len(nodes')
    <3>1. CASE nodes' # nodes  BY <1>2, <1>3, <2>1, <3>1
    <3>2. CASE nodes' = nodes  BY <1>0, <1>1, <2>3, <3>2
    <3> QED  BY <3>1, <3>2
  <2> QED  BY <2>2, <2>3
<1>6. \A m \in 1 .. left : nodes'[m].at < op
  <2>1. \A m \in 1 .. left : m \in 1 .. Len(nodes)  BY <1>1, <1>2
  <2> QED  BY <1>1, <1>2, <2>1
<1>7. \A m \in left + 1 .. Len(nodes') : op < nodes'[m].at
  <2>1. ASSUME NEW m \in left + 1 .. Len(nodes')  PROVE op < nodes'[m].at
    <3>1. CASE m \in left + 1 .. Len(nodes)
      <4>1. m \in 1 .. Len(nodes)  BY <1>1, <1>2, <3>1
      <4> QED  BY <1>1, <1>2, <3>1, <4>1
    <3>2. CASE m \notin left + 1 .. Len(nodes)
      <4>1. left \in Nat  BY <1>1
      <4>2. m \in Len(nodes) + 1 .. Len(nodes') /\ Len(nodes') # Len(nodes)
        BY <1>2, <3>2, <4>1
      <4>3. nodes'[m] = node /\ nodes' # nodes  BY <1>2, <1>3, <4>2
      <4> QED  BY <1>0, <4>3
    <3> QED  BY <3>1, <3>2
  <2> QED  BY <2>1
<1>8. nodes'[left] = nodes[left] /\ (Operation(left)' <=> Operation(left))
  <2>1. nodes'[left] = nodes[left]  BY <1>1, <1>2
  <2>2. levels'[k].waits[loop].left = left  BY <1>0
  <2>3. formula'[nodes'[left].at] = formula[nodes[left].at]  BY <1>0, <2>1
  <2> QED  BY <2>1, <2>2, <2>3 DEF Operation
<1> QED  BY <1>0, <1>1, <1>4, <1>5, <1>6, <1>7, <1>8, SameFormula DEF WaitOK

\* The node that each step makes.
LEMMA NewLeaf ==
  ASSUME ParserTypeOK, LevelsOK, Leaf
  PROVE  /\ Node(pos, <<>>) \in NodeType /\ Made(Node(pos, <<>>))
         /\ pos \in DOMAIN formula /\ formula[pos] \in DOMAIN Literal \cup DOMAIN Field
         /\ formula[pos] \notin Operators
<1>1. pos \in DOMAIN formula /\ formula[pos] \in DOMAIN Literal \cup DOMAIN Field
  BY DEF Leaf, SeesVariable, Sees
<1>2. formula[pos] \notin Operators  BY <1>1, FormulaAssumption DEF Name
<1>3. Node(pos, <<>>) \in NodeType  BY DEF Node, NodeType, ParserTypeOK
<1> QED  BY <1>1, <1>2, <1>3 DEF Leaf, Made

LEMMA NewJoint ==
  ASSUME ParserTypeOK, LevelsOK, WaitsOK, Join
  PROVE  LET node == Node(Waits.op, <<Waits.left, Len(nodes)>>) IN
         /\ phase \in Parsing /\ phase \in Loops /\ node \in NodeType /\ Made(node)
         /\ Waits \in WaitType /\ node.at = Waits.op
         /\ Waits.op = levels[Len(levels)].waits[phase].op /\ Waits.op # 0
         /\ WaitOK(Len(levels), phase)
<1>1. phase \in Parsing /\ phase \in Loops  BY DEF Join, Parsing, Loops
<1>2. Len(levels) \in DOMAIN levels /\ Top \in LevelType /\ Len(nodes) \in Nat
  BY <1>1, AtWork
<1>3. Waits \in WaitType  BY <1>1, <1>2 DEF Waits, LevelType
<1>4. Node(Waits.op, <<Waits.left, Len(nodes)>>) \in NodeType
  BY <1>2, <1>3 DEF Node, NodeType, WaitType
<1>5. WaitOK(Len(levels), phase)  BY <1>1, <1>2 DEF WaitsOK
<1> QED  BY <1>1, <1>3, <1>4, <1>5 DEF Join, Made, Node, Waits, Top

LEMMA NewCall ==
  ASSUME ParserTypeOK, LevelsOK, WaitsOK, CloseCall, nodes # <<>>
  PROVE  LET node == Node(Top.open - 1, Args) IN
         /\ node \in NodeType /\ Made(node) /\ node.at = levels[Len(levels)].open - 1
         /\ node.at \in DOMAIN formula /\ formula[node.at] \in Name
         /\ node.kids # <<>> /\ \A i \in DOMAIN node.kids : node.kids[i] \in 1 .. Len(nodes)
<1>1. phase \in Parsing /\ InCall  BY DEF CloseCall, Parsing
<1>2. Len(levels) \in DOMAIN levels /\ Top \in LevelType /\ Len(nodes) \in Nat
  BY <1>1, AtWork
<1>3. Top.args \in Seq(Nat) /\ Top.open \in Nat \ {0}  BY <1>1, <1>2 DEF LevelType, InCall
<1>4. Args \in Seq(Nat) /\ Args # <<>>  BY <1>2, <1>3 DEF Args
<1>5. Node(Top.open - 1, Args) \in NodeType  BY <1>3, <1>4 DEF Node, NodeType
<1>6. Top.open - 1 \in DOMAIN formula /\ formula[Top.open - 1] \in Name
  BY <1>1 DEF InCall, IsCall, Sees
<1>7. \A i \in DOMAIN Args : Args[i] \in 1 .. Len(nodes)
  <2>1. \A i \in DOMAIN Top.args : Top.args[i] \in 1 .. Len(nodes)
    BY <1>1, <1>2 DEF WaitsOK, Top
  <2>2. Len(nodes) \in 1 .. Len(nodes)  BY DEF ParserTypeOK
  <2> QED  BY <1>3, <2>1, <2>2 DEF Args
<1> QED  BY <1>4, <1>5, <1>6, <1>7 DEF CloseCall, Made, Node, Top

LEMMA NodesStep ==
  ASSUME ParserTypeOK, LevelsOK, NodesOK, WaitsOK, phase \in Parsing => LastOK,
         VerdictOK, ParserNext
  PROVE  NodesOK'
<1>0. nodes \in Seq(NodeType) /\ \A k \in 1 .. Len(nodes) : NodeOK(k)
  BY DEF ParserTypeOK, NodesOK
<1>1. ASSUME NEW node \in NodeType, nodes' = Append(nodes, node), formula' = formula,
             \A k : k = Len(nodes) + 1 => NodeOK(k)'
      PROVE  NodesOK'
  <2>1. Made(node)  BY <1>1 DEF Made
  <2>2. \A k \in 1 .. Len(nodes) : NodeOK(k)'  BY <1>0, <1>1, <2>1, NodeKept
  <2>3. \A k \in DOMAIN nodes' : k \in 1 .. Len(nodes) \/ k = Len(nodes) + 1
    BY <1>0, <1>1
  <2> QED  BY <1>1, <2>2, <2>3 DEF NodesOK
<1>2. ASSUME nodes' = nodes, formula' = formula
      PROVE  NodesOK'
  <2>1. \A node : Made(node)  BY <1>2 DEF Made
  <2>2. Node(0, <<>>) \in NodeType  BY DEF Node, NodeType
  <2>3. \A k \in 1 .. Len(nodes) : NodeOK(k)'  BY <1>0, <1>2, <2>1, <2>2, NodeKept
  <2> QED  BY <1>0, <1>2, <2>3 DEF NodesOK
<1>3. CASE WriteToken
  <2>1. nodes' = <<>>  BY <1>3 DEF WriteToken, VerdictOK
  <2> QED  BY <2>1 DEF NodesOK
<1>4. CASE Leaf
  <2> DEFINE node == Node(pos, <<>>)
  <2>1. /\ node \in NodeType /\ node.at = pos /\ node.kids = <<>>
        /\ pos \in DOMAIN formula /\ formula[pos] \in DOMAIN Literal \cup DOMAIN Field
        /\ formula[pos] \notin Operators
        /\ nodes' = Append(nodes, node) /\ formula' = formula
    BY <1>4, NewLeaf DEF Leaf, Node
  <2>2. formula[pos] \in Name => formula[pos] \in DOMAIN Field  BY <2>1 DEF Name
  <2>3. ASSUME NEW k, k = Len(nodes) + 1  PROVE NodeOK(k)'
    <3>1. nodes'[k] = node  BY <1>0, <2>1, <2>3
    <3>2. DOMAIN node.kids = {}  BY <2>1
    <3>3. formula[pos] \in DOMAIN Literal \cup Name  BY <2>1, FormulaAssumption
    <3> QED  BY <2>1, <2>2, <3>1, <3>2, <3>3 DEF NodeOK
  <2> HIDE DEF node
  <2> QED  BY <1>1, <2>1, <2>3
<1>5. CASE Join
  <2> DEFINE node == Node(Waits.op, <<Waits.left, Len(nodes)>>)
             n == Len(nodes)
             d == Len(levels) - 1
  <2>1. /\ phase \in Parsing /\ phase \in Loops /\ node \in NodeType
        /\ Waits \in WaitType /\ node.at = Waits.op /\ Waits.op # 0
        /\ WaitOK(Len(levels), phase) /\ Waits = levels[Len(levels)].waits[phase]
        /\ nodes' = Append(nodes, node) /\ formula' = formula
    BY <1>5, NewJoint DEF Join, Waits, Top
  <2>2. /\ node.kids = <<Waits.left, n>> /\ Len(node.kids) = 2
        /\ node.kids[1] = Waits.left /\ node.kids[2] = n /\ n \in Nat
        /\ DOMAIN node.kids = {1, 2}
    BY <1>0 DEF Node
  <2>3. /\ formula[Waits.op] \in Takes[phase] /\ Depth(Waits.op) = d
        /\ Waits.left \in 1 .. n /\ Waits.left < n
        /\ \A m \in 1 .. Waits.left : nodes[m].at < Waits.op
        /\ \A m \in Waits.left + 1 .. n : Waits.op < nodes[m].at
        /\ Operation(Waits.left) =>
             \/ Tighter(nodes[Waits.left].at, Waits.op)
             \/ Alike(nodes[Waits.left].at, Waits.op)
    BY <2>1 DEF WaitOK, Parsing, Loops
  <2>4. Waits.op \in DOMAIN formula
    <3>1. Waits.op \in 1 .. pos - 1
      <4>1. PICK open \in Nat : open = levels[Len(levels)].open
        <5>1. levels[Len(levels)] \in LevelType  BY <2>1, AtWork DEF Top
        <5> QED  BY <5>1 DEF LevelType
      <4>2. Waits.op \in open + 1 .. pos - 1  BY <2>1, <4>1 DEF WaitOK
      <4> QED  BY <4>1, <4>2
    <3>2. pos <= Len(formula) + 1 /\ pos \in Nat /\ Len(formula) \in Nat  BY <2>1, AtWork
    <3> QED  BY <3>1, <3>2 DEF ParserTypeOK
  <2>5. Operation(n) => Tighter(nodes[n].at, Waits.op)
    <3>1. CASE phase = "product"
      <4>1. Operation(n) => Depth(nodes[n].at) > d
        BY <2>1, <3>1 DEF LastOK
      <4> QED  BY <2>3, <4>1 DEF Tighter
    <3>2. CASE phase = "sum"
      <4>1. Operation(n) => /\ Depth(nodes[n].at) >= d
                            /\ Depth(nodes[n].at) > d \/ IsProduct(nodes[n].at)
        BY <2>1, <3>2 DEF LastOK
      <4>2. ~IsProduct(Waits.op)  BY <2>3, <3>2 DEF IsProduct, Takes, Loops
      <4>3. Depth(nodes[n].at) >= d => Depth(nodes[n].at) > d \/ Depth(nodes[n].at) = d
        <5>1. Operation(n) => nodes[n].at \in Nat
          <6>1. n \in 1 .. n  BY <2>2, <2>3
          <6>2. nodes[n] \in NodeType  BY <1>0, <6>1
          <6> QED  BY <6>2 DEF NodeType
        <5>2. nodes[n] \in NodeType
          <6>1. n \in 1 .. n  BY <2>2, <2>3
          <6> QED  BY <1>0, <6>1
        <5>3. nodes[n].at \in Nat /\ d \in Int  BY <2>1, <5>2, AtWork DEF NodeType
        <5>4. Depth(nodes[n].at) \in Int  BY <5>3, DepthSteps
        <5> QED  BY <5>3, <5>4
      <4> QED  BY <2>3, <4>1, <4>2, <4>3 DEF Tighter
    <3> QED  BY <2>1, <3>1, <3>2 DEF Loops
  <2>6. ASSUME NEW k, k = n + 1  PROVE NodeOK(k)'
    <3>1. /\ nodes'[k] = node /\ k - 1 = n
          /\ \A m \in 1 .. n : nodes'[m] = nodes[m]
      <4> HIDE DEF node
      <4>1. nodes'[k] = node /\ \A m \in 1 .. n : nodes'[m] = nodes[m]  BY <1>0, <2>1, <2>6
      <4>2. k - 1 = n  BY <2>2, <2>6
      <4> QED  BY <4>1, <4>2
    <3>2. formula[Waits.op] \in Operators /\ formula[Waits.op] \notin DOMAIN Literal
            /\ formula[Waits.op] \notin Name
      <4>1. \A loop \in Loops : Takes[loop] \subseteq Operators
        BY DEF Takes, Loops, Operators
      <4>2. formula[Waits.op] \in Operators  BY <2>1, <2>3, <4>1
      <4>3. \A x \in Operators : x \notin DOMAIN Literal /\ x \notin Name
        BY FormulaAssumption DEF Name
      <4> QED  BY <4>2, <4>3
    <3>3. Ordered(k)'
      <4>1. Waits.left \in 1 .. n /\ n \in 1 .. n  BY <2>2, <2>3
      <4>2. /\ nodes'[Waits.left] = nodes[Waits.left] /\ nodes'[n] = nodes[n]
            /\ \A m \in 1 .. Waits.left : nodes'[m] = nodes[m]
            /\ \A m \in Waits.left + 1 .. n : nodes'[m] = nodes[m]
        BY <2>2, <3>1, <4>1
      <4>3. ASSUME NEW l, NEW r, l = Waits.left, r = n
            PROVE  (Operation(l)' <=> Operation(l)) /\ (Operation(r)' <=> Operation(r))
        BY <2>1, <4>2, <4>3 DEF Operation
      <4>4. PICK l, r : l = Waits.left /\ r = n  OBVIOUS
      <4>5. nodes'[k].kids[1] = l /\ nodes'[k].kids[2] = r /\ nodes'[k].at = Waits.op
        BY <2>1, <2>2, <3>1, <4>4
      <4>6. /\ l < r /\ r = k - 1
            /\ \A m \in 1 .. l : nodes'[m].at < Waits.op
            /\ \A m \in l + 1 .. r : Waits.op < nodes'[m].at
        BY <2>3, <3>1, <4>2, <4>4
      <4>7. /\ Operation(l)' => \/ Tighter(nodes'[l].at, Waits.op)
                                \/ Alike(nodes'[l].at, Waits.op)
            /\ Operation(r)' => Tighter(nodes'[r].at, Waits.op)
        BY <2>3, <2>5, <4>2, <4>3, <4>4
      <4> HIDE DEF node, n
      <4> QED  BY <2>1, <4>5, <4>6, <4>7, SameFormula DEF Ordered
    <3>4. \A i \in DOMAIN node.kids : node.kids[i] \in 1 .. n
      BY <2>2, <2>3
    <3> QED  BY <2>1, <2>2, <2>4, <3>1, <3>2, <3>3, <3>4 DEF NodeOK
  <2> HIDE DEF node, n
  <2> QED  BY <1>1, <2>1, <2>6 DEF n
<1>6. CASE CloseCall
  <2> DEFINE node == Node(Top.open - 1, Args)
  <2>0. nodes # <<>>  BY <1>6 DEF CloseCall, LastOK, Parsing
  <2>1. /\ node \in NodeType /\ nodes' = Append(nodes, node) /\ formula' = formula
        /\ node.at \in DOMAIN formula /\ formula[node.at] \in Name
        /\ node.kids # <<>> /\ \A i \in DOMAIN node.kids : node.kids[i] \in 1 .. Len(nodes)
    BY <1>6, <2>0, NewCall DEF CloseCall
  <2>2. formula[node.at] \notin DOMAIN Literal \cup Operators  BY <2>1 DEF Name
  <2> HIDE DEF node
  <2>3. ASSUME NEW k, k = Len(nodes) + 1  PROVE NodeOK(k)'
    <3>1. nodes'[k] = node /\ k - 1 = Len(nodes)  BY <1>0, <2>1, <2>3
    <3> QED  BY <2>1, <2>2, <3>1 DEF NodeOK
  <2> QED  BY <1>1, <2>1, <2>3
<1>7. CASE ~(WriteToken \/ Leaf \/ Join \/ CloseCall)
  <2>1. nodes' = nodes /\ formula' = formula
    BY <1>7 DEF ParserNext, Begin, Open, OpenCall, More, EndLoop, CloseGroup,
                NextArgument, Accept, Refuse
  <2> QED  BY <1>2, <2>1
<1> QED  BY <1>3, <1>4, <1>5, <1>6, <1>7

\* The three things said of the operators and arguments of a level.
LEMMA WaitsWhole ==
  ASSUME \A k \in DOMAIN levels' : \A loop \in Loops : WaitOK(k, loop)',
         \A k \in DOMAIN levels' :
           levels'[k].waits["sum"].op # 0 /\ levels'[k].waits["product"].op # 0
             => levels'[k].waits["sum"].op < levels'[k].waits["product"].op,
         \A k \in DOMAIN levels' : \A i \in DOMAIN levels'[k].args :
           levels'[k].args[i] \in 1 .. Len(nodes')
  PROVE  WaitsOK'
BY DEF WaitsOK

LEMMA WaitsHave ==
  ASSUME ParserTypeOK, LevelsOK, WaitsOK, phase \in Parsing, NEW k \in DOMAIN levels
  PROVE  /\ levels[k] \in LevelType
         /\ \A loop \in Loops : WaitOK(k, loop)
         /\ \A loop \in Loops : levels[k].waits[loop] \in WaitType
         /\ levels[k].waits["sum"].op # 0 /\ levels[k].waits["product"].op # 0
              => levels[k].waits["sum"].op < levels[k].waits["product"].op
         /\ \A i \in DOMAIN levels[k].args : levels[k].args[i] \in 1 .. Len(nodes)
         /\ \A loop \in Loops : levels[k].waits[loop].op # 0 =>
              /\ levels[k].waits[loop].op < pos
              /\ formula[levels[k].waits[loop].op] \in Operators
              /\ \A higher \in k + 1 .. Len(levels) :
                   levels[k].waits[loop].op < levels[higher].open
<1>1. levels[k] \in LevelType  BY DEF ParserTypeOK
<1>2. \A loop \in Loops : WaitOK(k, loop) /\ levels[k].waits[loop] \in WaitType
  BY <1>1 DEF WaitsOK, LevelType
<1>3. ASSUME NEW loop \in Loops, levels[k].waits[loop].op # 0
      PROVE  /\ levels[k].waits[loop].op < pos
             /\ formula[levels[k].waits[loop].op] \in Operators
             /\ \A higher \in k + 1 .. Len(levels) :
                  levels[k].waits[loop].op < levels[higher].open
  <2>1. /\ levels[k].waits[loop].op \in levels[k].open + 1 .. pos - 1
        /\ formula[levels[k].waits[loop].op] \in Takes[loop]
        /\ \A higher \in k + 1 .. Len(levels) :
             levels[k].waits[loop].op < levels[higher].open
    BY <1>2, <1>3 DEF WaitOK
  <2>2. pos \in Nat /\ levels[k].waits[loop].op \in Nat
    BY <1>2, AtWork DEF WaitType
  <2>3. levels[k].waits[loop].op < pos
    <3>1. levels[k].open \in Nat  BY <1>1 DEF LevelType
    <3> QED  BY <2>1, <2>2, <3>1
  <2>4. formula[levels[k].waits[loop].op] \in Operators
    BY <2>1 DEF Takes, Loops, Operators
  <2> QED  BY <2>1, <2>3, <2>4
<1>4. /\ levels[k].waits["sum"].op # 0 /\ levels[k].waits["product"].op # 0
           => levels[k].waits["sum"].op < levels[k].waits["product"].op
      /\ \A i \in DOMAIN levels[k].args : levels[k].args[i] \in 1 .. Len(nodes)
  BY DEF WaitsOK
<1> QED  BY <1>1, <1>2, <1>3, <1>4

\* A new level waits for nothing.
LEMMA WaitsPushed ==
  ASSUME NEW open \in Nat
  PROVE  /\ ParserTypeOK /\ LevelsOK /\ WaitsOK /\ phase = "atom"
         /\ formula' = formula /\ phase' = phase /\ nodes' = nodes
         /\ pos' \in Nat /\ pos < pos' /\ pos <= open
         /\ levels' = Append(levels, Level(open))
         => WaitsOK'
<1>0. SUFFICES
        ASSUME ParserTypeOK, LevelsOK, WaitsOK, phase = "atom",
               formula' = formula, phase' = phase, nodes' = nodes,
               pos' \in Nat, pos < pos', pos <= open,
               levels' = Append(levels, Level(open))
        PROVE  WaitsOK'
  OBVIOUS
<1>1. phase \in Parsing  BY <1>0 DEF Parsing
<1>2. /\ levels \in Seq(LevelType) /\ Len(levels) \in Nat /\ pos \in Nat
      /\ nodes \in Seq(NodeType) /\ Len(nodes) \in Nat
  BY <1>0 DEF ParserTypeOK
<1>3. /\ Len(levels') = Len(levels) + 1 /\ DOMAIN levels' = 1 .. Len(levels) + 1
      /\ levels'[Len(levels) + 1] = Level(open)
      /\ \A k \in 1 .. Len(levels) : levels'[k] = levels[k]
  BY <1>0, <1>2
<1>4. /\ Level(open).open = open /\ Level(open).args = <<>>
      /\ \A loop \in Loops : Level(open).waits[loop].op = 0
  BY DEF Level, Nothing
<1>5. ASSUME NEW k \in DOMAIN levels'
      PROVE  /\ \A loop \in Loops : WaitOK(k, loop)'
             /\ levels'[k].waits["sum"].op # 0 /\ levels'[k].waits["product"].op # 0
                  => levels'[k].waits["sum"].op < levels'[k].waits["product"].op
             /\ \A i \in DOMAIN levels'[k].args : levels'[k].args[i] \in 1 .. Len(nodes')
  <2>1. CASE k = Len(levels) + 1
    <3>1. /\ levels'[k].args = <<>>
          /\ \A loop \in Loops : levels'[k].waits[loop].op = 0
      BY <1>3, <1>4, <2>1
    <3>2. "sum" \in Loops  BY DEF Loops
    <3>3. \A loop \in Loops : WaitOK(k, loop)'  BY <3>1 DEF WaitOK
    <3> QED  BY <3>1, <3>2, <3>3
  <2>2. CASE k \in 1 .. Len(levels)
    <3>1. k \in DOMAIN levels /\ levels'[k] = levels[k]  BY <1>2, <1>3, <2>2
    <3>2. ASSUME NEW loop \in Loops  PROVE WaitOK(k, loop)'
      <4>1. Node(0, <<>>) \in NodeType /\ Made(Node(0, <<>>))
        BY <1>0 DEF Node, NodeType, Made
      <4>2. ASSUME levels[k].waits[loop].op # 0, NEW higher \in k + 1 .. Len(levels')
            PROVE  levels[k].waits[loop].op < levels'[higher].open
        <5>1. CASE higher = Len(levels) + 1
          <6>1. levels'[higher].open = open  BY <1>3, <1>4, <5>1
          <6>2. /\ levels[k].waits[loop].op < pos
                /\ levels[k].waits[loop].op \in Nat
            BY <1>0, <1>1, <3>1, <4>2, WaitsHave DEF WaitType
          <6> QED  BY <1>0, <1>2, <6>1, <6>2
        <5>2. CASE higher # Len(levels) + 1
          <6>1. higher \in k + 1 .. Len(levels) /\ higher \in 1 .. Len(levels)
            BY <1>2, <1>3, <2>2, <5>2
          <6>2. levels'[higher] = levels[higher]  BY <1>3, <6>1
          <6> QED  BY <1>0, <1>1, <3>1, <4>2, <6>1, <6>2, WaitsHave
        <5> QED  BY <5>1, <5>2
      <4>3. levels[k] \in LevelType /\ WaitOK(k, loop)
        BY <1>0, <1>1, <3>1, WaitsHave
      <4>4. pos <= pos' /\ phase' = "atom"  BY <1>0, <1>2
      <4> QED  BY <1>0, <1>2, <3>1, <4>1, <4>2, <4>3, <4>4, WaitKept
    <3>3. /\ levels[k].waits["sum"].op # 0 /\ levels[k].waits["product"].op # 0
               => levels[k].waits["sum"].op < levels[k].waits["product"].op
          /\ \A i \in DOMAIN levels[k].args : levels[k].args[i] \in 1 .. Len(nodes)
      BY <1>0, <1>1, <3>1, WaitsHave
    <3> QED  BY <1>0, <3>1, <3>2, <3>3
  <2> QED  BY <1>2, <1>3, <2>1, <2>2
<1> QED  BY <1>5, WaitsWhole

\* Nor does it matter what becomes of the other levels.
LEMMA WaitCarried ==
  ASSUME NEW k \in DOMAIN levels', NEW loop \in Loops, NEW node \in NodeType
  PROVE  /\ ParserTypeOK /\ LevelsOK /\ WaitsOK /\ phase \in Parsing
         /\ formula' = formula /\ pos' \in Nat /\ pos <= pos' /\ Made(node)
         /\ levels' \in Seq(LevelType) /\ Len(levels') <= Len(levels)
         /\ \A j \in DOMAIN levels' : levels'[j].open = levels[j].open
         /\ levels'[k].waits[loop] = levels[k].waits[loop]
         /\ levels[k].waits[loop].op # 0 /\ nodes' # nodes
              => levels[k].waits[loop].op < node.at
         /\ phase' # "atom" => nodes' # nodes \/ phase # "atom"
         => WaitOK(k, loop)'
<1>0. SUFFICES
        ASSUME ParserTypeOK, LevelsOK, WaitsOK, phase \in Parsing,
               formula' = formula, pos' \in Nat, pos <= pos', Made(node),
               levels' \in Seq(LevelType), Len(levels') <= Len(levels),
               \A j \in DOMAIN levels' : levels'[j].open = levels[j].open,
               levels'[k].waits[loop] = levels[k].waits[loop],
               levels[k].waits[loop].op # 0 /\ nodes' # nodes
                 => levels[k].waits[loop].op < node.at,
               phase' # "atom" => nodes' # nodes \/ phase # "atom"
        PROVE  WaitOK(k, loop)'
  OBVIOUS
<1>1. /\ Len(levels) \in Nat /\ DOMAIN levels = 1 .. Len(levels)
      /\ Len(levels') \in Nat /\ DOMAIN levels' = 1 .. Len(levels')
      /\ pos \in Nat /\ nodes \in Seq(NodeType)
  BY <1>0 DEF ParserTypeOK
<1>2. k \in DOMAIN levels  BY <1>0, <1>1
<1>3. ASSUME levels[k].waits[loop].op # 0, NEW higher \in k + 1 .. Len(levels')
      PROVE  levels[k].waits[loop].op < levels'[higher].open
  <2>1. higher \in k + 1 .. Len(levels) /\ higher \in 1 .. Len(levels')
    BY <1>0, <1>1, <1>2
  <2>2. levels'[higher].open = levels[higher].open  BY <1>0, <1>1, <2>1
  <2>3. levels[k].waits[loop].op < levels[higher].open
    BY <1>0, <1>2, <1>3, <2>1, WaitsHave
  <2> QED  BY <2>2, <2>3
<1>4. levels[k] \in LevelType /\ WaitOK(k, loop)  BY <1>0, <1>2, WaitsHave
<1>5. levels'[k].open = levels[k].open  BY <1>0
<1> QED  BY <1>0, <1>1, <1>2, <1>3, <1>4, <1>5, WaitKept

\* A loop that has its right operand waits no more.
LEMMA WaitsJoined ==
  ASSUME ParserTypeOK, ParserTypeOK', LevelsOK, WaitsOK, LastOK, Join
  PROVE  WaitsOK'
<1> DEFINE n == Len(levels)
           node == Node(Waits.op, <<Waits.left, Len(nodes)>>)
<1>1. /\ phase \in Parsing /\ phase \in Loops /\ node \in NodeType /\ Made(node)
      /\ Waits \in WaitType /\ node.at = Waits.op
      /\ Waits.op = levels[n].waits[phase].op /\ Waits.op # 0
      /\ WaitOK(n, phase)
  BY NewJoint
<1> HIDE DEF node
<1>2. /\ n \in Nat /\ n >= 1 /\ n \in DOMAIN levels /\ DOMAIN levels = 1 .. n
      /\ levels \in Seq(LevelType) /\ levels' \in Seq(LevelType)
      /\ nodes \in Seq(NodeType) /\ pos \in Nat /\ Len(nodes) \in Nat
  BY <1>1, AtWork DEF ParserTypeOK
<1>3. /\ formula' = formula /\ phase' = phase /\ pos' = pos
      /\ nodes' = Append(nodes, node) /\ SetWaits(Nothing)
  BY DEF Join, node
<1>4. Nothing \in WaitType /\ Nothing.op = 0  BY DEF Nothing, WaitType
<1>5. /\ Len(levels') = n
      /\ \A k \in 1 .. n :
           /\ levels'[k].open = levels[k].open /\ levels'[k].args = levels[k].args
           /\ k # n => levels'[k] = levels[k]
      /\ levels'[n].waits[phase] = Nothing
      /\ \A loop \in Loops \ {phase} : levels'[n].waits[loop] = levels[n].waits[loop]
  BY <1>1, <1>2, <1>3, <1>4, WaitsSet
<1>6. DOMAIN levels' = 1 .. n /\ Len(levels') <= Len(levels)
  <2>1. Len(levels') = n  BY <1>5
  <2>2. DOMAIN levels' = 1 .. Len(levels')  BY <1>2
  <2> QED  BY <1>2, <2>1, <2>2
<1>7. nodes' # nodes /\ Len(nodes) <= Len(nodes')
  <2>1. Len(nodes') = Len(nodes) + 1  BY <1>1, <1>2, <1>3
  <2> QED  BY <1>2, <2>1
<1>8. Loops = {"product", "sum"}  BY DEF Loops
<1>9. ASSUME NEW k \in 1 .. n, NEW loop \in Loops, k # n \/ loop # phase,
             levels[k].waits[loop].op # 0
      PROVE  levels[k].waits[loop].op < Waits.op
  <2>1. CASE k # n
    <3>1. n \in k + 1 .. n
      <4>1. k \in Nat /\ k <= n /\ n \in Nat  BY <1>2
      <4> QED  BY <2>1, <4>1
    <3>2. levels[k].waits[loop].op < levels[n].open  BY <1>1, <1>2, <1>9, <3>1, WaitsHave
    <3>3. levels[n].open < Waits.op
      <4>1. Waits.op \in levels[n].open + 1 .. pos - 1  BY <1>1 DEF WaitOK
      <4>2. levels[n].open \in Nat  BY <1>1, <1>2, WaitsHave DEF LevelType
      <4> QED  BY <1>2, <4>1, <4>2
    <3>4. /\ levels[k].waits[loop].op \in Nat /\ levels[n].open \in Nat
          /\ Waits.op \in Nat
      BY <1>1, <1>2, WaitsHave DEF LevelType, WaitType
    <3> QED  BY <3>2, <3>3, <3>4
  <2>2. CASE k = n /\ phase = "product"
    <3>1. loop = "sum"  BY <1>8, <1>9, <2>2
    <3> QED  BY <1>1, <1>2, <1>9, <2>2, <3>1, WaitsHave
  <2>3. CASE k = n /\ phase = "sum"
    <3>1. loop = "product"  BY <1>8, <1>9, <2>3
    <3>2. levels[n].waits["product"].op = 0  BY <2>3 DEF LastOK
    <3> QED  BY <1>9, <2>3, <3>1, <3>2
  <2> QED  BY <1>1, <1>8, <2>1, <2>2, <2>3
<1>10. ASSUME NEW k \in DOMAIN levels', NEW loop \in Loops
       PROVE  WaitOK(k, loop)'
  <2>1. k \in 1 .. n  BY <1>6
  <2>2. CASE k = n /\ loop = phase
    <3>1. levels'[k].waits[loop].op = 0  BY <1>4, <1>5, <2>2
    <3> QED  BY <3>1 DEF WaitOK
  <2>3. CASE k # n \/ loop # phase
    <3>1. levels'[k].waits[loop] = levels[k].waits[loop]  BY <1>5, <2>1, <2>3
    <3>2. levels[k].waits[loop].op # 0 => levels[k].waits[loop].op < node.at
      BY <1>1, <1>9, <2>1, <2>3
    <3>3. \A j \in DOMAIN levels' : levels'[j].open = levels[j].open  BY <1>5, <1>6
    <3>4. pos' \in Nat /\ pos <= pos'  BY <1>2, <1>3
    <3> QED  BY <1>1, <1>2, <1>3, <1>6, <1>7, <3>1, <3>2, <3>3, <3>4, WaitCarried
  <2> QED  BY <2>2, <2>3
<1>11. ASSUME NEW k \in DOMAIN levels'
       PROVE  /\ levels'[k].waits["sum"].op # 0 /\ levels'[k].waits["product"].op # 0
                   => levels'[k].waits["sum"].op < levels'[k].waits["product"].op
              /\ \A i \in DOMAIN levels'[k].args :
                   levels'[k].args[i] \in 1 .. Len(nodes')
  <2>1. k \in DOMAIN levels /\ k \in 1 .. n  BY <1>2, <1>6
  <2>2. /\ levels[k].waits["sum"].op # 0 /\ levels[k].waits["product"].op # 0
             => levels[k].waits["sum"].op < levels[k].waits["product"].op
        /\ \A i \in DOMAIN levels[k].args : levels[k].args[i] \in 1 .. Len(nodes)
    BY <1>1, <2>1, WaitsHave
  <2>3. \A loop \in Loops : \/ levels'[k].waits[loop] = levels[k].waits[loop]
                            \/ levels'[k].waits[loop].op = 0
    BY <1>4, <1>5, <2>1
  <2>4. "sum" \in Loops /\ "product" \in Loops  BY <1>8
  <2>5. levels'[k].args = levels[k].args  BY <1>5, <2>1
  <2>6. \A i \in 1 .. Len(nodes) : i \in 1 .. Len(nodes')
    <3>1. Len(nodes') \in Nat  BY DEF ParserTypeOK
    <3> QED  BY <1>2, <1>7, <3>1
  <2> QED  BY <2>2, <2>3, <2>4, <2>5, <2>6
<1> QED  BY <1>10, <1>11, WaitsWhole

\* The next round of a loop waits for what follows.
LEMMA WaitsMore ==
  ASSUME ParserTypeOK, ParserTypeOK', LevelsOK, BehindOK, WaitsOK, LastOK, More
  PROVE  WaitsOK'
<1> DEFINE n == Len(levels)
           waits == [op |-> pos, left |-> Len(nodes)]
<1>1. /\ phase \in Parsing /\ phase \in Loops /\ phase # "atom"
      /\ formula' = formula /\ nodes' = nodes /\ pos' = pos + 1 /\ phase' = "atom"
      /\ SetWaits(waits) /\ Waits.op = 0 /\ pos \in DOMAIN formula
      /\ formula[pos] \in Takes[phase]
  BY DEF More, Sees, Parsing, Loops
<1>2. /\ n \in Nat /\ n >= 1 /\ n \in DOMAIN levels /\ DOMAIN levels = 1 .. n
      /\ levels \in Seq(LevelType) /\ levels' \in Seq(LevelType)
      /\ nodes \in Seq(NodeType) /\ pos \in Nat \ {0} /\ Len(nodes) \in Nat
  BY <1>1, AtWork DEF ParserTypeOK
<1>3. waits \in WaitType /\ waits.op = pos /\ waits.left = Len(nodes)
  BY <1>2 DEF WaitType
<1> HIDE DEF waits
<1>5. /\ Len(levels') = n
      /\ \A k \in 1 .. n :
           /\ levels'[k].open = levels[k].open /\ levels'[k].args = levels[k].args
           /\ k # n => levels'[k] = levels[k]
      /\ levels'[n].waits[phase] = waits
      /\ \A loop \in Loops \ {phase} : levels'[n].waits[loop] = levels[n].waits[loop]
  BY <1>1, <1>2, <1>3, WaitsSet
<1>6. DOMAIN levels' = 1 .. n /\ Len(levels') <= Len(levels)
  <2>1. Len(levels') = n  BY <1>5
  <2>2. DOMAIN levels' = 1 .. Len(levels')  BY <1>2
  <2> QED  BY <1>2, <2>1, <2>2
<1>7. Node(0, <<>>) \in NodeType /\ Made(Node(0, <<>>))
  BY <1>1 DEF Node, NodeType, Made
<1>8. Loops = {"product", "sum"}  BY DEF Loops
<1>9. nodes # <<>> /\ Len(nodes) \in 1 .. Len(nodes)
  <2>1. nodes # <<>>  BY <1>1, <1>8 DEF LastOK
  <2> QED  BY <1>2, <2>1
<1>10. Depth(pos) = n - 1
  <2>1. Depth(pos - 1) = n - 1  BY <1>1 DEF LevelsOK
  <2>2. formula[pos] \in Operators  BY <1>1, <1>8 DEF Takes, Operators
  <2>3. formula[pos] \notin {"(", ")"}  BY <2>2, Marked
  <2> QED  BY <1>2, <2>1, <2>3, DepthAt
<1>11. Operation(Len(nodes)) => \/ Tighter(nodes[Len(nodes)].at, pos)
                               \/ Alike(nodes[Len(nodes)].at, pos)
  <2> DEFINE at == nodes[Len(nodes)].at
  <2>1. ASSUME Operation(Len(nodes))
        PROVE  \/ Depth(at) > n - 1
               \/ Depth(at) = n - 1 /\ (phase = "product" => IsProduct(at))
    <3>1. nodes[Len(nodes)] \in NodeType  BY <1>2, <1>9
    <3>2. at \in Nat  BY <3>1 DEF NodeType
    <3>3. Depth(at) \in Int /\ Depth(at) >= n - 1
      <4>1. Depth(at) >= n - 1  BY <1>1, <1>8, <2>1 DEF LastOK
      <4> QED  BY <3>2, <4>1, DepthSteps
    <3>4. Depth(at) > n - 1 \/ Depth(at) = n - 1  BY <1>2, <3>3
    <3>5. phase = "product" => Depth(at) > n - 1 \/ IsProduct(at)
      BY <1>1, <2>1 DEF LastOK
    <3> QED  BY <3>4, <3>5
  <2>2. phase = "product" => IsProduct(pos)
    BY <1>1 DEF IsProduct, Takes, Loops
  <2>3. phase = "sum" => ~IsProduct(pos)
    BY <1>1 DEF IsProduct, Takes, Loops
  <2> QED  BY <1>1, <1>8, <1>10, <2>1, <2>2, <2>3 DEF Tighter, Alike
<1>12. ASSUME NEW k \in DOMAIN levels', NEW loop \in Loops
       PROVE  WaitOK(k, loop)'
  <2>1. k \in 1 .. n  BY <1>6
  <2>2. CASE k = n /\ loop = phase
    <3>1. /\ levels'[k].waits[loop].op = pos
          /\ levels'[k].waits[loop].left = Len(nodes) /\ levels'[k].open = levels[k].open
      BY <1>3, <1>5, <2>1, <2>2
    <3>2. pos \in levels[k].open + 1 .. pos' - 1
      <4>1. levels[k].open \in Nat /\ levels[k].open < pos
        <5>0. levels[n] \in LevelType  BY <1>2
        <5>1. levels[k].open \in Nat  BY <2>2, <5>0 DEF LevelType
        <5>2. CASE Top.open = 0  BY <1>2, <2>2, <5>2 DEF Top
        <5>3. CASE Top.open # 0
          <6>1. OpenOK(n)  BY <1>1, <5>3, TopOpen
          <6>2. levels[n].open \in 1 .. pos - 1  BY <6>1 DEF OpenOK
          <6> QED  BY <1>2, <2>2, <6>2
        <5> QED  BY <5>1, <5>2, <5>3
      <4> QED  BY <1>1, <1>2, <4>1
    <3>3. \A higher \in k + 1 .. Len(levels') : FALSE
      <4>1. Len(levels') = n /\ k = n /\ n \in Nat  BY <1>2, <1>5, <2>2
      <4> QED  BY <4>1
    <3>4. \A m \in 1 .. Len(nodes) : nodes[m].at < pos  BY <1>2 DEF BehindOK
    <3>5. \A m \in Len(nodes) + 1 .. Len(nodes) : FALSE  BY <1>2
    <3>6. Operation(Len(nodes))' <=> Operation(Len(nodes))  BY <1>1 DEF Operation
    <3>7. \A m : m = Len(nodes) => (Operation(m)' <=> Operation(m))
      BY <1>1 DEF Operation
    <3>8. PICK op, left, at : op = pos /\ left = Len(nodes) /\ at = nodes[Len(nodes)].at
      OBVIOUS
    <3>9. /\ formula'[op] \in Takes[loop] /\ Depth(op)' = k - 1
          /\ left \in 1 .. Len(nodes')
          /\ \A m \in 1 .. left : nodes'[m].at < op
          /\ \A m \in left + 1 .. Len(nodes') : op < nodes'[m].at
      BY <1>1, <1>9, <1>10, <2>2, <3>4, <3>5, <3>8, SameFormula
    <3>10. Operation(left)' => Tighter(at, op)' \/ Alike(at, op)'
      <4>1. Operation(left)' => Operation(Len(nodes))  BY <3>7, <3>8
      <4>2. Operation(Len(nodes)) => Tighter(at, op) \/ Alike(at, op)  BY <1>11, <3>8
      <4> QED  BY <1>1, <4>1, <4>2, SameFormula
    <3>11. at = nodes'[left].at  BY <1>1, <3>8
    <3> QED
      BY <1>1, <3>1, <3>2, <3>3, <3>8, <3>9, <3>10, <3>11
      DEF WaitOK, Tighter, Alike, Operation
  <2>3. CASE k # n \/ loop # phase
    <3>1. levels'[k].waits[loop] = levels[k].waits[loop]  BY <1>5, <2>1, <2>3
    <3>3. \A j \in DOMAIN levels' : levels'[j].open = levels[j].open  BY <1>5, <1>6
    <3>4. pos' \in Nat /\ pos <= pos'  BY <1>1, <1>2
    <3> QED  BY <1>1, <1>2, <1>6, <1>7, <3>1, <3>3, <3>4, WaitCarried
  <2> QED  BY <2>2, <2>3
<1>13. ASSUME NEW k \in DOMAIN levels'
       PROVE  /\ levels'[k].waits["sum"].op # 0 /\ levels'[k].waits["product"].op # 0
                   => levels'[k].waits["sum"].op < levels'[k].waits["product"].op
              /\ \A i \in DOMAIN levels'[k].args :
                   levels'[k].args[i] \in 1 .. Len(nodes')
  <2>1. k \in DOMAIN levels /\ k \in 1 .. n  BY <1>2, <1>6
  <2>2. /\ levels[k].waits["sum"].op # 0 /\ levels[k].waits["product"].op # 0
             => levels[k].waits["sum"].op < levels[k].waits["product"].op
        /\ \A i \in DOMAIN levels[k].args : levels[k].args[i] \in 1 .. Len(nodes)
    BY <1>1, <2>1, WaitsHave
  <2>3. levels'[k].args = levels[k].args  BY <1>5, <2>1
  <2>4. CASE k # n  BY <1>1, <1>5, <2>1, <2>2, <2>4
  <2>5. CASE k = n /\ phase = "product"
    <3>1. "sum" \in Loops \ {phase}  BY <1>8, <2>5
    <3>2. levels'[k].waits["sum"].op = levels[k].waits["sum"].op  BY <1>5, <2>5, <3>1
    <3>3. levels'[k].waits["product"].op = pos  BY <1>3, <1>5, <2>5
    <3>4. levels[k].waits["sum"].op # 0 => levels[k].waits["sum"].op < pos
      BY <1>1, <1>8, <2>1, WaitsHave
    <3> QED  BY <1>1, <2>2, <2>3, <3>2, <3>3, <3>4
  <2>6. CASE k = n /\ phase = "sum"
    <3>1. "product" \in Loops \ {phase}  BY <1>8, <2>6
    <3>2. levels'[k].waits["product"].op = levels[k].waits["product"].op
      BY <1>5, <2>6, <3>1
    <3>3. levels[n].waits["product"].op = 0  BY <2>6 DEF LastOK
    <3> QED  BY <1>1, <2>2, <2>3, <2>6, <3>2, <3>3
  <2> QED  BY <1>1, <1>8, <2>4, <2>5, <2>6
<1> QED  BY <1>12, <1>13, WaitsWhole

LEMMA WaitsStep ==
  ASSUME ParserTypeOK, ParserTypeOK', LevelsOK, NodesOK, BehindOK, WaitsOK,
         phase \in Parsing => LastOK, ParserNext
  PROVE  WaitsOK'
<1>0. /\ Parsing = {"atom", "product", "sum", "close"} /\ Loops = {"product", "sum"}
      /\ levels \in Seq(LevelType) /\ levels' \in Seq(LevelType)
      /\ nodes \in Seq(NodeType) /\ Len(nodes) \in Nat /\ pos \in Nat /\ pos' \in Nat
  BY DEF ParserTypeOK, Parsing, Loops
<1>1. CASE WriteToken  BY <1>0, <1>1 DEF WriteToken, WaitsOK
<1>2. CASE Begin
  <2>1. DOMAIN levels' = {1} /\ levels'[1] = Level(0)
    <3>1. levels' = <<Level(0)>>  BY <1>2 DEF Begin
    <3> QED  BY <3>1
  <2>2. \A k \in DOMAIN levels' : /\ levels'[k].args = <<>>
                                  /\ \A loop \in Loops : levels'[k].waits[loop].op = 0
    BY <2>1 DEF Level, Nothing
  <2>3. \A k \in DOMAIN levels' : \A loop \in Loops : WaitOK(k, loop)'
    BY <2>2 DEF WaitOK
  <2> QED  BY <1>0, <2>2, <2>3, WaitsWhole
<1>3. CASE Open
  <2>1. /\ phase = "atom" /\ formula' = formula /\ phase' = phase /\ nodes' = nodes
        /\ pos < pos' /\ pos <= pos /\ levels' = Append(levels, Level(pos))
    BY <1>0, <1>3 DEF Open
  <2> QED  BY <1>0, <2>1, WaitsPushed
<1>4. CASE OpenCall
  <2>1. /\ phase = "atom" /\ formula' = formula /\ phase' = phase /\ nodes' = nodes
        /\ pos < pos' /\ pos <= pos + 1 /\ levels' = Append(levels, Level(pos + 1))
        /\ pos + 1 \in Nat
    BY <1>0, <1>4 DEF OpenCall
  <2> QED  BY <1>0, <2>1, WaitsPushed
<1>5. ASSUME NEW node \in NodeType, Made(node), phase \in Parsing, formula' = formula,
             pos <= pos', Len(levels') <= Len(levels),
             \A k \in DOMAIN levels' : levels'[k] = levels[k],
             \A k \in DOMAIN levels' : \A loop \in Loops :
               levels[k].waits[loop].op # 0 /\ nodes' # nodes
                 => levels[k].waits[loop].op < node.at,
             phase' # "atom" => nodes' # nodes \/ phase # "atom"
      PROVE  WaitsOK'
  <2>1. \A k \in DOMAIN levels' : \A loop \in Loops : WaitOK(k, loop)'
    BY <1>0, <1>5, WaitCarried
  <2>2. DOMAIN levels' \subseteq DOMAIN levels /\ Len(nodes) <= Len(nodes')
    <3>1. Len(nodes) <= Len(nodes')  BY <1>0, <1>5, NodesGrow
    <3> QED  BY <1>0, <1>5, <3>1
  <2>3. ASSUME NEW k \in DOMAIN levels'
        PROVE  /\ levels'[k].waits["sum"].op # 0 /\ levels'[k].waits["product"].op # 0
                    => levels'[k].waits["sum"].op < levels'[k].waits["product"].op
               /\ \A i \in DOMAIN levels'[k].args : levels'[k].args[i] \in 1 .. Len(nodes')
    <3>1. levels'[k] = levels[k] /\ k \in DOMAIN levels  BY <1>5, <2>2
    <3>2. /\ levels[k].waits["sum"].op # 0 /\ levels[k].waits["product"].op # 0
               => levels[k].waits["sum"].op < levels[k].waits["product"].op
          /\ \A i \in DOMAIN levels[k].args : levels[k].args[i] \in 1 .. Len(nodes)
      BY <1>5, <3>1, WaitsHave
    <3>3. \A i \in 1 .. Len(nodes) : i \in 1 .. Len(nodes')  BY <1>0, <2>2
    <3> QED  BY <3>1, <3>2, <3>3
  <2> QED  BY <2>1, <2>3, WaitsWhole
<1>6. ASSUME nodes' = nodes, phase \in Parsing \ {"atom"}, formula' = formula,
             pos <= pos', Len(levels') <= Len(levels),
             \A k \in DOMAIN levels' : levels'[k] = levels[k]
      PROVE  WaitsOK'
  <2>1. Node(0, <<>>) \in NodeType /\ Made(Node(0, <<>>))
    BY <1>6 DEF Node, NodeType, Made
  <2> QED  BY <1>5, <1>6, <2>1
<1>7. CASE Leaf
  <2>1. /\ Node(pos, <<>>) \in NodeType /\ Made(Node(pos, <<>>)) /\ Node(pos, <<>>).at = pos
        /\ phase \in Parsing /\ formula' = formula /\ pos <= pos' /\ levels' = levels
        /\ nodes' = Append(nodes, Node(pos, <<>>))
    BY <1>0, <1>7, NewLeaf DEF Leaf, Node
  <2>2. nodes' # nodes
    <3>1. Len(nodes') = Len(nodes) + 1  BY <1>0, <2>1
    <3> QED  BY <1>0, <3>1
  <2>3. \A k \in DOMAIN levels : \A loop \in Loops :
          levels[k].waits[loop].op # 0 => levels[k].waits[loop].op < pos
    BY <2>1, WaitsHave
  <2> QED  BY <1>0, <1>5, <2>1, <2>2, <2>3
<1>8. CASE EndLoop
  <2>1. phase \in Parsing \ {"atom"}  BY <1>0, <1>8 DEF EndLoop
  <2> QED  BY <1>0, <1>6, <1>8, <2>1 DEF EndLoop
<1>9. CASE CloseGroup
  <2>1. phase \in Parsing \ {"atom"} /\ Top.open # 0  BY <1>0, <1>9 DEF CloseGroup, InGroup
  <2>2. /\ Len(levels') = Len(levels) - 1 /\ Len(levels) >= 2
        /\ \A k \in DOMAIN levels' : levels'[k] = levels[k]
    <3>1. formula' = formula /\ Sees(pos, {")"}) /\ levels' = Lower /\ pos' = pos + 1
      BY <1>9 DEF CloseGroup
    <3>2. /\ Len(levels) >= 2 /\ Len(levels') = Len(levels) - 1
          /\ \A k \in 1 .. Len(levels') : levels'[k] = levels[k]
      BY <2>1, <3>1, LevelsPopped
    <3>3. DOMAIN levels' = 1 .. Len(levels')  BY <1>0
    <3> QED  BY <3>2, <3>3
  <2> QED  BY <1>0, <1>6, <1>9, <2>1, <2>2 DEF CloseGroup
<1>10. CASE CloseCall
  <2> DEFINE node == Node(Top.open - 1, Args)
             n == Len(levels)
  <2>1. phase \in Parsing /\ phase # "atom" /\ InCall /\ Top.open # 0
    BY <1>0, <1>10 DEF CloseCall, InCall
  <2>2. /\ Len(levels') = n - 1 /\ n >= 2
        /\ \A k \in DOMAIN levels' : levels'[k] = levels[k]
    <3>1. formula' = formula /\ Sees(pos, {")"}) /\ levels' = Lower /\ pos' = pos + 1
      BY <1>10 DEF CloseCall
    <3>2. /\ Len(levels) >= 2 /\ Len(levels') = Len(levels) - 1
          /\ \A k \in 1 .. Len(levels') : levels'[k] = levels[k]
      BY <2>1, <3>1, LevelsPopped
    <3>3. DOMAIN levels' = 1 .. Len(levels')  BY <1>0
    <3> QED  BY <3>2, <3>3
  <2>3. nodes # <<>>  BY <1>10, <2>1 DEF CloseCall, LastOK
  <2>4. /\ node \in NodeType /\ Made(node) /\ node.at = levels[n].open - 1
        /\ formula[node.at] \in Name
    BY <1>10, <2>3, NewCall
  <2> HIDE DEF node
  <2>5. ASSUME NEW k \in DOMAIN levels', NEW loop \in Loops, levels[k].waits[loop].op # 0
        PROVE  levels[k].waits[loop].op < node.at
    <3>1. k \in DOMAIN levels /\ n \in k + 1 .. n  BY <1>0, <2>2
    <3>2. /\ levels[k].waits[loop] \in WaitType
          /\ formula[levels[k].waits[loop].op] \in Operators
          /\ levels[k].waits[loop].op < levels[n].open
      BY <2>1, <2>5, <3>1, WaitsHave
    <3>3. levels[k].waits[loop].op # node.at  BY <2>4, <3>2 DEF Name
    <3>4. levels[k].waits[loop].op \in Nat /\ levels[n].open \in Nat
      <4>1. levels[n] \in LevelType  BY <2>1, AtWork DEF Top
      <4> QED  BY <3>2, <4>1 DEF WaitType, LevelType
    <3> QED  BY <2>4, <3>2, <3>3, <3>4
  <2>6. formula' = formula /\ pos <= pos'  BY <1>0, <1>10 DEF CloseCall
  <2>7. Len(levels') <= Len(levels)  BY <1>0, <2>2
  <2> HIDE DEF n
  <2> QED  BY <1>5, <2>1, <2>2, <2>4, <2>5, <2>6, <2>7
<1>11. CASE NextArgument
  <2>1. /\ phase \in Parsing /\ phase = "close" /\ formula' = formula /\ pos <= pos'
        /\ nodes' = nodes /\ SetArgs(Args) /\ phase' = "atom"
    <3>1. /\ phase = "close" /\ formula' = formula /\ pos' = pos + 1
          /\ nodes' = nodes /\ SetArgs(Args) /\ phase' = "atom"
      BY <1>11 DEF NextArgument
    <3> QED  BY <1>0, <3>1
  <2>2. /\ Top \in LevelType /\ Len(levels) >= 1 /\ Len(levels) \in DOMAIN levels
    BY <2>1, AtWork
  <2>3. Args \in Seq(Nat)
    <3>1. Top.args \in Seq(Nat)  BY <2>2 DEF LevelType
    <3> QED  BY <1>0, <3>1 DEF Args
  <2>4. /\ Len(levels') = Len(levels)
        /\ \A k \in 1 .. Len(levels) :
             /\ levels'[k].open = levels[k].open /\ levels'[k].waits = levels[k].waits
             /\ levels'[k].args = IF k = Len(levels) THEN Args ELSE levels[k].args
    BY <1>0, <2>1, <2>2, <2>3, ArgsSet
  <2>5. Node(0, <<>>) \in NodeType /\ Made(Node(0, <<>>))
    BY <2>1 DEF Node, NodeType, Made
  <2>6. DOMAIN levels' = DOMAIN levels /\ DOMAIN levels = 1 .. Len(levels)
    BY <1>0, <2>4
  <2>7. ASSUME NEW k \in DOMAIN levels', NEW loop \in Loops
        PROVE  WaitOK(k, loop)'
    <3>1. Len(levels') <= Len(levels)  BY <1>0, <2>4
    <3>2. \A j \in DOMAIN levels' : levels'[j].open = levels[j].open  BY <2>4, <2>6
    <3>3. levels'[k].waits[loop] = levels[k].waits[loop]  BY <2>4, <2>6
    <3> QED  BY <1>0, <2>1, <2>5, <3>1, <3>2, <3>3, WaitCarried
  <2>8. \A i \in DOMAIN Args : Args[i] \in 1 .. Len(nodes)
    <3>1. \A i \in DOMAIN Top.args : Top.args[i] \in 1 .. Len(nodes)
      BY <2>1, <2>2, WaitsHave DEF Top
    <3>2. Len(nodes) \in 1 .. Len(nodes)
      <4>1. nodes # <<>>  BY <2>1 DEF LastOK
      <4> QED  BY <1>0, <4>1
    <3>3. Top.args \in Seq(Nat)  BY <2>2 DEF LevelType
    <3> QED  BY <3>1, <3>2, <3>3 DEF Args
  <2>9. ASSUME NEW k \in DOMAIN levels'
        PROVE  /\ levels'[k].waits["sum"].op # 0 /\ levels'[k].waits["product"].op # 0
                    => levels'[k].waits["sum"].op < levels'[k].waits["product"].op
               /\ \A i \in DOMAIN levels'[k].args : levels'[k].args[i] \in 1 .. Len(nodes')
    <3>1. /\ levels[k].waits["sum"].op # 0 /\ levels[k].waits["product"].op # 0
               => levels[k].waits["sum"].op < levels[k].waits["product"].op
          /\ \A i \in DOMAIN levels[k].args : levels[k].args[i] \in 1 .. Len(nodes)
      BY <2>1, <2>6, WaitsHave
    <3> QED  BY <2>1, <2>4, <2>6, <2>8, <3>1
  <2> QED  BY <2>7, <2>9, WaitsWhole
<1>12. CASE Join
  <2>1. phase \in Parsing  BY <1>0, <1>12 DEF Join
  <2> QED  BY <1>12, <2>1, WaitsJoined
<1>13. CASE More
  <2>1. phase \in Parsing  BY <1>0, <1>13 DEF More
  <2> QED  BY <1>13, <2>1, WaitsMore
<1>14. CASE Accept  BY <1>0, <1>14 DEF Accept, WaitsOK
<1>15. CASE Refuse  BY <1>0, <1>15 DEF Refuse, WaitsOK
<1> QED
  BY <1>1, <1>2, <1>3, <1>4, <1>7, <1>8, <1>9, <1>10, <1>11, <1>12, <1>13, <1>14, <1>15
     DEF ParserNext

\* What is made belongs to what was read.
LEMMA BehindStep ==
  ASSUME ParserTypeOK, LevelsOK, NodesOK, BehindOK, WaitsOK, phase \in Parsing => LastOK,
         VerdictOK, ParserNext
  PROVE  BehindOK'
<1>1. nodes \in Seq(NodeType) /\ pos \in Nat /\ Len(nodes) \in Nat
  BY DEF ParserTypeOK
<1>2. ASSUME nodes' = nodes, pos' \in Nat, pos' >= pos
      PROVE  BehindOK'
  <2>1. ASSUME NEW k \in DOMAIN nodes  PROVE nodes[k].at < pos'
    <3>0. nodes[k] \in NodeType  BY <1>1
    <3>1. nodes[k].at \in Nat /\ nodes[k].at < pos  BY <3>0 DEF NodeType, BehindOK
    <3> QED  BY <1>1, <1>2, <3>1
  <2> QED  BY <1>2, <2>1 DEF BehindOK
<1>3. ASSUME NEW node \in NodeType, nodes' = Append(nodes, node), node.at < pos',
             pos' \in Nat, pos' >= pos
      PROVE  BehindOK'
  <2>1. ASSUME NEW k \in DOMAIN nodes'  PROVE nodes'[k].at < pos'
    <3>1. CASE k \in DOMAIN nodes
      <4>0. nodes[k] \in NodeType  BY <1>1, <3>1
      <4>1. nodes[k].at \in Nat /\ nodes[k].at < pos  BY <3>1, <4>0 DEF NodeType, BehindOK
      <4>2. nodes'[k] = nodes[k]  BY <1>1, <1>3, <3>1
      <4> QED  BY <1>1, <1>3, <4>1, <4>2
    <3>2. CASE k \notin DOMAIN nodes
      <4>1. nodes'[k] = node  BY <1>1, <1>3, <3>2
      <4> QED  BY <1>3, <4>1
    <3> QED  BY <3>1, <3>2
  <2> QED  BY <2>1 DEF BehindOK
<1>4. CASE WriteToken  BY <1>1, <1>2, <1>4 DEF WriteToken
<1>5. CASE Begin
  <2>1. nodes' = <<>>  BY <1>5 DEF Begin, VerdictOK
  <2> QED  BY <2>1 DEF BehindOK
<1>6. CASE Open  BY <1>1, <1>2, <1>6 DEF Open
<1>7. CASE OpenCall  BY <1>1, <1>2, <1>7 DEF OpenCall
<1>8. CASE Leaf
  <2>1. /\ Node(pos, <<>>) \in NodeType /\ Node(pos, <<>>).at = pos
        /\ nodes' = Append(nodes, Node(pos, <<>>)) /\ pos' = pos + 1
    BY <1>8, NewLeaf DEF Leaf, Node
  <2> QED  BY <1>1, <1>3, <2>1
<1>9. CASE Join
  <2>1. phase \in Parsing  BY <1>9, NewJoint
  <2> DEFINE node == Node(Waits.op, <<Waits.left, Len(nodes)>>)
  <2>2. /\ node \in NodeType /\ nodes' = Append(nodes, node) /\ pos' = pos
        /\ node.at = levels[Len(levels)].waits[phase].op /\ phase \in Loops
        /\ levels[Len(levels)].waits[phase].op # 0
    BY <1>9, NewJoint DEF Join
  <2> HIDE DEF node
  <2>3. node.at < pos  BY <2>1, <2>2, AtWork, WaitsHave
  <2> QED  BY <1>1, <1>3, <2>2, <2>3
<1>10. CASE More  BY <1>1, <1>2, <1>10 DEF More
<1>11. CASE EndLoop  BY <1>1, <1>2, <1>11 DEF EndLoop
<1>12. CASE CloseGroup  BY <1>1, <1>2, <1>12 DEF CloseGroup
<1>13. CASE NextArgument
  <2>1. nodes' = nodes /\ pos' = pos + 1  BY <1>13 DEF NextArgument
  <2> QED  BY <1>1, <1>2, <2>1
<1>14. CASE CloseCall
  <2>1. phase \in Parsing /\ Top.open # 0  BY <1>14 DEF CloseCall, InCall, Parsing
  <2>2. nodes # <<>>  BY <1>14, <2>1 DEF CloseCall, LastOK
  <2> DEFINE node == Node(Top.open - 1, Args)
  <2>3. /\ node \in NodeType /\ node.at = Top.open - 1
        /\ nodes' = Append(nodes, node) /\ pos' = pos + 1
    BY <1>14, <2>2, NewCall DEF CloseCall, Top
  <2> HIDE DEF node
  <2>4. Top.open \in 1 .. pos - 1  BY <2>1, TopOpen DEF OpenOK, Top
  <2>5. node.at < pos'  BY <1>1, <2>3, <2>4
  <2> QED  BY <1>1, <1>3, <2>3, <2>5
<1>15. CASE Accept  BY <1>1, <1>2, <1>15 DEF Accept
<1>16. CASE Refuse
  <2>1. nodes' = nodes /\ pos' = pos  BY <1>16 DEF Refuse
  <2> QED  BY <1>1, <1>2, <2>1
<1> QED
  BY <1>4, <1>5, <1>6, <1>7, <1>8, <1>9, <1>10, <1>11, <1>12, <1>13, <1>14, <1>15, <1>16
     DEF ParserNext

\* What is made last.
LEMMA LastStep ==
  ASSUME ParserTypeOK, ParserTypeOK', LevelsOK, LevelsOK', NodesOK, BehindOK, WaitsOK,
         phase \in Parsing => LastOK, ParserNext
  PROVE  phase' \in Parsing => LastOK'
<1>0. /\ Parsing = {"atom", "product", "sum", "close"} /\ Loops = {"product", "sum"}
      /\ nodes \in Seq(NodeType) /\ nodes' \in Seq(NodeType) /\ Len(nodes) \in Nat
  BY DEF ParserTypeOK, Parsing, Loops
<1>1. ASSUME phase' \notin Parsing \/ phase' = "atom"
      PROVE  phase' \in Parsing => LastOK'
  BY <1>1 DEF LastOK
<1>2. ASSUME NEW node \in NodeType, nodes' = Append(nodes, node),
             formula'[node.at] \notin Operators, phase' = "product"
      PROVE  LastOK'
  <2>1. nodes' # <<>> /\ nodes'[Len(nodes')] = node
    <3>1. Len(nodes') = Len(nodes) + 1 /\ nodes'[Len(nodes) + 1] = node  BY <1>0, <1>2
    <3> QED  BY <1>0, <3>1
  <2>2. \A k : k = Len(nodes') => ~Operation(k)'  BY <1>2, <2>1 DEF Operation
  <2>3. ~Operation(Len(nodes))'  BY <1>2, <2>1 DEF Operation
  <2> QED  BY <1>2, <2>1, <2>3 DEF LastOK
<1>3. CASE WriteToken  BY <1>0, <1>1, <1>3 DEF WriteToken
<1>4. CASE Begin  BY <1>1, <1>4 DEF Begin
<1>5. CASE Open  BY <1>1, <1>5 DEF Open
<1>6. CASE OpenCall  BY <1>1, <1>6 DEF OpenCall
<1>7. CASE More  BY <1>1, <1>7 DEF More
<1>8. CASE NextArgument
  <2>1. phase' = "atom"  BY <1>8 DEF NextArgument
  <2> QED  BY <1>1, <2>1
<1>9. CASE Accept
  <2>1. phase' = "parsed"  BY <1>9 DEF Accept
  <2> QED  BY <1>0, <1>1, <2>1
<1>10. CASE Refuse
  <2>1. phase' = "refused"  BY <1>10 DEF Refuse
  <2> QED  BY <1>0, <1>1, <2>1
<1>11. CASE Leaf
  <2>1. /\ Node(pos, <<>>) \in NodeType /\ Node(pos, <<>>).at = pos
        /\ nodes' = Append(nodes, Node(pos, <<>>)) /\ formula' = formula
        /\ formula[pos] \notin Operators /\ phase' = "product"
    BY <1>11, NewLeaf DEF Leaf, Node
  <2> QED  BY <1>2, <2>1
<1>12. CASE CloseCall
  <2>1. nodes # <<>>  BY <1>0, <1>12 DEF CloseCall, LastOK
  <2> DEFINE node == Node(Top.open - 1, Args)
  <2>2. /\ node \in NodeType /\ formula[node.at] \in Name
        /\ nodes' = Append(nodes, node) /\ formula' = formula /\ phase' = "product"
    BY <1>12, <2>1, NewCall DEF CloseCall
  <2>3. formula'[node.at] \notin Operators  BY <2>2 DEF Name
  <2> HIDE DEF node
  <2> QED  BY <1>2, <2>2, <2>3
<1>13. CASE Join
  <2> DEFINE node == Node(Waits.op, <<Waits.left, Len(nodes)>>)
             n == Len(levels)
  <2>1. /\ phase \in Parsing /\ phase \in Loops /\ node \in NodeType
        /\ node.at = Waits.op /\ nodes' = Append(nodes, node)
        /\ Waits.op = levels[n].waits[phase].op
        /\ Waits.op # 0 /\ WaitOK(n, phase)
        /\ formula' = formula /\ phase' = phase /\ SetWaits(Nothing)
    BY <1>13, NewJoint DEF Join
  <2> HIDE DEF node
  <2>2. n \in Nat /\ n >= 1 /\ levels \in Seq(LevelType)  BY <2>1, AtWork DEF ParserTypeOK
  <2>3. Nothing \in WaitType /\ Nothing.op = 0  BY DEF Nothing, WaitType
  <2>4. /\ Len(levels') = n
        /\ levels'[n].waits[phase] = Nothing
        /\ \A loop \in Loops \ {phase} : levels'[n].waits[loop] = levels[n].waits[loop]
    BY <2>1, <2>2, <2>3, WaitsSet
  <2>5. nodes' # <<>> /\ nodes'[Len(nodes')] = node
    <3>1. Len(nodes') = Len(nodes) + 1 /\ nodes'[Len(nodes) + 1] = node  BY <1>0, <2>1
    <3> QED  BY <1>0, <3>1
  <2>6. PICK at, d : at = node.at /\ d = n - 1  OBVIOUS
  <2>7. Depth(at)' = d /\ formula'[at] \in Takes[phase]
    <3>1. Depth(Waits.op) = n - 1 /\ formula[Waits.op] \in Takes[phase]
      BY <2>1 DEF WaitOK
    <3> QED  BY <2>1, <2>6, <3>1, SameFormula
  <2>8. Depth(at)' >= d  BY <2>2, <2>6, <2>7
  <2>9. nodes'[Len(nodes')].at = at /\ Len(levels') - 1 = d  BY <2>4, <2>5, <2>6
  <2>10. CASE phase = "product"
    <3>1. IsProduct(at)'  BY <2>7, <2>10 DEF IsProduct, Takes
    <3>2. levels'[Len(levels')].waits["product"].op = 0  BY <2>3, <2>4, <2>10
    <3> QED  BY <2>1, <2>5, <2>8, <2>9, <2>10, <3>1, <3>2 DEF LastOK, IsProduct
  <2>11. CASE phase = "sum"
    <3>1. levels[n].waits["product"].op = 0  BY <2>1, <2>11 DEF LastOK
    <3>2. "product" \in Loops \ {phase}  BY <1>0, <2>11
    <3>3. /\ levels'[Len(levels')].waits["product"].op = 0
          /\ levels'[Len(levels')].waits["sum"].op = 0
      BY <2>3, <2>4, <2>11, <3>1, <3>2
    <3> QED  BY <2>1, <2>5, <2>8, <2>9, <2>11, <3>3 DEF LastOK
  <2> QED  BY <1>0, <2>1, <2>10, <2>11
<1>14. CASE EndLoop
  <2>1. /\ phase \in Parsing /\ phase \in Loops /\ phase' = After[phase]
        /\ formula' = formula /\ nodes' = nodes /\ levels' = levels /\ Waits.op = 0
    BY <1>0, <1>14 DEF EndLoop
  <2>2. PICK at, d, last, n : at = nodes[Len(nodes)].at /\ d = Len(levels) - 1
                                /\ last = Len(nodes) /\ n = Len(levels)
    OBVIOUS
  <2>3. /\ Depth(at)' = Depth(at) /\ IsProduct(at)' = IsProduct(at)
        /\ Operation(last)' = Operation(last)
    BY <2>1, SameFormula DEF Operation
  <2>4. levels[n].waits[phase].op = 0  BY <2>1, <2>2 DEF Waits, Top
  <2>5. nodes # <<>> /\ (Operation(last) => Depth(at) >= d)
    BY <1>0, <2>1, <2>2 DEF LastOK
  <2>6. CASE phase = "product"
    <3>1. Operation(last) => Depth(at) > d \/ IsProduct(at)
      BY <2>1, <2>2, <2>6 DEF LastOK
    <3>2. phase' = "sum"  BY <2>1, <2>6 DEF After
    <3> QED  BY <2>1, <2>2, <2>3, <2>4, <2>5, <2>6, <3>1, <3>2 DEF LastOK, Operation, IsProduct
  <2>7. CASE phase = "sum"
    <3>1. levels[n].waits["product"].op = 0  BY <2>1, <2>2, <2>7 DEF LastOK
    <3>2. phase' = "close"  BY <2>1, <2>7 DEF After
    <3> QED  BY <2>1, <2>2, <2>3, <2>4, <2>5, <2>7, <3>1, <3>2 DEF LastOK, Operation
  <2> QED  BY <1>0, <2>1, <2>6, <2>7
<1>15. CASE CloseGroup
  <2>1. /\ phase \in Parsing /\ phase = "close" /\ Top.open # 0 /\ Sees(pos, {")"})
        /\ formula' = formula /\ nodes' = nodes /\ levels' = Lower /\ pos' = pos + 1
        /\ phase' = "product"
    BY <1>0, <1>15 DEF CloseGroup, InGroup
  <2>2. Len(levels') = Len(levels) - 1 /\ Len(levels) \in Nat
    BY <2>1, LevelsPopped, AtWork
  <2>3. PICK at, last : at = nodes[Len(nodes)].at /\ last = Len(nodes)  OBVIOUS
  <2>4. nodes # <<>> /\ (Operation(last) => Depth(at) >= Len(levels) - 1)
    BY <2>1, <2>3 DEF LastOK
  <2>5. at \in Nat
    <3>1. Len(nodes) \in 1 .. Len(nodes)  BY <1>0, <2>4
    <3>2. nodes[Len(nodes)] \in NodeType  BY <1>0, <3>1
    <3> QED  BY <2>3, <3>2 DEF NodeType
  <2>6. Operation(last) => Depth(at) >= Len(levels') - 1 /\ Depth(at) > Len(levels') - 1
    <3>1. Depth(at) \in Int  BY <2>5, DepthSteps
    <3> QED  BY <2>2, <2>4, <3>1
  <2>7. Depth(at)' = Depth(at) /\ Operation(last)' = Operation(last)
    BY <2>1, SameFormula DEF Operation
  <2> QED  BY <2>1, <2>3, <2>4, <2>6, <2>7 DEF LastOK, Operation
<1> QED
  BY <1>3, <1>4, <1>5, <1>6, <1>7, <1>8, <1>9, <1>10, <1>11, <1>12, <1>13, <1>14, <1>15
     DEF ParserNext

\* The verdict.
LEMMA VerdictStep ==
  ASSUME ParserTypeOK, LevelsOK, PrefixOK, phase \in Parsing => LastOK, VerdictOK,
         ParserNext
  PROVE  VerdictOK'
<1>1. ASSUME phase' \in Parsing  PROVE VerdictOK'
  BY <1>1 DEF VerdictOK, Parsing, Read
<1>2. CASE WriteToken  BY <1>2 DEF WriteToken, VerdictOK, Read
<1>3. CASE Accept
  <2>1. phase = "close" /\ phase' = "parsed" /\ formula' = formula /\ nodes' = nodes
    BY <1>3 DEF Accept
  <2>2. nodes # <<>>  BY <2>1 DEF LastOK, Parsing
  <2>3. WellFormed'  BY <1>3, <2>1, AcceptRight, SameFormula
  <2> QED  BY <2>1, <2>2, <2>3 DEF VerdictOK, Read
<1>4. CASE Refuse
  <2>1. phase' = "refused" /\ formula' = formula  BY <1>4 DEF Refuse
  <2>2. ~WellFormed'  BY <1>4, <2>1, RefuseRight, SameFormula
  <2> QED  BY <2>1, <2>2 DEF VerdictOK, Read
<1>5. CASE Begin  BY <1>1, <1>5 DEF Begin, Parsing
<1>6. CASE Open  BY <1>1, <1>6 DEF Open, Parsing
<1>7. CASE OpenCall  BY <1>1, <1>7 DEF OpenCall, Parsing
<1>8. CASE Leaf  BY <1>1, <1>8 DEF Leaf, Parsing
<1>9. CASE Join
  <2>1. phase \in Loops /\ phase' = phase  BY <1>9 DEF Join
  <2> QED  BY <1>1, <2>1 DEF Loops, Parsing
<1>10. CASE More  BY <1>1, <1>10 DEF More, Parsing
<1>11. CASE EndLoop  BY <1>1, <1>11 DEF EndLoop, After, Loops, Parsing
<1>12. CASE CloseGroup  BY <1>1, <1>12 DEF CloseGroup, Parsing
<1>13. CASE NextArgument
  <2>1. phase' = "atom"  BY <1>13 DEF NextArgument
  <2> QED  BY <1>1, <2>1 DEF Parsing
<1>14. CASE CloseCall
  <2>1. phase' = "product"  BY <1>14 DEF CloseCall
  <2> QED  BY <1>1, <2>1 DEF Parsing
<1> QED
  BY <1>2, <1>3, <1>4, <1>5, <1>6, <1>7, <1>8, <1>9, <1>10, <1>11, <1>12, <1>13, <1>14
     DEF ParserNext

-----------------------------------------------------------------------------
(* The parser as a whole.                                                   *)

LEMMA ParserStarts ==
  ASSUME ParserInit
  PROVE  ParserInv
<1>1. /\ formula = <<>> /\ phase = "writing" /\ pos = 0 /\ levels = <<>> /\ nodes = <<>>
  BY DEF ParserInit
<1> QED
  BY <1>1 DEF ParserInv, ParserTypeOK, LevelsOK, PrefixOK, NodesOK, BehindOK, WaitsOK,
              VerdictOK, Parsing, Read

LEMMA ParserSteps ==
  ASSUME ParserInv, ParserNext
  PROVE  ParserInv'
<1> USE DEF ParserInv
<1>1. ParserTypeOK'  BY ParserTypes
<1>2. LevelsOK'  BY LevelsStep
<1>3. PrefixOK'  BY <1>1, PrefixStep
<1>4. NodesOK'  BY NodesStep
<1>5. BehindOK'  BY BehindStep
<1>6. WaitsOK'  BY <1>1, WaitsStep
<1>7. phase' \in Parsing => LastOK'  BY <1>1, <1>2, LastStep
<1>8. VerdictOK'  BY VerdictStep
<1> QED  BY <1>1, <1>2, <1>3, <1>4, <1>5, <1>6, <1>7, <1>8

\* What was parsed stays as it is while it is calculated.
LEMMA ParserRests ==
  ASSUME ParserInv, UNCHANGED <<formula, pos, levels, nodes>>,
         phase' = phase \/ (phase \in Read /\ phase' \in Read)
  PROVE  ParserInv'
<1>1. /\ formula' = formula /\ pos' = pos /\ levels' = levels /\ nodes' = nodes
      /\ phase' \in Parsing => phase' = phase
  BY DEF Parsing, Read
<1>2. /\ \A i, tokens : Sees(i, tokens)' = Sees(i, tokens)
      /\ \A i : Depth(i)' = Depth(i)
      /\ \A i : Awaits(i)' = Awaits(i) /\ EndsOne(i)' = EndsOne(i)
      /\ \A i : Follows(i)' = Follows(i) /\ CommaOK(i)' = CommaOK(i)
      /\ \A i : IsProduct(i)' = IsProduct(i)
      /\ \A j, i : Tighter(j, i)' = Tighter(j, i) /\ Alike(j, i)' = Alike(j, i)
      /\ WellFormed' = WellFormed
  BY <1>1, SameFormula
<1>3. ParserTypeOK'  BY <1>1 DEF ParserInv, ParserTypeOK, Read
<1>4. LevelsOK'
  <2>1. \A k : OpenOK(k)' = OpenOK(k)  BY <1>1, <1>2 DEF OpenOK
  <2> QED  BY <1>1, <1>2, <2>1 DEF ParserInv, LevelsOK
<1>5. PrefixOK'
  <2>1. /\ Awaits(pos - 1)' = Awaits(pos - 1) /\ EndsOne(pos - 1)' = EndsOne(pos - 1)
        /\ \A tokens : Sees(pos, tokens)' = Sees(pos, tokens)
    BY <1>1 DEF Awaits, EndsOne, Sees
  <2> QED  BY <1>1, <1>2, <2>1 DEF ParserInv, PrefixOK
<1>6. NodesOK'
  <2>1. Node(0, <<>>) \in NodeType /\ Made(Node(0, <<>>))
    BY <1>1 DEF Node, NodeType, Made
  <2> QED  BY <1>1, <2>1, NodeKept DEF ParserInv, ParserTypeOK, NodesOK
<1>7. BehindOK'  BY <1>1 DEF ParserInv, BehindOK
<1>8. WaitsOK'
  <2>1. ASSUME NEW k, NEW loop, phase' = phase  PROVE WaitOK(k, loop)' = WaitOK(k, loop)
    BY <1>1, <2>1 DEF WaitOK, Operation, Tighter, Alike, IsProduct, Depth
  <2> QED  BY <1>1, <2>1 DEF ParserInv, WaitsOK
<1>9. phase' \in Parsing => LastOK'
  BY <1>1 DEF ParserInv, LastOK, Operation, IsProduct, Depth
<1>10. VerdictOK'
  BY <1>1, <1>2 DEF ParserInv, VerdictOK, Read
<1> QED  BY <1>3, <1>4, <1>5, <1>6, <1>7, <1>8, <1>9, <1>10 DEF ParserInv

LEMMA ParserReads ==
  ASSUME ParserInv
  PROVE  ReadsWellFormed
<1>1. ASSUME NEW k \in DOMAIN nodes, Operation(k)  PROVE Ordered(k)
  BY <1>1 DEF ParserInv, NodesOK, NodeOK, Operation
<1> QED  BY <1>1 DEF ParserInv, VerdictOK, ReadsWellFormed, Read
=============================================================================
