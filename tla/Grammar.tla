-------------------------------- MODULE Grammar --------------------------------
(***************************************************************************)
(* The grammar of formulas, as the set of trees that each formula has, and *)
(* the tree that the parser made.                                          *)
(***************************************************************************)
EXTENDS Calculation

RECURSIVE Sums(_), Products(_), Atoms(_), Arguments(_)

\* All ways to read w as: left, an operator of ops, right.
Joined(w, ops, Left(_), Right(_)) ==
  UNION {{<<w[i], l, r>> : l \in Left(SubSeq(w, 1, i - 1)),
                           r \in Right(SubSeq(w, i + 1, Len(w)))} :
         i \in {j \in 2 .. Len(w) - 1 : w[j] \in ops}}

Sums(w)     == Products(w) \cup Joined(w, {"+", "-"}, Sums, Products)
Products(w) == Atoms(w) \cup Joined(w, {"*", "/"}, Products, Atoms)

Arguments(w) ==
  {<<a>> : a \in Sums(w)} \cup
  UNION {{Append(args, a) : args \in Arguments(SubSeq(w, 1, i - 1)),
                            a \in Sums(SubSeq(w, i + 1, Len(w)))} :
         i \in {j \in 2 .. Len(w) - 1 : w[j] = ","}}

Atoms(w) ==
  CASE Len(w) = 1 /\ w[1] \in DOMAIN Literal \cup DOMAIN Field -> {<<w[1]>>}
    [] Len(w) > 2 /\ w[1] = "(" /\ w[Len(w)] = ")" -> Sums(SubSeq(w, 2, Len(w) - 1))
    [] Len(w) > 3 /\ w[1] \in Name /\ w[2] = "(" /\ w[Len(w)] = ")" ->
         {<<w[1]>> \o args : args \in Arguments(SubSeq(w, 3, Len(w) - 1))}
    [] OTHER -> {}

\* The tree below a node.
RECURSIVE Tree(_)
Tree(k) ==
  LET kids == nodes[k].kids
  IN <<formula[nodes[k].at]>> \o [i \in DOMAIN kids |-> Tree(kids[i])]

\* Validate accepts exactly the formulas of the grammar, and reads each in the
\* one way the grammar gives it: products before sums, both from the left.
ParsesGrammar ==
  /\ phase = "refused" => Sums(formula) = {}
  /\ phase = "parsed" => Sums(formula) = {Tree(Len(nodes))}
=============================================================================
