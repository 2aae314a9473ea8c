-------------------------------- MODULE Ledger --------------------------------
(***************************************************************************)
(* What a keeper of records promises, whatever is refused, killed or       *)
(* started again underneath: records are entered one at a time, none is    *)
(* taken out, each is only ever replaced by what it may become, and        *)
(* nothing is told but what is kept at that moment.  There is no memory    *)
(* here, no transaction, no start and no failure.                          *)
(***************************************************************************)

CONSTANT Later(_, _, _)   \* whether a record of a kind may become another

VARIABLES
  kept,   \* for each kind, the records that will be found
  told    \* for each kind, what records were when somebody was told of them

ledgerVars == <<kept, told>>

Init == told = kept

\* A record is entered or replaced, and all others stay.
Enter(kind, id, record) ==
  /\ id \in DOMAIN kept[kind] => Later(kind, kept[kind][id], record)
  /\ kept' = [kept EXCEPT ![kind] =
                [k \in DOMAIN kept[kind] \cup {id} |->
                   IF k = id THEN record ELSE kept[kind][k]]]

\* Somebody is told what some records, or none, are from now on.
Tell ==
  /\ DOMAIN told' = DOMAIN told
  /\ \A kind \in DOMAIN told :
       /\ DOMAIN told[kind] \subseteq DOMAIN told'[kind]
       /\ \A id \in DOMAIN told'[kind] :
            \/ id \in DOMAIN told[kind] /\ told'[kind][id] = told[kind][id]
            \/ id \in DOMAIN kept'[kind] /\ told'[kind][id] = kept'[kind][id]

Next ==
  \E kind \in DOMAIN kept : \E id \in DOMAIN kept'[kind] :
    Enter(kind, id, kept'[kind][id]) /\ Tell

Spec == Init /\ [][Next]_ledgerVars
=============================================================================
