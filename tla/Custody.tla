-------------------------------- MODULE Custody -------------------------------
(***************************************************************************)
(* Custody: a transfer of a subsample is initiated by one account and      *)
(* confirmed by another, and only the confirmation moves the subsample.    *)
(* NewReversal is never called: a transfer that is confirmed stays so.     *)
(***************************************************************************)
EXTENDS Intake

\* The initiator need not hold the subsample, and earlier transfers of it may
\* still be pending.
CreateCustody(u, c, x, to, place) ==
  /\ to # u
  /\ custodies' = Put(custodies, c,
       [subsample |-> x, from |-> u, to |-> to, place |-> place,
        status |-> "pending"])
  /\ Audit(u, "initiate", c)
  /\ UNCHANGED <<holding, intakeVars, testingVars, certVars>>

\* CustodyTransfer.Confirm accepts the caller.
MayConfirm_Anyone(u, transfer) == transfer.status = "pending"
MayConfirm_Again(u, transfer) == transfer.to = u
MayConfirm(u, transfer) == transfer.status = "pending" /\ transfer.to = u

\* Where a confirmation puts the subsample.
Handover_ToSender(u, transfer) ==
  [holder |-> transfer.from, place |-> transfer.place]
Handover(u, transfer) == [holder |-> u, place |-> transfer.place]

ConfirmCustody(u, c) ==
  LET transfer == custodies[c] IN
  /\ MayConfirm(u, transfer)
  /\ transfer.subsample \in DOMAIN subsamples
  /\ holding' = Put(holding, transfer.subsample, Handover(u, transfer))
  /\ custodies' = [custodies EXCEPT ![c].status = "confirmed"]
  /\ Audit(u, "confirm", c)
  /\ UNCHANGED <<intakeVars, testingVars, certVars>>

CustodyNext ==
  \E u \in Users :
    \/ \E c \in Fresh(CustodyId, custodies), x \in DOMAIN subsamples,
          to \in Users \cup {None}, place \in Location :
         CreateCustody(u, c, x, to, place)
    \/ \E c \in DOMAIN custodies : ConfirmCustody(u, c)

CustodySpec == Init /\ [][IntakeNext \/ CustodyNext]_vars

-----------------------------------------------------------------------------
(* Safety.                                                                  *)

\* The confirmed transfers of subsample x to account u.
Receipts(x, u) ==
  {c \in DOMAIN custodies :
     /\ custodies[c].subsample = x /\ custodies[c].to = u
     /\ custodies[c].status = "confirmed"}

\* A subsample is with an account, and at a place, only because that account
\* confirmed a transfer of it to that place; until any transfer of it is
\* confirmed it is with nobody.
HolderConfirmedReceipt ==
  \A x \in DOMAIN subsamples :
    IF holding[x].holder = None
    THEN \A u \in Users : Receipts(x, u) = {}
    ELSE \E c \in Receipts(x, holding[x].holder) :
           custodies[c].place = holding[x].place

\* Both parties took part: the trail shows the sender initiating the transfer
\* and, once it is confirmed, the recipient and nobody else confirming it.
TwoPartyTransfer ==
  \A c \in DOMAIN custodies :
    /\ custodies[c].from # custodies[c].to
    /\ \A u \in Users :
         /\ Audited(u, "initiate", c) <=> u = custodies[c].from
         /\ Audited(u, "confirm", c) <=>
              custodies[c].status = "confirmed" /\ u = custodies[c].to

\* A subsample changes hands only in the step that confirms a transfer of it
\* to its new holder, and then it goes where that transfer says; a confirmed
\* transfer never changes.
HandoverByConfirmation ==
  [][/\ \A x \in DOMAIN subsamples : holding'[x] # holding[x] =>
          \E c \in DOMAIN custodies :
            /\ custodies[c].status = "pending"
            /\ custodies'[c].status = "confirmed"
            /\ custodies[c].subsample = x
            /\ holding'[x] = [holder |-> custodies[c].to,
                              place |-> custodies[c].place]
     /\ \A c \in DOMAIN custodies :
          custodies[c].status = "confirmed" => custodies'[c] = custodies[c]
    ]_vars
=============================================================================
