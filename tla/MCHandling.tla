------------------------------ MODULE MCHandling ------------------------------
(* Intake and custody together.  Either requests are edited, submitted and   *)
(* split in every way while nothing has been handed over, or one request is   *)
(* taken to its parts and these are handed around.                            *)
EXTENDS Custody, TLC

CONSTANTS mei, tao, lin, r1, r2, s1, s2, x1, x2, c1, c2, c3, m1

MCUsers == {mei, tao, lin}
MCRoleOf == (mei :> "manager") @@ (tao :> "tester") @@ (lin :> "tester")
MCQuantity == 0..3

IntakeShape ==
  /\ custodies = NoEntries
  /\ \A x \in DOMAIN holding : holding[x].place = "shelf"

CustodyShape ==
  /\ \A r \in DOMAIN requests : DOMAIN requests = {r}
  /\ sequence <= 1
  /\ \A r \in DOMAIN requests : requests[r].revision = 1
  /\ \A s \in DOMAIN samples : samples[s].total <= 2
  /\ declaredLoss \in [SampleId -> 0..2]
  /\ Cardinality(DOMAIN subsamples) <= 2

Explored == IntakeShape \/ CustodyShape

Symmetric == Permutations({r1, r2}) \cup Permutations({s1, s2})
               \cup Permutations({x1, x2}) \cup Permutations({c1, c2, c3})
               \cup Permutations({tao, lin})
=============================================================================
