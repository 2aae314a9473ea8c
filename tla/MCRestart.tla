------------------------------ MODULE MCRestart -------------------------------
(* One sample from its request to two certificates, on a database, with a    *)
(* server that is killed or stopped at any point and started again, and a    *)
(* save that is refused at any point.  A second method is drafted only       *)
(* before there is a request.                                                *)
EXTENDS PgRepository, TLC

CONSTANTS mei, tao, mei2, tao2, r1, r2, s1, s2, x1, c1, m1, m2, t1, d1, q1, z1, z2

MCUsers == {mei, tao, mei2, tao2}
MCRoleOf == (mei :> "manager") @@ (tao :> "tester")
              @@ (mei2 :> "manager") @@ (tao2 :> "tester")
MCStartOf == (mei :> 1) @@ (tao :> 1) @@ (mei2 :> 2) @@ (tao2 :> 2)
MCQuantity == {0, 1}

Explored ==
  /\ m2 \in DOMAIN methods => requests = NoEntries
  /\ sequence <= 1
  /\ \A c \in DOMAIN custodies : RoleOf[custodies[c].from] = "manager"
  /\ DOMAIN retests \cup DOMAIN retesting # {} => certificates = NoEntries
=============================================================================
