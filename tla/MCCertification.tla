--------------------------- MODULE MCCertification ----------------------------
(* The whole laboratory.  Either two requests, one transfer of one subsample, *)
(* tasks by a second method, and certificates, with a tester and a manager;   *)
(* or one request and two transfers of its subsample, with a reviewer as well, *)
(* and retests.                                                              *)
EXTENDS Certification, TLC

CONSTANTS mei, tao, rui, r1, r2, s1, x1, c1, c2, m1, m2, t1, t2, d1, d2, q1,
          z1, z2, z3

MCUsers == {mei, tao, rui}
MCRoleOf == (mei :> "manager") @@ (tao :> "tester") @@ (rui :> "reviewer")
MCQuantity == {0, 1}

\* The second method is out before the first round, if it ever is.
IssueShape ==
  /\ \A e \in audits : e.actor # rui
  /\ \A c, e \in DOMAIN custodies : c = e /\ custodies[c].to # rui
  /\ \A t \in DOMAIN creating : creating[t].task.assignee # rui
  /\ retests = NoEntries /\ retesting = NoEntries
  /\ m2 \in DOMAIN methods /\ methods[m2].status = "draft" => rounds = NoEntries

\* A retest is asked for while there is one task.
TestingShape ==
  /\ \A r, q \in DOMAIN requests : r = q
  /\ DOMAIN methods = {m1}
  /\ certificates = NoEntries
  /\ \A d \in DOMAIN rounds : rounds[d].result = 410
  /\ \A c \in DOMAIN custodies : custodies[c].to # None
  /\ \A t \in DOMAIN creating : creating[t].task.assignee # None
  /\ DOMAIN retests \cup DOMAIN retesting # {} =>
       \A t, k \in DOMAIN tasks \cup DOMAIN creating : t = k

Explored == IssueShape \/ TestingShape

Symmetric == Permutations({r1, r2}) \cup Permutations({c1, c2})
               \cup Permutations({t1, t2}) \cup Permutations({d1, d2})
               \cup Permutations({z1, z2, z3})
=============================================================================
