------------------------------ MODULE MCSessions ------------------------------
(* Two users, two addresses, one of which may be shared by both users.        *)
EXTENDS Sessions

CONSTANTS ann, bob, s1, s2, s3, s4, here, there
=============================================================================
