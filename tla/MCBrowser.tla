------------------------------ MODULE MCBrowser -------------------------------
(* One tab with two calls under way, and two sessions, which it or another    *)
(* device of the same user opens.                                             *)
EXTENDS Browser, TLC

CONSTANTS ann, bob, s1, s2, c1, c2, here

Symmetric == Permutations({c1, c2}) \cup Permutations({s1, s2})
=============================================================================
