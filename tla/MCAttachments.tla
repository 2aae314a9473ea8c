----------------------------- MODULE MCAttachments ----------------------------
(* Two uploads of sources around the limit of two, one download.             *)
EXTENDS Attachments, TLC

CONSTANTS u1, u2, d1

MCMatches(x, k) == <<x, k>> \in {<<"pdf", "pdf">>, <<"txt", "text">>}
Symmetric == Permutations({u1, u2})
=============================================================================
