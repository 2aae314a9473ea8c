----------------------------- MODULE MCJobQueue -------------------------------
(* Two runners on one queue.                                                  *)
EXTENDS JobQueue

CONSTANTS j1, j2, ann, bob
=============================================================================
