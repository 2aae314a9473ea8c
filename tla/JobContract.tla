----------------------------- MODULE JobContract ------------------------------
(***************************************************************************)
(* What a queue of jobs with leases promises, whatever its clocks do: of   *)
(* all the runners that ever took a job at most one, the last to claim it, *)
(* has a say; a job that is done stays done; and it is tried only so often.*)
(***************************************************************************)
EXTENDS Naturals

CONSTANTS JobId, Runner,
          NoRunner, \* no runner
          Limit     \* how many attempts a job may be given, each at least one

VARIABLES
  limit,    \* the attempts each job may have, 0 for a job that was not added
  tries,    \* the attempts it had
  holder,   \* the runner whose answer counts
  done      \* the jobs that were completed

contractVars == <<limit, tries, holder, done>>

Init ==
  /\ limit  = [j \in JobId |-> 0]
  /\ tries  = [j \in JobId |-> 0]
  /\ holder = [j \in JobId |-> NoRunner]
  /\ done   = {}

Add(j) ==
  /\ limit[j] = 0
  /\ \E n \in Limit : limit' = [limit EXCEPT ![j] = n]
  /\ UNCHANGED <<tries, holder, done>>

\* Also when the last claim ran out.
Claim(r, j) ==
  /\ j \notin done /\ tries[j] < limit[j]
  /\ tries' = [tries EXCEPT ![j] = @ + 1]
  /\ holder' = [holder EXCEPT ![j] = r]
  /\ UNCHANGED <<limit, done>>

Complete(r, j) ==
  /\ holder[j] = r /\ j \notin done
  /\ done' = done \cup {j}
  /\ holder' = [holder EXCEPT ![j] = NoRunner]
  /\ UNCHANGED <<limit, tries>>

GiveUp(r, j) ==
  /\ holder[j] = r
  /\ holder' = [holder EXCEPT ![j] = NoRunner]
  /\ UNCHANGED <<limit, tries, done>>

\* Time takes claims away, of several jobs at once.
Expire ==
  /\ holder' \in [JobId -> Runner \cup {NoRunner}]
  /\ \A j \in JobId : holder'[j] \in {holder[j], NoRunner}
  /\ UNCHANGED <<limit, tries, done>>

Next ==
  \/ \E j \in JobId :
       \/ Add(j)
       \/ \E r \in Runner : Claim(r, j) \/ Complete(r, j) \/ GiveUp(r, j)
  \/ Expire

Spec == Init /\ [][Next]_contractVars
=============================================================================
