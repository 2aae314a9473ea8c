----------------------------- MODULE Certification ----------------------------
(***************************************************************************)
(* Certification: the certificate a manager issues for a request once all  *)
(* tasks of the request are approved.  Nothing calls Certificate.Void and  *)
(* nothing sets SupersedesID, so certificates are only ever added.         *)
(***************************************************************************)
EXTENDS Testing

TasksOf(r) == {t \in DOMAIN tasks : tasks[t].request = r}

AllApproved_Some(r) == \E t \in TasksOf(r) : tasks[t].status = "approved"
AllApproved(r) ==
  TasksOf(r) # {} /\ \A t \in TasksOf(r) : tasks[t].status = "approved"

NextNumber_Count == Cardinality(DOMAIN certificates)
NextNumber == Cardinality(DOMAIN certificates) + 1

\* The result shown for a task is that of the last round Rounds returns, which
\* is any round of the task (see RoundsOf).
IssueCertificate(u, c, r) ==
  LET tested == {t \in TasksOf(r) : RoundsOf(t) # {}} IN
  /\ Require(u, {"manager"})
  /\ AllApproved(r)
  /\ \E results \in [tested -> Result] :
       /\ \A t \in tested : \E last \in RoundsOf(t) :
            results[t] = rounds[last].result
       /\ certificates' = Put(certificates, c,
            [request |-> r, sample |-> requests[r].sample,
             number |-> NextNumber,
             results |-> results, supersedes |-> None])
  /\ Audit(u, "issue", c)
  /\ UNCHANGED <<intakeVars, custodyVars, testingVars>>

CertificationNext ==
  \E u \in Users, c \in Fresh(CertificateId, certificates),
     r \in DOMAIN requests : IssueCertificate(u, c, r)

Next == IntakeNext \/ CustodyNext \/ TestingNext \/ CertificationNext

Spec == Init /\ [][Next]_vars

-----------------------------------------------------------------------------
(* Safety.                                                                  *)

\* Certificate numbers are drawn by counting the certificates, and are yet all
\* different: they are 1, 2, ... without a gap.
CertificateNumbersGapless ==
  /\ \A n \in 1..Cardinality(DOMAIN certificates) :
       \E c \in DOMAIN certificates : certificates[c].number = n
  /\ \A c, e \in DOMAIN certificates :
       certificates[c].number = certificates[e].number => c = e

\* What a certificate says can be traced back at any later time: every task it
\* lists belongs to its request and is approved, by someone other than the
\* executor; the executor had received the subsample; the method is published;
\* and the result is that of some round the executor recorded, which of them
\* the code leaves open (see ResultOfItsRound).
CertificateTraceable ==
  \A c \in DOMAIN certificates :
    LET cert == certificates[c] IN
    /\ DOMAIN cert.results # {}
    /\ \A t \in DOMAIN cert.results :
         LET task == tasks[t] IN
         /\ t \in TasksOf(cert.request)
         /\ task.status = "approved"
         /\ Receipts(task.subsample, task.executor) # {}
         /\ methods[task.method].status = "published"
         /\ \E u \in Users \ {task.executor} : Audited(u, "review_approve", t)
         /\ \E d \in RoundsOf(t) : /\ rounds[d].result = cert.results[t]
                                   /\ rounds[d].by = task.executor

\* A certificate covers its request: although the code leaves out any task that
\* has no round, the step that issues it shows a result for each task the request
\* has then: one the executor recorded, of a task somebody else approved.
CertificateCoversRequest ==
  [][\A c \in DOMAIN certificates' \ DOMAIN certificates :
       LET results == certificates'[c].results
           covered == TasksOf(certificates'[c].request)
       IN /\ covered # {} /\ DOMAIN results = covered
          /\ \A t \in covered :
               /\ \E u \in Users \ {tasks[t].executor} : Audited(u, "review_approve", t)
               /\ \E d \in RoundsOf(t) :
                    /\ rounds[d].result = results[t]
                    /\ rounds[d].by = tasks[t].executor]_vars

\* What a certificate rests on is settled when it is issued: after that no step
\* changes the certificate, a task it lists, a round of such a task or its
\* method.
CertifiedEvidenceFrozen ==
  [][\A c \in DOMAIN certificates :
       /\ certificates'[c] = certificates[c]
       /\ \A t \in DOMAIN certificates[c].results :
            /\ tasks'[t] = tasks[t]
            /\ [d \in RoundsOf(t)' |-> rounds'[d]] = [d \in RoundsOf(t) |-> rounds[d]]
            /\ methods'[tasks[t].method] = methods[tasks[t].method]]_vars
-----------------------------------------------------------------------------
(* What a certificate is worth.                                             *)

\* What Assurance speaks of: who had what, by the confirmed transfers; the
\* methods that are published; the tasks that were started; who decided on
\* which, by the trail.
Had == {<<custodies[c].to, custodies[c].subsample>> :
          c \in {k \in DOMAIN custodies : custodies[k].status = "confirmed"}}
Published == {m \in DOMAIN methods : methods[m].status = "published"}
Rules == [m \in Published |-> [code |-> methods[m].code, version |-> methods[m].version]]
Begun == {t \in DOMAIN tasks : tasks[t].status # "pending"}
WorkDone == [t \in Begun |-> [by |-> tasks[t].executor, on |-> tasks[t].subsample,
                              rule |-> tasks[t].method]]
StageOf == [t \in Begun |-> tasks[t].status]
Notes == [d \in DOMAIN rounds |-> [of |-> rounds[d].task, by |-> rounds[d].by,
                                   says |-> rounds[d].result]]
Judged == {<<e.actor, e.object>> :
             e \in {a \in audits : a.action \in {"review_approve", "review_return"}}}
Stated == [c \in DOMAIN certificates |-> [number |-> certificates[c].number,
                                          shows  |-> certificates[c].results]]

Worth == INSTANCE Assurance WITH
  Person <- Users, Material <- SubsampleId, Rule <- MethodId, Work <- TaskId,
  Note <- RoundId, Statement <- CertificateId,
  Judges <- {u \in Users : RoleOf[u] \in Reviewing},
  had <- Had, rules <- Rules, work <- WorkDone, stage <- StageOf, notes <- Notes,
  judged <- Judged, stated <- Stated

\* The whole laboratory, with its calls in flight, its transfers and its trail,
\* does to what a certificate rests on only what Assurance allows.
GivesAssurance == Worth!Spec

-----------------------------------------------------------------------------
(* What the repository says of the program and the code does not keep.      *)

\* The schema has one entry for each round of a task (UNIQUE(task_id,
\* round_number)), and the guide of the frontend says that a preview is only for
\* checking: so a certificate shows the one result of the round a task reached.
ResultOfItsRound ==
  \A c \in DOMAIN certificates :
    \A t \in DOMAIN certificates[c].results : \A d \in RoundsOf(t) :
      rounds[d].number = tasks[t].round =>
        rounds[d].result = certificates[c].results[t]
=============================================================================
