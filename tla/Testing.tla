-------------------------------- MODULE Testing -------------------------------
(***************************************************************************)
(* Testing: versioned methods, tasks, the rounds of readings the executor  *)
(* records, and the technical review by a second person.                   *)
(*                                                                         *)
(* CreateTask checks its inputs with two plain reads and only then opens   *)
(* its transaction; createRetest never opens one.  Each is two steps here. *)
(* Readings and formula come down to the rounded result of a round, and    *)
(* StartRetest, which nothing calls, has no action.                        *)
(***************************************************************************)
EXTENDS Custody

CONSTANT MaxVersion     \* bound on the version a client asks for

ASSUME TestingAssumption == MaxVersion \in Nat

Reviewing == {"reviewer", "manager"}

-----------------------------------------------------------------------------
(* Methods.                                                                 *)

\* A version that is left out is the first.
Version(version) == IF version = 0 THEN 1 ELSE version

Taken_AsAsked(code, version) ==
  \E m \in DOMAIN methods :
    methods[m].code = code /\ methods[m].version = version
Taken(code, version) ==
  \E m \in DOMAIN methods :
    methods[m].code = code /\ methods[m].version = Version(version)

\* valid: Validate accepts the fields and the formula.
CreateMethod(u, m, code, version, valid) ==
  /\ Require(u, {"manager"})
  /\ ~Taken(code, version)
  /\ methods' = Put(methods, m, [code |-> code, version |-> Version(version),
                                 valid |-> valid, status |-> "draft"])
  /\ Audit(u, "create", m)
  /\ UNCHANGED <<tasks, rounds, retests, creating, retesting, intakeVars,
                 custodyVars, certVars>>

PublishMethod(u, m) ==
  /\ Require(u, {"manager"})
  /\ methods[m].status = "draft" /\ methods[m].valid
  /\ methods' = [methods EXCEPT ![m].status = "published"]
  /\ Audit(u, "publish", m)
  /\ UNCHANGED <<tasks, rounds, retests, creating, retesting, intakeVars,
                 custodyVars, certVars>>

-----------------------------------------------------------------------------
(* Tasks.                                                                   *)

Usable_IfValid(m) == methods[m].valid
Usable(m) == methods[m].status = "published"

\* The two reads of CreateTask, which leave nothing locked.  They are one step
\* because a published method is never changed and no subsample is deleted.
\* r and assignee are copied from the call unread.
BeginCreateTask(u, t, r, x, m, assignee) ==
  /\ Require(u, Intaking)
  /\ Usable(m)
  /\ creating' = Put(creating, t,
       [actor |-> u,
        task  |-> [request |-> r, subsample |-> x, method |-> m,
                   version |-> methods[m].version, assignee |-> assignee,
                   executor |-> None, round |-> 0, status |-> "pending"]])
  /\ UNCHANGED <<methods, tasks, rounds, retests, retesting, intakeVars,
                 custodyVars, certVars, audits>>

\* The transaction of CreateTask.
FinishCreateTask(t) ==
  /\ tasks' = Put(tasks, t, creating[t].task)
  /\ creating' = Remove(creating, t)
  /\ Audit(creating[t].actor, "create", t)
  /\ UNCHANGED <<methods, rounds, retests, retesting, intakeVars, custodyVars,
                 certVars>>

\* Its context ended while it waited for the mutex.
AbandonCreateTask(t) ==
  /\ creating' = Remove(creating, t)
  /\ UNCHANGED <<methods, tasks, rounds, retests, retesting, intakeVars,
                 custodyVars, certVars, audits>>

\* Any confirmed transfer to the caller will do, also one that was followed by
\* a transfer to somebody else.
HasCustody_Unconfirmed(u, x) ==
  \E c \in DOMAIN custodies : custodies[c].subsample = x /\ custodies[c].to = u
HasCustody(u, x) == Receipts(x, u) # {}

StartTask(u, t) ==
  /\ HasCustody(u, tasks[t].subsample)
  /\ tasks[t].status = "pending" /\ tasks[t].assignee = u
  /\ tasks' = [tasks EXCEPT ![t].executor = u, ![t].round = 1,
                            ![t].status = "in_progress"]
  /\ Audit(u, "start", t)
  /\ UNCHANGED <<methods, rounds, retests, creating, retesting, intakeVars,
                 custodyVars, certVars>>

MayRecord_Anyone(u, t) == tasks[t].status = "in_progress"
MayRecord_Late(u, t) == tasks[t].executor = u
MayRecord(u, t) == tasks[t].status = "in_progress" /\ tasks[t].executor = u

\* Saving again in the same round adds another entry for it.
SaveRound(u, t, d, result) ==
  /\ MayRecord(u, t)
  /\ tasks[t].method \in DOMAIN methods
  /\ rounds' = Put(rounds, d, [task |-> t, number |-> tasks[t].round,
                               result |-> result, by |-> u])
  /\ Audit(u, "record", d)
  /\ UNCHANGED <<methods, tasks, retests, creating, retesting, intakeVars,
                 custodyVars, certVars>>

\* Rounds(t), in the order of a map iteration: its last element is any of them.
RoundsOf(t) == {d \in DOMAIN rounds : rounds[d].task = t}

SubmitReview(u, t) ==
  /\ \E last \in RoundsOf(t) : rounds[last].number = tasks[t].round
  /\ tasks[t].status = "in_progress" /\ tasks[t].executor = u
  /\ tasks' = [tasks EXCEPT ![t].status = "review"]
  /\ Audit(u, "submit_review", t)
  /\ UNCHANGED <<methods, rounds, retests, creating, retesting, intakeVars,
                 custodyVars, certVars>>

\* Approve and Reject accept the caller.
MayReview_Executor(u, t) == tasks[t].status = "review"
MayReview(u, t) == tasks[t].status = "review" /\ tasks[t].executor # u

Verdict(decision) ==
  IF decision = "review_approve" THEN "approved" ELSE "rejected"

\* decision is the action the trail records.
Review(u, t, decision) ==
  /\ Require(u, Reviewing)
  /\ MayReview(u, t)
  /\ tasks' = [tasks EXCEPT ![t].status = Verdict(decision)]
  /\ Audit(u, decision, t)
  /\ UNCHANGED <<methods, rounds, retests, creating, retesting, intakeVars,
                 custodyVars, certVars>>

-----------------------------------------------------------------------------
(* Retest requests: read the task, then save, with no transaction and no    *)
(* audit event.                                                             *)

BeginRetest(u, t, q) ==
  /\ tasks[t].executor = u
  /\ retesting' = Put(retesting, q, [task |-> t, round |-> tasks[t].round])
  /\ UNCHANGED <<methods, tasks, rounds, retests, creating, intakeVars,
                 custodyVars, certVars, audits>>

FinishRetest(q) ==
  /\ retests' = Put(retests, q, retesting[q])
  /\ retesting' = Remove(retesting, q)
  /\ UNCHANGED <<methods, tasks, rounds, creating, intakeVars, custodyVars,
                 certVars, audits>>

-----------------------------------------------------------------------------

MethodNext ==
  \E u \in Users :
    \/ \E m \in Fresh(MethodId, methods), code \in MethodCode,
          version \in 0..MaxVersion, valid \in BOOLEAN :
         CreateMethod(u, m, code, version, valid)
    \/ \E m \in DOMAIN methods : PublishMethod(u, m)

CreateTaskNext ==
  \/ \E u \in Users, t \in Fresh(TaskId, tasks) \cap Fresh(TaskId, creating),
        r \in DOMAIN requests \cup {None}, x \in DOMAIN subsamples,
        m \in DOMAIN methods, assignee \in Users \cup {None} :
       BeginCreateTask(u, t, r, x, m, assignee)
  \/ \E t \in DOMAIN creating : FinishCreateTask(t) \/ AbandonCreateTask(t)

TaskNext ==
  \E u \in Users, t \in DOMAIN tasks :
    \/ StartTask(u, t)
    \/ \E d \in Fresh(RoundId, rounds), result \in Result :
         SaveRound(u, t, d, result)
    \/ SubmitReview(u, t)
    \/ \E decision \in {"review_approve", "review_return"} :
         Review(u, t, decision)

RetestNext ==
  \/ \E u \in Users, t \in DOMAIN tasks,
        q \in Fresh(RetestId, retests) \cap Fresh(RetestId, retesting) :
       BeginRetest(u, t, q)
  \/ \E q \in DOMAIN retesting : FinishRetest(q)

TestingNext == MethodNext \/ CreateTaskNext \/ TaskNext \/ RetestNext

-----------------------------------------------------------------------------
(* Safety.                                                                  *)

\* Two methods never share code and version, whatever order the versions are
\* created in.
MethodVersionsUnique ==
  \A m, k \in DOMAIN methods :
    methods[m].code = methods[k].code /\ methods[m].version = methods[k].version
      => m = k

\* The method of a task is published, valid and of the version the task names,
\* and its subsample exists.
Founded(task) ==
  /\ task.method \in DOMAIN methods
  /\ methods[task.method].status = "published" /\ methods[task.method].valid
  /\ methods[task.method].version = task.version
  /\ task.subsample \in DOMAIN subsamples

\* Although CreateTask checks the method before its transaction, every task,
\* and every call that is still to save one, rests on what it checked.
TaskMethodPublished ==
  /\ \A t \in DOMAIN tasks : Founded(tasks[t])
  /\ \A t \in DOMAIN creating : Founded(creating[t].task)

\* Whoever tests is the assignee and has confirmed, at some time, that the
\* subsample of the task was handed over; before that the task has neither an
\* executor nor a round.
ExecutorConfirmedReceipt ==
  \A t \in DOMAIN tasks :
    IF tasks[t].status = "pending"
    THEN tasks[t].executor = None /\ tasks[t].round = 0
    ELSE /\ tasks[t].executor = tasks[t].assignee
         /\ Receipts(tasks[t].subsample, tasks[t].executor) # {}

\* Every round was recorded by the executor of a task that was started, in a
\* round that task had reached; what is under review, or was, has a round of
\* the current number; a retest asks for a round that was reached.
RoundsBelongToExecutor ==
  /\ \A d \in DOMAIN rounds :
       /\ rounds[d].task \in DOMAIN tasks
       /\ rounds[d].by = tasks[rounds[d].task].executor
       /\ rounds[d].number \in 1..tasks[rounds[d].task].round
  /\ \A t \in DOMAIN tasks :
       tasks[t].status \in {"review", "approved", "rejected"} =>
         \E d \in RoundsOf(t) : rounds[d].number = tasks[t].round
  /\ \A q \in DOMAIN retests :
       retests[q].round \in 1..tasks[retests[q].task].round

\* Nobody reviews their own work: whoever the trail shows deciding on a task
\* may review and is not its executor, and a task is approved, or rejected,
\* only if the trail shows such a decision, and never both.
IndependentReview ==
  \A t \in DOMAIN tasks :
    LET Deciders(decision) == {u \in Users : Audited(u, decision, t)}
        approvers == Deciders("review_approve")
        returners == Deciders("review_return")
    IN /\ \A u \in approvers \cup returners :
            RoleOf[u] \in Reviewing /\ u # tasks[t].executor
       /\ approvers # {} <=> tasks[t].status = "approved"
       /\ returners # {} <=> tasks[t].status = "rejected"

\* README, step 6: what is under review is frozen.  From the submission on,
\* no step adds or changes a round of the task, and the verdict is final.
FrozenInReview ==
  [][\A t \in DOMAIN tasks :
       LET roundsNow  == [d \in RoundsOf(t) |-> rounds[d]]
           roundsThen == [d \in RoundsOf(t)' |-> rounds'[d]]
       IN /\ tasks[t].status \notin {"pending", "in_progress"} =>
               roundsThen = roundsNow
          /\ tasks[t].status \in {"approved", "rejected"} =>
               tasks'[t] = tasks[t]]_vars
=============================================================================
