------------------------------- MODULE JobQueue -------------------------------
(***************************************************************************)
(* The worker's job queue: jobs leased for a while to runners that share   *)
(* the queue, completed or failed by them, and tried again after a delay   *)
(* that grows with the square of the attempts.                             *)
(*                                                                         *)
(* The queue compares times with now and nothing else, so a time is kept   *)
(* as the ticks left until it, Past when it is over.  A runner has its own *)
(* name, and holds the copy of the job that Lease returned until it has    *)
(* told the queue what became of it.                                       *)
(***************************************************************************)
EXTENDS Integers

CONSTANTS
  JobId, Runner, NoRunner,
  Kind,           \* kinds of jobs
  Registered,     \* the kinds that have a handler
  MaxAttempts,    \* values of that field when a job is enqueued
  Delay,          \* ticks until a job that is enqueued is available
  LeaseTicks,     \* the duration of a lease
  DefaultAttempts

ASSUME QueueAssumption ==
  /\ NoRunner \notin Runner
  /\ Registered \subseteq Kind
  /\ MaxAttempts \subseteq Nat /\ Delay \subseteq Nat
  /\ LeaseTicks \in Nat \ {0} /\ DefaultAttempts \in Nat \ {0}

VARIABLES
  jobs,       \* MemoryQueue.jobs
  runner      \* what each runner is doing

jobVars == <<jobs, runner>>

Past == -1

Job == [kind : Kind, attempts : Nat, max : Nat \ {0}, wait : Nat,
        owner : Runner \cup {NoRunner}, lease : Nat \cup {Past},
        done : BOOLEAN]

\* lease is that of the copy; retry is the delay asked for after a failure.
Work == [at : {"handling", "succeeded", "failed"}, job : JobId,
         attempt : Nat, lease : Nat \cup {Past}, retry : Nat]
Idle == [at : {"idle", "stopped"}]

QueueTypeOK ==
  /\ DOMAIN jobs \subseteq JobId /\ jobs \in [DOMAIN jobs -> Job]
  /\ runner \in [Runner -> Work \cup Idle]

Busy(r) == runner[r].at \in {"handling", "succeeded", "failed"}

QueueInit ==
  /\ jobs = [j \in {} |-> NoRunner]
  /\ runner = [r \in Runner |-> [at |-> "idle"]]

-----------------------------------------------------------------------------

\* A number that is left out is the default.
Allowed(max) == IF max = 0 THEN DefaultAttempts ELSE max

\* A job that exists is refused.
Enqueue(j, kind, max, delay) ==
  /\ j \notin DOMAIN jobs
  /\ jobs' = [k \in DOMAIN jobs \cup {j} |->
       IF k = j
       THEN [kind |-> kind, attempts |-> 0,
             max |-> Allowed(max),
             wait |-> delay, owner |-> NoRunner, lease |-> Past, done |-> FALSE]
       ELSE jobs[k]]
  /\ UNCHANGED runner

\* A lease ends at the instant it names, and not after it.
Leasable_OnceMore(job) ==
  ~job.done /\ job.attempts <= job.max /\ job.wait = 0 /\ job.lease <= 0
Leasable(job) ==
  ~job.done /\ job.attempts < job.max /\ job.wait = 0 /\ job.lease <= 0

Lease(r, j) ==
  /\ runner[r].at = "idle"
  /\ Leasable(jobs[j])
  /\ jobs' = [jobs EXCEPT ![j].owner = r, ![j].lease = LeaseTicks,
                          ![j].attempts = @ + 1]
  /\ runner' = [runner EXCEPT ![r] =
       [at |-> "handling", job |-> j, attempt |-> jobs[j].attempts + 1,
        lease |-> LeaseTicks, retry |-> 0]]

\* The handler returns; without a handler the job fails.
Handle(r, result) ==
  /\ runner[r].at = "handling"
  /\ result = "succeeded" => jobs[runner[r].job].kind \in Registered
  /\ runner' = [runner EXCEPT
       ![r].at = result,
       ![r].retry = IF result = "failed"
                    THEN runner[r].attempt * runner[r].attempt ELSE 0]
  /\ UNCHANGED jobs

\* Complete accepts the runner; it does so at the instant the lease ends.
Completable_ByAnyone(r, job) == job.lease >= 0
Completable(r, job) == job.owner = r /\ job.lease >= 0

Completed(job) == [job EXCEPT !.done = TRUE, !.lease = Past]

Complete(r) ==
  /\ runner[r].at = "succeeded"
  /\ LET j == runner[r].job IN
     jobs' = IF Completable(r, jobs[j])
             THEN [jobs EXCEPT ![j] = Completed(@)] ELSE jobs
  /\ runner' = [runner EXCEPT ![r] = [at |-> "idle"]]

\* Fail accepts the runner, its lease over or not.
Failable_ByAnyone(r, job) == TRUE
Failable(r, job) == job.owner = r

Released_Afresh(job, retry) ==
  [job EXCEPT !.wait = retry, !.owner = NoRunner, !.lease = Past, !.attempts = 0]
Released(job, retry) ==
  [job EXCEPT !.wait = retry, !.owner = NoRunner, !.lease = Past]

Fail(r) ==
  /\ runner[r].at = "failed"
  /\ LET j == runner[r].job IN
     jobs' = IF Failable(r, jobs[j])
             THEN [jobs EXCEPT ![j] = Released(@, runner[r].retry)] ELSE jobs
  /\ runner' = [runner EXCEPT ![r] = [at |-> "idle"]]

\* Run returns once its context is done, which it looks at between two jobs.
Stop(r) ==
  /\ runner[r].at = "idle"
  /\ runner' = [runner EXCEPT ![r] = [at |-> "stopped"]]
  /\ UNCHANGED jobs

\* Time passes.
Sooner(ticks) == IF ticks > 0 THEN ticks - 1 ELSE ticks
Older(ticks)  == IF ticks >= 0 THEN ticks - 1 ELSE Past

Tick ==
  /\ jobs' = [j \in DOMAIN jobs |->
       [jobs[j] EXCEPT !.wait = Sooner(@), !.lease = Older(@)]]
  /\ runner' = [r \in Runner |->
       IF Busy(r)
       THEN [runner[r] EXCEPT !.lease = Older(@), !.retry = Sooner(@)]
       ELSE runner[r]]

QueueNext ==
  \/ \E j \in JobId, kind \in Kind, max \in MaxAttempts, delay \in Delay :
       Enqueue(j, kind, max, delay)
  \/ \E r \in Runner :
       \/ \E j \in DOMAIN jobs : Lease(r, j)
       \/ \E result \in {"succeeded", "failed"} : Handle(r, result)
       \/ Complete(r) \/ Fail(r) \/ Stop(r)
  \/ Tick

QueueSpec == QueueInit /\ [][QueueNext]_jobVars

\* Time passes, handlers return, and a runner that is not stopped polls the
\* queue and reports to it.
FairQueueSpec ==
  /\ QueueSpec
  /\ WF_jobVars(Tick)
  /\ \A r \in Runner :
       /\ WF_jobVars(\E j \in DOMAIN jobs : Lease(r, j))
       /\ WF_jobVars(\E result \in {"succeeded", "failed"} : Handle(r, result))
       /\ WF_jobVars(Complete(r) \/ Fail(r))

-----------------------------------------------------------------------------
(* Correctness.                                                             *)

\* No two runners work on a job while the leases of both last, and the copy of
\* a runner whose lease lasts agrees with the queue.
OneLiveLease ==
  /\ \A r, q \in Runner :
       /\ Busy(r) /\ Busy(q) /\ r # q
       /\ runner[r].job = runner[q].job
       => runner[r].lease <= 0 \/ runner[q].lease <= 0
  /\ \A r \in Runner :
       LET mine == runner[r] IN
       Busy(r) /\ mine.lease > 0 =>
         /\ jobs[mine.job].owner = r /\ ~jobs[mine.job].done
         /\ jobs[mine.job].attempts = mine.attempt
         /\ jobs[mine.job].lease = mine.lease

\* A job is completed only by the runner that made the last attempt at it,
\* after its handler succeeded and before its lease was over; answers that come
\* later change nothing; and a job that is done stays as it is.
CompletedInTime ==
  [][\A j \in DOMAIN jobs :
       /\ ~jobs[j].done /\ jobs'[j].done =>
            \E r \in Runner :
              /\ runner[r].at = "succeeded" /\ runner[r].job = j
              /\ runner[r].attempt = jobs[j].attempts
              /\ runner[r].lease >= 0
       /\ jobs[j].done => jobs'[j].done /\ jobs'[j].attempts = jobs[j].attempts
    ]_jobVars

\* Unless all runners stop, every job is completed or uses up its attempts.
JobsSettle ==
  \A j \in JobId :
    j \in DOMAIN jobs ~>
      \/ j \in DOMAIN jobs /\ (jobs[j].done \/ jobs[j].attempts = jobs[j].max)
      \/ \A r \in Runner : runner[r].at = "stopped"

\* What JobContract speaks of: a runner has a say while it owns a lease that is
\* not over.
LimitOf  == [j \in JobId |-> IF j \in DOMAIN jobs THEN jobs[j].max ELSE 0]
TriesOf  == [j \in JobId |-> IF j \in DOMAIN jobs THEN jobs[j].attempts ELSE 0]
HolderOf == [j \in JobId |-> IF j \in DOMAIN jobs /\ jobs[j].lease >= 0
                             THEN jobs[j].owner ELSE NoRunner]
DoneJobs == {j \in DOMAIN jobs : jobs[j].done}

Contract == INSTANCE JobContract WITH
  Limit  <- {Allowed(n) : n \in MaxAttempts},
  limit <- LimitOf, tries <- TriesOf, holder <- HolderOf, done <- DoneJobs

\* The queue keeps what JobContract promises.
KeepsContract == Contract!Spec
=============================================================================
