---------------------------- MODULE JobQueueProofs ----------------------------
(***************************************************************************)
(* The job queue, for any jobs, runners, delays and lease: types, leases   *)
(* that exclude each other, completion in time, and the refinement of      *)
(* JobContract.                                                            *)
(***************************************************************************)
EXTENDS JobQueue, TLAPS

\* Jobs and runners stay of their kinds.
LEMMA QueueType == QueueTypeOK /\ [QueueNext]_jobVars => QueueTypeOK'
<1> SUFFICES ASSUME QueueTypeOK, [QueueNext]_jobVars PROVE QueueTypeOK'
  OBVIOUS
<1> USE QueueAssumption DEF QueueTypeOK
<1>1. ASSUME NEW j \in JobId, NEW kind \in Kind, NEW max \in MaxAttempts,
             NEW delay \in Delay, Enqueue(j, kind, max, delay)
      PROVE  QueueTypeOK'
  <2>1. Allowed(max) \in Nat \ {0}
    BY DEF Allowed
  <2> DEFINE job == [kind |-> kind, attempts |-> 0, max |-> Allowed(max),
                     wait |-> delay, owner |-> NoRunner, lease |-> Past,
                     done |-> FALSE]
  <2>2. job \in Job
    BY <2>1 DEF Job
  <2> HIDE DEF job
  <2>3. jobs' = [k \in DOMAIN jobs \cup {j} |-> IF k = j THEN job ELSE jobs[k]]
    BY <1>1 DEF Enqueue, job
  <2> QED
    BY <1>1, <2>2, <2>3 DEF Enqueue
<1>2. ASSUME NEW r \in Runner, NEW j \in DOMAIN jobs, Lease(r, j)
      PROVE  QueueTypeOK'
  <2>1. jobs[j] \in Job /\ j \in JobId
    OBVIOUS
  <2>2. jobs' \in [DOMAIN jobs -> Job]
    BY <1>2, <2>1 DEF Lease, Job
  <2>3. runner' \in [Runner -> Work \cup Idle]
    BY <1>2, <2>1 DEF Lease, Job, Work
  <2> QED
    BY <2>2, <2>3
<1>3. ASSUME NEW r \in Runner, NEW result \in {"succeeded", "failed"},
             Handle(r, result)
      PROVE  QueueTypeOK'
  <2>1. runner[r] \in Work
    BY <1>3 DEF Handle, Idle
  <2>2. runner[r].attempt \in Nat /\ runner[r].attempt * runner[r].attempt \in Nat
    BY <2>1 DEF Work
  <2> QED
    BY <1>3, <2>1, <2>2 DEF Handle, Work
<1>4. ASSUME NEW r \in Runner, Complete(r)
      PROVE  QueueTypeOK'
  <2>1. runner' \in [Runner -> Work \cup Idle]
    BY <1>4 DEF Complete, Idle
  <2>2. DOMAIN jobs' = DOMAIN jobs /\ jobs' \in [DOMAIN jobs -> Job]
    BY <1>4 DEF Complete, Completed, Job
  <2> QED
    BY <2>1, <2>2
<1>5. ASSUME NEW r \in Runner, Fail(r)
      PROVE  QueueTypeOK'
  <2>1. runner' \in [Runner -> Work \cup Idle]
    BY <1>5 DEF Fail, Idle
  <2>2. runner[r] \in Work /\ runner[r].retry \in Nat
    BY <1>5 DEF Fail, Idle, Work
  <2>3. DOMAIN jobs' = DOMAIN jobs /\ jobs' \in [DOMAIN jobs -> Job]
    BY <1>5, <2>2 DEF Fail, Released, Job
  <2> QED
    BY <2>1, <2>3
<1>6. ASSUME NEW r \in Runner, Stop(r)
      PROVE  QueueTypeOK'
  BY <1>6 DEF Stop, Idle
<1>7. ASSUME Tick
      PROVE  QueueTypeOK'
  <2>1. \A n \in Nat : Sooner(n) \in Nat
    BY DEF Sooner
  <2>2. \A n \in Nat \cup {Past} : Older(n) \in Nat \cup {Past}
    BY DEF Older, Past
  <2>3. jobs' \in [DOMAIN jobs -> Job]
    BY <1>7, <2>1, <2>2 DEF Tick, Job
  <2>4. \A r \in Runner : Busy(r) => runner[r] \in Work
    BY DEF Busy, Idle
  <2>5. runner' \in [Runner -> Work \cup Idle]
    BY <1>7, <2>1, <2>2, <2>4 DEF Tick, Work
  <2> QED
    BY <2>3, <2>5
<1>8. CASE UNCHANGED jobVars
  BY <1>8 DEF jobVars
<1> QED
  BY <1>1, <1>2, <1>3, <1>4, <1>5, <1>6, <1>7, <1>8 DEF QueueNext

\* Every job and every runner is of its kind at all times.
THEOREM QueueTypeCorrect == QueueSpec => []QueueTypeOK
<1>1. QueueInit => QueueTypeOK
  BY DEF QueueInit, QueueTypeOK, Idle
<1> QED
  BY <1>1, QueueType, PTL DEF QueueSpec

-----------------------------------------------------------------------------
(* Leases.                                                                  *)

\* The copy of a runner the queue knows as the owner agrees with the queue, and
\* a runner is the owner for as long as its lease lasts.  OneLiveLease follows;
\* that a job has one owner is what makes leases exclude each other.
LeaseInv ==
  \A r \in Runner :
    LET mine == runner[r] IN
    Busy(r) =>
      /\ mine.job \in DOMAIN jobs
      /\ jobs[mine.job].owner = r =>
           /\ ~jobs[mine.job].done
           /\ jobs[mine.job].attempts = mine.attempt
           /\ jobs[mine.job].lease = mine.lease
      /\ mine.lease > 0 => jobs[mine.job].owner = r

\* Leases that have not ended exclude each other.
LEMMA LeasesExclude == QueueTypeOK /\ LeaseInv => OneLiveLease
<1> SUFFICES ASSUME QueueTypeOK, LeaseInv PROVE OneLiveLease
  OBVIOUS
<1>1. \A r \in Runner : Busy(r) => runner[r].lease \in Int
  BY DEF QueueTypeOK, Busy, Work, Idle, Past
<1>2. \A r \in Runner : Busy(r) /\ runner[r].lease > 0 =>
        /\ jobs[runner[r].job].owner = r /\ ~jobs[runner[r].job].done
        /\ jobs[runner[r].job].attempts = runner[r].attempt
        /\ jobs[runner[r].job].lease = runner[r].lease
  BY DEF LeaseInv
<1>3. ASSUME NEW r \in Runner, NEW q \in Runner, Busy(r), Busy(q), r # q,
             runner[r].job = runner[q].job
      PROVE  runner[r].lease <= 0 \/ runner[q].lease <= 0
  BY <1>1, <1>2, <1>3
<1> QED
  BY <1>2, <1>3 DEF OneLiveLease

\* No step breaks LeaseInv.
LEMMA LeaseInvNext == QueueTypeOK /\ LeaseInv /\ [QueueNext]_jobVars => LeaseInv'
<1> SUFFICES ASSUME QueueTypeOK, LeaseInv, [QueueNext]_jobVars PROVE LeaseInv'
  OBVIOUS
<1> USE DEF LeaseInv
<1>0. /\ \A j \in DOMAIN jobs : jobs[j] \in Job
      /\ runner \in [Runner -> Work \cup Idle]
      /\ \A r \in Runner : Busy(r) => runner[r] \in Work
  BY DEF QueueTypeOK, Busy, Idle
<1>1. ASSUME NEW j \in JobId, NEW kind, NEW max, NEW delay,
             Enqueue(j, kind, max, delay)
      PROVE  LeaseInv'
  <2>1. /\ DOMAIN jobs' = DOMAIN jobs \cup {j}
        /\ \A k \in DOMAIN jobs : jobs'[k] = jobs[k]
        /\ runner' = runner
    BY <1>1 DEF Enqueue
  <2> QED
    BY <2>1 DEF Busy
<1>2. ASSUME NEW q \in Runner, NEW j \in DOMAIN jobs, Lease(q, j)
      PROVE  LeaseInv'
  <2>1. jobs[j].lease <= 0 /\ ~jobs[j].done /\ jobs[j].attempts \in Nat
    BY <1>0, <1>2 DEF Lease, Leasable, Job
  <2>2. /\ DOMAIN jobs' = DOMAIN jobs
        /\ jobs'[j].owner = q /\ jobs'[j].lease = LeaseTicks
        /\ jobs'[j].attempts = jobs[j].attempts + 1 /\ ~jobs'[j].done
        /\ \A k \in DOMAIN jobs \ {j} : jobs'[k] = jobs[k]
    BY <1>0, <1>2, <2>1 DEF Lease, Job
  <2>3. /\ runner'[q].job = j /\ runner'[q].attempt = jobs[j].attempts + 1
        /\ runner'[q].lease = LeaseTicks
        /\ \A r \in Runner \ {q} : runner'[r] = runner[r]
    BY <1>0, <1>2 DEF Lease
  <2>4. ASSUME NEW r \in Runner \ {q}, Busy(r), runner[r].job = j
        PROVE  ~(runner[r].lease > 0)
    <3>1. runner[r].lease \in Int
      BY <1>0, <2>4 DEF Work, Past
    <3>2. runner[r].lease > 0 => jobs[j].lease = runner[r].lease
      BY <2>4
    <3>3. jobs[j].lease \in Int
      BY <1>0 DEF Job, Past
    <3> QED
      BY <2>1, <3>1, <3>2, <3>3
  <2> QED
    BY <2>2, <2>3, <2>4 DEF Busy
<1>3. ASSUME NEW q \in Runner, NEW result \in {"succeeded", "failed"},
             Handle(q, result)
      PROVE  LeaseInv'
  <2>1. runner[q] \in Work /\ Busy(q)
    BY <1>0, <1>3 DEF Handle, Busy
  <2>2. /\ runner'[q].job = runner[q].job /\ runner'[q].attempt = runner[q].attempt
        /\ runner'[q].lease = runner[q].lease
        /\ \A r \in Runner \ {q} : runner'[r] = runner[r]
        /\ jobs' = jobs
    BY <1>0, <1>3, <2>1 DEF Handle, Work
  <2> QED
    BY <2>1, <2>2 DEF Busy
<1>4. ASSUME NEW q \in Runner, Complete(q) \/ Fail(q)
      PROVE  LeaseInv'
  <2> DEFINE j == runner[q].job
  <2>1. Busy(q) /\ j \in DOMAIN jobs
    BY <1>4 DEF Complete, Fail, Busy
  <2>2. /\ runner'[q] = [at |-> "idle"]
        /\ \A r \in Runner \ {q} : runner'[r] = runner[r]
    BY <1>0, <1>4 DEF Complete, Fail
  <2>3. CASE jobs' = jobs
    BY <2>2, <2>3 DEF Busy
  <2>4. CASE jobs' # jobs
    <3>1. jobs[j].owner = q
      BY <1>4, <2>4 DEF Complete, Fail, Completable, Failable
    <3>2. /\ DOMAIN jobs' = DOMAIN jobs
          /\ \A k \in DOMAIN jobs \ {j} : jobs'[k] = jobs[k]
          /\ jobs'[j].owner \in {q, NoRunner}
      <4>1. CASE Complete(q)
        <5>1. jobs' = [jobs EXCEPT ![j] = Completed(jobs[j])]
          BY <4>1, <2>4 DEF Complete
        <5>2. Completed(jobs[j]).owner = q
          BY <1>0, <2>1, <3>1 DEF Completed, Job
        <5> QED
          BY <2>1, <5>1, <5>2
      <4>2. CASE Fail(q)
        <5>1. jobs' = [jobs EXCEPT ![j] = Released(jobs[j], runner[q].retry)]
          BY <4>2, <2>4 DEF Fail
        <5>2. Released(jobs[j], runner[q].retry).owner = NoRunner
          BY <1>0, <2>1 DEF Released, Job
        <5> QED
          BY <2>1, <5>1, <5>2
      <4> QED
        BY <1>4, <4>1, <4>2
    <3>3. ASSUME NEW r \in Runner \ {q}, Busy(r), runner[r].job = j
          PROVE  ~(runner[r].lease > 0) /\ jobs'[j].owner # r
      BY <3>1, <3>2, <3>3, QueueAssumption
    <3> QED
      BY <2>2, <3>2, <3>3 DEF Busy
  <2> QED
    BY <2>3, <2>4
<1>5. ASSUME NEW q \in Runner, Stop(q)
      PROVE  LeaseInv'
  BY <1>0, <1>5 DEF Stop, Busy
<1>6. ASSUME Tick
      PROVE  LeaseInv'
  <2>1. /\ DOMAIN jobs' = DOMAIN jobs
        /\ \A j \in DOMAIN jobs :
             /\ jobs'[j].owner = jobs[j].owner /\ jobs'[j].done = jobs[j].done
             /\ jobs'[j].attempts = jobs[j].attempts
             /\ jobs'[j].lease = Older(jobs[j].lease)
    BY <1>0, <1>6 DEF Tick, Job
  <2>2. \A r \in Runner :
          IF Busy(r)
          THEN /\ runner'[r].job = runner[r].job
               /\ runner'[r].attempt = runner[r].attempt
               /\ runner'[r].lease = Older(runner[r].lease)
          ELSE runner'[r] = runner[r]
    BY <1>0, <1>6 DEF Tick, Work
  <2>3. \A r \in Runner : Busy(r)' => Busy(r)
    BY <2>2 DEF Busy
  <2>4. \A n \in Nat \cup {Past} : Older(n) > 0 => n > 0
    BY DEF Older, Past
  <2>5. \A r \in Runner : Busy(r) => runner[r].lease \in Nat \cup {Past}
    BY <1>0 DEF Work
  <2> SUFFICES ASSUME NEW r \in Runner, Busy(r)
               PROVE  /\ runner'[r].job \in DOMAIN jobs'
                      /\ jobs'[runner'[r].job].owner = r =>
                           /\ ~jobs'[runner'[r].job].done
                           /\ jobs'[runner'[r].job].attempts = runner'[r].attempt
                           /\ jobs'[runner'[r].job].lease = runner'[r].lease
                      /\ runner'[r].lease > 0 => jobs'[runner'[r].job].owner = r
    BY <2>3
  <2>6. /\ runner'[r].job = runner[r].job /\ runner'[r].attempt = runner[r].attempt
        /\ runner'[r].lease = Older(runner[r].lease)
    BY <2>2
  <2>7. runner'[r].lease > 0 => runner[r].lease > 0
    BY <2>4, <2>5, <2>6
  <2> QED
    BY <2>1, <2>6, <2>7
<1>7. CASE UNCHANGED jobVars
  BY <1>7 DEF jobVars, Busy
<1> QED
  BY <1>1, <1>2, <1>3, <1>4, <1>5, <1>6, <1>7 DEF QueueNext

\* LeaseInv holds at all times.
LEMMA LeaseInvCorrect == QueueSpec => []LeaseInv
<1>1. QueueInit => LeaseInv
  BY DEF QueueInit, LeaseInv, Busy
<1> QED
  BY <1>1, LeaseInvNext, QueueTypeCorrect, PTL DEF QueueSpec

\* A job is never in the hands of two runners whose leases both last.
THEOREM LeaseExclusive == QueueSpec => []OneLiveLease
  BY LeasesExclude, LeaseInvCorrect, QueueTypeCorrect, PTL

-----------------------------------------------------------------------------
(* Completion.                                                              *)

\* A job is completed by the runner that tried it last, in time, and once.
THEOREM InTime == QueueSpec => CompletedInTime
<1> DEFINE Answered(j) ==
             \E r \in Runner :
               /\ runner[r].at = "succeeded" /\ runner[r].job = j
               /\ runner[r].attempt = jobs[j].attempts
               /\ runner[r].lease >= 0
           InTimeStep ==
             \A j \in DOMAIN jobs :
               /\ ~jobs[j].done /\ jobs'[j].done => Answered(j)
               /\ jobs[j].done =>
                    jobs'[j].done /\ jobs'[j].attempts = jobs[j].attempts
<1>1. ASSUME QueueTypeOK, LeaseInv, [QueueNext]_jobVars
      PROVE  InTimeStep
  <2>0. /\ \A j \in DOMAIN jobs : jobs[j] \in Job
        /\ \A r \in Runner : Busy(r) => runner[r].job \in DOMAIN jobs
    BY <1>1 DEF QueueTypeOK, LeaseInv
  <2>1. ASSUME NEW j, NEW kind, NEW max, NEW delay, Enqueue(j, kind, max, delay)
        PROVE  InTimeStep
    BY <2>1 DEF Enqueue
  <2>2. ASSUME NEW r \in Runner, NEW j \in DOMAIN jobs, Lease(r, j)
        PROVE  InTimeStep
    <3>1. ~jobs[j].done /\ jobs'[j].done = jobs[j].done
      BY <2>0, <2>2 DEF Lease, Leasable, Job
    <3>2. \A k \in DOMAIN jobs \ {j} : jobs'[k] = jobs[k]
      BY <2>2 DEF Lease
    <3> QED
      BY <3>1, <3>2
  <2>3. ASSUME NEW r \in Runner, Complete(r)
        PROVE  InTimeStep
    <3> DEFINE j == runner[r].job
    <3>1. Busy(r) /\ j \in DOMAIN jobs
      BY <2>0, <2>3 DEF Complete, Busy
    <3>2. CASE jobs' = jobs
      BY <3>2
    <3>3. CASE Completable(r, jobs[j])
      <4>1. jobs' = [jobs EXCEPT ![j] = Completed(jobs[j])]
        BY <2>3, <3>3 DEF Complete
      <4>2. /\ ~jobs[j].done /\ jobs[j].attempts = runner[r].attempt
            /\ jobs[j].lease = runner[r].lease
        BY <1>1, <3>1, <3>3 DEF Completable, LeaseInv
      <4>3. Answered(j)
        BY <2>3, <3>3, <4>2 DEF Complete, Completable
      <4>4. \A k \in DOMAIN jobs \ {j} : jobs'[k] = jobs[k]
        BY <4>1
      <4> QED
        BY <4>2, <4>3, <4>4
    <3> QED
      BY <2>3, <3>2, <3>3 DEF Complete
  <2>4. ASSUME NEW r \in Runner, Fail(r)
        PROVE  InTimeStep
    <3> DEFINE j == runner[r].job
    <3>1. j \in DOMAIN jobs
      BY <2>0, <2>4 DEF Fail, Busy
    <3>2. \/ jobs' = jobs
          \/ jobs' = [jobs EXCEPT ![j] = Released(jobs[j], runner[r].retry)]
      BY <2>4 DEF Fail
    <3>3. /\ Released(jobs[j], runner[r].retry).done = jobs[j].done
          /\ Released(jobs[j], runner[r].retry).attempts = jobs[j].attempts
      BY <2>0, <3>1 DEF Released, Job
    <3> QED
      BY <3>1, <3>2, <3>3
  <2>5. ASSUME Tick
        PROVE  InTimeStep
    BY <2>0, <2>5 DEF Tick, Job
  <2>6. ASSUME NEW r \in Runner, NEW result, Handle(r, result) \/ Stop(r)
        PROVE  InTimeStep
    BY <2>6 DEF Handle, Stop
  <2>7. CASE UNCHANGED jobVars
    BY <2>7 DEF jobVars
  <2> QED
    BY <1>1, <2>1, <2>2, <2>3, <2>4, <2>5, <2>6, <2>7 DEF QueueNext
<1>2. QueueTypeOK /\ LeaseInv /\ [QueueNext]_jobVars => [InTimeStep]_jobVars
  BY <1>1
<1> QED
  BY <1>2, QueueTypeCorrect, LeaseInvCorrect, PTL DEF QueueSpec, CompletedInTime

-----------------------------------------------------------------------------
(* The contract.                                                            *)

\* Every step of the queue is a step the contract allows, or none.
LEMMA ContractStep ==
  ASSUME QueueTypeOK, QueueTypeOK', LeaseInv, [QueueNext]_jobVars
  PROVE  [Contract!Next]_(Contract!contractVars)
<1> USE DEF QueueTypeOK
<1>0. /\ \A j \in DOMAIN jobs : jobs[j] \in Job
      /\ \A r \in Runner : Busy(r) => runner[r].job \in DOMAIN jobs
      /\ Past \notin Nat /\ ~(Past >= 0)
  BY DEF LeaseInv, Past
<1>1. ASSUME NEW j \in JobId, NEW kind \in Kind, NEW max \in MaxAttempts,
             NEW delay \in Delay, Enqueue(j, kind, max, delay)
      PROVE  Contract!Add(j)
  <2>1. /\ DOMAIN jobs' = DOMAIN jobs \cup {j} /\ j \notin DOMAIN jobs
        /\ jobs'[j].max = Allowed(max) /\ jobs'[j].attempts = 0
        /\ jobs'[j].lease = Past /\ jobs'[j].done = FALSE
        /\ \A k \in DOMAIN jobs : jobs'[k] = jobs[k]
    BY <1>1 DEF Enqueue
  <2>2. LimitOf[j] = 0 /\ LimitOf' = [LimitOf EXCEPT ![j] = Allowed(max)]
    BY <2>1 DEF LimitOf
  <2>3. TriesOf' = TriesOf
    BY <2>1 DEF TriesOf
  <2>4. HolderOf' = HolderOf
    BY <1>0, <2>1 DEF HolderOf
  <2>5. DoneJobs' = DoneJobs
    BY <2>1 DEF DoneJobs
  <2> QED
    BY <2>2, <2>3, <2>4, <2>5 DEF Contract!Add
<1>2. ASSUME NEW r \in Runner, NEW j \in DOMAIN jobs, Lease(r, j)
      PROVE  Contract!Claim(r, j)
  <2>1. /\ DOMAIN jobs' = DOMAIN jobs /\ j \in JobId
        /\ jobs'[j].max = jobs[j].max /\ jobs'[j].attempts = jobs[j].attempts + 1
        /\ jobs'[j].lease = LeaseTicks /\ jobs'[j].owner = r
        /\ jobs'[j].done = jobs[j].done
        /\ \A k \in DOMAIN jobs \ {j} : jobs'[k] = jobs[k]
    BY <1>0, <1>2 DEF Lease, Job
  <2>2. ~jobs[j].done /\ jobs[j].attempts < jobs[j].max
    BY <1>2 DEF Lease, Leasable
  <2>3. j \notin DoneJobs /\ TriesOf[j] < LimitOf[j]
    BY <2>1, <2>2 DEF DoneJobs, TriesOf, LimitOf
  <2>4. LimitOf' = LimitOf
    BY <2>1 DEF LimitOf
  <2>5. TriesOf' = [TriesOf EXCEPT ![j] = @ + 1]
    BY <2>1 DEF TriesOf
  <2>6. HolderOf' = [HolderOf EXCEPT ![j] = r]
    <3>1. LeaseTicks >= 0
      BY QueueAssumption
    <3> QED
      BY <2>1, <3>1 DEF HolderOf
  <2>7. DoneJobs' = DoneJobs
    BY <2>1 DEF DoneJobs
  <2> QED
    BY <2>3, <2>4, <2>5, <2>6, <2>7 DEF Contract!Claim
<1>3. ASSUME NEW r \in Runner, NEW j \in DOMAIN jobs, Busy(r), runner[r].job = j,
             Completable(r, jobs[j]), jobs' = [jobs EXCEPT ![j] = Completed(jobs[j])]
      PROVE  Contract!Complete(r, j)
  <2>1. /\ DOMAIN jobs' = DOMAIN jobs /\ j \in JobId
        /\ jobs'[j].max = jobs[j].max /\ jobs'[j].attempts = jobs[j].attempts
        /\ jobs'[j].lease = Past /\ jobs'[j].done = TRUE
        /\ \A k \in DOMAIN jobs \ {j} : jobs'[k] = jobs[k]
    BY <1>0, <1>3 DEF Completed, Job
  <2>2. ~jobs[j].done /\ jobs[j].owner = r /\ jobs[j].lease >= 0
    BY <1>3 DEF Completable, LeaseInv
  <2>3. HolderOf[j] = r /\ j \notin DoneJobs
    BY <2>1, <2>2 DEF HolderOf, DoneJobs
  <2>4. LimitOf' = LimitOf /\ TriesOf' = TriesOf
    BY <2>1 DEF LimitOf, TriesOf
  <2>5. HolderOf' = [HolderOf EXCEPT ![j] = NoRunner]
    BY <1>0, <2>1 DEF HolderOf
  <2>6. DoneJobs' = DoneJobs \cup {j}
    BY <2>1 DEF DoneJobs
  <2> QED
    BY <2>3, <2>4, <2>5, <2>6 DEF Contract!Complete
<1>4. ASSUME NEW r \in Runner, NEW j \in DOMAIN jobs, NEW retry \in Nat,
             Failable(r, jobs[j]), jobs' = [jobs EXCEPT ![j] = Released(jobs[j], retry)]
      PROVE  Contract!GiveUp(r, j) \/ UNCHANGED Contract!contractVars
  <2>1. /\ DOMAIN jobs' = DOMAIN jobs /\ j \in JobId
        /\ jobs'[j].max = jobs[j].max /\ jobs'[j].attempts = jobs[j].attempts
        /\ jobs'[j].lease = Past /\ jobs'[j].done = jobs[j].done
        /\ \A k \in DOMAIN jobs \ {j} : jobs'[k] = jobs[k]
    BY <1>0, <1>4 DEF Released, Job
  <2>2. LimitOf' = LimitOf /\ TriesOf' = TriesOf
    BY <2>1 DEF LimitOf, TriesOf
  <2>3. DoneJobs' = DoneJobs
    BY <2>1 DEF DoneJobs
  <2>4. HolderOf' = [HolderOf EXCEPT ![j] = NoRunner]
    BY <1>0, <2>1 DEF HolderOf
  <2>5. CASE jobs[j].lease >= 0
    <3>1. HolderOf[j] = r
      BY <1>4, <2>1, <2>5 DEF HolderOf, Failable
    <3> QED
      BY <2>2, <2>3, <2>4, <3>1 DEF Contract!GiveUp
  <2>6. CASE ~(jobs[j].lease >= 0)
    <3>1. HolderOf[j] = NoRunner
      BY <2>6 DEF HolderOf
    <3>2. HolderOf' = HolderOf
      BY <2>4, <3>1 DEF HolderOf
    <3> QED
      BY <2>2, <2>3, <3>2 DEF Contract!contractVars
  <2> QED
    BY <2>5, <2>6
<1>5. ASSUME jobs' = jobs
      PROVE  UNCHANGED Contract!contractVars
  BY <1>5 DEF Contract!contractVars, LimitOf, TriesOf, HolderOf, DoneJobs
<1>6. ASSUME Tick
      PROVE  Contract!Expire
  <2>1. /\ DOMAIN jobs' = DOMAIN jobs
        /\ \A k \in DOMAIN jobs :
             /\ jobs'[k].max = jobs[k].max /\ jobs'[k].attempts = jobs[k].attempts
             /\ jobs'[k].owner = jobs[k].owner /\ jobs'[k].done = jobs[k].done
             /\ jobs'[k].lease = Older(jobs[k].lease)
    BY <1>0, <1>6 DEF Tick, Job
  <2>2. LimitOf' = LimitOf /\ TriesOf' = TriesOf
    BY <2>1 DEF LimitOf, TriesOf
  <2>3. DoneJobs' = DoneJobs
    BY <2>1 DEF DoneJobs
  <2>4. \A n \in Nat \cup {Past} : Older(n) >= 0 => n >= 0
    BY DEF Older, Past
  <2>5. \A k \in JobId : HolderOf'[k] \in {HolderOf[k], NoRunner}
    BY <1>0, <2>1, <2>4 DEF HolderOf, Job
  <2>6. HolderOf' \in [JobId -> Runner \cup {NoRunner}]
    BY <1>0, <2>1 DEF HolderOf, Job
  <2> QED
    BY <2>2, <2>3, <2>5, <2>6 DEF Contract!Expire
<1>7. ASSUME NEW r \in Runner, Complete(r)
      PROVE  \/ \E j \in JobId : Contract!Complete(r, j)
             \/ UNCHANGED Contract!contractVars
  <2> DEFINE j == runner[r].job
  <2>1. Busy(r) /\ j \in DOMAIN jobs
    BY <1>0, <1>7 DEF Complete, Busy
  <2>2. CASE Completable(r, jobs[j])
    <3>1. jobs' = [jobs EXCEPT ![j] = Completed(jobs[j])]
      BY <1>7, <2>2 DEF Complete
    <3>2. Contract!Complete(r, j)
      BY <1>3, <2>1, <2>2, <3>1
    <3> QED
      BY <2>1, <3>2
  <2>3. CASE ~Completable(r, jobs[j])
    BY <1>5, <1>7, <2>3 DEF Complete
  <2> QED
    BY <2>2, <2>3
<1>8. ASSUME NEW r \in Runner, Fail(r)
      PROVE  \/ \E j \in JobId : Contract!GiveUp(r, j)
             \/ UNCHANGED Contract!contractVars
  <2> DEFINE j == runner[r].job
  <2>1. Busy(r) /\ j \in DOMAIN jobs
    BY <1>0, <1>8 DEF Fail, Busy
  <2>2. runner[r].retry \in Nat
    BY <2>1 DEF Busy, Work, Idle
  <2>3. CASE Failable(r, jobs[j])
    <3>1. jobs' = [jobs EXCEPT ![j] = Released(jobs[j], runner[r].retry)]
      BY <1>8, <2>3 DEF Fail
    <3>2. Contract!GiveUp(r, j) \/ UNCHANGED Contract!contractVars
      BY <1>4, <2>1, <2>2, <2>3, <3>1
    <3> QED
      BY <2>1, <3>2
  <2>4. CASE ~Failable(r, jobs[j])
    BY <1>5, <1>8, <2>4 DEF Fail
  <2> QED
    BY <2>3, <2>4
<1>9. ASSUME NEW r \in Runner, NEW result, Handle(r, result) \/ Stop(r)
      PROVE  UNCHANGED Contract!contractVars
  BY <1>5, <1>9 DEF Handle, Stop
<1>10. CASE UNCHANGED jobVars
  BY <1>5, <1>10 DEF jobVars
<1>11. \A j \in DOMAIN jobs : j \in JobId
  OBVIOUS
<1>12. CASE QueueNext
  <2>1. CASE \E j \in JobId, kind \in Kind, max \in MaxAttempts, delay \in Delay :
               Enqueue(j, kind, max, delay)
    BY <1>1, <2>1 DEF Contract!Next
  <2>2. ASSUME NEW r \in Runner, NEW j \in DOMAIN jobs, Lease(r, j)
        PROVE  Contract!Next
    BY <1>2, <1>11, <2>2 DEF Contract!Next
  <2>3. ASSUME NEW r \in Runner, Complete(r)
        PROVE  Contract!Next \/ UNCHANGED Contract!contractVars
    BY <1>7, <2>3 DEF Contract!Next
  <2>4. ASSUME NEW r \in Runner, Fail(r)
        PROVE  Contract!Next \/ UNCHANGED Contract!contractVars
    BY <1>8, <2>4 DEF Contract!Next
  <2>5. CASE Tick
    BY <1>6, <2>5 DEF Contract!Next
  <2> QED
    BY <1>9, <1>12, <2>1, <2>2, <2>3, <2>4, <2>5 DEF QueueNext
<1> QED
  BY <1>10, <1>12

\* The queue keeps the contract: at most one runner has a say in a job, a job
\* that is done stays done, and it is attempted no more than its limit allows.
THEOREM Refines == QueueSpec => KeepsContract
<1>1. QueueInit => Contract!Init
  BY DEF QueueInit, Contract!Init, LimitOf, TriesOf, HolderOf, DoneJobs
<1>2. /\ QueueTypeOK /\ QueueTypeOK' /\ LeaseInv /\ [QueueNext]_jobVars
      => [Contract!Next]_(Contract!contractVars)
  BY ContractStep
<1> QED
  BY <1>1, <1>2, QueueTypeCorrect, LeaseInvCorrect, PTL
     DEF QueueSpec, KeepsContract, Contract!Spec
=============================================================================
