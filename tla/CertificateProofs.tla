--------------------------- MODULE CertificateProofs --------------------------
(***************************************************************************)
(* Certificates, for every choice of the constants: their numbers, what    *)
(* they can be traced back to, and that what they rest on stays as it was. *)
(***************************************************************************)
EXTENDS SafetyProofs

\* The next number is above all numbers given, and closes the sequence.
NumberingInv ==
  /\ CertificateNumbersGapless
  /\ \A c \in DOMAIN certificates :
       certificates[c].number \in 1..Cardinality(DOMAIN certificates)

\* Counting the certificates gives the next number, although nothing else
\* remembers which numbers were given.
LEMMA NumberingNext == TypeOK /\ NumberingInv /\ CertificationNext => NumberingInv'
<1> SUFFICES ASSUME TypeOK, NumberingInv,
                    NEW u \in Users, NEW c \in Fresh(CertificateId, certificates),
                    NEW r \in DOMAIN requests, IssueCertificate(u, c, r)
             PROVE  NumberingInv'
  BY DEF CertificationNext
<1> DEFINE n == Cardinality(DOMAIN certificates)
<1>1. c \notin DOMAIN certificates
  BY DEF Fresh
<1>2. /\ DOMAIN certificates' = DOMAIN certificates \cup {c}
      /\ certificates'[c].number = n + 1
      /\ \A e \in DOMAIN certificates : certificates'[e] = certificates[e]
  BY <1>1 DEF IssueCertificate, Put, NextNumber
<1>3. n \in Nat /\ Cardinality(DOMAIN certificates') = n + 1
  BY <1>1, <1>2, FS_CardinalityType, FS_AddElement DEF TypeOK
<1>4. /\ \A k \in 1..n : \E e \in DOMAIN certificates : certificates[e].number = k
      /\ \A e, f \in DOMAIN certificates :
           certificates[e].number = certificates[f].number => e = f
      /\ \A e \in DOMAIN certificates : certificates[e].number \in 1..n
  BY DEF NumberingInv, CertificateNumbersGapless
<1> HIDE DEF n
<1>5. \A k \in 1..(n + 1) : \E e \in DOMAIN certificates' : certificates'[e].number = k
  <2> SUFFICES ASSUME NEW k \in 1..(n + 1)
               PROVE  \E e \in DOMAIN certificates' : certificates'[e].number = k
    OBVIOUS
  <2>1. k \in 1..n \/ k = n + 1
    BY <1>3
  <2> QED
    BY <1>2, <1>4, <2>1
<1>6. \A e, f \in DOMAIN certificates' :
        certificates'[e].number = certificates'[f].number => e = f
  BY <1>1, <1>2, <1>3, <1>4
<1>7. \A e \in DOMAIN certificates' : certificates'[e].number \in 1..(n + 1)
  BY <1>2, <1>3, <1>4
<1> QED
  BY <1>3, <1>5, <1>6, <1>7 DEF NumberingInv, CertificateNumbersGapless

\* The numbers given are, at all times, those up to the number of certificates.
LEMMA NumberingCorrect == Spec => []NumberingInv
<1>1. Init => NumberingInv
  <2> SUFFICES ASSUME Init PROVE NumberingInv
    OBVIOUS
  <2>1. DOMAIN certificates = {}
    BY DEF Init, NoEntries
  <2>2. Cardinality({}) = 0
    BY FS_EmptySet
  <2>3. 1..0 = {}
    OBVIOUS
  <2> QED
    BY <2>1, <2>2, <2>3 DEF NumberingInv, CertificateNumbersGapless
<1>2. TypeOK /\ NumberingInv /\ [Next]_vars => NumberingInv'
  <2>1. NumberingInv /\ UNCHANGED certificates => NumberingInv'
    BY DEF NumberingInv, CertificateNumbersGapless
  <2> QED
    BY <2>1, NumberingNext, IntakeFrame, CustodyFrame, TestingFrame
    DEF Next, vars, certVars
<1> QED
  BY <1>1, <1>2, TypeCorrect, PTL DEF Spec

\* Certificate numbers are 1, 2, 3, ... with neither gap nor repetition.
THEOREM NumbersGapless == Spec => []CertificateNumbersGapless
<1>1. NumberingInv => CertificateNumbersGapless
  BY DEF NumberingInv
<1> QED
  BY <1>1, NumberingCorrect, PTL

-----------------------------------------------------------------------------
(* Traceability.                                                            *)

\* What a certificate for request r needs of task t, for which it shows result.
Backed(t, r, result) ==
  /\ t \in TasksOf(r)
  /\ tasks[t].status = "approved"
  /\ Receipts(tasks[t].subsample, tasks[t].executor) # {}
  /\ methods[tasks[t].method].status = "published"
  /\ \E u \in Users \ {tasks[t].executor} : Audited(u, "review_approve", t)
  /\ \E d \in RoundsOf(t) : rounds[d].result = result
                            /\ rounds[d].by = tasks[t].executor

\* What holds of the store when a certificate is issued.
Groundwork ==
  /\ TypeOK /\ CallsPending
  /\ ExecutorConfirmedReceipt /\ RoundsInv /\ ReviewInv /\ MethodInv

\* The trail only grows.
LEMMA AuditsGrow == [Next]_vars => audits \subseteq audits'
<1>1. \A A : Writes(A) => audits \subseteq audits'
  BY DEF Writes, Audit
<1> QED
  BY <1>1, IntakeWrites, CustodyWrites, MethodWrites, CreateTaskWrites, TaskWrites,
     RetestWrites, CertificationWrites DEF Next, TestingNext, vars

\* A published method is never touched again.
LEMMA PublishedStays ==
  ASSUME [Next]_vars, NEW m \in DOMAIN methods, methods[m].status = "published"
  PROVE  methods'[m] = methods[m]
<1>1. ASSUME NEW u, NEW k \in Fresh(MethodId, methods), NEW code, NEW version,
             NEW valid, CreateMethod(u, k, code, version, valid)
      PROVE  methods'[m] = methods[m]
  BY <1>1 DEF CreateMethod, Put, Fresh
<1>2. ASSUME NEW u, NEW k \in DOMAIN methods, PublishMethod(u, k)
      PROVE  methods'[m] = methods[m]
  BY <1>2 DEF PublishMethod
<1>3. CreateTaskNext => UNCHANGED methods
  BY DEF CreateTaskNext, BeginCreateTask, FinishCreateTask, AbandonCreateTask
<1>4. TaskNext \/ RetestNext => UNCHANGED methods
  BY DEF TaskNext, StartTask, SaveRound, SubmitReview, Review,
         RetestNext, BeginRetest, FinishRetest
<1> QED
  BY <1>1, <1>2, <1>3, <1>4, IntakeFrame, CustodyFrame, CertificationFrame
  DEF Next, TestingNext, MethodNext, vars, testingVars

\* What backs a certificate goes on backing it: the task is final, its rounds
\* are frozen, and receipts, published methods and events are never taken back.
LEMMA BackedStays ==
  ASSUME Groundwork, [Next]_vars, NEW t, NEW r, NEW result, Backed(t, r, result)
  PROVE  Backed(t, r, result)'
<1>1. t \in DOMAIN tasks /\ tasks[t].status = "approved" /\ Founded(tasks[t])
  BY DEF Backed, TasksOf, Groundwork, MethodInv, TaskMethodPublished
<1>2. t \in DOMAIN tasks' /\ Frozen(t)
  BY <1>1, NextFrozen DEF Groundwork
<1>3. tasks'[t] = tasks[t] /\ Evidence(t)' = Evidence(t)
  BY <1>1, <1>2 DEF Frozen
<1>4. t \in TasksOf(r)'
  BY <1>2, <1>3 DEF Backed, TasksOf
<1>5. \A x, u : Receipts(x, u) # {} => Receipts(x, u)' # {}
  BY ReceiptsStay DEF Groundwork
<1>6. Receipts(tasks[t].subsample, tasks[t].executor)' # {}
  BY <1>3, <1>5 DEF Backed, Receipts
<1>7. Founded(tasks[t])'
  <2> DEFINE task == tasks[t]
  <2>1. CASE Next
    <3>1. \A k : Founded(k) => Founded(k)'
      BY <2>1, FoundedStays DEF Groundwork
    <3> QED
      BY <1>1, <1>3, <3>1 DEF Founded
  <2>2. CASE UNCHANGED vars
    BY <1>1, <2>2 DEF Founded, vars, intakeVars, testingVars
  <2> QED
    BY <2>1, <2>2
<1>8. methods'[tasks'[t].method].status = "published"
  BY <1>7 DEF Founded
<1>9. \E u \in Users \ {tasks[t].executor} : Audited(u, "review_approve", t)'
  BY AuditsGrow DEF Backed, Audited
<1>10. \E d \in RoundsOf(t)' : /\ rounds'[d].result = result
                               /\ rounds'[d].by = tasks[t].executor
  <2>1. PICK d \in RoundsOf(t) : rounds[d].result = result
                                 /\ rounds[d].by = tasks[t].executor
    BY DEF Backed
  <2>2. DOMAIN Evidence(t) = RoundsOf(t) /\ Evidence(t)[d] = rounds[d]
    BY DEF Evidence
  <2>3. DOMAIN Evidence(t)' = RoundsOf(t)'
        /\ \A e \in RoundsOf(t)' : Evidence(t)'[e] = rounds'[e]
    BY DEF Evidence
  <2>4. d \in RoundsOf(t)' /\ rounds'[d] = rounds[d]
    BY <1>3, <2>2, <2>3
  <2> QED
    BY <2>1, <2>4
<1> QED
  BY <1>1, <1>3, <1>4, <1>6, <1>8, <1>9, <1>10 DEF Backed

\* Every certificate lists something, and all it lists is backed.
TraceInv ==
  \A c \in DOMAIN certificates :
    /\ DOMAIN certificates[c].results # {}
    /\ \A t \in DOMAIN certificates[c].results :
         Backed(t, certificates[c].request, certificates[c].results[t])

\* TraceInv is CertificateTraceable in terms of Backed.
LEMMA TraceInvTraceable == TraceInv => CertificateTraceable
  BY DEF TraceInv, CertificateTraceable, Backed

\* When a certificate is issued, every task it lists is approved and so has all
\* that backs it.
LEMMA IssuedBacked ==
  ASSUME Groundwork, NEW u \in Users, NEW c \in Fresh(CertificateId, certificates),
         NEW r \in DOMAIN requests, IssueCertificate(u, c, r)
  PROVE  /\ DOMAIN certificates' = DOMAIN certificates \cup {c}
         /\ \A e \in DOMAIN certificates : certificates'[e] = certificates[e]
         /\ certificates'[c].request = r
         /\ TasksOf(r) # {} /\ DOMAIN certificates'[c].results = TasksOf(r)
         /\ \A t \in DOMAIN certificates'[c].results :
              Backed(t, r, certificates'[c].results[t])
<1> DEFINE tested == {t \in TasksOf(r) : RoundsOf(t) # {}}
           Issued(results) ==
             [request |-> r, sample |-> requests[r].sample, number |-> NextNumber,
              results |-> results, supersedes |-> None]
<1>1. PICK results \in [tested -> Result] :
        /\ \A t \in tested : \E last \in RoundsOf(t) : results[t] = rounds[last].result
        /\ certificates' = Put(certificates, c, Issued(results))
  BY DEF IssueCertificate
<1>2. c \notin DOMAIN certificates
  BY DEF Fresh
<1>3. /\ DOMAIN certificates' = DOMAIN certificates \cup {c}
      /\ \A e \in DOMAIN certificates : certificates'[e] = certificates[e]
      /\ certificates'[c].request = r /\ certificates'[c].results = results
  BY <1>1, <1>2 DEF Put
<1>4. /\ TasksOf(r) # {} /\ TasksOf(r) \subseteq DOMAIN tasks
      /\ \A t \in TasksOf(r) : tasks[t].status = "approved"
  BY DEF IssueCertificate, AllApproved, TasksOf
<1>5. TasksOf(r) = tested
  BY <1>4 DEF Groundwork, RoundsInv, RoundsBelongToExecutor
<1>6. ASSUME NEW t \in tested
      PROVE  Backed(t, r, results[t])
  <2>1. t \in TasksOf(r) /\ t \in DOMAIN tasks /\ tasks[t].status = "approved"
    BY <1>4
  <2>2. Receipts(tasks[t].subsample, tasks[t].executor) # {}
    BY <2>1 DEF Groundwork, ExecutorConfirmedReceipt
  <2>3. methods[tasks[t].method].status = "published"
    BY <2>1 DEF Groundwork, MethodInv, TaskMethodPublished, Founded
  <2>4. \E v \in Users \ {tasks[t].executor} : Audited(v, "review_approve", t)
    BY <2>1 DEF Groundwork, ReviewInv, IndependentReview
  <2>5. \E d \in RoundsOf(t) : rounds[d].result = results[t]
                               /\ rounds[d].by = tasks[t].executor
    BY <1>1 DEF Groundwork, RoundsInv, RoundsBelongToExecutor, RoundsOf
  <2> QED
    BY <2>1, <2>2, <2>3, <2>4, <2>5 DEF Backed
<1> QED
  BY <1>3, <1>4, <1>5, <1>6

\* No step takes away what backs a certificate, and issuing one needs it.
LEMMA TraceInvNext == Groundwork /\ TraceInv /\ [Next]_vars => TraceInv'
<1> SUFFICES ASSUME Groundwork, TraceInv, [Next]_vars PROVE TraceInv'
  OBVIOUS
<1>1. ASSUME NEW c, NEW t, NEW r, NEW result, Backed(t, r, result),
             certificates'[c].request = r, certificates'[c].results[t] = result
      PROVE  Backed(t, certificates[c].request, certificates[c].results[t])'
  <2>1. Backed(t, r, result)'
    BY <1>1, BackedStays
  <2> QED
    BY <1>1, <2>1 DEF Backed
<1>2. ASSUME NEW c \in DOMAIN certificates, certificates'[c] = certificates[c]
      PROVE  /\ DOMAIN certificates'[c].results # {}
             /\ \A t \in DOMAIN certificates'[c].results :
                  Backed(t, certificates[c].request, certificates[c].results[t])'
  BY <1>1, <1>2 DEF TraceInv
<1>3. CASE UNCHANGED certificates
  BY <1>2, <1>3 DEF TraceInv
<1>4. ASSUME NEW u \in Users, NEW c \in Fresh(CertificateId, certificates),
             NEW r \in DOMAIN requests, IssueCertificate(u, c, r)
      PROVE  TraceInv'
  <2>1. /\ DOMAIN certificates' = DOMAIN certificates \cup {c}
        /\ \A e \in DOMAIN certificates : certificates'[e] = certificates[e]
        /\ certificates'[c].request = r
        /\ DOMAIN certificates'[c].results # {}
        /\ \A t \in DOMAIN certificates'[c].results :
             Backed(t, r, certificates'[c].results[t])
    BY <1>4, IssuedBacked
  <2>2. \A t \in DOMAIN certificates'[c].results :
          Backed(t, certificates[c].request, certificates[c].results[t])'
    BY <1>1, <2>1
  <2> QED
    BY <1>2, <2>1, <2>2 DEF TraceInv
<1> QED
  BY <1>3, <1>4, IntakeFrame, CustodyFrame, TestingFrame
  DEF Next, CertificationNext, vars, certVars

\* No step takes the ground away.
LEMMA GroundworkNext == Groundwork /\ [Next]_vars => Groundwork'
<1> SUFFICES ASSUME Groundwork, [Next]_vars PROVE Groundwork'
  OBVIOUS
<1>1. /\ TypeOK /\ CallsPending
      /\ ExecutorConfirmedReceipt /\ RoundsInv /\ ReviewInv /\ MethodInv
  BY DEF Groundwork
<1>2. TypeOK' /\ CallsPending'
  BY <1>1, TypeNext, CallsNext
<1>3. ExecutorConfirmedReceipt' /\ RoundsInv'
  BY <1>1, ReceiptNext, RoundsInvNext
<1>4. ReviewInv' /\ MethodInv'
  BY <1>1, ReviewInvNext, MethodInvNext
<1> QED
  BY <1>2, <1>3, <1>4 DEF Groundwork

\* The store is such at all times.
LEMMA GroundworkCorrect == Spec => []Groundwork
<1>1. TypeOK /\ CallsPending /\ ExecutorConfirmedReceipt /\ RoundsInv /\ ReviewInv
        /\ MethodInv => Groundwork
  BY DEF Groundwork
<1> QED
  BY <1>1, TypeCorrect, CallsCorrect, ExecutorReceived, RoundsInvCorrect,
     ReviewInvCorrect, MethodInvCorrect, PTL

\* Every certificate lists something, and all it lists is backed, at all times.
LEMMA TraceInvCorrect == Spec => []TraceInv
<1>1. Init => TraceInv
  BY DEF Init, TraceInv, NoEntries
<1> QED
  BY <1>1, TraceInvNext, GroundworkCorrect, PTL DEF Spec

\* Every line of every certificate traces back to an approved task of a confirmed
\* holder, decided on by somebody else, by a published method, and to some round
\* of that task.
THEOREM Traceable == Spec => []CertificateTraceable
  BY TraceInvTraceable, TraceInvCorrect, PTL

\* IssueCertificate leaves no task of the request out, though it skips those
\* without rounds: it accepts approved tasks only, and SubmitReview lets none
\* get there without a round.
THEOREM CoversRequest == Spec => CertificateCoversRequest
<1> DEFINE Covers(c) ==
      LET results == certificates'[c].results
          covered == TasksOf(certificates'[c].request)
      IN /\ covered # {} /\ DOMAIN results = covered
         /\ \A t \in covered :
              /\ \E u \in Users \ {tasks[t].executor} : Audited(u, "review_approve", t)
              /\ \E d \in RoundsOf(t) :
                   /\ rounds[d].result = results[t]
                   /\ rounds[d].by = tasks[t].executor
<1>1. ASSUME Groundwork, [Next]_vars,
             NEW c \in DOMAIN certificates' \ DOMAIN certificates
      PROVE  Covers(c)
  <2>1. CertificationNext
    BY <1>1, IntakeFrame, CustodyFrame, TestingFrame DEF Next, vars, certVars
  <2>2. PICK u \in Users, e \in Fresh(CertificateId, certificates), r \in DOMAIN requests :
          IssueCertificate(u, e, r)
    BY <2>1 DEF CertificationNext
  <2>3. /\ DOMAIN certificates' = DOMAIN certificates \cup {e}
        /\ certificates'[e].request = r
        /\ TasksOf(r) # {} /\ DOMAIN certificates'[e].results = TasksOf(r)
        /\ \A t \in DOMAIN certificates'[e].results :
             Backed(t, r, certificates'[e].results[t])
    BY <1>1, <2>2, IssuedBacked
  <2>4. c = e
    BY <1>1, <2>3
  <2> QED
    BY <2>3, <2>4 DEF Backed
<1>2. Groundwork /\ [Next]_vars =>
        [\A c \in DOMAIN certificates' \ DOMAIN certificates : Covers(c)]_vars
  BY <1>1
<1> QED
  BY <1>2, GroundworkCorrect, PTL DEF Spec, CertificateCoversRequest

\* What a certificate rests on never changes after it was issued.
THEOREM EvidenceFrozen == Spec => CertifiedEvidenceFrozen
<1> DEFINE Settled ==
      \A c \in DOMAIN certificates :
        /\ certificates'[c] = certificates[c]
        /\ \A t \in DOMAIN certificates[c].results :
             /\ tasks'[t] = tasks[t]
             /\ [d \in RoundsOf(t)' |-> rounds'[d]] = [d \in RoundsOf(t) |-> rounds[d]]
             /\ methods'[tasks[t].method] = methods[tasks[t].method]
<1>1. ASSUME Groundwork, TraceInv, [Next]_vars
      PROVE  Settled
  <2> SUFFICES ASSUME NEW c \in DOMAIN certificates PROVE
        /\ certificates'[c] = certificates[c]
        /\ \A t \in DOMAIN certificates[c].results :
             /\ tasks'[t] = tasks[t] /\ Evidence(t)' = Evidence(t)
             /\ methods'[tasks[t].method] = methods[tasks[t].method]
    BY DEF Evidence
  <2>1. certificates'[c] = certificates[c]
    <3>1. CertificationNext => certificates'[c] = certificates[c]
      BY DEF CertificationNext, IssueCertificate, Put, Fresh
    <3> QED
      BY <1>1, <3>1, IntakeFrame, CustodyFrame, TestingFrame DEF Next, vars, certVars
  <2>2. ASSUME NEW t \in DOMAIN certificates[c].results
        PROVE  /\ tasks'[t] = tasks[t] /\ Evidence(t)' = Evidence(t)
               /\ methods'[tasks[t].method] = methods[tasks[t].method]
    <3>1. t \in DOMAIN tasks /\ tasks[t].status = "approved"
      BY <1>1, <2>2 DEF TraceInv, Backed, TasksOf
    <3>2. tasks'[t] = tasks[t] /\ Evidence(t)' = Evidence(t)
      BY <1>1, <3>1, NextFrozen DEF Groundwork, Frozen
    <3>3. /\ tasks[t].method \in DOMAIN methods
          /\ methods[tasks[t].method].status = "published"
      BY <1>1, <3>1 DEF Groundwork, MethodInv, TaskMethodPublished, Founded
    <3>4. methods'[tasks[t].method] = methods[tasks[t].method]
      BY <1>1, <3>3, PublishedStays
    <3> QED
      BY <3>2, <3>4
  <2> QED
    BY <2>1, <2>2
<1>2. Groundwork /\ TraceInv /\ [Next]_vars => [Settled]_vars
  BY <1>1
<1> QED
  BY <1>2, GroundworkCorrect, TraceInvCorrect, PTL DEF Spec, CertifiedEvidenceFrozen
-----------------------------------------------------------------------------
(* The laboratory gives assurance.                                          *)

\* The state Assurance speaks of stays as it is.
SameWorth == UNCHANGED <<Had, Rules, WorkDone, StageOf, Notes, Judged, Stated>>

\* Who judged is known from the decisions on the trail.
LEMMA JudgedStays ==
  ASSUME NEW A, Writes(A), "review_approve" \notin A, "review_return" \notin A
  PROVE  Judged' = Judged
<1> DEFINE decisions == {"review_approve", "review_return"}
<1>1. {a \in audits' : a.action \in decisions} = {a \in audits : a.action \in decisions}
  <2>1. CASE UNCHANGED audits
    BY <2>1
  <2>2. ASSUME NEW u, NEW id, NEW action \in A, Audit(u, action, id)
        PROVE  {a \in audits' : a.action \in decisions}
                 = {a \in audits : a.action \in decisions}
    <3>1. /\ audits' = audits \cup {[actor |-> u, action |-> action, object |-> id]}
          /\ action \notin decisions
      BY <2>2 DEF Audit
    <3> QED
      BY <3>1
  <2> QED
    BY <2>1, <2>2 DEF Writes
<1> QED
  BY <1>1 DEF Judged

\* What each variable of Assurance is read from.
LEMMA SameReadings ==
  /\ UNCHANGED custodies => UNCHANGED Had
  /\ UNCHANGED methods => UNCHANGED Rules
  /\ UNCHANGED tasks => UNCHANGED <<WorkDone, StageOf>>
  /\ UNCHANGED rounds => UNCHANGED Notes
  /\ UNCHANGED audits => UNCHANGED Judged
  /\ UNCHANGED certificates => UNCHANGED Stated
BY DEF Had, Rules, Published, WorkDone, StageOf, Begun, Notes, Judged, Stated

\* Only a confirmation adds to who had what.
LEMMA CustodyGives ==
  ASSUME TypeOK, CustodyNext
  PROVE  Worth!Next \/ SameWorth
<1>1. UNCHANGED <<Rules, WorkDone, StageOf, Notes, Judged, Stated>>
  BY CustodyFrame, CustodyWrites, JudgedStays, SameReadings DEF testingVars, certVars
<1>2. ASSUME NEW u \in Users, NEW c \in Fresh(CustodyId, custodies), NEW x, NEW to,
             NEW place, CreateCustody(u, c, x, to, place)
      PROVE  SameWorth
  <2>1. /\ DOMAIN custodies' = DOMAIN custodies \cup {c}
        /\ custodies'[c].status = "pending"
        /\ \A k \in DOMAIN custodies : custodies'[k] = custodies[k]
    BY <1>2 DEF CreateCustody, Put, Fresh
  <2>2. Had' = Had
    BY <2>1 DEF Had
  <2> QED
    BY <1>1, <2>2 DEF SameWorth
<1>3. ASSUME NEW u \in Users, NEW c \in DOMAIN custodies, ConfirmCustody(u, c)
      PROVE  Worth!Next
  <2> DEFINE x == custodies[c].subsample
  <2>1. custodies[c] \in Custody
    BY DEF TypeOK, IsMap
  <2>2. /\ DOMAIN custodies' = DOMAIN custodies
        /\ custodies'[c].status = "confirmed"
        /\ custodies'[c].to = u /\ custodies'[c].subsample = x
        /\ \A k \in DOMAIN custodies \ {c} : custodies'[k] = custodies[k]
    BY <1>3, <2>1 DEF ConfirmCustody, MayConfirm, Custody
  <2>3. x \in SubsampleId /\ custodies[c].status = "pending"
    BY <1>3, <2>1 DEF ConfirmCustody, MayConfirm, Custody
  <2> HIDE DEF x
  <2>4. Had' = Had \cup {<<u, x>>}
    BY <2>2, <2>3 DEF Had
  <2>5. Worth!Receive(u, x)
    BY <1>1, <2>4 DEF Worth!Receive
  <2> QED
    BY <2>3, <2>5 DEF Worth!Next
<1> QED
  BY <1>2, <1>3 DEF CustodyNext

\* Only publishing puts a rule out.
LEMMA MethodsGive ==
  ASSUME TypeOK, MethodNext
  PROVE  Worth!Next \/ SameWorth
<1>1. UNCHANGED <<Had, WorkDone, StageOf, Notes, Judged, Stated>>
  <2>1. UNCHANGED <<tasks, rounds>>
    BY DEF MethodNext, CreateMethod, PublishMethod
  <2> QED
    BY <2>1, TestingFrame, MethodWrites, JudgedStays, SameReadings
    DEF TestingNext, custodyVars, certVars
<1>2. \A m \in DOMAIN methods : methods[m] \in Method /\ m \in MethodId
  BY DEF TypeOK, IsMap
<1>3. ASSUME NEW u, NEW m \in Fresh(MethodId, methods), NEW code, NEW version,
             NEW valid, CreateMethod(u, m, code, version, valid)
      PROVE  SameWorth
  <2>1. /\ DOMAIN methods' = DOMAIN methods \cup {m}
        /\ methods'[m].status = "draft"
        /\ \A k \in DOMAIN methods : methods'[k] = methods[k]
    BY <1>3 DEF CreateMethod, Put, Fresh
  <2>2. /\ Published' = Published
        /\ \A k \in Published : methods'[k] = methods[k]
    BY <2>1 DEF Published
  <2>3. Rules' = Rules
    BY <2>2 DEF Rules
  <2> QED
    BY <1>1, <2>3 DEF SameWorth
<1>4. ASSUME NEW u, NEW m \in DOMAIN methods, PublishMethod(u, m)
      PROVE  Worth!Next
  <2> DEFINE text == [code |-> methods[m].code, version |-> methods[m].version]
  <2>1. /\ DOMAIN methods' = DOMAIN methods
        /\ methods[m].status = "draft" /\ methods'[m].status = "published"
        /\ methods'[m].code = methods[m].code /\ methods'[m].version = methods[m].version
        /\ \A k \in DOMAIN methods \ {m} : methods'[k] = methods[k]
    BY <1>2, <1>4 DEF PublishMethod, Method
  <2>2. m \notin Published /\ Published' = Published \cup {m}
    BY <2>1 DEF Published
  <2>3. Rules' = [k \in Published \cup {m} |-> IF k = m THEN text ELSE Rules[k]]
    BY <2>1, <2>2 DEF Rules, Published
  <2>4. Worth!PutOut(m, text)
    BY <1>1, <2>2, <2>3 DEF Worth!PutOut, Worth!With, Rules
  <2>5. m \in DOMAIN Rules' /\ Rules'[m] = text
    BY <2>3
  <2> QED
    BY <1>2, <2>4, <2>5 DEF Worth!Next
<1> QED
  BY <1>3, <1>4 DEF MethodNext

\* A task that is created, or on its way, is not begun.
LEMMA CreationGivesNothing ==
  ASSUME CallsPending, CreateTaskNext
  PROVE  SameWorth
<1>1. UNCHANGED <<Had, Rules, Notes, Judged, Stated>>
  <2>1. UNCHANGED <<methods, rounds>>
    BY DEF CreateTaskNext, BeginCreateTask, FinishCreateTask, AbandonCreateTask
  <2> QED
    BY <2>1, TestingFrame, CreateTaskWrites, JudgedStays, SameReadings
    DEF TestingNext, custodyVars, certVars
<1>2. UNCHANGED <<WorkDone, StageOf>>
  <2>1. ASSUME NEW t \in DOMAIN creating, FinishCreateTask(t)
        PROVE  UNCHANGED <<WorkDone, StageOf>>
    <3>1. /\ t \notin DOMAIN tasks /\ creating[t].task.status = "pending"
          /\ tasks' = Put(tasks, t, creating[t].task)
      BY <2>1 DEF CallsPending, FinishCreateTask
    <3>2. /\ DOMAIN tasks' = DOMAIN tasks \cup {t} /\ tasks'[t].status = "pending"
          /\ \A k \in DOMAIN tasks : tasks'[k] = tasks[k]
      BY <3>1 DEF Put
    <3>3. Begun' = Begun /\ \A k \in Begun : tasks'[k] = tasks[k]
      BY <3>2 DEF Begun
    <3> QED
      BY <3>3 DEF WorkDone, StageOf
  <2>2. (\A t \in DOMAIN creating : ~FinishCreateTask(t)) => UNCHANGED tasks
    BY DEF CreateTaskNext, BeginCreateTask, AbandonCreateTask
  <2> QED
    BY <2>1, <2>2, SameReadings
<1> QED
  BY <1>1, <1>2 DEF SameWorth

\* A task changes its stage in the way given, and nothing else of it that
\* Assurance speaks of.
Moves(t, status) ==
  /\ DOMAIN tasks' = DOMAIN tasks /\ tasks'[t].status = status
  /\ tasks'[t].executor = tasks[t].executor /\ tasks'[t].subsample = tasks[t].subsample
  /\ tasks'[t].method = tasks[t].method
  /\ \A k \in DOMAIN tasks \ {t} : tasks'[k] = tasks[k]

LEMMA MovesStage ==
  ASSUME NEW t \in Begun, NEW status, status # "pending", Moves(t, status)
  PROVE  WorkDone' = WorkDone /\ StageOf' = [StageOf EXCEPT ![t] = status]
<1>1. Begun' = Begun
  BY DEF Begun, Moves
<1>2. WorkDone' = WorkDone
  <2>1. ASSUME NEW k \in Begun
        PROVE  /\ tasks'[k].executor = tasks[k].executor
               /\ tasks'[k].subsample = tasks[k].subsample
               /\ tasks'[k].method = tasks[k].method
    BY DEF Begun, Moves
  <2> QED
    BY <1>1, <2>1 DEF WorkDone
<1>3. StageOf' = [StageOf EXCEPT ![t] = status]
  <2>1. ASSUME NEW k \in Begun
        PROVE  tasks'[k].status = IF k = t THEN status ELSE tasks[k].status
    BY DEF Begun, Moves
  <2> QED
    BY <1>1, <2>1 DEF StageOf
<1> QED
  BY <1>2, <1>3

\* Who starts has the subsample and the method; the task has no rounds yet.
LEMMA StartGives ==
  ASSUME Groundwork, NEW u \in Users, NEW t \in DOMAIN tasks, StartTask(u, t)
  PROVE  Worth!Next
<1> DEFINE x == tasks[t].subsample
           m == tasks[t].method
<1>1. tasks[t] \in Task /\ t \in TaskId
  BY DEF Groundwork, TypeOK, IsMap
<1>2. /\ tasks[t].status = "pending"
      /\ DOMAIN tasks' = DOMAIN tasks /\ tasks'[t].status = "in_progress"
      /\ tasks'[t].executor = u /\ tasks'[t].subsample = x /\ tasks'[t].method = m
      /\ \A k \in DOMAIN tasks \ {t} : tasks'[k] = tasks[k]
  BY <1>1 DEF StartTask, Task
<1>3. x \in SubsampleId /\ m \in Published /\ m \in MethodId
  <2>1. Founded(tasks[t])
    BY DEF Groundwork, MethodInv, TaskMethodPublished
  <2> QED
    BY <1>1, <2>1 DEF Founded, Published, Task
<1>4. <<u, x>> \in Had
  BY DEF StartTask, HasCustody, Receipts, Had
<1> HIDE DEF x, m
<1>5. t \notin Begun /\ Begun' = Begun \cup {t}
  BY <1>2 DEF Begun
<1>6. WorkDone' = [k \in Begun \cup {t} |->
                     IF k = t THEN [by |-> u, on |-> x, rule |-> m] ELSE WorkDone[k]]
  <2>1. \A k \in Begun : tasks'[k] = tasks[k]
    BY <1>2, <1>5 DEF Begun
  <2> QED
    BY <1>2, <1>5, <2>1 DEF WorkDone
<1>7. StageOf' = [k \in Begun \cup {t} |-> IF k = t THEN "in_progress" ELSE StageOf[k]]
  <2>1. \A k \in Begun : tasks'[k] = tasks[k]
    BY <1>2, <1>5 DEF Begun
  <2> QED
    BY <1>2, <1>5, <2>1 DEF StageOf
<1>8. UNCHANGED <<Had, Rules, Notes, Judged, Stated>>
  <2>1. UNCHANGED <<custodies, methods, rounds, certificates>> /\ Writes({"start"})
    BY DEF StartTask, custodyVars, certVars, Writes
  <2> QED
    BY <2>1, JudgedStays, SameReadings
<1>9. DOMAIN WorkDone = Begun /\ DOMAIN StageOf = Begun /\ DOMAIN Rules = Published
  BY DEF WorkDone, StageOf, Rules
<1>10. Worth!Begin(u, t, x, m)
  BY <1>3, <1>4, <1>5, <1>6, <1>7, <1>8, <1>9 DEF Worth!Begin, Worth!With
<1> QED
  BY <1>1, <1>3, <1>10 DEF Worth!Next

\* A round is the note of the executor.
LEMMA RecordGives ==
  ASSUME Groundwork, NEW u \in Users, NEW t \in DOMAIN tasks,
         NEW d \in Fresh(RoundId, rounds), NEW result \in Result, SaveRound(u, t, d, result)
  PROVE  Worth!Next
<1>1. /\ t \in Begun /\ StageOf[t] = "in_progress" /\ WorkDone[t].by = u
      /\ DOMAIN WorkDone = Begun
  BY DEF SaveRound, MayRecord, Begun, StageOf, WorkDone
<1>2. d \in RoundId /\ d \notin DOMAIN rounds /\ DOMAIN Notes = DOMAIN rounds
  BY DEF Fresh, Notes
<1>3. Notes' = [k \in DOMAIN rounds \cup {d} |->
                  IF k = d THEN [of |-> t, by |-> u, says |-> result] ELSE Notes[k]]
  <2>1. /\ DOMAIN rounds' = DOMAIN rounds \cup {d}
        /\ rounds'[d].task = t /\ rounds'[d].by = u /\ rounds'[d].result = result
        /\ \A k \in DOMAIN rounds : rounds'[k] = rounds[k]
    BY <1>2 DEF SaveRound, Put
  <2> QED
    BY <1>2, <2>1 DEF Notes
<1>4. UNCHANGED <<Had, Rules, WorkDone, StageOf, Judged, Stated>>
  <2>1. UNCHANGED <<custodies, methods, tasks, certificates>> /\ Writes({"record"})
    BY DEF SaveRound, custodyVars, certVars, Writes
  <2> QED
    BY <2>1, JudgedStays, SameReadings
<1>5. Worth!WriteNote(t, d, result)
  BY <1>1, <1>2, <1>3, <1>4 DEF Worth!WriteNote, Worth!With
<1> QED
  BY <1>1, <1>2, <1>5 DEF Worth!Next

\* What is submitted has a round.
LEMMA SubmissionGives ==
  ASSUME Groundwork, NEW u \in Users, NEW t \in DOMAIN tasks, SubmitReview(u, t)
  PROVE  Worth!Next
<1>1. tasks[t] \in Task
  BY DEF Groundwork, TypeOK, IsMap
<1>2. t \in Begun /\ StageOf[t] = "in_progress" /\ DOMAIN WorkDone = Begun
  BY DEF SubmitReview, Begun, StageOf, WorkDone
<1>3. \E d \in DOMAIN Notes : Notes[d].of = t
  BY DEF SubmitReview, RoundsOf, Notes
<1>4. WorkDone' = WorkDone /\ StageOf' = [StageOf EXCEPT ![t] = "review"]
  <2>1. Moves(t, "review")
    BY <1>1 DEF SubmitReview, Moves, Task
  <2> QED
    BY <1>2, <2>1, MovesStage
<1>5. UNCHANGED <<Had, Rules, Notes, Judged, Stated>>
  <2>1. UNCHANGED <<custodies, methods, rounds, certificates>> /\ Writes({"submit_review"})
    BY DEF SubmitReview, custodyVars, certVars, Writes
  <2> QED
    BY <2>1, JudgedStays, SameReadings
<1>6. Worth!Close(t)
  BY <1>2, <1>3, <1>4, <1>5 DEF Worth!Close
<1> QED
  BY <1>2, <1>6 DEF Worth!Next

\* A review is the one judgement of the task.
LEMMA ReviewGives ==
  ASSUME Groundwork, NEW u \in Users, NEW t \in DOMAIN tasks,
         NEW decision \in {"review_approve", "review_return"}, Review(u, t, decision)
  PROVE  Worth!Next
<1>1. tasks[t] \in Task
  BY DEF Groundwork, TypeOK, IsMap
<1>2. /\ t \in Begun /\ StageOf[t] = "review" /\ DOMAIN WorkDone = Begun
      /\ u # WorkDone[t].by /\ RoleOf[u] \in Reviewing
  BY DEF Review, MayReview, Require, Begun, StageOf, WorkDone
<1>3. Verdict(decision) \in {"approved", "rejected"}
  BY DEF Verdict
<1>4. WorkDone' = WorkDone /\ StageOf' = [StageOf EXCEPT ![t] = Verdict(decision)]
  <2>1. Moves(t, Verdict(decision))
    BY <1>1 DEF Review, Moves, Task
  <2> QED
    BY <1>2, <1>3, <2>1, MovesStage
<1>5. \A v \in Users : <<v, t>> \notin Judged
  <2>1. \A v \in Users : ~Audited(v, "review_approve", t) /\ ~Audited(v, "review_return", t)
    BY DEF Review, MayReview, Groundwork, ReviewInv, IndependentReview
  <2>2. ASSUME NEW v \in Users, <<v, t>> \in Judged PROVE FALSE
    <3>1. PICK e \in audits : /\ e.action \in {"review_approve", "review_return"}
                              /\ e.actor = v /\ e.object = t
      BY <2>2 DEF Judged
    <3>2. e = [actor |-> v, action |-> e.action, object |-> t]
      BY <3>1 DEF Groundwork, TypeOK, Event
    <3> QED
      BY <2>1, <3>1, <3>2 DEF Audited
  <2> QED
    BY <2>2
<1>6. Judged' = Judged \cup {<<u, t>>}
  <2>1. audits' = audits \cup {[actor |-> u, action |-> decision, object |-> t]}
    BY DEF Review, Audit
  <2> DEFINE said  == {a \in audits : a.action \in {"review_approve", "review_return"}}
             event == [actor |-> u, action |-> decision, object |-> t]
  <2>2. {a \in audits' : a.action \in {"review_approve", "review_return"}}
          = said \cup {event}
    BY <2>1
  <2>3. event.actor = u /\ event.object = t
    OBVIOUS
  <2>4. Judged = {<<e.actor, e.object>> : e \in said}
    BY DEF Judged
  <2>5. Judged' = {<<e.actor, e.object>> : e \in said \cup {event}}
    BY <2>2 DEF Judged
  <2> HIDE DEF said, event
  <2> QED
    BY <2>3, <2>4, <2>5
<1>7. UNCHANGED <<Had, Rules, Notes, Stated>>
  <2>1. UNCHANGED <<custodies, methods, rounds, certificates>>
    BY DEF Review, custodyVars, certVars
  <2> QED
    BY <2>1, SameReadings
<1>8. Worth!Judge(u, t, Verdict(decision))
  BY <1>2, <1>4, <1>5, <1>6, <1>7 DEF Worth!Judge
<1> QED
  BY <1>2, <1>3, <1>8 DEF Worth!Next

\* A certificate states what was noted of approved work.
LEMMA IssueGives ==
  ASSUME Groundwork, NumberingInv, NEW u \in Users,
         NEW c \in Fresh(CertificateId, certificates),
         NEW r \in DOMAIN requests, IssueCertificate(u, c, r)
  PROVE  Worth!Next
<1> DEFINE shows == certificates'[c].results
           n == Cardinality(DOMAIN certificates) + 1
<1>1. /\ DOMAIN certificates' = DOMAIN certificates \cup {c}
      /\ \A e \in DOMAIN certificates : certificates'[e] = certificates[e]
      /\ DOMAIN shows # {}
      /\ \A t \in DOMAIN shows : Backed(t, r, shows[t])
  BY IssuedBacked
<1>2. c \in CertificateId /\ c \notin DOMAIN certificates /\ certificates'[c].number = n
  BY DEF Fresh, IssueCertificate, Put, NextNumber
<1>3. ASSUME NEW t \in DOMAIN shows
      PROVE  /\ StageOf[t] = "approved"
             /\ \E d \in DOMAIN Notes : Notes[d].of = t /\ Notes[d].says = shows[t]
  <2>1. t \in Begun /\ tasks[t].status = "approved"
    BY <1>1 DEF Backed, TasksOf, Begun
  <2>2. PICK d \in RoundsOf(t) : rounds[d].result = shows[t]
    BY <1>1 DEF Backed
  <2>3. d \in DOMAIN Notes /\ Notes[d].of = t /\ Notes[d].says = shows[t]
    BY <2>2 DEF RoundsOf, Notes
  <2> QED
    BY <2>1, <2>3 DEF StageOf
<1>4. /\ DOMAIN Stated = DOMAIN certificates
      /\ n \in Nat \ {0} /\ {Stated[k].number : k \in DOMAIN Stated} = 1..(n - 1)
  <2>1. DOMAIN Stated = DOMAIN certificates
        /\ \A k \in DOMAIN certificates : Stated[k].number = certificates[k].number
    BY DEF Stated
  <2>2. Cardinality(DOMAIN certificates) \in Nat
    BY FS_CardinalityType DEF Groundwork, TypeOK
  <2>3. n \in Nat \ {0} /\ 1..(n - 1) = 1..Cardinality(DOMAIN certificates)
    BY <2>2
  <2>4. /\ \A k \in DOMAIN certificates : certificates[k].number \in 1..(n - 1)
        /\ \A i \in 1..(n - 1) :
             \E k \in DOMAIN certificates : certificates[k].number = i
    BY <2>3 DEF NumberingInv, CertificateNumbersGapless
  <2> HIDE DEF n
  <2> QED
    BY <2>1, <2>3, <2>4
<1> HIDE DEF shows, n
<1>5. Stated' = [e \in DOMAIN certificates \cup {c} |->
                   IF e = c THEN [number |-> n, shows |-> shows] ELSE Stated[e]]
  BY <1>1, <1>2 DEF Stated, shows
<1>6. UNCHANGED <<Had, Rules, WorkDone, StageOf, Notes, Judged>>
  <2>1. UNCHANGED <<custodies, methods, tasks, rounds>> /\ Writes({"issue"})
    BY DEF IssueCertificate, custodyVars, testingVars, Writes
  <2> QED
    BY <2>1, JudgedStays, SameReadings
<1>7. Worth!State(c, n, shows)
  BY <1>1, <1>2, <1>3, <1>4, <1>5, <1>6 DEF Worth!State, Worth!With
<1>8. c \in DOMAIN Stated' /\ Stated'[c].number = n /\ Stated'[c].shows = shows
  BY <1>5
<1> QED
  BY <1>2, <1>7, <1>8 DEF Worth!Next

\* Every step of the laboratory is one that Assurance allows, or none to it.
LEMMA AssuranceStep ==
  Groundwork /\ NumberingInv /\ [Next]_vars => [Worth!Next]_(Worth!assuranceVars)
<1> SUFFICES ASSUME Groundwork, NumberingInv, [Next]_vars PROVE Worth!Next \/ SameWorth
  BY DEF SameWorth, Worth!assuranceVars
<1>1. ASSUME UNCHANGED <<custodies, testingVars, certVars>>, Judged' = Judged
      PROVE  SameWorth
  BY <1>1, SameReadings DEF testingVars, certVars, SameWorth
<1>2. CASE IntakeNext
  BY <1>1, <1>2, IntakeFrame, IntakeWrites, JudgedStays
<1>3. CASE CustodyNext
  BY <1>3, CustodyGives DEF Groundwork
<1>4. CASE MethodNext
  BY <1>4, MethodsGive DEF Groundwork
<1>5. CASE CreateTaskNext
  BY <1>5, CreationGivesNothing DEF Groundwork
<1>6. CASE TaskNext
  BY <1>6, StartGives, RecordGives, SubmissionGives, ReviewGives DEF TaskNext
<1>7. CASE RetestNext
  <2>1. UNCHANGED <<custodies, methods, tasks, rounds, certificates, audits>>
    BY <1>7 DEF RetestNext, BeginRetest, FinishRetest, custodyVars, certVars
  <2> QED
    BY <2>1, SameReadings DEF SameWorth
<1>8. CASE CertificationNext
  BY <1>8, IssueGives DEF CertificationNext
<1>9. CASE UNCHANGED vars
  BY <1>9, SameReadings DEF SameWorth, vars, custodyVars, testingVars, certVars
<1> QED
  BY <1>2, <1>3, <1>4, <1>5, <1>6, <1>7, <1>8, <1>9 DEF Next, TestingNext

\* Whatever the handlers of service.go do, in any order and from any number of
\* accounts, a certificate is worth what Assurance says: noted by who had the
\* material, by a rule that is out, judged once and by another, and final.
THEOREM Assures == Spec => GivesAssurance
<1>1. Init => Worth!Init
  <2> SUFFICES ASSUME Init PROVE Worth!Init
    OBVIOUS
  <2>1. Had = {} /\ Judged = {}
    BY DEF Init, NoEntries, Had, Judged
  <2>2. /\ DOMAIN WorkDone = {} /\ DOMAIN StageOf = {} /\ DOMAIN Notes = {}
        /\ DOMAIN Stated = {} /\ DOMAIN Rules \subseteq MethodId
    BY StoreAssumption
    DEF Init, NoEntries, WorkDone, StageOf, Begun, Notes, Stated, Rules, Published
  <2> QED
    BY <2>1, <2>2 DEF Worth!Init
<1> QED
  BY <1>1, AssuranceStep, GroundworkCorrect, NumberingCorrect, PTL
  DEF Spec, GivesAssurance, Worth!Spec

=============================================================================
