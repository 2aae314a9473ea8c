----------------------------- MODULE SafetyProofs -----------------------------
(***************************************************************************)
(* The types and the safety invariants of the laboratory, for every choice *)
(* of the constants: accounts, IDs, labels, quantities and bounds.  Each   *)
(* invariant is proved inductive together with TypeOK and the              *)
(* strengthening defined beside it; the layers that do not touch what it   *)
(* is about are dismissed by the lemmas on what each leaves alone.         *)
(***************************************************************************)
EXTENDS Certification, FiniteSetTheorems, TLAPS

-----------------------------------------------------------------------------
(* Maps.                                                                    *)

\* Saving an entry keeps a map a map of its kind.
LEMMA PutIsMap ==
  ASSUME NEW K, NEW V, NEW map, IsMap(map, K, V), NEW key \in K, NEW value \in V
  PROVE  IsMap(Put(map, key, value), K, V)
  BY DEF IsMap, Put

\* So does saving several entries at once.
LEMMA PutAllIsMap ==
  ASSUME NEW K, NEW V, NEW map, NEW new, IsMap(map, K, V), IsMap(new, K, V)
  PROVE  IsMap(PutAll(map, new), K, V)
  BY DEF IsMap, PutAll

\* And dropping one.
LEMMA RemoveIsMap ==
  ASSUME NEW K, NEW V, NEW map, NEW key, IsMap(map, K, V)
  PROVE  IsMap(Remove(map, key), K, V)
  BY DEF IsMap, Remove
-----------------------------------------------------------------------------
(* Type correctness.                                                        *)

\* Whatever a step writes to the trail is an event of an account on a record.
LEMMA AuditType ==
  ASSUME TypeOK, NEW u, NEW action, NEW id, Audit(u, action, id),
         [actor |-> u, action |-> action, object |-> id] \in Event
  PROVE  audits' \subseteq Event
  BY DEF TypeOK, Audit

\* The seeded store is well typed.
LEMMA TypeInit == Init => TypeOK
<1> SUFFICES ASSUME Init PROVE TypeOK
  OBVIOUS
<1> IsFiniteSet({})
  BY FS_EmptySet
<1> USE StoreAssumption
<1>1. IsMap(methods, MethodId, Method)
  BY DEF Init, IsMap, Method
<1>2. audits \subseteq Event
  BY DEF Init, Event, ObjectId
<1>3. declaredLoss \in [SampleId -> Nat]
  BY DEF Init
<1> QED
  BY <1>1, <1>2, <1>3 DEF Init, TypeOK, IsMap, NoEntries

\* The intake operations keep every map well typed.
LEMMA TypeIntake == TypeOK /\ IntakeNext => TypeOK'
<1> SUFFICES ASSUME TypeOK, IntakeNext PROVE TypeOK'
  OBVIOUS
<1> USE StoreAssumption, IntakeAssumption
<1>1. ASSUME NEW u \in Users, NEW r \in RequestId, NEW complete \in BOOLEAN,
             CreateRequest(u, r, complete)
      PROVE  TypeOK'
  <2>1. IsMap(requests', RequestId, Request)
    BY <1>1, PutIsMap DEF TypeOK, CreateRequest, Request
  <2>2. audits' \subseteq Event
    BY <1>1, AuditType DEF Event, CreateRequest, ObjectId
  <2> QED
    BY <1>1, <2>1, <2>2 DEF TypeOK, CreateRequest, custodyVars, testingVars, certVars
<1>2. ASSUME NEW u \in Users, NEW r \in DOMAIN requests, NEW complete \in BOOLEAN,
             UpdateRequest(u, r, complete)
      PROVE  TypeOK'
  <2> r \in RequestId
    BY DEF TypeOK, IsMap
  <2>1. IsMap(requests', RequestId, Request)
    BY <1>2 DEF TypeOK, UpdateRequest, Request, IsMap
  <2>2. audits' \subseteq Event
    BY <1>2, AuditType DEF Event, UpdateRequest, ObjectId
  <2> QED
    BY <1>2, <2>1, <2>2 DEF TypeOK, UpdateRequest, custodyVars, testingVars, certVars
<1>3. ASSUME NEW u \in Users, NEW r \in DOMAIN requests, NEW total \in Quantity,
             NEW s \in SampleId, SubmitRequest(u, r, s, total)
      PROVE  TypeOK'
  <2> total \in Nat /\ r \in RequestId
    BY DEF TypeOK, IsMap
  <2>0. sequence + 1 \in Nat
    BY DEF TypeOK
  <2>1. IsMap(requests', RequestId, Request)
    BY <1>3, <2>0 DEF TypeOK, SubmitRequest, Request, IsMap
  <2>2. IsMap(samples', SampleId, Sample)
    <3> DEFINE sample == [request |-> r, number |-> sequence + 1,
                          total |-> total, status |-> "registered"]
    <3>1. sample \in Sample
      BY DEF Sample, TypeOK
    <3>2. samples' = Put(samples, s, sample)
      BY <1>3 DEF SubmitRequest
    <3> QED
      BY <3>1, <3>2, PutIsMap DEF TypeOK
  <2>3. audits' \subseteq Event
    BY <1>3, AuditType DEF Event, SubmitRequest, ObjectId
  <2>4. sequence' \in Nat
    BY <1>3 DEF TypeOK, SubmitRequest, DrawNumber
  <2> QED
    BY <1>3, <2>1, <2>2, <2>3, <2>4
    DEF TypeOK, SubmitRequest, custodyVars, testingVars, certVars
<1>4. ASSUME NEW u \in Users, NEW r \in DOMAIN requests, NEW total \in Quantity,
             RefuseSubmit(u, r, total)
      PROVE  TypeOK'
  BY <1>4 DEF TypeOK, RefuseSubmit, DrawNumber, custodyVars, testingVars, certVars
<1>5. ASSUME NEW u \in Users, NEW s \in DOMAIN samples, NEW loss \in Quantity,
             NEW explained \in BOOLEAN,
             NEW new \in SUBSET Fresh(SubsampleId, subsamples),
             NEW parts \in [new -> Part], SplitSample(u, s, parts, loss, explained)
      PROVE  TypeOK'
  <2>1. s \in SampleId
    BY DEF TypeOK, IsMap
  <2>2. \A x \in new : /\ parts[x].label \in Label /\ parts[x].quantity \in Nat
                       /\ parts[x].place \in Location
    BY DEF Part
  <2>3. IsMap(subsamples', SubsampleId, Subsample)
    <3> DEFINE added == [x \in DOMAIN parts |->
                 [sample |-> s, label |-> parts[x].label, quantity |-> parts[x].quantity]]
    <3>1. IsMap(added, SubsampleId, Subsample)
      BY <2>1, <2>2 DEF IsMap, Subsample, Fresh
    <3>2. subsamples' = PutAll(subsamples, added)
      BY <1>5 DEF SplitSample
    <3> QED
      BY <3>1, <3>2, PutAllIsMap DEF TypeOK
  <2>4. holding' \in [DOMAIN subsamples' -> Holding]
    BY <1>5, <2>2 DEF TypeOK, SplitSample, PutAll, Holding
  <2>5. IsMap(samples', SampleId, Sample)
    BY <1>5 DEF TypeOK, SplitSample, Sample, IsMap
  <2>6. declaredLoss' \in [SampleId -> Nat]
    BY <1>5, <2>1 DEF TypeOK, SplitSample
  <2>7. audits' \subseteq Event
    BY <1>5, <2>1, AuditType DEF Event, SplitSample, ObjectId
  <2> QED
    BY <1>5, <2>3, <2>4, <2>5, <2>6, <2>7
    DEF TypeOK, SplitSample, testingVars, certVars
<1>6. Fresh(RequestId, requests) \subseteq RequestId
      /\ Fresh(SampleId, samples) \subseteq SampleId
  BY DEF Fresh
<1> QED
  BY <1>1, <1>2, <1>3, <1>4, <1>5, <1>6 DEF IntakeNext
\* The custody operations keep every map well typed.
LEMMA TypeCustody == TypeOK /\ CustodyNext => TypeOK'
<1> SUFFICES ASSUME TypeOK, CustodyNext PROVE TypeOK'
  OBVIOUS
<1>1. ASSUME NEW u \in Users, NEW c \in CustodyId, NEW x \in DOMAIN subsamples,
             NEW to \in Users \cup {None}, NEW place \in Location,
             CreateCustody(u, c, x, to, place)
      PROVE  TypeOK'
  <2> x \in SubsampleId
    BY DEF TypeOK, IsMap
  <2>1. IsMap(custodies', CustodyId, Custody)
    BY <1>1, PutIsMap DEF TypeOK, CreateCustody, Custody
  <2>2. audits' \subseteq Event
    BY <1>1, AuditType DEF CreateCustody, Event, ObjectId
  <2> QED
    BY <1>1, <2>1, <2>2
    DEF TypeOK, CreateCustody, intakeVars, testingVars, certVars
<1>2. ASSUME NEW u \in Users, NEW c \in DOMAIN custodies, ConfirmCustody(u, c)
      PROVE  TypeOK'
  <2>1. c \in CustodyId /\ custodies[c] \in Custody
    BY DEF TypeOK, IsMap
  <2>2. IsMap(custodies', CustodyId, Custody)
    BY <1>2, <2>1 DEF TypeOK, IsMap, ConfirmCustody, Custody
  <2>3. audits' \subseteq Event
    BY <1>2, <2>1, AuditType DEF ConfirmCustody, Event, ObjectId
  <2>4. holding' \in [DOMAIN subsamples -> Holding]
    BY <1>2, <2>1 DEF TypeOK, ConfirmCustody, Handover, Put, Holding, Custody
  <2> QED
    BY <1>2, <2>2, <2>3, <2>4
    DEF TypeOK, ConfirmCustody, intakeVars, testingVars, certVars
<1>3. Fresh(CustodyId, custodies) \subseteq CustodyId
  BY DEF Fresh
<1> QED
  BY <1>1, <1>2, <1>3 DEF CustodyNext
\* The testing operations keep every map well typed.
LEMMA TypeTesting == TypeOK /\ TestingNext => TypeOK'
<1> SUFFICES ASSUME TypeOK, TestingNext PROVE TypeOK'
  OBVIOUS
<1> USE StoreAssumption, TestingAssumption
<1>1. ASSUME NEW u \in Users, NEW m \in MethodId, NEW code \in MethodCode,
             NEW version \in 0..MaxVersion, NEW valid \in BOOLEAN,
             CreateMethod(u, m, code, version, valid)
      PROVE  TypeOK'
  <2>1. IsMap(methods', MethodId, Method)
    <3> DEFINE method == [code |-> code, version |-> Version(version),
                          valid |-> valid, status |-> "draft"]
    <3>1. Version(version) \in Nat
      BY DEF Version
    <3>2. method \in Method
      BY <3>1 DEF Method
    <3>3. methods' = Put(methods, m, method)
      BY <1>1 DEF CreateMethod
    <3> QED
      BY <3>2, <3>3, PutIsMap DEF TypeOK
  <2>2. audits' \subseteq Event
    BY <1>1, AuditType DEF CreateMethod, Event, ObjectId
  <2> QED
    BY <1>1, <2>1, <2>2 DEF TypeOK, CreateMethod, intakeVars, custodyVars, certVars
<1>2. ASSUME NEW u \in Users, NEW m \in DOMAIN methods, PublishMethod(u, m)
      PROVE  TypeOK'
  <2>1. IsMap(methods', MethodId, Method)
    BY <1>2 DEF TypeOK, PublishMethod, Method, IsMap
  <2>2. m \in MethodId
    BY DEF TypeOK, IsMap
  <2>3. audits' \subseteq Event
    BY <1>2, <2>2, AuditType DEF PublishMethod, Event, ObjectId
  <2> QED
    BY <1>2, <2>1, <2>3 DEF TypeOK, PublishMethod, intakeVars, custodyVars, certVars
<1>3. ASSUME NEW u \in Users, NEW t \in TaskId, NEW r \in RequestId \cup {None},
             NEW x \in SubsampleId, NEW m \in DOMAIN methods,
             NEW assignee \in Users \cup {None},
             BeginCreateTask(u, t, r, x, m, assignee)
      PROVE  TypeOK'
  <2>1. m \in MethodId /\ methods[m].version \in Nat
    BY DEF TypeOK, IsMap, Method
  <2>2. IsMap(creating', TaskId, TaskCall)
    BY <1>3, <2>1, PutIsMap DEF TypeOK, BeginCreateTask, TaskCall, Task
  <2> QED
    BY <1>3, <2>2 DEF TypeOK, BeginCreateTask, intakeVars, custodyVars, certVars
<1>4. ASSUME NEW t \in DOMAIN creating, FinishCreateTask(t)
      PROVE  TypeOK'
  <2>1. t \in TaskId /\ creating[t] \in TaskCall
    BY DEF TypeOK, IsMap
  <2>2. IsMap(tasks', TaskId, Task)
    BY <1>4, <2>1, PutIsMap DEF TypeOK, FinishCreateTask, TaskCall
  <2>3. IsMap(creating', TaskId, TaskCall)
    BY <1>4, RemoveIsMap DEF TypeOK, FinishCreateTask
  <2>4. audits' \subseteq Event
    BY <1>4, <2>1, AuditType DEF FinishCreateTask, Event, ObjectId, TaskCall
  <2> QED
    BY <1>4, <2>2, <2>3, <2>4
    DEF TypeOK, FinishCreateTask, intakeVars, custodyVars, certVars
<1>5. ASSUME NEW t \in DOMAIN creating, AbandonCreateTask(t)
      PROVE  TypeOK'
  <2>1. IsMap(creating', TaskId, TaskCall)
    BY <1>5, RemoveIsMap DEF TypeOK, AbandonCreateTask
  <2> QED
    BY <1>5, <2>1 DEF TypeOK, AbandonCreateTask, intakeVars, custodyVars, certVars
<1>6. ASSUME NEW u \in Users, NEW t \in DOMAIN tasks, StartTask(u, t)
      PROVE  TypeOK'
  <2>1. t \in TaskId /\ tasks[t] \in Task
    BY DEF TypeOK, IsMap
  <2>2. IsMap(tasks', TaskId, Task)
    BY <1>6, <2>1 DEF TypeOK, IsMap, StartTask, Task
  <2>3. audits' \subseteq Event
    BY <1>6, <2>1, AuditType DEF StartTask, Event, ObjectId
  <2> QED
    BY <1>6, <2>2, <2>3 DEF TypeOK, StartTask, intakeVars, custodyVars, certVars
<1>7. ASSUME NEW u \in Users, NEW t \in DOMAIN tasks, NEW d \in RoundId,
             NEW result \in Result, SaveRound(u, t, d, result)
      PROVE  TypeOK'
  <2>1. t \in TaskId /\ tasks[t].round \in Nat
    BY DEF TypeOK, IsMap, Task
  <2>2. IsMap(rounds', RoundId, Round)
    BY <1>7, <2>1, PutIsMap DEF TypeOK, SaveRound, Round
  <2>3. audits' \subseteq Event
    BY <1>7, AuditType DEF SaveRound, Event, ObjectId
  <2> QED
    BY <1>7, <2>2, <2>3 DEF TypeOK, SaveRound, intakeVars, custodyVars, certVars
<1>8. ASSUME NEW u \in Users, NEW t \in DOMAIN tasks, SubmitReview(u, t)
      PROVE  TypeOK'
  <2>1. t \in TaskId /\ tasks[t] \in Task
    BY DEF TypeOK, IsMap
  <2>2. IsMap(tasks', TaskId, Task)
    BY <1>8, <2>1 DEF TypeOK, IsMap, SubmitReview, Task
  <2>3. audits' \subseteq Event
    BY <1>8, <2>1, AuditType DEF SubmitReview, Event, ObjectId
  <2> QED
    BY <1>8, <2>2, <2>3 DEF TypeOK, SubmitReview, intakeVars, custodyVars, certVars
<1>9. ASSUME NEW u \in Users, NEW t \in DOMAIN tasks,
             NEW decision \in {"review_approve", "review_return"},
             Review(u, t, decision)
      PROVE  TypeOK'
  <2>1. t \in TaskId /\ tasks[t] \in Task
    BY DEF TypeOK, IsMap
  <2>2. IsMap(tasks', TaskId, Task)
    BY <1>9, <2>1 DEF TypeOK, IsMap, Review, Verdict, Task
  <2>3. audits' \subseteq Event
    BY <1>9, <2>1, AuditType DEF Review, Event, ObjectId
  <2> QED
    BY <1>9, <2>2, <2>3 DEF TypeOK, Review, intakeVars, custodyVars, certVars
<1>10. ASSUME NEW u \in Users, NEW t \in DOMAIN tasks, NEW q \in RetestId,
              BeginRetest(u, t, q)
       PROVE  TypeOK'
  <2>1. t \in TaskId /\ tasks[t].round \in Nat
    BY DEF TypeOK, IsMap, Task
  <2>2. IsMap(retesting', RetestId, Retest)
    BY <1>10, <2>1, PutIsMap DEF TypeOK, BeginRetest, Retest
  <2> QED
    BY <1>10, <2>2 DEF TypeOK, BeginRetest, intakeVars, custodyVars, certVars
<1>11. ASSUME NEW q \in DOMAIN retesting, FinishRetest(q)
       PROVE  TypeOK'
  <2>1. q \in RetestId /\ retesting[q] \in Retest
    BY DEF TypeOK, IsMap
  <2>2. IsMap(retests', RetestId, Retest)
    BY <1>11, <2>1, PutIsMap DEF TypeOK, FinishRetest
  <2>3. IsMap(retesting', RetestId, Retest)
    BY <1>11, RemoveIsMap DEF TypeOK, FinishRetest
  <2> QED
    BY <1>11, <2>2, <2>3 DEF TypeOK, FinishRetest, intakeVars, custodyVars, certVars
<1>12. /\ DOMAIN requests \subseteq RequestId /\ DOMAIN subsamples \subseteq SubsampleId
       /\ Fresh(MethodId, methods) \subseteq MethodId
       /\ Fresh(TaskId, tasks) \subseteq TaskId
       /\ Fresh(RoundId, rounds) \subseteq RoundId
       /\ Fresh(RetestId, retests) \subseteq RetestId
  BY DEF TypeOK, IsMap, Fresh
<1>13. CASE MethodNext
  BY <1>13, <1>1, <1>2, <1>12 DEF MethodNext
<1>14. CASE CreateTaskNext
  BY <1>14, <1>3, <1>4, <1>5, <1>12 DEF CreateTaskNext
<1>15. CASE TaskNext
  BY <1>15, <1>6, <1>7, <1>8, <1>9, <1>12 DEF TaskNext
<1>16. CASE RetestNext
  BY <1>16, <1>10, <1>11, <1>12 DEF RetestNext
<1> QED
  BY <1>13, <1>14, <1>15, <1>16 DEF TestingNext

\* Issuing a certificate keeps every map well typed.
LEMMA TypeCertification == TypeOK /\ CertificationNext => TypeOK'
<1> SUFFICES ASSUME TypeOK, NEW u \in Users,
                    NEW c \in Fresh(CertificateId, certificates),
                    NEW r \in DOMAIN requests, IssueCertificate(u, c, r)
             PROVE  TypeOK'
  BY DEF CertificationNext
<1> DEFINE tested == {t \in TasksOf(r) : RoundsOf(t) # {}}
           Issued(results) ==
             [request |-> r, sample |-> requests[r].sample,
              number |-> NextNumber,
              results |-> results, supersedes |-> None]
<1>1. PICK results \in [tested -> Result] :
        certificates' = Put(certificates, c, Issued(results))
  BY DEF IssueCertificate
<1>2. results \in UNION {[D -> Result] : D \in SUBSET TaskId}
  BY DEF TasksOf, TypeOK, IsMap
<1>3. r \in RequestId /\ requests[r].sample \in SampleId \cup {None}
  BY DEF TypeOK, IsMap, Request
<1>4. c \in CertificateId
  BY DEF Fresh
<1>5. NextNumber \in Nat
  BY FS_CardinalityType DEF TypeOK, NextNumber
<1>6. Issued(results) \in Certificate
  BY <1>2, <1>3, <1>5 DEF Certificate
<1>7. IsMap(certificates', CertificateId, Certificate)
  BY <1>1, <1>4, <1>6, PutIsMap DEF TypeOK
<1>8. IsFiniteSet(DOMAIN certificates')
  BY <1>1, FS_AddElement DEF TypeOK, Put
<1>9. audits' \subseteq Event
  BY <1>4, AuditType DEF IssueCertificate, Event, ObjectId
<1> QED
  BY <1>7, <1>8, <1>9
  DEF TypeOK, IssueCertificate, intakeVars, custodyVars, testingVars

LEMMA TypeNext == TypeOK /\ [Next]_vars => TypeOK'
<1>1. TypeOK /\ UNCHANGED vars => TypeOK'
  BY DEF TypeOK, vars, intakeVars, custodyVars, testingVars, certVars
<1> QED
  BY <1>1, TypeIntake, TypeCustody, TypeTesting, TypeCertification DEF Next

\* Every record in the store is of its kind at all times.
THEOREM TypeCorrect == Spec => []TypeOK
  BY TypeNext, TypeInit, PTL DEF Spec

-----------------------------------------------------------------------------
(* What each layer leaves alone.                                            *)

\* Intake touches neither transfers, nor testing, nor certificates.
LEMMA IntakeFrame ==
  IntakeNext => UNCHANGED <<custodies, testingVars, certVars>>
<1> USE DEF custodyVars
<1>1. \A u, r, complete : CreateRequest(u, r, complete) \/ UpdateRequest(u, r, complete)
        => UNCHANGED <<custodies, testingVars, certVars>>
  BY DEF CreateRequest, UpdateRequest
<1>2. \A u, r, s, total : SubmitRequest(u, r, s, total)
        => UNCHANGED <<custodies, testingVars, certVars>>
  BY DEF SubmitRequest
<1>3. \A u, r, total : RefuseSubmit(u, r, total)
        => UNCHANGED <<custodies, testingVars, certVars>>
  BY DEF RefuseSubmit
<1>4. \A u, s, parts, loss, explained : SplitSample(u, s, parts, loss, explained)
        => UNCHANGED <<custodies, testingVars, certVars>>
  BY DEF SplitSample
<1> QED
  BY <1>1, <1>2, <1>3, <1>4 DEF IntakeNext

\* Custody touches only transfers and holdings.
LEMMA CustodyFrame ==
  CustodyNext => UNCHANGED <<intakeVars, testingVars, certVars>>
  BY DEF CustodyNext, CreateCustody, ConfirmCustody

\* Testing touches neither what it tests nor who has it.
LEMMA TestingFrame ==
  TestingNext => UNCHANGED <<intakeVars, custodyVars, certVars>>
<1>1. MethodNext => UNCHANGED <<intakeVars, custodyVars, certVars>>
  BY DEF MethodNext, CreateMethod, PublishMethod
<1>2. CreateTaskNext => UNCHANGED <<intakeVars, custodyVars, certVars>>
  BY DEF CreateTaskNext, BeginCreateTask, FinishCreateTask, AbandonCreateTask
<1>3. TaskNext => UNCHANGED <<intakeVars, custodyVars, certVars>>
  BY DEF TaskNext, StartTask, SaveRound, SubmitReview, Review
<1>4. RetestNext => UNCHANGED <<intakeVars, custodyVars, certVars>>
  BY DEF RetestNext, BeginRetest, FinishRetest
<1> QED
  BY <1>1, <1>2, <1>3, <1>4 DEF TestingNext

\* Certification touches only certificates.
LEMMA CertificationFrame ==
  CertificationNext => UNCHANGED <<intakeVars, custodyVars, testingVars>>
  BY DEF CertificationNext, IssueCertificate

-----------------------------------------------------------------------------
(* What each layer writes to the trail.                                     *)

\* A step writes nothing, or one event whose action is in A.
Writes(A) ==
  UNCHANGED audits \/ \E u, id : \E action \in A : Audit(u, action, id)

\* What the trail says about other actions stays as it is.
LEMMA WritesNothingElse ==
  ASSUME NEW A, Writes(A), NEW b, b \notin A, NEW v, NEW o
  PROVE  Audited(v, b, o)' <=> Audited(v, b, o)
<1>1. CASE UNCHANGED audits
  BY <1>1 DEF Audited
<1>2. ASSUME NEW u, NEW id, NEW action \in A, Audit(u, action, id)
      PROVE  Audited(v, b, o)' <=> Audited(v, b, o)
  <2>1. b # action
    OBVIOUS
  <2>2. [actor |-> v, action |-> b, object |-> o]
          # [actor |-> u, action |-> action, object |-> id]
    BY <2>1
  <2> QED
    BY <1>2, <2>2 DEF Audit, Audited
<1> QED
  BY <1>1, <1>2 DEF Writes

\* Intake writes no decisions and nothing about transfers.
LEMMA IntakeWrites ==
  IntakeNext => Writes({"create", "update", "submit", "split"})
<1>1. \A u, r, complete :
        /\ CreateRequest(u, r, complete) => Audit(u, "create", r)
        /\ UpdateRequest(u, r, complete) => Audit(u, "update", r)
  BY DEF CreateRequest, UpdateRequest
<1>2. \A u, r, s, total : SubmitRequest(u, r, s, total) => Audit(u, "submit", r)
  BY DEF SubmitRequest
<1>3. \A u, r, total : RefuseSubmit(u, r, total) => UNCHANGED audits
  BY DEF RefuseSubmit
<1>4. \A u, s, parts, loss, explained :
        SplitSample(u, s, parts, loss, explained) => Audit(u, "split", s)
  BY DEF SplitSample
<1> QED
  BY <1>1, <1>2, <1>3, <1>4 DEF IntakeNext, Writes

\* Custody writes who initiated and who confirmed.
LEMMA CustodyWrites == CustodyNext => Writes({"initiate", "confirm"})
<1>1. \A u, c, x, to, place :
        CreateCustody(u, c, x, to, place) => Audit(u, "initiate", c)
  BY DEF CreateCustody
<1>2. \A u, c : ConfirmCustody(u, c) => Audit(u, "confirm", c)
  BY DEF ConfirmCustody
<1> QED
  BY <1>1, <1>2 DEF CustodyNext, Writes

\* Work on methods writes who created and who published.
LEMMA MethodWrites == MethodNext => Writes({"create", "publish"})
<1>1. \A u, m, code, version, valid :
        CreateMethod(u, m, code, version, valid) => Audit(u, "create", m)
  BY DEF CreateMethod
<1>2. \A u, m : PublishMethod(u, m) => Audit(u, "publish", m)
  BY DEF PublishMethod
<1> QED
  BY <1>1, <1>2 DEF MethodNext, Writes

\* Only a finished CreateTask is on the trail.
LEMMA CreateTaskWrites == CreateTaskNext => Writes({"create"})
<1>1. \A u, t, r, x, m, assignee :
        BeginCreateTask(u, t, r, x, m, assignee) => UNCHANGED audits
  BY DEF BeginCreateTask
<1>2. \A t : AbandonCreateTask(t) => UNCHANGED audits
  BY DEF AbandonCreateTask
<1>3. \A t : FinishCreateTask(t) => Audit(creating[t].actor, "create", t)
  BY DEF FinishCreateTask
<1> QED
  BY <1>1, <1>2, <1>3 DEF CreateTaskNext, Writes

\* Work on tasks writes who tested and who decided.
LEMMA TaskWrites ==
  TaskNext => Writes({"start", "record", "submit_review", "review_approve",
                      "review_return"})
<1>1. \A u, t : /\ StartTask(u, t) => Audit(u, "start", t)
                /\ SubmitReview(u, t) => Audit(u, "submit_review", t)
  BY DEF StartTask, SubmitReview
<1>2. \A u, t, d, result : SaveRound(u, t, d, result) => Audit(u, "record", d)
  BY DEF SaveRound
<1>3. \A u, t, decision : Review(u, t, decision) => Audit(u, decision, t)
  BY DEF Review
<1> QED
  BY <1>1, <1>2, <1>3 DEF TaskNext, Writes

\* Asking for a retest leaves no event.
LEMMA RetestWrites == RetestNext => Writes({})
  BY DEF RetestNext, BeginRetest, FinishRetest, Writes

\* Certification writes who issued.
LEMMA CertificationWrites == CertificationNext => Writes({"issue"})
<1>1. \A u, c, r : IssueCertificate(u, c, r) => Audit(u, "issue", c)
  BY DEF IssueCertificate
<1> QED
  BY <1>1 DEF CertificationNext, Writes

-----------------------------------------------------------------------------
(* Sums.  SumFunction is a recursion over the subsets of its domain; that a  *)
(* solution exists is shown by one, and that there is no other by a smallest *)
(* set on which two would differ.                                            *)

\* What a map of quantities counts: quantity q[x] is as many units of x.
Units(q, T) == UNION {{x} \X (1..q[x]) : x \in T}

\* A finite map of quantities.
Quantities(q) ==
  IsFiniteSet(DOMAIN q) /\ q = [x \in DOMAIN q |-> q[x]] /\ \A x \in DOMAIN q : q[x] \in Nat

\* Disjoint sets count together.
LEMMA DisjointCardinality ==
  ASSUME NEW S, NEW T, IsFiniteSet(S), IsFiniteSet(T), S \cap T = {}
  PROVE  IsFiniteSet(S \cup T) /\ Cardinality(S \cup T) = Cardinality(S) + Cardinality(T)
<1>1. Cardinality(S \cap T) = 0
  BY FS_EmptySet
<1>2. Cardinality(S) \in Nat /\ Cardinality(T) \in Nat
  BY FS_CardinalityType
<1>3. /\ IsFiniteSet(S \cup T)
      /\ Cardinality(S \cup T) = Cardinality(S) + Cardinality(T) - Cardinality(S \cap T)
  BY FS_Union
<1> QED
  BY <1>1, <1>2, <1>3

\* One entry has as many units as its quantity.
LEMMA UnitsOfOne ==
  ASSUME NEW q, Quantities(q), NEW x \in DOMAIN q
  PROVE  IsFiniteSet({x} \X (1..q[x])) /\ Cardinality({x} \X (1..q[x])) = q[x]
<1>1. q[x] \in Nat
  BY DEF Quantities
<1>2. IsFiniteSet(1..q[x]) /\ Cardinality(1..q[x]) = q[x]
  BY <1>1, FS_Interval
<1>3. IsFiniteSet({x}) /\ Cardinality({x}) = 1
  BY FS_Singleton
<1> QED
  BY <1>1, <1>2, <1>3, FS_Product

\* A finite map has finitely many units.
LEMMA UnitsFinite ==
  ASSUME NEW q, Quantities(q), NEW R \in SUBSET DOMAIN q
  PROVE  IsFiniteSet(Units(q, R))
<1> DEFINE of == [x \in R |-> {x} \X (1..q[x])]
           all == {{x} \X (1..q[x]) : x \in R}
<1>1. of \in Surjection(R, all)
  BY DEF Surjection
<1>2. IsFiniteSet(R)
  BY FS_Subset DEF Quantities
<1>3. IsFiniteSet(all)
  BY <1>1, <1>2, FS_Surjection
<1>4. \A s \in all : IsFiniteSet(s)
  BY UnitsOfOne
<1> HIDE DEF all
<1>5. IsFiniteSet(UNION all)
  BY <1>3, <1>4, FS_UNION
<1> QED
  BY <1>5 DEF Units, all

\* Taking one entry out takes its quantity.
LEMMA UnitsLess ==
  ASSUME NEW q, Quantities(q), NEW T \in SUBSET DOMAIN q, NEW c \in T
  PROVE  Cardinality(Units(q, T)) = q[c] + Cardinality(Units(q, T \ {c}))
<1>1. /\ Units(q, T) = ({c} \X (1..q[c])) \cup Units(q, T \ {c})
      /\ ({c} \X (1..q[c])) \cap Units(q, T \ {c}) = {}
  BY DEF Units
<1>2. /\ IsFiniteSet({c} \X (1..q[c])) /\ IsFiniteSet(Units(q, T \ {c}))
      /\ Cardinality({c} \X (1..q[c])) = q[c] /\ q[c] \in Nat
  BY UnitsOfOne, UnitsFinite DEF Quantities
<1>3. Cardinality(({c} \X (1..q[c])) \cup Units(q, T \ {c}))
        = q[c] + Cardinality(Units(q, T \ {c}))
  BY <1>1, <1>2, DisjointCardinality
<1> QED
  BY <1>1, <1>3

\* The recursion of the sum over the entries of a map.
Sums(q, g) ==
  g = [T \in SUBSET DOMAIN q |->
         IF T = {} THEN 0
         ELSE q[CHOOSE x \in T : TRUE] + g[T \ {CHOOSE x \in T : TRUE}]]

\* Counting the units solves it.
LEMMA UnitsSum ==
  ASSUME NEW q, Quantities(q)
  PROVE  Sums(q, [T \in SUBSET DOMAIN q |-> Cardinality(Units(q, T))])
<1> DEFINE g == [T \in SUBSET DOMAIN q |-> Cardinality(Units(q, T))]
<1>1. ASSUME NEW T \in SUBSET DOMAIN q
      PROVE  g[T] = IF T = {} THEN 0
                    ELSE q[CHOOSE x \in T : TRUE] + g[T \ {CHOOSE x \in T : TRUE}]
  <2>1. CASE T = {}
    <3>1. Units(q, T) = {}
      BY <2>1 DEF Units
    <3> QED
      BY <2>1, <3>1, FS_EmptySet
  <2>2. CASE T # {}
    <3>1. PICK c \in T : c = CHOOSE x \in T : TRUE
      BY <2>2
    <3>2. Cardinality(Units(q, T)) = q[c] + Cardinality(Units(q, T \ {c}))
      BY UnitsLess
    <3>3. T \ {c} \in SUBSET DOMAIN q
      OBVIOUS
    <3> QED
      BY <2>2, <3>1, <3>2, <3>3
  <2> QED
    BY <2>1, <2>2
<1> QED
  BY <1>1 DEF Sums

\* Nothing else does.
LEMMA SumsUnique ==
  ASSUME NEW q, Quantities(q), NEW g, Sums(q, g), NEW h, Sums(q, h)
  PROVE  g = h
<1> DEFINE D == DOMAIN q
           bad == {T \in SUBSET D : g[T] # h[T]}
<1>1. FiniteSubsetsOf(D) = SUBSET D
  BY FS_FiniteSubsetsOfFinite DEF Quantities
<1>2. IsWellFoundedOn(StrictSubsetOrdering(D), SUBSET D)
  BY <1>1, FS_StrictSubsetOrderingWellFounded
<1>3. bad = {}
  <2> SUFFICES ASSUME bad # {} PROVE FALSE
    OBVIOUS
  <2>1. PICK T \in bad : \A R \in bad : <<R, T>> \notin StrictSubsetOrdering(D)
    BY <1>2, WFMin, bad \subseteq SUBSET D
  <2>2. T # {}
    BY <2>1 DEF Sums
  <2>3. PICK c \in T : c = CHOOSE x \in T : TRUE
    BY <2>2
  <2>4. g[T] = q[c] + g[T \ {c}] /\ h[T] = q[c] + h[T \ {c}]
    BY <2>2, <2>3 DEF Sums
  <2>5. T \ {c} \in bad
    BY <2>1, <2>4
  <2>6. <<T \ {c}, T>> \in StrictSubsetOrdering(D)
    BY <2>3, <2>5 DEF StrictSubsetOrdering
  <2> QED
    BY <2>1, <2>5, <2>6
<1> QED
  BY <1>3 DEF Sums

\* The sum of a finite map of quantities counts their units.
LEMMA SumIsUnits ==
  ASSUME NEW q, Quantities(q)
  PROVE  SumFunction(q) = Cardinality(Units(q, DOMAIN q))
<1> DEFINE units == [T \in SUBSET DOMAIN q |-> Cardinality(Units(q, T))]
           iter == CHOOSE g : Sums(q, g)
<1>1. Sums(q, units)
  BY UnitsSum
<1>2. Sums(q, iter)
  BY <1>1
<1>3. iter = units
  BY <1>1, <1>2, SumsUnique
<1>4. SumFunction(q) = iter[DOMAIN q]
  BY DEF SumFunction, SumFunctionOnSet, FoldFunctionOnSet, MapThenFoldSet, Sums
<1> QED
  BY <1>3, <1>4

\* A map without keys sums up to nothing.
LEMMA SumOfNothing == \A q : SumFunction([x \in {} |-> q[x]]) = 0
<1> SUFFICES ASSUME NEW q PROVE SumFunction([x \in {} |-> q[x]]) = 0
  OBVIOUS
<1> DEFINE none == [x \in {} |-> q[x]]
<1>1. Quantities(none) /\ Units(none, DOMAIN none) = {}
  BY FS_EmptySet DEF Quantities, Units
<1>2. SumFunction(none) = Cardinality(Units(none, DOMAIN none))
  BY <1>1, SumIsUnits
<1> QED
  BY <1>1, <1>2, FS_EmptySet

\* The sum of two maps that share no key is the sum of their sums.
LEMMA SumOfJoined ==
  ASSUME NEW q, Quantities(q), NEW A, NEW B, DOMAIN q = A \cup B, A \cap B = {}
  PROVE  /\ SumFunction(q) =
              SumFunction([x \in A |-> q[x]]) + SumFunction([x \in B |-> q[x]])
         /\ SumFunction([x \in A |-> q[x]]) \in Nat
         /\ SumFunction([x \in B |-> q[x]]) \in Nat
<1> DEFINE a == [x \in A |-> q[x]]
           b == [x \in B |-> q[x]]
<1>1. Quantities(a) /\ Quantities(b)
  BY FS_Subset DEF Quantities
<1>2. Units(q, DOMAIN q) = Units(a, A) \cup Units(b, B) /\ Units(a, A) \cap Units(b, B) = {}
  BY DEF Units
<1>3. IsFiniteSet(Units(a, A)) /\ IsFiniteSet(Units(b, B))
  BY <1>1, UnitsFinite
<1>4. /\ SumFunction(q) = Cardinality(Units(q, DOMAIN q))
      /\ SumFunction(a) = Cardinality(Units(a, A))
      /\ SumFunction(b) = Cardinality(Units(b, B))
  BY <1>1, SumIsUnits
<1>5. Cardinality(Units(q, DOMAIN q)) = Cardinality(Units(a, A)) + Cardinality(Units(b, B))
  BY <1>2, <1>3, DisjointCardinality
<1>6. Cardinality(Units(a, A)) \in Nat /\ Cardinality(Units(b, B)) \in Nat
  BY <1>3, FS_CardinalityType
<1> QED
  BY <1>4, <1>5, <1>6

-----------------------------------------------------------------------------
(* Intake.                                                                  *)

\* The numbers of samples stay unique and below the counter.
LEMMA NumbersIntake ==
  TypeOK /\ SampleNumbersUnique /\ IntakeNext => SampleNumbersUnique'
<1> SUFFICES ASSUME TypeOK, SampleNumbersUnique, IntakeNext
             PROVE  SampleNumbersUnique'
  OBVIOUS
<1> USE DEF SampleNumbersUnique
<1>1. sequence \in Nat
  BY DEF TypeOK
<1>2. ASSUME UNCHANGED <<sequence, samples>>
      PROVE  SampleNumbersUnique'
  BY <1>2
<1>3. ASSUME NEW u \in Users, NEW r \in DOMAIN requests,
             NEW s \in Fresh(SampleId, samples), NEW total \in Quantity,
             SubmitRequest(u, r, s, total)
      PROVE  SampleNumbersUnique'
  <2>1. s \notin DOMAIN samples
    BY DEF Fresh
  <2>2. sequence' = sequence + 1
    BY <1>3 DEF SubmitRequest, DrawNumber
  <2>3. /\ DOMAIN samples' = DOMAIN samples \cup {s}
        /\ samples'[s].number = sequence + 1
        /\ \A t \in DOMAIN samples : samples'[t] = samples[t]
    BY <1>3, <2>1 DEF SubmitRequest, Put
  <2> QED
    BY <1>1, <2>1, <2>2, <2>3
<1>4. ASSUME NEW u \in Users, NEW r \in DOMAIN requests, NEW total \in Quantity,
             RefuseSubmit(u, r, total)
      PROVE  SampleNumbersUnique'
  BY <1>1, <1>4 DEF RefuseSubmit, DrawNumber
<1>5. ASSUME NEW u \in Users, NEW s \in DOMAIN samples, NEW loss, NEW explained,
             NEW parts, SplitSample(u, s, parts, loss, explained)
      PROVE  SampleNumbersUnique'
  <2>1. /\ DOMAIN samples' = DOMAIN samples
        /\ \A t \in DOMAIN samples : samples'[t].number = samples[t].number
    BY <1>5 DEF SplitSample, TypeOK, IsMap, Sample
  <2> QED
    BY <1>5, <2>1 DEF SplitSample
<1> QED
  BY <1>2, <1>3, <1>4, <1>5
  DEF IntakeNext, CreateRequest, UpdateRequest

\* A sample number is never given to two samples, and none is above the
\* counter of NextReference.
THEOREM NumbersUnique == Spec => []SampleNumbersUnique
<1>1. Init => SampleNumbersUnique
  BY DEF Init, SampleNumbersUnique, NoEntries
<1>2. TypeOK /\ SampleNumbersUnique /\ [Next]_vars => SampleNumbersUnique'
  <2> SUFFICES ASSUME TypeOK, SampleNumbersUnique, [Next]_vars
               PROVE  SampleNumbersUnique'
    OBVIOUS
  <2>1. ASSUME UNCHANGED <<sequence, samples>>
        PROVE  SampleNumbersUnique'
    BY <2>1 DEF SampleNumbersUnique
  <2>2. UNCHANGED intakeVars => SampleNumbersUnique'
    BY <2>1 DEF intakeVars
  <2> QED
    BY <2>2, NumbersIntake, CustodyFrame, TestingFrame, CertificationFrame
    DEF Next, vars
<1> QED
  BY <1>1, <1>2, TypeCorrect, PTL DEF Spec

\* Requests and samples keep naming each other.
LEMMA OneSampleIntake ==
  TypeOK /\ OneSamplePerRequest /\ IntakeNext => OneSamplePerRequest'
<1> SUFFICES ASSUME TypeOK, OneSamplePerRequest, IntakeNext
             PROVE  OneSamplePerRequest'
  OBVIOUS
<1> USE DEF OneSamplePerRequest
<1>1. /\ None \notin SampleId
      /\ DOMAIN samples \subseteq SampleId
      /\ \A r \in DOMAIN requests : requests[r] \in Request
      /\ \A s \in DOMAIN samples : samples[s] \in Sample
  BY StoreAssumption DEF TypeOK, IsMap
<1>2. ASSUME NEW u \in Users, NEW r \in Fresh(RequestId, requests),
             NEW complete \in BOOLEAN, CreateRequest(u, r, complete)
      PROVE  OneSamplePerRequest'
  <2>1. r \notin DOMAIN requests
    BY DEF Fresh
  <2>2. /\ DOMAIN requests' = DOMAIN requests \cup {r}
        /\ requests'[r].status = "draft"
        /\ requests'[r].sample = None /\ requests'[r].number = 0
        /\ \A k \in DOMAIN requests : requests'[k] = requests[k]
        /\ samples' = samples
    BY <1>2, <2>1 DEF CreateRequest, Put
  <2> QED
    BY <2>1, <2>2
<1>3. ASSUME NEW u \in Users, NEW r \in DOMAIN requests,
             NEW complete \in BOOLEAN, UpdateRequest(u, r, complete)
      PROVE  OneSamplePerRequest'
  <2>1. /\ DOMAIN requests' = DOMAIN requests
        /\ samples' = samples
        /\ \A k \in DOMAIN requests :
             /\ requests'[k].status = requests[k].status
             /\ requests'[k].sample = requests[k].sample
             /\ requests'[k].number = requests[k].number
    BY <1>1, <1>3 DEF UpdateRequest, Request
  <2> QED
    BY <2>1
<1>4. ASSUME NEW u \in Users, NEW r \in DOMAIN requests,
             NEW s \in Fresh(SampleId, samples), NEW total \in Quantity,
             SubmitRequest(u, r, s, total)
      PROVE  OneSamplePerRequest'
  <2>1. s \notin DOMAIN samples /\ s # None
    BY <1>1 DEF Fresh
  <2>2. requests[r].status = "draft" /\ requests[r].sample = None
    BY <1>4 DEF SubmitRequest, Submittable
  <2>3. /\ DOMAIN requests' = DOMAIN requests
        /\ requests'[r].status = "submitted"
        /\ requests'[r].sample = s /\ requests'[r].number = sequence + 1
        /\ \A k \in DOMAIN requests \ {r} : requests'[k] = requests[k]
    <3>1. requests[r] \in Request /\ sequence \in Nat
      BY <1>1 DEF TypeOK
    <3> QED
      BY <3>1, <1>4 DEF SubmitRequest, Request
  <2>4. /\ DOMAIN samples' = DOMAIN samples \cup {s}
        /\ samples'[s].request = r /\ samples'[s].number = sequence + 1
        /\ \A k \in DOMAIN samples : samples'[k] = samples[k]
    BY <1>4, <2>1 DEF SubmitRequest, Put
  <2>5. \A k \in DOMAIN samples : samples[k].request # r
    BY <1>1, <2>2
  <2> QED
    BY <2>1, <2>2, <2>3, <2>4, <2>5
<1>5. ASSUME NEW u \in Users, NEW r \in DOMAIN requests, NEW total \in Quantity,
             RefuseSubmit(u, r, total)
      PROVE  OneSamplePerRequest'
  BY <1>5 DEF RefuseSubmit
<1>6. ASSUME NEW u \in Users, NEW s \in DOMAIN samples, NEW loss, NEW explained,
             NEW parts, SplitSample(u, s, parts, loss, explained)
      PROVE  OneSamplePerRequest'
  <2>1. /\ DOMAIN samples' = DOMAIN samples
        /\ requests' = requests
        /\ \A k \in DOMAIN samples : /\ samples'[k].request = samples[k].request
                                     /\ samples'[k].number = samples[k].number
    BY <1>1, <1>6 DEF SplitSample, Sample
  <2> QED
    BY <2>1
<1> QED
  BY <1>2, <1>3, <1>4, <1>5, <1>6 DEF IntakeNext

\* No step unsettles OneSamplePerRequest.
LEMMA OneSampleNext ==
  TypeOK /\ OneSamplePerRequest /\ [Next]_vars => OneSamplePerRequest'
<1>1. OneSamplePerRequest /\ UNCHANGED <<requests, samples>>
        => OneSamplePerRequest'
  BY DEF OneSamplePerRequest
<1>2. OneSamplePerRequest /\ UNCHANGED intakeVars => OneSamplePerRequest'
  BY <1>1 DEF intakeVars
<1> QED
  BY <1>2, OneSampleIntake, CustodyFrame, TestingFrame, CertificationFrame
  DEF Next, vars

\* A submitted request has exactly one sample, and a draft none.
THEOREM OneSample == Spec => []OneSamplePerRequest
<1>1. Init => OneSamplePerRequest
  BY DEF Init, OneSamplePerRequest, NoEntries
<1> QED
  BY <1>1, OneSampleNext, TypeCorrect, PTL DEF Spec

\* The parts stay within the total, and there are finitely many subsamples, each
\* of a sample that exists.
AllocationInv ==
  /\ AllocationWithinTotal
  /\ IsFiniteSet(DOMAIN subsamples)
  /\ \A x \in DOMAIN subsamples : subsamples[x].sample \in DOMAIN samples

\* A split gives the parts of the call to the sample, and nothing else to any.
LEMMA SplitAllocates ==
  ASSUME TypeOK, TypeOK', AllocationInv,
         NEW u \in Users, NEW s \in DOMAIN samples, NEW loss \in Quantity, NEW explained,
         NEW new \in SUBSET Fresh(SubsampleId, subsamples), NEW parts \in [new -> Part],
         SplitSample(u, s, parts, loss, explained)
  PROVE  AllocationInv'
<1>1. /\ DOMAIN subsamples' = DOMAIN subsamples \cup new
      /\ DOMAIN subsamples \cap new = {}
      /\ \A x \in DOMAIN subsamples : subsamples'[x] = subsamples[x]
      /\ \A x \in new : /\ subsamples'[x].sample = s
                        /\ subsamples'[x].label = parts[x].label
                        /\ subsamples'[x].quantity = parts[x].quantity
  BY DEF SplitSample, PutAll, Fresh
<1>2. DOMAIN parts = new /\ IsFiniteSet(new) /\ loss \in Nat
  BY IntakeAssumption DEF SplitSample, ValidateSplit
<1>3. /\ DOMAIN samples' = DOMAIN samples
      /\ \A k \in DOMAIN samples :
           samples'[k].total = samples[k].total /\ samples[k].total \in Nat
  BY DEF SplitSample, TypeOK, IsMap, Sample
<1>4. /\ IsFiniteSet(DOMAIN subsamples')
      /\ \A x \in DOMAIN subsamples' : subsamples'[x].sample \in DOMAIN samples'
  <2>1. IsFiniteSet(DOMAIN subsamples)
        /\ \A x \in DOMAIN subsamples : subsamples[x].sample \in DOMAIN samples
    BY DEF AllocationInv
  <2>2. IsFiniteSet(DOMAIN subsamples \cup new)
    BY <1>2, <2>1, FS_Union
  <2> QED
    BY <1>1, <1>3, <2>1, <2>2
<1>5. /\ PartsOf(s)' = PartsOf(s) \cup new /\ PartsOf(s) \cap new = {}
      /\ \A k \in DOMAIN samples \ {s} : PartsOf(k)' = PartsOf(k)
  BY <1>1 DEF PartsOf
<1>6. /\ Allocated(s)' = Allocated(s) + Added(parts)
      /\ Allocated(s) \in Nat /\ Added(parts) \in Nat
  <2>1. PICK q : q = [x \in PartsOf(s) \cup new |-> subsamples'[x].quantity]
    OBVIOUS
  <2>2. Quantities(q)
    <3>1. PartsOf(s) \cup new \subseteq DOMAIN subsamples'
      BY <1>1 DEF PartsOf
    <3>2. IsFiniteSet(PartsOf(s) \cup new)
      BY <1>4, <3>1, FS_Subset
    <3>3. \A x \in DOMAIN subsamples' : subsamples'[x].quantity \in Nat
      BY DEF TypeOK, IsMap, Subsample
    <3> QED
      BY <2>1, <3>1, <3>2, <3>3 DEF Quantities
  <2>3. /\ DOMAIN q = PartsOf(s) \cup new
        /\ [x \in PartsOf(s) |-> q[x]] = [x \in PartsOf(s) |-> subsamples[x].quantity]
        /\ [x \in new |-> q[x]] = [x \in new |-> parts[x].quantity]
    BY <1>1, <2>1 DEF PartsOf
  <2>4. /\ SumFunction(q) = SumFunction([x \in PartsOf(s) |-> q[x]])
                              + SumFunction([x \in new |-> q[x]])
        /\ SumFunction([x \in PartsOf(s) |-> q[x]]) \in Nat
        /\ SumFunction([x \in new |-> q[x]]) \in Nat
    BY <1>5, <2>2, <2>3, SumOfJoined
  <2>5. Allocated(s)' = SumFunction(q)
    BY <1>5, <2>1 DEF Allocated
  <2>6. /\ Allocated(s) = SumFunction([x \in PartsOf(s) |-> q[x]])
        /\ Added(parts) = SumFunction([x \in new |-> q[x]])
    BY <1>2, <2>3 DEF Allocated, Added
  <2> QED
    BY <2>4, <2>5, <2>6
<1>7. Allocated(s)' <= samples[s].total
  <2>1. loss + Allocated(s) + Added(parts) <= samples[s].total
    BY DEF SplitSample, ValidateSplit, Used
  <2> QED
    BY <1>2, <1>3, <1>6, <2>1
<1>8. ASSUME NEW k \in DOMAIN samples \ {s}
      PROVE  Allocated(k)' = Allocated(k)
  <2>1. [x \in PartsOf(k)' |-> subsamples'[x].quantity]
          = [x \in PartsOf(k) |-> subsamples[x].quantity]
    BY <1>1, <1>5 DEF PartsOf
  <2> QED
    BY <2>1 DEF Allocated
<1>9. ASSUME NEW k \in DOMAIN samples, NEW x \in PartsOf(k)', NEW y \in PartsOf(k)',
             subsamples'[x].label = subsamples'[y].label
      PROVE  x = y
  <2>1. \A v \in new : /\ \A w \in PartsOf(s) : subsamples[w].label # parts[v].label
                       /\ \A w \in new \ {v} : parts[w].label # parts[v].label
    BY <1>2 DEF SplitSample, ValidateSplit
  <2>2. \A v, w \in PartsOf(k) : subsamples[v].label = subsamples[w].label => v = w
    BY DEF AllocationInv, AllocationWithinTotal
  <2>3. CASE k = s
    BY <1>1, <1>5, <1>9, <2>1, <2>2, <2>3 DEF PartsOf
  <2>4. CASE k # s
    BY <1>1, <1>5, <1>9, <2>2, <2>4 DEF PartsOf
  <2> QED
    BY <2>3, <2>4
<1>10. AllocationWithinTotal'
  BY <1>3, <1>7, <1>8, <1>9 DEF AllocationInv, AllocationWithinTotal
<1> QED
  BY <1>4, <1>10 DEF AllocationInv

\* A sample is registered without any parts.
LEMMA AllocationNext ==
  TypeOK /\ AllocationInv /\ [Next]_vars => AllocationInv'
<1> SUFFICES ASSUME TypeOK, AllocationInv, [Next]_vars PROVE AllocationInv'
  OBVIOUS
<1>1. TypeOK'
  BY TypeNext
<1>2. CASE UNCHANGED <<samples, subsamples>>
  BY <1>2 DEF AllocationInv, AllocationWithinTotal, Allocated, PartsOf
<1>3. ASSUME NEW u \in Users, NEW r \in DOMAIN requests,
             NEW s \in Fresh(SampleId, samples), NEW total \in Quantity,
             SubmitRequest(u, r, s, total)
      PROVE  AllocationInv'
  <2>1. /\ DOMAIN samples' = DOMAIN samples \cup {s} /\ s \notin DOMAIN samples
        /\ samples'[s].total = total
        /\ \A k \in DOMAIN samples : samples'[k] = samples[k]
        /\ subsamples' = subsamples
    BY <1>3 DEF SubmitRequest, Put, Fresh
  <2>2. PartsOf(s) = {}
    BY <2>1 DEF PartsOf, AllocationInv
  <2>3. Allocated(s) = 0
    BY <2>2, SumOfNothing DEF Allocated
  <2>4. total \in Nat
    BY IntakeAssumption
  <2>5. \A k : PartsOf(k)' = PartsOf(k) /\ Allocated(k)' = Allocated(k)
    BY <2>1 DEF PartsOf, Allocated
  <2> QED
    BY <2>1, <2>2, <2>3, <2>4, <2>5 DEF AllocationInv, AllocationWithinTotal
<1>4. ASSUME NEW u \in Users, NEW s \in DOMAIN samples, NEW loss \in Quantity,
             NEW explained, NEW new \in SUBSET Fresh(SubsampleId, subsamples),
             NEW parts \in [new -> Part], SplitSample(u, s, parts, loss, explained)
      PROVE  AllocationInv'
  BY <1>1, <1>4, SplitAllocates
<1>5. CASE IntakeNext
  BY <1>2, <1>3, <1>4, <1>5
  DEF IntakeNext, CreateRequest, UpdateRequest, RefuseSubmit
<1> QED
  BY <1>2, <1>5, CustodyFrame, TestingFrame, CertificationFrame
  DEF Next, vars, intakeVars

\* Over any number of splits of any number of parts, no sample is given out
\* beyond what it had, and its parts keep different labels (ValidateSplit).
THEOREM Allocation == Spec => []AllocationWithinTotal
<1>1. Init => AllocationInv
  BY FS_EmptySet DEF Init, AllocationInv, AllocationWithinTotal, NoEntries
<1>2. AllocationInv => AllocationWithinTotal
  BY DEF AllocationInv
<1> QED
  BY <1>1, <1>2, AllocationNext, TypeCorrect, PTL DEF Spec

\* What was submitted is never edited, submitted again or registered anew.
THEOREM SubmissionsFrozen == Spec => SubmittedFrozen
<1> DEFINE Frozen ==
      /\ \A r \in DOMAIN requests :
           requests[r].status = "submitted" => requests'[r] = requests[r]
      /\ \A s \in DOMAIN samples :
           samples'[s] = [samples[s] EXCEPT !.status = samples'[s].status]
<1>1. TypeOK /\ UNCHANGED <<requests, samples>> => Frozen
  BY DEF TypeOK, IsMap, Sample
<1>2. TypeOK /\ IntakeNext => Frozen
  <2> SUFFICES ASSUME TypeOK, IntakeNext PROVE Frozen
    OBVIOUS
  <2>1. /\ \A r \in DOMAIN requests : requests[r] \in Request
        /\ \A s \in DOMAIN samples : samples[s] \in Sample
    BY DEF TypeOK, IsMap
  <2>2. ASSUME NEW u \in Users, NEW r \in Fresh(RequestId, requests),
               NEW complete \in BOOLEAN, CreateRequest(u, r, complete)
        PROVE  Frozen
    BY <2>1, <2>2 DEF CreateRequest, Put, Fresh, Sample
  <2>3. ASSUME NEW u \in Users, NEW r \in DOMAIN requests,
               NEW complete \in BOOLEAN, UpdateRequest(u, r, complete)
        PROVE  Frozen
    BY <2>1, <2>3 DEF UpdateRequest, Editable, Sample
  <2>4. ASSUME NEW u \in Users, NEW r \in DOMAIN requests,
               NEW s \in Fresh(SampleId, samples), NEW total \in Quantity,
               SubmitRequest(u, r, s, total)
        PROVE  Frozen
    BY <2>1, <2>4 DEF SubmitRequest, Submittable, Put, Fresh, Sample
  <2>5. ASSUME NEW u \in Users, NEW r \in DOMAIN requests, NEW total \in Quantity,
               RefuseSubmit(u, r, total)
        PROVE  Frozen
    BY <1>1, <2>5 DEF RefuseSubmit
  <2>6. ASSUME NEW u \in Users, NEW s \in DOMAIN samples, NEW loss, NEW explained,
               NEW parts, SplitSample(u, s, parts, loss, explained)
        PROVE  Frozen
    BY <2>1, <2>6 DEF SplitSample, Sample
  <2> QED
    BY <2>2, <2>3, <2>4, <2>5, <2>6 DEF IntakeNext
<1>3. TypeOK /\ UNCHANGED intakeVars => Frozen
  BY <1>1 DEF intakeVars
<1>4. TypeOK /\ [Next]_vars => [Frozen]_vars
  BY <1>2, <1>3, CustodyFrame, TestingFrame, CertificationFrame DEF Next, vars
<1> QED
  BY <1>4, TypeCorrect, PTL DEF Spec, SubmittedFrozen

-----------------------------------------------------------------------------
(* Custody.                                                                 *)

\* Without the second conjunct a split could add a subsample that a confirmed
\* transfer already names.
CustodyInv ==
  /\ HolderConfirmedReceipt
  /\ \A c \in DOMAIN custodies : custodies[c].subsample \in DOMAIN subsamples

\* Intake adds subsamples that nobody holds and no transfer names.
LEMMA CustodyInvIntake == TypeOK /\ CustodyInv /\ IntakeNext => CustodyInv'
<1> SUFFICES ASSUME TypeOK, CustodyInv, IntakeNext PROVE CustodyInv'
  OBVIOUS
<1> USE DEF CustodyInv, HolderConfirmedReceipt, Receipts
<1>1. ASSUME UNCHANGED <<subsamples, custodyVars>>
      PROVE  CustodyInv'
  BY <1>1 DEF custodyVars
<1>2. ASSUME NEW u \in Users, NEW s \in DOMAIN samples, NEW loss, NEW explained,
             NEW new \in SUBSET Fresh(SubsampleId, subsamples),
             NEW parts \in [new -> Part], SplitSample(u, s, parts, loss, explained)
      PROVE  CustodyInv'
  <2>1. \A x \in new : x \notin DOMAIN subsamples
    BY DEF Fresh
  <2>2. /\ DOMAIN subsamples' = DOMAIN subsamples \cup new
        /\ custodies' = custodies
    BY <1>2 DEF SplitSample, PutAll
  <2>3. /\ \A x \in new : holding'[x].holder = None
        /\ \A x \in DOMAIN subsamples : holding'[x] = holding[x]
    BY <1>2, <2>1 DEF SplitSample, PutAll, TypeOK
  <2> QED
    BY <2>1, <2>2, <2>3
<1>3. ASSUME NEW u, NEW r, NEW s, NEW total, NEW complete,
             \/ CreateRequest(u, r, complete) \/ UpdateRequest(u, r, complete)
             \/ SubmitRequest(u, r, s, total) \/ RefuseSubmit(u, r, total)
      PROVE  UNCHANGED <<subsamples, custodyVars>>
  BY <1>3 DEF CreateRequest, UpdateRequest, SubmitRequest, RefuseSubmit
<1> QED
  BY <1>1, <1>2, <1>3 DEF IntakeNext

\* A transfer that is initiated moves nothing; one that is confirmed moves its
\* subsample to whoever confirmed.
LEMMA CustodyInvCustody == TypeOK /\ CustodyInv /\ CustodyNext => CustodyInv'
<1> SUFFICES ASSUME TypeOK, CustodyInv, CustodyNext PROVE CustodyInv'
  OBVIOUS
<1> USE DEF CustodyInv, HolderConfirmedReceipt, Receipts
<1>1. /\ \A c \in DOMAIN custodies : custodies[c] \in Custody
      /\ holding \in [DOMAIN subsamples -> Holding]
  BY DEF TypeOK, IsMap
<1>2. ASSUME NEW u \in Users, NEW c \in Fresh(CustodyId, custodies),
             NEW x \in DOMAIN subsamples, NEW to \in Users \cup {None},
             NEW place \in Location, CreateCustody(u, c, x, to, place)
      PROVE  CustodyInv'
  <2>1. c \notin DOMAIN custodies
    BY DEF Fresh
  <2>2. /\ DOMAIN custodies' = DOMAIN custodies \cup {c}
        /\ custodies'[c].status = "pending" /\ custodies'[c].subsample = x
        /\ \A k \in DOMAIN custodies : custodies'[k] = custodies[k]
    BY <1>2, <2>1 DEF CreateCustody, Put
  <2>3. holding' = holding /\ subsamples' = subsamples
    BY <1>2 DEF CreateCustody, intakeVars
  <2>4. \A y, v : Receipts(y, v)' = Receipts(y, v)
    BY <2>1, <2>2
  <2> QED
    BY <2>2, <2>3, <2>4
<1>3. ASSUME NEW u \in Users, NEW c \in DOMAIN custodies, ConfirmCustody(u, c)
      PROVE  CustodyInv'
  <2>1. /\ custodies[c].to = u /\ custodies[c].status = "pending"
        /\ custodies[c].subsample \in DOMAIN subsamples
    BY <1>3 DEF ConfirmCustody, MayConfirm
  <2>2. /\ DOMAIN custodies' = DOMAIN custodies
        /\ custodies'[c].status = "confirmed" /\ custodies'[c].to = u
        /\ custodies'[c].subsample = custodies[c].subsample
        /\ custodies'[c].place = custodies[c].place
        /\ \A k \in DOMAIN custodies \ {c} : custodies'[k] = custodies[k]
    BY <1>1, <1>3, <2>1 DEF ConfirmCustody, Custody
  <2>3. subsamples' = subsamples
    BY <1>3 DEF ConfirmCustody, intakeVars
  <2>4. /\ holding'[custodies[c].subsample].holder = u
        /\ holding'[custodies[c].subsample].place = custodies[c].place
        /\ \A x \in DOMAIN subsamples \ {custodies[c].subsample} :
             holding'[x] = holding[x]
    BY <1>1, <1>3, <2>1 DEF ConfirmCustody, Handover, Put
  <2>5. \A x \in DOMAIN subsamples \ {custodies[c].subsample} :
          \A v : Receipts(x, v)' = Receipts(x, v)
    BY <2>2
  <2>6. u # None
    BY StoreAssumption
  <2> QED
    BY <2>1, <2>2, <2>3, <2>4, <2>5, <2>6
<1> QED
  BY <1>2, <1>3 DEF CustodyNext

\* No step unsettles CustodyInv.
LEMMA CustodyInvNext == TypeOK /\ CustodyInv /\ [Next]_vars => CustodyInv'
<1>1. CustodyInv /\ UNCHANGED <<intakeVars, custodyVars>> => CustodyInv'
  BY DEF CustodyInv, HolderConfirmedReceipt, Receipts, intakeVars, custodyVars
<1> QED
  BY <1>1, CustodyInvIntake, CustodyInvCustody, TestingFrame, CertificationFrame
  DEF Next, vars

\* Whoever holds a subsample confirmed a transfer that put it where it is.
THEOREM HolderConfirmed == Spec => []HolderConfirmedReceipt
<1>1. Init => CustodyInv
  BY DEF Init, CustodyInv, HolderConfirmedReceipt, NoEntries
<1>2. CustodyInv => HolderConfirmedReceipt
  BY DEF CustodyInv
<1> QED
  BY <1>1, <1>2, CustodyInvNext, TypeCorrect, PTL DEF Spec

\* The facts of the trail about a transfer agree with the transfer, and it has
\* none before there is such a transfer.
TransferInv ==
  /\ TwoPartyTransfer
  /\ \A c \in CustodyId \ DOMAIN custodies : \A u \in Users :
       ~Audited(u, "initiate", c) /\ ~Audited(u, "confirm", c)

\* Initiating a transfer is the first fact about it, confirming it the second.
LEMMA TransferInvCustody == TypeOK /\ TransferInv /\ CustodyNext => TransferInv'
<1> SUFFICES ASSUME TypeOK, TransferInv, CustodyNext PROVE TransferInv'
  OBVIOUS
<1> USE DEF TransferInv, TwoPartyTransfer
<1>1. /\ DOMAIN custodies \subseteq CustodyId
      /\ \A c \in DOMAIN custodies : custodies[c] \in Custody
  BY DEF TypeOK, IsMap
<1>2. ASSUME NEW u \in Users, NEW c \in Fresh(CustodyId, custodies),
             NEW x \in DOMAIN subsamples, NEW to \in Users \cup {None},
             NEW place \in Location, CreateCustody(u, c, x, to, place)
      PROVE  TransferInv'
  <2>1. c \in CustodyId \ DOMAIN custodies
    BY DEF Fresh
  <2>2. /\ DOMAIN custodies' = DOMAIN custodies \cup {c}
        /\ custodies'[c].status = "pending"
        /\ custodies'[c].from = u /\ custodies'[c].to = to /\ to # u
        /\ \A k \in DOMAIN custodies : custodies'[k] = custodies[k]
    BY <1>2, <2>1 DEF CreateCustody, Put
  <2>3. \A v, k : /\ Audited(v, "initiate", k)' <=>
                       Audited(v, "initiate", k) \/ (v = u /\ k = c)
                  /\ Audited(v, "confirm", k)' <=> Audited(v, "confirm", k)
    BY <1>2 DEF CreateCustody, Audit, Audited
  <2>4. \A k \in DOMAIN custodies : k # c
    BY <2>1
  <2> QED
    BY <2>1, <2>2, <2>3, <2>4
<1>3. ASSUME NEW u \in Users, NEW c \in DOMAIN custodies, ConfirmCustody(u, c)
      PROVE  TransferInv'
  <2>1. custodies[c].to = u /\ custodies[c].status = "pending"
    BY <1>3 DEF ConfirmCustody, MayConfirm
  <2>2. /\ DOMAIN custodies' = DOMAIN custodies
        /\ custodies'[c].status = "confirmed" /\ custodies'[c].to = u
        /\ custodies'[c].from = custodies[c].from
        /\ \A k \in DOMAIN custodies \ {c} : custodies'[k] = custodies[k]
    BY <1>1, <1>3, <2>1 DEF ConfirmCustody, Custody
  <2>3. \A v, k : /\ Audited(v, "confirm", k)' <=>
                       Audited(v, "confirm", k) \/ (v = u /\ k = c)
                  /\ Audited(v, "initiate", k)' <=> Audited(v, "initiate", k)
    BY <1>3 DEF ConfirmCustody, Audit, Audited
  <2> QED
    BY <2>1, <2>2, <2>3
<1> QED
  BY <1>2, <1>3 DEF CustodyNext

\* The other layers write nothing about transfers.
LEMMA TransferTrail ==
  ASSUME IntakeNext \/ TestingNext \/ CertificationNext, NEW v, NEW o
  PROVE  /\ Audited(v, "initiate", o)' <=> Audited(v, "initiate", o)
         /\ Audited(v, "confirm", o)' <=> Audited(v, "confirm", o)
<1>1. ASSUME NEW A, Writes(A), "initiate" \notin A, "confirm" \notin A
      PROVE  /\ Audited(v, "initiate", o)' <=> Audited(v, "initiate", o)
             /\ Audited(v, "confirm", o)' <=> Audited(v, "confirm", o)
  BY <1>1, WritesNothingElse
<1>2. CASE IntakeNext
  BY <1>1, <1>2, IntakeWrites
<1>3. CASE MethodNext
  BY <1>1, <1>3, MethodWrites
<1>4. CASE CreateTaskNext
  BY <1>1, <1>4, CreateTaskWrites
<1>5. CASE TaskNext
  BY <1>1, <1>5, TaskWrites
<1>6. CASE RetestNext
  BY <1>1, <1>6, RetestWrites
<1>7. CASE CertificationNext
  BY <1>1, <1>7, CertificationWrites
<1> QED
  BY <1>2, <1>3, <1>4, <1>5, <1>6, <1>7 DEF TestingNext

\* No step unsettles TransferInv.
LEMMA TransferInvNext == TypeOK /\ TransferInv /\ [Next]_vars => TransferInv'
<1> SUFFICES ASSUME TypeOK, TransferInv, [Next]_vars PROVE TransferInv'
  OBVIOUS
<1>1. ASSUME UNCHANGED custodies,
             \A v, o : /\ Audited(v, "initiate", o)' <=> Audited(v, "initiate", o)
                       /\ Audited(v, "confirm", o)' <=> Audited(v, "confirm", o)
      PROVE  TransferInv'
  BY <1>1 DEF TransferInv, TwoPartyTransfer
<1>2. CASE IntakeNext \/ TestingNext \/ CertificationNext
  <2>1. UNCHANGED custodies
    BY <1>2, IntakeFrame, TestingFrame, CertificationFrame DEF custodyVars
  <2>2. \A v, o : /\ Audited(v, "initiate", o)' <=> Audited(v, "initiate", o)
                  /\ Audited(v, "confirm", o)' <=> Audited(v, "confirm", o)
    BY <1>2, TransferTrail
  <2> QED
    BY <1>1, <2>1, <2>2
<1>3. CASE CustodyNext
  BY <1>3, TransferInvCustody
<1>4. CASE UNCHANGED vars
  BY <1>1, <1>4 DEF vars, custodyVars, Audited
<1> QED
  BY <1>2, <1>3, <1>4 DEF Next

\* Both parties of a transfer are on the trail, and nobody else.
THEOREM TwoParties == Spec => []TwoPartyTransfer
<1>1. Init => TransferInv
  BY DEF Init, TransferInv, TwoPartyTransfer, NoEntries, Audited
<1>2. TransferInv => TwoPartyTransfer
  BY DEF TransferInv
<1> QED
  BY <1>1, <1>2, TransferInvNext, TypeCorrect, PTL DEF Spec

\* Nothing but a confirmation moves a subsample, and it moves it as the
\* confirmed transfer says.
THEOREM MovedByConfirmation == Spec => HandoverByConfirmation
<1> DEFINE Moved(x) ==
             \E c \in DOMAIN custodies :
               /\ custodies[c].status = "pending"
               /\ custodies'[c].status = "confirmed"
               /\ custodies[c].subsample = x
               /\ holding'[x] = [holder |-> custodies[c].to,
                                 place |-> custodies[c].place]
           Orderly ==
             /\ \A x \in DOMAIN subsamples : holding'[x] # holding[x] => Moved(x)
             /\ \A c \in DOMAIN custodies :
                  custodies[c].status = "confirmed" => custodies'[c] = custodies[c]
<1>1. TypeOK /\ IntakeNext => Orderly
  <2> SUFFICES ASSUME TypeOK, IntakeNext PROVE Orderly
    OBVIOUS
  <2>1. custodies' = custodies
    BY IntakeFrame
  <2>2. \A x \in DOMAIN subsamples : holding'[x] = holding[x]
    <3>1. ASSUME NEW u \in Users, NEW s \in DOMAIN samples, NEW loss, NEW explained,
                 NEW new \in SUBSET Fresh(SubsampleId, subsamples),
                 NEW parts \in [new -> Part],
                 SplitSample(u, s, parts, loss, explained)
          PROVE  \A x \in DOMAIN subsamples : holding'[x] = holding[x]
      <4>1. \A x \in DOMAIN subsamples : x \notin DOMAIN parts
        BY DEF Fresh
      <4> QED
        BY <3>1, <4>1 DEF SplitSample, PutAll, TypeOK
    <3>2. ASSUME NEW u, NEW r, NEW s, NEW total, NEW complete,
                 \/ CreateRequest(u, r, complete) \/ UpdateRequest(u, r, complete)
                 \/ SubmitRequest(u, r, s, total) \/ RefuseSubmit(u, r, total)
          PROVE  holding' = holding
      BY <3>2 DEF CreateRequest, UpdateRequest, SubmitRequest, RefuseSubmit,
                  custodyVars
    <3> QED
      BY <3>1, <3>2 DEF IntakeNext
  <2> QED
    BY <2>1, <2>2
<1>2. TypeOK /\ CustodyNext => Orderly
  <2> SUFFICES ASSUME TypeOK, CustodyNext PROVE Orderly
    OBVIOUS
  <2>1. ASSUME NEW u \in Users, NEW c \in Fresh(CustodyId, custodies),
               NEW x \in DOMAIN subsamples, NEW to \in Users \cup {None},
               NEW place \in Location, CreateCustody(u, c, x, to, place)
        PROVE  Orderly
    BY <2>1 DEF CreateCustody, Put, Fresh
  <2>2. ASSUME NEW u \in Users, NEW c \in DOMAIN custodies, ConfirmCustody(u, c)
        PROVE  Orderly
    <3>1. custodies[c] \in Custody
      BY DEF TypeOK, IsMap
    <3>2. custodies[c].to = u /\ custodies[c].status = "pending"
      BY <2>2 DEF ConfirmCustody, MayConfirm
    <3>3. /\ custodies'[c].status = "confirmed"
          /\ \A k \in DOMAIN custodies \ {c} : custodies'[k] = custodies[k]
      BY <2>2, <3>1 DEF ConfirmCustody, Custody
    <3>4. /\ holding'[custodies[c].subsample]
               = [holder |-> custodies[c].to, place |-> custodies[c].place]
          /\ \A x \in DOMAIN subsamples \ {custodies[c].subsample} :
               holding'[x] = holding[x]
      BY <2>2, <3>2 DEF ConfirmCustody, Handover, Put, TypeOK
    <3> QED
      BY <3>2, <3>3, <3>4
  <2> QED
    BY <2>1, <2>2 DEF CustodyNext
<1>3. UNCHANGED custodyVars => Orderly
  BY DEF custodyVars
<1>4. TypeOK /\ [Next]_vars => [Orderly]_vars
  BY <1>1, <1>2, <1>3, TestingFrame, CertificationFrame DEF Next, vars
<1> QED
  BY <1>4, TypeCorrect, PTL DEF Spec, HandoverByConfirmation

-----------------------------------------------------------------------------
(* Testing.                                                                 *)

\* Versions are compared after the default is filled in, so they stay unique.
LEMMA VersionsTesting ==
  TypeOK /\ MethodVersionsUnique /\ TestingNext => MethodVersionsUnique'
<1> SUFFICES ASSUME TypeOK, MethodVersionsUnique, TestingNext
             PROVE  MethodVersionsUnique'
  OBVIOUS
<1> USE DEF MethodVersionsUnique
<1>1. ASSUME NEW u \in Users, NEW m \in Fresh(MethodId, methods), NEW code,
             NEW version, NEW valid, CreateMethod(u, m, code, version, valid)
      PROVE  MethodVersionsUnique'
  <2>1. m \notin DOMAIN methods
    BY DEF Fresh
  <2>2. /\ DOMAIN methods' = DOMAIN methods \cup {m}
        /\ methods'[m].code = code /\ methods'[m].version = Version(version)
        /\ \A k \in DOMAIN methods : methods'[k] = methods[k]
    BY <1>1, <2>1 DEF CreateMethod, Put
  <2>3. \A k \in DOMAIN methods :
          ~(methods[k].code = code /\ methods[k].version = Version(version))
    BY <1>1 DEF CreateMethod, Taken
  <2> QED
    BY <2>1, <2>2, <2>3
<1>2. ASSUME NEW u \in Users, NEW m \in DOMAIN methods, PublishMethod(u, m)
      PROVE  MethodVersionsUnique'
  <2>1. /\ DOMAIN methods' = DOMAIN methods
        /\ \A k \in DOMAIN methods : /\ methods'[k].code = methods[k].code
                                     /\ methods'[k].version = methods[k].version
    BY <1>2 DEF PublishMethod, TypeOK, IsMap, Method
  <2> QED
    BY <2>1
<1>3. CreateTaskNext \/ TaskNext \/ RetestNext => UNCHANGED methods
  <2>1. CreateTaskNext => UNCHANGED methods
    BY DEF CreateTaskNext, BeginCreateTask, FinishCreateTask, AbandonCreateTask
  <2>2. TaskNext => UNCHANGED methods
    BY DEF TaskNext, StartTask, SaveRound, SubmitReview, Review
  <2>3. RetestNext => UNCHANGED methods
    BY DEF RetestNext, BeginRetest, FinishRetest
  <2> QED
    BY <2>1, <2>2, <2>3
<1> QED
  BY <1>1, <1>2, <1>3 DEF TestingNext, MethodNext

\* No two methods have the same code and version.
THEOREM VersionsUnique == Spec => []MethodVersionsUnique
<1>1. Init => MethodVersionsUnique
  BY DEF Init, MethodVersionsUnique
<1>2. TypeOK /\ MethodVersionsUnique /\ [Next]_vars => MethodVersionsUnique'
  <2>1. MethodVersionsUnique /\ UNCHANGED methods => MethodVersionsUnique'
    BY DEF MethodVersionsUnique
  <2> QED
    BY <2>1, VersionsTesting, IntakeFrame, CustodyFrame, CertificationFrame
    DEF Next, vars, testingVars
<1> QED
  BY <1>1, <1>2, TypeCorrect, PTL DEF Spec

\* A call of CreateTask in flight carries an untouched task under an ID that
\* no stored task has.
CallsPending ==
  \A t \in DOMAIN creating :
    /\ t \notin DOMAIN tasks
    /\ creating[t].task.executor = None /\ creating[t].task.round = 0
    /\ creating[t].task.status = "pending"

\* The steps that work on stored tasks keep the set of them and the calls.
LEMMA TaskFrame ==
  TaskNext \/ RetestNext \/ MethodNext =>
    DOMAIN tasks' = DOMAIN tasks /\ creating' = creating
<1>1. TaskNext => DOMAIN tasks' = DOMAIN tasks /\ creating' = creating
  BY DEF TaskNext, StartTask, SaveRound, SubmitReview, Review
<1>2. RetestNext => DOMAIN tasks' = DOMAIN tasks /\ creating' = creating
  BY DEF RetestNext, BeginRetest, FinishRetest
<1>3. MethodNext => DOMAIN tasks' = DOMAIN tasks /\ creating' = creating
  BY DEF MethodNext, CreateMethod, PublishMethod
<1> QED
  BY <1>1, <1>2, <1>3

\* No work on a task changes what it tests, by which method, or who is to do it.
LEMMA TaskKeeps ==
  ASSUME TypeOK, TaskNext, NEW t \in DOMAIN tasks
  PROVE  /\ tasks'[t].method = tasks[t].method
         /\ tasks'[t].version = tasks[t].version
         /\ tasks'[t].subsample = tasks[t].subsample
         /\ tasks'[t].assignee = tasks[t].assignee
         /\ tasks'[t].request = tasks[t].request
<1> DEFINE Same == /\ tasks'[t].method = tasks[t].method
                   /\ tasks'[t].version = tasks[t].version
                   /\ tasks'[t].subsample = tasks[t].subsample
                   /\ tasks'[t].assignee = tasks[t].assignee
                   /\ tasks'[t].request = tasks[t].request
<1>1. \A k \in DOMAIN tasks : tasks[k] \in Task
  BY DEF TypeOK, IsMap
<1>2. ASSUME NEW u, NEW k \in DOMAIN tasks, StartTask(u, k)
      PROVE  Same
  BY <1>1, <1>2 DEF StartTask, Task
<1>3. ASSUME NEW u, NEW k \in DOMAIN tasks, SubmitReview(u, k)
      PROVE  Same
  BY <1>1, <1>3 DEF SubmitReview, Task
<1>4. ASSUME NEW u, NEW k \in DOMAIN tasks, NEW decision, Review(u, k, decision)
      PROVE  Same
  BY <1>1, <1>4 DEF Review, Task
<1>5. ASSUME NEW u, NEW k, NEW d, NEW result, SaveRound(u, k, d, result)
      PROVE  Same
  BY <1>5 DEF SaveRound
<1> QED
  BY <1>2, <1>3, <1>4, <1>5 DEF TaskNext

\* No step unsettles CallsPending.
LEMMA CallsNext == CallsPending /\ [Next]_vars => CallsPending'
<1> USE DEF CallsPending
<1>1. CallsPending /\ CreateTaskNext => CallsPending'
  <2> SUFFICES ASSUME CallsPending, CreateTaskNext PROVE CallsPending'
    OBVIOUS
  <2>1. ASSUME NEW u \in Users,
               NEW t \in Fresh(TaskId, tasks) \cap Fresh(TaskId, creating),
               NEW r, NEW x, NEW m, NEW assignee,
               BeginCreateTask(u, t, r, x, m, assignee)
        PROVE  CallsPending'
    BY <2>1 DEF BeginCreateTask, Put, Fresh
  <2>2. ASSUME NEW t \in DOMAIN creating,
               FinishCreateTask(t) \/ AbandonCreateTask(t)
        PROVE  CallsPending'
    BY <2>2 DEF FinishCreateTask, AbandonCreateTask, Put, Remove
  <2> QED
    BY <2>1, <2>2 DEF CreateTaskNext
<1>2. CallsPending /\ UNCHANGED <<tasks, creating>> => CallsPending'
  OBVIOUS
<1>3. CallsPending /\ TestingNext => CallsPending'
  BY <1>1, TaskFrame DEF TestingNext
<1> QED
  BY <1>2, <1>3, IntakeFrame, CustodyFrame, CertificationFrame
  DEF Next, vars, testingVars

\* That calls carry untouched tasks holds at all times.
LEMMA CallsCorrect == Spec => []CallsPending
<1>1. Init => CallsPending
  BY DEF Init, CallsPending, NoEntries
<1> QED
  BY <1>1, CallsNext, PTL DEF Spec

\* Publishing needs a valid method, so whatever is published is valid.
MethodInv ==
  /\ TaskMethodPublished
  /\ \A m \in DOMAIN methods : methods[m].status = "published" => methods[m].valid

\* Neither a new draft, nor a publication, nor a split takes the ground from
\* under a task.
LEMMA FoundedStays ==
  ASSUME TypeOK, Next, NEW task, Founded(task)
  PROVE  Founded(task)'
<1>1. DOMAIN subsamples \subseteq DOMAIN subsamples'
  <2>1. IntakeNext => DOMAIN subsamples \subseteq DOMAIN subsamples'
    <3>1. \A u, s, parts, loss, explained :
            SplitSample(u, s, parts, loss, explained)
              => DOMAIN subsamples \subseteq DOMAIN subsamples'
      BY DEF SplitSample, PutAll
    <3>2. \A u, r, complete :
            CreateRequest(u, r, complete) \/ UpdateRequest(u, r, complete)
              => subsamples' = subsamples
      BY DEF CreateRequest, UpdateRequest
    <3>3. \A u, r, s, total : SubmitRequest(u, r, s, total) => subsamples' = subsamples
      BY DEF SubmitRequest
    <3>4. \A u, r, total : RefuseSubmit(u, r, total) => subsamples' = subsamples
      BY DEF RefuseSubmit
    <3> QED
      BY <3>1, <3>2, <3>3, <3>4 DEF IntakeNext
  <2> QED
    BY <2>1, CustodyFrame, TestingFrame, CertificationFrame DEF Next, intakeVars
<1>2. \A m \in DOMAIN methods :
        /\ m \in DOMAIN methods'
        /\ methods'[m].valid = methods[m].valid
        /\ methods'[m].version = methods[m].version
        /\ methods[m].status = "published" => methods'[m].status = "published"
  <2>1. ASSUME NEW u, NEW k \in Fresh(MethodId, methods), NEW code, NEW version,
               NEW valid, CreateMethod(u, k, code, version, valid)
        PROVE  \A m \in DOMAIN methods :
                 m \in DOMAIN methods' /\ methods'[m] = methods[m]
    BY <2>1 DEF CreateMethod, Put, Fresh
  <2>2. ASSUME NEW u, NEW k \in DOMAIN methods, PublishMethod(u, k)
        PROVE  \A m \in DOMAIN methods :
                 /\ m \in DOMAIN methods'
                 /\ methods'[m].valid = methods[m].valid
                 /\ methods'[m].version = methods[m].version
                 /\ methods[m].status = "published" =>
                      methods'[m].status = "published"
    BY <2>2 DEF PublishMethod, TypeOK, IsMap, Method
  <2>3. CreateTaskNext => UNCHANGED methods
    BY DEF CreateTaskNext, BeginCreateTask, FinishCreateTask, AbandonCreateTask
  <2>4. TaskNext \/ RetestNext => UNCHANGED methods
    BY DEF TaskNext, StartTask, SaveRound, SubmitReview, Review,
           RetestNext, BeginRetest, FinishRetest
  <2>5. CASE MethodNext
    BY <2>1, <2>2, <2>5 DEF MethodNext
  <2>6. CASE UNCHANGED methods
    BY <2>6
  <2> QED
    BY <2>3, <2>4, <2>5, <2>6, IntakeFrame, CustodyFrame, CertificationFrame
    DEF Next, TestingNext, testingVars
<1> QED
  BY <1>1, <1>2 DEF Founded

\* No step unsettles MethodInv.
LEMMA MethodInvNext == TypeOK /\ MethodInv /\ [Next]_vars => MethodInv'
<1>1. MethodInv /\ UNCHANGED vars => MethodInv'
  BY DEF MethodInv, TaskMethodPublished, Founded, vars, intakeVars, testingVars
<1> SUFFICES ASSUME TypeOK, MethodInv, Next PROVE MethodInv'
  BY <1>1
<1>2. /\ \A t \in DOMAIN tasks : Founded(tasks[t])
      /\ \A t \in DOMAIN creating : Founded(creating[t].task)
      /\ \A m \in DOMAIN methods : methods[m].status = "published" => methods[m].valid
  BY DEF MethodInv, TaskMethodPublished
<1>3. \A m \in DOMAIN methods' : methods'[m].status = "published" => methods'[m].valid
  <2>1. ASSUME NEW u, NEW k \in Fresh(MethodId, methods), NEW code, NEW version,
               NEW valid, CreateMethod(u, k, code, version, valid)
        PROVE  \A m \in DOMAIN methods' :
                 methods'[m].status = "published" => methods'[m].valid
    BY <1>2, <2>1 DEF CreateMethod, Put, Fresh
  <2>2. ASSUME NEW u, NEW k \in DOMAIN methods, PublishMethod(u, k)
        PROVE  \A m \in DOMAIN methods' :
                 methods'[m].status = "published" => methods'[m].valid
    BY <1>2, <2>2 DEF PublishMethod, TypeOK, IsMap, Method
  <2>3. CreateTaskNext \/ TaskNext \/ RetestNext => UNCHANGED methods
    BY DEF CreateTaskNext, BeginCreateTask, FinishCreateTask, AbandonCreateTask,
           TaskNext, StartTask, SaveRound, SubmitReview, Review,
           RetestNext, BeginRetest, FinishRetest
  <2>4. CASE UNCHANGED methods
    BY <1>2, <2>4
  <2> QED
    BY <2>1, <2>2, <2>3, <2>4, IntakeFrame, CustodyFrame, CertificationFrame
    DEF Next, TestingNext, MethodNext, testingVars
<1>4. /\ \A t \in DOMAIN tasks' : Founded(tasks'[t])
      /\ \A t \in DOMAIN creating' : Founded(creating'[t].task)
  <2>1. ASSUME NEW u \in Users,
               NEW t \in Fresh(TaskId, tasks) \cap Fresh(TaskId, creating),
               NEW r, NEW x \in DOMAIN subsamples, NEW m \in DOMAIN methods,
               NEW assignee, BeginCreateTask(u, t, r, x, m, assignee)
        PROVE  <1>4!1 /\ <1>4!2
    BY <1>2, <2>1 DEF BeginCreateTask, Usable, Put, Fresh, Founded
  <2>2. ASSUME NEW t \in DOMAIN creating,
               FinishCreateTask(t) \/ AbandonCreateTask(t)
        PROVE  <1>4!1 /\ <1>4!2
    BY <1>2, <2>2 DEF FinishCreateTask, AbandonCreateTask, Put, Remove
  <2>3. ASSUME DOMAIN tasks' = DOMAIN tasks, creating' = creating,
               \A t \in DOMAIN tasks :
                 /\ tasks'[t].method = tasks[t].method
                 /\ tasks'[t].version = tasks[t].version
                 /\ tasks'[t].subsample = tasks[t].subsample
        PROVE  <1>4!1 /\ <1>4!2
    BY <1>2, <2>3 DEF Founded
  <2>4. CASE TaskNext
    BY <2>3, <2>4, TaskFrame, TaskKeeps
  <2>5. CASE UNCHANGED <<tasks, creating>>
    BY <1>2, <2>5
  <2>6. RetestNext \/ MethodNext => UNCHANGED <<tasks, creating>>
    BY DEF RetestNext, BeginRetest, FinishRetest, MethodNext, CreateMethod,
           PublishMethod
  <2> QED
    BY <2>1, <2>2, <2>4, <2>5, <2>6, IntakeFrame, CustodyFrame, CertificationFrame
    DEF Next, TestingNext, CreateTaskNext, testingVars
<1>5. /\ (\A t \in DOMAIN tasks : Founded(tasks[t]))'
      /\ (\A t \in DOMAIN creating : Founded(creating[t].task))'
  BY <1>4, FoundedStays DEF Founded
<1> QED
  BY <1>3, <1>5 DEF MethodInv, TaskMethodPublished

\* MethodInv holds at all times.
LEMMA MethodInvCorrect == Spec => []MethodInv
<1>1. Init => MethodInv
  BY DEF Init, MethodInv, TaskMethodPublished, NoEntries
<1> QED
  BY <1>1, MethodInvNext, TypeCorrect, PTL DEF Spec

\* The method of every task stays published and valid, although the checks and
\* the save of CreateTask are two steps.
THEOREM MethodPublished == Spec => []TaskMethodPublished
<1>1. MethodInv => TaskMethodPublished
  BY DEF MethodInv
<1> QED
  BY <1>1, MethodInvCorrect, PTL

\* A receipt is never undone.
LEMMA ReceiptsStay ==
  ASSUME TypeOK, [Next]_vars, NEW x, NEW u, Receipts(x, u) # {}
  PROVE  Receipts(x, u)' # {}
<1>1. PICK c \in DOMAIN custodies : c \in Receipts(x, u)
  BY DEF Receipts
<1>2. c \in DOMAIN custodies' /\ custodies'[c] = custodies[c] => c \in Receipts(x, u)'
  BY <1>1 DEF Receipts
<1>3. CustodyNext => c \in DOMAIN custodies' /\ custodies'[c] = custodies[c]
  <2>1. ASSUME NEW v, NEW k \in Fresh(CustodyId, custodies), NEW y, NEW to, NEW place,
               CreateCustody(v, k, y, to, place)
        PROVE  c \in DOMAIN custodies' /\ custodies'[c] = custodies[c]
    BY <1>1, <2>1 DEF CreateCustody, Put, Fresh
  <2>2. ASSUME NEW v, NEW k \in DOMAIN custodies, ConfirmCustody(v, k)
        PROVE  c \in DOMAIN custodies' /\ custodies'[c] = custodies[c]
    BY <1>1, <2>2 DEF ConfirmCustody, MayConfirm, Receipts
  <2> QED
    BY <2>1, <2>2 DEF CustodyNext
<1>4. UNCHANGED custodies \/ CustodyNext
  BY IntakeFrame, TestingFrame, CertificationFrame DEF Next, vars, custodyVars
<1> QED
  BY <1>1, <1>2, <1>3, <1>4

\* No step of testing makes an executor who did not receive the subsample.
LEMMA ReceiptTesting ==
  TypeOK /\ CallsPending /\ ExecutorConfirmedReceipt /\ TestingNext
    => ExecutorConfirmedReceipt'
<1> SUFFICES ASSUME TypeOK, CallsPending, ExecutorConfirmedReceipt, TestingNext
             PROVE  ExecutorConfirmedReceipt'
  OBVIOUS
<1> USE DEF ExecutorConfirmedReceipt
<1>1. \A t \in DOMAIN tasks : tasks[t] \in Task
  BY DEF TypeOK, IsMap
<1>2. \A x, u : Receipts(x, u)' = Receipts(x, u)
  BY TestingFrame DEF Receipts, custodyVars
<1>3. ASSUME NEW t \in DOMAIN creating, FinishCreateTask(t)
      PROVE  ExecutorConfirmedReceipt'
  <2>1. /\ DOMAIN tasks' = DOMAIN tasks \cup {t}
        /\ tasks'[t] = creating[t].task
        /\ \A k \in DOMAIN tasks \ {t} : tasks'[k] = tasks[k]
    BY <1>3 DEF FinishCreateTask, Put
  <2> QED
    BY <1>2, <2>1 DEF CallsPending
<1>4. ASSUME NEW u \in Users, NEW t \in DOMAIN tasks, StartTask(u, t)
      PROVE  ExecutorConfirmedReceipt'
  <2>1. tasks[t].assignee = u /\ Receipts(tasks[t].subsample, u) # {}
    BY <1>4 DEF StartTask, HasCustody
  <2>2. /\ DOMAIN tasks' = DOMAIN tasks
        /\ tasks'[t].status = "in_progress" /\ tasks'[t].executor = u
        /\ tasks'[t].assignee = u /\ tasks'[t].subsample = tasks[t].subsample
        /\ \A k \in DOMAIN tasks \ {t} : tasks'[k] = tasks[k]
    BY <1>1, <1>4, <2>1 DEF StartTask, Task
  <2> QED
    BY <1>2, <2>1, <2>2
<1>5. ASSUME NEW u \in Users, NEW t \in DOMAIN tasks,
             \/ SubmitReview(u, t)
             \/ \E decision \in {"review_approve", "review_return"} :
                  Review(u, t, decision)
      PROVE  ExecutorConfirmedReceipt'
  <2>1. tasks[t].status # "pending"
    BY <1>5 DEF SubmitReview, Review, MayReview
  <2>2. PICK status \in {"review", "approved", "rejected"} :
          tasks' = [tasks EXCEPT ![t].status = status]
    BY <1>5 DEF SubmitReview, Review, Verdict
  <2>3. /\ DOMAIN tasks' = DOMAIN tasks
        /\ tasks'[t].status # "pending"
        /\ tasks'[t].executor = tasks[t].executor
        /\ tasks'[t].assignee = tasks[t].assignee
        /\ tasks'[t].subsample = tasks[t].subsample
        /\ \A k \in DOMAIN tasks \ {t} : tasks'[k] = tasks[k]
    BY <1>1, <2>2 DEF Task
  <2> QED
    BY <1>2, <2>1, <2>3
<1>6. ASSUME UNCHANGED tasks
      PROVE  ExecutorConfirmedReceipt'
  BY <1>2, <1>6
<1>7. ASSUME NEW u, NEW t, NEW d, NEW result, SaveRound(u, t, d, result)
      PROVE  UNCHANGED tasks
  BY <1>7 DEF SaveRound
<1>8. ASSUME NEW u, NEW t, NEW r, NEW x, NEW m, NEW assignee,
             BeginCreateTask(u, t, r, x, m, assignee) \/ AbandonCreateTask(t)
      PROVE  UNCHANGED tasks
  BY <1>8 DEF BeginCreateTask, AbandonCreateTask
<1>9. MethodNext \/ RetestNext => UNCHANGED tasks
  BY DEF MethodNext, CreateMethod, PublishMethod, RetestNext, BeginRetest,
         FinishRetest
<1>10. CreateTaskNext => ExecutorConfirmedReceipt'
  BY <1>3, <1>6, <1>8 DEF CreateTaskNext
<1>11. TaskNext => ExecutorConfirmedReceipt'
  BY <1>4, <1>5, <1>6, <1>7 DEF TaskNext
<1> QED
  BY <1>6, <1>9, <1>10, <1>11 DEF TestingNext

\* No step makes an executor who did not receive the subsample.
LEMMA ReceiptNext ==
  TypeOK /\ CallsPending /\ ExecutorConfirmedReceipt /\ [Next]_vars
    => ExecutorConfirmedReceipt'
<1> SUFFICES ASSUME TypeOK, CallsPending, ExecutorConfirmedReceipt, [Next]_vars
             PROVE  ExecutorConfirmedReceipt'
  OBVIOUS
<1>1. ASSUME UNCHANGED tasks
      PROVE  ExecutorConfirmedReceipt'
  BY <1>1, ReceiptsStay DEF ExecutorConfirmedReceipt
<1> QED
  BY <1>1, ReceiptTesting, IntakeFrame, CustodyFrame, CertificationFrame
  DEF Next, vars, testingVars

\* Whoever executes a task is its assignee and confirmed receiving the
\* subsample.
THEOREM ExecutorReceived == Spec => []ExecutorConfirmedReceipt
<1>1. Init => ExecutorConfirmedReceipt
  BY DEF Init, ExecutorConfirmedReceipt, NoEntries
<1> QED
  BY <1>1, ReceiptNext, TypeCorrect, CallsCorrect, PTL DEF Spec

\* The trail names deciders only for tasks that exist.
ReviewInv ==
  /\ IndependentReview
  /\ \A t \in TaskId \ DOMAIN tasks : \A u \in Users :
       ~Audited(u, "review_approve", t) /\ ~Audited(u, "review_return", t)

\* A step leaves the decisions on tasks as the trail has them.
DecisionsKept ==
  \A u, t : /\ Audited(u, "review_approve", t)' <=> Audited(u, "review_approve", t)
            /\ Audited(u, "review_return", t)' <=> Audited(u, "review_return", t)

\* Only a review adds a decision.
LEMMA DecisionTrail ==
  /\ IntakeNext \/ CustodyNext \/ MethodNext \/ CreateTaskNext \/ RetestNext
       \/ CertificationNext => DecisionsKept
  /\ \A u, t : StartTask(u, t) \/ SubmitReview(u, t) => DecisionsKept
  /\ \A u, t, d, result : SaveRound(u, t, d, result) => DecisionsKept
<1>1. ASSUME NEW A, Writes(A), "review_approve" \notin A, "review_return" \notin A
      PROVE  DecisionsKept
  BY <1>1, WritesNothingElse DEF DecisionsKept
<1>2. CASE IntakeNext
  BY <1>1, <1>2, IntakeWrites
<1>3. CASE CustodyNext
  BY <1>1, <1>3, CustodyWrites
<1>4. CASE MethodNext
  BY <1>1, <1>4, MethodWrites
<1>5. CASE CreateTaskNext
  BY <1>1, <1>5, CreateTaskWrites
<1>6. CASE RetestNext
  BY <1>1, <1>6, RetestWrites
<1>7. CASE CertificationNext
  BY <1>1, <1>7, CertificationWrites
<1>8. ASSUME NEW u, NEW t, StartTask(u, t) \/ SubmitReview(u, t)
      PROVE  DecisionsKept
  <2>1. Writes({"start", "submit_review"})
    BY <1>8 DEF StartTask, SubmitReview, Writes
  <2> QED
    BY <1>1, <2>1
<1>9. ASSUME NEW u, NEW t, NEW d, NEW result, SaveRound(u, t, d, result)
      PROVE  DecisionsKept
  <2>1. Writes({"record"})
    BY <1>9 DEF SaveRound, Writes
  <2> QED
    BY <1>1, <2>1
<1>10. IntakeNext \/ CustodyNext \/ MethodNext \/ CreateTaskNext \/ RetestNext
         \/ CertificationNext => DecisionsKept
  BY <1>2, <1>3, <1>4, <1>5, <1>6, <1>7
<1> QED
  BY <1>8, <1>9, <1>10

\* A review is the first and only decision on its task, by somebody else than
\* the executor.
LEMMA ReviewInvTask ==
  TypeOK /\ ReviewInv /\ TaskNext => ReviewInv'
<1> SUFFICES ASSUME TypeOK, ReviewInv, TaskNext
             PROVE  ReviewInv'
  OBVIOUS
<1> USE DEF ReviewInv, IndependentReview
<1>1. /\ \A t \in DOMAIN tasks : tasks[t] \in Task
      /\ DOMAIN tasks \subseteq TaskId
  BY DEF TypeOK, IsMap
<1>2. ASSUME NEW u \in Users, NEW t \in DOMAIN tasks, StartTask(u, t)
      PROVE  ReviewInv'
  <2>1. tasks[t].status = "pending"
    BY <1>2 DEF StartTask
  <2>2. /\ DOMAIN tasks' = DOMAIN tasks
        /\ tasks'[t].status = "in_progress"
        /\ \A k \in DOMAIN tasks \ {t} : tasks'[k] = tasks[k]
    BY <1>1, <1>2 DEF StartTask, Task
  <2>3. DecisionsKept
    BY <1>2, DecisionTrail
  <2>4. \A v \in Users : /\ ~Audited(v, "review_approve", t)
                         /\ ~Audited(v, "review_return", t)
    BY <2>1
  <2> QED
    BY <2>2, <2>3, <2>4 DEF DecisionsKept
<1>3. ASSUME NEW u \in Users, NEW t \in DOMAIN tasks, SubmitReview(u, t)
      PROVE  ReviewInv'
  <2>1. tasks[t].status = "in_progress"
    BY <1>3 DEF SubmitReview
  <2>2. /\ DOMAIN tasks' = DOMAIN tasks
        /\ tasks'[t].status = "review"
        /\ \A k \in DOMAIN tasks \ {t} : tasks'[k] = tasks[k]
    BY <1>1, <1>3 DEF SubmitReview, Task
  <2>3. DecisionsKept
    BY <1>3, DecisionTrail
  <2>4. \A v \in Users : /\ ~Audited(v, "review_approve", t)
                         /\ ~Audited(v, "review_return", t)
    BY <2>1
  <2> QED
    BY <2>2, <2>3, <2>4 DEF DecisionsKept
<1>4. ASSUME NEW u, NEW t, NEW d, NEW result, SaveRound(u, t, d, result)
      PROVE  ReviewInv'
  <2>1. UNCHANGED tasks
    BY <1>4 DEF SaveRound
  <2>2. DecisionsKept
    BY <1>4, DecisionTrail
  <2> QED
    BY <2>1, <2>2 DEF DecisionsKept
<1>5. ASSUME NEW u \in Users, NEW t \in DOMAIN tasks,
             NEW decision \in {"review_approve", "review_return"},
             Review(u, t, decision)
      PROVE  ReviewInv'
  <2>1. /\ RoleOf[u] \in Reviewing /\ u # tasks[t].executor
        /\ tasks[t].status = "review"
    BY <1>5 DEF Review, MayReview, Require
  <2>2. \A v \in Users : /\ ~Audited(v, "review_approve", t)
                         /\ ~Audited(v, "review_return", t)
    BY <2>1
  <2>3. /\ DOMAIN tasks' = DOMAIN tasks
        /\ tasks'[t].status = Verdict(decision)
        /\ tasks'[t].executor = tasks[t].executor
        /\ \A k \in DOMAIN tasks \ {t} : tasks'[k] = tasks[k]
    BY <1>1, <1>5 DEF Review, Task
  <2>4. \A v, k, b : Audited(v, b, k)' <=>
                       Audited(v, b, k) \/ (v = u /\ k = t /\ b = decision)
    BY <1>5 DEF Review, Audit, Audited
  <2>5. CASE decision = "review_approve"
    BY <2>1, <2>2, <2>3, <2>4, <2>5 DEF Verdict
  <2>6. CASE decision = "review_return"
    BY <2>1, <2>2, <2>3, <2>4, <2>6 DEF Verdict
  <2> QED
    BY <2>5, <2>6
<1> QED
  BY <1>2, <1>3, <1>4, <1>5 DEF TaskNext

\* A new task has no decisions yet.
LEMMA ReviewInvCreate ==
  TypeOK /\ CallsPending /\ ReviewInv /\ CreateTaskNext => ReviewInv'
<1> SUFFICES ASSUME TypeOK, CallsPending, ReviewInv, CreateTaskNext
             PROVE  ReviewInv'
  OBVIOUS
<1> USE DEF ReviewInv, IndependentReview
<1>1. DecisionsKept
  BY DecisionTrail
<1>2. ASSUME NEW t \in DOMAIN creating, FinishCreateTask(t)
      PROVE  ReviewInv'
  <2>1. t \in TaskId \ DOMAIN tasks /\ creating[t].task.status = "pending"
    BY DEF TypeOK, IsMap, CallsPending
  <2>2. /\ DOMAIN tasks' = DOMAIN tasks \cup {t}
        /\ tasks'[t].status = "pending"
        /\ \A k \in DOMAIN tasks : tasks'[k] = tasks[k]
    BY <1>2, <2>1 DEF FinishCreateTask, Put
  <2>3. \A v \in Users : /\ ~Audited(v, "review_approve", t)
                         /\ ~Audited(v, "review_return", t)
    BY <2>1
  <2> QED
    BY <1>1, <2>2, <2>3 DEF DecisionsKept
<1>3. ASSUME NEW u, NEW t, NEW r, NEW x, NEW m, NEW assignee,
             BeginCreateTask(u, t, r, x, m, assignee) \/ AbandonCreateTask(t)
      PROVE  UNCHANGED tasks
  BY <1>3 DEF BeginCreateTask, AbandonCreateTask
<1>4. ASSUME UNCHANGED tasks
      PROVE  ReviewInv'
  BY <1>1, <1>4 DEF DecisionsKept
<1> QED
  BY <1>2, <1>3, <1>4 DEF CreateTaskNext

\* No step unsettles ReviewInv.
LEMMA ReviewInvNext ==
  ASSUME TypeOK, CallsPending, ReviewInv, [Next]_vars
  PROVE  ReviewInv'
<1>1. ASSUME UNCHANGED tasks, DecisionsKept
      PROVE  ReviewInv'
  BY <1>1 DEF ReviewInv, IndependentReview, DecisionsKept
<1>2. CASE IntakeNext \/ CustodyNext \/ CertificationNext
  BY <1>1, <1>2, DecisionTrail, IntakeFrame, CustodyFrame, CertificationFrame
  DEF testingVars
<1>3. MethodNext \/ RetestNext => UNCHANGED tasks
  BY DEF MethodNext, CreateMethod, PublishMethod, RetestNext, BeginRetest,
         FinishRetest
<1>4. CASE TestingNext
  BY <1>1, <1>3, <1>4, DecisionTrail, ReviewInvTask, ReviewInvCreate
  DEF TestingNext
<1>5. CASE UNCHANGED vars
  BY <1>1, <1>5 DEF vars, testingVars, DecisionsKept, Audited
<1> QED
  BY <1>2, <1>4, <1>5 DEF Next

\* ReviewInv holds at all times.
LEMMA ReviewInvCorrect == Spec => []ReviewInv
<1>1. Init => ReviewInv
  BY DEF Init, ReviewInv, IndependentReview, NoEntries, Audited
<1> QED
  BY <1>1, ReviewInvNext, TypeCorrect, CallsCorrect, PTL DEF Spec

\* Nobody decides on work of their own, and no verdict exists without a
\* decision on the trail.
THEOREM ReviewIndependent == Spec => []IndependentReview
<1>1. ReviewInv => IndependentReview
  BY DEF ReviewInv
<1> QED
  BY <1>1, ReviewInvCorrect, PTL

\* Rounds count from one once a task is started, and retest requests, also
\* those about to be saved, are about tasks that exist.
RoundsInv ==
  /\ RoundsBelongToExecutor
  /\ \A t \in DOMAIN tasks : tasks[t].status # "pending" => tasks[t].round >= 1
  /\ \A q \in DOMAIN retests : retests[q].task \in DOMAIN tasks
  /\ \A q \in DOMAIN retesting :
       /\ retesting[q].task \in DOMAIN tasks
       /\ retesting[q].round \in 1..tasks[retesting[q].task].round

\* Starting, recording, submitting and reviewing keep rounds with their task.
LEMMA RoundsInvTask ==
  TypeOK /\ ExecutorConfirmedReceipt /\ RoundsInv /\ TaskNext => RoundsInv'
<1> SUFFICES ASSUME TypeOK, ExecutorConfirmedReceipt, RoundsInv, TaskNext
             PROVE  RoundsInv'
  OBVIOUS
<1> USE DEF RoundsInv, RoundsBelongToExecutor, RoundsOf
<1>1. \A t \in DOMAIN tasks : tasks[t] \in Task /\ tasks[t].round \in Nat
  BY DEF TypeOK, IsMap, Task
<1>2. ASSUME NEW u \in Users, NEW t \in DOMAIN tasks, StartTask(u, t)
      PROVE  RoundsInv'
  <2>1. tasks[t].round = 0
    BY <1>2 DEF StartTask, ExecutorConfirmedReceipt
  <2>2. /\ \A d \in DOMAIN rounds : rounds[d].task # t
        /\ \A q \in DOMAIN retests : retests[q].task # t
        /\ \A q \in DOMAIN retesting : retesting[q].task # t
    BY <2>1
  <2>3. /\ DOMAIN tasks' = DOMAIN tasks
        /\ tasks'[t].status = "in_progress" /\ tasks'[t].round = 1
        /\ \A k \in DOMAIN tasks \ {t} : tasks'[k] = tasks[k]
    BY <1>1, <1>2 DEF StartTask, Task
  <2>4. UNCHANGED <<rounds, retests, retesting>>
    BY <1>2 DEF StartTask
  <2> QED
    BY <2>2, <2>3, <2>4
<1>3. ASSUME NEW u \in Users, NEW t \in DOMAIN tasks,
             NEW d \in Fresh(RoundId, rounds), NEW result,
             SaveRound(u, t, d, result)
      PROVE  RoundsInv'
  <2>1. tasks[t].status = "in_progress" /\ tasks[t].executor = u
    BY <1>3 DEF SaveRound, MayRecord
  <2>2. tasks[t].round \in 1..tasks[t].round
    BY <1>1, <2>1
  <2>3. /\ DOMAIN rounds' = DOMAIN rounds \cup {d} /\ d \notin DOMAIN rounds
        /\ rounds'[d].task = t /\ rounds'[d].number = tasks[t].round
        /\ rounds'[d].by = u
        /\ \A e \in DOMAIN rounds : rounds'[e] = rounds[e]
    BY <1>3 DEF SaveRound, Put, Fresh
  <2>4. UNCHANGED <<tasks, retests, retesting>>
    BY <1>3 DEF SaveRound
  <2> QED
    BY <2>1, <2>2, <2>3, <2>4
<1>4. ASSUME NEW t \in DOMAIN tasks, NEW status \in {"review", "approved", "rejected"},
             tasks' = [tasks EXCEPT ![t].status = status],
             UNCHANGED <<rounds, retests, retesting>>,
             tasks[t].status # "pending",
             \E d \in RoundsOf(t) : rounds[d].number = tasks[t].round
      PROVE  RoundsInv'
  <2>1. /\ DOMAIN tasks' = DOMAIN tasks
        /\ tasks'[t].status = status
        /\ tasks'[t].round = tasks[t].round
        /\ tasks'[t].executor = tasks[t].executor
        /\ \A k \in DOMAIN tasks \ {t} : tasks'[k] = tasks[k]
    BY <1>1, <1>4 DEF Task
  <2> QED
    BY <1>4, <2>1
<1>5. ASSUME NEW u \in Users, NEW t \in DOMAIN tasks, SubmitReview(u, t)
      PROVE  RoundsInv'
  <2>1. tasks[t].status # "pending"
    BY <1>5 DEF SubmitReview
  <2> QED
    BY <1>4, <1>5, <2>1 DEF SubmitReview
<1>6. ASSUME NEW u \in Users, NEW t \in DOMAIN tasks,
             NEW decision \in {"review_approve", "review_return"},
             Review(u, t, decision)
      PROVE  RoundsInv'
  <2>1. tasks[t].status = "review"
    BY <1>6 DEF Review, MayReview
  <2>2. \E d \in RoundsOf(t) : rounds[d].number = tasks[t].round
    BY <2>1
  <2> QED
    BY <1>4, <1>6, <2>1, <2>2 DEF Review, Verdict
<1> QED
  BY <1>2, <1>3, <1>5, <1>6 DEF TaskNext

\* A retest request names a round its task had reached, however late it is saved.
LEMMA RoundsInvRetest ==
  TypeOK /\ ExecutorConfirmedReceipt /\ RoundsInv /\ RetestNext => RoundsInv'
<1> SUFFICES ASSUME TypeOK, ExecutorConfirmedReceipt, RoundsInv, RetestNext
             PROVE  RoundsInv'
  OBVIOUS
<1> USE DEF RoundsInv, RoundsBelongToExecutor, RoundsOf
<1>1. ASSUME NEW u \in Users, NEW t \in DOMAIN tasks,
             NEW q \in Fresh(RetestId, retests) \cap Fresh(RetestId, retesting),
             BeginRetest(u, t, q)
      PROVE  RoundsInv'
  <2>1. tasks[t].executor = u /\ u # None
    BY <1>1, StoreAssumption DEF BeginRetest
  <2>2. tasks[t].round \in Nat /\ tasks[t].round >= 1
    BY <2>1 DEF ExecutorConfirmedReceipt, TypeOK, IsMap, Task
  <2>3. /\ DOMAIN retesting' = DOMAIN retesting \cup {q}
        /\ retesting'[q].task = t /\ retesting'[q].round = tasks[t].round
        /\ \A k \in DOMAIN retesting \ {q} : retesting'[k] = retesting[k]
    BY <1>1 DEF BeginRetest, Put
  <2>4. UNCHANGED <<tasks, rounds, retests>>
    BY <1>1 DEF BeginRetest
  <2> QED
    BY <2>2, <2>3, <2>4
<1>2. ASSUME NEW q \in DOMAIN retesting, FinishRetest(q)
      PROVE  RoundsInv'
  <2>1. /\ DOMAIN retests' = DOMAIN retests \cup {q}
        /\ retests'[q] = retesting[q]
        /\ \A k \in DOMAIN retests \ {q} : retests'[k] = retests[k]
        /\ DOMAIN retesting' \subseteq DOMAIN retesting
        /\ \A k \in DOMAIN retesting' : retesting'[k] = retesting[k]
    BY <1>2 DEF FinishRetest, Put, Remove
  <2>2. UNCHANGED <<tasks, rounds>>
    BY <1>2 DEF FinishRetest
  <2> QED
    BY <2>1, <2>2
<1> QED
  BY <1>1, <1>2 DEF RetestNext

\* A task that is added has no rounds and no retests yet.
LEMMA RoundsInvCreate ==
  CallsPending /\ RoundsInv /\ CreateTaskNext => RoundsInv'
<1> SUFFICES ASSUME CallsPending, RoundsInv, CreateTaskNext
             PROVE  RoundsInv'
  OBVIOUS
<1> USE DEF RoundsInv, RoundsBelongToExecutor, RoundsOf
<1>1. ASSUME NEW t \in DOMAIN creating, FinishCreateTask(t)
      PROVE  RoundsInv'
  <2>1. t \notin DOMAIN tasks /\ creating[t].task.status = "pending"
    BY DEF CallsPending
  <2>2. /\ DOMAIN tasks' = DOMAIN tasks \cup {t}
        /\ tasks'[t].status = "pending"
        /\ \A k \in DOMAIN tasks : tasks'[k] = tasks[k]
    BY <1>1, <2>1 DEF FinishCreateTask, Put
  <2>3. UNCHANGED <<rounds, retests, retesting>>
    BY <1>1 DEF FinishCreateTask
  <2>4. \A q \in DOMAIN retests : retests[q].task \in DOMAIN tasks
    OBVIOUS
  <2> QED
    BY <2>1, <2>2, <2>3, <2>4
<1>2. ASSUME NEW u, NEW t, NEW r, NEW x, NEW m, NEW assignee,
             BeginCreateTask(u, t, r, x, m, assignee) \/ AbandonCreateTask(t)
      PROVE  UNCHANGED <<tasks, rounds, retests, retesting>>
  BY <1>2 DEF BeginCreateTask, AbandonCreateTask
<1>3. ASSUME UNCHANGED <<tasks, rounds, retests, retesting>>
      PROVE  RoundsInv'
  BY <1>3
<1> QED
  BY <1>1, <1>2, <1>3 DEF CreateTaskNext

\* No step unsettles RoundsInv.
LEMMA RoundsInvNext ==
  ASSUME TypeOK, CallsPending, ExecutorConfirmedReceipt, RoundsInv, [Next]_vars
  PROVE  RoundsInv'
<1>1. UNCHANGED <<tasks, rounds, retests, retesting>> => RoundsInv'
  BY DEF RoundsInv, RoundsBelongToExecutor, RoundsOf
<1>2. MethodNext => UNCHANGED <<tasks, rounds, retests, retesting>>
  BY DEF MethodNext, CreateMethod, PublishMethod
<1>3. TestingNext => RoundsInv'
  BY <1>1, <1>2, RoundsInvTask, RoundsInvRetest, RoundsInvCreate
  DEF TestingNext
<1> QED
  BY <1>1, <1>3, IntakeFrame, CustodyFrame, CertificationFrame
  DEF Next, vars, testingVars

\* RoundsInv holds at all times.
LEMMA RoundsInvCorrect == Spec => []RoundsInv
<1>1. Init => RoundsInv
  BY DEF Init, RoundsInv, RoundsBelongToExecutor, RoundsOf, NoEntries
<1> QED
  BY <1>1, RoundsInvNext, TypeCorrect, CallsCorrect, ExecutorReceived, PTL DEF Spec

\* Rounds belong to the executor of their task, and what is under review has
\* one of the current number.
THEOREM RoundsCorrect == Spec => []RoundsBelongToExecutor
<1>1. RoundsInv => RoundsBelongToExecutor
  BY DEF RoundsInv
<1> QED
  BY <1>1, RoundsInvCorrect, PTL

\* The rounds of a task, with what they say.
Evidence(t) == [d \in RoundsOf(t) |-> rounds[d]]

\* What a step may not do to a task that is no longer being tested.
Frozen(t) ==
  /\ tasks[t].status \notin {"pending", "in_progress"} => Evidence(t)' = Evidence(t)
  /\ tasks[t].status \in {"approved", "rejected"} => tasks'[t] = tasks[t]

\* Only the executor of a task in progress adds to its rounds.
LEMMA TaskFrozen ==
  ASSUME TypeOK, TaskNext, NEW t \in DOMAIN tasks
  PROVE  Frozen(t)
<1>1. ASSUME UNCHANGED rounds
      PROVE  Evidence(t)' = Evidence(t)
  BY <1>1 DEF Evidence, RoundsOf
<1>2. ASSUME NEW u \in Users, NEW k \in DOMAIN tasks, StartTask(u, k)
      PROVE  Frozen(t)
  BY <1>1, <1>2 DEF StartTask, Frozen
<1>3. ASSUME NEW u \in Users, NEW k \in DOMAIN tasks,
             NEW d \in Fresh(RoundId, rounds), NEW result,
             SaveRound(u, k, d, result)
      PROVE  Frozen(t)
  <2>1. tasks[k].status = "in_progress" /\ UNCHANGED tasks
    BY <1>3 DEF SaveRound, MayRecord
  <2>2. /\ DOMAIN rounds' = DOMAIN rounds \cup {d} /\ d \notin DOMAIN rounds
        /\ rounds'[d].task = k
        /\ \A e \in DOMAIN rounds : rounds'[e] = rounds[e]
    BY <1>3 DEF SaveRound, Put, Fresh
  <2>3. k # t => Evidence(t)' = Evidence(t)
    <3> SUFFICES ASSUME k # t PROVE Evidence(t)' = Evidence(t)
      OBVIOUS
    <3>1. RoundsOf(t)' = RoundsOf(t)
      BY <2>2 DEF RoundsOf
    <3>2. \A e \in RoundsOf(t) : rounds'[e] = rounds[e]
      BY <2>2 DEF RoundsOf
    <3> QED
      BY <3>1, <3>2 DEF Evidence
  <2> QED
    BY <2>1, <2>3 DEF Frozen
<1>4. ASSUME NEW u \in Users, NEW k \in DOMAIN tasks, SubmitReview(u, k)
      PROVE  Frozen(t)
  BY <1>1, <1>4 DEF SubmitReview, Frozen
<1>5. ASSUME NEW u \in Users, NEW k \in DOMAIN tasks, NEW decision,
             Review(u, k, decision)
      PROVE  Frozen(t)
  BY <1>1, <1>5 DEF Review, MayReview, Frozen
<1> QED
  BY <1>2, <1>3, <1>4, <1>5 DEF TaskNext

\* No other step touches a stored task or a round.
LEMMA NextFrozen ==
  ASSUME TypeOK, CallsPending, [Next]_vars, NEW t \in DOMAIN tasks
  PROVE  t \in DOMAIN tasks' /\ Frozen(t)
<1>1. ASSUME UNCHANGED rounds, t \in DOMAIN tasks', tasks'[t] = tasks[t]
      PROVE  t \in DOMAIN tasks' /\ Frozen(t)
  BY <1>1 DEF Frozen, Evidence, RoundsOf
<1>2. CASE CreateTaskNext
  <2>1. ASSUME NEW k \in DOMAIN creating, FinishCreateTask(k)
        PROVE  UNCHANGED rounds /\ t \in DOMAIN tasks' /\ tasks'[t] = tasks[t]
    BY <2>1 DEF FinishCreateTask, Put, CallsPending
  <2>2. ASSUME NEW u, NEW k, NEW r, NEW x, NEW m, NEW assignee,
               BeginCreateTask(u, k, r, x, m, assignee) \/ AbandonCreateTask(k)
        PROVE  UNCHANGED <<tasks, rounds>>
    BY <2>2 DEF BeginCreateTask, AbandonCreateTask
  <2> QED
    BY <1>1, <1>2, <2>1, <2>2 DEF CreateTaskNext
<1>3. CASE TaskNext
  BY <1>3, TaskFrozen, TaskFrame
<1>4. MethodNext \/ RetestNext => UNCHANGED <<tasks, rounds>>
  BY DEF MethodNext, CreateMethod, PublishMethod, RetestNext, BeginRetest, FinishRetest
<1> QED
  BY <1>1, <1>2, <1>3, <1>4, IntakeFrame, CustodyFrame, CertificationFrame
  DEF Next, TestingNext, vars, testingVars

\* What is under review is frozen, and a verdict is final.
THEOREM ReviewFrozen == Spec => FrozenInReview
<1> DEFINE AllFrozen ==
      \A t \in DOMAIN tasks :
        LET roundsNow  == [d \in RoundsOf(t) |-> rounds[d]]
            roundsThen == [d \in RoundsOf(t)' |-> rounds'[d]]
        IN /\ tasks[t].status \notin {"pending", "in_progress"} =>
                roundsThen = roundsNow
           /\ tasks[t].status \in {"approved", "rejected"} => tasks'[t] = tasks[t]
<1>1. TypeOK /\ CallsPending /\ [Next]_vars => [AllFrozen]_vars
  BY NextFrozen DEF Frozen, Evidence
<1> QED
  BY <1>1, TypeCorrect, CallsCorrect, PTL DEF Spec, FrozenInReview
===============================================================================
