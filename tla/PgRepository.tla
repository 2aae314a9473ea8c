----------------------------- MODULE PgRepository -----------------------------
(***************************************************************************)
(* The laboratory on its PostgreSQL repository: every save goes to the     *)
(* in-memory store first and to a row of runtime_entities next, a save     *)
(* that fails ends its transaction without undoing anything, and a server  *)
(* that starts reads its memory back from the rows.                        *)
(*                                                                         *)
(* The operations are those of Certification.  From the step that starts a *)
(* transaction, the laboratory's variables show what the memory holds once *)
(* all its saves are made; nothing looks at them before it has ended (the  *)
(* reads without a lock see each kind of record as before or as after it). *)
(***************************************************************************)
EXTENDS Certification, Sequences

CONSTANTS
  StartOf,        \* the start of the server that created each account
  MaxStarts,      \* bound on the starts of the server
  MaxFailures     \* bound on the saves the database refuses

ASSUME PgAssumption ==
  /\ MaxStarts \in Nat /\ MaxFailures \in Nat
  /\ StartOf \in [Users -> Nat]
  /\ 0 \in Quantity

VARIABLES
  rows,           \* runtime_entities, a map for each kind
  saves,          \* the saves of the transaction under way
  saved,          \* how many of them have reached the database
  starts,         \* how often the server has started
  failures,       \* saves the database has refused
  cut,            \* a transaction has ended before its last save
  drawn,          \* IDs that were ever given to a record
  answered        \* what each record was when a call about it was last answered

runVars == <<saves, saved>>
logVars == <<starts, failures, cut, drawn, answered>>
pgVars  == <<vars, rows, runVars, logVars>>

-----------------------------------------------------------------------------
(* Memory and rows.                                                         *)

\* What the memory holds, by the kinds the rows are kept under.
Memory ==
  [request     |-> requests,
   sample      |-> samples,
   subsample   |-> [x \in DOMAIN subsamples |->
                      [part |-> subsamples[x], held |-> holding[x]]],
   custody     |-> custodies,
   method      |-> methods,
   task        |-> tasks,
   round       |-> rounds,
   retest      |-> retests,
   certificate |-> certificates,
   audit       |-> [e \in audits |-> e]]

Kind == DOMAIN Memory

\* The memory becomes the given tables.
SetMemory(tables) ==
  /\ requests' = tables.request /\ samples' = tables.sample
  /\ subsamples' = [x \in DOMAIN tables.subsample |-> tables.subsample[x].part]
  /\ holding' = [x \in DOMAIN tables.subsample |-> tables.subsample[x].held]
  /\ custodies' = tables.custody /\ methods' = tables.method
  /\ tasks' = tables.task /\ rounds' = tables.round
  /\ retests' = tables.retest /\ certificates' = tables.certificate
  /\ audits' = DOMAIN tables.audit
  /\ UNCHANGED declaredLoss

\* A save to come, with what the record was before: old is empty if there was
\* none.
Save(kind, id) ==
  [kind |-> kind, id |-> id,
   old  |-> IF id \in DOMAIN Memory[kind] THEN {Memory[kind][id]} ELSE {}]

Trail(u, action, id) ==
  Save("audit", [actor |-> u, action |-> action, object |-> id])

PgInit ==
  /\ Init
  /\ rows = Memory /\ answered = Memory
  /\ saves = <<>> /\ saved = 0
  /\ starts = 1 /\ failures = 0 /\ cut = FALSE
  /\ \A e \in audits : StartOf[e.actor] = starts
  /\ drawn = {SeedMethod}

-----------------------------------------------------------------------------
(* Transactions.                                                            *)

\* Repository.Transaction holds the repository's mutex; operation is the whole
\* effect, plan the saves in their order.
Transaction(operation, plan) ==
  /\ saves = <<>>
  /\ operation
  /\ saves' = plan
  /\ drawn' = drawn \cup {plan[i].id : i \in {j \in DOMAIN plan : plan[j].kind # "audit"}}
  /\ UNCHANGED <<rows, saved, starts, failures, cut, answered>>

\* A call that saves nothing.
Call(operation) ==
  saves = <<>> /\ operation /\ UNCHANGED <<rows, runVars, logVars>>

Written_IfAbsent(tables, save) ==
  [tables EXCEPT ![save.kind] =
     Put(tables[save.kind], save.id,
         IF save.id \in DOMAIN tables[save.kind]
         THEN tables[save.kind][save.id] ELSE Memory[save.kind][save.id])]
Written(tables, save) ==
  [tables EXCEPT ![save.kind] =
     Put(tables[save.kind], save.id, Memory[save.kind][save.id])]

\* The row is inserted or overwritten; after the last one the call is answered.
Persist ==
  LET save == saves[saved + 1]
      last == saved + 1 = Len(saves)
      done == [k \in Kind |-> {saves[i].id : i \in {j \in DOMAIN saves : saves[j].kind = k}}]
  IN
  /\ saves # <<>>
  /\ rows' = Written(rows, save)
  /\ saves' = IF last THEN <<>> ELSE saves
  /\ saved' = IF last THEN 0 ELSE saved + 1
  /\ answered' = IF last
       THEN [k \in Kind |-> PutAll(answered[k], [id \in done[k] |-> Memory[k][id]])]
       ELSE answered
  /\ UNCHANGED <<vars, starts, failures, cut, drawn>>

\* A record as it was before the saves from the given one on.
Before(kind, first) ==
  LET late == {i \in first..Len(saves) : saves[i].kind = kind}
      gone == {saves[i].id : i \in {j \in late : saves[j].old = {}}}
  IN [id \in DOMAIN Memory[kind] \ gone |->
        IF \E i \in late : saves[i].id = id
        THEN CHOOSE r \in UNION {saves[i].old : i \in {j \in late : saves[j].id = id}} : TRUE
        ELSE Memory[kind][id]]

\* The database refuses a save: the memory has it already and keeps it, the
\* saves after it are never made, and the call fails.
FailPersist ==
  /\ failures < MaxFailures
  /\ saves # <<>>
  /\ SetMemory([k \in Kind |-> Before(k, saved + 2)])
  /\ saves' = <<>> /\ saved' = 0
  /\ failures' = failures + 1 /\ cut' = TRUE
  /\ UNCHANGED <<sequence, creating, retesting, rows, starts, drawn, answered>>

\* The server stops, or is killed, and starts again: restore, then seedUsers
\* with new IDs, then seedDomain, which finds its method and gives up.  (The
\* verification codes of certificates, which have no JSON name, are lost too.)
Restart ==
  /\ starts < MaxStarts
  /\ SetMemory(rows)
  /\ sequence' = 0 /\ creating' = NoEntries /\ retesting' = NoEntries
  /\ saves' = <<>> /\ saved' = 0
  /\ starts' = starts + 1
  /\ cut' = (cut \/ saves # <<>>)
  /\ UNCHANGED <<rows, failures, drawn, answered>>

-----------------------------------------------------------------------------
(* The operations with their saves in the order of the code.                *)

\* Only the accounts of this start can log in.
Present == {u \in Users : StartOf[u] = starts}

SubmitPlan_RequestFirst(u, r, s) ==
  <<Save("request", r), Save("sample", s), Trail(u, "submit", r)>>
SubmitPlan(u, r, s) ==
  <<Save("sample", s), Save("request", r), Trail(u, "submit", r)>>

SplitPlan(u, s, order) ==
  [i \in DOMAIN order |-> Save("subsample", order[i])]
    \o <<Save("sample", s), Trail(u, "split", s)>>

ConfirmPlan_TransferFirst(u, c, x) ==
  <<Save("custody", c), Save("subsample", x), Trail(u, "confirm", c)>>
ConfirmPlan_TransferOnly(u, c, x) ==
  <<Save("custody", c), Trail(u, "confirm", c)>>
ConfirmPlan(u, c, x) ==
  <<Save("subsample", x), Save("custody", c), Trail(u, "confirm", c)>>

TaskPlan_TrailFirst(u, t, action) == <<Trail(u, action, t), Save("task", t)>>
TaskPlan(u, t, action) == <<Save("task", t), Trail(u, action, t)>>

PgIntake(u) ==
  \/ \E r \in RequestId \ drawn, complete \in BOOLEAN :
       Transaction(CreateRequest(u, r, complete),
                   <<Save("request", r), Trail(u, "create", r)>>)
  \/ \E r \in DOMAIN requests :
       \/ \E complete \in BOOLEAN :
            Transaction(UpdateRequest(u, r, complete),
                        <<Save("request", r), Trail(u, "update", r)>>)
       \/ \E total \in Quantity :
            \/ \E s \in SampleId \ drawn :
                 Transaction(SubmitRequest(u, r, s, total), SubmitPlan(u, r, s))
            \/ Call(RefuseSubmit(u, r, total))
  \/ \E s \in DOMAIN samples, new \in SUBSET (SubsampleId \ drawn) :
       \E parts \in [new -> Part], order \in Bijection(1..Cardinality(new), new) :
         Transaction(SplitSample(u, s, parts, 0, FALSE), SplitPlan(u, s, order))

PgCustody(u) ==
  \/ \E c \in CustodyId \ drawn, x \in DOMAIN subsamples,
        to \in Present \cup {None}, place \in Location :
       Transaction(CreateCustody(u, c, x, to, place),
                   <<Save("custody", c), Trail(u, "initiate", c)>>)
  \/ \E c \in DOMAIN custodies :
       Transaction(ConfirmCustody(u, c), ConfirmPlan(u, c, custodies[c].subsample))

PgMethods(u) ==
  \/ \E m \in MethodId \ drawn, code \in MethodCode, version \in 0..MaxVersion,
        valid \in BOOLEAN :
       Transaction(CreateMethod(u, m, code, version, valid),
                   <<Save("method", m), Trail(u, "create", m)>>)
  \/ \E m \in DOMAIN methods :
       Transaction(PublishMethod(u, m),
                   <<Save("method", m), Trail(u, "publish", m)>>)

\* The save of a retest request waits for nobody in the code; as nothing else
\* touches its record, it may as well come between transactions.
PgTasks(u) ==
  \/ \E t \in (TaskId \ drawn) \ DOMAIN creating, r \in DOMAIN requests \cup {None},
        x \in DOMAIN subsamples, m \in DOMAIN methods,
        assignee \in Present \cup {None} :
       Call(BeginCreateTask(u, t, r, x, m, assignee))
  \/ \E t \in DOMAIN creating :
       Transaction(FinishCreateTask(t), TaskPlan(creating[t].actor, t, "create"))
  \/ \E t \in DOMAIN tasks :
       \/ Transaction(StartTask(u, t), TaskPlan(u, t, "start"))
       \/ \E d \in RoundId \ drawn, result \in Result :
            Transaction(SaveRound(u, t, d, result),
                        <<Save("round", d), Trail(u, "record", d)>>)
       \/ Transaction(SubmitReview(u, t), TaskPlan(u, t, "submit_review"))
       \/ \E decision \in {"review_approve", "review_return"} :
            Transaction(Review(u, t, decision), TaskPlan(u, t, decision))
       \/ \E q \in (RetestId \ drawn) \ DOMAIN retesting : Call(BeginRetest(u, t, q))
  \/ \E q \in DOMAIN retesting :
       Transaction(FinishRetest(q), <<Save("retest", q)>>)

PgCertificates(u) ==
  \E c \in CertificateId \ drawn, r \in DOMAIN requests :
    Transaction(IssueCertificate(u, c, r),
                <<Save("certificate", c), Trail(u, "issue", c)>>)

PgNext ==
  \/ \E u \in Present :
       PgIntake(u) \/ PgCustody(u) \/ PgMethods(u) \/ PgTasks(u) \/ PgCertificates(u)
  \/ Persist \/ FailPersist \/ Restart

PgSpec == PgInit /\ [][PgNext]_pgVars

-----------------------------------------------------------------------------
(* Safety.                                                                  *)

Stage ==
  [draft |-> 0, submitted |-> 1, published |-> 1,
   registered |-> 0, split |-> 1, confirmed |-> 1,
   pending |-> 0, in_progress |-> 1, review |-> 2, approved |-> 3, rejected |-> 3]

\* What no operation ever changes of a record, and of a task once it started.
Fixed ==
  [request |-> {}, sample |-> {"request", "number", "total"},
   custody |-> {"subsample", "from", "to", "place"},
   method  |-> {"code", "version", "valid"},
   task    |-> {"request", "subsample", "method", "version", "assignee"}]

\* The second record is the first or what some operation made of it since.
Later(kind, old, new) ==
  \/ new = old
  \/ kind = "subsample" /\ new.part = old.part /\ new.held.holder # None
  \/ /\ kind \in DOMAIN Fixed
     /\ Stage[old.status] < Stage[new.status]
     /\ \A field \in Fixed[kind] : new[field] = old[field]
     /\ kind = "task" /\ old.status # "pending" =>
          new.executor = old.executor /\ new.round = old.round
  \/ kind = "request" /\ old.status = "draft" /\ old.revision < new.revision

\* What the caller of an operation was told has happened is in the database,
\* or something later is: no kill, refused save or restart takes it back.
AnsweredOutlasts ==
  \A kind \in Kind : \A id \in DOMAIN answered[kind] :
    /\ id \in DOMAIN rows[kind]
    /\ Later(kind, answered[kind][id], rows[kind][id])

\* The promise of a Ledger is kept by the rows and the answers: each save moves
\* one record on and touches no other, what a call answers is what its rows show
\* then, and a kill, a refused save or a start changes neither.
Book == INSTANCE Ledger WITH kept <- rows, told <- answered
KeepsLedger == Book!Spec

\* However an operation ended, the database shows no submitted request without
\* its sample, and no confirmed transfer whose subsample has not moved: what the
\* record rests on is saved before it.  (A sample without its request, and a
\* subsample that moved while its transfer still waits, are possible.)
ConsequencesFirst ==
  /\ \A r \in DOMAIN rows.request : rows.request[r].status = "submitted" =>
       /\ rows.request[r].sample \in DOMAIN rows.sample
       /\ rows.sample[rows.request[r].sample].request = r
  /\ \A c \in DOMAIN rows.custody : rows.custody[c].status = "confirmed" =>
       /\ rows.custody[c].subsample \in DOMAIN rows.subsample
       /\ rows.subsample[rows.custody[c].subsample].held.holder # None

\* The record, of that kind, shows what the event says was done.
Shows(event, kind, record) ==
  \/ event.action = "create" /\ kind \in {"request", "method", "task"}
  \/ event.action = "update" /\ kind = "request"
  \/ event.action = "submit" /\ kind = "request" /\ record.status = "submitted"
  \/ event.action = "split" /\ kind = "sample" /\ record.status = "split"
  \/ event.action = "initiate" /\ kind = "custody" /\ record.from = event.actor
  \/ /\ event.action = "confirm" /\ kind = "custody"
     /\ record.status = "confirmed" /\ record.to = event.actor
  \/ event.action = "publish" /\ kind = "method" /\ record.status = "published"
  \/ /\ event.action = "start" /\ kind = "task"
     /\ record.status # "pending" /\ record.executor = event.actor
  \/ event.action = "record" /\ kind = "round" /\ record.by = event.actor
  \/ /\ event.action = "submit_review" /\ kind = "task"
     /\ record.status \in {"review", "approved", "rejected"}
     /\ record.executor = event.actor
  \/ /\ event.action \in {"review_approve", "review_return"} /\ kind = "task"
     /\ record.status = Verdict(event.action) /\ record.executor # event.actor
  \/ event.action = "issue" /\ kind = "certificate"

\* The trail in the database never tells of something the database does not
\* show as done, by whom it was done, whatever was interrupted: an event is the
\* last save of its transaction.
TrailOnlyFacts ==
  \A event \in DOMAIN rows.audit : \E kind \in Kind \ {"audit"} :
    /\ event.object \in DOMAIN rows[kind]
    /\ Shows(event, kind, rows[kind][event.object])

\* Unless a transaction was interrupted or refused, the rows are the memory
\* between transactions, since every operation saves all that it changes; and
\* what holds in one run of the server holds across its restarts, with accounts
\* that have new IDs after each.
OrderlyRestartKeeps ==
  ~cut => /\ saves = <<>> => rows = Memory
          /\ OneSamplePerRequest /\ HolderConfirmedReceipt /\ TwoPartyTransfer
          /\ ExecutorConfirmedReceipt /\ RoundsBelongToExecutor
          /\ IndependentReview /\ CertificateTraceable

\* The certificates of a table have different numbers; and these are 1, 2, ...
\* without a gap.
Apart(table) ==
  \A c, e \in DOMAIN table : table[c].number = table[e].number => c = e
Gapless(table) ==
  /\ Apart(table)
  /\ \A n \in 1..Cardinality(DOMAIN table) : \E c \in DOMAIN table : table[c].number = n

\* The certificate number, which is counted from what the memory holds, is never
\* given twice while a server runs on, whatever saves are refused, nor over
\* kills at any point, if none is; and unless a save was refused the database
\* has no gap.  (A refused save and a start together can repeat a number.)
NumbersOutlast ==
  /\ starts = 1   => Gapless(certificates) /\ Apart(rows["certificate"])
  /\ failures = 0 => Gapless(certificates) /\ Gapless(rows["certificate"])

-----------------------------------------------------------------------------
(* What the repository says of the program and the code does not keep.      *)

\* README, step 2 of the main path: a submission gives the sample a unique
\* number, SMP-YYYYMMDD-NNNNN.
SampleNumberNeverReused ==
  ~cut => \A s, t \in DOMAIN samples : samples[s].number = samples[t].number => s = t
=============================================================================
