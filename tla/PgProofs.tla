------------------------------- MODULE PgProofs --------------------------------
(***************************************************************************)
(* What the laboratory on its database never takes back, for any accounts, *)
(* records and bounds, and for any number of starts and refused saves.     *)
(***************************************************************************)
EXTENDS PgRepository, CertificateProofs, SequenceTheorems

-----------------------------------------------------------------------------
(* Tables by kind.                                                          *)

KeyOf ==
  [request |-> RequestId, sample |-> SampleId, subsample |-> SubsampleId,
   custody |-> CustodyId, method |-> MethodId, task |-> TaskId,
   round |-> RoundId, retest |-> RetestId, certificate |-> CertificateId,
   audit |-> Event]

RecordOf ==
  [request |-> Request, sample |-> Sample,
   subsample |-> [part : Subsample, held : Holding],
   custody |-> Custody, method |-> Method, task |-> Task,
   round |-> Round, retest |-> Retest, certificate |-> Certificate,
   audit |-> Event]

\* The tables hold records of their kinds.
TablesOK(tables) ==
  /\ tables = [k \in Kind |-> tables[k]]
  /\ \A k \in Kind : IsMap(tables[k], KeyOf[k], RecordOf[k])
  /\ \A e \in DOMAIN tables["audit"] : tables["audit"][e] = e
  /\ IsFiniteSet(DOMAIN tables["certificate"])

\* The second tables hold what the first do, or something later.
Grown(old, new) ==
  \A k \in Kind : \A id \in DOMAIN old[k] :
    id \in DOMAIN new[k] /\ Later(k, old[k][id], new[k][id])

LEMMA KindIs ==
  Kind = {"request", "sample", "subsample", "custody", "method", "task",
          "round", "retest", "certificate", "audit"}
  BY DEF Kind, Memory

LEMMA MemoryIs ==
  /\ Memory["request"] = requests /\ Memory["sample"] = samples
  /\ DOMAIN Memory["subsample"] = DOMAIN subsamples
  /\ \A x \in DOMAIN subsamples :
       Memory["subsample"][x] = [part |-> subsamples[x], held |-> holding[x]]
  /\ Memory["custody"] = custodies /\ Memory["method"] = methods
  /\ Memory["task"] = tasks /\ Memory["round"] = rounds
  /\ Memory["retest"] = retests /\ Memory["certificate"] = certificates
  /\ DOMAIN Memory["audit"] = audits
  /\ \A e \in audits : Memory["audit"][e] = e
  BY DEF Memory

LEMMA KeysAre ==
  /\ KeyOf["request"] = RequestId /\ RecordOf["request"] = Request
  /\ KeyOf["sample"] = SampleId /\ RecordOf["sample"] = Sample
  /\ KeyOf["subsample"] = SubsampleId /\ RecordOf["subsample"] = [part : Subsample, held : Holding]
  /\ KeyOf["custody"] = CustodyId /\ RecordOf["custody"] = Custody
  /\ KeyOf["method"] = MethodId /\ RecordOf["method"] = Method
  /\ KeyOf["task"] = TaskId /\ RecordOf["task"] = Task
  /\ KeyOf["round"] = RoundId /\ RecordOf["round"] = Round
  /\ KeyOf["retest"] = RetestId /\ RecordOf["retest"] = Retest
  /\ KeyOf["certificate"] = CertificateId /\ RecordOf["certificate"] = Certificate
  /\ KeyOf["audit"] = Event /\ RecordOf["audit"] = Event
  BY DEF KeyOf, RecordOf

\* A well-typed memory is a set of well-typed tables.
LEMMA MemoryTyped == TypeOK => TablesOK(Memory)
  <1> SUFFICES ASSUME TypeOK PROVE TablesOK(Memory)
    OBVIOUS
  <1>1. Memory = [k \in Kind |-> Memory[k]]
    BY DEF Kind, Memory
  <1>2. \A x \in DOMAIN subsamples :
          [part |-> subsamples[x], held |-> holding[x]] \in [part : Subsample, held : Holding]
    BY DEF TypeOK, IsMap
  <1>3. IsMap(Memory["subsample"], SubsampleId, [part : Subsample, held : Holding])
    <2>1. Memory["subsample"] =
            [x \in DOMAIN subsamples |-> [part |-> subsamples[x], held |-> holding[x]]]
      BY DEF Memory
    <2> QED
      BY <1>2, <2>1 DEF TypeOK, IsMap
  <1>4. IsMap(Memory["audit"], Event, Event)
    <2>1. Memory["audit"] = [e \in audits |-> e]
      BY DEF Memory
    <2> QED
      BY <2>1 DEF TypeOK, IsMap
  <1>5. \A k \in Kind : IsMap(Memory[k], KeyOf[k], RecordOf[k])
    <2>1. /\ IsMap(Memory["request"], KeyOf["request"], RecordOf["request"])
          /\ IsMap(Memory["sample"], KeyOf["sample"], RecordOf["sample"])
          /\ IsMap(Memory["subsample"], KeyOf["subsample"], RecordOf["subsample"])
          /\ IsMap(Memory["custody"], KeyOf["custody"], RecordOf["custody"])
          /\ IsMap(Memory["method"], KeyOf["method"], RecordOf["method"])
          /\ IsMap(Memory["task"], KeyOf["task"], RecordOf["task"])
          /\ IsMap(Memory["round"], KeyOf["round"], RecordOf["round"])
          /\ IsMap(Memory["retest"], KeyOf["retest"], RecordOf["retest"])
          /\ IsMap(Memory["certificate"], KeyOf["certificate"], RecordOf["certificate"])
          /\ IsMap(Memory["audit"], KeyOf["audit"], RecordOf["audit"])
      BY <1>3, <1>4, KeysAre, MemoryIs DEF TypeOK
    <2> QED
      BY <2>1, KindIs
  <1> QED
    BY <1>1, <1>5, MemoryIs DEF TypeOK, TablesOK

\* The memory becomes the tables it is set to, and is well typed then.
LEMMA SetMemoryIs ==
  ASSUME TypeOK, NEW tables, TablesOK(tables), SetMemory(tables),
         sequence' \in Nat, IsMap(creating', TaskId, TaskCall),
         IsMap(retesting', RetestId, Retest)
  PROVE  TypeOK' /\ Memory' = tables
  <1>1. \A k \in Kind : IsMap(tables[k], KeyOf[k], RecordOf[k])
    BY DEF TablesOK
  <1>2. /\ IsMap(tables.request, RequestId, Request) /\ IsMap(tables.sample, SampleId, Sample)
        /\ IsMap(tables.subsample, SubsampleId, [part : Subsample, held : Holding])
        /\ IsMap(tables.custody, CustodyId, Custody) /\ IsMap(tables.method, MethodId, Method)
        /\ IsMap(tables.task, TaskId, Task) /\ IsMap(tables.round, RoundId, Round)
        /\ IsMap(tables.retest, RetestId, Retest)
        /\ IsMap(tables.certificate, CertificateId, Certificate)
        /\ IsMap(tables.audit, Event, Event)
    BY <1>1, KindIs DEF KeyOf, RecordOf
  <1>3. \A x \in DOMAIN tables.subsample :
          /\ tables.subsample[x].part \in Subsample /\ tables.subsample[x].held \in Holding
          /\ tables.subsample[x] = [part |-> tables.subsample[x].part,
                                    held |-> tables.subsample[x].held]
    BY <1>2 DEF IsMap
  <1>4. /\ IsMap(subsamples', SubsampleId, Subsample)
        /\ holding' \in [DOMAIN subsamples' -> Holding]
    BY <1>2, <1>3 DEF SetMemory, IsMap
  <1>5. TypeOK'
    BY <1>2, <1>4 DEF SetMemory, TypeOK, IsMap, TablesOK
  <1>6. [x \in DOMAIN subsamples' |-> [part |-> subsamples'[x], held |-> holding'[x]]]
          = tables.subsample
    BY <1>2, <1>3 DEF SetMemory, IsMap
  <1>7. [e \in audits' |-> e] = tables.audit
    BY <1>2 DEF SetMemory, TablesOK, IsMap
  <1>8. Memory' = [k \in Kind |-> tables[k]]
    <2>1. DOMAIN Memory' = Kind
      BY KindIs DEF Memory
    <2>2. \A k \in Kind : Memory'[k] = tables[k]
      <3>1. /\ Memory'["request"] = tables["request"]
            /\ Memory'["sample"] = tables["sample"]
            /\ Memory'["subsample"] = tables["subsample"]
            /\ Memory'["custody"] = tables["custody"]
            /\ Memory'["method"] = tables["method"]
            /\ Memory'["task"] = tables["task"]
            /\ Memory'["round"] = tables["round"]
            /\ Memory'["retest"] = tables["retest"]
            /\ Memory'["certificate"] = tables["certificate"]
            /\ Memory'["audit"] = tables["audit"]
        BY <1>6, <1>7 DEF Memory, SetMemory
      <3> QED
        BY <3>1, KindIs
    <2> QED
      BY <2>1, <2>2 DEF Memory
  <1> QED
    BY <1>5, <1>8 DEF TablesOK

-----------------------------------------------------------------------------
(* Later.                                                                   *)

\* The kinds that go through stages.
Staged == {"request", "sample", "custody", "method", "task"}

LEMMA StageNumbers ==
  \A status \in {"draft", "submitted", "published", "registered", "split", "confirmed",
                 "pending", "in_progress", "review", "approved", "rejected"} :
    Stage[status] \in Nat
  BY DEF Stage

LEMMA StagesAre ==
  ASSUME NEW k \in Staged, NEW r \in RecordOf[k]
  PROVE  Stage[r.status] \in Nat
  <1>1. CASE k = "request"
    BY <1>1, KeysAre, StageNumbers DEF Request
  <1>2. CASE k = "sample"
    BY <1>2, KeysAre, StageNumbers DEF Sample
  <1>3. CASE k = "custody"
    BY <1>3, KeysAre, StageNumbers DEF Custody
  <1>4. CASE k = "method"
    BY <1>4, KeysAre, StageNumbers DEF Method
  <1>5. CASE k = "task"
    BY <1>5, KeysAre, StageNumbers DEF Task
  <1> QED
    BY <1>1, <1>2, <1>3, <1>4, <1>5 DEF Staged

LEMMA FixedAre ==
  /\ DOMAIN Fixed = Staged
  /\ Fixed["request"] = {} /\ Fixed["sample"] = {"request", "number", "total"}
  /\ Fixed["custody"] = {"subsample", "from", "to", "place"}
  /\ Fixed["method"] = {"code", "version", "valid"}
  /\ Fixed["task"] = {"request", "subsample", "method", "version", "assignee"}
  BY DEF Fixed, Staged

\* Some operation took a record of a staged kind a stage further.
Advanced(kind, old, new) ==
  /\ Stage[old.status] < Stage[new.status]
  /\ \A field \in Fixed[kind] : new[field] = old[field]
  /\ kind = "task" /\ old.status # "pending" =>
       new.executor = old.executor /\ new.round = old.round

LEMMA AdvancedTwice ==
  ASSUME NEW k \in Staged, NEW a \in RecordOf[k], NEW b \in RecordOf[k], NEW c \in RecordOf[k],
         Advanced(k, a, b), Advanced(k, b, c)
  PROVE  Advanced(k, a, c)
  <1>1. Stage[a.status] \in Nat /\ Stage[b.status] \in Nat /\ Stage[c.status] \in Nat
    BY StagesAre
  <1>2. Stage["pending"] = 0
    BY DEF Stage
  <1>3. b.status # "pending"
    BY <1>1, <1>2 DEF Advanced
  <1> QED
    BY <1>1, <1>3 DEF Advanced

\* What is later than something later is later.
LEMMA LaterTransitive ==
  ASSUME NEW k \in Kind, NEW a \in RecordOf[k], NEW b \in RecordOf[k], NEW c \in RecordOf[k],
         Later(k, a, b), Later(k, b, c)
  PROVE  Later(k, a, c)
  <1>1. CASE k = "subsample"
    BY <1>1, FixedAre DEF Later, Staged
  <1>2. CASE k = "request"
    <2>1. \A r \in {a, b, c} : r.revision \in Nat /\ r.status \in {"draft", "submitted"}
      BY <1>2, KeysAre DEF Request
    <2>2. Stage["draft"] = 0 /\ Stage["submitted"] = 1
      BY DEF Stage
    <2>3. /\ \/ a = b
             \/ a.status = "draft" /\ b.status = "submitted"
             \/ a.status = "draft" /\ a.revision < b.revision
          /\ \/ b = c
             \/ b.status = "draft" /\ c.status = "submitted"
             \/ b.status = "draft" /\ b.revision < c.revision
      BY <1>2, <2>1, <2>2 DEF Later
    <2>4. CASE a.status = "draft" /\ c.status = "submitted"
      BY <1>2, <2>2, <2>4, FixedAre DEF Later, Staged
    <2>5. CASE a.status = "draft" /\ a.revision < c.revision
      BY <1>2, <2>5 DEF Later
    <2>6. CASE a = c
      BY <2>6 DEF Later
    <2> QED
      BY <2>1, <2>3, <2>4, <2>5, <2>6
  <1>3. CASE k \in Staged \ {"request"}
    <2>1. \A r1, r2 : Later(k, r1, r2) <=> r2 = r1 \/ Advanced(k, r1, r2)
      BY <1>3, FixedAre DEF Later, Advanced, Staged
    <2> QED
      BY <1>3, <2>1, AdvancedTwice
  <1>4. CASE k \notin Staged /\ k # "subsample"
    BY <1>4, FixedAre DEF Later, Staged
  <1> QED
    BY <1>1, <1>2, <1>3, <1>4

\* What a record shows, anything later shows.
LEMMA ShowsLater ==
  ASSUME NEW k \in Kind, NEW a \in RecordOf[k], NEW b \in RecordOf[k], Later(k, a, b),
         NEW e \in Event, Shows(e, k, a)
  PROVE  Shows(e, k, b)
  <1>1. CASE k = "request"
    BY <1>1, KeysAre, FixedAre DEF Later, Shows, Stage, Request
  <1>2. CASE k = "sample"
    BY <1>2, KeysAre, FixedAre DEF Later, Shows, Stage, Sample
  <1>3. CASE k = "custody"
    BY <1>3, KeysAre, FixedAre DEF Later, Shows, Stage, Custody
  <1>4. CASE k = "method"
    BY <1>4, KeysAre, FixedAre DEF Later, Shows, Stage, Method
  <1>5. CASE k = "task"
    <2>1. CASE b = a
      BY <2>1
    <2>2. CASE Advanced("task", a, b)
      <3>1. Stage[a.status] < Stage[b.status]
        BY <2>2 DEF Advanced
      <3>2. a.status \in {"pending", "in_progress", "review", "approved", "rejected"}
            /\ b.status \in {"pending", "in_progress", "review", "approved", "rejected"}
        BY <1>5, KeysAre DEF Task
      <3>3. /\ Stage["pending"] = 0 /\ Stage["in_progress"] = 1 /\ Stage["review"] = 2
            /\ Stage["approved"] = 3 /\ Stage["rejected"] = 3
        BY DEF Stage
      <3>4. /\ b.status # "pending" /\ a.status \notin {"approved", "rejected"}
            /\ a.status = "review" => b.status \in {"approved", "rejected"}
        BY <3>1, <3>2, <3>3
      <3>5. a.status # "pending" => b.executor = a.executor
        BY <2>2 DEF Advanced
      <3> QED
        BY <1>5, <3>4, <3>5 DEF Shows, Verdict
    <2> QED
      BY <1>5, <2>1, <2>2 DEF Later, Advanced
  <1>6. CASE k \notin Staged
    BY <1>6, FixedAre DEF Later, Shows, Staged
  <1> QED
    BY <1>1, <1>2, <1>3, <1>4, <1>5, <1>6 DEF Staged

LEMMA GrownTransitive ==
  ASSUME NEW x, NEW y, NEW z, TablesOK(x), TablesOK(y), TablesOK(z),
         Grown(x, y), Grown(y, z)
  PROVE  Grown(x, z)
  <1> SUFFICES ASSUME NEW k \in Kind, NEW id \in DOMAIN x[k]
               PROVE  id \in DOMAIN z[k] /\ Later(k, x[k][id], z[k][id])
    BY DEF Grown
  <1>1. /\ id \in DOMAIN y[k] /\ Later(k, x[k][id], y[k][id])
        /\ id \in DOMAIN z[k] /\ Later(k, y[k][id], z[k][id])
    BY DEF Grown
  <1>2. x[k][id] \in RecordOf[k] /\ y[k][id] \in RecordOf[k] /\ z[k][id] \in RecordOf[k]
    BY <1>1 DEF TablesOK, IsMap
  <1> QED
    BY <1>1, <1>2, LaterTransitive

-----------------------------------------------------------------------------
(* The invariant.                                                           *)

SaveOK(save) ==
  /\ save.kind \in Kind /\ save.id \in DOMAIN Memory[save.kind]
  /\ save.old \subseteq RecordOf[save.kind]
  /\ save.kind = "audit" => save.old \subseteq {save.id}
  /\ save.old = {} => save.id \notin DOMAIN answered[save.kind]
  /\ save.id \in DOMAIN answered[save.kind] =>
       \A r \in save.old : Later(save.kind, answered[save.kind][save.id], r)

\* The saves of a transaction under way, of which the first have been made.
RunOK ==
  /\ saves = [i \in 1..Len(saves) |-> saves[i]] /\ Len(saves) \in Nat
  /\ saved \in Nat /\ (saves = <<>> => saved = 0) /\ (saves # <<>> => saved < Len(saves))
  /\ \A i \in 1..Len(saves) : SaveOK(saves[i])
  /\ \A i \in 1..saved :
       /\ saves[i].id \in DOMAIN rows[saves[i].kind]
       /\ rows[saves[i].kind][saves[i].id] = Memory[saves[i].kind][saves[i].id]

\* What calls are about to save is not there yet.
CallsOpen ==
  DOMAIN creating \cap DOMAIN tasks = {} /\ DOMAIN retesting \cap DOMAIN retests = {}

\* The ID of a record is not drawn again.
DrawnOK ==
  /\ \A k \in Kind \ {"audit"} : DOMAIN Memory[k] \subseteq drawn /\ DOMAIN rows[k] \subseteq drawn
  /\ CallsOpen

\* Rows and memory are well typed, hold what was answered or something later,
\* and the memory falls back to nothing earlier when a save is refused.
PgInv ==
  /\ TypeOK /\ TablesOK(rows) /\ TablesOK(answered)
  /\ Grown(answered, rows) /\ Grown(answered, Memory)
  /\ RunOK /\ DrawnOK

\* No record is saved twice by one transaction, and a certificate before all else.
SavedOnce(plan) ==
  /\ \A i, j \in 1..Len(plan) :
       plan[i].kind = plan[j].kind /\ plan[i].id = plan[j].id => i = j
  /\ \A i \in 1..Len(plan) : plan[i].kind = "certificate" => i = 1

\* What a save rests on is saved before it: the sample of a submitted request,
\* the subsample of a confirmed transfer, what an event tells of.
Ordered(plan, tables) ==
  \A i \in 1..Len(plan) :
    /\ plan[i].kind = "request" /\ tables["request"][plan[i].id].status = "submitted" =>
         \E j \in 1..i - 1 :
           /\ plan[j].kind = "sample"
           /\ plan[j].id = tables["request"][plan[i].id].sample
           /\ tables["sample"][plan[j].id].request = plan[i].id
    /\ plan[i].kind = "custody" /\ tables["custody"][plan[i].id].status = "confirmed" =>
         \E j \in 1..i - 1 :
           /\ plan[j].kind = "subsample"
           /\ plan[j].id = tables["custody"][plan[i].id].subsample
           /\ tables["subsample"][plan[j].id].held.holder # None
    /\ plan[i].kind = "audit" =>
         \E j \in 1..i - 1 :
           /\ plan[j].kind # "audit" /\ plan[j].id = plan[i].id.object
           /\ Shows(plan[i].id, plan[j].kind, tables[plan[j].kind][plan[j].id])

\* The rows are at or behind the memory, also behind what it falls back to when
\* a save to come is refused.
RowInv ==
  /\ Grown(rows, Memory)
  /\ SavedOnce(saves) /\ Ordered(saves, Memory)
  /\ \A i \in (saved + 1)..Len(saves) :
       saves[i].id \in DOMAIN rows[saves[i].kind] =>
         /\ saves[i].old # {}
         /\ \A r \in saves[i].old :
              Later(saves[i].kind, rows[saves[i].kind][saves[i].id], r)

\* As long as no save was refused, a record the rows do not show as it is has a
\* save to come.
Synced ==
  /\ failures = 0 =>
       \A k \in Kind : \A id \in DOMAIN Memory[k] :
         \/ id \in DOMAIN rows[k] /\ rows[k][id] = Memory[k][id]
         \/ \E i \in (saved + 1)..Len(saves) : saves[i].kind = k /\ saves[i].id = id
  /\ failures \in Nat /\ (failures # 0 => cut)

\* The certificates of a table are numbered 1, 2, ... without a gap.
Numbered(table) ==
  LET n == Cardinality(DOMAIN table) IN
  /\ \A k \in 1..n : \E c \in DOMAIN table : table[c].number = k
  /\ \A c, e \in DOMAIN table : table[c].number = table[e].number => c = e
  /\ \A c \in DOMAIN table : table[c].number \in 1..n

NumbersInv ==
  /\ starts \in Nat \ {0}
  /\ starts = 1 => Numbered(certificates)
  /\ failures = 0 => Numbered(certificates) /\ Numbered(rows["certificate"])

\* What holds of the laboratory in one run of its server.
LabInv ==
  /\ Groundwork /\ OneSamplePerRequest /\ CustodyInv /\ TransferInv /\ TraceInv

\* The seeded server and its rows.
LEMMA PgInitInv == PgInit => PgInv
  <1> SUFFICES ASSUME PgInit PROVE PgInv
    OBVIOUS
  <1>1. TypeOK /\ TablesOK(Memory)
    BY TypeInit, MemoryTyped DEF PgInit
  <1>2. Grown(Memory, Memory)
    BY DEF Grown, Later
  <1>3. \A k \in Kind \ {"audit"} : DOMAIN Memory[k] \subseteq {SeedMethod}
    <2>1. /\ DOMAIN requests = {} /\ DOMAIN samples = {} /\ DOMAIN subsamples = {}
          /\ DOMAIN custodies = {} /\ DOMAIN methods = {SeedMethod} /\ DOMAIN tasks = {}
          /\ DOMAIN rounds = {} /\ DOMAIN retests = {} /\ DOMAIN certificates = {}
      BY DEF PgInit, Init, NoEntries
    <2> QED
      BY <2>1, KindIs, MemoryIs
  <1>4. saves = <<>> /\ saved = 0 /\ rows = Memory /\ answered = Memory /\ drawn = {SeedMethod}
    BY DEF PgInit
  <1>5. DOMAIN creating = {} /\ DOMAIN retesting = {}
    BY DEF PgInit, Init, NoEntries
  <1>6. saves = [i \in 1..Len(saves) |-> saves[i]] /\ Len(saves) = 0
    BY <1>4
  <1> QED
    BY <1>1, <1>2, <1>3, <1>4, <1>5, <1>6 DEF PgInv, RunOK, DrawnOK, CallsOpen

-----------------------------------------------------------------------------
(* Transactions.                                                            *)

Ids(plan, kind) == {plan[i].id : i \in {j \in DOMAIN plan : plan[j].kind = kind}}

\* The plan is a sequence of saves, of records the memory has in the end.
Planned(plan) ==
  /\ plan = [i \in 1..Len(plan) |-> plan[i]]
  /\ Len(plan) \in Nat \ {0}
  /\ \A i \in 1..Len(plan) : \E k \in Kind : \E id \in DOMAIN Memory'[k] :
       plan[i] = Save(k, id)
  /\ SavedOnce(plan)

\* The later table has the records of the first, those under the given IDs as
\* they were or later, and others only under these IDs.
Extends(kind, table, later, ids) ==
  /\ DOMAIN later \subseteq DOMAIN table \cup ids
  /\ \A id \in DOMAIN table :
       /\ id \in DOMAIN later /\ Later(kind, table[id], later[id])
       /\ id \notin ids => later[id] = table[id]

\* What Transaction does besides the operation.
Opened(plan) ==
  /\ saves = <<>> /\ saves' = plan
  /\ drawn' = drawn \cup {plan[i].id : i \in {j \in DOMAIN plan : plan[j].kind # "audit"}}
  /\ UNCHANGED <<rows, saved, starts, failures, cut, answered>>

\* The saves are in order for the memory as it is after the step.
OrderedThen(plan) == Ordered(plan, Memory')

\* A step of the laboratory starts a transaction that saves, in order, every
\* record the step adds or changes.
Starts(plan) ==
  /\ Next /\ Opened(plan) /\ CallsOpen'
  /\ Planned(plan) /\ Ordered(plan, Memory')
  /\ \A k \in Kind : Extends(k, Memory[k], Memory'[k], Ids(plan, k))

\* A step of the laboratory, or none, that saves nothing.
Quiet ==
  /\ [Next]_vars /\ Memory' = Memory /\ CallsOpen'
  /\ UNCHANGED <<rows, saves, saved, failures, cut, drawn, answered>>

\* The shape of most transactions: one record is added or changed, and saved
\* with the event that tells of it.
LEMMA SaveWithTrail ==
  ASSUME Next, NEW k \in Kind \ {"audit"}, NEW id, NEW event,
         Opened(<<Save(k, id), Save("audit", event)>>), CallsOpen',
         \A l \in Kind \ {"audit", k} : Memory'[l] = Memory[l],
         Extends(k, Memory[k], Memory'[k], {id}), id \in DOMAIN Memory'[k],
         audits' = audits \cup {event}, event.object = id, Shows(event, k, Memory'[k][id]),
         k = "request" => Memory'[k][id].status # "submitted",
         k = "custody" => Memory'[k][id].status # "confirmed"
  PROVE  \E plan : Starts(plan)
  <1> DEFINE plan == <<Save(k, id), Save("audit", event)>>
  <1>1. event \in DOMAIN Memory'["audit"] /\ "audit" \in Kind
    BY KindIs DEF Memory
  <1>2. /\ Len(plan) = 2 /\ DOMAIN plan = 1..2 /\ plan = [i \in 1..Len(plan) |-> plan[i]]
        /\ plan[1] = Save(k, id) /\ plan[2] = Save("audit", event)
    OBVIOUS
  <1>3. /\ plan[1].kind = k /\ plan[1].id = id
        /\ plan[2].kind = "audit" /\ plan[2].id = event
    BY <1>2 DEF Save
  <1>4. Opened(plan)
    OBVIOUS
  <1> HIDE DEF plan
  <1>5. Planned(plan)
    BY <1>1, <1>2, <1>3 DEF Planned, SavedOnce
  <1>6. Ordered(plan, Memory')
    <2> SUFFICES ASSUME NEW i \in 1..2
                 PROVE  /\ i = 1 => plan[i].kind \notin {"request", "custody", "audit"}
                                    \/ (plan[i].kind = "request" /\ Memory'["request"][plan[i].id].status # "submitted")
                                    \/ (plan[i].kind = "custody" /\ Memory'["custody"][plan[i].id].status # "confirmed")
                        /\ i = 2 => /\ plan[i].kind = "audit" /\ 1 \in 1..i - 1
                                    /\ plan[1].kind # "audit" /\ plan[1].id = plan[i].id.object
                                    /\ Shows(plan[i].id, plan[1].kind, Memory'[plan[1].kind][plan[1].id])
      BY <1>2 DEF Ordered
    <2> QED
      BY <1>3
  <1>7. id \in Ids(plan, k) /\ event \in Ids(plan, "audit")
    BY <1>2, <1>3 DEF Ids
  <1>8. Extends("audit", Memory["audit"], Memory'["audit"], Ids(plan, "audit"))
    BY <1>7 DEF Extends, Later, Memory
  <1>9. \A l \in Kind : Extends(l, Memory[l], Memory'[l], Ids(plan, l))
    BY <1>7, <1>8 DEF Extends, Later
  <1> QED
    BY <1>4, <1>5, <1>6, <1>9 DEF Starts

\* The shape of a submission and of a confirmation: what the second record rests
\* on is saved before it.
LEMMA SaveTwoWithTrail ==
  ASSUME Next, NEW k \in Kind \ {"audit", "request", "custody"},
         NEW l \in Kind \ {"audit", "certificate", k},
         NEW id, NEW jd, NEW event,
         Opened(<<Save(k, id), Save(l, jd), Save("audit", event)>>), CallsOpen',
         \A m \in Kind \ {"audit", k, l} : Memory'[m] = Memory[m],
         Extends(k, Memory[k], Memory'[k], {id}), id \in DOMAIN Memory'[k],
         Extends(l, Memory[l], Memory'[l], {jd}), jd \in DOMAIN Memory'[l],
         audits' = audits \cup {event}, event.object = jd, Shows(event, l, Memory'[l][jd]),
         l = "request" => /\ k = "sample" /\ id = Memory'["request"][jd].sample
                          /\ Memory'["sample"][id].request = jd,
         l = "custody" => /\ k = "subsample" /\ id = Memory'["custody"][jd].subsample
                          /\ Memory'["subsample"][id].held.holder # None
  PROVE  \E plan : Starts(plan)
  <1> DEFINE plan == <<Save(k, id), Save(l, jd), Save("audit", event)>>
  <1>1. event \in DOMAIN Memory'["audit"] /\ "audit" \in Kind
    BY KindIs DEF Memory
  <1>2. /\ Len(plan) = 3 /\ DOMAIN plan = 1..3 /\ plan = [i \in 1..Len(plan) |-> plan[i]]
        /\ plan[1] = Save(k, id) /\ plan[2] = Save(l, jd) /\ plan[3] = Save("audit", event)
    OBVIOUS
  <1>3. /\ plan[1].kind = k /\ plan[1].id = id /\ plan[2].kind = l /\ plan[2].id = jd
        /\ plan[3].kind = "audit" /\ plan[3].id = event
    BY <1>2 DEF Save
  <1>4. Opened(plan)
    OBVIOUS
  <1> HIDE DEF plan
  <1>5. Planned(plan)
    <2>1. SavedOnce(plan)
      BY <1>2, <1>3 DEF SavedOnce
    <2>2. \A i \in 1..Len(plan) : \E m \in Kind : \E kd \in DOMAIN Memory'[m] : plan[i] = Save(m, kd)
      BY <1>1, <1>2
    <2> QED
      BY <1>2, <2>1, <2>2 DEF Planned
  <1>6. Ordered(plan, Memory')
    <2> DEFINE Rests(i) ==
          /\ plan[i].kind = "request" /\ Memory'["request"][plan[i].id].status = "submitted" =>
               \E j \in 1..i - 1 :
                 /\ plan[j].kind = "sample"
                 /\ plan[j].id = Memory'["request"][plan[i].id].sample
                 /\ Memory'["sample"][plan[j].id].request = plan[i].id
          /\ plan[i].kind = "custody" /\ Memory'["custody"][plan[i].id].status = "confirmed" =>
               \E j \in 1..i - 1 :
                 /\ plan[j].kind = "subsample"
                 /\ plan[j].id = Memory'["custody"][plan[i].id].subsample
                 /\ Memory'["subsample"][plan[j].id].held.holder # None
          /\ plan[i].kind = "audit" =>
               \E j \in 1..i - 1 :
                 /\ plan[j].kind # "audit" /\ plan[j].id = plan[i].id.object
                 /\ Shows(plan[i].id, plan[j].kind, Memory'[plan[j].kind][plan[j].id])
    <2>1. Rests(1)
      BY <1>3
    <2>2. Rests(2)
      <3>1. 1 \in 1..2 - 1
        OBVIOUS
      <3> QED
        BY <1>3, <3>1
    <2>3. Rests(3)
      <3>1. 2 \in 1..3 - 1
        OBVIOUS
      <3> QED
        BY <1>3, <3>1
    <2> HIDE DEF Rests
    <2>4. \A i \in 1..Len(plan) : Rests(i)
      BY <1>2, <2>1, <2>2, <2>3
    <2> QED
      BY <2>4 DEF Ordered, Rests
  <1>7. id \in Ids(plan, k) /\ jd \in Ids(plan, l) /\ event \in Ids(plan, "audit")
    BY <1>2, <1>3 DEF Ids
  <1>8. Extends("audit", Memory["audit"], Memory'["audit"], Ids(plan, "audit"))
    BY <1>7 DEF Extends, Later, Memory
  <1>9. \A m \in Kind : Extends(m, Memory[m], Memory'[m], Ids(plan, m))
    BY <1>7, <1>8 DEF Extends, Later
  <1> QED
    BY <1>4, <1>5, <1>6, <1>9 DEF Starts

-----------------------------------------------------------------------------
(* Intake.                                                                  *)

\* An operation of the laboratory, with an ID that was never drawn, keeps the
\* types.
LEMMA FreshIds ==
  ASSUME PgInv
  PROVE  /\ RequestId \ drawn \subseteq Fresh(RequestId, requests)
         /\ SampleId \ drawn \subseteq Fresh(SampleId, samples)
         /\ SubsampleId \ drawn \subseteq Fresh(SubsampleId, subsamples)
         /\ CustodyId \ drawn \subseteq Fresh(CustodyId, custodies)
         /\ MethodId \ drawn \subseteq Fresh(MethodId, methods)
         /\ TaskId \ drawn \subseteq Fresh(TaskId, tasks)
         /\ RoundId \ drawn \subseteq Fresh(RoundId, rounds)
         /\ RetestId \ drawn \subseteq Fresh(RetestId, retests)
         /\ CertificateId \ drawn \subseteq Fresh(CertificateId, certificates)
  <1>1. /\ DOMAIN Memory["request"] \subseteq drawn /\ DOMAIN Memory["sample"] \subseteq drawn
        /\ DOMAIN Memory["subsample"] \subseteq drawn /\ DOMAIN Memory["custody"] \subseteq drawn
        /\ DOMAIN Memory["method"] \subseteq drawn /\ DOMAIN Memory["task"] \subseteq drawn
        /\ DOMAIN Memory["round"] \subseteq drawn /\ DOMAIN Memory["retest"] \subseteq drawn
        /\ DOMAIN Memory["certificate"] \subseteq drawn
    BY KindIs DEF PgInv, DrawnOK, CallsOpen
  <1> QED
    BY <1>1, MemoryIs DEF Fresh

\* The tables an operation leaves alone.
LEMMA RequestTable ==
  ASSUME UNCHANGED <<samples, subsamples, holding, custodies, methods, tasks, rounds,
                     retests, certificates>>
  PROVE  \A l \in Kind \ {"audit", "request"} : Memory'[l] = Memory[l]
  BY KindIs DEF Memory

LEMMA MethodTable ==
  ASSUME UNCHANGED <<requests, samples, subsamples, holding, custodies, tasks, rounds,
                     retests, certificates>>
  PROVE  \A l \in Kind \ {"audit", "method"} : Memory'[l] = Memory[l]
  BY KindIs DEF Memory

LEMMA CreateRequestStarts ==
  ASSUME PgInv, NEW u \in Users, NEW r \in RequestId \ drawn, NEW complete \in BOOLEAN,
         Transaction(CreateRequest(u, r, complete),
                     <<Save("request", r), Trail(u, "create", r)>>)
  PROVE  \E plan : Starts(plan)
  <1> DEFINE event == [actor |-> u, action |-> "create", object |-> r]
  <1>1. CreateRequest(u, r, complete) /\ Opened(<<Save("request", r), Save("audit", event)>>)
    BY DEF Transaction, Trail, Opened
  <1>2. Next
    BY <1>1, FreshIds DEF Next, IntakeNext
  <1>3. \A l \in Kind \ {"audit", "request"} : Memory'[l] = Memory[l]
    BY <1>1, RequestTable DEF CreateRequest, custodyVars, testingVars, certVars
  <1>4. audits' = audits \cup {event}
    BY <1>1 DEF CreateRequest, Audit
  <1>5. Extends("request", requests, requests', {r}) /\ r \in DOMAIN requests'
    <2>1. r \notin DOMAIN requests
      BY FreshIds DEF Fresh
    <2> QED
      BY <1>1, <2>1 DEF CreateRequest, Put, Extends, Later
  <1>6. Extends("request", Memory["request"], Memory'["request"], {r}) /\ r \in DOMAIN Memory'["request"]
    BY <1>5 DEF Memory
  <1>7. CallsOpen'
    BY <1>1 DEF CreateRequest, testingVars, PgInv, DrawnOK, CallsOpen
  <1>8. /\ event.object = r /\ Shows(event, "request", Memory'["request"][r])
        /\ Memory'["request"][r].status # "submitted"
    BY <1>1, <1>5 DEF CreateRequest, Shows, Memory, Put
  <1> HIDE DEF event
  <1> QED
    BY <1>1, <1>2, <1>3, <1>4, <1>6, <1>7, <1>8, SaveWithTrail, KindIs

LEMMA UpdateRequestStarts ==
  ASSUME PgInv, NEW u \in Users, NEW r \in DOMAIN requests, NEW complete \in BOOLEAN,
         Transaction(UpdateRequest(u, r, complete),
                     <<Save("request", r), Trail(u, "update", r)>>)
  PROVE  \E plan : Starts(plan)
  <1> DEFINE event == [actor |-> u, action |-> "update", object |-> r]
  <1>1. UpdateRequest(u, r, complete) /\ Opened(<<Save("request", r), Save("audit", event)>>)
    BY DEF Transaction, Trail, Opened
  <1>2. Next
    BY <1>1 DEF Next, IntakeNext
  <1>3. \A l \in Kind \ {"audit", "request"} : Memory'[l] = Memory[l]
    BY <1>1, RequestTable DEF UpdateRequest, custodyVars, testingVars, certVars
  <1>4. audits' = audits \cup {event}
    BY <1>1 DEF UpdateRequest, Audit
  <1>5. Extends("request", requests, requests', {r}) /\ r \in DOMAIN requests'
    <2>1. requests[r] \in Request
      BY DEF PgInv, TypeOK, IsMap
    <2>2. /\ requests'[r].revision = requests[r].revision + 1
          /\ requests[r].status = "draft"
          /\ DOMAIN requests' = DOMAIN requests
          /\ \A id \in DOMAIN requests \ {r} : requests'[id] = requests[id]
      BY <1>1, <2>1 DEF UpdateRequest, Editable, Request
    <2>3. Later("request", requests[r], requests'[r])
      BY <2>1, <2>2 DEF Later, Request
    <2> QED
      BY <2>2, <2>3 DEF Extends, Later
  <1>6. Extends("request", Memory["request"], Memory'["request"], {r}) /\ r \in DOMAIN Memory'["request"]
    BY <1>5 DEF Memory
  <1>7. CallsOpen'
    BY <1>1 DEF UpdateRequest, testingVars, PgInv, DrawnOK, CallsOpen
  <1>8. /\ event.object = r /\ Shows(event, "request", Memory'["request"][r])
        /\ Memory'["request"][r].status # "submitted"
    BY <1>1, <1>5 DEF UpdateRequest, Shows, Memory, Editable, PgInv, TypeOK, IsMap, Request
  <1> HIDE DEF event
  <1> QED
    BY <1>1, <1>2, <1>3, <1>4, <1>6, <1>7, <1>8, SaveWithTrail, KindIs

LEMMA SubmitRequestStarts ==
  ASSUME PgInv, NEW u \in Users, NEW r \in DOMAIN requests, NEW s \in SampleId \ drawn,
         NEW total \in Quantity,
         Transaction(SubmitRequest(u, r, s, total), SubmitPlan(u, r, s))
  PROVE  \E plan : Starts(plan)
  <1> DEFINE event == [actor |-> u, action |-> "submit", object |-> r]
             plan == <<Save("sample", s), Save("request", r), Save("audit", event)>>
  <1>1. SubmitRequest(u, r, s, total) /\ Opened(plan)
    BY DEF Transaction, SubmitPlan, Trail, Opened
  <1>2. Next
    BY <1>1, FreshIds DEF Next, IntakeNext
  <1>3. \A l \in Kind \ {"audit", "request", "sample"} : Memory'[l] = Memory[l]
    BY <1>1, KindIs DEF SubmitRequest, custodyVars, testingVars, certVars, Memory
  <1>4. audits' = audits \cup {event}
    BY <1>1 DEF SubmitRequest, Audit
  <1>5. s \notin DOMAIN samples
    BY FreshIds DEF Fresh
  <1>6. Extends("sample", samples, samples', {s}) /\ s \in DOMAIN samples'
    BY <1>1, <1>5 DEF SubmitRequest, Put, Extends, Later
  <1>7. Extends("request", requests, requests', {r}) /\ r \in DOMAIN requests'
    <2>1. requests[r] \in Request
      BY DEF PgInv, TypeOK, IsMap
    <2>2. /\ requests'[r].status = "submitted" /\ requests[r].status = "draft"
          /\ DOMAIN requests' = DOMAIN requests
          /\ \A id \in DOMAIN requests \ {r} : requests'[id] = requests[id]
      BY <1>1, <2>1 DEF SubmitRequest, Submittable, Request
    <2>3. Later("request", requests[r], requests'[r])
      BY <2>2, FixedAre DEF Later, Stage, Staged
    <2> QED
      BY <2>2, <2>3 DEF Extends, Later
  <1>8. CallsOpen'
    BY <1>1 DEF SubmitRequest, testingVars, PgInv, DrawnOK, CallsOpen
  <1>9. /\ Extends("sample", Memory["sample"], Memory'["sample"], {s}) /\ s \in DOMAIN Memory'["sample"]
        /\ Extends("request", Memory["request"], Memory'["request"], {r}) /\ r \in DOMAIN Memory'["request"]
    BY <1>6, <1>7 DEF Memory
  <1>10. /\ event.object = r /\ Shows(event, "request", Memory'["request"][r])
         /\ s = Memory'["request"][r].sample /\ Memory'["sample"][s].request = r
    <2>1. requests[r] \in Request
      BY DEF PgInv, TypeOK, IsMap
    <2>2. requests'[r].status = "submitted" /\ requests'[r].sample = s /\ samples'[s].request = r
      BY <1>1, <2>1 DEF SubmitRequest, Request, Put
    <2> QED
      BY <2>2 DEF Shows, Memory
  <1> HIDE DEF event
  <1> QED
    BY <1>1, <1>2, <1>3, <1>4, <1>8, <1>9, <1>10, SaveTwoWithTrail, KindIs

LEMMA SaveIs ==
  ASSUME NEW k, NEW id
  PROVE  Save(k, id).kind = k /\ Save(k, id).id = id
  BY DEF Save

\* A function from 1..n is a sequence.
LEMMA ListIsSeq ==
  ASSUME NEW n \in Nat, NEW all, NEW list \in [1..n -> all]
  PROVE  list \in Seq(all) /\ Len(list) = n
  OBVIOUS

\* Two more elements at the end of a sequence.
LEMMA TwoMore ==
  ASSUME NEW all, NEW list \in Seq(all), NEW rest \in Seq(all), Len(rest) = 2
  PROVE  /\ list \o rest \in Seq(all) /\ Len(list \o rest) = Len(list) + 2
         /\ \A i \in 1..Len(list) : (list \o rest)[i] = list[i]
         /\ (list \o rest)[Len(list) + 1] = rest[1]
         /\ (list \o rest)[Len(list) + 2] = rest[2]
  <1> DEFINE longer == list \o rest
  <1>1. /\ longer \in Seq(all) /\ Len(longer) = Len(list) + Len(rest)
        /\ \A i \in 1..Len(list) + Len(rest) :
             longer[i] = IF i <= Len(list) THEN list[i] ELSE rest[i - Len(list)]
    BY ConcatProperties, Zenon
  <1> HIDE DEF longer
  <1>2. /\ \A i \in 1..Len(list) : longer[i] = list[i]
        /\ longer[Len(list) + 1] = rest[1] /\ longer[Len(list) + 2] = rest[2]
    <2> DEFINE n == Len(list)
    <2>1. n \in Nat
      OBVIOUS
    <2>2. \A i \in 1..n + 2 :
            longer[i] = IF i <= n THEN list[i] ELSE rest[i - n]
      BY <1>1
    <2> HIDE DEF n
    <2>3. /\ \A i \in 1..n : longer[i] = list[i]
          /\ longer[n + 1] = rest[1] /\ longer[n + 2] = rest[2]
      BY <2>1, <2>2
    <2> QED
      BY <2>3 DEF n
  <1>3. longer \in Seq(all) /\ Len(longer) = Len(list) + 2
    BY <1>1
  <1> QED
    BY <1>2, <1>3, Zenon DEF longer

LEMMA SeqIsFunction ==
  ASSUME NEW all, NEW list \in Seq(all)
  PROVE  /\ DOMAIN list = 1..Len(list) /\ Len(list) \in Nat
         /\ list = [i \in 1..Len(list) |-> list[i]]
  OBVIOUS

SplitSaves(order, s, e) ==
  [i \in DOMAIN order |-> Save("subsample", order[i])] \o <<Save("sample", s), Save("audit", e)>>

\* Its subsamples in the order given, the sample, the event.
SplitShape(plan, order, n, s, e) ==
  /\ DOMAIN plan = 1..n + 2 /\ Len(plan) = n + 2
  /\ plan = [i \in 1..Len(plan) |-> plan[i]]
  /\ \A i \in 1..n :
       plan[i] = Save("subsample", order[i]) /\ plan[i].kind = "subsample" /\ plan[i].id = order[i]
  /\ plan[n + 1] = Save("sample", s) /\ plan[n + 1].kind = "sample" /\ plan[n + 1].id = s
  /\ plan[n + 2] = Save("audit", e) /\ plan[n + 2].kind = "audit" /\ plan[n + 2].id = e

LEMMA SplitShapeHolds ==
  ASSUME NEW n \in Nat, NEW order, DOMAIN order = 1..n, NEW s, NEW e
  PROVE  SplitShape(SplitSaves(order, s, e), order, n, s, e)
  <1> DEFINE plan  == SplitSaves(order, s, e)
             parts == [i \in 1..n |-> Save("subsample", order[i])]
             last  == Save("sample", s)
             trail == Save("audit", e)
             rest  == <<last, trail>>
             all   == {parts[i] : i \in 1..n} \cup {last, trail}
  <1>1. plan = parts \o rest
    BY DEF SplitSaves
  <1>2. parts \in [1..n -> all] /\ \A i \in 1..n : parts[i] = Save("subsample", order[i])
    OBVIOUS
  <1>3. last \in all /\ trail \in all
    OBVIOUS
  <1>4. /\ \A i \in 1..n : parts[i].kind = "subsample" /\ parts[i].id = order[i]
        /\ last.kind = "sample" /\ last.id = s /\ trail.kind = "audit" /\ trail.id = e
    BY SaveIs, Zenon
  <1>5. last = Save("sample", s) /\ trail = Save("audit", e)
    OBVIOUS
  <1> HIDE DEF plan, parts, last, trail, all
  <1>6. rest \in Seq(all) /\ Len(rest) = 2 /\ rest[1] = last /\ rest[2] = trail
    BY <1>3
  <1> HIDE DEF rest
  <1>7. parts \in Seq(all) /\ Len(parts) = n
    BY <1>2, ListIsSeq, Zenon
  <1>8. /\ plan \in Seq(all) /\ Len(plan) = n + 2
        /\ \A i \in 1..n : plan[i] = parts[i]
        /\ plan[n + 1] = last /\ plan[n + 2] = trail
    <2>1. /\ parts \o rest \in Seq(all) /\ Len(parts \o rest) = Len(parts) + 2
          /\ \A i \in 1..Len(parts) : (parts \o rest)[i] = parts[i]
          /\ (parts \o rest)[Len(parts) + 1] = rest[1]
          /\ (parts \o rest)[Len(parts) + 2] = rest[2]
      BY <1>6, <1>7, TwoMore, Zenon
    <2>2. /\ plan \in Seq(all) /\ Len(plan) = Len(parts) + 2
          /\ \A i \in 1..Len(parts) : plan[i] = parts[i]
          /\ plan[Len(parts) + 1] = rest[1] /\ plan[Len(parts) + 2] = rest[2]
      BY <1>1, <2>1, Zenon
    <2> QED
      BY <1>6, <1>7, <2>2, Zenon
  <1>9. DOMAIN plan = 1..n + 2 /\ plan = [i \in 1..Len(plan) |-> plan[i]]
    BY <1>8, SeqIsFunction, Zenon
  <1>10. SplitShape(plan, order, n, s, e)
    BY <1>2, <1>4, <1>5, <1>8, <1>9, Zenon DEF SplitShape
  <1> QED
    BY <1>10, Zenon DEF plan

\* n elements of the set, no two the same.
ListsOnce(order, n, set) ==
  /\ DOMAIN order = 1..n
  /\ \A i \in 1..n : order[i] \in set
  /\ \A i, j \in 1..n : order[i] = order[j] => i = j

\* The saves of a split are a plan.
LEMMA PlanOfSplit ==
  ASSUME NEW n \in Nat, NEW order, ListsOnce(order, n, DOMAIN Memory'["subsample"]),
         NEW s \in DOMAIN Memory'["sample"], NEW e \in DOMAIN Memory'["audit"],
         e.object = s, Shows(e, "sample", Memory'["sample"][s]),
         NEW plan, SplitShape(plan, order, n, s, e)
  PROVE  /\ Planned(plan) /\ OrderedThen(plan)
         /\ s \in Ids(plan, "sample") /\ e \in Ids(plan, "audit")
         /\ \A i \in 1..n : order[i] \in Ids(plan, "subsample")
  <1>1. /\ DOMAIN order = 1..n /\ \A i \in 1..n : order[i] \in DOMAIN Memory'["subsample"]
        /\ \A i, j \in 1..n : order[i] = order[j] => i = j
    BY DEF ListsOnce
  <1>2. /\ Len(plan) = n + 2
        /\ \A i \in 1..n : plan[i] = Save("subsample", order[i])
        /\ plan[n + 1] = Save("sample", s) /\ plan[n + 2] = Save("audit", e)
    BY Zenon DEF SplitShape
  <1>3. DOMAIN plan = 1..n + 2 /\ plan = [i \in 1..Len(plan) |-> plan[i]]
    BY Zenon DEF SplitShape
  <1>4. \A i \in 1..n : plan[i].kind = "subsample" /\ plan[i].id = order[i]
    BY Zenon DEF SplitShape
  <1>5. /\ plan[n + 1].kind = "sample" /\ plan[n + 1].id = s
        /\ plan[n + 2].kind = "audit" /\ plan[n + 2].id = e
    BY Zenon DEF SplitShape
  <1>6. \A i \in 1..Len(plan) : \E k \in Kind : \E id \in DOMAIN Memory'[k] : plan[i] = Save(k, id)
    <2>1. "sample" \in Kind /\ "subsample" \in Kind /\ "audit" \in Kind
      BY KindIs
    <2> SUFFICES ASSUME NEW i \in 1..Len(plan)
                 PROVE  \E k \in Kind : \E id \in DOMAIN Memory'[k] : plan[i] = Save(k, id)
      OBVIOUS
    <2>2. CASE i \in 1..n
      BY <1>1, <1>2, <2>1, <2>2
    <2>3. CASE i = n + 1
      BY <1>2, <2>1, <2>3
    <2>4. CASE i = n + 2
      BY <1>2, <2>1, <2>4
    <2> QED
      BY <1>2, <2>2, <2>3, <2>4
  <1>7. SavedOnce(plan)
    <2> SUFFICES ASSUME NEW i \in 1..n + 2, NEW j \in 1..n + 2,
                        plan[i].kind = plan[j].kind, plan[i].id = plan[j].id
                 PROVE  i = j
      <3>1. \A k \in 1..n + 2 : k \in 1..n \/ k = n + 1 \/ k = n + 2
        OBVIOUS
      <3>2. \A k \in 1..n + 2 : plan[k].kind # "certificate"
        BY <1>4, <1>5, <3>1
      <3> QED
        BY <1>2, <3>2 DEF SavedOnce
    <2>1. (i \in 1..n \/ i = n + 1 \/ i = n + 2) /\ (j \in 1..n \/ j = n + 1 \/ j = n + 2)
      OBVIOUS
    <2>2. CASE i \in 1..n
      <3>1. j \in 1..n
        BY <1>4, <1>5, <2>1, <2>2
      <3> QED
        BY <1>1, <1>4, <2>2, <3>1
    <2>3. CASE i \notin 1..n
      BY <1>4, <1>5, <2>1, <2>3
    <2> QED
      BY <2>2, <2>3
  <1>8. Planned(plan)
    <2>1. Len(plan) \in Nat \ {0}
      BY <1>2
    <2> QED
      BY <2>1, <1>3, <1>6, <1>7, Zenon DEF Planned
  <1>9. OrderedThen(plan)
    <2>1. \A i \in 1..Len(plan) : /\ plan[i].kind \notin {"request", "custody"}
                                  /\ plan[i].kind = "audit" => i = n + 2
      <3> SUFFICES ASSUME NEW i \in 1..n + 2
                   PROVE  /\ plan[i].kind \notin {"request", "custody"}
                          /\ plan[i].kind = "audit" => i = n + 2
        BY <1>2
      <3>1. i \in 1..n \/ i = n + 1 \/ i = n + 2
        OBVIOUS
      <3> QED
        BY <1>4, <1>5, <3>1
    <2>2. /\ n + 1 \in 1..(n + 2) - 1
          /\ plan[n + 1].kind # "audit" /\ plan[n + 1].id = plan[n + 2].id.object
          /\ Shows(plan[n + 2].id, plan[n + 1].kind, Memory'[plan[n + 1].kind][plan[n + 1].id])
      BY <1>5
    <2> QED
      BY <2>1, <2>2 DEF Ordered, OrderedThen
  <1>10. s \in Ids(plan, "sample")
    BY <1>3, <1>5 DEF Ids
  <1>11. e \in Ids(plan, "audit")
    BY <1>3, <1>5 DEF Ids
  <1>12. \A i \in 1..n : order[i] \in Ids(plan, "subsample")
    BY <1>3, <1>4 DEF Ids
  <1> QED
    BY <1>8, <1>9, <1>10, <1>11, <1>12

LEMMA SplitSampleStarts ==
  ASSUME PgInv, NEW u \in Users, NEW s \in DOMAIN samples,
         NEW new \in SUBSET (SubsampleId \ drawn), NEW parts \in [new -> Part],
         NEW order \in Bijection(1..Cardinality(new), new),
         Transaction(SplitSample(u, s, parts, 0, FALSE), SplitPlan(u, s, order))
  PROVE  \E plan : Starts(plan)
  <1> DEFINE event == [actor |-> u, action |-> "split", object |-> s]
             plan == SplitSaves(order, s, event)
             n == Cardinality(new)
  <1>1. SplitSample(u, s, parts, 0, FALSE) /\ Opened(plan)
    BY DEF Transaction, SplitPlan, Trail, Opened, SplitSaves
  <1>2. new \subseteq Fresh(SubsampleId, subsamples)
    BY FreshIds
  <1>3. Next
    BY <1>1, <1>2, PgAssumption DEF Next, IntakeNext
  <1>4. \A l \in Kind \ {"audit", "subsample", "sample"} : Memory'[l] = Memory[l]
    BY <1>1, KindIs DEF SplitSample, testingVars, certVars, Memory
  <1>5. audits' = audits \cup {event}
    BY <1>1 DEF SplitSample, Audit
  <1>6. Extends("sample", samples, samples', {s}) /\ s \in DOMAIN samples'
    <2>1. samples[s] \in Sample
      BY DEF PgInv, TypeOK, IsMap
    <2>2. /\ samples'[s] = [samples[s] EXCEPT !.status = "split"]
          /\ DOMAIN samples' = DOMAIN samples
          /\ \A id \in DOMAIN samples \ {s} : samples'[id] = samples[id]
      BY <1>1, <2>1 DEF SplitSample, Sample
    <2>3. Later("sample", samples[s], samples'[s])
      <3>1. CASE samples[s].status = "split"
        BY <2>1, <2>2, <3>1 DEF Later, Sample
      <3>2. CASE samples[s].status = "registered"
        <4>1. /\ samples'[s].status = "split" /\ samples'[s].request = samples[s].request
              /\ samples'[s].number = samples[s].number /\ samples'[s].total = samples[s].total
          BY <2>1, <2>2 DEF Sample
        <4> QED
          BY <3>2, <4>1, FixedAre DEF Later, Stage, Staged
      <3> QED
        BY <2>1, <3>1, <3>2 DEF Sample
    <2> QED
      BY <2>2, <2>3 DEF Extends, Later
  <1>7. /\ Extends("subsample", Memory["subsample"], Memory'["subsample"], new)
        /\ new \subseteq DOMAIN Memory'["subsample"]
    <2>1. /\ DOMAIN subsamples' = DOMAIN subsamples \cup new
          /\ \A x \in DOMAIN subsamples :
               subsamples'[x] = subsamples[x] /\ holding'[x] = holding[x]
      BY <1>1, <1>2 DEF SplitSample, PutAll, Fresh, PgInv, TypeOK
    <2>2. DOMAIN Memory'["subsample"] = DOMAIN subsamples' /\ DOMAIN Memory["subsample"] = DOMAIN subsamples
      BY DEF Memory
    <2>3. \A x \in DOMAIN subsamples : Memory'["subsample"][x] = Memory["subsample"][x]
      BY <2>1 DEF Memory
    <2> QED
      BY <2>1, <2>2, <2>3 DEF Extends, Later
  <1>8. CallsOpen'
    BY <1>1 DEF SplitSample, testingVars, PgInv, DrawnOK, CallsOpen
  <1>9. /\ n \in Nat /\ DOMAIN order = 1..n
        /\ \A i \in 1..n : order[i] \in new
        /\ \A i, j \in 1..n : order[i] = order[j] => i = j
        /\ \A x \in new : \E i \in 1..n : order[i] = x
    <2>1. DOMAIN parts = new
      OBVIOUS
    <2>2. IsFiniteSet(new) /\ n \in Nat
      BY <1>1, <2>1, FS_CardinalityType DEF SplitSample, ValidateSplit
    <2>3. order \in [1..n -> new] /\ order \in Injection(1..n, new) /\ order \in Surjection(1..n, new)
      BY DEF Bijection, Injection
    <2>4. \A i, j \in 1..n : order[i] = order[j] => i = j
      BY <2>3 DEF Injection, IsInjective
    <2> QED
      BY <2>2, <2>3, <2>4 DEF Surjection
  <1>10. event.object = s /\ Shows(event, "sample", Memory'["sample"][s])
    <2>1. samples[s] \in Sample
      BY DEF PgInv, TypeOK, IsMap
    <2>2. samples'[s].status = "split"
      BY <1>1, <2>1 DEF SplitSample, Sample
    <2> QED
      BY <2>2 DEF Shows, Memory
  <1> HIDE DEF event, n
  <1>11. s \in DOMAIN Memory'["sample"] /\ event \in DOMAIN Memory'["audit"]
    BY <1>5, <1>6 DEF Memory
  <1> HIDE DEF plan
  <1>12. /\ Planned(plan) /\ OrderedThen(plan)
         /\ s \in Ids(plan, "sample") /\ event \in Ids(plan, "audit")
         /\ \A i \in 1..n : order[i] \in Ids(plan, "subsample")
    <2>1. ListsOnce(order, n, DOMAIN Memory'["subsample"])
      BY <1>7, <1>9 DEF ListsOnce
    <2>2. SplitShape(plan, order, n, s, event)
      BY <1>9, SplitShapeHolds, Zenon DEF plan
    <2> QED
      BY <1>9, <1>10, <1>11, <2>1, <2>2, PlanOfSplit
  <1>13. \A l \in Kind : Extends(l, Memory[l], Memory'[l], Ids(plan, l))
    <2>1. Extends("sample", Memory["sample"], Memory'["sample"], {s})
      BY <1>6 DEF Memory
    <2>2. new \subseteq Ids(plan, "subsample")
      BY <1>9, <1>12
    <2>3. Extends("audit", Memory["audit"], Memory'["audit"], Ids(plan, "audit"))
      BY <1>5, <1>12 DEF Extends, Later, Memory
    <2> QED
      BY <1>4, <1>7, <1>12, <2>1, <2>2, <2>3 DEF Extends, Later
  <1> QED
    BY <1>1, <1>3, <1>8, <1>12, <1>13 DEF Starts, OrderedThen

-----------------------------------------------------------------------------
(* Custody.                                                                 *)

LEMMA CreateCustodyStarts ==
  ASSUME PgInv, NEW u \in Users, NEW c \in CustodyId \ drawn, NEW x \in DOMAIN subsamples,
         NEW to \in Users \cup {None}, NEW place \in Location,
         Transaction(CreateCustody(u, c, x, to, place),
                     <<Save("custody", c), Trail(u, "initiate", c)>>)
  PROVE  \E plan : Starts(plan)
  <1> DEFINE event == [actor |-> u, action |-> "initiate", object |-> c]
  <1>1. CreateCustody(u, c, x, to, place) /\ Opened(<<Save("custody", c), Save("audit", event)>>)
    BY DEF Transaction, Trail, Opened
  <1>2. Next
    BY <1>1, FreshIds DEF Next, CustodyNext
  <1>3. \A l \in Kind \ {"audit", "custody"} : Memory'[l] = Memory[l]
    BY <1>1, KindIs DEF CreateCustody, intakeVars, testingVars, certVars, Memory
  <1>4. audits' = audits \cup {event}
    BY <1>1 DEF CreateCustody, Audit
  <1>5. Extends("custody", custodies, custodies', {c}) /\ c \in DOMAIN custodies'
    <2>1. c \notin DOMAIN custodies
      BY FreshIds DEF Fresh
    <2> QED
      BY <1>1, <2>1 DEF CreateCustody, Put, Extends, Later
  <1>6. Extends("custody", Memory["custody"], Memory'["custody"], {c}) /\ c \in DOMAIN Memory'["custody"]
    BY <1>5 DEF Memory
  <1>7. CallsOpen'
    BY <1>1 DEF CreateCustody, testingVars, PgInv, DrawnOK, CallsOpen
  <1>8. /\ event.object = c /\ Shows(event, "custody", Memory'["custody"][c])
        /\ Memory'["custody"][c].status # "confirmed"
    BY <1>1, <1>5 DEF CreateCustody, Shows, Memory, Put
  <1> HIDE DEF event
  <1> QED
    BY <1>1, <1>2, <1>3, <1>4, <1>6, <1>7, <1>8, SaveWithTrail, KindIs

LEMMA ConfirmCustodyStarts ==
  ASSUME PgInv, NEW u \in Users, NEW c \in DOMAIN custodies,
         Transaction(ConfirmCustody(u, c), ConfirmPlan(u, c, custodies[c].subsample))
  PROVE  \E plan : Starts(plan)
  <1> DEFINE x == custodies[c].subsample
             event == [actor |-> u, action |-> "confirm", object |-> c]
             plan == <<Save("subsample", x), Save("custody", c), Save("audit", event)>>
  <1>1. ConfirmCustody(u, c) /\ Opened(plan)
    BY DEF Transaction, ConfirmPlan, Trail, Opened
  <1>2. Next
    BY <1>1 DEF Next, CustodyNext
  <1>3. \A l \in Kind \ {"audit", "subsample", "custody"} : Memory'[l] = Memory[l]
    BY <1>1, KindIs DEF ConfirmCustody, intakeVars, testingVars, certVars, Memory
  <1>4. audits' = audits \cup {event}
    BY <1>1 DEF ConfirmCustody, Audit
  <1>5. Extends("custody", custodies, custodies', {c}) /\ c \in DOMAIN custodies'
    <2>1. custodies[c] \in Custody
      BY DEF PgInv, TypeOK, IsMap
    <2>2. /\ custodies'[c] = [custodies[c] EXCEPT !.status = "confirmed"]
          /\ custodies[c].status = "pending"
          /\ DOMAIN custodies' = DOMAIN custodies
          /\ \A id \in DOMAIN custodies \ {c} : custodies'[id] = custodies[id]
      BY <1>1, <2>1 DEF ConfirmCustody, MayConfirm, Custody
    <2>3. Later("custody", custodies[c], custodies'[c])
      BY <2>1, <2>2, FixedAre DEF Later, Stage, Staged, Custody
    <2> QED
      BY <2>2, <2>3 DEF Extends, Later
  <1>6. /\ Extends("subsample", Memory["subsample"], Memory'["subsample"], {x})
        /\ x \in DOMAIN Memory'["subsample"]
    <2>1. /\ x \in DOMAIN subsamples /\ subsamples' = subsamples
          /\ DOMAIN holding = DOMAIN subsamples
          /\ holding' = Put(holding, x, Handover(u, custodies[c]))
      BY <1>1 DEF ConfirmCustody, intakeVars, PgInv, TypeOK
    <2>2. Handover(u, custodies[c]).holder # None
      BY StoreAssumption DEF Handover
    <2>3. /\ \A y \in DOMAIN subsamples \ {x} : holding'[y] = holding[y]
          /\ holding'[x].holder # None
      BY <2>1, <2>2 DEF Put
    <2>4. /\ DOMAIN Memory["subsample"] = DOMAIN subsamples
          /\ DOMAIN Memory'["subsample"] = DOMAIN subsamples
          /\ \A y \in DOMAIN subsamples :
               /\ Memory["subsample"][y] = [part |-> subsamples[y], held |-> holding[y]]
               /\ Memory'["subsample"][y] = [part |-> subsamples[y], held |-> holding'[y]]
      BY <2>1 DEF Memory
    <2>5. \A y \in DOMAIN subsamples :
            Later("subsample", Memory["subsample"][y], Memory'["subsample"][y])
      <3> SUFFICES ASSUME NEW y \in DOMAIN subsamples
                   PROVE  Later("subsample", Memory["subsample"][y], Memory'["subsample"][y])
        OBVIOUS
      <3>1. /\ Memory["subsample"][y] = [part |-> subsamples[y], held |-> holding[y]]
            /\ Memory'["subsample"][y] = [part |-> subsamples[y], held |-> holding'[y]]
        BY <2>4
      <3>2. \/ holding'[y] = holding[y]
            \/ holding'[y].holder # None
        BY <2>3
      <3>3. \/ Memory'["subsample"][y] = Memory["subsample"][y]
            \/ /\ Memory'["subsample"][y].part = Memory["subsample"][y].part
               /\ Memory'["subsample"][y].held.holder # None
        BY <3>1, <3>2
      <3> QED
        BY <3>3, Zenon DEF Later
    <2>6. \A y \in DOMAIN subsamples \ {x} : Memory'["subsample"][y] = Memory["subsample"][y]
      BY <2>3, <2>4
    <2> QED
      BY <2>1, <2>4, <2>5, <2>6 DEF Extends
  <1>7. CallsOpen'
    BY <1>1 DEF ConfirmCustody, testingVars, PgInv, DrawnOK, CallsOpen
  <1>8. /\ Extends("custody", Memory["custody"], Memory'["custody"], {c})
        /\ c \in DOMAIN Memory'["custody"]
    BY <1>5 DEF Memory
  <1>9. /\ event.object = c /\ Shows(event, "custody", Memory'["custody"][c])
        /\ x = Memory'["custody"][c].subsample /\ Memory'["subsample"][x].held.holder # None
    <2>1. custodies[c] \in Custody
      BY DEF PgInv, TypeOK, IsMap
    <2>2. /\ custodies'[c].status = "confirmed" /\ custodies'[c].to = u
          /\ custodies'[c].subsample = x
      BY <1>1, <2>1 DEF ConfirmCustody, MayConfirm, Custody
    <2>3. holding'[x].holder # None /\ x \in DOMAIN subsamples'
      BY <1>1, StoreAssumption DEF ConfirmCustody, Put, Handover, intakeVars
    <2> QED
      BY <2>2, <2>3 DEF Shows, Memory
  <1> HIDE DEF event, x
  <1> QED
    BY <1>1, <1>2, <1>3, <1>4, <1>6, <1>7, <1>8, <1>9, SaveTwoWithTrail, KindIs

-----------------------------------------------------------------------------
(* Testing.                                                                 *)

LEMMA CreateMethodStarts ==
  ASSUME PgInv, NEW u \in Users, NEW m \in MethodId \ drawn, NEW code \in MethodCode,
         NEW version \in 0..MaxVersion, NEW valid \in BOOLEAN,
         Transaction(CreateMethod(u, m, code, version, valid), <<Save("method", m), Trail(u, "create", m)>>)
  PROVE  \E plan : Starts(plan)
  <1> DEFINE event == [actor |-> u, action |-> "create", object |-> m]
  <1>1. CreateMethod(u, m, code, version, valid) /\ Opened(<<Save("method", m), Save("audit", event)>>)
    BY DEF Transaction, Trail, Opened
  <1>2. Next
    BY <1>1, FreshIds DEF Next, TestingNext, MethodNext
  <1>3. \A l \in Kind \ {"audit", "method"} : Memory'[l] = Memory[l]
    BY <1>1, MethodTable DEF CreateMethod, intakeVars, custodyVars, certVars
  <1>4. audits' = audits \cup {event}
    BY <1>1 DEF CreateMethod, Audit
  <1>5. Extends("method", methods, methods', {m}) /\ m \in DOMAIN methods'
    <2>1. m \notin DOMAIN methods
      BY FreshIds DEF Fresh
    <2> QED
      BY <1>1, <2>1 DEF CreateMethod, Put, Extends, Later
  <1>6. Extends("method", Memory["method"], Memory'["method"], {m}) /\ m \in DOMAIN Memory'["method"]
    BY <1>5 DEF Memory
  <1>7. CallsOpen'
    BY <1>1, <1>5 DEF CreateMethod, PgInv, DrawnOK, CallsOpen
  <1>8. event.object = m /\ Shows(event, "method", Memory'["method"][m])
    BY <1>1, <1>5 DEF CreateMethod, Shows, Memory, Put
  <1> HIDE DEF event
  <1> QED
    BY <1>1, <1>2, <1>3, <1>4, <1>6, <1>7, <1>8, SaveWithTrail, KindIs

LEMMA PublishMethodStarts ==
  ASSUME PgInv, NEW u \in Users, NEW m \in DOMAIN methods,
         Transaction(PublishMethod(u, m), <<Save("method", m), Trail(u, "publish", m)>>)
  PROVE  \E plan : Starts(plan)
  <1> DEFINE event == [actor |-> u, action |-> "publish", object |-> m]
  <1>1. PublishMethod(u, m) /\ Opened(<<Save("method", m), Save("audit", event)>>)
    BY DEF Transaction, Trail, Opened
  <1>2. Next
    BY <1>1 DEF Next, TestingNext, MethodNext
  <1>3. \A l \in Kind \ {"audit", "method"} : Memory'[l] = Memory[l]
    BY <1>1, MethodTable DEF PublishMethod, intakeVars, custodyVars, certVars
  <1>4. audits' = audits \cup {event}
    BY <1>1 DEF PublishMethod, Audit
  <1>5. Extends("method", methods, methods', {m}) /\ m \in DOMAIN methods'
    <2>1. methods[m] \in Method
      BY DEF PgInv, TypeOK, IsMap
    <2>2. /\ methods'[m] = [methods[m] EXCEPT !.status = "published"] /\ methods[m].status = "draft"
          /\ DOMAIN methods' = DOMAIN methods
          /\ \A id \in DOMAIN methods \ {m} : methods'[id] = methods[id]
      BY <1>1, <2>1 DEF PublishMethod, Method
    <2>3. Later("method", methods[m], methods'[m])
      BY <2>1, <2>2, FixedAre DEF Later, Stage, Staged, Method
    <2> QED
      BY <2>2, <2>3 DEF Extends, Later
  <1>6. Extends("method", Memory["method"], Memory'["method"], {m}) /\ m \in DOMAIN Memory'["method"]
    BY <1>5 DEF Memory
  <1>7. CallsOpen'
    BY <1>1, <1>5 DEF PublishMethod, PgInv, DrawnOK, CallsOpen
  <1>8. event.object = m /\ Shows(event, "method", Memory'["method"][m])
    BY <1>1, <1>5 DEF PublishMethod, Shows, Memory, PgInv, TypeOK, IsMap, Method
  <1> HIDE DEF event
  <1> QED
    BY <1>1, <1>2, <1>3, <1>4, <1>6, <1>7, <1>8, SaveWithTrail, KindIs

LEMMA FinishCreateTaskStarts ==
  ASSUME PgInv, NEW t \in DOMAIN creating,
         Transaction(FinishCreateTask(t), TaskPlan(creating[t].actor, t, "create"))
  PROVE  \E plan : Starts(plan)
  <1> DEFINE event == [actor |-> creating[t].actor, action |-> "create", object |-> t]
  <1>1. FinishCreateTask(t) /\ Opened(<<Save("task", t), Save("audit", event)>>)
    BY DEF Transaction, TaskPlan, Trail, Opened
  <1>2. Next
    BY <1>1 DEF Next, TestingNext, CreateTaskNext
  <1>3. \A l \in Kind \ {"audit", "task"} : Memory'[l] = Memory[l]
    BY <1>1, KindIs DEF FinishCreateTask, intakeVars, custodyVars, certVars, Memory
  <1>4. audits' = audits \cup {event}
    BY <1>1 DEF FinishCreateTask, Audit
  <1>5. Extends("task", tasks, tasks', {t}) /\ t \in DOMAIN tasks'
    <2>1. t \notin DOMAIN tasks
      BY DEF PgInv, DrawnOK, CallsOpen
    <2> QED
      BY <1>1, <2>1 DEF FinishCreateTask, Put, Extends, Later
  <1>6. Extends("task", Memory["task"], Memory'["task"], {t}) /\ t \in DOMAIN Memory'["task"]
    BY <1>5 DEF Memory
  <1>7. CallsOpen'
    BY <1>1 DEF FinishCreateTask, Put, Remove, PgInv, DrawnOK, CallsOpen
  <1>8. event.object = t /\ Shows(event, "task", Memory'["task"][t])
    BY <1>1, <1>5 DEF FinishCreateTask, Shows, Memory, Put
  <1> HIDE DEF event
  <1> QED
    BY <1>1, <1>2, <1>3, <1>4, <1>6, <1>7, <1>8, SaveWithTrail, KindIs

LEMMA StartTaskStarts ==
  ASSUME PgInv, NEW u \in Users, NEW t \in DOMAIN tasks,
         Transaction(StartTask(u, t), TaskPlan(u, t, "start"))
  PROVE  \E plan : Starts(plan)
  <1> DEFINE event == [actor |-> u, action |-> "start", object |-> t]
  <1>1. StartTask(u, t) /\ Opened(<<Save("task", t), Save("audit", event)>>)
    BY DEF Transaction, TaskPlan, Trail, Opened
  <1>2. Next
    BY <1>1 DEF Next, TestingNext, TaskNext
  <1>3. \A l \in Kind \ {"audit", "task"} : Memory'[l] = Memory[l]
    BY <1>1, KindIs DEF StartTask, intakeVars, custodyVars, certVars, Memory
  <1>4. audits' = audits \cup {event}
    BY <1>1 DEF StartTask, Audit
  <1>5. Extends("task", tasks, tasks', {t}) /\ t \in DOMAIN tasks'
    <2>1. tasks[t] \in Task
      BY DEF PgInv, TypeOK, IsMap
    <2>2. /\ tasks'[t] = [tasks[t] EXCEPT !.executor = u, !.round = 1, !.status = "in_progress"]
          /\ tasks[t].status = "pending"
          /\ DOMAIN tasks' = DOMAIN tasks
          /\ \A id \in DOMAIN tasks \ {t} : tasks'[id] = tasks[id]
      BY <1>1, <2>1 DEF StartTask, Task
    <2>3. Later("task", tasks[t], tasks'[t])
      BY <2>1, <2>2, FixedAre DEF Later, Stage, Staged, Task
    <2> QED
      BY <2>2, <2>3 DEF Extends, Later
  <1>6. Extends("task", Memory["task"], Memory'["task"], {t}) /\ t \in DOMAIN Memory'["task"]
    BY <1>5 DEF Memory
  <1>7. CallsOpen'
    BY <1>1, <1>5 DEF StartTask, PgInv, DrawnOK, CallsOpen
  <1>8. event.object = t /\ Shows(event, "task", Memory'["task"][t])
    BY <1>1, <1>5 DEF StartTask, Shows, Memory, PgInv, TypeOK, IsMap, Task
  <1> HIDE DEF event
  <1> QED
    BY <1>1, <1>2, <1>3, <1>4, <1>6, <1>7, <1>8, SaveWithTrail, KindIs

LEMMA SaveRoundStarts ==
  ASSUME PgInv, NEW u \in Users, NEW t \in DOMAIN tasks, NEW d \in RoundId \ drawn,
         NEW result \in Result,
         Transaction(SaveRound(u, t, d, result), <<Save("round", d), Trail(u, "record", d)>>)
  PROVE  \E plan : Starts(plan)
  <1> DEFINE event == [actor |-> u, action |-> "record", object |-> d]
  <1>1. SaveRound(u, t, d, result) /\ Opened(<<Save("round", d), Save("audit", event)>>)
    BY DEF Transaction, Trail, Opened
  <1>2. Next
    BY <1>1, FreshIds DEF Next, TestingNext, TaskNext
  <1>3. \A l \in Kind \ {"audit", "round"} : Memory'[l] = Memory[l]
    BY <1>1, KindIs DEF SaveRound, intakeVars, custodyVars, certVars, Memory
  <1>4. audits' = audits \cup {event}
    BY <1>1 DEF SaveRound, Audit
  <1>5. Extends("round", rounds, rounds', {d}) /\ d \in DOMAIN rounds'
    <2>1. d \notin DOMAIN rounds
      BY FreshIds DEF Fresh
    <2> QED
      BY <1>1, <2>1 DEF SaveRound, Put, Extends, Later
  <1>6. Extends("round", Memory["round"], Memory'["round"], {d}) /\ d \in DOMAIN Memory'["round"]
    BY <1>5 DEF Memory
  <1>7. CallsOpen'
    BY <1>1, <1>5 DEF SaveRound, PgInv, DrawnOK, CallsOpen
  <1>8. event.object = d /\ Shows(event, "round", Memory'["round"][d])
    BY <1>1, <1>5 DEF SaveRound, Shows, Memory, Put
  <1> HIDE DEF event
  <1> QED
    BY <1>1, <1>2, <1>3, <1>4, <1>6, <1>7, <1>8, SaveWithTrail, KindIs

LEMMA SubmitReviewStarts ==
  ASSUME PgInv, NEW u \in Users, NEW t \in DOMAIN tasks,
         Transaction(SubmitReview(u, t), TaskPlan(u, t, "submit_review"))
  PROVE  \E plan : Starts(plan)
  <1> DEFINE event == [actor |-> u, action |-> "submit_review", object |-> t]
  <1>1. SubmitReview(u, t) /\ Opened(<<Save("task", t), Save("audit", event)>>)
    BY DEF Transaction, TaskPlan, Trail, Opened
  <1>2. Next
    BY <1>1 DEF Next, TestingNext, TaskNext
  <1>3. \A l \in Kind \ {"audit", "task"} : Memory'[l] = Memory[l]
    BY <1>1, KindIs DEF SubmitReview, intakeVars, custodyVars, certVars, Memory
  <1>4. audits' = audits \cup {event}
    BY <1>1 DEF SubmitReview, Audit
  <1>5. Extends("task", tasks, tasks', {t}) /\ t \in DOMAIN tasks'
    <2>1. tasks[t] \in Task
      BY DEF PgInv, TypeOK, IsMap
    <2>2. /\ tasks'[t] = [tasks[t] EXCEPT !.status = "review"] /\ tasks[t].status = "in_progress"
          /\ DOMAIN tasks' = DOMAIN tasks
          /\ \A id \in DOMAIN tasks \ {t} : tasks'[id] = tasks[id]
      BY <1>1, <2>1 DEF SubmitReview, Task
    <2>3. Later("task", tasks[t], tasks'[t])
      BY <2>1, <2>2, FixedAre DEF Later, Stage, Staged, Task
    <2> QED
      BY <2>2, <2>3 DEF Extends, Later
  <1>6. Extends("task", Memory["task"], Memory'["task"], {t}) /\ t \in DOMAIN Memory'["task"]
    BY <1>5 DEF Memory
  <1>7. CallsOpen'
    BY <1>1, <1>5 DEF SubmitReview, PgInv, DrawnOK, CallsOpen
  <1>8. event.object = t /\ Shows(event, "task", Memory'["task"][t])
    BY <1>1, <1>5 DEF SubmitReview, Shows, Memory, PgInv, TypeOK, IsMap, Task
  <1> HIDE DEF event
  <1> QED
    BY <1>1, <1>2, <1>3, <1>4, <1>6, <1>7, <1>8, SaveWithTrail, KindIs

LEMMA ReviewStarts ==
  ASSUME PgInv, NEW u \in Users, NEW t \in DOMAIN tasks, NEW decision \in {"review_approve", "review_return"},
         Transaction(Review(u, t, decision), TaskPlan(u, t, decision))
  PROVE  \E plan : Starts(plan)
  <1> DEFINE event == [actor |-> u, action |-> decision, object |-> t]
  <1>1. Review(u, t, decision) /\ Opened(<<Save("task", t), Save("audit", event)>>)
    BY DEF Transaction, TaskPlan, Trail, Opened
  <1>2. Next
    BY <1>1 DEF Next, TestingNext, TaskNext
  <1>3. \A l \in Kind \ {"audit", "task"} : Memory'[l] = Memory[l]
    BY <1>1, KindIs DEF Review, intakeVars, custodyVars, certVars, Memory
  <1>4. audits' = audits \cup {event}
    BY <1>1 DEF Review, Audit
  <1>5. Extends("task", tasks, tasks', {t}) /\ t \in DOMAIN tasks'
    <2>1. tasks[t] \in Task
      BY DEF PgInv, TypeOK, IsMap
    <2>2. /\ tasks'[t] = [tasks[t] EXCEPT !.status = Verdict(decision)]
          /\ Verdict(decision) \in {"approved", "rejected"} /\ tasks[t].status = "review"
          /\ DOMAIN tasks' = DOMAIN tasks
          /\ \A id \in DOMAIN tasks \ {t} : tasks'[id] = tasks[id]
      BY <1>1, <2>1 DEF Review, MayReview, Verdict, Task
    <2>3. Later("task", tasks[t], tasks'[t])
      BY <2>1, <2>2, FixedAre DEF Later, Stage, Staged, Task
    <2> QED
      BY <2>2, <2>3 DEF Extends, Later
  <1>6. Extends("task", Memory["task"], Memory'["task"], {t}) /\ t \in DOMAIN Memory'["task"]
    BY <1>5 DEF Memory
  <1>7. CallsOpen'
    BY <1>1, <1>5 DEF Review, PgInv, DrawnOK, CallsOpen
  <1>8. event.object = t /\ Shows(event, "task", Memory'["task"][t])
    BY <1>1, <1>5 DEF Review, Shows, Memory, MayReview, Verdict, PgInv, TypeOK, IsMap, Task
  <1> HIDE DEF event
  <1> QED
    BY <1>1, <1>2, <1>3, <1>4, <1>6, <1>7, <1>8, SaveWithTrail, KindIs

-----------------------------------------------------------------------------
(* Certificates.                                                            *)

LEMMA IssueCertificateStarts ==
  ASSUME PgInv, NEW u \in Users, NEW c \in CertificateId \ drawn, NEW r \in DOMAIN requests,
         Transaction(IssueCertificate(u, c, r), <<Save("certificate", c), Trail(u, "issue", c)>>)
  PROVE  \E plan : Starts(plan)
  <1> DEFINE event == [actor |-> u, action |-> "issue", object |-> c]
  <1>1. IssueCertificate(u, c, r) /\ Opened(<<Save("certificate", c), Save("audit", event)>>)
    BY DEF Transaction, Trail, Opened
  <1>2. Next
    BY <1>1, FreshIds DEF Next, CertificationNext
  <1>3. \A l \in Kind \ {"audit", "certificate"} : Memory'[l] = Memory[l]
    BY <1>1, KindIs DEF IssueCertificate, intakeVars, custodyVars, testingVars, Memory
  <1>4. audits' = audits \cup {event}
    BY <1>1 DEF IssueCertificate, Audit
  <1>5. Extends("certificate", certificates, certificates', {c}) /\ c \in DOMAIN certificates'
    <2>1. c \notin DOMAIN certificates
      BY FreshIds DEF Fresh
    <2> QED
      BY <1>1, <2>1 DEF IssueCertificate, Put, Extends, Later
  <1>6. Extends("certificate", Memory["certificate"], Memory'["certificate"], {c}) /\ c \in DOMAIN Memory'["certificate"]
    BY <1>5 DEF Memory
  <1>7. CallsOpen'
    BY <1>1, <1>5 DEF IssueCertificate, testingVars, PgInv, DrawnOK, CallsOpen
  <1>8. event.object = c /\ Shows(event, "certificate", Memory'["certificate"][c])
    BY <1>1, <1>5 DEF IssueCertificate, Shows, Memory, Put
  <1> HIDE DEF event
  <1> QED
    BY <1>1, <1>2, <1>3, <1>4, <1>6, <1>7, <1>8, SaveWithTrail, KindIs

-----------------------------------------------------------------------------
(* Retests, and the calls that save nothing.                                *)

LEMMA FinishRetestStarts ==
  ASSUME PgInv, NEW q \in DOMAIN retesting,
         Transaction(FinishRetest(q), <<Save("retest", q)>>)
  PROVE  \E plan : Starts(plan)
  <1> DEFINE plan == <<Save("retest", q)>>
  <1>1. FinishRetest(q) /\ Opened(plan)
    BY DEF Transaction, Opened
  <1>2. Next
    BY <1>1 DEF Next, TestingNext, RetestNext
  <1>3. \A l \in Kind \ {"audit", "retest"} : Memory'[l] = Memory[l]
    BY <1>1, KindIs DEF FinishRetest, intakeVars, custodyVars, certVars, Memory
  <1>4. audits' = audits
    BY <1>1 DEF FinishRetest
  <1>5. Extends("retest", retests, retests', {q}) /\ q \in DOMAIN retests'
    <2>1. q \notin DOMAIN retests
      BY DEF PgInv, DrawnOK, CallsOpen
    <2> QED
      BY <1>1, <2>1 DEF FinishRetest, Put, Extends, Later
  <1>6. Extends("retest", Memory["retest"], Memory'["retest"], {q}) /\ q \in DOMAIN Memory'["retest"]
    BY <1>5 DEF Memory
  <1>7. CallsOpen'
    BY <1>1 DEF FinishRetest, Put, Remove, PgInv, DrawnOK, CallsOpen
  <1>8. /\ Len(plan) = 1 /\ DOMAIN plan = 1..1 /\ plan = [i \in 1..Len(plan) |-> plan[i]]
        /\ plan[1] = Save("retest", q)
    OBVIOUS
  <1>9. plan[1].kind = "retest" /\ plan[1].id = q
    BY <1>8 DEF Save
  <1> HIDE DEF plan
  <1>10. Planned(plan) /\ Ordered(plan, Memory') /\ q \in Ids(plan, "retest")
    BY <1>6, <1>8, <1>9, KindIs DEF Planned, SavedOnce, Ordered, Ids
  <1>11. Memory'["audit"] = Memory["audit"]
    BY <1>4 DEF Memory
  <1>12. \A l \in Kind : Extends(l, Memory[l], Memory'[l], Ids(plan, l))
    BY <1>3, <1>6, <1>10, <1>11 DEF Extends, Later
  <1> QED
    BY <1>1, <1>2, <1>7, <1>10, <1>12 DEF Starts

LEMMA RefuseSubmitQuiet ==
  ASSUME PgInv, NEW u \in Users, NEW r \in DOMAIN requests, NEW total \in Quantity,
         Call(RefuseSubmit(u, r, total))
  PROVE  Quiet
  <1>1. RefuseSubmit(u, r, total) /\ UNCHANGED <<rows, saves, saved, failures, cut, drawn, answered>>
    BY DEF Call, runVars, logVars
  <1>2. Next
    BY <1>1 DEF Next, IntakeNext
  <1>3. Memory' = Memory
    BY <1>1 DEF Memory, RefuseSubmit, custodyVars, testingVars, certVars
  <1>4. CallsOpen'
    BY <1>1 DEF RefuseSubmit, testingVars, PgInv, DrawnOK, CallsOpen
  <1> QED
    BY <1>1, <1>2, <1>3, <1>4 DEF Quiet

LEMMA BeginCreateTaskQuiet ==
  ASSUME PgInv, NEW u \in Users, NEW t \in (TaskId \ drawn) \ DOMAIN creating,
         NEW r \in DOMAIN requests \cup {None}, NEW x \in DOMAIN subsamples,
         NEW m \in DOMAIN methods, NEW assignee \in Users \cup {None},
         Call(BeginCreateTask(u, t, r, x, m, assignee))
  PROVE  Quiet
  <1>1. /\ BeginCreateTask(u, t, r, x, m, assignee)
        /\ UNCHANGED <<rows, saves, saved, failures, cut, drawn, answered>>
    BY DEF Call, runVars, logVars
  <1>2. t \notin DOMAIN tasks /\ t \in Fresh(TaskId, tasks) \cap Fresh(TaskId, creating)
    BY FreshIds DEF Fresh
  <1>3. Next
    BY <1>1, <1>2 DEF Next, TestingNext, CreateTaskNext
  <1>4. Memory' = Memory
    BY <1>1 DEF Memory, BeginCreateTask, intakeVars, custodyVars, certVars
  <1>5. CallsOpen'
    <2>1. DOMAIN creating' = DOMAIN creating \cup {t}
      BY <1>1 DEF BeginCreateTask, Put
    <2> QED
      BY <1>1, <1>2, <2>1 DEF BeginCreateTask, PgInv, DrawnOK, CallsOpen
  <1> QED
    BY <1>1, <1>3, <1>4, <1>5 DEF Quiet

LEMMA BeginRetestQuiet ==
  ASSUME PgInv, NEW u \in Users, NEW t \in DOMAIN tasks,
         NEW q \in (RetestId \ drawn) \ DOMAIN retesting,
         Call(BeginRetest(u, t, q))
  PROVE  Quiet
  <1>1. BeginRetest(u, t, q) /\ UNCHANGED <<rows, saves, saved, failures, cut, drawn, answered>>
    BY DEF Call, runVars, logVars
  <1>2. q \notin DOMAIN retests /\ q \in Fresh(RetestId, retests) \cap Fresh(RetestId, retesting)
    BY FreshIds DEF Fresh
  <1>3. Next
    BY <1>1, <1>2 DEF Next, TestingNext, RetestNext
  <1>4. Memory' = Memory
    BY <1>1 DEF Memory, BeginRetest, intakeVars, custodyVars, certVars
  <1>5. CallsOpen'
    <2>1. DOMAIN retesting' = DOMAIN retesting \cup {q}
      BY <1>1 DEF BeginRetest, Put
    <2> QED
      BY <1>1, <1>2, <2>1 DEF BeginRetest, PgInv, DrawnOK, CallsOpen
  <1> QED
    BY <1>1, <1>3, <1>4, <1>5 DEF Quiet

-----------------------------------------------------------------------------
(* Every step.                                                              *)

LEMMA IntakeStarts ==
  ASSUME PgInv, NEW u \in Users, PgIntake(u) PROVE Quiet \/ \E plan : Starts(plan)
  <1>1. ASSUME NEW r \in RequestId \ drawn, NEW complete \in BOOLEAN,
               Transaction(CreateRequest(u, r, complete),
                           <<Save("request", r), Trail(u, "create", r)>>)
        PROVE  \E plan : Starts(plan)
    BY <1>1, CreateRequestStarts
  <1>2. ASSUME NEW r \in DOMAIN requests, NEW complete \in BOOLEAN,
               Transaction(UpdateRequest(u, r, complete),
                           <<Save("request", r), Trail(u, "update", r)>>)
        PROVE  \E plan : Starts(plan)
    BY <1>2, UpdateRequestStarts
  <1>3. ASSUME NEW r \in DOMAIN requests, NEW total \in Quantity,
               NEW s \in SampleId \ drawn,
               Transaction(SubmitRequest(u, r, s, total), SubmitPlan(u, r, s))
        PROVE  \E plan : Starts(plan)
    BY <1>3, SubmitRequestStarts
  <1>4. ASSUME NEW r \in DOMAIN requests, NEW total \in Quantity,
               Call(RefuseSubmit(u, r, total))
        PROVE  Quiet
    BY <1>4, RefuseSubmitQuiet
  <1>5. ASSUME NEW s \in DOMAIN samples, NEW new \in SUBSET (SubsampleId \ drawn),
               NEW parts \in [new -> Part], NEW order \in Bijection(1..Cardinality(new), new),
               Transaction(SplitSample(u, s, parts, 0, FALSE), SplitPlan(u, s, order))
        PROVE  \E plan : Starts(plan)
    BY <1>5, SplitSampleStarts
  <1> QED
    BY <1>1, <1>2, <1>3, <1>4, <1>5 DEF PgIntake

LEMMA CustodyStarts ==
  ASSUME PgInv, NEW u \in Users, PgCustody(u) PROVE \E plan : Starts(plan)
  BY CreateCustodyStarts, ConfirmCustodyStarts DEF PgCustody, Present

LEMMA MethodsStart ==
  ASSUME PgInv, NEW u \in Users, PgMethods(u) PROVE \E plan : Starts(plan)
  BY CreateMethodStarts, PublishMethodStarts DEF PgMethods

LEMMA TasksStart ==
  ASSUME PgInv, NEW u \in Users, PgTasks(u) PROVE Quiet \/ \E plan : Starts(plan)
  <1>1. ASSUME NEW t \in (TaskId \ drawn) \ DOMAIN creating, NEW r \in DOMAIN requests \cup {None},
               NEW x \in DOMAIN subsamples, NEW m \in DOMAIN methods,
               NEW assignee \in Present \cup {None},
               Call(BeginCreateTask(u, t, r, x, m, assignee))
        PROVE  Quiet
    <2>1. assignee \in Users \cup {None}
      BY DEF Present
    <2> QED
      BY <1>1, <2>1, BeginCreateTaskQuiet
  <1>2. ASSUME NEW t \in DOMAIN creating,
               Transaction(FinishCreateTask(t), TaskPlan(creating[t].actor, t, "create"))
        PROVE  \E plan : Starts(plan)
    BY <1>2, FinishCreateTaskStarts
  <1>3. ASSUME NEW t \in DOMAIN tasks,
               \/ Transaction(StartTask(u, t), TaskPlan(u, t, "start"))
               \/ \E d \in RoundId \ drawn, result \in Result :
                    Transaction(SaveRound(u, t, d, result),
                                <<Save("round", d), Trail(u, "record", d)>>)
               \/ Transaction(SubmitReview(u, t), TaskPlan(u, t, "submit_review"))
               \/ \E decision \in {"review_approve", "review_return"} :
                    Transaction(Review(u, t, decision), TaskPlan(u, t, decision))
        PROVE  \E plan : Starts(plan)
    BY <1>3, StartTaskStarts, SaveRoundStarts, SubmitReviewStarts, ReviewStarts
  <1>4. ASSUME NEW t \in DOMAIN tasks, NEW q \in (RetestId \ drawn) \ DOMAIN retesting,
               Call(BeginRetest(u, t, q))
        PROVE  Quiet
    BY <1>4, BeginRetestQuiet
  <1>5. ASSUME NEW q \in DOMAIN retesting,
               Transaction(FinishRetest(q), <<Save("retest", q)>>)
        PROVE  \E plan : Starts(plan)
    BY <1>5, FinishRetestStarts
  <1> QED
    BY <1>1, <1>2, <1>3, <1>4, <1>5 DEF PgTasks

LEMMA CertificatesStart ==
  ASSUME PgInv, NEW u \in Users, PgCertificates(u) PROVE \E plan : Starts(plan)
  BY IssueCertificateStarts DEF PgCertificates

\* A step starts a transaction of the laboratory, saves nothing, or is one of
\* the repository's own.
LEMMA StepKinds ==
  ASSUME PgInv, [PgNext]_pgVars
  PROVE  Quiet \/ (\E plan : Starts(plan)) \/ Persist \/ FailPersist \/ Restart
  <1>1. ASSUME NEW u \in Present, PgIntake(u) \/ PgCustody(u) \/ PgMethods(u) \/ PgTasks(u)
                                    \/ PgCertificates(u)
        PROVE  Quiet \/ \E plan : Starts(plan)
    BY <1>1, IntakeStarts, CustodyStarts, MethodsStart, TasksStart, CertificatesStart DEF Present
  <1>2. CASE UNCHANGED pgVars
    <2>1. UNCHANGED vars /\ UNCHANGED <<rows, saves, saved, failures, cut, drawn, answered>>
      BY <1>2 DEF pgVars, runVars, logVars
    <2>2. Memory' = Memory
      BY <2>1 DEF vars, intakeVars, custodyVars, testingVars, certVars, Memory
    <2>3. CallsOpen'
      BY <2>1 DEF vars, testingVars, PgInv, DrawnOK, CallsOpen
    <2> QED
      BY <2>1, <2>2, <2>3 DEF Quiet
  <1> QED
    BY <1>1, <1>2 DEF PgNext

LEMMA KindStays == Kind' = Kind
  <1>1. (Kind = {"request", "sample", "subsample", "custody", "method", "task",
                 "round", "retest", "certificate", "audit"})'
    BY KindIs, PTL
  <1> QED
    BY <1>1, KindIs

\* What a transaction does to the tables, and what its saves are.
LEMMA StartsTables ==
  ASSUME PgInv, NEW plan, Starts(plan)
  PROVE  /\ TypeOK' /\ TablesOK(Memory) /\ TablesOK(Memory') /\ TablesOK(Memory)'
         /\ Grown(Memory, Memory')
         /\ saves' = plan /\ saved = 0 /\ saved' = 0
         /\ plan = [i \in 1..Len(plan) |-> plan[i]] /\ Len(plan) \in Nat \ {0}
         /\ \A i \in 1..Len(plan) :
              /\ plan[i].kind \in Kind /\ plan[i].id \in DOMAIN Memory'[plan[i].kind]
              /\ plan[i].old = IF plan[i].id \in DOMAIN Memory[plan[i].kind]
                               THEN {Memory[plan[i].kind][plan[i].id]} ELSE {}
  <1>1. TypeOK'
    BY TypeNext DEF PgInv, Starts
  <1>2. TablesOK(Memory) /\ TablesOK(Memory)'
    <2>1. TablesOK(Memory)
      BY MemoryTyped DEF PgInv
    <2>2. TablesOK(Memory)'
      BY <1>1, MemoryTyped, PTL
    <2> QED
      BY <2>1, <2>2
  <1>3. TablesOK(Memory')
    BY <1>2, KindStays DEF TablesOK
  <1>4. Grown(Memory, Memory')
    BY DEF Starts, Extends, Grown
  <1>5. /\ saves' = plan /\ saved = 0 /\ saved' = 0
        /\ plan = [i \in 1..Len(plan) |-> plan[i]] /\ Len(plan) \in Nat \ {0}
    BY DEF Starts, Opened, Planned, PgInv, RunOK
  <1>6. ASSUME NEW i \in 1..Len(plan)
        PROVE  /\ plan[i].kind \in Kind /\ plan[i].id \in DOMAIN Memory'[plan[i].kind]
               /\ plan[i].old = IF plan[i].id \in DOMAIN Memory[plan[i].kind]
                               THEN {Memory[plan[i].kind][plan[i].id]} ELSE {}
    <2>1. PICK k \in Kind : \E id \in DOMAIN Memory'[k] : plan[i] = Save(k, id)
      BY DEF Starts, Planned
    <2>2. PICK id \in DOMAIN Memory'[k] : plan[i] = Save(k, id)
      BY <2>1
    <2>3. /\ plan[i].kind = k /\ plan[i].id = id
          /\ plan[i].old = IF id \in DOMAIN Memory[k] THEN {Memory[k][id]} ELSE {}
      BY <2>2 DEF Save
    <2> QED
      BY <2>3
  <1> QED
    BY <1>1, <1>2, <1>3, <1>4, <1>5, <1>6

-----------------------------------------------------------------------------
(* What was answered stays.                                                 *)

\* A transaction that starts keeps the invariant.
LEMMA StartsKeep ==
  ASSUME PgInv, NEW plan, Starts(plan) PROVE PgInv'
  <1> SUFFICES ASSUME TablesOK(rows), TablesOK(answered),
                      Grown(answered, rows), Grown(answered, Memory),
                      \A k \in Kind \ {"audit"} : DOMAIN Memory[k] \subseteq drawn
                                                  /\ DOMAIN rows[k] \subseteq drawn
               PROVE  PgInv'
    BY DEF PgInv, DrawnOK
  <1>1. /\ TypeOK' /\ TablesOK(Memory) /\ TablesOK(Memory') /\ Grown(Memory, Memory')
        /\ saves' = plan /\ saved' = 0
        /\ plan = [i \in 1..Len(plan) |-> plan[i]] /\ Len(plan) \in Nat \ {0}
    BY StartsTables
  <1>2. \A i \in 1..Len(plan) :
          /\ plan[i].kind \in Kind /\ plan[i].id \in DOMAIN Memory'[plan[i].kind]
          /\ plan[i].old = IF plan[i].id \in DOMAIN Memory[plan[i].kind]
                           THEN {Memory[plan[i].kind][plan[i].id]} ELSE {}
    BY StartsTables
  <1>3. UNCHANGED <<rows, answered>>
    BY DEF Starts, Opened
  <1>4. Grown(answered, Memory')
    BY <1>1, GrownTransitive
  <1>5. ASSUME NEW i \in 1..Len(plan)
        PROVE  SaveOK(plan[i])'
    <2> DEFINE k == plan[i].kind
               id == plan[i].id
    <2>0. /\ k \in Kind /\ id \in DOMAIN Memory'[k]
          /\ plan[i].old = IF id \in DOMAIN Memory[k] THEN {Memory[k][id]} ELSE {}
      BY <1>2
    <2> HIDE DEF k, id
    <2>1. id \in DOMAIN Memory[k] => Memory[k][id] \in RecordOf[k]
      BY <2>0, <1>1 DEF TablesOK, IsMap
    <2>2. k = "audit" /\ id \in DOMAIN Memory[k] => Memory[k][id] = id
      BY <2>0, <1>1 DEF TablesOK
    <2>3. id \in DOMAIN answered[k] =>
            id \in DOMAIN Memory[k] /\ Later(k, answered[k][id], Memory[k][id])
      BY <2>0 DEF Grown
    <2>4. /\ plan[i].old \subseteq RecordOf[k]
          /\ k = "audit" => plan[i].old \subseteq {id}
          /\ plan[i].old = {} => id \notin DOMAIN answered[k]
          /\ id \in DOMAIN answered[k] =>
               \A r \in plan[i].old : Later(k, answered[k][id], r)
      BY <2>0, <2>1, <2>2, <2>3
    <2> QED
      BY <1>3, KindStays, <2>0, <2>4 DEF SaveOK, k, id
  <1>6. (\A i \in 1..Len(saves) : SaveOK(saves[i]))'
    <2>1. ASSUME NEW i \in 1..Len(plan) PROVE SaveOK(saves[i])'
      BY <1>1, <1>5 DEF SaveOK
    <2> QED
      BY <1>1, <2>1
  <1>7. \A k \in Kind \ {"audit"} :
          DOMAIN Memory'[k] \subseteq drawn' /\ DOMAIN rows'[k] \subseteq drawn'
    <2>1. \A k \in Kind \ {"audit"} : Ids(plan, k) \subseteq drawn' /\ drawn \subseteq drawn'
      BY DEF Ids, Starts, Opened
    <2>2. \A k \in Kind : DOMAIN Memory'[k] \subseteq DOMAIN Memory[k] \cup Ids(plan, k)
      BY DEF Starts, Extends
    <2> QED
      BY <1>3, <2>1, <2>2
  <1>8. TablesOK(rows)' /\ TablesOK(answered)' /\ Grown(answered, rows)' /\ Grown(answered, Memory)'
    BY <1>3, <1>4, KindStays DEF TablesOK, Grown
  <1>9. RunOK'
    BY <1>1, <1>6 DEF RunOK
  <1>10. DrawnOK'
    <2>1. (\A k \in Kind \ {"audit"} : DOMAIN Memory[k] \subseteq drawn /\ DOMAIN rows[k] \subseteq drawn)'
      BY <1>7, KindStays
    <2>2. CallsOpen'
      BY DEF Starts
    <2> QED
      BY <2>1, <2>2 DEF DrawnOK
  <1> QED
    BY <1>1, <1>8, <1>9, <1>10 DEF PgInv

LEMMA QuietKeeps == PgInv /\ Quiet => PgInv'
  <1> SUFFICES ASSUME PgInv, Quiet PROVE PgInv'
    OBVIOUS
  <1>1. /\ [Next]_vars /\ Memory' = Memory /\ CallsOpen'
        /\ UNCHANGED <<rows, saves, saved, drawn, answered>>
    BY DEF Quiet
  <1>2. TypeOK'
    BY <1>1, TypeNext DEF PgInv
  <1>3. (TablesOK(rows) /\ TablesOK(answered) /\ Grown(answered, rows) /\ Grown(answered, Memory))'
    BY <1>1, KindStays DEF PgInv, TablesOK, Grown
  <1>4. RunOK'
    BY <1>1, KindStays DEF PgInv, RunOK, SaveOK
  <1>5. DrawnOK'
    BY <1>1, KindStays DEF PgInv, DrawnOK
  <1> QED
    BY <1>2, <1>3, <1>4, <1>5 DEF PgInv

\* With no transaction under way.
LEMMA RunEnds == saves' = <<>> /\ saved' = 0 => RunOK'
  <1> SUFFICES ASSUME saves' = <<>>, saved' = 0 PROVE RunOK'
    OBVIOUS
  <1>1. Len(saves') = 0 /\ saves' = [i \in 1..Len(saves') |-> saves'[i]] /\ 1..saved' = {}
    OBVIOUS
  <1> QED
    BY <1>1 DEF RunOK

\* The save to be made now puts that record of the memory into its row.
PutsRow(k, id) ==
  /\ saved + 1 \in 1..Len(saves) /\ saves[saved + 1].kind = k /\ saves[saved + 1].id = id
  /\ k \in Kind /\ id \in DOMAIN Memory[k]
  /\ Memory' = Memory /\ Kind' = Kind /\ TablesOK(rows')
  /\ id \in DOMAIN rows'[k] /\ rows'[k][id] = Memory[k][id]
  /\ \A l \in Kind :
       /\ DOMAIN rows[l] \subseteq DOMAIN rows'[l]
       /\ \A jd \in DOMAIN rows'[l] :
            \/ l = k /\ jd = id
            \/ jd \in DOMAIN rows[l] /\ rows'[l][jd] = rows[l][jd]
  /\ \A i \in 1..saved + 1 :
       /\ saves[i].id \in DOMAIN rows'[saves[i].kind]
       /\ rows'[saves[i].kind][saves[i].id] = Memory[saves[i].kind][saves[i].id]

LEMMA PersistPuts == PgInv /\ Persist => \E k, id : PutsRow(k, id)
  <1> SUFFICES ASSUME PgInv, Persist PROVE \E k, id : PutsRow(k, id)
    OBVIOUS
  <1> DEFINE save == saves[saved + 1]
             k == save.kind
             id == save.id
  <1>1. Memory' = Memory /\ Kind' = Kind
    BY DEF Persist, vars, intakeVars, custodyVars, testingVars, certVars, Memory, Kind
  <1>2. /\ saved \in Nat /\ Len(saves) \in Nat /\ saved < Len(saves)
        /\ DOMAIN saves = 1..Len(saves)
        /\ \A i \in 1..Len(saves) : SaveOK(saves[i])
        /\ \A i \in 1..saved :
             /\ saves[i].id \in DOMAIN rows[saves[i].kind]
             /\ rows[saves[i].kind][saves[i].id] = Memory[saves[i].kind][saves[i].id]
    BY DEF PgInv, RunOK, Persist
  <1>3. saved + 1 \in 1..Len(saves)
    BY <1>2
  <1>4. k \in Kind /\ id \in DOMAIN Memory[k]
    BY <1>2, <1>3 DEF SaveOK
  <1>5. /\ TablesOK(Memory) /\ TablesOK(rows) /\ TablesOK(answered)
        /\ Grown(answered, rows) /\ Grown(answered, Memory)
    BY MemoryTyped DEF PgInv
  <1> HIDE DEF save, k, id
  <1>6. /\ rows' = [l \in Kind |-> rows'[l]]
        /\ rows'[k] = Put(rows[k], id, Memory[k][id])
        /\ \A l \in Kind \ {k} : rows'[l] = rows[l]
    <2>1. rows' = [rows EXCEPT ![k] = Put(rows[k], id, Memory[k][id])]
      BY DEF Persist, Written, save, k, id
    <2> QED
      BY <1>4, <1>5, <2>1 DEF TablesOK
  <1>7. /\ id \in DOMAIN rows'[k] /\ rows'[k][id] = Memory[k][id]
        /\ \A l \in Kind :
             /\ DOMAIN rows[l] \subseteq DOMAIN rows'[l]
             /\ \A jd \in DOMAIN rows'[l] :
                  \/ l = k /\ jd = id
                  \/ jd \in DOMAIN rows[l] /\ rows'[l][jd] = rows[l][jd]
    BY <1>4, <1>6 DEF Put
  <1>8. TablesOK(rows')
    <2>1. \A l \in Kind : IsMap(rows'[l], KeyOf[l], RecordOf[l])
      <3>1. IsMap(rows'[k], KeyOf[k], RecordOf[k])
        <4>1. id \in KeyOf[k] /\ Memory[k][id] \in RecordOf[k]
          BY <1>4, <1>5 DEF TablesOK, IsMap
        <4>2. IsMap(rows[k], KeyOf[k], RecordOf[k])
          BY <1>4, <1>5 DEF TablesOK
        <4> QED
          BY <1>6, <4>1, <4>2, PutIsMap
      <3> QED
        BY <1>5, <1>6, <3>1 DEF TablesOK
    <2>2. \A e \in DOMAIN rows'["audit"] : rows'["audit"][e] = e
      <3>1. CASE k = "audit"
        <4>1. Memory["audit"][id] = id
          BY <1>4, <1>5, <3>1 DEF TablesOK
        <4> QED
          BY <1>5, <1>6, <3>1, <4>1 DEF TablesOK, Put
      <3>2. CASE k # "audit"
        BY <1>5, <1>6, <3>2, KindIs DEF TablesOK
      <3> QED
        BY <3>1, <3>2
    <2>3. IsFiniteSet(DOMAIN rows'["certificate"])
      <3>1. CASE k = "certificate"
        <4>1. DOMAIN rows'["certificate"] = DOMAIN rows["certificate"] \cup {id}
          BY <1>6, <3>1 DEF Put
        <4> QED
          BY <1>5, <4>1, FS_AddElement DEF TablesOK
      <3>2. CASE k # "certificate"
        BY <1>5, <1>6, <3>2, KindIs DEF TablesOK
      <3> QED
        BY <3>1, <3>2
    <2> QED
      BY <1>6, <2>1, <2>2, <2>3 DEF TablesOK
  <1>9. \A i \in 1..saved + 1 :
           /\ saves[i].id \in DOMAIN rows'[saves[i].kind]
           /\ rows'[saves[i].kind][saves[i].id] = Memory[saves[i].kind][saves[i].id]
    <2> SUFFICES ASSUME NEW i \in 1..saved + 1
                 PROVE  /\ saves[i].id \in DOMAIN rows'[saves[i].kind]
                        /\ rows'[saves[i].kind][saves[i].id] = Memory[saves[i].kind][saves[i].id]
      OBVIOUS
    <2>1. CASE i = saved + 1
      BY <1>7, <2>1 DEF save, k, id
    <2>2. CASE i \in 1..saved
      <3>1. saves[i].kind \in Kind
        BY <1>2, <2>2 DEF SaveOK
      <3> QED
        BY <1>2, <1>7, <2>2, <3>1
    <2> QED
      BY <1>2, <2>1, <2>2
  <1>10. PutsRow(k, id)
    BY <1>1, <1>3, <1>4, <1>7, <1>8, <1>9 DEF PutsRow, save, k, id
  <1> QED
    BY <1>10

LEMMA PersistKeeps == PgInv /\ Persist => PgInv'
  <1> SUFFICES ASSUME PgInv, Persist PROVE PgInv'
    OBVIOUS
  <1>1. PICK k, id : PutsRow(k, id)
    BY PersistPuts
  <1> DEFINE done == [l \in Kind |-> {saves[i].id : i \in {j \in DOMAIN saves : saves[j].kind = l}}]
  <1>2. Memory' = Memory /\ Kind' = Kind
    BY <1>1 DEF PutsRow
  <1>3. TypeOK'
    BY DEF PgInv, Persist, TypeOK, vars, intakeVars, custodyVars, testingVars, certVars
  <1>4. /\ saved \in Nat /\ Len(saves) \in Nat /\ saved < Len(saves)
        /\ DOMAIN saves = 1..Len(saves)
        /\ \A i \in 1..Len(saves) : SaveOK(saves[i])
    BY DEF PgInv, RunOK, Persist
  <1>5. /\ TablesOK(Memory) /\ TablesOK(answered)
        /\ Grown(answered, rows) /\ Grown(answered, Memory)
    BY MemoryTyped DEF PgInv
  <1>6. /\ k \in Kind /\ id \in DOMAIN Memory[k]
        /\ id \in DOMAIN rows'[k] /\ rows'[k][id] = Memory[k][id]
        /\ \A l \in Kind : \A jd \in DOMAIN rows[l] : jd \in DOMAIN rows'[l] /\
             (rows'[l][jd] = rows[l][jd] \/ (l = k /\ jd = id))
        /\ \A l \in Kind : DOMAIN rows'[l] \subseteq DOMAIN rows[l] \cup DOMAIN Memory[l]
    BY <1>1 DEF PutsRow
  <1>7. TablesOK(rows')
    BY <1>1 DEF PutsRow
  <1>8. Grown(answered, rows')
    <2> SUFFICES ASSUME NEW l \in Kind, NEW jd \in DOMAIN answered[l]
                 PROVE  jd \in DOMAIN rows'[l] /\ Later(l, answered[l][jd], rows'[l][jd])
      BY DEF Grown
    <2>1. /\ jd \in DOMAIN rows[l] /\ Later(l, answered[l][jd], rows[l][jd])
          /\ jd \in DOMAIN Memory[l] /\ Later(l, answered[l][jd], Memory[l][jd])
      BY <1>5 DEF Grown
    <2> QED
      BY <1>6, <2>1
  <1>9. \A i \in 1..saved + 1 :
           /\ saves[i].id \in DOMAIN rows'[saves[i].kind]
           /\ rows'[saves[i].kind][saves[i].id] = Memory[saves[i].kind][saves[i].id]
    BY <1>1 DEF PutsRow
  <1>10. DrawnOK'
    <2>1. UNCHANGED <<drawn, creating, tasks, retesting, retests>>
      BY DEF Persist, vars, testingVars
    <2> QED
      BY <1>2, <1>6, <2>1 DEF PgInv, DrawnOK, CallsOpen
  <1>11. ASSUME TablesOK(answered'), Grown(answered', rows'), Grown(answered', Memory), RunOK'
         PROVE  PgInv'
    BY <1>2, <1>3, <1>7, <1>10, <1>11 DEF PgInv, TablesOK, Grown
  <1>12. CASE saved + 1 # Len(saves)
    <2>1. saves' = saves /\ saved' = saved + 1 /\ answered' = answered
      BY <1>12 DEF Persist
    <2>2. RunOK'
      BY <1>2, <1>4, <1>9, <1>12, <2>1 DEF PgInv, RunOK, SaveOK
    <2> QED
      BY <1>5, <1>8, <1>11, <2>1, <2>2
  <1>13. CASE saved + 1 = Len(saves)
    <2>1. /\ saves' = <<>> /\ saved' = 0
          /\ answered' = [l \in Kind |->
               PutAll(answered[l], [jd \in done[l] |-> Memory[l][jd]])]
      BY <1>13 DEF Persist
    <2>2. \A l \in Kind : \A jd \in done[l] :
            /\ jd \in DOMAIN Memory[l] /\ jd \in DOMAIN rows'[l]
            /\ rows'[l][jd] = Memory[l][jd]
      BY <1>4, <1>9, <1>13 DEF SaveOK
    <2> HIDE DEF done
    <2>3. \A l \in Kind :
            /\ DOMAIN answered'[l] = DOMAIN answered[l] \cup done[l]
            /\ \A jd \in done[l] : answered'[l][jd] = Memory[l][jd]
            /\ \A jd \in DOMAIN answered[l] \ done[l] : answered'[l][jd] = answered[l][jd]
      BY <2>1 DEF PutAll
    <2>4. Grown(answered', rows')
      BY <1>8, <2>2, <2>3 DEF Grown, Later
    <2>5. Grown(answered', Memory)
      BY <1>5, <2>2, <2>3 DEF Grown, Later
    <2>6. TablesOK(answered')
      <3>1. \A l \in Kind : IsMap(answered'[l], KeyOf[l], RecordOf[l])
        <4> SUFFICES ASSUME NEW l \in Kind PROVE IsMap(answered'[l], KeyOf[l], RecordOf[l])
          OBVIOUS
        <4>1. IsMap([jd \in done[l] |-> Memory[l][jd]], KeyOf[l], RecordOf[l])
          BY <1>5, <2>2 DEF TablesOK, IsMap
        <4>2. IsMap(answered[l], KeyOf[l], RecordOf[l])
          BY <1>5 DEF TablesOK
        <4> QED
          BY <2>1, <4>1, <4>2, PutAllIsMap
      <3>2. \A e \in DOMAIN answered'["audit"] : answered'["audit"][e] = e
        BY <1>5, <2>2, <2>3, KindIs DEF TablesOK
      <3>3. IsFiniteSet(DOMAIN answered'["certificate"])
        <4>1. DOMAIN answered'["certificate"] \in SUBSET DOMAIN Memory["certificate"]
          BY <2>5, KindIs DEF Grown
        <4> QED
          BY <1>5, <4>1, FS_Subset DEF TablesOK
      <3> QED
        BY <2>1, <3>1, <3>2, <3>3 DEF TablesOK
    <2>7. RunOK'
      BY <2>1, RunEnds
    <2> QED
      BY <1>11, <2>4, <2>5, <2>6, <2>7
  <1> QED
    BY <1>12, <1>13

\* The memory falls back to tables that hold what was answered, or something
\* later, and no new ID.
LEMMA FallBackKeeps ==
  ASSUME PgInv, NEW tables, TablesOK(tables), SetMemory(tables), Grown(answered, tables),
         \A k \in Kind \ {"audit"} : DOMAIN tables[k] \subseteq drawn,
         sequence' \in Nat, IsMap(creating', TaskId, TaskCall), IsMap(retesting', RetestId, Retest),
         DOMAIN creating' \cap DOMAIN tables["task"] = {},
         DOMAIN retesting' \cap DOMAIN tables["retest"] = {},
         saves' = <<>>, saved' = 0, UNCHANGED <<rows, drawn, answered>>
  PROVE  PgInv'
  <1>1. TypeOK' /\ Memory' = tables
    BY SetMemoryIs DEF PgInv
  <1>2. Kind' = Kind
    <2>1. (Kind = {"request", "sample", "subsample", "custody", "method", "task",
                   "round", "retest", "certificate", "audit"})'
      BY KindIs, PTL
    <2> QED
      BY <2>1, KindIs
  <1>3. TablesOK(rows)' /\ TablesOK(answered)' /\ Grown(answered, rows)' /\ Grown(answered, Memory)'
    BY <1>1, <1>2 DEF PgInv, TablesOK, Grown
  <1>4. DrawnOK'
    BY <1>1, <1>2, KindIs DEF SetMemory, PgInv, DrawnOK, CallsOpen
  <1> QED
    BY <1>1, <1>3, <1>4, RunEnds DEF PgInv

LEMMA RestartKeeps == PgInv /\ Restart => PgInv'
  <1> SUFFICES ASSUME PgInv, Restart PROVE PgInv'
    OBVIOUS
  <1>1. /\ TablesOK(rows) /\ SetMemory(rows) /\ Grown(answered, rows)
        /\ \A k \in Kind \ {"audit"} : DOMAIN rows[k] \subseteq drawn
        /\ saves' = <<>> /\ saved' = 0 /\ UNCHANGED <<rows, drawn, answered>>
    BY DEF Restart, PgInv, DrawnOK
  <1>2. /\ sequence' = 0 /\ creating' = NoEntries /\ retesting' = NoEntries
        /\ IsMap(NoEntries, TaskId, TaskCall) /\ IsMap(NoEntries, RetestId, Retest)
        /\ DOMAIN NoEntries = {}
    BY DEF Restart, NoEntries, IsMap
  <1> QED
    BY <1>1, <1>2, FallBackKeeps

\* Tables with what the memory holds without some of the saves after the one to
\* be made now.
FallsBackTo(tables) ==
  /\ TablesOK(tables)
  /\ \A k \in Kind : \A id \in DOMAIN tables[k] :
       /\ id \in DOMAIN Memory[k]
       /\ \/ tables[k][id] = Memory[k][id]
          \/ \E i \in (saved + 2)..Len(saves) :
               saves[i].kind = k /\ saves[i].id = id /\ tables[k][id] \in saves[i].old
  /\ \A k \in Kind : \A id \in DOMAIN Memory[k] :
       \/ id \in DOMAIN tables[k]
       \/ id \in {saves[i].id : i \in {j \in (saved + 2)..Len(saves) :
                                         saves[j].kind = k /\ saves[j].old = {}}}

LEMMA FailPersistFalls ==
  PgInv /\ FailPersist => \E tables : SetMemory(tables) /\ FallsBackTo(tables)
  <1> SUFFICES ASSUME PgInv, FailPersist
               PROVE  \E tables : SetMemory(tables) /\ FallsBackTo(tables)
    OBVIOUS
  <1> DEFINE first == saved + 2
             tables == [k \in Kind |-> Before(k, first)]
             late(k) == {i \in first..Len(saves) : saves[i].kind = k}
             gone(k) == {saves[i].id : i \in {j \in late(k) : saves[j].old = {}}}
             olds(k, id) == UNION {saves[i].old : i \in {j \in late(k) : saves[j].id = id}}
  <1>1. SetMemory(tables)
    BY DEF FailPersist
  <1>2. first..Len(saves) \subseteq 1..Len(saves) /\ \A i \in 1..Len(saves) : SaveOK(saves[i])
    BY DEF PgInv, RunOK
  <1>3. \A k \in Kind :
          /\ DOMAIN tables[k] = DOMAIN Memory[k] \ gone(k)
          /\ \A id \in DOMAIN tables[k] :
               tables[k][id] = IF \E i \in late(k) : saves[i].id = id
                               THEN CHOOSE r \in olds(k, id) : TRUE
                               ELSE Memory[k][id]
    BY DEF Before
  <1>4. ASSUME NEW k \in Kind, NEW id \in DOMAIN tables[k]
        PROVE  /\ id \in DOMAIN Memory[k]
               /\ \/ tables[k][id] = Memory[k][id]
                  \/ \E i \in late(k) : saves[i].id = id /\ tables[k][id] \in saves[i].old
    <2>1. id \in DOMAIN Memory[k] /\ id \notin gone(k)
      BY <1>3
    <2>2. CASE \E i \in late(k) : saves[i].id = id
      <3>1. PICK i \in late(k) : saves[i].id = id
        BY <2>2
      <3>2. saves[i].old # {}
        BY <2>1, <3>1
      <3>3. saves[i].old \subseteq olds(k, id)
        BY <3>1
      <3>4. tables[k][id] = CHOOSE r \in olds(k, id) : TRUE
        BY <1>3, <2>2
      <3>5. tables[k][id] \in olds(k, id)
        BY <3>2, <3>3, <3>4
      <3> QED
        BY <2>1, <3>5
    <2>3. CASE ~\E i \in late(k) : saves[i].id = id
      BY <1>3, <2>1, <2>3
    <2> QED
      BY <2>2, <2>3
  <1>5. \A k \in Kind : late(k) \subseteq 1..Len(saves) /\ \A i \in late(k) : saves[i].kind = k
    BY <1>2
  <1>6. tables = [k \in Kind |-> tables[k]]
    OBVIOUS
  <1> HIDE DEF tables, late, gone, olds
  <1>7. TablesOK(Memory)
    BY MemoryTyped DEF PgInv
  <1>8. \A k \in Kind : IsMap(tables[k], KeyOf[k], RecordOf[k])
    <2> SUFFICES ASSUME NEW k \in Kind PROVE IsMap(tables[k], KeyOf[k], RecordOf[k])
      OBVIOUS
    <2>1. \A id \in DOMAIN tables[k] : id \in KeyOf[k] /\ tables[k][id] \in RecordOf[k]
      BY <1>2, <1>4, <1>5, <1>7 DEF TablesOK, IsMap, SaveOK
    <2>2. tables[k] = [id \in DOMAIN tables[k] |-> tables[k][id]]
      BY DEF tables, Before
    <2> QED
      BY <2>1, <2>2 DEF IsMap
  <1>9. TablesOK(tables)
    <2>1. \A e \in DOMAIN tables["audit"] : tables["audit"][e] = e
      <3>1. "audit" \in Kind
        BY KindIs
      <3> QED
        BY <3>1, <1>2, <1>4, <1>5, <1>7 DEF TablesOK, SaveOK
    <2>2. IsFiniteSet(DOMAIN tables["certificate"])
      <3>1. DOMAIN tables["certificate"] \in SUBSET DOMAIN Memory["certificate"]
        BY <1>4, KindIs
      <3> QED
        BY <1>7, <3>1, FS_Subset DEF TablesOK
    <2> QED
      BY <1>6, <1>8, <2>1, <2>2 DEF TablesOK
  <1>10. \A k \in Kind : \A id \in DOMAIN Memory[k] : id \in DOMAIN tables[k] \/ id \in gone(k)
    BY <1>3
  <1>11. \A k \in Kind :
           gone(k) = {saves[i].id : i \in {j \in (saved + 2)..Len(saves) :
                                             saves[j].kind = k /\ saves[j].old = {}}}
    BY DEF gone, late, first
  <1>12. FallsBackTo(tables)
    <2>1. \A k : \A i \in late(k) : i \in (saved + 2)..Len(saves) /\ saves[i].kind = k
      BY DEF late, first
    <2>2. \A k \in Kind : \A id \in DOMAIN tables[k] :
            /\ id \in DOMAIN Memory[k]
            /\ \/ tables[k][id] = Memory[k][id]
               \/ \E i \in (saved + 2)..Len(saves) :
                    saves[i].kind = k /\ saves[i].id = id /\ tables[k][id] \in saves[i].old
      BY <1>4, <2>1
    <2> QED
      BY <1>9, <1>10, <1>11, <2>2 DEF FallsBackTo
  <1> QED
    BY <1>1, <1>12

\* What the memory held, or something later, it still holds when it falls back
\* to tables that undo no save of it.
LEMMA FallsBackGrown ==
  ASSUME NEW base, Grown(base, Memory), NEW tables, FallsBackTo(tables),
         \A i \in (saved + 2)..Len(saves) :
           saves[i].id \in DOMAIN base[saves[i].kind] =>
             /\ saves[i].old # {}
             /\ \A r \in saves[i].old :
                  Later(saves[i].kind, base[saves[i].kind][saves[i].id], r)
  PROVE  Grown(base, tables)
  <1> SUFFICES ASSUME NEW k \in Kind, NEW id \in DOMAIN base[k]
               PROVE  id \in DOMAIN tables[k] /\ Later(k, base[k][id], tables[k][id])
    BY DEF Grown
  <1>1. id \in DOMAIN Memory[k] /\ Later(k, base[k][id], Memory[k][id])
    BY DEF Grown
  <1>2. id \in DOMAIN tables[k]
    <2> SUFFICES ASSUME id \notin DOMAIN tables[k] PROVE FALSE
      OBVIOUS
    <2>1. id \in {saves[i].id : i \in {j \in (saved + 2)..Len(saves) :
                                         saves[j].kind = k /\ saves[j].old = {}}}
      BY <1>1 DEF FallsBackTo
    <2> QED
      BY <2>1
  <1> QED
    BY <1>1, <1>2 DEF FallsBackTo

LEMMA FailPersistKeeps == PgInv /\ FailPersist => PgInv'
  <1> SUFFICES ASSUME PgInv, FailPersist PROVE PgInv'
    OBVIOUS
  <1>1. PICK tables : SetMemory(tables) /\ FallsBackTo(tables)
    BY FailPersistFalls
  <1>2. /\ saves' = <<>> /\ saved' = 0
        /\ UNCHANGED <<sequence, creating, retesting, rows, drawn, answered>>
    BY DEF FailPersist
  <1>3. (saved + 2)..Len(saves) \subseteq 1..Len(saves) /\ \A i \in 1..Len(saves) : SaveOK(saves[i])
    BY DEF PgInv, RunOK
  <1>4. TablesOK(tables)
    BY <1>1 DEF FallsBackTo
  <1>5. Grown(answered, tables)
    <2>1. Grown(answered, Memory)
      BY DEF PgInv
    <2>2. \A i \in (saved + 2)..Len(saves) :
            saves[i].id \in DOMAIN answered[saves[i].kind] =>
              /\ saves[i].old # {}
              /\ \A r \in saves[i].old :
                   Later(saves[i].kind, answered[saves[i].kind][saves[i].id], r)
      BY <1>3 DEF SaveOK
    <2> QED
      BY <1>1, <2>1, <2>2, FallsBackGrown
  <1>6. /\ \A k \in Kind \ {"audit"} : DOMAIN tables[k] \subseteq drawn
        /\ DOMAIN tables["task"] \subseteq DOMAIN tasks
        /\ DOMAIN tables["retest"] \subseteq DOMAIN retests
    BY <1>1, KindIs, MemoryIs DEF PgInv, DrawnOK, FallsBackTo
  <1>7. /\ sequence' \in Nat /\ IsMap(creating', TaskId, TaskCall)
        /\ IsMap(retesting', RetestId, Retest)
        /\ DOMAIN creating' \cap DOMAIN tables["task"] = {}
        /\ DOMAIN retesting' \cap DOMAIN tables["retest"] = {}
    <2>1. TypeOK /\ CallsOpen
      BY DEF PgInv, DrawnOK
    <2> QED
      BY <1>2, <1>6, <2>1 DEF TypeOK, CallsOpen
  <1> QED
    BY <1>1, <1>2, <1>4, <1>5, <1>6, <1>7, FallBackKeeps

\* No operation, save, refusal or restart breaks the invariant.
LEMMA PgStep == PgInv /\ [PgNext]_pgVars => PgInv'
  BY StepKinds, StartsKeep, QuietKeeps, PersistKeeps, FailPersistKeeps, RestartKeeps

LEMMA PgInvCorrect == PgSpec => []PgInv
  BY PgInitInv, PgStep, PTL DEF PgSpec

\* What a caller was told has happened is in the database, or something later
\* is (Service's operations under Repository.Transaction, persist and restore):
\* kills at any point, refused saves and restarts take nothing back.
THEOREM AnswersOutlast == PgSpec => []AnsweredOutlasts
  <1>1. PgInv => AnsweredOutlasts
    BY DEF PgInv, Grown, AnsweredOutlasts
  <1> QED
    BY PgInvCorrect, <1>1, PTL

-----------------------------------------------------------------------------
(* The rows follow the memory.                                              *)

\* Each record is the same or later.
LEMMA GrownReflexive ==
  ASSUME NEW tables PROVE Grown(tables, tables)
  BY DEF Grown, Later

\* With no transaction under way, only that the rows are behind is left to show.
LEMMA NoRunRowInv ==
  ASSUME saves' = <<>>, saved' = 0, Grown(rows, Memory)' PROVE RowInv'
  <1>1. Len(saves') = 0
    OBVIOUS
  <1>2. SavedOnce(saves)' /\ Ordered(saves, Memory)'
    BY <1>1 DEF SavedOnce, Ordered
  <1>3. (saved' + 1)..Len(saves') = {}
    BY <1>1
  <1> QED
    BY <1>2, <1>3 DEF RowInv

LEMMA RowInvInit == PgInit => RowInv
  <1> SUFFICES ASSUME PgInit PROVE RowInv
    OBVIOUS
  <1>1. rows = Memory /\ saves = <<>> /\ saved = 0 /\ Len(saves) = 0
    BY DEF PgInit
  <1> QED
    BY <1>1, GrownReflexive DEF RowInv, SavedOnce, Ordered

LEMMA StartsRows ==
  ASSUME PgInv, RowInv, NEW plan, Starts(plan) PROVE RowInv'
  <1>1. /\ TablesOK(Memory) /\ TablesOK(Memory') /\ Grown(Memory, Memory')
        /\ saves' = plan /\ saved' = 0 /\ TablesOK(rows) /\ Grown(rows, Memory)
    BY StartsTables DEF PgInv, RowInv
  <1>2. rows' = rows /\ SavedOnce(plan) /\ OrderedThen(plan)
    BY DEF Starts, Opened, Planned, OrderedThen
  <1>3. Grown(rows, Memory')
    BY <1>1, GrownTransitive
  <1>4. ASSUME NEW i \in 1..Len(plan), plan[i].id \in DOMAIN rows[plan[i].kind]
        PROVE  /\ plan[i].old # {}
               /\ \A r \in plan[i].old : Later(plan[i].kind, rows[plan[i].kind][plan[i].id], r)
    <2>1. /\ plan[i].kind \in Kind
          /\ plan[i].old = IF plan[i].id \in DOMAIN Memory[plan[i].kind]
                           THEN {Memory[plan[i].kind][plan[i].id]} ELSE {}
      BY StartsTables
    <2> QED
      BY <1>1, <1>4, <2>1 DEF Grown
  <1>5. Grown(rows, Memory)'
    BY <1>2, <1>3, KindStays DEF Grown
  <1>6. SavedOnce(saves)' /\ Ordered(saves, Memory)'
    BY <1>1, <1>2 DEF SavedOnce, Ordered, OrderedThen
  <1> QED
    BY <1>1, <1>2, <1>4, <1>5, <1>6 DEF RowInv

LEMMA QuietRows == RowInv /\ Quiet => RowInv'
  BY KindStays DEF Quiet, RowInv, Grown, SavedOnce, Ordered

\* A save made brings its row to what the memory holds.
LEMMA PutsGrow ==
  ASSUME PgInv, RowInv, NEW k, NEW id, PutsRow(k, id)
  PROVE  Grown(rows, rows') /\ Grown(rows', Memory)
  <1>1. Grown(rows, Memory)
    BY DEF RowInv
  <1>2. /\ rows'[k][id] = Memory[k][id] /\ id \in DOMAIN Memory[k]
        /\ \A l \in Kind :
             /\ DOMAIN rows[l] \subseteq DOMAIN rows'[l]
             /\ \A jd \in DOMAIN rows'[l] :
                  \/ l = k /\ jd = id
                  \/ jd \in DOMAIN rows[l] /\ rows'[l][jd] = rows[l][jd]
    BY DEF PutsRow
  <1>3. \A l \in Kind : \A jd \in DOMAIN rows[l] : Later(l, rows[l][jd], rows'[l][jd])
    BY <1>1, <1>2 DEF Grown, Later
  <1>4. \A l \in Kind : \A jd \in DOMAIN rows'[l] :
          jd \in DOMAIN Memory[l] /\ Later(l, rows'[l][jd], Memory[l][jd])
    BY <1>1, <1>2 DEF Grown, Later
  <1> QED
    BY <1>2, <1>3, <1>4 DEF Grown

LEMMA PersistRows == PgInv /\ RowInv /\ Persist => RowInv'
  <1> SUFFICES ASSUME PgInv, RowInv, Persist PROVE RowInv'
    OBVIOUS
  <1>1. PICK k, id : PutsRow(k, id)
    BY PersistPuts
  <1>2. Memory' = Memory /\ Kind' = Kind
    BY <1>1 DEF PutsRow
  <1>3. Grown(rows, Memory)'
    BY <1>1, <1>2, PutsGrow DEF Grown
  <1>4. CASE saved + 1 = Len(saves)
    <2>1. saves' = <<>> /\ saved' = 0
      BY <1>4 DEF Persist
    <2> QED
      BY <1>3, <2>1, NoRunRowInv
  <1>5. CASE saved + 1 # Len(saves)
    <2>1. saves' = saves /\ saved' = saved + 1
      BY <1>5 DEF Persist
    <2>2. SavedOnce(saves)' /\ Ordered(saves, Memory)'
      BY <1>2, <2>1 DEF RowInv, SavedOnce, Ordered
    <2>3. saved \in Nat /\ Len(saves) \in Nat /\ \A i \in 1..Len(saves) : saves[i].kind \in Kind
      BY DEF PgInv, RunOK, SaveOK
    <2>4. ASSUME NEW i \in (saved + 2)..Len(saves), saves[i].id \in DOMAIN rows'[saves[i].kind]
          PROVE  /\ saves[i].old # {}
                 /\ \A r \in saves[i].old :
                      Later(saves[i].kind, rows'[saves[i].kind][saves[i].id], r)
      <3>1. i \in 1..Len(saves) /\ i # saved + 1 /\ saved + 1 \in 1..Len(saves)
            /\ i \in (saved + 1)..Len(saves)
        BY <1>1, <2>3 DEF PutsRow
      <3>2. saves[saved + 1].kind = k /\ saves[saved + 1].id = id
        BY <1>1 DEF PutsRow
      <3>3. ~(saves[i].kind = k /\ saves[i].id = id)
        BY <3>1, <3>2 DEF RowInv, SavedOnce
      <3>4. /\ saves[i].id \in DOMAIN rows[saves[i].kind]
            /\ rows'[saves[i].kind][saves[i].id] = rows[saves[i].kind][saves[i].id]
        BY <1>1, <2>3, <2>4, <3>1, <3>3 DEF PutsRow
      <3> QED
        BY <3>1, <3>4 DEF RowInv
    <2>5. (saved' + 1)..Len(saves') = (saved + 2)..Len(saves)
      BY <2>1, <2>3
    <2> QED
      BY <1>3, <2>1, <2>2, <2>4, <2>5 DEF RowInv
  <1> QED
    BY <1>4, <1>5

LEMMA FailPersistRows == PgInv /\ RowInv /\ FailPersist => RowInv'
  <1> SUFFICES ASSUME PgInv, RowInv, FailPersist PROVE RowInv'
    OBVIOUS
  <1>1. PICK tables : SetMemory(tables) /\ FallsBackTo(tables)
    BY FailPersistFalls
  <1>2. saves' = <<>> /\ saved' = 0 /\ rows' = rows
    BY DEF FailPersist
  <1>3. Memory' = tables
    <2>1. TypeOK /\ TablesOK(tables)
      BY <1>1 DEF PgInv, FallsBackTo
    <2>2. UNCHANGED <<sequence, creating, retesting>>
      BY DEF FailPersist
    <2>3. /\ sequence' \in Nat /\ IsMap(creating', TaskId, TaskCall)
          /\ IsMap(retesting', RetestId, Retest)
      BY <2>1, <2>2 DEF TypeOK
    <2> QED
      BY <1>1, <2>1, <2>3, SetMemoryIs
  <1>4. Grown(rows, tables)
    <2>1. (saved + 2)..Len(saves) \subseteq (saved + 1)..Len(saves)
      BY DEF PgInv, RunOK
    <2> QED
      BY <1>1, <2>1, FallsBackGrown DEF RowInv
  <1>5. Grown(rows, Memory)'
    BY <1>2, <1>3, <1>4, KindStays DEF Grown
  <1> QED
    BY <1>2, <1>5, NoRunRowInv

LEMMA RestartRows == PgInv /\ Restart => RowInv' /\ Memory' = rows
  <1> SUFFICES ASSUME PgInv, Restart PROVE RowInv' /\ Memory' = rows
    OBVIOUS
  <1>1. saves' = <<>> /\ saved' = 0 /\ rows' = rows
    BY DEF Restart
  <1>2. Memory' = rows
    <2>1. TypeOK /\ TablesOK(rows)
      BY DEF PgInv
    <2>2. /\ sequence' \in Nat /\ IsMap(creating', TaskId, TaskCall)
          /\ IsMap(retesting', RetestId, Retest)
      BY DEF Restart, NoEntries, IsMap
    <2> QED
      BY <2>1, <2>2, SetMemoryIs DEF Restart
  <1>3. Grown(rows, Memory)'
    BY <1>1, <1>2, KindStays DEF Grown, Later
  <1> QED
    BY <1>1, <1>2, <1>3, NoRunRowInv

LEMMA RowInvStep == PgInv /\ RowInv /\ [PgNext]_pgVars => RowInv'
  BY StepKinds, StartsRows, QuietRows, PersistRows, FailPersistRows, RestartRows

-----------------------------------------------------------------------------
(* The rows show facts.                                                     *)

\* The rows show facts only, as long as they follow the memory in order.
FactsInv == PgInv /\ RowInv /\ ConsequencesFirst /\ TrailOnlyFacts

LEMMA FactsInit == PgInit => FactsInv
  <1> SUFFICES ASSUME PgInit PROVE FactsInv
    OBVIOUS
  <1>1. /\ DOMAIN rows["request"] = {} /\ DOMAIN rows["custody"] = {}
        /\ \A e \in DOMAIN rows["audit"] :
             /\ e.action \in {"create", "publish"} /\ e.object = SeedMethod
             /\ SeedMethod \in DOMAIN rows["method"]
             /\ rows["method"][SeedMethod].status = "published"
    BY MemoryIs DEF PgInit, Init, NoEntries
  <1>2. TrailOnlyFacts
    BY <1>1, KindIs DEF TrailOnlyFacts, Shows
  <1> QED
    BY <1>1, <1>2, PgInitInv, RowInvInit DEF FactsInv, ConsequencesFirst

\* The saves made so far are in the rows.
LEMMA SavesMade ==
  ASSUME PgInv, NEW k, NEW id, PutsRow(k, id), NEW j \in 1..saved
  PROVE  /\ saves[j].kind \in Kind /\ saves[j].id \in DOMAIN rows'[saves[j].kind]
         /\ rows'[saves[j].kind][saves[j].id] = Memory[saves[j].kind][saves[j].id]
  <1>1. saved \in Nat /\ Len(saves) \in Nat /\ saved + 1 \in 1..Len(saves)
        /\ \A i \in 1..Len(saves) : saves[i].kind \in Kind
    BY DEF PgInv, RunOK, SaveOK, PutsRow
  <1> QED
    BY <1>1 DEF PutsRow

LEMMA RequestsSupported ==
  ASSUME FactsInv, NEW k, NEW id, PutsRow(k, id),
         NEW r \in DOMAIN rows'["request"], rows'["request"][r].status = "submitted"
  PROVE  /\ rows'["request"][r].sample \in DOMAIN rows'["sample"]
         /\ rows'["sample"][rows'["request"][r].sample].request = r
  <1>1. "request" \in Kind /\ "sample" \in Kind
    BY KindIs
  <1>2. CASE k = "request" /\ id = r
    <2>1. rows'["request"][r] = Memory["request"][r]
      BY <1>2 DEF PutsRow
    <2>2. PICK j \in 1..saved :
            /\ saves[j].kind = "sample" /\ saves[j].id = Memory["request"][r].sample
            /\ Memory["sample"][saves[j].id].request = r
      <3>1. saved + 1 \in 1..Len(saves) /\ saves[saved + 1].kind = "request" /\ saves[saved + 1].id = r
            /\ Memory["request"][r].status = "submitted" /\ saved \in Nat
        BY <1>2, <2>1 DEF PutsRow, FactsInv, PgInv, RunOK
      <3>2. (saved + 1) - 1 = saved
        BY <3>1
      <3> QED
        BY <3>1, <3>2 DEF FactsInv, RowInv, Ordered
    <2> QED
      BY <2>1, <2>2, SavesMade DEF FactsInv
  <1>3. CASE ~(k = "request" /\ id = r)
    <2>1. r \in DOMAIN rows["request"] /\ rows'["request"][r] = rows["request"][r]
      BY <1>1, <1>3 DEF PutsRow
    <2> DEFINE t == rows["request"][r].sample
    <2>2. t \in DOMAIN rows["sample"] /\ rows["sample"][t].request = r
      BY <2>1 DEF FactsInv, ConsequencesFirst
    <2> HIDE DEF t
    <2>3. t \in DOMAIN rows'["sample"] /\ Later("sample", rows["sample"][t], rows'["sample"][t])
      BY <1>1, <2>2, PutsGrow DEF FactsInv, Grown
    <2>4. rows'["sample"][t].request = r
      BY <2>2, <2>3, FixedAre DEF Later
    <2> QED
      BY <2>1, <2>3, <2>4 DEF t
  <1> QED
    BY <1>2, <1>3

LEMMA TransfersSupported ==
  ASSUME FactsInv, NEW k, NEW id, PutsRow(k, id),
         NEW c \in DOMAIN rows'["custody"], rows'["custody"][c].status = "confirmed"
  PROVE  /\ rows'["custody"][c].subsample \in DOMAIN rows'["subsample"]
         /\ rows'["subsample"][rows'["custody"][c].subsample].held.holder # None
  <1>1. "custody" \in Kind /\ "subsample" \in Kind
    BY KindIs
  <1>2. CASE k = "custody" /\ id = c
    <2>1. rows'["custody"][c] = Memory["custody"][c]
      BY <1>2 DEF PutsRow
    <2>2. PICK j \in 1..saved :
            /\ saves[j].kind = "subsample" /\ saves[j].id = Memory["custody"][c].subsample
            /\ Memory["subsample"][saves[j].id].held.holder # None
      <3>1. saved + 1 \in 1..Len(saves) /\ saves[saved + 1].kind = "custody" /\ saves[saved + 1].id = c
            /\ Memory["custody"][c].status = "confirmed" /\ saved \in Nat
        BY <1>2, <2>1 DEF PutsRow, FactsInv, PgInv, RunOK
      <3>2. (saved + 1) - 1 = saved
        BY <3>1
      <3> QED
        BY <3>1, <3>2 DEF FactsInv, RowInv, Ordered
    <2> QED
      BY <2>1, <2>2, SavesMade DEF FactsInv
  <1>3. CASE ~(k = "custody" /\ id = c)
    <2>1. c \in DOMAIN rows["custody"] /\ rows'["custody"][c] = rows["custody"][c]
      BY <1>1, <1>3 DEF PutsRow
    <2> DEFINE x == rows["custody"][c].subsample
    <2>2. x \in DOMAIN rows["subsample"] /\ rows["subsample"][x].held.holder # None
      BY <2>1 DEF FactsInv, ConsequencesFirst
    <2> HIDE DEF x
    <2>3. /\ x \in DOMAIN rows'["subsample"]
          /\ Later("subsample", rows["subsample"][x], rows'["subsample"][x])
      BY <1>1, <2>2, PutsGrow DEF FactsInv, Grown
    <2>4. rows'["subsample"][x].held.holder # None
      BY <2>2, <2>3, FixedAre DEF Later, Staged
    <2> QED
      BY <2>1, <2>3, <2>4 DEF x
  <1> QED
    BY <1>2, <1>3

LEMMA EventsSupported ==
  ASSUME FactsInv, NEW k, NEW id, PutsRow(k, id), NEW event \in DOMAIN rows'["audit"]
  PROVE  \E l \in Kind \ {"audit"} :
           event.object \in DOMAIN rows'[l] /\ Shows(event, l, rows'[l][event.object])
  <1>1. "audit" \in Kind
    BY KindIs
  <1>2. CASE k = "audit" /\ id = event
    <2>1. PICK j \in 1..saved :
            /\ saves[j].kind # "audit" /\ saves[j].id = event.object
            /\ Shows(event, saves[j].kind, Memory[saves[j].kind][saves[j].id])
      <3>1. /\ saved + 1 \in 1..Len(saves) /\ saves[saved + 1].kind = "audit"
            /\ saves[saved + 1].id = event /\ saved \in Nat
        BY <1>2 DEF PutsRow, FactsInv, PgInv, RunOK
      <3>2. (saved + 1) - 1 = saved
        BY <3>1
      <3> QED
        BY <3>1, <3>2 DEF FactsInv, RowInv, Ordered
    <2>2. /\ saves[j].kind \in Kind /\ saves[j].id \in DOMAIN rows'[saves[j].kind]
          /\ rows'[saves[j].kind][saves[j].id] = Memory[saves[j].kind][saves[j].id]
      BY SavesMade DEF FactsInv
    <2> QED
      BY <2>1, <2>2
  <1>3. CASE ~(k = "audit" /\ id = event)
    <2>1. event \in DOMAIN rows["audit"]
      BY <1>1, <1>3 DEF PutsRow
    <2>2. PICK l \in Kind \ {"audit"} :
            event.object \in DOMAIN rows[l] /\ Shows(event, l, rows[l][event.object])
      BY <2>1 DEF FactsInv, TrailOnlyFacts
    <2> DEFINE old == rows[l][event.object]
               new == rows'[l][event.object]
    <2>3. event.object \in DOMAIN rows'[l] /\ Later(l, old, new)
      BY <2>2, PutsGrow DEF FactsInv, Grown
    <2>4. event \in Event /\ old \in RecordOf[l] /\ new \in RecordOf[l]
      <3>1. TablesOK(rows) /\ TablesOK(rows')
        BY DEF FactsInv, PgInv, PutsRow
      <3> QED
        BY <1>1, <2>1, <2>2, <2>3, <3>1, KeysAre DEF TablesOK, IsMap
    <2> HIDE DEF old, new
    <2>5. Shows(event, l, new)
      BY <2>2, <2>3, <2>4, ShowsLater DEF old
    <2> QED
      BY <2>3, <2>5 DEF new
  <1> QED
    BY <1>2, <1>3

LEMMA FactsStep == FactsInv /\ [PgNext]_pgVars => FactsInv'
  <1> SUFFICES ASSUME FactsInv, [PgNext]_pgVars PROVE FactsInv'
    OBVIOUS
  <1>1. PgInv' /\ RowInv'
    BY PgStep, RowInvStep DEF FactsInv
  <1>2. CASE rows' = rows
    BY <1>1, <1>2, KindStays DEF FactsInv, ConsequencesFirst, TrailOnlyFacts
  <1>3. CASE Persist
    <2>1. PICK k, id : PutsRow(k, id)
      BY <1>3, PersistPuts DEF FactsInv
    <2>2. ConsequencesFirst'
      BY <2>1, RequestsSupported, TransfersSupported DEF ConsequencesFirst
    <2>3. TrailOnlyFacts'
      BY <2>1, EventsSupported, KindStays DEF TrailOnlyFacts
    <2> QED
      BY <1>1, <2>2, <2>3 DEF FactsInv
  <1>4. rows' = rows \/ Persist
    BY StepKinds DEF FactsInv, Quiet, Starts, Opened, FailPersist, Restart
  <1> QED
    BY <1>2, <1>3, <1>4

LEMMA FactsCorrect == PgSpec => []FactsInv
  BY FactsInit, FactsStep, PTL DEF PgSpec

\* However a call ended (persist in the order of Service.SubmitRequest and of
\* Service.ConfirmCustody), the database holds the sample of a submitted
\* request and has moved the subsample of a confirmed transfer.
THEOREM ConsequencesSavedFirst == PgSpec => []ConsequencesFirst
  BY FactsCorrect, PTL DEF FactsInv

\* Whatever was interrupted, refused or restarted, an audit event in the
\* database tells of something the database shows, done by whom it names
\* (Service.audit comes last in every operation).
THEOREM TrailTellsFacts == PgSpec => []TrailOnlyFacts
  BY FactsCorrect, PTL DEF FactsInv

-----------------------------------------------------------------------------
(* The rows and the answers are a ledger.                                   *)

\* Making a save enters one record, which the row may become.
LEMMA PersistEnters ==
  ASSUME PgInv, RowInv, NEW k, NEW id, PutsRow(k, id)
  PROVE  Book!Enter(k, id, Memory[k][id])
  <1>1. id \in DOMAIN rows[k] => Later(k, rows[k][id], Memory[k][id])
    BY DEF RowInv, Grown, PutsRow
  <1>2. /\ rows = [l \in Kind |-> rows[l]] /\ rows' = [l \in Kind |-> rows'[l]]
        /\ k \in Kind /\ \A l \in Kind : rows[l] = [jd \in DOMAIN rows[l] |-> rows[l][jd]]
        /\ \A l \in Kind : rows'[l] = [jd \in DOMAIN rows'[l] |-> rows'[l][jd]]
    BY DEF PgInv, PutsRow, TablesOK, IsMap
  <1>3. /\ DOMAIN rows'[k] = DOMAIN rows[k] \cup {id}
        /\ \A jd \in DOMAIN rows'[k] :
             rows'[k][jd] = IF jd = id THEN Memory[k][id] ELSE rows[k][jd]
    BY DEF PutsRow
  <1>4. rows'[k] = [jd \in DOMAIN rows[k] \cup {id} |->
                      IF jd = id THEN Memory[k][id] ELSE rows[k][jd]]
    BY <1>2, <1>3
  <1>5. ASSUME NEW l \in Kind \ {k} PROVE rows'[l] = rows[l]
    <2>1. /\ DOMAIN rows'[l] = DOMAIN rows[l]
          /\ \A jd \in DOMAIN rows'[l] : rows'[l][jd] = rows[l][jd]
      BY DEF PutsRow
    <2> QED
      BY <1>2, <2>1
  <1>6. rows' = [rows EXCEPT ![k] = [jd \in DOMAIN rows[k] \cup {id} |->
                   IF jd = id THEN Memory[k][id] ELSE rows[k][jd]]]
    BY <1>2, <1>4, <1>5
  <1> QED
    BY <1>1, <1>6 DEF Book!Enter

\* An answer tells what its saves have brought into the rows.
LEMMA PersistTells ==
  ASSUME PgInv, NEW k, NEW id, PutsRow(k, id), Persist
  PROVE  Book!Tell
  <1> DEFINE done == [l \in Kind |-> {saves[i].id : i \in {j \in DOMAIN saves : saves[j].kind = l}}]
  <1>1. DOMAIN answered = Kind
    BY DEF PgInv, TablesOK
  <1>2. CASE saved + 1 # Len(saves)
    <2>1. answered' = answered
      BY <1>2 DEF Persist
    <2> QED
      BY <2>1 DEF Book!Tell
  <1>3. CASE saved + 1 = Len(saves)
    <2>1. answered' = [l \in Kind |-> PutAll(answered[l], [jd \in done[l] |-> Memory[l][jd]])]
      BY <1>3 DEF Persist
    <2>2. DOMAIN saves = 1..saved + 1
      BY <1>3 DEF PgInv, RunOK
    <2>3. \A l \in Kind : \A jd \in done[l] :
            jd \in DOMAIN rows'[l] /\ rows'[l][jd] = Memory[l][jd]
      BY <2>2 DEF PutsRow
    <2> HIDE DEF done
    <2>4. \A l \in Kind :
            /\ DOMAIN answered'[l] = DOMAIN answered[l] \cup done[l]
            /\ \A jd \in done[l] : answered'[l][jd] = Memory[l][jd]
            /\ \A jd \in DOMAIN answered[l] \ done[l] : answered'[l][jd] = answered[l][jd]
      BY <2>1 DEF PutAll
    <2>5. DOMAIN answered' = Kind
      BY <2>1
    <2>6. ASSUME NEW l \in Kind, NEW jd \in DOMAIN answered'[l]
          PROVE  \/ jd \in DOMAIN answered[l] /\ answered'[l][jd] = answered[l][jd]
                 \/ jd \in DOMAIN rows'[l] /\ answered'[l][jd] = rows'[l][jd]
      <3>1. CASE jd \in done[l]
        BY <2>3, <2>4, <3>1
      <3>2. CASE jd \notin done[l]
        BY <2>4, <3>2
      <3> QED
        BY <3>1, <3>2
    <2> QED
      BY <1>1, <2>4, <2>5, <2>6 DEF Book!Tell
  <1> QED
    BY <1>2, <1>3

\* Every step of the server is one the ledger allows, or leaves it alone.
LEMMA LedgerStep ==
  PgInv /\ RowInv /\ [PgNext]_pgVars => [Book!Next]_(Book!ledgerVars)
  <1> SUFFICES ASSUME PgInv, RowInv, [PgNext]_pgVars
               PROVE  Book!Next \/ UNCHANGED <<rows, answered>>
    BY DEF Book!ledgerVars
  <1>1. CASE Persist
    <2>1. PICK k, id : PutsRow(k, id)
      BY <1>1, PersistPuts
    <2>2. /\ DOMAIN rows = Kind /\ k \in Kind /\ id \in DOMAIN rows'[k]
          /\ rows'[k][id] = Memory[k][id]
      BY <2>1 DEF PgInv, TablesOK, PutsRow
    <2>3. Book!Enter(k, id, rows'[k][id]) /\ Book!Tell
      BY <1>1, <2>1, <2>2, PersistEnters, PersistTells
    <2> QED
      BY <2>2, <2>3 DEF Book!Next
  <1>2. ASSUME Quiet \/ (\E plan : Starts(plan)) \/ FailPersist \/ Restart
        PROVE  UNCHANGED <<rows, answered>>
    BY <1>2 DEF Quiet, Starts, Opened, FailPersist, Restart
  <1> QED
    BY <1>1, <1>2, StepKinds

\* PgRepository.persist and the start of the server (restore) keep a ledger:
\* whatever is refused or killed, each save moves one record on, none goes back
\* or away, and a call is answered only with what its rows show at that moment.
THEOREM ImplementsLedger == PgSpec => KeepsLedger
  <1>1. PgInit => Book!Init
    BY DEF PgInit, Book!Init
  <1> QED
    BY <1>1, LedgerStep, FactsCorrect, PTL DEF FactsInv, PgSpec, KeepsLedger, Book!Spec

-----------------------------------------------------------------------------
(* Nothing is forgotten: what the rows do not show is about to be saved.    *)

LEMMA SyncedInit == PgInit => Synced
  BY DEF PgInit, Synced

LEMMA StartsSynced ==
  ASSUME PgInv, Synced, NEW plan, Starts(plan) PROVE Synced'
  <1>1. /\ saves = <<>> /\ saved = 0 /\ Len(saves) = 0 /\ saves' = plan /\ saved' = 0
        /\ DOMAIN plan = 1..Len(plan) /\ UNCHANGED <<rows, failures, cut>>
    BY StartsTables DEF Starts, Opened
  <1>2. ASSUME failures = 0, NEW k \in Kind, NEW id \in DOMAIN Memory'[k]
        PROVE  \/ id \in DOMAIN rows[k] /\ rows[k][id] = Memory'[k][id]
               \/ \E i \in 1..Len(plan) : plan[i].kind = k /\ plan[i].id = id
    <2>1. CASE id \in Ids(plan, k)
      BY <1>1, <2>1 DEF Ids
    <2>2. CASE id \notin Ids(plan, k)
      <3>1. id \in DOMAIN Memory[k] /\ Memory'[k][id] = Memory[k][id]
        BY <2>2 DEF Starts, Extends
      <3>2. (saved + 1)..Len(saves) = {}
        BY <1>1
      <3> QED
        BY <1>2, <3>1, <3>2 DEF Synced
    <2> QED
      BY <2>1, <2>2
  <1> QED
    BY <1>1, <1>2, KindStays DEF Synced

LEMMA QuietSynced == Synced /\ Quiet => Synced'
  BY KindStays DEF Quiet, Synced

LEMMA PersistSynced == PgInv /\ Synced /\ Persist => Synced'
  <1> SUFFICES ASSUME PgInv, Synced, Persist PROVE Synced'
    OBVIOUS
  <1>1. PICK k, id : PutsRow(k, id)
    BY PersistPuts
  <1>2. UNCHANGED <<failures, cut>>
    BY DEF Persist
  <1>3. /\ Memory' = Memory /\ Kind' = Kind
        /\ saves[saved + 1].kind = k /\ saves[saved + 1].id = id
    BY <1>1 DEF PutsRow
  <1>4. saved \in Nat /\ Len(saves) \in Nat
    BY DEF PgInv, RunOK
  <1>5. \/ saves' = saves /\ saved' = saved + 1
        \/ saves' = <<>> /\ saved' = 0 /\ saved + 1 = Len(saves)
    BY DEF Persist
  <1>6. ASSUME failures = 0, NEW l \in Kind, NEW jd \in DOMAIN Memory[l]
        PROVE  \/ jd \in DOMAIN rows'[l] /\ rows'[l][jd] = Memory[l][jd]
               \/ \E i \in (saved' + 1)..Len(saves') : saves'[i].kind = l /\ saves'[i].id = jd
    <2>1. CASE l = k /\ jd = id
      BY <1>1, <2>1 DEF PutsRow
    <2>2. CASE ~(l = k /\ jd = id)
      <3>1. CASE jd \in DOMAIN rows[l] /\ rows[l][jd] = Memory[l][jd]
        BY <1>1, <2>2, <3>1 DEF PutsRow
      <3>2. CASE \E i \in (saved + 1)..Len(saves) : saves[i].kind = l /\ saves[i].id = jd
        <4>1. PICK i \in (saved + 1)..Len(saves) : saves[i].kind = l /\ saves[i].id = jd
          BY <3>2
        <4>2. i # saved + 1
          BY <1>3, <2>2, <4>1
        <4>3. saved + 1 # Len(saves) /\ i \in (saved + 2)..Len(saves)
          BY <1>4, <4>1, <4>2
        <4> QED
          BY <1>4, <1>5, <4>1, <4>3
      <3> QED
        BY <1>6, <3>1, <3>2 DEF Synced
    <2> QED
      BY <2>1, <2>2
  <1> QED
    BY <1>2, <1>3, <1>6 DEF Synced

LEMMA SyncedStep == PgInv /\ Synced /\ [PgNext]_pgVars => Synced'
  <1> SUFFICES ASSUME PgInv, Synced, [PgNext]_pgVars PROVE Synced'
    OBVIOUS
  <1>1. CASE FailPersist
    <2>1. failures \in Nat /\ failures' = failures + 1 /\ cut' = TRUE
      BY <1>1 DEF FailPersist, Synced
    <2>2. failures' # 0 /\ failures' \in Nat
      BY <2>1
    <2> QED
      BY <2>1, <2>2 DEF Synced
  <1>2. CASE Restart
    <2>1. Memory' = rows /\ Kind' = Kind
      BY <1>2, RestartRows, KindStays
    <2>2. rows' = rows /\ failures' = failures /\ (cut => cut')
      BY <1>2 DEF Restart
    <2> QED
      BY <2>1, <2>2 DEF Synced
  <1> QED
    BY <1>1, <1>2, StepKinds, StartsSynced, QuietSynced, PersistSynced

\* Between transactions that were neither refused nor cut, the rows are the
\* memory.
LEMMA RowsAreMemory ==
  ASSUME PgInv, RowInv, Synced, saves = <<>>, failures = 0
  PROVE  rows = Memory
  <1>1. Len(saves) = 0 /\ saved = 0 /\ (saved + 1)..Len(saves) = {}
    BY DEF PgInv, RunOK
  <1>2. TablesOK(rows) /\ TablesOK(Memory) /\ Grown(rows, Memory)
    BY MemoryTyped DEF PgInv, RowInv
  <1>3. ASSUME NEW k \in Kind PROVE rows[k] = Memory[k]
    <2>1. \A id \in DOMAIN Memory[k] : id \in DOMAIN rows[k] /\ rows[k][id] = Memory[k][id]
      BY <1>1 DEF Synced
    <2>2. DOMAIN rows[k] = DOMAIN Memory[k]
      BY <1>2, <2>1 DEF Grown
    <2>3. /\ rows[k] = [id \in DOMAIN rows[k] |-> rows[k][id]]
          /\ Memory[k] = [id \in DOMAIN Memory[k] |-> Memory[k][id]]
      BY <1>2 DEF TablesOK, IsMap
    <2> QED
      BY <2>1, <2>2, <2>3
  <1> QED
    BY <1>2, <1>3 DEF TablesOK

-----------------------------------------------------------------------------
(* The certificate numbers.                                                 *)

LEMMA NumberedIs ==
  /\ Numbered(certificates) <=> NumberingInv
  /\ Numbered(certificates)' <=> NumberingInv'
  BY DEF Numbered, NumberingInv, CertificateNumbersGapless

LEMMA NumberedNext ==
  ASSUME TypeOK, [Next]_vars, Numbered(certificates) PROVE Numbered(certificates)'
  <1>1. CASE CertificationNext
    BY <1>1, NumberedIs, NumberingNext
  <1>2. CASE certificates' = certificates
    BY <1>2 DEF Numbered
  <1>3. CertificationNext \/ certificates' = certificates
    BY IntakeFrame, CustodyFrame, TestingFrame DEF Next, vars, certVars
  <1> QED
    BY <1>1, <1>2, <1>3

NumbersFacts == PgInv /\ RowInv /\ Synced /\ NumbersInv

LEMMA NumbersInit == PgInit => NumbersFacts
  <1> SUFFICES ASSUME PgInit PROVE NumbersFacts
    OBVIOUS
  <1>1. DOMAIN certificates = {} /\ rows["certificate"] = certificates
    BY MemoryIs DEF PgInit, Init, NoEntries
  <1>2. Cardinality({}) = 0
    BY FS_EmptySet
  <1>3. Numbered(certificates)
    BY <1>1, <1>2 DEF Numbered
  <1> QED
    BY <1>1, <1>3, PgInitInv, RowInvInit, SyncedInit DEF NumbersFacts, NumbersInv, PgInit

\* Saving a certificate is what closes the gap between the rows and the memory.
LEMMA PersistNumbers ==
  ASSUME NumbersFacts, Persist, failures = 0 PROVE Numbered(rows["certificate"])'
  <1>1. PICK k, id : PutsRow(k, id)
    BY PersistPuts DEF NumbersFacts
  <1>2. "certificate" \in Kind /\ Memory["certificate"] = certificates
    BY KindIs, MemoryIs
  <1>3. CASE k # "certificate"
    <2>1. \A c : c \in DOMAIN rows'["certificate"] <=> c \in DOMAIN rows["certificate"]
      BY <1>1, <1>2, <1>3 DEF PutsRow
    <2>2. \A c \in DOMAIN rows'["certificate"] : rows'["certificate"][c] = rows["certificate"][c]
      BY <1>1, <1>2, <1>3 DEF PutsRow
    <2>3. DOMAIN rows'["certificate"] = DOMAIN rows["certificate"]
      BY <2>1
    <2> QED
      BY <2>2, <2>3 DEF NumbersFacts, NumbersInv, Numbered
  <1>4. CASE k = "certificate"
    <2>1. ASSUME NEW c \in DOMAIN certificates
          PROVE  c \in DOMAIN rows'["certificate"] /\ rows'["certificate"][c] = certificates[c]
      <3>1. CASE c = id
        BY <1>1, <1>2, <1>4, <3>1 DEF PutsRow
      <3>2. CASE c # id
        <4>1. \A i \in (saved + 1)..Len(saves) : saves[i].kind = "certificate" => saves[i].id = id
          <5> SUFFICES ASSUME NEW i \in (saved + 1)..Len(saves), saves[i].kind = "certificate"
                       PROVE  saves[i].id = id
            OBVIOUS
          <5>1. i \in 1..Len(saves) /\ saved + 1 \in 1..Len(saves)
            BY <1>1 DEF PutsRow, NumbersFacts, PgInv, RunOK
          <5>2. saves[saved + 1].kind = "certificate" /\ saves[saved + 1].id = id
            BY <1>1, <1>4 DEF PutsRow
          <5>3. i = saved + 1
            BY <5>1, <5>2 DEF NumbersFacts, RowInv, SavedOnce
          <5> QED
            BY <5>2, <5>3
        <4>2. c \in DOMAIN rows["certificate"] /\ rows["certificate"][c] = certificates[c]
          BY <1>2, <3>2, <4>1 DEF NumbersFacts, Synced
        <4> QED
          BY <1>1, <1>2, <3>2, <4>2 DEF PutsRow
      <3> QED
        BY <3>1, <3>2
    <2>2. DOMAIN rows'["certificate"] \subseteq DOMAIN certificates
      BY <1>1, <1>2, PutsGrow DEF NumbersFacts, Grown
    <2>3. DOMAIN rows'["certificate"] = DOMAIN certificates
      BY <2>1, <2>2
    <2> QED
      BY <2>1, <2>3 DEF NumbersFacts, NumbersInv, Numbered
  <1> QED
    BY <1>3, <1>4

\* Only a start of the server counts one.
LEMMA StartsStay ==
  ASSUME [PgNext]_pgVars PROVE Restart \/ starts' = starts
  <1>1. ASSUME NEW operation, NEW plan, Transaction(operation, plan)
        PROVE  starts' = starts
    BY <1>1 DEF Transaction
  <1>2. ASSUME NEW operation, Call(operation)
        PROVE  starts' = starts
    BY <1>2 DEF Call, logVars
  <1>3. ASSUME NEW u \in Present, PgIntake(u)
        PROVE  starts' = starts
    BY <1>3, Zenon DEF PgIntake, Transaction, Call, logVars
  <1>4. ASSUME NEW u \in Present, PgCustody(u) \/ PgMethods(u) \/ PgCertificates(u)
        PROVE  starts' = starts
    BY <1>4 DEF PgCustody, PgMethods, PgCertificates, Transaction
  <1>5. ASSUME NEW u \in Present, PgTasks(u)
        PROVE  starts' = starts
    BY <1>5, Zenon DEF PgTasks, Transaction, Call, logVars
  <1>6. Persist \/ FailPersist => starts' = starts
    BY DEF Persist, FailPersist
  <1>7. UNCHANGED pgVars => starts' = starts
    BY DEF pgVars, logVars
  <1> QED
    BY <1>3, <1>4, <1>5, <1>6, <1>7 DEF PgNext

\* A refused save takes no certificate back: it is the first of its transaction,
\* and the memory keeps the one that was refused.
LEMMA FailPersistNumbers ==
  ASSUME PgInv, RowInv, FailPersist PROVE certificates' = certificates
  <1>1. PICK tables : SetMemory(tables) /\ FallsBackTo(tables)
    BY FailPersistFalls
  <1>2. "certificate" \in Kind /\ Memory["certificate"] = certificates
    BY KindIs, MemoryIs
  <1>3. certificates' = tables["certificate"]
    BY <1>1 DEF SetMemory
  <1>4. \A i \in (saved + 2)..Len(saves) : saves[i].kind # "certificate"
    <2> SUFFICES ASSUME NEW i \in (saved + 2)..Len(saves), saves[i].kind = "certificate"
                 PROVE  FALSE
      OBVIOUS
    <2>1. saved \in Nat /\ Len(saves) \in Nat
      BY DEF PgInv, RunOK
    <2>2. i \in 1..Len(saves) /\ i # 1
      BY <2>1
    <2> QED
      BY <2>2 DEF RowInv, SavedOnce
  <1>5. DOMAIN tables["certificate"] = DOMAIN certificates
        /\ \A c \in DOMAIN certificates : tables["certificate"][c] = certificates[c]
    <2>1. {saves[i].id : i \in {j \in (saved + 2)..Len(saves) :
                                 saves[j].kind = "certificate" /\ saves[j].old = {}}} = {}
      BY <1>4
    <2>2. \A c \in DOMAIN certificates : c \in DOMAIN tables["certificate"]
      BY <1>1, <1>2, <2>1 DEF FallsBackTo
    <2>3. \A c \in DOMAIN tables["certificate"] :
            c \in DOMAIN certificates /\ tables["certificate"][c] = certificates[c]
      BY <1>1, <1>2, <1>4 DEF FallsBackTo
    <2>4. DOMAIN tables["certificate"] = DOMAIN certificates
      BY <2>2, <2>3
    <2> QED
      BY <2>3, <2>4
  <1>6. certificates = [c \in DOMAIN certificates |-> certificates[c]]
    BY DEF PgInv, TypeOK, IsMap
  <1>7. tables["certificate"] =
          [c \in DOMAIN tables["certificate"] |-> tables["certificate"][c]]
    BY <1>1, <1>2 DEF FallsBackTo, TablesOK, IsMap
  <1> QED
    BY <1>3, <1>5, <1>6, <1>7

LEMMA NumbersStep == NumbersFacts /\ [PgNext]_pgVars => NumbersFacts'
  <1> SUFFICES ASSUME NumbersFacts, [PgNext]_pgVars PROVE NumbersFacts'
    OBVIOUS
  <1>1. PgInv' /\ RowInv' /\ Synced'
    BY PgStep, RowInvStep, SyncedStep DEF NumbersFacts
  <1>2. /\ TypeOK /\ failures \in Nat /\ starts \in Nat \ {0} /\ PgInv /\ RowInv
        /\ starts = 1 \/ failures = 0 => Numbered(certificates)
        /\ failures = 0 => Numbered(rows["certificate"])
    BY DEF NumbersFacts, NumbersInv, PgInv, Synced
  <1>3. CASE [Next]_vars /\ rows' = rows /\ failures' = failures /\ starts' = starts
    <2>1. Numbered(certificates) => Numbered(certificates)'
      BY <1>2, <1>3, NumberedNext
    <2>2. Numbered(rows["certificate"]) => Numbered(rows["certificate"])'
      BY <1>3 DEF Numbered
    <2> QED
      BY <1>1, <1>2, <1>3, <2>1, <2>2 DEF NumbersFacts, NumbersInv
  <1>4. CASE Persist
    <2>1. certificates' = certificates /\ failures' = failures /\ starts' = starts
      BY <1>4 DEF Persist, vars, certVars
    <2>2. Numbered(certificates) => Numbered(certificates)'
      BY <2>1 DEF Numbered
    <2> QED
      BY <1>1, <1>2, <1>4, <2>1, <2>2, PersistNumbers DEF NumbersFacts, NumbersInv
  <1>5. CASE FailPersist
    <2>1. failures' # 0 /\ starts' = starts
      BY <1>2, <1>5 DEF FailPersist
    <2>2. Numbered(certificates) => Numbered(certificates)'
      BY <1>2, <1>5, FailPersistNumbers DEF Numbered
    <2> QED
      BY <1>1, <1>2, <2>1, <2>2 DEF NumbersFacts, NumbersInv
  <1>6. CASE Restart
    <2>1. /\ rows' = rows /\ certificates' = rows["certificate"]
          /\ failures' = failures /\ starts' = starts + 1
      BY <1>6 DEF Restart, SetMemory
    <2>2. Numbered(rows["certificate"]) =>
            Numbered(rows["certificate"])' /\ Numbered(certificates)'
      BY <2>1 DEF Numbered
    <2> QED
      BY <1>1, <1>2, <2>1, <2>2 DEF NumbersFacts, NumbersInv
  <1>7. Quiet \/ (\E plan : Starts(plan)) =>
          [Next]_vars /\ rows' = rows /\ failures' = failures
    BY DEF Quiet, Starts, Opened
  <1> QED
    BY <1>2, <1>3, <1>4, <1>5, <1>6, <1>7, StepKinds, StartsStay

\* The certificates in the memory are numbered 1, 2, ... without a gap, in one
\* run of the server whatever saves are refused, and over kills if none is; so
\* are those in the database if no save was refused, and until the next start
\* they have different numbers even so.
THEOREM NumbersSurvive == PgSpec => []NumbersOutlast
  <1>1. ASSUME NumbersFacts PROVE NumbersOutlast
    <2>1. \A table : Numbered(table) => Gapless(table)
      BY DEF Numbered, Gapless, Apart
    <2>2. ASSUME Numbered(certificates) PROVE Apart(rows["certificate"])
      <3> SUFFICES ASSUME NEW c \in DOMAIN rows["certificate"],
                          NEW e \in DOMAIN rows["certificate"],
                          rows["certificate"][c].number = rows["certificate"][e].number
                   PROVE  c = e
        BY DEF Apart
      <3>1. "certificate" \in Kind /\ Memory["certificate"] = certificates
        BY KindIs, MemoryIs
      <3>2. \A k \in DOMAIN rows["certificate"] :
              /\ k \in DOMAIN certificates
              /\ Later("certificate", rows["certificate"][k], certificates[k])
        BY <1>1, <3>1 DEF NumbersFacts, RowInv, Grown
      <3>3. \A k \in DOMAIN rows["certificate"] : rows["certificate"][k] = certificates[k]
        BY <3>2 DEF Later, Fixed
      <3> QED
        BY <2>2, <3>2, <3>3 DEF Numbered
    <2> QED
      BY <1>1, <2>1, <2>2 DEF NumbersFacts, NumbersInv, NumbersOutlast
  <1> QED
    BY <1>1, NumbersInit, NumbersStep, PTL DEF PgSpec

-----------------------------------------------------------------------------
(* Orderly restarts.                                                        *)

\* The laboratory, the rows and the saves to come, as long as nothing was cut.
OrderlyInv == PgInv /\ RowInv /\ Synced /\ (~cut => LabInv)

LEMMA LabInit == Init => LabInv
  <1> SUFFICES ASSUME Init PROVE LabInv
    OBVIOUS
  <1> USE DEF Init, NoEntries
  <1>1. TypeOK
    BY TypeInit
  <1>2. CallsPending /\ ExecutorConfirmedReceipt /\ TraceInv
    BY DEF CallsPending, ExecutorConfirmedReceipt, TraceInv
  <1>3. RoundsInv
    BY DEF RoundsInv, RoundsBelongToExecutor, RoundsOf
  <1>4. ReviewInv /\ TransferInv
    BY DEF ReviewInv, IndependentReview, TransferInv, TwoPartyTransfer, Audited
  <1>5. MethodInv
    BY DEF MethodInv, TaskMethodPublished
  <1>6. OneSamplePerRequest /\ CustodyInv
    BY DEF OneSamplePerRequest, CustodyInv, HolderConfirmedReceipt
  <1> QED
    BY <1>1, <1>2, <1>3, <1>4, <1>5, <1>6 DEF LabInv, Groundwork

LEMMA LabNext == LabInv /\ [Next]_vars => LabInv'
  <1> SUFFICES ASSUME LabInv, [Next]_vars PROVE LabInv'
    OBVIOUS
  <1>1. TypeOK /\ Groundwork /\ OneSamplePerRequest /\ CustodyInv /\ TransferInv /\ TraceInv
    BY DEF LabInv, Groundwork
  <1>2. Groundwork' /\ TraceInv'
    BY <1>1, GroundworkNext, TraceInvNext
  <1>3. OneSamplePerRequest' /\ CustodyInv' /\ TransferInv'
    BY <1>1, OneSampleNext, CustodyInvNext, TransferInvNext
  <1> QED
    BY <1>2, <1>3 DEF LabInv

\* A memory that is set to what it was keeps every record.
LEMMA SameMemory ==
  ASSUME TypeOK, rows = Memory, SetMemory(rows)
  PROVE  /\ UNCHANGED <<requests, samples, subsamples, custodyVars>>
         /\ UNCHANGED <<methods, tasks, rounds, retests, certificates, audits>>
  <1>1. /\ rows.request = requests /\ rows.sample = samples
        /\ rows.custody = custodies /\ rows.method = methods
        /\ rows.task = tasks /\ rows.round = rounds
        /\ rows.retest = retests /\ rows.certificate = certificates
        /\ DOMAIN rows.audit = audits
    BY MemoryIs
  <1>2. /\ DOMAIN rows.subsample = DOMAIN subsamples
        /\ \A x \in DOMAIN subsamples :
             rows.subsample[x].part = subsamples[x] /\ rows.subsample[x].held = holding[x]
    BY DEF Memory
  <1>3. /\ subsamples = [x \in DOMAIN subsamples |-> subsamples[x]]
        /\ holding = [x \in DOMAIN subsamples |-> holding[x]]
    BY DEF TypeOK, IsMap
  <1> QED
    BY <1>1, <1>2, <1>3 DEF SetMemory, custodyVars

\* Without the calls that were still to save, the laboratory is as sound as
\* with them.
LEMMA CallsForgotten ==
  ASSUME LabInv, TypeOK', creating' = NoEntries, retesting' = NoEntries,
         UNCHANGED <<requests, samples, subsamples, custodyVars>>,
         UNCHANGED <<methods, tasks, rounds, retests, certificates, audits>>
  PROVE  LabInv'
  <1> USE DEF custodyVars
  <1>1. DOMAIN creating' = {} /\ DOMAIN retesting' = {}
    BY DEF NoEntries
  <1>2. /\ CallsPending /\ ExecutorConfirmedReceipt /\ RoundsInv /\ ReviewInv /\ MethodInv
        /\ OneSamplePerRequest /\ CustodyInv /\ TransferInv /\ TraceInv
    BY DEF LabInv, Groundwork
  <1>3. CallsPending'
    BY <1>1 DEF CallsPending
  <1>4. ExecutorConfirmedReceipt'
    BY <1>2 DEF ExecutorConfirmedReceipt, Receipts
  <1>5. RoundsInv'
    BY <1>1, <1>2 DEF RoundsInv, RoundsBelongToExecutor, RoundsOf
  <1>6. ReviewInv' /\ TransferInv'
    BY <1>2 DEF ReviewInv, IndependentReview, TransferInv, TwoPartyTransfer, Audited
  <1>7. MethodInv'
    BY <1>1, <1>2 DEF MethodInv, TaskMethodPublished, Founded
  <1>8. OneSamplePerRequest' /\ CustodyInv'
    BY <1>2 DEF OneSamplePerRequest, CustodyInv, HolderConfirmedReceipt, Receipts
  <1>9. TraceInv'
    BY <1>2 DEF TraceInv, Backed, TasksOf, Receipts, RoundsOf, Audited
  <1> QED
    BY <1>3, <1>4, <1>5, <1>6, <1>7, <1>8, <1>9 DEF LabInv, Groundwork

\* A restart that cuts nothing reads back exactly what the memory was.
LEMMA RestartOrderly ==
  ASSUME OrderlyInv, Restart, ~cut' PROVE LabInv'
  <1>1. /\ saves = <<>> /\ ~cut
        /\ SetMemory(rows) /\ creating' = NoEntries /\ retesting' = NoEntries
    BY DEF Restart
  <1>2. failures = 0
    BY <1>1 DEF OrderlyInv, Synced
  <1>3. rows = Memory
    BY <1>1, <1>2, RowsAreMemory DEF OrderlyInv
  <1>4. TypeOK /\ LabInv /\ PgInv
    BY <1>1 DEF OrderlyInv, PgInv
  <1>5. TypeOK'
    BY <1>4, RestartKeeps DEF PgInv
  <1> QED
    BY <1>1, <1>3, <1>4, <1>5, SameMemory, CallsForgotten

LEMMA OrderlyStep == OrderlyInv /\ [PgNext]_pgVars => OrderlyInv'
  <1> SUFFICES ASSUME OrderlyInv, [PgNext]_pgVars PROVE OrderlyInv'
    OBVIOUS
  <1>1. PgInv' /\ RowInv' /\ Synced'
    BY PgStep, RowInvStep, SyncedStep DEF OrderlyInv
  <1>2. ASSUME ~cut' PROVE LabInv'
    <2>1. CASE [Next]_vars /\ cut' = cut
      BY <1>2, <2>1, LabNext DEF OrderlyInv
    <2>2. CASE Persist
      <3>1. UNCHANGED <<vars, cut>>
        BY <2>2 DEF Persist
      <3> QED
        BY <2>1, <3>1
    <2>3. CASE FailPersist
      BY <1>2, <2>3 DEF FailPersist
    <2>4. CASE Restart
      BY <1>2, <2>4, RestartOrderly
    <2> QED
      BY <2>1, <2>2, <2>3, <2>4, StepKinds DEF Quiet, Starts, Opened, OrderlyInv
  <1> QED
    BY <1>1, <1>2 DEF OrderlyInv

\* As long as no transaction was cut or refused, the rows are the memory when
\* nothing is being saved (every operation saves all it changes), and restore
\* and seedUsers take nothing from what holds in one run of the server.
THEOREM RestartsOrderly == PgSpec => []OrderlyRestartKeeps
  <1>1. PgInit => OrderlyInv
    BY PgInitInv, RowInvInit, SyncedInit, LabInit DEF PgInit, OrderlyInv
  <1>2. OrderlyInv => OrderlyRestartKeeps
    <2> SUFFICES ASSUME OrderlyInv, ~cut
                 PROVE  /\ saves = <<>> => rows = Memory
                        /\ OneSamplePerRequest /\ HolderConfirmedReceipt /\ TwoPartyTransfer
                        /\ ExecutorConfirmedReceipt /\ RoundsBelongToExecutor
                        /\ IndependentReview /\ CertificateTraceable
      BY DEF OrderlyRestartKeeps
    <2>1. failures = 0 /\ LabInv
      BY DEF OrderlyInv, Synced
    <2>2. saves = <<>> => rows = Memory
      BY <2>1, RowsAreMemory DEF OrderlyInv
    <2>3. /\ OneSamplePerRequest /\ CustodyInv /\ TransferInv /\ TraceInv
          /\ ExecutorConfirmedReceipt /\ RoundsInv /\ ReviewInv
      BY <2>1 DEF LabInv, Groundwork
    <2> QED
      BY <2>2, <2>3, TraceInvTraceable
      DEF CustodyInv, TransferInv, RoundsInv, ReviewInv
  <1> QED
    BY <1>1, <1>2, OrderlyStep, PTL DEF PgSpec
=============================================================================
