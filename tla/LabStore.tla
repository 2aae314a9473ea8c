------------------------------- MODULE LabStore -------------------------------
(***************************************************************************)
(* The state of the laboratory server: the maps of the in-memory store     *)
(* (memory.Store), the requests that are between two store calls, and the  *)
(* operators every handler uses.  Transaction holds the store's one mutex  *)
(* from its first read to its last write, so that an operation which does  *)
(* all its work inside it is one atomic step.                              *)
(*                                                                         *)
(* A Go map is a function whose domain is the set of keys present.  What   *)
(* a record holds is cut down to what the properties tell apart.           *)
(***************************************************************************)
EXTENDS Naturals, FiniteSets

CONSTANTS
  Users,          \* accounts
  RoleOf,         \* the role of each account
  RequestId, SampleId, SubsampleId, CustodyId, MethodId, TaskId, RoundId,
  RetestId, CertificateId,   \* the UUIDs NewID can return, by kind
  Label,          \* subsample labels
  Location,       \* storage locations
  MethodCode,     \* method codes
  Result,         \* rounded results of a calculation
  SeedMethod,     \* the method the server publishes when it starts
  SeedCode,       \* the code of that method
  None            \* a string that is the ID of no user and no record

Roles == {"registrar", "tester", "reviewer", "manager"}

ObjectId == RequestId \cup SampleId \cup SubsampleId \cup CustodyId
              \cup MethodId \cup TaskId \cup RoundId \cup CertificateId

ASSUME StoreAssumption ==
  /\ RoleOf \in [Users -> Roles]
  /\ \E u \in Users : RoleOf[u] = "manager"
  /\ None \notin Users \cup RequestId \cup SampleId \cup CertificateId
  /\ SeedMethod \in MethodId
  /\ SeedCode \in MethodCode

VARIABLES
  sequence,       \* Store.sequence, the counter behind sample numbers
  requests, samples, subsamples,
  holding,        \* CurrentHolder and LocationID of each subsample
  declaredLoss,   \* sum of the loss entries of each sample's split events
  custodies, methods, tasks, rounds, retests, certificates,
  audits,         \* who did what to which object
  creating,       \* CreateTask calls between their checks and their save
  retesting       \* createRetest calls between their check and their save
                  \* (both by the ID of the record they are about to save)

intakeVars  == <<sequence, requests, samples, subsamples, declaredLoss>>
custodyVars == <<holding, custodies>>
testingVars == <<methods, tasks, rounds, retests, creating, retesting>>
certVars    == <<certificates>>
vars == <<intakeVars, custodyVars, testingVars, certVars, audits>>

-----------------------------------------------------------------------------
(* Maps.                                                                    *)

IsMap(map, K, V) == DOMAIN map \subseteq K /\ map \in [DOMAIN map -> V]

\* The store's SaveX: insert or overwrite one entry.
Put(map, key, value) ==
  [k \in DOMAIN map \cup {key} |-> IF k = key THEN value ELSE map[k]]

\* A loop of SaveX over several entries.
PutAll(map, new) ==
  [k \in DOMAIN map \cup DOMAIN new |->
     IF k \in DOMAIN new THEN new[k] ELSE map[k]]

Remove(map, key) == [k \in DOMAIN map \ {key} |-> map[k]]

\* NewID: a UUID no entry of the map has.
Fresh(ids, map) == ids \ DOMAIN map

NoEntries == [k \in {} |-> None]

-----------------------------------------------------------------------------
(* Record types.                                                            *)

Request     == [status : {"draft", "submitted"}, complete : BOOLEAN,
                revision : Nat, number : Nat, sample : SampleId \cup {None}]
Sample      == [request : RequestId, number : Nat, total : Nat,
                status : {"registered", "split"}]
Subsample   == [sample : SampleId, label : Label, quantity : Nat]
Holding     == [holder : Users \cup {None}, place : Location]
Custody     == [subsample : SubsampleId, from : Users,
                to : Users \cup {None}, place : Location,
                status : {"pending", "confirmed"}]
Method      == [code : MethodCode, version : Nat, valid : BOOLEAN,
                status : {"draft", "published"}]
Task        == [request : RequestId \cup {None}, subsample : SubsampleId,
                method : MethodId, version : Nat, assignee : Users \cup {None},
                executor : Users \cup {None}, round : Nat,
                status : {"pending", "in_progress", "review", "approved",
                          "rejected"}]
Round       == [task : TaskId, number : Nat, result : Result, by : Users]
Retest      == [task : TaskId, round : Nat]
Certificate == [request : RequestId, sample : SampleId \cup {None},
                number : Nat, results : UNION {[D -> Result] : D \in SUBSET TaskId},
                supersedes : CertificateId \cup {None}]
Event       == [actor : Users, object : ObjectId,
                action : {"create", "update", "submit", "split", "initiate",
                          "confirm", "publish", "start", "record",
                          "submit_review", "review_approve", "review_return",
                          "issue"}]
TaskCall    == [actor : Users, task : Task]

-----------------------------------------------------------------------------
(* Shared by the handlers.                                                  *)

\* Server.require: the caller's role is one of those the route allows.
Require(u, roles) == RoleOf[u] \in roles

\* Service.audit, the last call of every transaction.  The trail is kept as
\* the set of facts it records.
Audit(u, action, id) ==
  audits' = audits \cup {[actor |-> u, action |-> action, object |-> id]}

Audited(u, action, id) ==
  [actor |-> u, action |-> action, object |-> id] \in audits

\* An empty store in which seedDomain has created and published its method.
Init ==
  /\ sequence = 0
  /\ requests = NoEntries /\ samples = NoEntries /\ subsamples = NoEntries
  /\ declaredLoss = [s \in SampleId |-> 0]
  /\ holding = NoEntries /\ custodies = NoEntries
  /\ methods = [m \in {SeedMethod} |-> [code |-> SeedCode, version |-> 1,
                                        valid |-> TRUE, status |-> "published"]]
  /\ tasks = NoEntries /\ rounds = NoEntries /\ retests = NoEntries
  /\ certificates = NoEntries
  /\ \E u \in Users :
       /\ RoleOf[u] = "manager"
       /\ audits = {[actor |-> u, action |-> a, object |-> SeedMethod] :
                      a \in {"create", "publish"}}
  /\ creating = NoEntries /\ retesting = NoEntries

\* Every map holds records of its own kind, and each subsample has a holding.
TypeOK ==
  /\ sequence \in Nat
  /\ IsMap(requests, RequestId, Request)
  /\ IsMap(samples, SampleId, Sample)
  /\ IsMap(subsamples, SubsampleId, Subsample)
  /\ holding \in [DOMAIN subsamples -> Holding]
  /\ declaredLoss \in [SampleId -> Nat]
  /\ IsMap(custodies, CustodyId, Custody)
  /\ IsMap(methods, MethodId, Method)
  /\ IsMap(tasks, TaskId, Task)
  /\ IsMap(rounds, RoundId, Round)
  /\ IsMap(retests, RetestId, Retest)
  /\ IsMap(certificates, CertificateId, Certificate)
  /\ IsFiniteSet(DOMAIN certificates)
  /\ audits \subseteq Event
  /\ IsMap(creating, TaskId, TaskCall)
  /\ IsMap(retesting, RetestId, Retest)
=============================================================================
