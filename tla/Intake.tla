-------------------------------- MODULE Intake --------------------------------
(***************************************************************************)
(* Intake: inspection requests from draft to submission, the sample a      *)
(* submission registers, and the splitting of a sample into subsamples.    *)
(*                                                                         *)
(* A request is complete when ValidateForSubmit accepts its fields.  The   *)
(* unit, the purpose and the texts of a call can only make it fail, which  *)
(* changes nothing: the actions are the calls that pass those checks.      *)
(***************************************************************************)
EXTENDS LabStore, FiniteSetsExt

CONSTANTS
  Quantity,       \* quantities a call may carry
  MaxRevision,    \* bound on the edits of a request
  MaxSequence     \* bound on the sample numbers drawn

ASSUME IntakeAssumption ==
  /\ Quantity \subseteq Nat
  /\ MaxRevision \in Nat /\ MaxSequence \in Nat

Intaking == {"registrar", "manager"}

-----------------------------------------------------------------------------

CreateRequest(u, r, complete) ==
  /\ Require(u, Intaking)
  /\ requests' = Put(requests, r,
       [status |-> "draft", complete |-> complete, revision |-> 1,
        number |-> 0, sample |-> None])
  /\ Audit(u, "create", r)
  /\ UNCHANGED <<sequence, samples, subsamples, declaredLoss, custodyVars,
                 testingVars, certVars>>

Editable_Always(r) == TRUE
Editable(r) == requests[r].status = "draft"

\* The caller's revision is not compared with the stored one: the last write
\* wins.
UpdateRequest(u, r, complete) ==
  /\ Require(u, Intaking)
  /\ Editable(r)
  /\ requests[r].revision < MaxRevision
  /\ requests' = [requests EXCEPT ![r].complete = complete,
                                  ![r].revision = @ + 1]
  /\ Audit(u, "update", r)
  /\ UNCHANGED <<sequence, samples, subsamples, declaredLoss, custodyVars,
                 testingVars, certVars>>

\* InspectionRequest.Submit accepts the request.
Submittable_Again(r) == requests[r].complete
Submittable(r) == requests[r].status = "draft" /\ requests[r].complete

\* NextReference.
DrawNumber_Unbumped == sequence < MaxSequence /\ sequence' = sequence
DrawNumber == sequence < MaxSequence /\ sequence' = sequence + 1

SubmitRequest(u, r, s, total) ==
  /\ Require(u, Intaking)
  /\ total > 0
  /\ DrawNumber
  /\ Submittable(r)
  /\ samples' = Put(samples, s,
       [request |-> r, number |-> sequence + 1, total |-> total,
        status |-> "registered"])
  /\ requests' = [requests EXCEPT ![r].status = "submitted",
                                  ![r].number = sequence + 1,
                                  ![r].sample = s]
  /\ Audit(u, "submit", r)
  /\ UNCHANGED <<subsamples, declaredLoss, custodyVars, testingVars, certVars>>

\* Submit refuses after the number is drawn, and nothing gives it back.
RefuseSubmit(u, r, total) ==
  /\ Require(u, Intaking)
  /\ total > 0
  /\ DrawNumber
  /\ ~Submittable(r)
  /\ UNCHANGED <<requests, samples, subsamples, declaredLoss, custodyVars,
                 testingVars, certVars, audits>>

-----------------------------------------------------------------------------
(* Splitting.                                                               *)

PartsOf(s) == {x \in DOMAIN subsamples : subsamples[x].sample = s}

\* What the subsamples of a sample hold together.
Allocated(s) == SumFunction([x \in PartsOf(s) |-> subsamples[x].quantity])

\* What the parts of a split hold together.
Added(parts) == SumFunction([x \in DOMAIN parts |-> parts[x].quantity])

\* What a split would bring the sample to, for parts that map the IDs of the
\* new subsamples to their inputs.
Used_NewOnly(s, parts, loss) == loss + Added(parts)
Used(s, parts, loss) == loss + Allocated(s) + Added(parts)

ValidateSplit(s, parts, loss, explained) ==
  LET new == DOMAIN parts IN
  /\ new # {} /\ IsFiniteSet(new)
  /\ loss > 0 => explained
  /\ \A x \in new :
       /\ parts[x].quantity > 0
       /\ \A y \in PartsOf(s) : subsamples[y].label # parts[x].label
       /\ \A y \in new \ {x} : parts[y].label # parts[x].label
  /\ Used(s, parts, loss) <= samples[s].total

SplitSample(u, s, parts, loss, explained) ==
  /\ Require(u, Intaking)
  /\ ValidateSplit(s, parts, loss, explained)
  /\ subsamples' = PutAll(subsamples,
       [x \in DOMAIN parts |-> [sample |-> s, label |-> parts[x].label,
                                quantity |-> parts[x].quantity]])
  /\ holding' = PutAll(holding,
       [x \in DOMAIN parts |-> [holder |-> None, place |-> parts[x].place]])
  /\ samples' = [samples EXCEPT ![s].status = "split"]
  /\ declaredLoss' = [declaredLoss EXCEPT ![s] = @ + loss]
  /\ Audit(u, "split", s)
  /\ UNCHANGED <<sequence, requests, custodies, testingVars, certVars>>

Part == [label : Label, quantity : Quantity, place : Location]

IntakeNext ==
  \E u \in Users :
    \/ \E r \in Fresh(RequestId, requests), complete \in BOOLEAN :
         CreateRequest(u, r, complete)
    \/ \E r \in DOMAIN requests :
         \/ \E complete \in BOOLEAN : UpdateRequest(u, r, complete)
         \/ \E total \in Quantity :
              \/ \E s \in Fresh(SampleId, samples) :
                   SubmitRequest(u, r, s, total)
              \/ RefuseSubmit(u, r, total)
    \/ \E s \in DOMAIN samples, loss \in Quantity, explained \in BOOLEAN :
         \E new \in SUBSET Fresh(SubsampleId, subsamples) :
           \E parts \in [new -> Part] :
             SplitSample(u, s, parts, loss, explained)

IntakeSpec == Init /\ [][IntakeNext]_vars

-----------------------------------------------------------------------------
(* Safety.                                                                  *)

\* A sample number is drawn at most once, also by the submissions that are
\* refused in between (NextReference under the store's mutex).
SampleNumbersUnique ==
  /\ \A s \in DOMAIN samples : samples[s].number \in 1..sequence
  /\ \A s, t \in DOMAIN samples :
       samples[s].number = samples[t].number => s = t

\* A submitted request and its sample name each other and carry the same
\* number; a draft has neither.  However often and by whomever a request is
\* submitted, it never has a second sample.
OneSamplePerRequest ==
  /\ \A r \in DOMAIN requests :
       IF requests[r].status = "draft"
       THEN requests[r].sample = None /\ requests[r].number = 0
       ELSE /\ requests[r].sample \in DOMAIN samples
            /\ samples[requests[r].sample].request = r
            /\ samples[requests[r].sample].number = requests[r].number
  /\ \A s \in DOMAIN samples :
       /\ samples[s].request \in DOMAIN requests
       /\ requests[samples[s].request].sample = s

\* Over any number of splits the subsamples never hold more than the sample,
\* and no two subsamples of a sample share a label.
AllocationWithinTotal ==
  \A s \in DOMAIN samples :
    /\ Allocated(s) <= samples[s].total
    /\ \A x, y \in PartsOf(s) :
         subsamples[x].label = subsamples[y].label => x = y

\* A submitted request is never edited or submitted again, and what a sample
\* was registered with never changes.
SubmittedFrozen ==
  [][/\ \A r \in DOMAIN requests :
          requests[r].status = "submitted" => requests'[r] = requests[r]
     /\ \A s \in DOMAIN samples :
          samples'[s] = [samples[s] EXCEPT !.status = samples'[s].status]
    ]_vars

\* README, step 2 of the main path: whatever is lost must be explained and
\* "the total allocation must not exceed the quantity of the parent sample".
\* The losses the trail records are part of what the parent gave up.
LossWithinTotal ==
  \A s \in DOMAIN samples : Allocated(s) + declaredLoss[s] <= samples[s].total
=============================================================================
