# Verification of the material laboratory platform

TLA+ models of the laboratory server in this repository, the TLC runs that
check them on small instances, and proofs, checked by TLAPS, for instances of
every size.

The server keeps inspection requests, samples and their subsamples, custody
transfers, versioned test methods, test tasks with their rounds of readings,
technical reviews and certificates. Accounts in four roles (registrar, tester,
reviewer, manager) work on these records concurrently through an HTTP API. What
makes the system worth modelling is not any one handler but what a chain of
handlers, called by several people in an order nobody wrote down, does to facts
that are spread over several records: who really had the subsample, who
reviewed whom, what a certificate rests on.

## Inventory

| component | state it keeps | operations | talks to | what makes it correct |
| --- | --- | --- | --- | --- |
| intake (`internal/application`, `internal/domain/sample.go`) | requests, samples, subsamples, the sample-number counter | create, update, submit, split | store, audit trail | one sample per request, numbers never reused, subsamples never hold more than the sample |
| custody (`internal/domain/custody.go`) | transfers; holder and place of each subsample | initiate, confirm | intake's subsamples | two parties; a subsample moves only when its recipient confirms |
| methods (`internal/domain/method.go`) | method versions | create, validate, publish | tasks | code and version unique; only valid methods are published |
| tasks (`internal/domain/task.go`) | tasks, rounds, retest requests | create, start, record, submit for review, ask for a retest | methods, custody | the executor received the subsample; what is under review is frozen |
| review | verdicts (in the tasks) and their audit events | approve, return | tasks | nobody judges their own work |
| certificates (`internal/domain/certificate.go`) | certificates | issue, verify | requests, tasks, rounds | every line traces back to approved work that no longer changes |
| in-memory store (`internal/adapters/memory`) | all maps, one mutex | `Transaction`, plain reads, saves | everything | a transaction is one atomic step |
| PostgreSQL repository (`internal/adapters/postgres`) and server start (`cmd/server`) | the same maps plus rows in `runtime_entities` | the same, each save in memory first and in its row next; restore, seeding of accounts and of a method at start | everything | what was answered survives a restart; an interrupted operation leaves no record without what it rests on |
| audit trail | append-only events | append | written by every transaction | says who did what |
| HTTP server (`internal/adapters/http`) | none of its own | routes, role checks, 20 s timeout | services | the right roles reach each operation |
| sessions (`internal/auth`) | users, sessions, failed attempts per address | login, refresh, logout | HTTP server | a refresh token works once; a login that is over stays over; the limit holds, and lets go |
| worker (`internal/worker`) | jobs with leases | enqueue, lease, complete, fail | handlers | every job is completed or uses up its attempts |
| attachments (`internal/attachment`) | files | put, open, delete | nobody yet | a key never shows half a file; the answer agrees with the disk |
| formula engine (`internal/domain/method.go`) | none | parse, evaluate, round | methods, rounds | a formula is read in its one way, a result is there exactly if it is defined and is rounded once |
| frontend (`frontend/src`) | tokens in the tab, the account shown, forms | API calls, one shared refresh, login, logout, reload | HTTP server, sessions | one refresh at a time; a logout always leaves nobody shown, and no access token, in the tab |
| schema (`migrations`) | none at run time | | | its constraints say what the data should satisfy |

Hard behaviours: handlers of several accounts interleave; `CreateTask` and
`createRetest` read outside the transaction that saves; several transfers of one
subsample are pending together; Go's map iteration picks an arbitrary "last"
round; a submission can fail after it drew a number; operations are retried
after lost answers; and, with PostgreSQL, saves fail half-way and the process
restarts; an upload may be killed between any two system calls. `PROJECT.json`
lists each hazard with its line and the properties
that would notice it.

## Modules

    LabStore        state, map helpers, record types, Init, TypeOK
      Intake        requests, samples, splits
        Custody     transfers
          Testing   methods, tasks, rounds, review, retest requests
            Certification   certificates; Next and Spec of the whole
              PgRepository  the whole on a database: saves, refusals, restarts
    Assurance       what a certificate is worth; Certification implements it
    Ledger          what a keeper of records promises; PgRepository implements it
    JobContract     what a queue of leased jobs promises
    JobQueue        the worker's queue and its runners, which implement it

    Sessions        refresh sessions, access tokens, the limit on failed logins
      Browser       a tab of the frontend against it

    Attachments     uploads and downloads on a disk
    Decimals        decimal arithmetic, and fractions to compare it with
      Formula       the parser of a method's formula
        Calculation readings, evaluation, rounding
          Grammar   the trees the grammar has for a formula

    MCHandling, MCCertification, MCRestart, MCJobQueue, MCSessions, MCBrowser,
    MCAttachments, MCFormula                             instances for TLC

    SafetyProofs    types; intake, custody, testing and review
      CertificateProofs     certificates; the refinement of Assurance
        PgProofs    answers, order of saves, trail and numbers over kills and
                    refused saves, orderly restarts; the refinement of Ledger
    JobQueueProofs  types, leases and completion of the queue; the refinement
    BrowserProofs   rotation, the end of a login, the limit; the shared refresh,
                    logout
    AttachmentProofs        whole files, truthful answers, no litter
    FormulaProofs   the parser: what it accepts, and the tree it makes
      CalculationProofs     decimals are exact; results, their rounding, and
                    when there is one

Each component module extends the one it builds on and adds its actions, and
where a run stops at a layer there is a specification of the laboratory up to it
(`IntakeSpec`, `CustodySpec`, `Spec`, `PgSpec`), so that a layer is always checked
in states its real upstream operations produced, never in made-up ones.

### How state and actions correspond to the code

* A Go map of the store is a function from the IDs present to records
  (`IsMap`, `Put`). A record keeps the fields some property tells apart; texts,
  units, conditions and times are left out, because they can only make a call
  fail, and a failed call changes nothing (with one exception, `RefuseSubmit`).
* `memory.Store.Transaction` holds one mutex from the first read of an
  operation to its last write. An operation that does all its work in it is one
  action: role check of the route, input checks, domain guard, saves, audit
  event. Operations that read before or save outside a transaction are several
  actions (`BeginCreateTask` / `FinishCreateTask` / `AbandonCreateTask`,
  `BeginRetest` / `FinishRetest`), and the call in flight is kept in `creating`
  or `retesting` under the ID that was drawn for its record.
* `RefuseSubmit` is the failed call that leaves a trace: the sample number is
  drawn before `Submit` refuses.
* A request is `complete` when `ValidateForSubmit` would accept it, a method
  `valid` when `Validate` would; the client decides which.
* A split has any number of parts, but finitely many (`IsFiniteSet(new)`): the
  list in the body of a call is finite.
* Quantities are natural numbers. Negative ones are refused by the code and
  decimals add nothing to comparisons of sums.
* `declaredLoss` adds up the `loss` entries of a sample's split events; the code
  writes them to the trail and keeps them nowhere else.
* `None` is a string that is nobody's ID: the empty string, or a typing error
  in `toUserId`, `assigneeId` or `requestId`, which the code does not look up.
* The trail `audits` is the set of facts (actor, action, object) recorded; the
  order of events is not modelled.
* `Rounds` returns rounds in map order, so its last element is any round of the
  task: `SubmitReview` and `IssueCertificate` choose one. A preview of the
  frontend is a `SaveRound` like any other (`frontend/src/api/resources.ts:111`).
* Operations that exist in `internal/domain` and that nothing calls have no
  action: `StartRetest`, `NewReversal`, `Certificate.Void`, archiving of
  methods, completion of requests, the later sample states.

The store starts as `cmd/server` leaves it: empty but for the method that
`seedDomain` created and published.

`Assurance` says what all this is for, and knows no requests, samples,
transfers, calls in flight or trail: somebody who had the material begins a
piece of work, by a rule that is out; only they write notes on it, until they
close it; somebody else, entitled to, judges it once; and a statement gets the
next number, shows notes of approved work, and stays. In `Certification` who had
what is read from the confirmed transfers (`Had`), work is a task that was
started (`Begun`), and judgements come from the trail (`Judged`), not from the
task: that a task is not judged twice is therefore something to show.
`GivesAssurance` states that the whole laboratory implements it.

### The PostgreSQL repository and restarts

`PgRepository` takes the operations of the laboratory as they are and gives each
the list of saves that the code makes, in the code's order.

* `Transaction(operation, plan)` starts one: the laboratory's variables become
  what memory holds once the operation is through, `saves` lists what is to be
  saved. `Persist` then writes one row after the other, and the call is answered
  at the last. The repository's mutex keeps other transactions out meanwhile
  (`saves = <<>>`); `TaskPlan` and the others are the orders of the saves.
* A save goes to memory before its row, and nothing is undone. `FailPersist` is
  a row the database refuses: memory keeps that record and those before it,
  loses what the later saves would have brought (`Before`), and the call fails.
* `Restart` stands for a stop, a kill at any point (also in mid-transaction) and
  the next start: memory becomes the rows, the counter of sample numbers is 0
  again, the calls in flight are gone, and `seedUsers` creates its accounts with
  new IDs. `StartOf` names the start that created an account, and only those of
  the present one act or are named by clients (`Present`).
* Plain reads and the checks of `CreateTask` and `createRetest` take no lock of
  the repository and may fall into a transaction. What they read is one record
  of a kind, before or after its save, so they are placed between transactions,
  before or after it. So is the save of a retest request, which takes no lock of
  the repository either (`repository.go:203`) but touches a record of its own.
  `PgRepository.Transaction` does not look at the context,
  so there is no `AbandonCreateTask`.
* `answered` is what each record was when a call about it was last answered, and
  `Later` what the operations may make of a record after that. It is kept for
  the properties, as are `cut` and `failures`.
* `Ledger` is what is left of it seen from outside: for each kind, what is kept
  and what was told when. One record at a time is entered, or replaced by what
  it may become; somebody is told of records as they are kept at that moment.
  `KeepsLedger` states that the rows and the answers are a ledger; transactions,
  memory, refused saves, kills and starts are invisible there.
* Splits give no loss here, numbers are of one day, and the first start is
  taken to succeed. The verification code of a certificate is not modelled (see
  Known gaps).

### The job queue

`MemoryQueue` holds its mutex for the whole of each call, so `Enqueue`, `Lease`,
`Complete` and `Fail` are one action each. A runner is sequential: it leases,
runs the handler, and reports, and between these steps other runners and the
clock go on; what it holds meanwhile is the copy that `Lease` returned
(`runner[r]`).

* The code only ever compares a time with now. A time is therefore the number of
  ticks until it, `Past` when it is over, and `Tick` takes one off each. That
  keeps the difference the code makes at the end of a lease: at that instant
  (0 left) the job may be leased again, since now is no longer before it, and
  may still be completed, since now is not yet after it.
* `Complete` and `Fail` that the queue refuses are part of the same actions: the
  runner logs the error and goes on, the queue is unchanged.
* The delay after a failure is the square of the attempt, counted from the end
  of the handler as in `runOne`; a tick is a second.
* Runners have names of their own, as in `runner_test.go`. `cmd/worker` starts a
  single runner on its queue; nothing in the repository calls `Enqueue` but the
  tests, so what is enqueued is left to the environment.
* `JobContract` has no clock: a job has at most one runner with a say, claims
  run out, a done job stays done, attempts are limited. `KeepsContract` states
  that the queue implements it, a runner having a say while it owns a lease
  that is not over.

### Sessions and the browser

`auth.Service` holds its mutex for the whole of each call, so a login, a refresh
and a logout are one action each; `Parse` only reads.

* Times are ticks left, as in the queue, so that what the code does at the very
  instant is kept: a refresh token is taken when it expires (`After`), an access
  token is not (the JWT library wants now before `exp`), and at the end of a
  window of failures an address is neither limited (`Before`) nor given a new
  window (`After`).
* A token is the name of its session: a secret of 32 random bytes is known only
  to who received it. The environment may present a token at any time and again,
  which stands for retries, copies and several callers. Presenting anything else
  is refused and changes nothing.
* The service signs one access token with each session it opens, but nothing in
  the token says which; `access` in the session's record is what is left of it.
  `login` and `from` likewise record where a session came from, which the code
  does not keep; no guard reads them.
* `authenticate` and `Logout` are one step: between them the service is left and
  taken up again, but `Logout` looks at nothing that others could change
  meanwhile (the user of a session), so only the clock could tell.
* Accounts are created at start and stay active, and `Address` is what
  `Login` is given as `remote`.

`Browser` adds one tab: `tab` is what the sessionStorage holds and AuthContext
shows, `calls[c]` a call of `api()` and where it stands. Sending, serving and
hearing are separate steps, and an answer may be lost. A call that got a 401
waits for the shared refresh (`waiting`), is told its outcome with all others
that wait (`Settle`), and then each goes on by itself (`HearUnrenewed`), as the
body of its answer is read before `session-expired` is sent. `ServeRefresh` has
one outcome, because the request has no body and `Server.refresh` decodes one
first. `SignedOut` is what the `finally` of `logout` does: the account shown and
the access token go, the refresh token stays in the sessionStorage
(`AuthContext.tsx:52-53`). Everything the same accounts do elsewhere, and time, are steps of
`Sessions` (`Elsewhere`). A request that the tab gave up (`Lose`, `Reload`) is
served before that or not at all.

### Attachments

The ID of an upload stands for its temporary name, its key and its file, as both
names are random and do not come back. Each system call of `Put` is a step, and
`calls[c]` is named for the last one made; `written` and `synced` count what of
the content is in the file and what of it survives a loss of power. `FailUpload`
is an error of any of these calls, or the context found to have ended, with the
deferred `Remove`, which is taken to succeed. `Kill` ends the process, `LosePower`
the machine: of each file any part that was not synced may be lost, and so may
any directory entry, since the directory is never synced. A reader keeps the
file open when its key is deleted.

### The formula engine

A formula is a sequence of tokens, the tokens being what the scanner of
`parseAtom` cuts out. The parser is a recursive descent; what its Go calls keep
on the stack is the variable `levels`, one level for each `parseAdd` that has not
returned: the parenthesis it was called behind, the arguments its caller has so
far, and for each of the two loops (`parseMul`, `parseAdd`) the operator that
waits for its right operand. `nodes` are the nodes made, in the order in which
they were made, and `phase` is where the code stands: at an atom, in the loop of
`parseMul` or of `parseAdd`, back at the caller (`close`). `Sees` is the test at
the present token, `Join` the assignment `l = binaryExpr{..}`, and `Refuse`
every return of an error. There is one action for each way on.

Readings that pass the checks of `SaveRound` are then chosen, and the nodes are
evaluated in the order in which they were made, which is the order of the
recursive `Eval`: operands first, from the left. `parts` are the loop of a call
over its arguments. `exact` and `totals` keep the same values as fractions,
which the code does not calculate; no guard reads them. A decimal is an integer
and the number of its places, as in `shopspring/decimal`. Its quotients have 16
places in the code; here `DivisionPrecision` says how many.

What a formula should mean is said three times apart from the parser. `WellFormed`
looks at the tokens only: which may stand next to which, that parentheses match,
that commas stand directly in calls; `Ordered` says of a node of the tree where
its operands lie and which operators may be applied before it. `Sums`, `Products`
and `Atoms` of `Grammar` give the set of all trees that the grammar allows, which
is recursive and left to TLC. Fractions give a tree its value.

Whether an expression is defined is stated only as long as no quotient on the
way was cut off (`Terminating`): in `1/(1/3*3-1)` the divisor is zero and the
one that the code calculates is not, so that the code gives a result where there
is none.

### Faulty variants

Beside a guard or helper stands, where a property needs it, a form of it with a
bug in it, named after the original: `Submittable_Again`, `MayReview_Executor`.
No action uses them. Putting one in the place of its original must make TLC
report the property named for it in `PROJECT.json` (`mutants`), which shows
that the property can fail and that the run is large enough to see it fail.

## Runs

| run | instance | what it shows |
| --- | --- | --- |
| `handling` | intake: 2 requests, 2 samples, 2 subsamples, quantities 0..3; custody: 3 transfers of 2 subsamples between 3 accounts and 2 places | numbers stay unique across refused submissions; request and sample name each other; repeated splits stay within the total; what was submitted is frozen; in every order of three pending transfers the holder is one who confirmed, and it is where that transfer said; both parties are on the trail; only a confirmation moves a subsample |
| `certification` | 3 accounts, 2 requests, 2 methods of one code in versions 0..2, 2 tasks, 2 transfers of one subsample, 2 rounds, 1 retest, 3 certificates, 2 results | the executor received the subsample at some time; rounds belong to the executor; reviews are by a second person and appear on the trail; versions do not collide, also when one is left out; tasks and calls of `CreateTask` in flight rest on a published, valid method; certificate numbers have no gap; a certificate shows a result for every task its request has when it is issued, recorded by the executor and approved by another; the laboratory implements `Assurance`, so that what a certificate states never changes again, and nor does what it states it of |
| `job_queue` | 2 jobs, 2 runners, leases of 2 ticks, a delay of 1, 1 attempt or the default of 2 | leases that last exclude each other; only the last attempt completes, in time; late answers change nothing; the queue implements `JobContract`; every job is completed or uses up its attempts unless all runners stop |
| `sessions` | 2 users, 2 addresses, 3 sessions, tokens of 1 and 2 ticks, a window of 1, 2 failures | a login has one live session and a token one successor; a login that is over stays over; the limit holds within a window, and an address that reached it is let in again |
| `browser` | 1 tab, 2 calls under way, 2 users, 2 sessions, 1 failure | calls refused together share one refresh and none waits for nothing; a logout leaves nobody shown and no access token whatever its answer, and what an accepted one named is revoked |
| `restart` | one sample and a spare, 1 subsample, 1 transfer, 2 methods, 1 task, 2 certificates; accounts of 2 starts, 1 refused save | the rows and the answers are a ledger: whatever is killed or refused, what was answered is in the database; no request or transfer is there without what it rests on, and the trail tells of nothing that is not there; a start between transactions keeps every safety property; certificate numbers are not given twice in one run of the server, whatever saves are refused, nor over kills and starts if none is |
| `attachments` | 2 uploads, 1 download, a limit of 2, sources of size 0..4 | under a key, and in a reader, is the whole of what was sent; a key is there only for whom it was answered or who was killed; only kills leave temporary files |
| `formula` | all formulas of up to 7 of 11 tokens, 3 values for each of 2 fields or none | the parser accepts what is well formed, which is what the grammar allows, and reads it in its one way; results exist exactly where they are defined, are rounded once, and exist for every round that may be entered |

The other runs each show one statement of the repository that the code does not
keep (`findings` in `PROJECT.json`): `split_loss` (the losses of earlier splits
are forgotten), `session_renewal` (the shared refresh never succeeds),
`sample_number_reuse` (the counter of the day starts again with the server) and
`preview_certified` (one round of a task has several results, previews among
them, and a certificate shows any of them).
Further disagreements are under Known gaps.

**Bounds.** The sets of IDs bound how many records of a kind a behaviour makes;
`MaxSequence`, `MaxRevision` and `MaxVersion` bound the counters in the guards
of `DrawNumber` and `UpdateRequest` and the input of `CreateMethod`. Each set is
large enough for the case its properties are about: two records that could
collide, one more transfer than parties, two rounds of one task, two requests
sharing the certificate counter, a third certificate after a task was added.
All IDs of a kind are alike, so the safety runs of the laboratory use them as
symmetric model values (`certification` those of requests, transfers, tasks,
rounds and certificates); the runs that check liveness, and `restart`, whose IDs
are single, have none.
`CHECK_DEADLOCK FALSE` is set because a behaviour really stops when all IDs are
used up; the program has no such end.

The constraint of `handling` joins two shapes of one specification: everything
intake can do while nothing was handed over, and everything custody can do with
one request submitted in the plain way. Custody reads of intake only which
subsamples there are, so the shapes leave nothing out that the other would
disturb. That of `certification` joins two more (`IssueShape`, `TestingShape`):
from one transfer to certificates over two requests, with tasks by a second
method; and one request whose subsample changes hands twice, with a reviewer of
its own and retests, up to the verdict. In `restart`, `MaxStarts` is 2 because a
second restart meets the same rows again; one refused save is enough to part
memory and rows, and what follows it, a kill included, is explored. Its
constraint drafts the second method before
the first request, lets only one account hand over, and lets retests come before
certificates, all of which commute with the rest.

In `attachments`, a limit of 2 leaves files that are empty, half and whole, and
sources of 3 and 4 are one and two beyond the limit, which `ReadAll` cuts to one
beyond. In `formula`, seven tokens are enough for two operators of different
precedence with parentheses around either, a call with two arguments in a sum,
and a call in a call; `Precision` 1 and `DivisionPrecision` 2 leave halves to
round and quotients that do not end. Its constraint stops at a token that can
follow none, so that refusals are seen at every place and not repeated with
every continuation.

In the queue's run all counters are bounded by themselves: attempts by
`MaxAttempts` and the default (2 here, 5 in the code), times by lease and
delay. Two ticks of lease leave room for an answer before, at and after its
end, two attempts for one runner to be late while the other works, two jobs for
a runner to hold the wrong one.

In `sessions`, three sessions are a login, its successor, and one more that a
token used twice, or a second login, would open; `MaxCount` bounds the failures
at the instant a window ends, which the code does not, and leaves one beyond the
limit. In `browser`, two calls are what it takes to be refused together or to
log out while another call is under way.

**Fairness.** The safety runs assume none. `FairSessionSpec` assumes that time
passes and nothing of anybody who could log in. `FairQueueSpec` assumes that time
passes, that handlers return, and that a runner which is not stopped polls (the
ticker of `Run`) and reports (the straight-line code of `runOne`); stopping is
never forced, and which of several jobs is leased is left to the map iteration.

## Proofs

All theorems hold for every choice of the constants that satisfies the named
assumptions (TLC checks each on the instances): `StoreAssumption` (roles are total, somebody is a manager, `None`
is nobody, the seeded method is a method), `IntakeAssumption` (quantities and
bounds are natural numbers), `TestingAssumption` (so is `MaxVersion`),
`PgAssumption` (bounds are natural numbers, every account belongs to a start, a
split may lose nothing), for the queue and the
sessions `QueueAssumption` and `SessionAssumption` (durations and limits are
positive, `NoRunner` and `None` are nobody), `BrowserAssumption` (the tab has an
address), `AttachmentAssumption` (limits are natural numbers, matching is
true or false), and for the formula engine `DecimalAssumption` (precisions are
natural numbers), `FormulaAssumption` (literals are decimals and neither
operators nor marks, fields have names that the scanner can read) and
`CalculationAssumption` (readings and limits are decimals).

**Types.** `TypeOK` (`TypeCorrect`) is inductive as it stands: one lemma per component, one step
per action, and three lemmas about maps (`PutIsMap`, `PutAllIsMap`,
`RemoveIsMap`) carry it. Two of its conjuncts are more than types and are
needed: each subsample has exactly one holding, and the certificates are
finitely many, without which counting them gives no number. The types of the laboratory, the
queue, the sessions, the tab and the attachments (`TypeOK`, `QueueTypeOK`,
`SessionTypeOK`, `TabTypeOK`, `AttachmentTypeOK`) are all proved, each but the
first as part of the invariants below; the runs leave them out for that reason.

**Safety.** For each group of properties `SafetyProofs` first shows which layers
leave the state it speaks of alone (the frame lemmas, and the lemmas on what
each action writes to the trail), then proves a strengthening by the remaining
actions:

| theorem | property | strengthening and why it is needed |
| --- | --- | --- |
| `NumbersUnique` | `SampleNumbersUnique` | none, given `TypeOK`: numbers stay at or below the counter, which the property itself says |
| `OneSample` | `OneSamplePerRequest` | none; that samples are named only by submitted requests is part of it |
| `Allocation` | `AllocationWithinTotal` | `AllocationInv`: there are finitely many subsamples, each of a sample that exists; see below |
| `SubmissionsFrozen` | `SubmittedFrozen` | none: the guards of the intake, and frames for all else |
| `HolderConfirmed` | `HolderConfirmedReceipt` | `CustodyInv`: transfers name subsamples that exist, so a new subsample, which nobody holds, has no transfers |
| `TwoParties` | `TwoPartyTransfer` | `TransferInv`: the trail has no fact about a transfer before it exists, so exactly its initiator and its recipient appear |
| `MovedByConfirmation` | `HandoverByConfirmation` | none: frames, and the two writes of `ConfirmCustody` |
| `VersionsUnique` | `MethodVersionsUnique` | none |
| `MethodPublished` | `TaskMethodPublished` | `MethodInv`: a published method is valid; what founds a task or a call in flight (`Founded`) is kept by every step between check and save |
| `ExecutorReceived` | `ExecutorConfirmedReceipt` | `CallsPending`: a call in flight carries an untouched task under an ID no task has; receipts are never undone (`ReceiptsStay`) |
| `ReviewIndependent` | `IndependentReview` | `ReviewInv`: no decision is on the trail about a task that does not exist yet |
| `RoundsCorrect` | `RoundsBelongToExecutor` | `RoundsInv`: a started task has reached round 1, and retest requests, stored or in flight, name tasks and rounds that were reached |
| `ReviewFrozen` | `FrozenInReview` | `CallsPending`, so that saving a new task overwrites none; else the guards of the steps; proved only, as `GivesAssurance` is checked in its place |
| `NumbersGapless` | `CertificateNumbersGapless` | `NumberingInv`: the numbers are exactly 1 to the number of certificates |
| `CoversRequest` | `CertificateCoversRequest` | `Groundwork`: a task that was approved has a round, so none is left out of the certificate (`IssuedBacked`), rounds are those of the executor, and an approval is on the trail, by another |
| `Traceable` | `CertificateTraceable` | `TraceInv`: each line was backed when it was written, and `Backed` is preserved, since approved tasks, their rounds, methods and receipts do not change (`Groundwork`); used by `RestartsOrderly`, whose property names it, and checked there only |
| `EvidenceFrozen` | `CertifiedEvidenceFrozen` | `TraceInv` puts certified tasks among the approved, whose rounds and verdict no step changes (`NextFrozen`), with methods that are published and no longer change (`PublishedStays`); proved only, as the run checks `GivesAssurance` in its place |
| `Assures` | `GivesAssurance` | `Groundwork` and `NumberingInv`: a task rests on a published method, the trail has no verdict on a task before its review, rounds are those of the executor, and the numbers in use are 1 to the number of certificates |
| `LeaseExclusive` | `OneLiveLease` | `LeaseInv`: a runner the queue knows as owner holds a copy that agrees with the queue, and a runner whose lease lasts is the owner; as a job has one owner, leases exclude each other |
| `InTime` | `CompletedInTime` | `LeaseInv`: an accepted answer is that of the last attempt |
| `Refines` | `KeepsContract` | `LeaseInv`: an accepted completion comes from the one with a say, of a job that is not done |
| `OneLive`, `UsedOnce` | `OneLiveSession`, `TokenUsedOnce` | `RotationInv`: both, and that a login is a session, so that a new session is nobody's login yet |
| `EndIsFinal` | `OverForGood` | none, given the types: a refresh needs a session that is neither revoked nor expired, and a step that opens none only ages the others (`Ages`) |
| `FailuresLimited` | `FailuresBounded` | none: at the limit a window must end before the next failure is counted |
| `RefreshIsShared` | `RefreshShared` | `TabInv`: the tokens in the tab and in its calls name sessions that exist, and a refresh is in flight exactly while its promise is kept |
| `LogoutEnds` | `LogoutSignsOut` | `LogoutInv`: what an accepted logout named is revoked (`Revokes`) and stays so while its answer is on the way (`RevokedStay`), whatever is done elsewhere; that hearing it leaves nobody shown and no access token is the step itself |
| `KeysWhole`, `AnswersAgree`, `LitterBounded` | `WholeUnderKey`, `AnswerAgreesWithDisk`, `LitterOnlyFromKills` | `DiskInv`: for each phase of an upload, what its file holds, how much is synced and which names it has; only with that is the file whole when it is renamed, and whole still after a loss of power |
| `AnswersOutlast` | `AnsweredOutlasts` | `PgInv`: see below |
| `ImplementsLedger` | `KeepsLedger` | `PgInv` and `RowInv`: a save to come replaces only what it may |
| `ConsequencesSavedFirst`, `TrailTellsFacts` | `ConsequencesFirst`, `TrailOnlyFacts` | `FactsInv`: both, with `RowInv`, which has the saves to come in the order they need |
| `NumbersSurvive` | `NumbersOutlast` | `NumbersFacts`: `NumbersInv` says it of memory, in one run of the server (`starts = 1`) whatever saves are refused, and of memory and rows, over any starts, if none is; a certificate is the first save of its transaction, so that one whose row is refused stays in memory and is counted (`FailPersistNumbers`); `Synced` says that rows and memory differ only in saves to come |
| `ReadAsMeant` | `ReadsWellFormed` | `ParserInv`: see below |
| `DefinedCalculated`, `RoundedExactly`, `RequiredEnough` | `CalculatedIfDefined`, `RoundedOnce`, `RequiredSuffice` | `CalculationInv`, on `ParserInv`: see below |
| `RestartsOrderly` | `OrderlyRestartKeeps` | `OrderlyInv`: unless cut, the invariants of the laboratory (`LabInv`) hold of memory, and by `Synced` memory is the rows when nothing is to be saved |

`AnswersOutlast` is about every operation of the laboratory, refused saves, kills
and restarts at once. The property speaks of rows, but a row is overwritten from
memory, so memory too must hold what was answered or something later (`Grown`,
for both); `Later` is transitive because the stages of a record are numbered.
While a transaction is under way (`RunOK`) its saves are of records in memory,
what they replaced is not earlier than what was answered, which is what a
refused save falls back to, and those already made agree with memory. A new
record overwrites nothing, since IDs in memory or rows were drawn before
(`DrawnOK`). There is one lemma for each operation, which shows that it makes of
records only something later, and that its plan lists what it changes; then one
each for `Persist`, `FailPersist` and `Restart`.

The other theorems of `PgProofs` stand on the same ground and on lemmas, one for
each operation, that say which kinds of records it saves, in which order and
with the event last (`Ordered`, `SavedOnce`). What holds of the rows at any
point (`RowInv`) is that they are at or behind the memory, and behind what
memory falls back to if a save is refused. `Later` also says what no operation
changes of a record (`Fixed`), so that a row that moves on still shows what an
event or another row rests on. For `RestartsOrderly` an operation of
`PgRepository` is an operation of the laboratory, whose lemmas are used as they
are, and a start is shown to keep `LabInv`, although calls in flight are lost
and the accounts are others.

**Sums.** `AllocationWithinTotal` speaks of a sum over a set, which the code
makes in a loop and the model by `SumFunction`. The library's fold satisfies the
recursion of a sum (`Sums`), and instead of an induction over what it
computes `SafetyProofs` says that the sum of a finite map of
quantities is the number of their units (`SumIsUnits`): counting the units
solves the recursion (`UnitsSum`), and nothing else does, as a smallest
counterexample leads to a smaller one (`SumsUnique`). Units of disjoint maps
count together, so a split adds to its sample exactly what `ValidateSplit`
looked at (`SplitAllocates`).

**The parser.** `ReadAsMeant` speaks of formulas of every length and nesting, and
nothing in it is an induction over formulas: the parser is a state machine, and
what an induction hypothesis would say of the part that was read is in its
invariant. Between two tokens `ParserInv` says which parentheses the levels
stand for, one deeper than the other and none closed since (`LevelsOK`); that
what was read is the beginning of a well-formed formula, and whether an operand
is awaited or has ended (`PrefixOK`); that the nodes made have their operands on
their sides (`NodesOK`, `BehindOK`); that the operators that wait stand one
behind the other, each to the right of its left operand and to the left of all
that was made since (`WaitsOK`); and how tightly the node made last is bound,
which is what decides if the next operator may have it (`LastOK`). `VerdictOK` is
the property. That a refusal is right needs the first two alone: no continuation
makes a token good that may not follow (`RefuseRight`); an acceptance needs that
the last level is the lowest (`AcceptRight`). The depth of parentheses is the
difference of two cardinalities, and its lemmas (`DepthSteps`, `DepthAt`) say
how it moves from token to token.

**Decimals.** `CalculationProofs` shows that `Plus`, `Minus` and `Times` are
exact (`PlusExact` and the others: if two decimals are the fractions, so is the
outcome), that `Less` is the order of the fractions (`LessExact`), that a
quotient is exact if it has no more places than are kept (`DivExact`), and that
`Round` gives the nearest decimal of `Precision` places, the larger in
magnitude of two (`RoundRight`). They stand on `NearestIs`, which says what the
integer division of the code's rounding computes, and on the powers of ten. That
the recursive definition of `Ten` is a function at all is proved
(`PowersExist`, `PowersAgree`, `TenIs`), and so is the law of exponents
(`TenPlus`), both by `SetInduction`: the principle of induction for a set of
numbers instead of a predicate, which follows from the fact that `<` is well
founded and which the provers can instantiate.

**The evaluation.** `CalculationInv` says of each value that was returned that it
is the fraction, if no quotient up to there was cut off, and that its node had a
value (`ValuesOK`); of what a call has of its first arguments, that it is their
least, their greatest or their sum (`PartsOK`); and of a failure, what it was for
(`FailedOK`). It needs `ParserInv`, which has the operands of a node before it.

**Refinements.** `Assures` maps the start of a task to `Begin`, `SaveRound` to
`WriteNote`, `SubmitReview` to `Close`, a review to `Judge`, the issue of a
certificate to `State`, a confirmation to `Receive`, the publication of a method
to `PutOut`, all else to a stutter. `ImplementsLedger` maps `Persist` to `Enter`
and `Tell`, who is told of nothing until the last save of a transaction, and all
else to a stutter.

`Refines` is proved step by step: `Enqueue` maps to `Add`, `Lease` to `Claim`, an
accepted `Complete` to `Complete`, an accepted `Fail` to `GiveUp` while the lease
lasts and to a stutter after it, `Tick` to `Expire`, all else to a stutter.

## What is only model-checked

* `JobsSettle` and `LetInAgain`: liveness under fairness is out of the provers'
  reach.
* `ParsesGrammar`: the grammar is a recursive operator over sequences of tokens,
  which the prover cannot reason about. `ReadsWellFormed`, which is proved, says
  of the same parser what it accepts and how it reads it without recursion; TLC
  checks both, so that they agree on every formula of the run.
* The statements the code does not keep, which their runs refute.

The other way round, `EvidenceFrozen` and `ReviewFrozen` are proved and no run
checks them, as `GivesAssurance` is checked in their place.

## Known gaps

Places where the code and a statement about it part, or where something is lost,
found while modelling. Those with a run are listed with the runs; these have
none, because the model leaves the data out or the code has no step to show:

* A rejected task is never tested again: README.md:99 promises it, nothing calls
  `StartRetest` (`internal/domain/task.go:94`). `ReviewFrozen` proves that the
  verdict is final.
* A certificate that corrects another is not linked to it (README.md:100):
  `IssueCertificate` (`internal/application/service.go:406`) never sets
  `SupersedesID`, and nothing voids one.
* A task may be started after its executor handed the subsample on: receipt is
  looked for in all transfers, not in the present holder (README.md:88,
  `docs/api.md:25`). `ExecutorConfirmedReceipt` does not see that: it asks for a
  receipt confirmed at some time.
* A task may have several rounds of one number, against
  `migrations/000001_initial.up.sql:164`: every `SaveRound` of a task in testing
  adds one, the previews of the frontend too (`frontend/README.md:47`,
  `frontend/src/api/resources.ts:111`). A certificate shows the result of
  whichever the map iteration returns last, and the round that is submitted and
  judged is likewise any of them: `preview_certified` shows it. What remains of
  it in `CertificateCoversRequest` and `GivesAssurance` is that the executor
  recorded what is shown, before the task was closed.
* The refresh token stays in the sessionStorage after a logout, and is readable
  by the page at all times (`frontend/src/api/resources.ts:40`,
  `AuthContext.tsx:52-53`), where `frontend/README.md:40` has the access token
  there only and the refresh token in an HttpOnly cookie. `LogoutSignsOut` says
  that it is of no use if the server accepted the logout.
* The verification code of a certificate has no JSON name
  (`internal/domain/certificate.go:27`), so that no certificate can be verified
  by its code after a restart.
* Accounts get new IDs at every start (`cmd/server/main.go:87`). A person may
  therefore review work recorded under an earlier ID of their own (README.md:89),
  and nobody can start a task assigned to an earlier ID.
* After a refused save the memory shows what the caller was told has failed. After
  a restart, certificates are counted without one that only memory had, so that
  a number given since is given a second time (`NumbersOutlast` speaks of one run
  of the server, or of no refused save, and of nothing where both come together). A submission that stopped after its sample was saved leaves that sample
  behind when it is repeated.
* `Put` does not sync the directory, so a key that was answered can be gone
  after a loss of power (`LosePower`, `exposed`).
* A method may be published with a function other than `min`, `max` and `avg`,
  the only ones README.md:106 knows, which is found out when a result is
  calculated (`ReadsWellFormed` and `ParsesGrammar` take any name); names with digits, which
  `internal/method/validation.go` allows, cannot be used in a formula.
* `CreateTask` does not look its request up (`service.go:246`): a typing error
  makes a task that no certificate can cover. A certificate may be issued for a
  request that was never submitted (`service.go:376`), if it has approved tasks.
* A divisor that a cut off quotient went into may be other than zero although
  the formula divides by zero, as in `1/(1/3*3-1)`: `IsZero`
  (`internal/domain/method.go:142`) looks at the decimal. The round then has a
  result that means nothing.
* The precision of a method (`internal/domain/method.go:36`) may be negative,
  which `Validate` accepts: results are then rounded to tens. The model has
  natural numbers only.
* Sample numbers grow beyond five digits after 99999 (`memory/store.go:81`),
  which `internal/sample/number.go` then refuses.
* Behind `middleware.RealIP` (`http/server.go:212`) an address may come without
  a port, is refused by `SplitHostPort`, and counts as the address `""` with all
  others of the kind.

## Plan

Done: the laboratory (`Intake`, `Custody`, `Testing`, `Certification`) with its
runs and the proofs of its safety; the job queue, its contract, and the proof
that it implements it; the sessions and a browser tab with their proofs; the
PostgreSQL repository with refused saves, kills and restarts, and the proofs of
all that its run checks; the abstract specifications `Assurance` and `Ledger`
and the proofs that they are implemented; attachments with their proofs; the
formula engine with its arithmetic, and the proofs that it reads formulas as they
are meant and gives their exact value, rounded once. Next, in this order:

1. Addresses behind a proxy, and sessions over a restart.
2. How far a result is from the exact value when quotients were cut off.
3. Sample numbers of several days and beyond five digits.

## Not modelled

Formatting and hashing of numbers, digests and codes; pagination and listing
routes, which only read; rendering; the pages of the frontend, which are views
over the modelled calls; packages nothing calls
(`internal/execution`, `internal/review`, `internal/notification`,
`internal/audit`, `internal/custody`, `internal/sample`); configuration, logging
and health; the normalised schema, which the program does not use at run time
and which serves here as a statement of what the data should satisfy.
