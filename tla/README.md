# Verification of the paid gateway

TLA+ models of the parts of this repository that keep state others rely on: the
durable replay journal behind every paid HTTP request and native MCP tool call,
the walletless extraction trial, the journals of the commerce data directory
(outcomes, task references, statements of callers, settlements, events,
prospective deliveries) with the gate and the certificate of completeness over
them, and two services with state of their own, the comparison workers and the
receipt recheck. TLC checks them on small instances; TLAPS proves their safety
properties, the action properties and the refinement of the abstract paid
operation among them, for all values of the constants. What stays with TLC is
liveness and one invariant that does not hold in general (section 4).

File names below are relative to `src/`; line numbers are those of the commit
the models were translated from.

## 1. The system

The gateway is one Node server (`server.js`) that sells extraction, audit and
chain-read operations per call. A client pays with a signed authorization, by
x402 (header `PAYMENT-SIGNATURE`) or MPP (`Authorization: Payment`), over HTTP
or as a native MCP tool call. A remote facilitator verifies the authorization
and later settles it on chain. Around that core are journals that record what
happened, and a free trial.

### Parts, their state and their operations

| Part | Source | State | Operations |
| --- | --- | --- | --- |
| Replay journal | `idempotency-replay.mjs` 232-439 | `idempotency-replay.json`: key epoch and records (key, credential, fingerprint, pending or completed, spend marker, prepared bytes, expiry); a promise queue | mutate, lookup, claim, release, store, persistResponse, and the updates of a pending record by the middleware |
| HTTP replay | `idempotency-replay.mjs` 28-73, 738-931, `mpp-dual-stack.mjs` | per request: settlement context (attempted, prepared, sealed bytes) in AsyncLocalStorage | middleware, the tracker around the facilitator, the SDK hooks, res.end |
| MCP replay and recovery | `idempotency-replay.mjs` 441-703 | `unpersistedMcpResults`, `doomedMcpResults` (bounded, in memory) | runMcpTool, recoverMcpResult, retainMcpResult, sweepDoomed, pruneUnpersisted |
| Extraction trial | `extraction-trial.mjs`, `extract.mjs` | directory `extraction-trial`: authority, `spent-NN` slots, `.active` lock | state, acquire, spend, release; the redirect loop that calls spend |
| Outcome writer | `commerce-outcome-binding.mjs` | `commerce-outcome-binding.ndjson` in two generations; an index cached by the epoch of the directory's gate | commitForward, observeMockedSettlementBoundary, observeRuntimeSettlementReadback, observeRetainedUse, appendRecords |
| Task references | `commerce-outcome-binding.mjs` 590-721 | a second file of two generations; the ids each writer has read | appendTaskRef |
| Settlement reconciler | `commerce-settlement-reconciler.mjs` | ledger, published generation manifest, lease file | reconcile, acquirePublicationLease, runPublication |
| Caller feedback | `caller-result-feedback.mjs` | statements in two generations | submit, submitMcp, commitStatement, readDeclarations |
| Journal admission | `commerce-journal-admission.mjs` | one gate and one tail of observations for each directory | admitCommerceJournal, observeContinuationTransmission, drainJournalObservations |
| Event journal | `commerce-events.mjs` | write queue, segments, retention by age | record, rotate, drop |
| Delivery coverage | `delivery-journal-coverage.mjs`, `commerce-journal-snapshot.mjs` | the start and the cut of a window; counts and hashes of the producer | begin, capture, receive |
| Prospective delivery | `commerce-prospective-delivery.mjs` | bounded journal with a saturation marker | appendProspectiveObservations, recordProspectiveFeedback |
| Comparison workers | `page-change-http.mjs`, `lockfile-pin-delta.mjs` | set of owned child processes, number of active requests | begin, read, compare, reap, release |
| Receipt recheck | `receipt-referral-recheck.mjs` | one marker file per referral | audit, claim |
| Batch extraction, the402, MCP server, wiring | `extract-batch.mjs`, `the402.mjs`, `mcp-server.mjs`, `server.js` | none of their own, or an in-flight map | sequential calls over the above |
| Enrichment, chain reads, audits, discovery | many files | none | fetch and parse |

`PROJECT.json` lists all of them with what is modelled of each.

### How they interact

- A paid request claims a record before any handler or facilitator call, and
  every later step goes back to the journal by its key and fingerprint. HTTP and
  MCP share one journal file and one promise queue of one process.
- The facilitator is called through a tracker that first writes the
  possible-spend marker; what the chain does with a dispatched authorization is
  decided outside and later.
- The trial decides from directory listings and relies on two atomic
  file-system operations, `mkdir` and exclusive creation; several server
  processes may share its directory.
- The outcome writer, the feedback service, the event journal and the reconciler
  serialise on one gate per directory, and observe one another's writes through
  callbacks that run behind the gate.

### What is hard here

- The spend marker, the facilitator call, its reply and the completed record are
  separate steps; a crash, a key rotation or a failing write may fall between
  any two, and the authorization can still execute after the process is gone.
- A journal operation can fail after the rename took effect, so its caller sees
  an error although the state changed.
- A retry may carry the same credential, the same payment identifier with
  another credential, or the same nonce under another identifier.
- A record can expire while its request is still being handled.
- Results that could not be written live in a bounded memory that other calls
  put under pressure while their own writes are queued.
- Trial requests interleave at each file-system call, within and between
  processes, and an unsynced entry may be lost with the machine.
- Journals with two generations, torn tails and cached indexes can disagree with
  the files they describe.

### What makes each part correct

- Replay journal and HTTP: one settlement per credential, no two live
  settlements of related credentials, quarantine of every settlement that may
  still execute, replays only of paid results, prepared bytes before a spend,
  bounded journal, an answer for every request.
- MCP: the same, and: a result goes only to its own request, a known outcome is
  not forgotten while its reservation stands, and what was reported stored stays
  stored.
- Trial: no hop without a durable slot of its own, one lease at a time, and a
  lease that ended in doubt closes the trial.
- Outcome writer: a current index covers the retained records; at most one
  retained settlement for each operation; an admitted settlement is durable.
- Task references: a reference has one line, and an accepted one has its line.
- Reconciler: an accepted capture describes a run that succeeded, and covers no
  row of a run that contended with it. A dead owner leaves its temporary file, and
  by design no later run publishes until an operator removes it.
- Feedback: an accepted statement stays readable until rotation, no conflicting
  statement is accepted meanwhile, and a wait for a capture ends.
- Admission: writers of one directory take turns without waiting for themselves,
  and a flush returns when, and only when, nothing of before it is on its way.
- Events: retention takes the oldest first, through rotations that fail half-way.
- Prospective: a record is filled and advanced, never revised, and an open one
  follows what the join learns.
- Coverage: what is certified as complete misses no row; an undisturbed window is
  certified.
- Comparison workers: no worker outlives its answer, and every comparison is
  answered. Recheck: a referral earns one.

The hazards behind these, each at its source line, are in `PROJECT.json`. Those
without a property say why.

## 2. The modules

| Module | Models |
| --- | --- |
| `ReplayJournal` | records, and what each journal operation makes of the records it read |
| `ReplayStore` | the file, the clock and the key epoch; `Commit` and `Throws`, the two outcomes of `mutate` |
| `ReplayHttp` | paid HTTP requests over the store, with the tracker, hooks and `res.end` |
| `ReplayMcp` | native tool calls and recoveries, the memory of unpersisted results, the promise queue |
| `PaidOperation` | the abstract promise for one credential: one attempt, a charge through it, results after the charge |
| `ExtractionTrial` | the hop budget at the grain of file-system calls |
| `JournalFile` | one generation of a line journal: readable lines, torn and unterminated ends, what a failing write leaves |
| `OutcomeJournal` | the forward journal: writers, gate, indexes, rotation, syncs, failures, deaths and power losses |
| `TaskRefJournal` | the task references, a call at a time |
| `CallerFeedback` | statements on paid results over `JournalFile`, and the wait of a native MCP call |
| `SettlementRuns` | the lease, the contenders' mark, the ledger, the manifest and its reader |
| `CommerceSegments` | rotation and retention of the event journal |
| `ProspectiveDelivery` | the prospective journal as its parser reads it, and its three writers |
| `DeliveryCoverage` | begin, capture and receive over files that grow and rotate |
| `JournalAdmission` | the re-entrant gate, the write queue before it, observations, flush and drain |
| `CompareWorkers` | the pool of comparison processes |
| `CompareExchange` | the requests in front of it: slots, body deadline, clients that leave; extends its states and steps by INSTANCE |
| `ReferralRecheck` | claims of a referral and its marker file |
| `MCReplayHttp`, `MCReplayMcp`, `MCExtractionTrial`, `MCTaskRefs`, `MCSettlementRuns` | finite instances |
| `MCJournals`, `MCServices` | finite instances of the journals and of the services, several in one run |
| `ReplayStoreProofs` | lemmas about the operations of the journal file, for both paths |
| `ReplayHttpProofs`, `ReplayMcpProofs` | the proofs about the two paths |
| `ExtractionTrialProofs`, `OutcomeJournalProofs`, `ProspectiveProofs` | the proofs about three components |
| `JournalsProofs`, `ServicesProofs` | the proofs about the other journals and services, and that what is proved of one holds when they are run together |

### Replay over HTTP

`ReplayStore.disk` is the journal file. One `mutate` (read, change, write a
temporary file, sync, rename, sync the directory) is one step, because `mutate`
chains operations in a promise queue and nothing else writes the file. Its
failure is `Throws`: before the rename nothing changed, after it the change is in
place although the caller sees an error. A crash in the middle has the same two
outcomes and is `Crash` before or after the step.

A *binding* is what `bindingFor` computes. Digests are abstracted to the values
they distinguish: `Key` (HMAC of the payment identifier), `Cred` (HMAC of the
nonce, absent for MPP), and the fingerprint, which is the binding itself.
All records are protected ones: `server.js:683` leaves `inFlightPaths` at its
default, the replay routes themselves, so every binding of the middleware is
protected, and `mcpBinding` sets the flag. `Bindings` is partitioned by what the code branches on: finite
`validBefore` (`Dated`), rail (`X402`), paths with required replay (`Required`),
explicit identifier (`Named`).

The phases of a request follow `middleware` and `trackSettlement`:

    idle -claim-> reserved -verify-> verified -handler-> handled -prepare->
      prepared -mark-> marked -dispatch-> settling -reply-> delivering -> done   (x402)
    idle -claim-> reserved -verify-> verified -mark-> marked -dispatch->
      settling -reply-> charged -handler-> delivering -> done                    (MPP)

with `waiting` for a request that met a pending reservation and `refused` for
one that ends without an attempt. Each way a step can fail has an action of its
own (`ClaimThrows`, `PrepareFails`, `MarkFails`, `SettlementUnresolved`,
`EndUnreleased`). `Crash` kills all requests in progress and restarts the
process under any key epoch.

Three externals: the facilitator verifies only authorizations with a finite
validity that has not passed (`Verify`), the chain executes or rejects a
dispatched authorization at any moment while it is valid (`ChainExecutes`,
`ChainRejects`), and a success reply is given only for an executed one.

### Replay for MCP

Here the order in the promise queue matters, because the continuation of a call
runs between two operations of others. `queue` holds the callers whose operation
is enqueued; a step serves the head, runs its caller up to the next await, and
may put it back at the tail. `memory` has the two maps in insertion order:
`kept` (unpersisted results) and `doomed` (results given up, whose marker must
still be written). A call that retains or recovers first sweeps the markers it
saw (`todo`), one operation each. The byte cap and the entry cap of the memory
are one bound, `MaxKept`: all results have one size. Entries are taken from the
maps by their places (`Selected`): what a place holds and what comes before it are
facts of finite sets of numbers, about which the provers can reason.

### The extraction trial

Every action is one file-system call, since requests of one process interleave
at each await and those of other processes anywhere. `dir` is what processes see,
`durable` what survives the loss of the machine: entries by `syncDirectory`,
content by `handle.sync`. A slot passes through empty, written and sealed.
`PowerLoss` keeps the synced entries and any of the others, with unsynced content
perhaps gone. `RemoveLock` is an operator's `rmdir`, which the code never does
for a lease it did not take. `meddled` is a history variable that records such a
removal; no guard reads it.

A listing is one step although `state` reads the entries after it: what can
change in between is in `Intact`, which evaluates the content at the time of the
decision.

### Outcome journal and task references

In `OutcomeJournal` each file-system call of `appendLine` is a step, the call at
the head of `queue` is inside the gate, and the others have only their
arguments. A record is an operation, an artifact and a stage (delivery,
settlement by some authority, retained use), which is what event ids and the
duplicate checks tell apart. `index` and `fresh` are a writer's cached index and
whether its epoch is the gate's. A power loss returns to any of the
directories in `older` (a rename or a new name that was not synced may be
undone), with any of the lines that are not in `synced` gone and a torn end
where one was lost. Failing steps (`Fail`) leave any part of the line, and the
writer either reads the journal again or forgets its index.

`TaskRefJournal` has one step for a whole call, as the gate makes it: nothing of
another writer of the process comes between. What a failing one may leave is
`Attempts`. Which writer is asked for which reference is the constant `Offers`.

### Feedback, admission, workers, recheck

`CallerFeedback` uses `JournalFile` with `separated = FALSE`: unlike the outcome
writer, `appendStatementBytes` does not look how the last line ended. A
submission is one step, since it reads and appends behind the gate; `SubmitMcp`
returns to it once per poll.

`JournalAdmission` has the works of the telemetry queue (each admits once more
inside the gate), observations that admit beside it, and the waiters.
`tail` is what `observationTails` holds, by number of observations.

`CompareWorkers` has the child process as the kernel and the event loop show it:
running, dead, exit event delivered, output closed. Timeout and the output
ceiling are one action, `Fail`: both reap. `CompareExchange` has a request from
its slot to its answer; `ClientGone` is the abort, which reaps in the same turn. At
the MCP profile a closed response may return the transport, and with it the slot,
before the worker is gone (`page-change-mcp.mjs:267`); a worker has a bound of
its own.

`ReferralRecheck` has each await of a claim as a step; verification and audit are either answer.

### Settlement, events, prospective, coverage

`SettlementRuns` keeps files by inode, each named by the run that created it,
because the contender writes its mark through a descriptor, whatever the file is
named by then. Content is empty, a part of a manifest, or whole; the cut is the
set of runs whose rows the ledger had. The scan of the chain and what rows are
new is data; a run appends or fails before, inside or behind the append.

`CommerceSegments` has one step for an append with its rotation and its
age-based drop, and for a failing one all the places where it may stop. A
segment is `Gone` when no file holds its `Sure` events any more, those that the line
behind them cannot spoil.
`ProspectiveDelivery` keeps the journal as what `parseProspectiveJournal` makes of
its lines, in order, with the class of six terminal results reduced to two. A
call is one step with the line it fails at. What the ordinary join says of a
settlement is `rows`, and changes one field at a time. `DeliveryCoverage` reads the two
generations in two steps; an append does not look at the end of its file, so a line
behind a torn one is garbled with it and ends it, and those behind both are whole; a
failing one may leave a rotation half-done, without the older file or without a
current one. A row is its number, so that hashes are equal exactly when
the rows are, and files are inodes, which come back when a file is removed.

## 3. The runs

| Run | Instance | Checks |
| --- | --- | --- |
| `http_rivals` | three requests, three x402 credentials: two with one nonce, two with one identifier | `SettledOnce`, `NoRivalSpend`, `PreparedBeforeSpend`, `ReplayedWasPaid`, `NoOrphanReservation` |
| `http_rotation` | three requests of one credential, two key epochs, fairness | `SpendIsQuarantined`, `OneExecution`, `EveryRequestAnswered` |
| `http_rails` | two x402 credentials under one identifier, one that shares a nonce with them, an MPP and an inadmissible one, journal of one record | `ResultHasRoom`, `ImplementsPaidOperation` |
| `http_shared` | two credentials under one identifier, validities far apart | `SpendIsQuarantined` is violated |
| `mcp_tools` | two calls and a recovery, three credentials, memory of one result | `TypeOK` (with the caps of the memory), `NoRivalSpend`, `ResultsBelong`, `OutcomeRemembered`, `ResultsStayStored`, `ImplementsPaidOperation` (one settlement per credential among it) |
| `mcp_answered` | two calls and a recovery, memory of two results, fairness | `EveryCallAnswered` |
| `mcp_evicted` | two calls and a recovery, memory of one result | `StoredIsKept` is violated |
| `trial` | two requests in two processes, three slots, three hops each | `HopsAreBought`, `OneLease`, `DoubtCloses` |
| `journals` | forward: two writers, two artifacts of one operation, files of two lines, a fault and a death; task references: two writers, three references, two of them offered to both, two faults; settlement: three runs of two processes and a reader; events: three segments, seven appends; prospective: two settlements, room for one; coverage: three rows, three inodes, a fault, another process that may fail as well | `PlanesTypeOK`, `OneRetainedSettlement`, `SettledOnce`, `AcceptedIsDurable`, `OneLinePerWriter`, `NoCutUnderContention`, `RemovesOldestFirst`, `CompleteIsTrue`, `CleanIsComplete` |
| `services` | statements on three results, one by MCP, files of two lines; three comparisons (a request, a call of the profile, a call at `/mcp`) for one slot and one worker; three claims, two referrals; a write, two observations, a flush and a drain; a prospective record; fairness | `ServicesTypeOK`, `OneStatement`, `AcceptedIsReadable`, `NoStrayWorker`, `OneRecheck`, `FlushIsComplete`, `RecordsOnlyAdvance`, `WaitEnds`, `ComparisonEnds`, `FlushReturns`, `CaptureAdvances` |
| `task_ref_twice` | both writers are given one task reference | `OneLinePerTaskRef` is violated |
| `failed_generation` | three runs of two processes and a reader | `CompleteMeansSucceeded` is violated |

What the properties say is written above each in its module.

**Bounds.** Three requests let one own a reservation, one poll or be refused by
it, and one arrive after it is gone. The clock ends after the last validity and
its grace period are over, so reservations expire under a request, authorizations expire
under a settlement, and later claims find an empty journal. `TTL` is below the
validity of some credentials and above that of others, so both branches of the
expiry are taken. `Grace = 1` is the 60 seconds of the code and is kept positive
because the proofs need it. The journal of one record in `http_rails` makes the
capacity refusal and a late result that does not fit happen; the two credentials under one identifier and the one with their nonce are
what could take the room of a result that is due. In the trial three
slots with two requests cover two purchases by one request, one by
another, and exhaustion; `MaxTime` passes the start and the end of the
authority.

Two artifacts under one operation are what makes a second settlement possible,
and files of two lines make two rotations happen, after which the journal has
forgotten a delivery. Three runs let a file be published, its name be taken
again and a contender of the first still hold its descriptor. Three inodes are
those of the two files and one more, so that a rotation may take an old one or a
new one. Seven appends fill three segments of two and rotate the oldest out.
Statements are on three results and have files of two lines, so that a line can
come behind a torn one, in its file, and a rotation behind both. Two of the three
task references are offered to both writers and one to one of them, in files of two
lines: what a writer has not seen, has seen, or has forgotten in a rotation differs
between the two.
`SecondFills` in `MCJournals`: the join learns nothing of the second
prospective settlement, which is there to fill the journal; so the `journals` run
fills and saturates, without a failing append, while `services` has one
settlement, a failing append and every order of join, statement and note.

**Several planes in one run.** The journals share the gate of the directory, the
services nothing, and none decides from the state of another, except where their
modules say so. `MCJournals` and `MCServices` therefore choose one at the start
(`plane`, `service`) and leave the variables of the others alone: the
states are the sum of theirs and not the product.

Deadlock is not checked: requests are finite in number, and when all are
answered and the clock has reached its bound the model stops, as a server
without clients does.

**Symmetry** is used over requests (over the calls and the recoveries apart),
in the trial over inode numbers, and in `journals` over the artifacts and the
forward writers; runs with liveness use none.

**Fairness.** `FairSpec` asks weak fairness of the steps of requests in
progress. A poll runs until a deadline; the rest of a request is resolved
promises, file operations that return or fail, and facilitator calls that return
or throw. In `ReplayMcp` the promise queue is first in, first out, so a call
whose operation is enqueued is served once those before it were, and each of
those is fair itself. Nothing is asked of clients, the clock, the chain, crashes
or failures. In particular a request that waits for a reservation whose owner
died is answered by its own deadline.

In `services` each module has its own: the polls of a waiting submission, which
are timers of 10 ms; the timers of a comparison, the report of an exit and the
end of a process that got SIGKILL, but not of one that got SIGTERM, nor the end of
its output; the deadline of a body and the answer of a settled comparison; the
works at the gate and a flush, promises of code that returns, but not a drain,
which has a budget; the reconciling run, which a timer starts, when it has an open
record to look at.
Callers, captures and the join are not fair. What is asked of the modules that a
behaviour does not run is asked of actions that are never enabled in it.

### Four disagreements with what the repository promises

`http_shared`: `persistResponse` keeps only the records with *another key*
(`idempotency-replay.mjs:437`), whatever their fingerprint. When a result is
retained after its own reservation expired, and another credential under the same
payment identifier reserved meanwhile, the late result deletes that reservation,
marked or not, and the second credential can be claimed and settled again while
it is valid; `README.md:41` and line 700 promise quarantine. The property holds
when an identifier is reused only for validities at most the grace period
apart, which is the assumption `ReuseWithinGrace` of the theorems.

`mcp_evicted`: `sweepDoomed` writes its marker over whatever has the key (line
540). If a call evicts a result from memory while that result's own write is
queued, the write succeeds and reports `stored`, and the marker behind it then
replaces the stored record; `mcp-server.mjs:1120` promises to read the stored
outcome. A result whose retention in memory ends while its write is queued is
given up and overwritten in the same way. Nothing else replaces a stored result:
`ResultsStayStored` in `mcp_tools`, proved for every instance.

`task_ref_twice`: `appendTaskRef` looks for a duplicate in the `taskRefIds` of its
own writer (`commerce-outcome-binding.mjs:593`), which is read once and never told
of the lines of another one; line 225 says that a repeated task-ref id is a
duplicate. The reuse writer (`customer-grant.mjs:427`) and the telemetry writer,
at the finish of the response (`commerce-events.mjs:4571`), are given the same
record, so a grant leaves two lines, and the join counts two bindings and reports
`task_ref_conflict` (`ordinary-delivery-join.mjs:512`). What does hold with two
writers is `OneLinePerWriter` in `journals`, proved for every instance: neither of
them repeats a line of its own.

`failed_generation`: `reconcile` passes `runFailed: true` when its run failed
(`commerce-settlement-reconciler.mjs:3215`), but `publishSettlementGeneration`
has no parameters (line 2825), so the manifest is published as a complete one. The
comment at line 3208 speaks of publishing the *failed* generation.

### Other observations

These contradict no promise, and the properties are stated around them.

- After a write that failed inside a line, the next accepted statement of a caller
  is appended to the torn line and read by nobody
  (`caller-result-feedback.mjs:639`), hence the `~broken` of `AcceptedIsReadable`.
  The event journal and `appendLines` of the prospective journal have no separator
  either; the outcome writer has one (`commerce-outcome-binding.mjs:847`).
- A statement whose sync failed is answered with 503, and accepted as already
  stated when it comes again (`caller-result-feedback.mjs:945`), without a sync.
- An open prospective record does not advance when the join rejects its statement
  or has lost its task (`commerce-prospective-delivery.mjs:599-612`): `Barred`
  in `CaptureAdvances`.
- A coverage window is reported partial when the inode of a removed file comes
  back in it. This errs on the safe side; `disturbed` records it.
- A crash between the marker of a recheck and its answer consumes the referral
  without a reward (`receipt-referral-recheck.mjs:361`).

## 4. The proofs

All with TLAPS, for every number of requests, credentials, epochs, slots,
processes, writers, operations, artifacts, segments, rows and every file limit. The
invariants of type and of induction are not checked again by a run where they are
proved. An assumption on constants is named; where none is, there is none beside
the `ASSUME` of the module (`JournalAssumption`, `MemoryAssumption`,
`TrialAssumption`, `OtherStages`, `NoRecordIsNone`), which say what the constants are.

### Paid replay

`ReplayStoreProofs` has what each operation of the journal does to the records
of a key: that `Reserved`, `MarkedSpend`, `Released` and `Retained` keep the keys
unique and the capacity, and which records they leave alone. Both paths use it.

**HTTP** (`ReplayHttpProofs`). `TypeCorrect` is type correctness. `SpendInvHolds`,
under `ReuseWithinGrace`, is the inductive invariant about spending:

- `SettledOnce` is not inductive: a second request could be in phase `marked`
  with the same credential. `SoleHolder` excludes it: a credential has one
  holder, from the claim until its authorization and grace period are over.
- `SoleHolder` needs that a claim of a held credential finds a record
  (`OwnersHold` before the marker, `MarkedIsQuarantined` after it), that this record is
  not expired (`RecordsOutliveValidity`) and that the only record of its key is
  the one the holder changes (`KeysUnique`).
- A verified credential has a finite validity (`SpendingIsDated`). Without it a
  record could expire under a live settlement.
- The late `persistResponse` is the step that deletes records of others; there
  `ReuseWithinGrace` shows that a record it deletes belongs to a credential that
  is no longer guarded.

From it follow `SettledOnceHolds`, `NoRivalSpendHolds` and
`SpendIsQuarantinedHolds`, through crashes, key rotation and every failing write,
and `OneExecutionHolds`: a handler that runs holds its credential.

`ResultInvHolds` is the inductive invariant about results, whatever clients reuse:
a completed record, an answer and a replay stand for an executed settlement
(`CompletedWasPaid`, `AnswersWerePaid`), and an unmarked reservation has a request
behind it, or one whose answer says what went wrong (`UnmarkedIsAccounted`).
`ReplayedWasPaidHolds` and `NoOrphanReservationHolds` follow.

`ResultHasRoomHolds` (`ReuseWithinGrace`): while a settlement is sent, or its result on
the way, and until a grace period after the authorization expires, that result fits into the journal and replaces no record of
another credential. The capacity check at the claim does not say so, because the
record may expire and others take its place and its key. The argument is that an
owner's record is there as long as the credential is guarded (`OwnersHold`), that it
is the only one under its key (`KeysUnique`), so that the result takes exactly its
place, and that no operation leaves more records than the capacity
(`WithinCapacityHolds`, a lemma). Without the assumption this fails as `http_shared`
does.

`PreparedBeforeSpendHolds` is the property of one step, the dispatch, and needs
`BytesAreKept`: while a request may dispatch or has dispatched, every record of its
binding has its bytes, as the prepared ones or as the result. That no other
request puts its own there is `SoleHolder` again, so this needs `ReuseWithinGrace`.

**MCP** (`ReplayMcpProofs`). A step of a call is a turn of the queue, a possible write of
the journal and a move of its phase; `CallStep` says what each of these may do, and
every action is shown to be such a step once (`Turn`, `WritesOnce`, `Moves`), so
that each invariant is proved of one kind of step and not of thirty actions.

- `McpTypeCorrect` includes the caps of the two maps. The maps are filtered
  sequences, and what filtering does (length, order, which elements) is proved
  first, by well-founded induction on finite sets of numbers.
- `SpendInv` of this path: a binding is held (`Holds`) while a call owns it or the
  process knows its outcome, in memory, in a list to sweep or in a call that
  retains it (`Known`). A held binding that is still guarded has a record
  (`HeldHasRecord`), a call that runs knows no outcome yet
  (`RunningHasNoOutcome`), there is one owner (`SoleClaimant`), and held bindings do
  not share a key (`KeysApart`). `NoRivalSpendHolds` follows under
  `ReuseWithinGrace`.
- `ResultsBelongHolds` needs that every result in the journal, in memory and in a
  call was made by a call with that binding that is past its settlement
  (`ResultInv`), and no assumption on clients.
- `OutcomeRememberedHolds` is an action property: what a call knew of an outcome it
  still knows, or wrote, or it was crowded out of the map of results given up,
  which has the size of the journal. `KeysApart` makes sure that it is not another
  binding's result that takes its place.
- `ResultsStayStoredHolds`: only the queued marker of a call that found a stored
  result given up replaces it. `StoredInv`: the results of one binding on disk, in
  memory and in the calls that will store one are the same (`OneResult`); a call that
  runs, or whose result is too large to store, has none there (`NoResultYet`); the
  records share no key with another held binding (`RecordsApart`); a pending record
  has no result, so that a release removes none (`PendingIsBare`). The same
  `ReuseWithinGrace` is assumed: without it a late result replaces the record of
  another credential.

**Refinement.** `PaidOperationImplemented`, in both modules, maps every step to a
step of `PaidOperation` or to none: the attempts on a credential are the calls that
dispatched it, it is charged when one of these executed, delivered when it was
answered. For HTTP under `ReuseWithinGrace`, which gives one attempt, and with
`ResultInv`, which gives no result before the charge; for MCP likewise.

### Trial and outcome journal

`ExtractionTrialProofs`:
`HopInvHolds` has, besides the property, that a purchase is exclusive and on its
way to durable (`PurchasesSound`), that the number it opens exists (`RoomToOpen`)
and that what is durable is present. `HopsAreBoughtHolds` needs no mutual
exclusion: the exclusive creation of a slot is enough, also after somebody
removed the lock. `LeaseInvHolds` adds that a lease after its sync is durable,
which is what makes it survive `PowerLoss`; `OneLeaseHolds` and
`DoubtClosesHolds` follow, until the lock is removed by hand.

`OutcomeJournalProofs`: `OutcomeInvHolds` is the inductive invariant. Why its parts
are needed:

- `OneInside`: who is past the wait is the head of the queue, has a fresh index,
  and a record which that index admits. Without it a second writer could append
  between the decision and the write.
- `IndexIsCurrentHolds`: a fresh index has every retained record, but for the line
  that is being synced. With `OneInside` it gives `AppendsNewRecordsHolds` and
  `OneRetainedSettlementHolds`: what is not in the index is not in the files.
- `SettledOnce` needs more, since the journal forgets what two rotations remove:
  a delivery is recorded once (`DeliveriesAreNew`), a settlement comes behind its
  delivery in the files, so that a rotation or a power loss that keeps the
  delivery keeps the settlement (`SettlementsFollow`); and this for each directory
  a power loss may go back to.
- `AcceptedIsDurableHolds`: a settlement is answered after the file and the
  directory were synced, and a rotation by another record may only drop it.

### The other journals

`JournalsProofs`, each of the specification of its own module:

- `NoCutUnderContentionHolds` (assuming `NoneIsNoRun`). `RunsInv`: a run that
  appends has marked every file it met, or that file has been renamed
  (`MarksBeforeRows`), so that a cut with a row of a contender is in a marked file
  (`CutsAreMarked`); the file of a run without a lease was met by nobody
  (`EarlyIsUnknown`).
- `OneLinePerWriterHolds` (`TornIsNoLine`), for any `Offers`, also one reference to
  several writers, as the grant of a reuse does. What a writer has in the two files
  is in its ids, or these are not loaded, also after a rotation of its own, a failed
  append or a restart; the rotation of another writer only removes lines. Lines carry
  the writer that appended them (`by`), which no action reads.
- `RemovesOldestFirstHolds` (`RetentionIsFinite`). The segments are in the order of
  their appends, and whatever a rotation, its drop or their failures leave is a
  rearrangement that moves the files from some number on by one.
- `CompleteIsTrueHolds` (`FilesAreInodes`). While no append failed, the hashes behind
  the start are exactly what landed; a complete cut has these in its ranges; and
  a range that is found again still begins with what was cut (`Certified`). This
  through any steps of other processes and inodes that come back.
- `CleanIsCompleteHolds`, the converse. In an undisturbed window the two files are
  those of the start (`NotRotated`), the current file was created (`BegunSince`), for
  the first time or behind a rotation that stopped half-way before the start, or
  there was one rotation (`RotatedOnce`), and in each case the admitted rows are
  what the files gained. A second rotation disturbs the window.

`RecordsOnlyAdvanceHolds` (`ProspectiveProofs`): whatever the parser reads behind a
journal, it fills and advances its records; a torn or failing append leaves some of
its lines; and a call adds no more new records than there is room for. The theorem
is proved of `ProspectiveDelivery` itself and carried to the two places where it is
run.

### The services

`ServicesProofs`:

- `OneRecheckHolds` (`ClaimsHaveReferrals`, what `ReferralOf` is). A referral is lost
  only after it was marked; the marker is created in one step with the claim that
  wins, so the first winner of a referral is its last.
- `OneStatementHolds` and `AcceptedIsReadableHolds` (`SaysBounds`). A file is open,
  that is its last line unterminated, only after a write failed inside a line.
- `NoStrayWorkerHolds` (`ExchangesAreJobs`). `ExchangeInv`: an HTTP request with a
  worker is still comparing (a client of the MCP profile may be answered before); the
  worker of a client that left is being reaped; and `active` is the number of requests
  in progress, so that no slot is given back twice.
- `FlushIsCompleteHolds` (`WritesAreNotNotes`). The gate is re-entrant, so its head
  may be a work of the queue; what was asked of a waiter has ended, or is in what it
  awaits (`AskedIsAccounted`), and an observation is forgotten only when it ended.

`ServicesTypeOKHolds` and `PlanesTypeOKHolds` are type correctness, of the
specifications the two runs check. The bridge to these are the lemmas
`ServicesAreComponents` and `JournalsAreComponents`: a behaviour of `MCServices` or
`MCJournals` is one of each component. They hold by the way the runs put the
components side by side and say nothing of the code.

### Only model-checked

- Liveness: `EveryRequestAnswered`, `EveryCallAnswered`, `WaitEnds`,
  `ComparisonEnds`, `FlushReturns`, `CaptureAdvances`. These need fairness and
  ENABLED, which the provers here cannot reason about.
- The violated claims, as such: their runs are counterexamples, and the theorems say
  under which assumption, or up to which exception, the claims hold.

## 5. What is not modelled

- Inside the modelled parts: the transport evidence that the `finish` and `close`
  listeners append to a record (no decision reads it), headers, digests, sizes
  of individual results, the authority file of the trial and its parsing, address checks
  and parsing of pages, `flushMcpResults`, which only tests and fixtures call; of
  the journals the headers, seals, tokens, windows and namespaces, lines of
  varying length, and marks of a contender that fail to be written.
- Two server processes on one replay journal. The promise queue serialises one
  process only, so they would lose each other's updates; the modules have one
  process, as `README.md:40` asks. `SettlementRuns` and `DeliveryCoverage` do
  have several, because their code is written for it.
- Power losses outside the trial and the outcome journal. Task references, events
  and prospective lines are written without a promise about them; statements are
  synced like settlements.
- The lockfile delta workers (`lockfile-pin-delta.mjs`) repeat the discipline of
  `CompareWorkers` in code of their own, without a bound on their number.
- Batch extraction and the402 are sequential calls over the modelled parts. The MCP
  server, the gateway wiring, telemetry classification and the ordinary join
  are functions of requests, constants and files.
- The parts without persistent or shared state (enrichment, chain reads, audits,
  discovery, clients), which are most of the lines of the repository, are functions of
  their input; their bugs are parsing bugs that tests reach.
- Cryptography, the SDKs, the facilitator and the chain are external.

## 6. What could follow

1. The exception of `ResultsStayStored` made precise: when a result is given up whose
   write is still queued, and what bounds its memory must have to exclude it.
2. An abstract journal (a set that only rotation shrinks), implemented by
   `OutcomeJournal`, `CallerFeedback` and `TaskRefJournal`.
3. `DeliveryCoverage` over the planes of the other modules instead of one of its
   own, so that a fault of an append is that of their code.
4. Power loss for statements.

## 7. Running it

In this directory:

    tlc -workers 2 -config MCReplayHttpRivals.cfg MCReplayHttp.tla
    tlapm ReplayHttpProofs.tla

The other runs are listed in `PROJECT.json` with their module and configuration.

Definitions marked `mutant` in the modules are used by no specification. Each
is a plausible mistake in the code (a dropped check, a missing marker, a bound
off by one), and `PROJECT.json` names the property that fails when it takes the
place of the definition after it.
