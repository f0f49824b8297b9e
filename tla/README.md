# QuantPro Collector in TLA+

TLA+ models of the QuantPro Collector (`src/`, a Cloudflare Worker), their TLC
instances, and TLAPS proofs. Paths below are relative to the repository, so
`src/run-envelope.ts` is the TypeScript file of that name.

- Modelled and checked: the research workflow with its receipt stream, the State Gateway
  with its two GitHub ledgers, the run envelope, issue bookkeeping, the automation run
  ledger, the portfolio plane, the research replica with its retention, the semantic index.
- Proved, for every value of the constants: every safety and action property that the passing
  runs check, in all of these components, and that issue bookkeeping refines one delivery per
  dedupe key. A few theorems have a hypothesis, named with them below.
- Not modelled: components without state or protocol of their own, and the quota plane
  (see "Not modelled").

Run one instance with `tlc -config MCResearchWorkflow.cfg MCResearchWorkflow.tla`, and
the proofs with `tlapm ResearchWorkflowProofs.tla`. `PROJECT.json` lists the runs,
the code lines behind every definition, the hazards and the findings.

## The system

One Worker serves MCP tools, HTTP routes and cron triggers. It keeps no state between
requests: every handler is a sequence of `await`s on D1 (SQLite, one statement or one
`batch` is a transaction), R2, Vectorize, KV, GitHub and quote sources. Requests run
concurrently, a request may end at any await (eviction, time limit), and a failed
request to a store may or may not have taken effect. That is where the
difficulty lies; there are no locks other than rows that the handlers write.

| Component | State | Operations | Hard because | Module |
|---|---|---|---|---|
| Research workflow `research-workflow.ts` | D1: leases, terminals, proposals, deferrals, events | claim, submit-as-complete, defer | checks and writes are separate awaits; preemption; retries under an idempotency key; batches whose answer is lost | ResearchWorkflow |
| Receipt stream `research-workflow.ts`, migration 0007 | D1: event order; the cursor of the collecting machine | receipt pages | pages race with new events; lost answers | ReceiptStream |
| State Gateway `state-gateway.ts`, `state-receipts.ts` | D1: one receipt with a lease per write key | `appendStateBatch`: reserve, append, read back, finalize | D1 and GitHub cannot share a transaction; 120 s lease; POST is not idempotent | StateGateway |
| Owned commands `state-commands.ts` | none | derive event id, write key and links | derived from a reading of the ledger that is stale when it is written | StateGateway |
| Ledgers `investment-ledger.ts`, `market-ledger.ts` | GitHub comments of issues 3 and 2 | read all, append | no conditional write on GitHub; order by caller's `as_of` | StateLedger |
| Run envelope `run-envelope.ts` | D1: `automation_runs_v3` | `processRunEnvelope`: reserve UNKNOWN, execute, settle | two executions of one envelope; crash between ledger and run row | RunEnvelope |
| Issue bookkeeping `issue-bookkeeping.ts` | D1 row per dedupe key; a GitHub issue | reserve, one GitHub request, settle | the loser of the race is known by its timestamp; crash leaves UNKNOWN for good | IssueBookkeeping, OneDelivery |
| Run ledger v1/v2 `automation-run-ledger.ts` | D1: `automation_runs_v2`, reads v1 and v3 | begin, end, legacy events, history | concurrent ends with different outcomes; two tables merged | AutomationRuns |
| Portfolio plane `live-universe.ts`, `portfolio-status.ts`, `portfolio-delta.ts` | KV: universe, status, baseline, latest delta | two posts, presentation | keys written by separate requests; read-modify-write without a guard | PortfolioPlane |
| Replica, retention `research-replica.ts`, `research-retention.ts` | R2 objects and journals, D1 records, links, quota, retention rows | ingest, mark, purge | two stores; purge against ingest; quota reserved first | ResearchReplica, Retention |
| Semantic index `research-semantic-index.ts` | D1 state rows, Vectorize | register, list, push, probe, search | retention between check and upsert; paging over a changing queue | SemanticIndex |
| Quota `quota-*.ts` | D1 counters and circuit rows | meter, admit, trip | rows written by an external meter | - |
| OAuth KV `d1-oauth-kv.ts`; OAuth, GitHub entry | D1 key-value table | get, put, delete, list | offset paging | - |
| Quotes, projections, health, validation, remote reads | none | read only | no state | - |

Interaction: the MCP tools in `index.ts` call the handlers with a fresh request id.
`submit_run_envelope` calls the owned commands, they call `appendStateBatch`, and that
calls the ledgers; RunEnvelope EXTENDS StateGateway EXTENDS StateLedger. Direct calls of the
append tools enter beside it. The run ledger reads the rows of the run envelopes. The
receipt stream reads the events the workflow writes; ReceiptStream EXTENDS ResearchWorkflow.
Ingest, retention and the semantic index share the replica tables; SemanticIndex EXTENDS
Retention EXTENDS ResearchReplica. The research workflow shares only the job records
with the replica.

What makes each correct:

- Research workflow: one formal result per job; a closed or deferred job is not
  leased; a live lease belongs to its holder; answers agree with what is stored;
  each lease is receipted once. Receipt stream: a collector misses nothing.
- State Gateway: a settled receipt and a positive answer name a comment with that
  content; retries do not duplicate; conflicts are real and final.
- Ledgers: CLOSE events had their support; the links of a checkpoint are consistent.
- Run envelope: an outcome is final and true of the ledger; nothing is counted twice.
- Issue bookkeeping: one delivery per dedupe key, and rows that are true of GitHub.
- Run ledger: one run per invocation key, append-only rows, a history without holes.
- Portfolio plane: a removal is never inferred across an UNKNOWN interval; a delta is true of
  the portfolios it names.
- Replica and retention: what is stored can be rebuilt, the quota counter covers the
  bucket, a purge is completed and not undone.
- Semantic index: READY means the vectors are there; what is wanted is found in the end.

## Modules

### ResearchWorkflow (`src/research-workflow.ts`)

Variables are the five tables (sets of rows, `events` a sequence in receipt order), the
clock, and per request the await it is at (`pc`), its input (`call`), the `now` it
captured (`at`), its claim attempts and its answer. Each action is the code between two
awaits: an SQL read with the branch taken on it, or one batch. `Claim`, `Submit` and
`Defer` group the actions of `claimResearchJob`, `submitResearchResultProposal` and
`deferResearchJob`. A batch is applied whole with the conditions its SQL repeats
(`HoldsLease`, `MayPreempt`), which may disagree with what was read before. `Fail`
ends a request at any await; `CommitSeen` lets a batch throw although it
committed. `issued` records every lease row ever written and is only read by
properties.

Data is abstracted to what the handlers compare: a payload is the job it names, the
kind of check it fails and a content; the stored hash of an unsafe or oversized
payload is that of `"{}"`, as in `prepareProposal`. The visibility gate of a claim is
a free choice, since the replica may publish or withdraw a job at any time.
Validation before the first await that only rejects writes nothing and is one
disjunct of `Start`.

`FormalOwners` is `isFormalResearchOwner`. The MCP tools admit formal owners only
(`requireFormalResearchClient`), so `FormalOwners = Owners` is what production runs;
the other case is reachable by calling the handler directly, as the tests do.

### StateLedger (`src/investment-ledger.ts`, `src/market-ledger.ts`, parts of `src/state-gateway.ts`)

No variables: both ledgers as one sequence of comments, and the functions that read it:
the latest event per channel by `as_of`, current, first, previous and previous-close
checkpoints, duplicates, the universe transition, and what a CLOSE event needs.
Abstractions: one event on one symbol per batch; the body is the R state; `Identity` is
what the write key and event id are hashes of; the 60-day look-back is not cut off.

### StateGateway (`src/state-gateway.ts`, `src/state-receipts.ts`, `src/state-commands.ts`)

Variables are the receipts by write key, the ledger, the calls, the clock and the
number of faults. `Submit`, `BuildMarket`, `CheckThesis`, `CheckMarket` are what comes
before the reservation; `Insert`, `Inspect`, `Acquire`, `Confirm` are
`reserveStateWrite` and the branches on its result; `ReadInvestment`, `ReadMarket`,
`Post`, `Readback` the append; `Settle` and `Fail` the two calls of
`finalizeStateWriteReceipt`. Each request to D1 or GitHub may fail before or after it
took effect, with the error class `mapDomainError` gives it. `Die` is an evicted
Worker. `takenOver` remembers which keys were taken over from a lapsed lease and is only
read by properties.

`now` is captured where the code captures it: on entry to `appendStateBatch`, after the
links of an owned checkpoint were built.

### RunEnvelope (`src/run-envelope.ts`)

Extends StateGateway with the run rows and the envelopes in flight. `Reject`,
`Lookup`, `Reserve`, `Adopt`, `Execute` and `Record` are the awaits of
`processRunEnvelope`; between `Execute` and `Record` the call of the same request id
runs through the gateway's own actions. `OutcomeOf` and `FreshOf` are the derivation
matrix. Direct calls of the owned tools run beside the envelopes.

### ReceiptStream (`src/research-workflow.ts`, migration 0007, `src/index.ts`)

Extends ResearchWorkflow with one collecting machine: its cursor `since`, the page on its
way (`poll`), what it has `collected`, how many answers were `lost`. `Poll`, `ReadPage`,
`TakeAnswer` and `LoseAnswer` are `listResearchJobReceipts` and its caller. `Sequence` is the
number the insert trigger gives an event. The one-off renumbering of migration 0007
runs before the first poll and is not modelled.

### IssueBookkeeping, OneDelivery (`src/issue-bookkeeping.ts`)

Variables are the row of each dedupe key, the requests made to GitHub under it and those
that `landed`, the calls, and `settled`, the keys whose row was updated (read by the mapping
only). `Start` is everything before the first await with the whitelist of the call's
deployment; `Lookup`, `Insert`, `Reread`, `Deliver`, `Settle` are the awaits; `Die` and
`DieDelivering` an eviction. `SharedStamps` says whether two calls of one key may read the
same millisecond from the clock, which is what the code tells them apart by.

OneDelivery is the promise: a key is free, reserved, and settled at most once, with at most
one request. IssueBookkeeping implements it under the mapping in `Promise`.

### AutomationRuns (`src/automation-run-ledger.ts`)

Variables are `automation_runs_v2` by task and run id, the receipts of run envelopes, the
tool calls, and the histories being read. `Begin*`, `End*`, `Event*` are the awaits of
`beginAutomationRun`, `endAutomationRun`, `recordAutomationRunEvent`; `Route` and `Valid` are
what `record_automation_run` decides before; `Ensured` the copy of the v1 table on first
use. `BeginIgnored` is what `INSERT OR IGNORE` leaves out: a row with the invocation key, or
with the run id, which a legacy event may have taken under the same task; the begin then reads
its key back, finds nothing, and fails. A payload is its hash. `ReadRuns` and `ReadReceipts` are the two queries of
`getAutomationRunHistory`, each with its own `since` filter and cap, then merged. A timestamp
is an hour and the hours it is written ahead of UTC, because the filter compares texts.

### PortfolioPlane (`src/portfolio-*.ts`, `src/live-universe.ts`, `src/index.ts`)

Variables are the four keys, the status posts in flight, the readers and the clock.
`PostUniverse` is one `put`. A status post writes its key, reads the universe, reads the
baseline, reduces, writes the delta, then the baseline, one action each; a failure after the
first write is answered as a success. `Show` is `resolveLivePresentation` over two separate
reads. The universe is the set of its codes with a manifest version.

### ResearchReplica, Retention, SemanticIndex

They model `src/research-replica.ts`, `src/research-retention.ts` and
`src/research-semantic-index.ts`, each extending the one before. ResearchReplica: the D1 tables (`tables`) and the R2 `buckets`; `Deliver` is
`ingestResearchReplicaRecord`: reserve quota, journal, body, rows in one batch with the index
registration. Retention adds the marks and the sweeps: `Scan`, `Capture`, `InsertMark`,
`RetireRows`, then per document of the backlog the deletions in their order and `Flip`.
SemanticIndex adds Vectorize and the external pipeline that walks the queue with a cursor
(`ListPage`), probes and pushes; `ServePush` groups the awaits of
`ingestPrecomputedVectors`, `IsHit` is what a search lets through.

Abstractions: versions of documents and content objects are the record types; the chunks of a
version are one vector, a page is one item; the month is both the quota period and the age
unit. The sender may send any message that is not stored, again after a failure; `Resend`
says whether also while an earlier attempt of it is still being served. The runs have it
FALSE (see "Behaviour met while modelling").

### Proof modules, MC modules

`<module>Proofs` holds the theorems about a module (`ReplicaProofs` those about ResearchReplica,
Retention and SemanticIndex), the `MC` modules the small instances for TLC.

## Runs

Deadlock is not checked, because a state in which every request is done and the clock has
reached its bound is a normal end.

| Run | Instance | What it shows |
|---|---|---|
| `research` | 3 requests, 1 job, 2 formal and 1 other owner, TTL 1, three cases | completion and deferral close the job against every interleaved claim; each lease is receipted once and ends in one way; a live lease is only released by its holder; one formal result; ACCEPTED is durable; a replay returns the caller's own payload; no receipt is skipped |
| `gateway_receipt` | 3 calls, 2 keys, 4 commands, lease 1, 2 ticks, 1 fault | receipts and answers name the right comment; duplicates need a lapsed lease; conflicts have a cause and are final |
| `gateway_chain` | 3 calls on a day with 8 possible writes, 1 fault | every CLOSE was supported, links of a checkpoint are one reading |
| `run_envelope` | 2 requests, 7 envelopes, direct calls, 2 ticks, 2 faults | COMPLETED is true of the ledger; fresh once; outcomes final |
| `issue_bookkeeping` | 3 calls, 2 keys, 2 deployments, 2 faults | implements OneDelivery; rows are true of GitHub; answers under a key agree |
| `automation_runs` | 3 calls of all tools, a migrated run, an envelope, 1 history, 1 fault | one run per invocation key; acknowledged outcomes stay; only growth; the history drops nothing |
| `portfolio_plane` | 3 status posts, 2 universes, 1 reader, 1 fault | deltas are true; a gap is not bridged; a complete view was confirmed; the delta is stored before the baseline moves on |
| `replica_retention` | 2 deliveries, 2 documents sharing an object, 1 sweep, 2 months, 2 faults | usage covers the bucket; what is stored can be rebuilt; a purge stays and is completed |
| `semantic_index` | 1 document, 2 versions, delivery, sweep, pipeline, 2 months, 2 faults | READY has its vectors; a wanted version on the queue is found |
| `gateway_restamp`, `retention_again`, `semantic_status` | smallest instance | the three disagreements below |

Why the bounds suffice. Three requests are enough for a holder, the one who takes over
and a third who acts on what either left; every race in the code is between two
requests on one key, and the third makes its result visible to a later one. Two ticks
with a lease of one let a lease lapse, be taken over and lapse again. One fault separates
every pair of awaits; two let a retry fail as well. One job and two keys are enough because
no statement relates rows of different jobs or keys, except the checkpoints of a day,
which `gateway_chain` has, and objects shared by documents, which `replica_retention` has.
A page or limit of one item makes every page boundary happen. Calls are
symmetric: their identities are compared with nothing but themselves.

`research` would be too large with everything at once, so its CONSTRAINT `OneCase` keeps
three cases of one instance apart: the queue over time with at most one fault
(`QueueCase`); good and bad retries within one tick with two faults (`RetryCase`); two
requests and the collector without faults (`StreamCase`; losing an answer is the collector's
own fault and is in it). What couples them, a fault during a long poll, cannot matter
to the stream: it reads rows of committed batches only, and for that the proof below
needs no bound. `automation_runs` has `OneForeignStart` for the same reason: a legacy start
under an id that `begin_run` may draw occurs at most once, and then without a history and
without envelope rows, which it does not touch.

Every property of a passing run has a mutant, a plausible bug in one mapped definition,
that TLC finds through that property; the mutated definitions stand beside the originals
with a comment `Mutant:`.

### Fairness and liveness

Most of the code has no scheduler: a caller may always stop retrying, so nothing must
eventually happen and most specifications state no fairness. Two parts are driven from outside:

- `SweepFairness`, weak fairness of each sweep's steps: the daily cron trigger
  (`src/index.ts`, `scheduled`) starts a sweep again after one ended, failed or died, and a
  started one goes on or dies. Faults are bounded by `MaxFaults`, so they stop.
- `Fairness`, weak fairness of the pipeline: the external embedding job keeps walking the
  queue and pushing, as the comment at `src/index.ts:2993` requires of it.

Deliveries are not fair: the sender may stop. Under these, `ExpiredIsPurged` (a document
that is marked is purged in the end, whichever deletion a sweep died after) and
`PendingIsFound` (a version that a search should find and that is on the queue is found or
stops being wanted, although pushes of other rows are rejected and rows come and go) hold,
and `StatusRecovers` does not.

## Findings

Where the runs with `expect: violation` lead; quotes and lines are in `PROJECT.json`.

1. `gateway_restamp`: after an unknown outcome whose POST landed, a retry of the same
   events under a new timestamp conflicts for good instead of replaying.
2. `retention_again`: a document that was purged, ingested again and expires again keeps its
   PURGED mark, so it stays visible and is never purged.
3. `semantic_status`: a version without readable text that arrives after the servable one
   keeps the index status at PARTIAL for good.

## Behaviour met while modelling

No run is kept for these. Where a document says otherwise it is named.

Research workflow
- The generation of a lease restarts at 1 after a defer, so (owner, generation) does not
  identify a lease, as the module header says (`research-workflow.ts:24-27`, `:97`).
- A verdict is answered although the batch that stores it failed (`:752`; compare `:877`).
- A non-formal submit releases the lease by job id alone (`:1054`), so without the gate in
  front it could release another owner's live lease.
- After two faults a submit may answer SECOND_RESULT for its own stored result.
- Two different unsafe or oversized payloads under one key have the same hash and replay
  each other's rejection.

Gateway and envelopes
- Two slots written at once can skip each other in the checkpoint chain
  (`market-ledger.ts:597`; `docs/ledger/market-state-issue-2.md:71`).
- A holder that outlives its lease by waiting for GitHub leads to two comments, and
  from then on every read of that key, and for a checkpoint every MARKET write, is a
  conflict (`SecondCommentNeedsTakeover` says this is the only way).
- Two executions of one envelope can answer different final outcomes
  (`run-envelope.ts:349`; envelope spec, line 332).
- A crash between PERSISTED and the run row makes the retry SILENT with 0 fresh: the
  comment stays, its notification is lost.
- A run may be FAILED (401 or 403 on the retry) although an earlier attempt's comment is in
  the ledger.

Bookkeeping, runs, portfolio
- Two calls of a dedupe key in one millisecond both deliver
  (`issue-bookkeeping.ts:261`; the header at `:173-176` promises one attempt). With
  `SharedStamps = TRUE` TLC finds `DeliversOnce` violated.
- `record_automation_run` with a `run_` id passes a FINAL without its counts: they default to 0
  and false, while the legacy route refuses them.
- The history filter compares timestamps as text, so rows that a caller wrote with another
  UTC offset can be missed (`automation-run-ledger.ts:1005`). `HistoryIsComplete` is
  checked with timestamps in UTC.
- Two status posts in flight can lose a gap marker and bridge the gap
  (`portfolio-delta.ts:411`); `RecordedGapIsKept` is about posts that do not overlap.

Replica, retention, index
- An ingest between the reference count and the deletion links a document to a deleted
  object (`research-retention.ts:403`).
- A second attempt at a message that overlaps the first, is slow and survives the purge
  writes the purged message back: the check for a replay is its first await. With
  `Resend = TRUE` TLC finds `PurgedStaysGone` violated.
- The month of the quota row is the clock of the request: a late request of the old month
  sets it back and erases the write count (`research-replica.ts:87-99`).
- A push that overlaps an ingest can mark READY a row whose vectors are of the old content
  (`research-semantic-index.ts:1049-1051`).
- An out-of-order servable version retires the current one, by arrival (`:450-456`).
- A consistency probe, documented to write nothing (`:996`, `:1048`), revives a retired row
  (`:1093`).

## Proofs

### ResearchWorkflowProofs

For every value of the constants (any number of jobs,
owners, requests, keys and calls, any TTL and any number of faults), from
`ParameterAssumption` alone unless stated:

| Theorem | States |
|---|---|
| `TypeCorrect` | `Spec => []TypeOK` |
| `AtMostOneFormalResult` | `Spec => []OneFormalResult` |
| `CompletedJobStaysClosed` | `Spec => []CompletedJobIsClosed` |
| `AcceptedStaysDurable` | `Spec => []AcceptedIsDurable` |
| `DeferredJobStaysFree` | `Spec => []DeferredJobIsFree` |
| `ReplaysAreFaithful` | `Spec => []ReplayIsFaithful` |
| `LeaseHistoriesAddUp` | `Spec => []LeaseHistoryAddsUp` |
| `LiveLeaseIsFenced` | `FormalOwners = Owners => (Spec => LiveLeaseOnlyReleasedByHolder)` |

None of the properties is inductive alone: that a completed job has no lease needs that
a formal proposal always comes with its terminal row (the unique index alone would
let a proposal in without closing the job), that in turn that a proposal row belongs
to the request that wrote it, and all of it that a request at a given await has the
input of that handler. `IInv` is the conjunction of

- `TypeOK`;
- `Control`: what each await says about the request's own locals (`ControlAt`);
- `AtPast`: the captured `now` is not in the future, so a lease that is live by the
  wall clock is live for every request, and a deferral that is active by the wall
  clock is active for every claim;
- `Tables`: primary and unique keys, `FormalIsTerminal`, and the two table properties;
- `AcceptedRow`: an ACCEPTED answer has its terminal row.

Most steps change only one request's locals; `QuietStep` covers them. The four batches
that write leases, proposals, terminals or deferrals have a lemma each
(`ClaimBatchStep`, `SubmitAcceptStep`, `SubmitSyntheticStep`, `DeferBatchStep`), which
shows that the conditions its SQL repeats are what keeps `Tables`, whatever was read
before. The fencing theorem adds `FormalOnly` (no request is at the synthetic accept) and
shows that each batch that removes a live lease is its holder's.

`ReplaysAreFaithful` rests on `Replayed`: a request that answers a replay hands out a stored
proposal of its own owner, key and payload hash, and rows of `proposals` are never removed.

`LeaseHistoriesAddUp` counts. `History` says that `issued` and `deferrals` are finite, that
the token of a claim that has not run its batch is on no lease yet (`TokensAreSpent`, so each claim
adds one element to `issued`), and that the books balance: `ClaimsAddUp` for all owners,
`LeasesAddUp` while all requests are from formal owners. A step is one of six kinds by what it
appends to `events` (`Silent`, `Audits`, `Synthesizes`, `Completes`, `Defers`, `Preempts`); for each
kind a lemma moves both sides of the equation by the same number.

### ReceiptStreamProofs

`EveryReceiptIsCollected` states `StreamSpec => []NothingIsSkipped`: whatever was stored up to
the cursor has been collected, for any number of requests, any page limit and any number
of lost answers. `StreamIInv` adds to it that the cursor is the place of an existing event
and that a page on its way is the run of events right after the cursor it was asked for
(`PageOK`). The lemma that carries it is that every step of the workflow only appends to
`events`; that they are a sequence comes from `TypeCorrect` of ResearchWorkflow.

### IssueBookkeepingProofs

From `~SharedStamps`, which says that two calls of one dedupe key never read the same
millisecond, and `BookkeepingAssumption`:

| Theorem | States |
|---|---|
| `TypeCorrect` | `Spec => []TypeOK` |
| `RowsAreTrue` | `Spec => []RowIsTrueOfGitHub` |
| `AnswersOfAKeyAgree` | `Spec => []AnswersAgree` |
| `DeliversOncePerKey` | `Spec => DeliversOnce`, the refinement of OneDelivery |

A row cannot be read as true of GitHub without knowing who may still write it. `IInv` says
that a stamp identifies a call within its key (`CallsOK`), that every row has its owner, the
call with its stamp (`RowsOK`), that there is no request without a row and nothing is said of
an open row (`KeysOK`), and that only the owner delivers and settles, each once
(`CallKnows`). The refinement is a step simulation: with `IInv` before and after, `Insert`,
`Deliver` and `Settle` map to reserving, sending and settling their key, every other
step to a stutter. The assumption is needed: without it TLC finds two deliveries.
`AnswersOfAKeyAgree` adds `AInv`: an answer that states a final outcome is the outcome of its row,
and that row is settled, so it does not change any more.

### StateGatewayProofs

For any calls, commands, earlier ledgers, lease length and bounds, from `GatewayAssumption` and
the three assumptions on `Histories`: an earlier ledger was written by this code, so its links
point back, it has one comment per key, and its CLOSE and MARKET comments had their support.

| Theorem | States |
|---|---|
| `GatewayTypeCorrect` | `GatewaySpec => []GatewayTypeOK` |
| `ReceiptsNameTheirComments` | `[]ReceiptNamesItsComment` |
| `AnswersNameTheirComments` | `[]AnswerNamesItsComment` |
| `DuplicatesNeedATakeover` | `[]SecondCommentNeedsTakeover` |
| `ConflictsHaveACause` | `[]ConflictHasCause` |
| `ClosesWereSupported` | `[]CloseIsSupported` |
| `CheckpointsAreOneReading` | `[]CheckpointLinksAreOneReading` |
| `SettledReceiptsAreFinal` | `SettledReceiptIsFinal` (an action property) |
| `LeasesEndByHolderOrTime` | `LeaseEndsByHolderOrTime` (an action property) |

All follow from `GatewayInvariant`. The properties say nothing of a call in flight, and that is where
they would be lost; `CallKnows` supplies it, await by await: from the inspection on, the receipt has
the call's payload (`KnowsReceipt`); from the POST on, the comment it names carries it
(`KnowsComment`); a call that may write holds the lease, and has read the ledger and not found
its key, unless the key was taken over (`HoldsLease`, which is what `SecondCommentNeedsTakeover`
needs); a CLOSE has the states of the ledger that supported it, a checkpoint the one its links were
derived from, as prefixes of the ledger (`KnowsSupport`, `KnowsLinks`: the ledger only
grows, so a prefix stays one). `AttemptsAreCalls` bounds the attempts of a receipt by the calls
that came to its lease, which is why `Calls` has to be finite.

### RunEnvelopeProofs

| Theorem | States |
|---|---|
| `RunsTypeCorrect` | `Spec => []TypeOK` |
| `CompletedRunsAreInLedger` | `[]CompletedRunIsInLedger` |
| `FreshCountsAreComments` | `[]FreshIsCountedOnce` |
| `OutcomesAreFinal` | `OutcomeIsFinal` (an action property) |

`EnvInv` extends `GatewayInv`: every step of the envelopes leaves the gateway alone or is one of its
steps. It adds that a COMPLETED or fresh run has a `Writer`, a call that was answered PERSISTED
under that run key, and that two calls that wrote name two comments (`WritersDiffer`).
`FreshIsCountedOnce` compares two cardinalities: the map from a fresh run to the comment of its
writer is an injection, because a call writes for one run key only.

### AutomationRunsProofs

| Theorem | States |
|---|---|
| `InvocationsNameOneRun` | `Spec => []InvocationNamesOneRun` |
| `AnswersAreInTheRow` | `[]AnswersMatchTheRow` |
| `TheAuditOnlyGrows` | `AuditOnlyGrows` (an action property) |
| `RunIdsNameOneRun` | no run id of `begin_run` is under two tasks: the branch "run_id is not unique" of `endAutomationRun` is dead |
| `AuditTypeCorrect` | `[]TypeOK` |
| `HistoriesAreComplete` | `Zones \subseteq {0}` implies `Spec => []HistoryIsComplete` |

`AuditInv` says that an invocation key is in one row, that a row of `begin_run` is under the id of the
call that wrote it, and what a call remembers of its row; `RowsKept`, proved of every action, says that
no write takes any of it away. `HistoryInv` adds that the tables are finite (`Migrated` is, and a step
adds at most one row), without which `Latest` and the caps have no meaning. For a history between its
reads, `HistoryKnows` says that a row left out made place for `ReadCap` rows at least as late; that the
merge keeps this with `Limit` needs `Limit <= ReadCap`, which the code has (at most 100, and 1000).
The hypothesis `Zones \subseteq {0}`, all timestamps in UTC, is needed: see "Behaviour met".

### PortfolioPlaneProofs

| Theorem | States |
|---|---|
| `PlaneTypeCorrect` | `Spec => []TypeOK` |
| `DeltasAreTrue` | `[]DeltaIsTrue` |
| `CompleteViewsAreConfirmed` | `[]CompleteViewIsConfirmed` |
| `RecordedGapsAreKept` | `[]RecordedGapIsKept` |
| `LoneAdvancesAreAnnounced` | `LoneAdvanceIsAnnounced` (an action property) |

`PlaneInv` adds what a post knows: a post that overlapped no other still sees the baseline it read
(`LoneKnows`); and once such a post has recorded a gap, the stored baseline and every baseline that
any post in flight has read guard it (`GapIsGuarded`), so a late put of an older baseline cannot reopen
it. Of the values only `None` outside the types is assumed.

### ReplicaProofs

| Theorem | States |
|---|---|
| `RetentionInvariant` | `RetentionSpec => []RInv` |
| `RetentionTypeCorrect` | `[]TypeOK` |
| `UsageCoversTheStore` | `[]UsageCoversStore` |
| `StoredStaysRecoverable` | `[]StoredIsRecoverable` |
| `PurgedIsGoneForGood` | `~Resend => (RetentionSpec => []PurgedStaysGone)` |
| `PushesKeepTheReplica` | `Spec => [](RInv /\ PushTyped)`, with the pipeline pushing |
| `ReadyRowsHaveVectors` | `~Resend /\ OneMessagePerVersion => (Spec => []ReadyHasItsVectors)` |

`RInv` adds to the properties what is known between two awaits.

- `UsageCoversPuts`: journals, bodies and the puts that deliveries have reserved and not yet made
  (`OwedJournals`, `OwedBodies`) are together at most the counter. Without what is owed the
  property is not inductive: a put raises the bucket and not the counter.
- `DeliveryKnows`: the message of a delivery that is past its journal, and past its bytes, is in R2 or
  was captured by a mark meanwhile (`Kept`, `KeptBody`).
- `CaptureOf`: a mark, or the lists a sweep is about to insert, hold stored versions of its own document
  and their messages. `SweepKnows`: a sweep that purges works on marked documents, and the bytes
  it deletes are in the lists of the mark.

It holds whether or not attempts at a message overlap (`Resend`), so `UsageCoversStore` and
`StoredIsRecoverable` do too. The purge needs `PInv`: no delivery carries what is stored or what another
one carries (`NoCopies`), and what a sweep has deleted of its mark is gone at each later step, up to the
flip (`PurgeKnows`). A captured message is stored, so without overlapping attempts no delivery can
write it back.

For the vectors, `VInv` says that a row exists only for a stored version, that a READY row names the
body its stored message gives and has it in Vectorize, that a push between the upsert and the mark has
its vectors or has lost its row, and that a sweep deletes vectors only where the rows are gone
(`RowsAreGone`). All steps of deliveries and sweeps are one of a kind (`RowsSettle`): none makes a
row READY, none brings the row of a stored version back. A push can then only collide with another push of the
same version, which sends the same body (`OneBody`). That is where the hypothesis
`OneMessagePerVersion` is used; with a version sent twice, as other content, TLC finds
`ReadyHasItsVectors` violated (see "Behaviour met").

`ReplicaAssumption` says that there are finitely many messages, that the bounds are numbers, and that what is
stored before the first step fits the quota with its journals.

### Not proved

The liveness properties `ExpiredIsPurged` and `PendingIsFound` are model-checked only: they are out of the
prover's reach with ENABLED. `TypeOK` of ResearchWorkflow and IssueBookkeeping and `GatewayTypeOK` are
proved, so no run repeats them. The violated properties of the three disagreements have nothing to prove.

## Assumptions about the environment

- A D1 statement, and a D1 batch, is atomic and seen by every later read; so is a KV or R2
  operation on one key, and a Vectorize upsert or delete once it is answered.
- A read of an issue's comments returns all comments created before it, and a POST
  creates one comment or none. Comments are not edited or deleted.
- Clocks of requests do not run backwards against each other.
- An earlier ledger was written by the same code (`HistoriesAreLinked`, `HistoriesWroteOnce`,
  `HistoriesAreSupported` of StateGateway).
- Hashes are injective except where the code hashes a constant.

## Not modelled, and why

`PROJECT.json` lists every component with its status.

- Quota metering, admission and breaker: single-statement counters and a gate that reads rows
  an external meter writes; the legacy reservation tables are no longer written. Little can go
  wrong in this code between two of its own steps.
- OAuth, its KV adapter and the GitHub entry: the protocol is a library's.
- Quotes, projections, validation, health, remote reads with retries, status and snapshot
  tools: no state of their own. A failed or stale read is a fault or a choice in the modules that
  use it.
- Scripts, deployment, prompt builds: run by an operator, one at a time.
- Within modelled components: PRIVATE and other record types of the replica, the audit and
  health rows of ingest and retention, dry runs and page limits of a sweep.
- Formats, sizes and wording are abstracted everywhere to whether a check fails.

## Plan

What would add most next, in this order.

1. `AbstractJob`: queued, leased, deferred, completed, as a specification that ResearchWorkflow
   implements, with the step simulation proved as for IssueBookkeeping.
2. The other record types of the replica, and the window between reference count and
   deletion as a property of its own.
3. `QuotaPlane`: the gate against the external meter.
