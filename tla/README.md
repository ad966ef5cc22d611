# Verification of the review pipeline

TLA+ modules that model the core of ReviewRouter, a service that runs AI code
reviews of pull requests, the TLC configurations that check them on small
instances and proofs for every instance that TLAPS checks.  `PROJECT.json` is the
index: components, runs, mutants, hazards, theorems, and for every definition
the source lines it models.

    tlc -workers 4 -config ExecutionLeases.cfg MCReviewExecution.tla
    tlapm ReviewExecution_proofs.tla

## The system and its parts

A pull request event becomes a review in a pipeline of bounded contexts
(`src/packages/features/*`), driven by the API (`src/apps/api`, requests of the
review action and of webhooks) and by the worker (`src/apps/worker`, one loop:
an outbox batch, then maintenance).  All shared state is in one PostgreSQL
database; there are no in-memory queues.

    webhook -> outbox event -> requested intent -> StartReviewExecution
      -> work slots and invocation leases -> observations -> finalized artifact
      -> outbox event -> completion process -> publication attempt -> GitHub

| Component | State it keeps | Operations | What is hard | What makes it correct |
|---|---|---|---|---|
| **review-executions**: streams, executions, slots, leases | a stream row per review scope (active, prepared, generation, revision, version); executions; work slots; leases named by tokens of one sequence; artifacts | prepare, admit, supersede, fail, acquire, renew, release, expire, attach, adopt, terminalize, finalize, prune | concurrent starts with old snapshots, lease takeover across slots, late results, finalization from facts read earlier, three retention sweeps | pointers follow states; only the newest generation is admitted; a slot has one holder, the newest; accepted results are never lost; an ended execution is frozen; every running one ends |
| review-executions: requested intents | intent rows, dispatch outcome, claims | enqueue, claim due, dispatch, record outcome, recover | dispatch with unknown outcome, crash between dispatch and its record | no intent lost, no second execution for one intent |
| review-executions: invocation flights | (reads leases) | observe, then acquire, join or wait | the observed flight is gone at the acquire | one paid provider invocation at a time |
| **review-evidence** | observations, retention times | accept, authorize adoption, prune | accept racing expiry, pruning racing references | references resolve; at most one observation of a lease |
| **outbox** | event rows with status, attempts, claim version and deadline | enqueue, claim, renew, process, retry, dead letter, recover, manual retry | stale workers, lost answers, crash with a batch claimed | claims are exclusive; settlements are fenced; every event settles |
| **review-processes** | completion process rows, claims, publication request, attempt id | create, claim, request publication, record attempt, commit snapshot, retry, recover | crash between request and record | one publication per artifact; every finalized artifact gets a process |
| **review-publishing v2** | attempts, operations, claims, effect receipts | claim, preflight, execute, reconcile, terminate siblings | GitHub calls whose answer is lost | no effect twice; no attempt closed while an effect is unknown |
| review-run-control | authorizations, mutation authority epochs, safety decisions | issue, fence, drain, activate, revoke | epochs checked at issue and used later | nothing mutates under a drained epoch |
| codex rotating OAuth / action-control-plane | leases, versioned credentials, writebacks | acquire, prepare, dispatch, confirm, activate | crash between provider write and confirmation | the only valid refresh token is not lost or overwritten by an old one |
| **hosted-account-pool** | grants, request and concurrency budgets, account health | grant, admit, complete, failover, cool down | lost completions, failover races | budgets hold and drain |
| rate-limits | counters per window | consume | one atomic upsert | limit holds per window |
| **review-snapshots** v2 | the snapshot of a pull request, commit receipts | commit, prune | commits of workers that lost their claim, of older reviews | a published complete review; only newer ones replace it |
| review-progress, -execution-checkpoints, -context-attestation | records beside the execution | write, read, prune | staleness of the progress shown | records belong to the current execution |
| review-investigations (+operations) | long-running investigations, chunks, costs | many | retries of paid steps | budgets, no lost chunk |
| release-rollout, sdk-growth-authority, workflow- and org-ruleset-provisioning | rollout steps, authority documents | tooling | restart between steps | steps idempotent |
| repositories, config, providers, auth, entitlements, audit, memory, conflict review, integrations | CRUD rows | create, update, delete | little concurrent state of their own | |
| platform (db, locks, logger, config, signed capabilities) | - | transactions, advisory locks | assumed | a transaction under an advisory lock is atomic |
| web, ui, shared, protocol, scripts, deploy, spikes | - | | not core logic | |

Bold parts are modelled now.  The components interact through the database: the
execution store writes an outbox event in the transaction that finalizes an
execution; outbox handlers call the use cases of the next context; recovery scans
in the worker repair what a lost event or a dead process left behind.

## What is modelled now

### `ReviewExecution`: streams, work slots, leases

One review scope.  The store runs every command in one transaction under the
scope's advisory lock, so a command is one action; what a caller reads *before*
its command are separate actions, and everything interleaves between them.

| Module | Code |
|---|---|
| `stream`, `execution`, `slot`, `lease`, `artifact` | rows of the aggregate (`review-execution.ts`), `fence` the token sequence |
| `start` | the snapshot a running `StartReviewExecution` holds: `Prepare` or `Reload`, `Postcheck` (reads the SCM head), then `Admit`, `RejectStale` or `DeferAdmission` |
| `final` | what a running `finalizeExecution` of the API has read: `ExpectVersions`, `ReadReferences`, `CheckHead`, then `Finalize` or `RefuseFinalize` |
| `AcquireLease` | early outcomes, expiry of the incumbent of the provider invocation in whatever slot it is, and the grant, in one transaction; `ExhaustSlot` when the budget is used up |
| `CommitObservation`, `AttachFresh`, `AttachReusable`, `AdoptObservation` | acceptance of a result and its three ways into a slot |
| `Supersede`, `FailAbandoned`, `FailExpiredRunning`, `TerminalizeSlot` | the ways out; each cancels slots, revokes leases and moves the pointers as its transition does |
| `PruneObservation`, `CompactLease`, `PruneExecution` | the retention sweeps, with their "not referenced" conditions |

Time is reduced to the comparisons the code makes (see the module's head).  The
SCM (`head`, `Push`) is external: it may move to any revision at any time, also
back to an earlier one, as a force push does.

### `Outbox`: claims, heartbeat, takeover

Any number of workers run `processOutboxBatch`.  Each repository call is one
action; the batch loop is the worker's `step` (`idle`, `batch`, `handling`,
`returned`, `threw`) with the claims it still remembers.  The heartbeat (`Renew`,
`RenewFails`) runs while a handler does.  `Recover` and `ClaimBatch` open a
batch; `SKIP LOCKED` is the set `locked` of rows another transaction holds.  An
answer of the database can be lost (`LostAnswer`): the statement took effect or
not, and the code goes where its error path leads.  `Crash` forgets the worker's
memory; its replacement has another owner hash.  `handled` and `spared` are
history variables, used by the properties only.

### `PublicationLifecycle` and `PublicationAttempt`: one review on GitHub

`PublicationLifecycle` is what the publication of an artifact promises to
everybody else, in three variables: it is requested once, closes once, an outcome
that denies effects is never given while one has happened *or may still happen*,
and an outcome that claims one is never given without.  `Touch` may come after
`Close`: a mutation GitHub was slow about lands behind an outcome
`terminal_unknown`.

`PublicationAttempt` is the code: the rows of the attempt, changed by the
serializable transactions of its repository, and the pass of a worker's executor
over one operation, one action per transaction and per call to GitHub.

| Module | Code |
|---|---|
| `attempt`, `op`, `claim`, `try`, `effects`, `receipt` | aggregate, operations, claims, operation attempts, reported effects, operation receipts |
| `request`, `visible` | external: every mutation sent (on its way, void, or the object it made) and what the pull request shows; `Land`, `Vanish` happen when GitHub likes |
| `fresh`, `over` | do the facts of the permit still hold; has `reconcileUntil` passed |
| `Look`, `TakeClaim`, `ClaimRefused`, `Proceed` | `executeOperation` up to its claim, with the expiry of the work of the claim it replaces |
| `Reconcile`, `BeginRefused`, `Begin`, `Prepare`, `Send`, `Refused`, `Unanswered`, `Record` | reconcile before retry, begin, gates, mutation and its three kinds of answer |
| `Settle`, `Clean`, `DeleteDuplicates`, `LastLook`, `Complete`, `Compensate`, `Retract` | canonical object, duplicates, the last look at the facts, the receipt, and what is done when the facts have changed |
| `Prove`, `Close`, `CloseConflict`, `CloseUnclaimed` | the proof of no effect and `terminalizeUnknown` with its siblings (`SiblingPlan`) |

Abstracted: freshness of the facts only goes from true to false (a head that moves
back is a new permit); the gates of claim and begin read the same facts and are
one test with their transaction; they and the commands may refuse for any reason
(`ClaimRefused`, `BeginRefused`), as the code treats every failure alike; reports
are ordered by the `observedAt` the application supplies, so a new one may come
before those recorded (`Report` inserts it anywhere); the kinds of effects are one; an operation needs the receipt of the one
before it, not the name of its object.  In the run every operation is required, as
`review-publication-operation-planning.ts:199` plans them; the proofs also cover
optional ones, which the domain allows.  They brought out the one difference: a
publication that succeeds without an optional operation leaves the active try of
that operation in its row (`TriesFollowTheClaim` names the case).

### `CompletionProcess`: from the artifact to the snapshot

The artifacts of one pull request, each with its process row, its publication (as
`PublicationLifecycle` has it), and the snapshot row they compete for.  A worker's
advance is a chain of actions: `Claim`, then `FindPublication`,
`RequestPublication` or `FindReceipt`, `PrepareCommit`, `CommitSnapshot`, and
`Record`.  The claim is compared when the row is read and when the transition is
recorded; in between the worker may have lost it (`Overrun`), and the commit of
the snapshot does not ask for it: version, generation and receipt decide.
`CallFails`, `Crash` and the lost answers of `Answered` are troubles; `Lapse` and
`PruneSnapshot` are the retentions.

The two modules meet in the lifecycle: `publication` shows that the attempt keeps
it, `completion` shows that the process, which reads and requests the publication
between crashes and takeovers, uses it that way.

### `InvocationGrant`: relayed requests of a hosted runner

A runner asks the relay for model calls under one grant.  `grant`, `request` and
`effect` are rows (counters kept by triggers), a `driver` is one HTTP exchange, the
sweeper of the API runs beside.

| Module | Code |
|---|---|
| `Admit`, `Resume` | `authorize` with the admission transaction; a request that was not started is taken up again |
| `SessionFails`, `SwitchAfterResponse` | `failoverCurrentRelayRequest`, from a failed session or from a 401/429 |
| `Prepare`, `MarkDispatching`, `FailBeforeDispatch` | the ledger's reservation before anything is sent |
| `Send`, `ResponseStarted`, `FailureStarted`, `Finish`, `Unknown` | the provider call; `reply` is what the provider did, which the driver may never learn |
| `Refuse` | `open` closing a request without naming an effect |
| `SweepPrepared`, `SweepDispatched`, `SweepOrphan`, `Expire` | `sweepExpired`, attempt by attempt, orphans, and `expireIssuedBatch` |
| `LeaseExpires`, `Crash`, `TimeOver`, `Withdraw`, `Health` | troubles: missed heartbeats, dead processes, and whatever takes authority away |

Abstracted: what `authorize` reads before the admission transaction was good when
the grant was issued and may have changed since, so `Admit` and `Resume` ask only
for what the transaction and its trigger compare, and `Prepare` and
`MarkDispatching` read authority and health again; the backup exists and failover is enabled; an exchange that ends without a change is a
`Crash`; account health changes freely, since accounts are shared.

## Runs

Bounds are constants or a named CONSTRAINT.  "Distinct" is TLC's count.

| Run | Instance | Distinct | What it shows |
|---|---|---|---|
| `execution_leases` | 1 execution, 2 slots, 2 keys, 3 tokens, budget 2 | 282 k | `TypeOK`, `LeaseSlotCoupling`, `HolderIsNewest`, `AttemptsWithinBudget`, `ArtifactMatchesEvidence`, `VersionsMove` |
| `execution_takeover` | 2 executions, 1 slot, 1 key, 2 tokens | 998 k | `LeaseSlotCoupling`, `ReferencesResolve`, `TerminalFrozen`, `AcceptedStays` with reuse, late results and retention |
| `execution_generations` | 3 executions, 2 revisions, no leases | 471 k | `PointersAgree`, `OnlyNewestAdmitted`, `PermitNeverRevives` |
| `execution_recovery` | 2 executions, only recovery fair | 194 k | `RunningEnds` |
| `execution_abandoned` | 1 execution, only recovery fair | | **violated**: `PlannedEnds` |
| `execution_retention` | 2 executions, 1 token, sweeps fair | | **violated**: `RetentionDrains` |
| `outbox_claims` | 2 workers of different releases, 2 events, batch of 2, 2 attempts, 2 troubles | 724 k | `TypeOK`, `ClaimsExclusive`, `ProcessedWasHandled`, `AttemptsAccounted`, `LiveClaimUndisturbed`, `SettledStays` |
| `outbox_delivery` | the same with batches of 1, fair workers | 337 k | `EventSettles` |
| `outbox_poison` | 2 workers, 1 event, no reconciling handler | | **violated**: `AttemptsWithinMax` |
| `publication` | 2 workers, 2 operations (the second needs the object of the first), 2 claims, 3 mutations | 1 049 k | `TypeOK`, `TriesFollowTheClaim`, `NoEffectIsTrue`, `SucceededIsVisible`, `ImplementsLifecycle` (refinement) |
| `completion` | 2 workers, 2 reviews of a pull request, 1 trouble, fair workers | 339 k | `TypeOK`, `ProcessTellsOutcome`, `SnapshotIsEarned`, `SnapshotMovesForward`, `OnePublication` (refinement), `EveryReviewEnds` |
| `grants` | 3 requests, 3 exchanges, budget 3 with 2 at a time, 2 troubles | 1 086 k | `TypeOK`, `BudgetHeld`, `NoEffectIsTrue`, `SentAgainOnlyIfRefused`, `SuccessIsReal`, `NothingAfterUnknown` |

**Why the bounds are enough.**  Three tokens give a lease, its takeover from the
other slot and a third attempt over the budget of two; two slots are what the
incumbent rule relates.  Two executions give an old and a new generation, a
reuse of the other's observation and a late report into the ended one.  Three
generations give a start that is overtaken twice.  Retention stays out of the
first and third run (`Reportable`, `OnTime`) and is in the second.  Two workers
and two events give an event that expires while its batch-mate is handled, its
takeover, and the stale worker coming back; two troubles let a takeover meet a
lost answer.  `MaxClaim` (8) exceeds the claims that attempts and troubles
allow, so no behaviour of `outbox_delivery` stops for want of a version.

In `publication` two claims give a takeover with work of the first claim still on
its way, `Retried` sends the first operation's mutation a second time under the
new claim, and two operations give siblings of every kind: planned, in flight,
proven, completed.  In `completion` two reviews give a newer one that overtakes an
older one at every step; one trouble is a crash, a lost answer, an overrun claim,
or an expiry, each of which brings the second worker in.  In `grants` three requests
compete for two places, three exchanges let a request be retried or driven by a
stale exchange beside a new one, and two troubles are what it takes to lose an
exchange *and* the lease or the authority of another.

**Symmetry and view.**  Slots, keys, executions and revisions are
interchangeable in the runs that declare it (every slot required, no temporal
property).  `RelativeVersions` drops the absolute value of version counters and
keeps whether a remembered version equals the current one: the code compares
versions for equality only, and they only grow; `Relative` of `MCPublication` does the same
for the version of an attempt and forgets owner and deadline of claims that are
over, which no guard reads.  Workers of `publication`, requests and exchanges of
`grants` are told apart by their names only.  Runs with liveness use neither.

**Deadlock** is not checked: executions, tokens and claims are finite, and a
system whose reviews and events are all settled stops.  So do a publication whose
claims and mutations are used up, and a grant whose exchanges have all ended.

**Fairness.**  `ReviewExecution`: deadlines pass, and `FailExpiredRunning` is
weakly fair because the worker's maintenance lists expired running executions on
every tick.  No client is assumed to take another step.  `RetentionSpec` adds the
three sweeps of the same maintenance.  `Outbox`: the worker loop never ends
(`runOutboxWorkerLoop` catches everything and a dead process is restarted), a
handler returns or throws, time passes.  Heartbeats, crashes, lost answers and
manual retries are not fair; their number is bounded by `MaxTrouble`, i.e. the
liveness claim is: if troubles stop, the event settles.  `CompletionProcess`: a worker
that is not killed finishes its advance (`executeClaim` awaits every call and
catches what it throws), a claim whose worker is gone runs out, the maintenance
scans for artifacts without a process, and its due scan is strongly fair for every
process because it takes the longest due first, in batches.  Publications are
*not* assumed to close; `EveryReviewEnds` allows for the open ones.
`PublicationAttempt` and `InvocationGrant` state no fairness: the disagreements
below show that neither always ends.

## Where the code and its documents disagree

* `execution_abandoned`: the plan (`ai-docs/architecture/48-revision-aware-review-evidence-plan.md:942`) promises a
  sweeper that fails abandoned planned executions.  The store has the command,
  nothing calls it.  The scope is not blocked: the next start displaces it.
* `execution_retention`: lease compaction waits for the observation, the
  observation's pruning for the execution's reference, the execution's pruning for
  the lease row.  An execution that accepted an observation of one of its own
  leases is kept for ever.  No safety property depends on it.
* `outbox_poison`: attempts are compared with `maxAttempts` only when a handler
  throws, so an event that kills its worker is requeued and claimed without end.
  `AttemptsAccounted` is what does hold: beyond the budget there are only
  takeovers and retries a handler asked for.

Read in the code and reproduced by the models, not runs of their own (see
`hazards`):

* *A publication that never ends, twice.*  (1) The claim of an attempt has expired,
  is still its active claim, and the facts have changed: a first claim is refused
  by the gate, and the unclaimed close needs an attempt without a claim; every
  pass is retryable for ever.  (2) An operation is proven without effect while its
  sibling is completed: `failed_no_effect` is refused for the sibling's risk, and
  every later pass returns to the proof first.  The plan promises that bounded
  reconciliation ends every attempt
  (`ai-docs/architecture/48-revision-aware-review-evidence-plan.md:3085-3087`, `3284-3286`).
* *A late report changes the canonical object.*  The canonical effect is the one with
  the earliest `observedAt` (`review-publication-attempt.ts:625-634`), a clock reading
  the application takes before the transaction.  A worker that is slow to record, or
  whose clock is behind, makes its object canonical after another worker has settled
  on a different one and is about to delete this object as a duplicate; with a third
  claim the publication succeeds with an object that is gone.  `SucceededIsVisible`
  is therefore stated for reports recorded in order (`late` marks the others).
* *An unknown outcome is final.*  `blocked_publication_unknown` is terminal for the
  process; the plan (`3098-3101`, `3292-3294`) has it resolved by adjudication, for
  which production composes no evidence
  (`review-v2-production-runtime.ts:753-758`).
* *A place in flight is never given back.*  A request whose process dies between
  admission and `prepare` has no effect row, and the sweep for orphans joins on
  effects: it stays open, and `inFlight` above zero, where the runbook waits for
  zero (`ai-docs/operations/01-deployment-model.md:213-216`).  In the model:
  `Admit`, `Crash`, and no action that closes.
* *A completion that names no effect* (`Refuse`) of a stale exchange closes a request
  that another exchange has resumed and reserved an effect for.  The effect then
  ends unknown while the grant stays usable.  A test says the opposite of the case
  it covers (`hosted-codex-quota-failover.test.ts:291`, "never generic-completes
  while an earlier reservation remains unresolved").
* *The sweep stops at an attempt it cannot close.*  An expired reservation of a closed
  request makes the transaction of `sweepExpired` throw, on every tick, before the
  later attempts are reached.
* *A denied failover punishes the wrong account.*  The second of two requests that
  fail on the primary is denied, and the account that is put into cooldown is the
  active one, by then the backup (`Blamed`).
* *A failover ends other streams.*  It changes the active account; heartbeats of
  another request that streams from the primary are refused, its outcome becomes
  unknown and the grant is withdrawn.


Two more about the outbox: takeover is off unless
`REVIEW_ROUTER_OUTBOX_FENCED_TAKEOVER_ENABLED` is `1` (`Takeover` in the model;
without it a crashed worker's events stay in `processing`), and the heartbeat
of a handler that never ends has no bound.

## Proofs

| Module | Theorem | What |
|---|---|---|
| `ReviewExecution_proofs` | `TypeCorrect`, `PointersCorrect`, `AdmissionsNewest` | `TypeOK`, `PointersAgree`, `OnlyNewestAdmitted` |
| `ReviewExecutionLeases_proofs` | `CouplingHolds`, `HoldersNewest` | `LeaseSlotCoupling`, `HolderIsNewest` |
| `ReviewExecutionEvidence_proofs` | `ReferencesHold`, `ArtifactsMatch`, `AcceptedHolds`, `TerminalHolds`, `VersionsHold`, `RefusedForEver`, `BudgetHolds` | `ReferencesResolve`, `ArtifactMatchesEvidence`, `AcceptedStays`, `TerminalFrozen`, `VersionsMove`, `PermitNeverRevives`, `AttemptsWithinBudget` |
| `Outbox_proofs` | `TypeCorrect`, `ClaimsAreExclusive`, `AcknowledgedWasHandled`, `AttemptsAreAccounted`, `SettledHolds`, `LiveClaimsHold` | `TypeOK`, `ClaimsExclusive`, `ProcessedWasHandled`, `AttemptsAccounted`, `SettledStays`, `LiveClaimUndisturbed` |
| `InvocationGrant_proofs` | `TypeCorrect`, `BudgetIsHeld`, `NothingAfterUnknownHolds` | `TypeOK`, `BudgetHeld`, `NothingAfterUnknown` |
| `InvocationGrantEffects_proofs` | `NoEffectIsTrueHolds`, `SentAgainOnlyIfRefusedHolds`, `SuccessIsRealHolds` | `NoEffectIsTrue`, `SentAgainOnlyIfRefused`, `SuccessIsReal` |
| `PublicationAttempt_proofs` | `TypeOKHolds`, `TriesFollowTheClaimHolds`, `NoEffectIsTrueHolds`, `SucceededIsVisibleHolds`, `ImplementsLifecycleHolds` | `TypeOK`, `TriesFollowTheClaim`, `NoEffectIsTrue`, `SucceededIsVisible`, `ImplementsLifecycle` (the refinement, step by step) |
| `CompletionProcess_proofs` | `TypeCorrect`, `ProcessesTellOutcome`, `SnapshotIsEarnedHolds`, `SnapshotMovesForwardHolds`, `OnePublicationHolds` | `TypeOK`, `ProcessTellsOutcome`, `SnapshotIsEarned`, `SnapshotMovesForward`, `OnePublication` (the refinement, step by step) |

They hold for every value of the constants under the named assumptions of the
modules (`None` is no execution, required slots are slots, a positive budget,
natural bounds; a finite set of numbered events, and no worker that both handles
an event and does not know its version; a finite set of requests and a positive
budget; finitely many reviews numbered by their generation; operations numbered so
that they depend on earlier ones only, at least one of them required).

*Pointers.*  `PointersAgree` alone is not inductive: that the prepared execution
is the newest needs `GenerationsAllocated`, that no execution has a generation
the stream has not handed out.  `PointerInv` is the conjunction with the types.
The newest-generation property follows from it at the one step that moves
`active`, because an admission requires `stream.prepared = e`, under the
stream version the start read.

*Leases.*  `LeaseSlotCoupling` relates leases to slots and to the stream's
running execution, so it needs `PointerInv` (ending an execution frees all its
leases, and the stream leaves it), `TokensInOrder` (tokens above the fence are
unused: a grant cannot hit a row in use) and `HoldersRun` (active leases are
provider leases).  `HolderIsNewest` is inductive relative to these: a grant takes
the largest token and in the same step ends the holder of its slot and of its
invocation; every other step only ends leases (`LeasesOnlyEnd`).

*Evidence.*  Every step does one of a few things to a slot (`SlotMove`), an
execution (`VersionMove`) and a lease (`LeaseMove`); `EveryStepMoves` and
`EveryLeaseMoves` show it action by action, and the rest argues from the moves.
`EvidenceInv` adds what the properties do not say: a satisfied slot has no holder
(`SlotFine`), a lease row outlives its observation and its execution outlives it
(`LeaseFine`: this is what makes three independent retention steps safe), and what
a finalization has read is what the execution refers to as long as the version it
expects is the current one (`FinalFine`), from which the artifact is right.
`PermitNeverRevives` further needs `GenerationsDiffer`: the dangerous step is the
supersession of a planned execution, which may set the stream's revision back to
that of an older artifact, but then the stream's generation belongs to the
planned one.  `AttemptsWithinBudget` counts: only an acquisition adds a lease to
`Attempts(e, s)` and only it moves the ordinal (`EveryAttempt`, `EveryOrdinal`).

*Outbox.*  Lemma `Steps` reduces every step to a claim (`Claimed`) or to one of
five things that can happen to an event (`EventStep`: kept, queued, requeued,
recovered, settled by a holder), so the invariants are proved once per case and
not once per action.  `ClaimsExclusive` needs `ClaimsDrawn`: no row has a version
the sequence has not handed out.  `ProcessedWasHandled` needs `HeldMatches` (as
long as a claim is current, the row has the attempts the worker remembers) and
`ReturnedHandled`.  `AttemptsAccounted` needs `WaitingHasAttempt`: a row that can be
claimed has an attempt left, counting the spared ones, which rests on
`HeldMatches` because the worker compares the attempts it remembers and not the
row's.  `SettledStays` and `LiveClaimUndisturbed` follow from what a step may do to a
row (`RowStep`): a row in processing changes by a worker that holds its current
claim and is done with it, and `ClaimsExclusive` says that this is the holder.

*Grants.*  `BudgetHeld` is about a counter that the rows' triggers keep, so the
proof counts: `Counted` says that the counters are the cardinalities of the open
and of the admitted requests; closing removes one element, admission and resumption
add one, and every other step leaves the set alone.  `TypeInv` couples a driver
that has an effect to the row it drives.  `NothingAfterUnknown` needs `Poisoned`
(an unknown request has withdrawn the grant, or the grant is expired) and that a
grant never comes back; then only `MarkDispatching` could dispatch, and it asks for
authority.  The three properties of the second module need the history of a
request, `LedgerInv`: of its attempts only the last may be live, every earlier one
failed without effect or was classified, one that was classified was refused on
the primary and is followed by the backup (`AttemptFine`, `PairFine`), and two drivers never
have the same attempt (`Apart`), which is what makes the word of a slow driver
harmless.  Lemma `Moves` reduces every step to what it does to one attempt.

*Publications.*  The properties speak of rows and of GitHub; what makes them true is
what a worker knows.  `Inv` therefore has, beside the rows (`ClaimsFit`, `TriesFine`)
and the effects (`EffectsFine`), two conjuncts per worker.  `PassFine` is what a pass
may rely on even after its claim is lost: its claim was its own, what it has seen was
created, it never deletes the canonical object it knows, it retracts only once the
facts have changed and never after success.  `RiskFine` is the argument against late
answers: a pass that saw no risk in its operation is, as long as the try it began is
active, the only one that has tried or sent anything for it, so the refusal of its one
mutation proves that nothing happened.  It is kept because two such passes would need
active tries of one claim, and a claim has one owner (`SendKeeps`), because whoever
begins makes the version every earlier look has read an old one (`BeginKeeps`), and
because a takeover makes the tries of the old claim inactive (`TakeClaimKeeps`).
`NoEffectIsTrue` then follows from `Harmless(o) => Unsent(o)`: an operation none of
whose tries is at risk has no mutation that is not void.  `SucceededIsVisible` follows
from `EffectsFine`: as long as the canonical report is the one recorded first
(`InOrder`) and nothing may be taken back - the facts hold, the attempt has succeeded,
or some pass has read the facts for the last time and may still complete (`Sealed`) -
the canonical object, which every later pass settles on (`SettledOn`), is visible.  Most steps only read; one
lemma per action says where the pass goes (`...Fine`), one per transaction or call
what it does to the rows (`...Keeps`), and `PassStays` and `RiskStays` say once, from
what no step takes back (`Moves`), why the passes of the *other* workers stay right.
In the refinement the only step of GitHub that counts is `Land`: a mutation on its way
means a try at risk, hence an outcome that does not deny effects.  TLC found `Inv` to
hold on the instance of `publication`, and on one with an optional operation, before
it was proved.

*Completion.*  `Inv` adds to the properties what a *worker* may rely on after it
lost its claim (`WorkerFine`): what it is about to record (`Told`) was true when it
read it, and facts about a review only become more (`FactsGrow`: artifacts,
outcomes, effects and receipts are written once), so it is still true when it is
recorded, by whomever.  The snapshot moves forward because a commit that writes it
has no receipt yet, while the generation of the snapshot always has one
(`SnapshotFine`).  `OnePublication` is proved as a refinement: initial states map to
initial states of the lifecycle and every step to a request, a touch, a close, or a
stutter of each publication.

Only model-checked: liveness under fairness (`RunningEnds`, `EventSettles`,
`EveryReviewEnds`), since the prover has no support for ENABLED.  Every invariant and
every action property that a passing run checks is also a theorem.

## Assumptions and what is left out

* A transaction under the scope's advisory lock is atomic (`platform/db`,
  `platform/locks`); a repository call of the outbox is atomic.
* A capability or a request replayed with the same idempotency key returns the
  recorded result and writes nothing; replays are stutters and left out.
* Content (findings, prompts, payloads, digests, signatures) is left out; names
  of rows are model values.
* The fingerprint checks that refuse a malformed or foreign command are taken to
  pass: a refused command changes nothing.
* Rows of the outbox from before claim fencing (no claim id) and the database
  trigger that refuses unfenced binaries are left out.

* Publication: `removeStalePendingReviewBeforeMutation` (a pending review of an older
  attempt is deleted before a new one is created), adjudication, planning of the
  operations, markers and bodies, GitHub credentials.
* Executions: the API caps a lease's end at the execution deadline by its own clock,
  the store counts from the database's and compares the two nowhere; a lease may
  outlive the deadline, and may be granted after it.
* Completion: retry delays, wakeups that change nothing, the v1 writers of the
  snapshot row, and the outcome `AlreadyCurrent` of a commit: a snapshot is written
  with the receipt of its execution, and nothing deletes receipts; the expiry test of a transition uses the time its claim was
  executed at, so a claim that runs out during the advance is noticed only when
  another worker has taken the row.
* Grants: issue of grants and selection of accounts, comment-refresh capabilities, v4
  relay turns, historical scopes, canary fault plans, retries of a credential
  generation, the restore reconciler, response size limits.

## Not modelled

Every component the table does not show in bold.  What a later extension would
take up first, and what it would need:

* *Requested intents*: claim, dispatch with an unknown outcome, and recovery, with the
  claim and lost-answer idiom of `CompletionProcess`; linked to `ReviewExecution` by
  the started execution.
* *Invocation flights*: `observe, then acquire, join or wait` is decided on rows that
  `AcquireLease` reads again in its transaction, so a stale observation costs a
  wait, not a second holder (`HolderIsNewest`).
* *Mutation authority and authorizations*: the modules take its answers as facts that
  may turn at any time (`fresh` of publications, `authorized` of grants); the epochs
  behind them are not modelled.
* *Rotating OAuth credentials*: a writeback in steps against a provider that
  invalidates the old token; a module of the size of `PublicationAttempt`.
* *Investigations*: a workflow of its own, mostly content.

The rest is user interface, generated protocol code, provisioning and release
tooling, and CRUD, which is most of the repository's lines and has little state
of its own that several actors change.
