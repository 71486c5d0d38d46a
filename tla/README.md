# TLA+ models of OpenShapeForge

OpenShapeForge is a multi-tenant business platform built by a compiler: YAML
entity definitions become PostgreSQL tables, *Operations*, and REST, GraphQL
and MCP surfaces. The server is `apps/api`: API processes that execute
Operations, and job workers that drain a durable queue. All durable state is in
one PostgreSQL database; processes coordinate through row locks, `skip locked`,
advisory locks, leases and unique indexes, and talk to Keycloak, mail servers
and connected providers.

This directory models the parts whose correctness depends on the order in which
processes, transactions and failures interleave. TLC checks each model on small
instances, TLAPS proves the central results for all instances.

Unless a path says otherwise it is relative to `apps/api/src/`.

## 1. Inventory

| Component | State | Operations | What is hard | What makes it correct |
|---|---|---|---|---|
| **Job queue** `jobs/` | `platform.jobs`; the claim a worker carries; the row lock of its open transaction | enqueue, claim (closes abandoned rows first), lock, admit, handle, settle in the transaction or apart, requeue, mark done, sweep, stop | lease against row lock, lost session, lost COMMIT acknowledgement, crash at any step, attempt refunds | one run at a time; writes of a run applied once; budget kept; a stale claim has no effect; every job leaves the queue |
| **Inbound deliveries** `modules/inbound-*`, `jobs/inbound/`, `operations/durable-worker*` | `platform.inbound_deliveries`, endpoint registrations, the endpoint's advisory gate, the broker's per-process memory | admit, record with its job, authorize, pin, mark, send, answer, un-mark, settle, purge, revoke | crash between mark and send, revocation racing the mark, contract change, claim lost in a limiter's wait | a write that cannot be repeated is sent once; delivery and job agree; no attempt after a revocation |
| **Edit leases and confirmation challenges** `operations/entity/` | `platform.entity_edit_leases`, `platform.operation_confirmation_challenges`, the record's version | acquire, renew, release, validate, consume; issue, consume; guarded update, delete, invoke | `now()` is the start of a transaction that may take effect late; versions run backwards; overlapping uses of a token | no lost update; confirmed content is the content shown; single use; an unexpired lease belongs to its owner |
| **Operation overrides and takeovers** `operations/entity/operation-overrides.ts` | takeover rows with the override's reference | take over, ask the override, store its reference, discard, prepare and close a replay | two calls find one takeover; a call dies between two statements; two replays | the original performed once; one run at a time among the recorded takeovers |
| **Execution receipts** `operations/execution-receipts.ts`, **execution policy** | receipts by idempotency key: running, completed, outcome_unknown | admit, claim, execute, complete, settle, replay an answer, age a claim | concurrent equal keys, a crash between effect and receipt, a lost COMMIT acknowledgement | one effect per key; a success told is that effect |
| **Capability grants** `operations/capability-grant*` | grants with a use count, failed attempts, a lock and an expiry | issue, supersede, resolve, guess, use, revoke, purge | READ COMMITTED under concurrent uses, guesses and issues | a use counted is an effect; every guess counts; an ended grant stays ended |
| **Connector tokens** `connectors/oauth*`, `token-lifecycle.ts`, `store.ts` | installations, sealed token sets, OAuth states, keyring | authorize, callback, refresh, rotate keys, delete | single-use refresh tokens: a call dies after the provider has replaced the one it holds | a newer token set is never overwritten; consent is asked again only when the token is lost |
| **Connector reliability** `connectors/reliability.ts` | rate window, concurrency slots and their waiters, circuit breaker | acquire, wait, abort, call, retry | a slot handed to a waiter that aborts before it accepts | no slot lost or invented; retries are planned to end inside the budget; a waiter proceeds |
| **API keys** `auth/api-key/` | integration and key rows; Keycloak clients and their secrets | create, activate, issue, revoke, disable, reconcile | two systems, no common transaction; two reconcilers; a realm reset | only active integrations have live keys; a disable stands; an orphaned client is swept |
| **Tenant registry** `control/provisioning.ts`, `tenant-registry.ts`, `reconciliation.ts` | `platform.tenants`; Keycloak Organizations | provision, rename, suspend, activate, re-apply | steps in two systems, each may fail; drift | an undisturbed call heals; a re-apply writes no registry data |
| **Organization scopes** `control/organization-scopes.ts` | client scopes, mappers, realm defaults, the registration allow-list | ensure, reconcile | the list is read, edited and written as a whole | one undisturbed pass converges |
| **Sub-organisations** `control/org-unit-registry.ts`, `db/migrations/core-invariants.ts` | `platform.org_unit`, its closure | insert, move, delete; the trigger | moves of different units at once; stale closure rows | the closure is exact, the tree is acyclic and within its depth |
| **Shared read barrier** `db/read-barrier.ts` | one reserved connection and its advisory locks, counted per reader | enter and leave a scope, work inside it | readers share one session; the session is lost; writers fill the pool | no writer commits inside a reader's scope; no lock leaks; a writer is granted its fence |
| **MCP transport sessions** `mcp/transport-sessions.ts`, `session-capacity.ts` | sessions and counters in memory | initialize, end, sweep, close | an initialize fails half-way; `onclose` runs late and twice | capacity is given back once, and comes back |
| Migration chain, invitations and members, rate limits, change events, mail, maintenance | | | | not modelled, see section 6 |
| Compiler, web, admin, Keycloak SPI | none durable | | | not modelled |

How they interact: an admitted webhook writes its receipt and its job in one
transaction; a worker claims the job and, inside the transaction that locks its
row, runs a handler; the inbound handler calls the *durable worker broker*,
which works on its own connections, re-proves the worker's claim at each step
and finally calls an Operation over HTTP; that Operation, like one called by a
user, runs under edit leases and confirmation challenges when its contract asks
for them.

`PROJECT.json` lists every component with its sources and status, and the
hazards at their lines.

## 2. Modules

| Module | Models |
|---|---|
| `JobLifecycle` | what the queue promises whoever enqueues a job: five states, one delivery |
| `JobQueue` | the queue; implements `JobLifecycle` |
| `InboundReceipts` | what an endpoint promises: atomic decisions on open deliveries, final revocation |
| `InboundDispatch` | inbound deliveries and the broker, composed with `JobQueue`; implements `InboundReceipts` |
| `EditLease` | leases, challenges and the guarded writes |
| `KeyedEffect` | what an idempotency key promises, as its life cycle: free, claimed, admitted, done or unknown |
| `ExecutionReceipts` | keyed execution and its policies; implements `KeyedEffect` |
| `Takeovers` | overrides, takeovers and replays |
| `CapabilityGrants` | grants of one subject and recipient |
| `ApiKeys` | integrations in the database and in Keycloak |
| `ConnectorTokens` | OAuth states, token sets, key rotation of one installation |
| `TenantProjection` | one tenant and its root Organization |
| `OrganizationScopes` | client scopes and the registration allow-list |
| `OrgUnitClosure` | the tree of units and its closure |
| `ReadBarrier` | the shared read barrier of one process |
| `ConnectorGovernor` | the reliability policy of one connector Operation |
| `McpSessions` | transport sessions and capacity of one process |
| `JobQueueProofs`, `InboundProofs`, `EditLeaseProofs`, `ReceiptsProofs` | theorems of one component each |
| `TakeoverProofs`, `CredentialsProofs`, `TenantsProofs`, `ResourcesProofs` | theorems of the components of an MC module |
| `MCJobQueue`, `MCInboundDispatch`, `MCEditLease` | instances of one component for TLC |
| `MCOperations`, `MCCredentials`, `MCTenants`, `MCResources` | instances of several |

The last four check components that share no state. A behaviour of such a
module is a behaviour of ONE component, chosen by `part` in the initial state;
the variables of the others stand still. TLC then visits the sum of their state
spaces and not the product, and nothing is lost: a property of one component
cannot tell what the others do. A property that belongs to one part is guarded
by it. The assumptions of a component that is INSTANCEd are stated again as an
`ASSUME` of the MC module, since TLC evaluates only those it EXTENDS.

Operators whose name begins with `Mut` are faulty variants of the definition
that follows them. Nothing uses them; each shows that some property notices
that fault.

### JobQueue

| TLA+ | Code |
|---|---|
| `row` | `platform.jobs` (`db/migrations/jobs.ts`): status, kind, delivery_key, attempts, max_attempts, available_at as `due`, lease_until as `lease`, lease_token, completed_at |
| `worker` | the claim in `runClaimedJob` (`jobs/worker.ts`) and how far the run is |
| `locker` | the row lock held by the handler's transaction (`lockClaimedJob`) |
| `starts`, `applied` | history, read by properties only |
| `Enqueue`, `Claim` | `enqueueJob`, `claimJobs` (`jobs/store.ts`) |
| `NoHandler` ... `SettleApartFails` | `runClaimedJob`, `settleJob`, `settleApart` |
| `Requeue`, `MarkDone`, `Sweep` | `resolveJob`, `sweepDoneJobs` (`jobs/queries.ts`) |
| `Crash`, `SessionLost` | failures of the environment |

A handler is arbitrary: it returns any outcome or throws. What it writes is
`applied`, counted when its transaction commits as `done`. Time is two bits,
`due` and `lease`. A COMMIT is three actions: acknowledged (`Commit`), effective
without acknowledgement (`CommitUnconfirmed`), rolled back (`CommitFails`).
Claim tokens are values nobody holds at the moment (`FreshTokens`).
`claimJobs` is modelled with the limit of 1 the worker uses.

### InboundDispatch

It `EXTENDS JobQueue`: each queue action is conjoined with what happens to the
delivery, and the handler's run is refined into the broker's steps. One action
stands for each database read or write of the broker; `dispatch[w].step` is its
program counter, and the fields beside it are what it read earlier and acts on
later. `gate` and `revoking` are the endpoint's advisory lock taken by the mark
and by the revocation. The mark is two steps, decide and commit, since a
revocation could slip between. `claims` is the process-local set
`dispatchedUnsafeClaims`, lost in a crash. `reached` counts requests that may
have reached the Operation; a limiter's refusal takes one back, because the
limiter answers before the Operation's handler.

A delivery is named by its job. One endpoint and one Operation are modelled;
its contract may be republished at any time (`Republish`). Sealing, signatures
and identity resolution appear as the outcomes they may have (`ResolveFails`,
`AdmissionEnds`).

### EditLease

Each request is one PostgreSQL transaction, in two steps. `Begin` fixes
`now()` and the inputs; the second step does all reads and writes that follow
the first row lock. Between the first lock and the commit nobody changes what
the transaction has read, so one step is enough; between `Begin` and the first
lock anything may happen, and that is where the hazards are.

- Tokens and versions are named by the `now()` of the transaction that made
  them. PostgreSQL's clock ticks in microseconds and two transactions are taken
  to begin at different instants. This is an assumption (see the `numeric_edge`
  hazard); tables with entity-value carriers do not need it, as their version
  is at least one microsecond after the previous one.
- `acquireEntityEditLease` is serializable. Its snapshot is taken at `Begin`:
  the version it stores and the lease row it may replace. A row changed since
  is a serialization failure; a row *deleted* since leaves an insert without
  conflict, and the acquire succeeds with a version that may be gone.
- Error answers, wrong confirmation texts, failed admissions and serialization
  failures are `Abort`: the transaction leaves nothing.
- `rev` counts the changes of a record and `minted` remembers what a token was
  given for. Both are history: the code compares versions, the properties
  compare content.
- Not modelled: preparation of values, record permissions, propagation to other
  records, the collection variant of a lease.

### ExecutionReceipts and KeyedEffect

`executeKeyedOperation` and what surrounds it. A database-only key works in one
transaction, so claim, work and completion are one step; a key in `External`
commits its claim (`Claim`), marks its effects admitted, executes and completes
or settles in separate transactions. Each may fail, and each COMMIT may take
effect without acknowledgement. The advisory lock makes the read of a receipt
and the claim one step. Inputs are fingerprints that are equal or not; the two
policy admissions are decisions that may change at any time. `effects` and
`told` are history. A settlement finds a claim by its fingerprints and not by
its caller: that a caller only ever finds its own is the theorem
`ClaimsAreOwned`.

`KeyedEffect` is the life of a key without receipts, transactions, locks or
acknowledgements: a claim can be given up, a claim whose effects were admitted
cannot, the effect takes place between admission and outcome, and an outcome is
final. Its `slot` is mapped to the receipt together with the flag of its call
(`Slots`). The refinement therefore also fails where no effect is doubled: when
a settlement frees a key or records doubt after the outcome was stored.

### Takeovers

The calls of one operation, record and input. The override itself is external:
`RuntimeOperationOverride` as core uses it, which accepts, completes, hands back
or refuses (`Refuses`), keeps one run for the key it is given, and replays the
original through a service identity. It may answer with a run that has ended
already (`OverrideSettles`), which closes the takeover along with the reference.
Every statement of core is a step.

A refusal or an exception discards the takeover while it has no reference, also
when another call was accepted for it. That call's run then works beside the
next takeover's. `OneRun` therefore says two things: whatever the override
answers, one run at a time among the takeovers that are recorded; and for an
override that never refuses or throws, one run at all.

### CapabilityGrants

READ COMMITTED with row locks: a statement works on what was committed when it
began, and an update that had to wait evaluates its `where` again. Writes are
made visible at commit; until then the transaction holds the rows. A call
resolves the token, counts a use and runs its handler in one transaction; a
wrong secret is counted in one of its own. Which Operations and records a grant
covers is one nondeterministic answer. `effects` and `wrong` are history.

### ApiKeys

The row and its keys, and the realm with one client per integration, whose
secret changes with every creation (`secrets` counts them). Attempts,
administrators and reconcilers run side by side, every request to Keycloak is a
step and may fail, a process may die between two. The code's only defence
against a reconciler that meets a live attempt is the age of the row
(`PENDING_GRACE_MS`): the model takes an attempt to be over when its row has
aged. The realm may be reset at any time.

### ConnectorTokens

Token sets are serial numbers; the provider (external) accepts the newest
refresh token only, and may or may not replace it at a refresh. A refresh holds
the installation's row lock from its read to its commit; a callback writes
without it; `rotateSecrets` reads all rows, then writes each. An abort or a
death may come after the provider's step. `latest` and `lost` are history.

### TenantProjection and OrganizationScopes

Each call is a database transaction and a sequence of HTTP requests to Keycloak,
one step each; every one may fail, after which the call ends. Keycloak is
external: the requests and answers the code relies on. `Drift` is a change of
the realm by others. `alone` is history: it stays true for a call while no
other call and no drift overlaps it. What a call promises, it promises when
alone; section 4 lists what happens otherwise. The alias is the tenant's only
name for its Organization.

### OrgUnitClosure

A writer is a READ COMMITTED transaction with the steps of the control plane
(lock, checks, write) and, in the write, those of the trigger; each statement
reads what is committed by then and what its own transaction wrote. The locks
are those of `FOR UPDATE`, of DELETE, and of the foreign key on the parent.

### ReadBarrier, ConnectorGovernor, McpSessions

State in the memory of one process; an action is the code between two awaits. In
`ReadBarrier` all operations of the manager pass through one promise queue and
are one step each; the advisory locks are those of the one reserved session,
which may be lost, and with it every lock, between any two. Statements fail with
or without effect, the release included, at most `Failures` times. In
`ConnectorGovernor` a slot handed over is accepted only when the waiter's
continuation runs; the backoff is fixed or exponential (`Fixed`), and time may
pass a timer that is due, which then fires late. In `McpSessions` the SDK is
external: it creates the session or refuses the request.

## 3. Runs

| Run | Instance | States | Shows |
|---|---|---|---|
| `JobQueue_safety` | 2 jobs sharing a key, 2 workers, 2 attempts, sweep | 2.1 M | `SingleLiveRun`, `RunsWithinBudget` while no session is dropped |
| `JobQueue_failures` | 1 job, 2 workers, 1 or 2 attempts, handled and unhandled kind, sweep, all failures, fair | 50 k | `TypeOK`, `AppliedAtMostOnce`, `StaleHolderIsInert`, `ImplementsLifecycle`, `EventuallySettled` |
| `Inbound_dispatch` | 1 delivery, 2 workers, 2 attempts, a repeatable and an unrepeatable contract, all failures | 935 k | `UnsafeReachedOnce` |
| `Inbound_operator` | 1 delivery, 2 workers, requeue | 409 k | `DeliveredWithJob`, `ImplementsReceipts` |
| `EditLease` | 2 users, 1 record; update, invoke and confirmed delete under lease, plain writes, 2 transactions | 1.4 M | `LeasedChangeOnLeasedContent`, `ConfirmedChangeOnShownContent`, `ControlsUsedOnce`, `OnlyOwnerEndsLease` |
| `Operations` | 3 calls, 2 keys, 2 inputs; 3 callers, 2 takeovers, 2 replays, with and without refusals | 240 k | `EffectOncePerKey`, `SuccessIsTheEffect`, `KeyPromise`; `OriginalOnce`, `OneRun` |
| `Credentials` | 2 grants, 3 requests; 1 integration, 3 keys, 2 reconcilers; 2 refreshes, 1 callback, 2 installations; 1 refresh and a rotation | 900 k | `UsesAreEffects`, `EveryGuessCounts`, `EndedStaysEnded`; `KeysAreSound`, `DisableStands`, `OrphansAreSwept`; `StoredIsNewest`, `ConsentOnlyIfNeeded`, `KeyRetires` |
| `Tenants` | 2 callers, 2 names; 2 aliases, 1 caller, all drifts; 5 units, 1 writer, depth 4 | 699 k | `AloneHeals`, `AloneKeepsRegistry`; `AloneConverges`; `TreeIsSound` |
| `Resources` | 2 readers, 1 writer, 2 fences; 3 calls, 2 tenants; 3 sessions, 2 users | 1.8 M | `BarrierHolds`; `SlotsAreAccounted`; `CapacityIsAccounted` |
| `Resources_liveness` | the same components, smaller, fair | 86 k | `FencesAreGranted`; `WaitersProceed`; `RoomReturns` |
| `Credentials_rotation` | 1 refresh and a rotation | violation | a rotation restores a spent token |
| `Tenants_cycle` | 4 units, 2 writers | violation | two moves make a cycle |

Bounds, and why they are enough to meet the interesting cases:

- `Tokens` (`MCTokens`, 1..4): two workers hold at most two and two rows record
  at most two, so a fresh one always exists; freed tokens are reused, which
  stands for the unboundedly many random tokens.
- `Budgets`: one attempt reaches the bound at once; two let a first run be lost
  and a second one meet its traces.
- `RequeueBound`: an operator requeues only while fewer requests reached the
  Operation, which keeps `reached` finite. 1 allows a requeue of a delivery
  whose request never left, 2 one whose request did.
- `Stamps` (`MCStamps`, 0..5) with `Ttl` 3: five beginnings of transactions or
  ticks. Enough for acquire, expiry, a takeover by another user and a late write
  of the first, and for acquire, issue, write and a repetition.
- `Txs` (2): each pair of transactions overlaps in each order.
- `Requests` (3) of a key: one executes, one replays or meets the running claim,
  one comes after the settlement. `MaxTime` 2 lets a claim age.
- `UseLimits` {2}, `UseBound` 3, `MaxFailed` 2: two uses race for the last one
  and two guesses for the last attempt; `MaxClock` 2 lets a lock, a window and
  an expiry pass. Many calls of one grant and many grants with one call at a
  time are separate parts, which keeps each complete.
- `MaxSecret` 4: a creation, a reset of the realm and two rebuilds that overlap.
- `MaxSerial` 2, `MaxInst` 2: a token replaced twice, and an installation deleted and
  made again while a call on the old one is in flight.
- `MaxIds` 3: an Organization, its deletion and its successor, and one more.
- 5 units, depth 4: a subtree of depth two moved beneath the deepest place it
  may go to, and beneath one it may not.
- `Pool` 3, `Failures` 2: the writers and the reserved connection leave no slot
  for a reader's own work.
- `Limit` 1, three calls, `MaxTime` 3: a holder, a waiter, and one that
  overtakes or aborts; the window, the breaker and a backoff each run out.
  `MaxAttempts` 3 reaches the doubled backoff.
- `TotalLimit` 2, `ActorLimit` 1, three sessions, `MaxCloses` 2: every limit is
  met and `onclose` runs twice.

Deadlock is checked where the system never stops. The runs that say
`CHECK_DEADLOCK FALSE` bound a clock, the number of calls or the number of names
used up; their models end when the bound is reached and nothing is in flight.

Symmetry is declared over sets whose members no definition distinguishes, and
not in a run with a liveness property. Where one set of model values stands for
the actors of several parts, it is permuted in all of them.

### Fairness

`EventuallySettled` assumes, in `FairSpec` of `JobQueue`:

- `WF(RunStep(w))`: a worker goes on, so handlers terminate and database calls
  return or fail. `runClaimedJob` awaits the handler without a limit of its own;
  a handler that never returns is outside this claim.
- `WF(Start(w))`: a stopped worker is started again by the deployment.
- `WF(LeaseExpires(j))`, `WF(BecomesDue(j))`: time passes.
- `SF(ClaimOf(j))` for each job: `claimJobs` orders by `available_at`, so a row
  that is claimable again and again is not passed over for ever. Weak fairness
  is too weak, since the claims of another row disable it for a moment.

Crashes, lost sessions and lost acknowledgements may happen at any time and any
number of times; attempts run out. One exception is stated in the property: a
host policy that names a later moment for ever gives the attempt back each
time, and such a job may stay.

`FencesAreGranted`: work inside a scope starts or is refused, and ends (weak
fairness); a scope is closed and its lock released although other operations of
the queue come in between, and PostgreSQL grants a lock that is free again and
again, since it queues its waiters (strong fairness); a granted writer commits.
`WaitersProceed`: time passes, a continuation whose promise is settled runs, an
attempt ends within its time-out, a backoff wakes. `RoomReturns`: a silent
session becomes idle, the sweep's interval runs, and building a server and the
SDK's answer end either way.

## 4. Findings

Two runs show a disagreement between the code and what is said of it:

1. **A rotation restores a spent token** (`Credentials_rotation`).
   `rotateSecrets` reads every secret without a lock and later writes each row
   with what it read. A refresh that commits in between is overwritten by the
   refresh token it had spent; the installation needs a new consent. A test says
   of the plaintext that it is "the only thing rotation must not change".
2. **Two moves make a cycle** (`Tenants_cycle`). The lock of a move covers the
   moved unit and its new parent. With two roots that have a child each, each
   moved beneath the other's child, neither transaction meets a lock of the
   other, and neither the check nor the trigger's guard sees the other's edges.
   `org-unit-registry.ts:629` says that "a concurrent move cannot slip between
   the cycle check and the write".

Other disagreements the models show. Each property is stated in its module and
is no part of a passing run. To reproduce the counterexample, add it to the cfg
of its run with the constants named here; for a component that the MC module
INSTANCEs, through a definition there that asks for its `part`, as `TreeIsSound`
does for the closure; an action property is stated of its action
(`[][part = "governor" => G!RetryInTime]_<<part, gVars>>`).

| Property | Where | What happens |
|---|---|---|
| `SingleLiveRun`, `SessionsDrop = TRUE` | `docs/jobs.md:40` | the lock belongs to a session; when the server ends it the handler is not told, and the job runs twice at once. Its writes are applied once (`AppliedAtMostOnce`) |
| `UnsafeReachedOnce`, `RequeueBound = 2` | `operations/durable-worker.ts:53` | a requeue resets `attempts`, by which an earlier dispatch is recognised: attempt 1 sends again |
| `NotDispatchedMeansUnsent` | `docs/inbound-deliveries.md:289` | the limiter's refusal of a later attempt overwrites the `started` of one that was sent |
| `AgedClaimIsUnknown` | `operations/execution-receipts.ts:377` | the update to `outcome_unknown` is rolled back by the exception that reports it; the row stays running |
| `AcceptedIsOpen`, `Refuses = TRUE` | `operations/entity/operation-overrides.ts:403` | the refusal told to one call deletes the takeover another call was accepted for |
| `SupersedeRetires` | `docs/capability-grants.md:209` | two issues that overlap do not see each other's grant; both stay active |
| `RunRepairs` | `auth/api-key/reconcile.ts:27` | a rebuild that dies after the client exists leaves a secret nobody stored, and later runs skip the row |
| `ReauthorizationStands` | `connectors/oauth.ts:220` | a callback stores its tokens without the lock; a refresh in flight overwrites them |
| `Exact`, two writers | `db/migrations/core-invariants.ts:24` | an insert beneath a unit whose ancestor is being moved copies edges that are gone |
| `NotResurrected` | `control/provisioning.ts:175` and `:215` | the status projected last was read first: a suspension in between is undone in Keycloak |
| `ReapplyKeepsRegistry` | `control/reconciliation.ts:13` | a re-apply replays the name of its scan: a rename in between is reverted |
| `EnsureAppends`, two callers | `control/organization-scopes.ts:478` | the list is written as a whole: of two entries added at once one is lost |
| `LiveScopeKept`, two callers | `control/organization-scopes.ts:532` | Organizations are listed before scopes: a scope made in between is taken for an orphan |
| `KeyDeliversOnce`, `Sweeping = TRUE`, two jobs of one key | `jobs/store.ts:166` | the index an enqueue conflicts on is on the job's row, and the sweep deletes done rows (documented in `docs/jobs.md:287`, 30 days by default): the same key enqueued after that is delivered again |
| `RetriesFitBudget`, `MaxAttempts = 3`, `TotalTime = 5`, `MaxTime = 6` | `connectors/reliability.ts:353` | whether the next attempt can complete is asked before the backoff, with its nominal length, and not again after it: a timer that fires late starts an attempt that overruns |
| `NeverRefused`, one caller, `Drifts = {"organization", "scope"}` | `control/organization-scopes.ts:550`, `control/provisioning.ts:226` | a scope deleted in the realm leaves its entry, and Keycloak refuses the list a re-apply writes before it gets to creating that scope again; so does every later one. `AloneConverges` says that this is the only refusal |

## 5. Proofs

Every safety invariant, action property and refinement that a passing run checks
is also a theorem. It holds for every value of the constants that satisfies the
named assumptions: those of the components (`QueueAssumption`,
`DispatchAssumption`, `EditLeaseAssumption`, `ReceiptsAssumption`,
`GrantsAssumption`, `ProjectionAssumption`, `ReadBarrierAssumption`) and those the
MC modules repeat for the components they INSTANCE (`TakeoversAssumed`,
`CredentialsAssumed`, `TenantsAssumed`, `ResourcesAssumed`). They say that null is
no identifier, that budgets and limits are positive, that the readers and
writers of the barrier and the units of a tree are finite sets, and the like.

Four theorems have a hypothesis besides: `~SessionsDrop` (`NoConcurrentRun`,
`BudgetHolds`), `RequeueBound = 0` (`UnsafeOnce`) and one writer at a time
(`ClosureStaysExact`). Each names a
circumstance without which the code breaks the property: section 4 has the
counterexample, except that a dropped session breaks `RunsWithinBudget` in the way
it breaks `SingleLiveRun`, by a handler that starts under a claim it has lost.

The proofs of `MCOperations`, `MCCredentials`, `MCTenants` and `MCResources` are
about behaviours of one component, as `part` says; the invariant of a component
is proved under `part = ...`, for its own constants and not for those of the cfg.

**JobQueueProofs.** `IInv` adds to the types what each phase of a worker says of
its claim (`WorkerShape`), the columns each status has (`RowShape`), that the
holder of a row lock is in the transaction that proved its claim and that the
row still records it (`LockShape`), that a token names one worker and one row
(`TokenShape`), and room in the budget before each claim (`BudgetShape`). None
of the properties is inductive by itself: `AppliedAtMostOnce`, say, needs
`LockShape` to know that a committing run finds its row still running.

- `TypeCorrect`, `ShapeHolds` (`StatusShape`)
- `DeliveredOnce` (`AppliedAtMostOnce`), lost sessions included
- `NoConcurrentRun`: `~SessionsDrop` implies `[]SingleLiveRun`. It needs
  `Attached` as well: a worker in its transaction holds the lock of its row. The
  assumption is necessary, as section 4 shows.
- `Refinement`: `Spec => ImplementsLifecycle`. Each step of the queue is an edge
  of `JobLifecycle` or none (`StepEdge`).
- `StaleIsInert` (`StaleHolderIsInert`), from `IInv`: every settlement compares the
  token under the row's lock.
- `BudgetHolds`: `~SessionsDrop` implies `[]RunsWithinBudget`. A refused admission
  gives its attempt back, so `starts <= attempts` is not inductive; `Owed` adds
  that a claim that has not started yet has one attempt still to spend.

**InboundProofs.** `QueueEmbedded`: `InboundSpec => Spec`. The composition takes
only steps of `JobQueue`, so each theorem about the queue holds of it, as
`DeliveryAppliedOnce` and `DeliveryShapeHolds` record. The obligation that is
not immediate is `Finish`: the outcome the broker decided several steps before
must be one a handler may return. `CallsWellFormed` carries it.

`SettleIInv` says what the broker's steps and the rows know of each other: a call
is made only while its handler runs (`CallPhase`), a delivery whose mark is being
committed is open, active and out of reach of other settlements (`GateShape`),
whoever holds the row's lock finds the delivery as it was resolved
(`StillOpen`), and a delivery is recorded with its job (`Recorded`). From it:

- `DeliveredWithItsJob` (`DeliveredWithJob`)
- `ReceiptsImplemented` (`ImplementsReceipts`): each step, read through the
  refinement mapping, is one of `InboundReceipts` or a stutter.

`UnsafeOnce` (`UnsafeReachedOnce`, `RequeueBound = 0`) rests on `OnceIInv`. The
attempt is what tells one dispatch from another, although a refused admission
gives attempts back: a run that holds its claim has the attempt of its row, a run
that lost it an earlier one, and no two runs of a job share one
(`AttemptShape`). No run that has yet to mark finds its own attempt on the
delivery (`MarkShape`), and a mark in flight is later than any that is read back
(`MarkingLast`). Once an unsafe request may leave, the mark names its attempt, and
every other call either meets that mark or has lost its claim (`FiredShape`);
`PinShape` keeps the contract that decides whether it is unsafe. A requeue
starts the attempts again from zero, which is the finding of section 4.

**EditLeaseProofs.** The heart of `IInv` is `Unused`: the instant of a
transaction that has begun and not yet taken effect is nobody's version and
nobody's token. Versions may run backwards, since a transaction that began
early may commit last, yet the version a change writes is one no lease,
challenge, request or record has carried. So a version that was replaced never
comes back, and equality of versions implies equality of content
(`RequestShape`, `LeaseShape`, `ChallengeShape`).

- `TypeCorrect`
- `NoLostUpdate` (`LeasedChangeOnLeasedContent`)
- `ConfirmedContent` (`ConfirmedChangeOnShownContent`)
- `SingleUse` (`ControlsUsedOnce`)
- `OwnerKeepsLease` (`OnlyOwnerEndsLease`): another user's acquire compares the
  expiry with its own beginning, which is never later than the clock.

**ReceiptsProofs.** `IInv` is the types and, for each call, `Owner` (whoever
executes owns the receipt of its key, with its input, and the receipt is running
unless the call is failing), `Progress` (the flag of admitted effects and the
effect itself follow the phases), for each effect `Recorded` (the receipt of the
call that caused it stands, with its input), and the two properties about unknown
outcomes and told successes. `EffectOncePerKey` alone is not inductive: that a
second call cannot claim a key whose effect is out needs `Recorded`, and that the
receipt it rests on is not freed by another call's settlement needs `Owner`.

- `ReceiptsTypeCorrect`
- `EffectOnce` (`EffectOncePerKey`), `SuccessSound` (`SuccessIsTheEffect`)
- `ClaimsAreOwned`, `UnknownIsHonest`
- `ReceiptsKeepPromise` (`KeyPromise`): each step is one of `KeyedEffect` or a
  stutter. `Progress` says of each phase whether the call's effects are admitted,
  so that `Slots` moves from claimed to admitted with the flag and is freed only
  before; `Owner` and `Recorded` identify the slot a call settles with the call's
  own claim.

**TakeoverProofs.** `OnceInv`: a takeover whose original was performed has a run
that says so and is neither open nor recorded again (`Performed`).
`OneRunInv`, whatever the override answers: at most one takeover is open, and of
the takeovers that are recorded it is the only one whose run may work
(`OneOpen`); a call that closes its takeover knows that the run has ended
(`CallShape`). For an override that does not refuse, `Recorded` adds that the
takeovers of calls and of working runs are recorded. All need only the types of
the rows and of the calls (`RowsTyped`).

- `OriginalPerformedOnce` (`OriginalOnce`), `OneRunAtATime` (`OneRun`)

**CredentialsProofs.** *Capability grants.* `IInv` is the types and `Fresh` (a
grant that was not issued has no traces), `Locked` (a row lock has one holder, and
that transaction is in the phase that takes it), `Counted` (uses and failed
attempts of a row are its history, and it is consumed or locked exactly at the
limit), `Holds` (what a request resolved under its lock is still what the row says)
and `Supersedes` (an issue has matched only rows it holds).

- `TypeCorrect`
- `UsesCounted` (`UsesAreEffects`), `GuessesCounted` (`EveryGuessCounts`)
- `EndedForGood` (`EndedStaysEnded`)

*API keys.* `KeysInv` relates row, client and attempt of each integration
(`RowsSound`: an attempt that activates has stored its secret, a live key has an
active row) and says what a reconciler that read the rows long ago still knows
(`RunsSound`: a row it sweeps is past the grace window, and an orphan it saw is
still to be visited, reported or gone).

- `KeysSound` (`KeysAreSound`), `DisablesStand` (`DisableStands`)
- `OrphansGone` (`OrphansAreSwept`)

*Connector tokens.* `TokensInv`: a caller inside its transaction has the lock and
presents the token the provider expects, unless a replacement was lost
(`CallersSound`), and a callback that has exchanged its code has the first token
of a grant nobody else has seen (`CallbacksSound`), so that storing it without the
lock never makes the stored token an old one. `RotationInv`: what is in flight is
sealed with the active key (`Sealed`), and a sweep that has not written yet saw
the row while it needed rotation (`SweepSound`).

- `NewestIsStored` (`StoredIsNewest`), `ConsentIsNeeded` (`ConsentOnlyIfNeeded`)
- `KeyIsRetired` (`KeyRetires`)

**TenantsProofs.** *The projection.* `IInv` is the types, `ShapeOf` (what each
phase of a call has read and holds) and `Solitary`: a call that is still alone
knows the registry and the realm as they are, to the extent its phase has read or
written them. The last step of an undisturbed call then leaves both in agreement.

- `TypeCorrect`
- `CallsHeal` (`AloneHeals`), `ReapplyIsReadOnly` (`AloneKeepsRegistry`)

*The scopes.* `ScopesInv` is of the same form. What an undisturbed reconciliation
knows (`AloneKnows`) grows with the lists it has worked off: scopes that are not
on the list any more are mapped, attached and allowed, and the one at hand exists.
So a list that Keycloak refuses holds an Organization's entry that was there before.

- `ReconciliationConverges` (`AloneConverges`)

*The tree.* `TreeInv`: the closure has the distances of `parent` and no row
besides (`Tree`), nothing is deeper than the cap (`Shallow`), and the transaction
under way has checked and written what its phase says (`UnitTx`, `UnitWrites`).
`TreeIsSound` compares the closure with paths of any length, so the proof
needs induction over a natural number. It is done with the least counterexample
(`LeastNat`, `Induction`): a property is a set of naturals, and no theorem with an
operator for a parameter is needed. The lemmas `UnitInserted`, `UnitMoved` and
`UnitDeleted` say what the three writes of the trigger make of a tree; `ShortPath`
and `ManyAncestors` relate depth to the number of ancestors, by which the code
computes it.

- `ClosureStaysExact` (`TreeIsSound`), for one writer

**ResourcesProofs.** *MCP sessions.* `SessionsInv`: the counters are the numbers of
sessions that initialize or live, within every limit, and a session has given
its capacity back exactly when it has ended (`Counters`, `Lives`).

- `CapacityHolds` (`CapacityIsAccounted`)

*Connector calls.* `CallsTyped`: calls are records whose times are numbers. `Slots`
adds for each tenant (`Accounted`) that the
queue holds distinct waiting calls, that the counter is the number of calls that
hold a slot, and that calls wait only while it is at the limit. The work is in the
hand-over: the end of a call grants its slot to the first of the queue, and an
aborted signal takes any number of calls out of the middle of the queues (`Without`)
while others of the same signal give their slots back.

- `SlotsBalance` (`SlotsAreAccounted`)

*The read barrier.* `BarrierInv`: the references of the reservation are the scopes
inside (`ScopesCounted`); a lock is held on a session that stands, for a fence the
reservation tracks, and against writers, and while the session stands each scope
inside is fenced (`LocksStand`); work belongs to a scope inside, which has read at
most the version its fence protects (`ScopesSound`). A lost session takes every
lock and leaves the references: the invariant says which of its parts survive.

- `BarrierStands` (`BarrierHolds`)

**Only model-checked.** Liveness: `EventuallySettled`, `FencesAreGranted`,
`WaitersProceed` and `RoomReturns`. It rests on fairness and so on ENABLED, which is
out of the prover's reach.

## 6. Not modelled, and why

The models cover the coordination logic of `apps/api`. Most of the repository is
something else: the compiler and its generators (pure functions over large
documents, at build time), the surfaces generated from them, the web and admin
applications (no durable state). Further:

- the operation runtime's validation, projection and dispatch: request-scoped,
  no state beyond the components above;
- extension fields and linked records: schema changes of a tenant at run time;
- invitations and members: row locks around Keycloak calls, one membership at a
  time;
- the migration chain: applied under one advisory lock at start-up;
- MCP connection tokens: the state machine of `ConnectorTokens` over another
  table, whose row lock also covers the tokens;
- API key resolution and exchange: reads of the rows `ApiKeys` models;
- rate limits: one atomic script in a store, skipped when the store fails;
- entity change events and update notices: best effort, nothing is promised;
- mail and maintenance: instances of the queue's arbitrary handler; SMTP is I/O;
- of the inbound endpoint: registration, signature verification, sealing.

## 7. Plan

1. Done: the queue, its lifecycle and proofs; inbound dispatch over it; edit
   leases and challenges with proofs; receipts with their abstract specification
   and proofs; takeovers; grants with proofs; connector tokens and reliability;
   API keys; the tenant registry with proofs, scopes and the tree of units; the
   read barrier and MCP sessions with liveness.
2. Next: takeovers composed with `EditLease`, whose controls a takeover consumes;
   extension fields (a rebuild racing a deprecation, an abandoned unique index);
   invitations; two hosts that bootstrap one database.
3. Proofs, done: every safety property of a passing run. Next: the alternatives
   of section 4 with the hypothesis under which they hold (`SupersedeRetires` for
   issues that do not overlap, `AcceptedIsOpen` for overrides that do not
   refuse, `EnsureAppends` for one caller), and the types of the components that
   have no `TypeCorrect` of their own.
