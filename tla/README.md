# KYA Agent Registry: models, model checking and proofs

This directory specifies the agent registry in `src/` in TLA+. It models the
requests that can disturb each other through the database (registration, status
changes, lookups), listing, the keys a registration stores, the layers a request
passes, tokens and rate limits, the connection pool, and the way from a set of
environment variables to a serving instance. TLC checks all of it on small
instances; TLAPS proves the main safety theorems for any number of requests,
agents, keys, clients, connections and instances.

## 1. Inventory of the system

| Component | State | Operations | Code (under `src/src/`) |
|---|---|---|---|
| Agent aggregate | status, `updated_at`, key flags of one object | `register`, `suspend`, `revoke`, `activate` | `domain/entities/agent.py`, `use_cases/update_agent_status.py` |
| Agent store | tables `agents`, `public_keys`; one session per request | `get_by_id`, `get_by_key_id`, `save`, commit, rollback | `infrastructure/db/`, `core/database.py` |
| Registration | none of its own | validate keys, build the agent, save | `use_cases/register_agent.py` |
| Status update | none of its own | load, transition, save | `use_cases/update_agent_status.py` |
| Lookups | none | get, verify a signature | `use_cases/get_agent.py`, `use_cases/verify_agent_key.py` |
| Listing | none; a client keeps its offset | one page of agents | `use_cases/list_agents.py`, `PostgresAgentRepository.list` |
| Key validation | the key rows | refuse private keys, check algorithm, fingerprint, verify | `infrastructure/crypto/key_verifier_service.py`, `domain/entities/public_key.py` |
| Middleware, exception mapping, routing | none | hand a request in, add headers, turn exceptions into answers | `core/middleware/`, `main.py`, `presentation/api/` |
| Rate limiter | a deque of timestamps per (route, address) | `is_allowed`, `reset` | `core/middleware/rate_limit_middleware.py` |
| Authentication | none (tokens are signed) | issue a token, decode it, check roles | `core/security.py`, `endpoints/auth.py`, `presentation/api/dependencies.py` |
| Connection pool | connections, idle or held by a session | check out, return, discard | `core/database.py` |
| Health probes | none | `SELECT 1`, 503 | `endpoints/health.py` |
| Configuration, lifespan | settings; the tables in development | start-up checks, `create_all` | `core/config.py`, `main.py` |
| Migrations, deployment | the version table | pre-deploy script, `upgrade head` | `src/alembic/`, `src/scripts/pre_deploy.sh` |

How they interact: a request passes three middleware layers to the router, which
runs the dependencies (token, roles, a session) and the endpoint. The endpoint
depends on a use case, the use case on a repository, the repository on a session
that `get_db_session` opens, commits after the handler, or rolls back when
anything raised, and that takes a connection of the pool with its first
statement. All requests share the database and one event loop; every `await` of
a statement lets other requests run. The two rate-limited endpoints share the
limiter's store.

What is hard in it:

* **Interleaving and stale state.** `get_by_id` reads without a lock, the
  object is changed in memory, `save` selects the row again and SQLAlchemy
  writes what differs from what *that session* loaded. Nothing compares
  versions, so a second PATCH may overwrite the first.
* **The identity map is weak.** Whether the second SELECT of `save` refreshes
  the row and the flags of its keys depends on whether the first instance is
  still referenced.
* **Ways out.** A handler may raise with a working connection and a row lock in
  its hands, lose the connection, or be cancelled; `get_db_session` closes the
  session on each way out.
* **Waiting.** Registrations insert key rows in the order of the payload under
  a unique index: they wait for one another, in circles too. Each waiting
  request keeps its connection.
* **Partial failure.** A conflict, a lost connection or a restart between two
  statements, or between commit and answer; an outage that leaves dead
  connections in a pool that does not test them.
* **Order of commit and answer.** `get_db_session` commits where its dependency
  is left; FastAPI before 0.118 leaves it before the answer is sent, later
  versions after. `requirements.txt` admits both.
* **Pages.** Each page of a list is a query of its own by LIMIT and OFFSET.
* **Time.** The boundaries of the limiter's window; a token's expiry, which is cut
  to whole seconds. (The limiter reads its clock before it takes its lock, which
  would matter to threads; the service calls it from its one event loop.)
* **Layers and validators in sequence.** Private-key guard, validation and check
  constraint; three middleware layers; script, Alembic and settings: each sees
  what the one before let through, with a notion of its own.

Correctness per component: the stored agents behave like the aggregate; a
revocation is final and seen by later verifications; keys and status agree; a
status change answered with success was carried out; a registration is stored
whole or not at all and no key changes hands; an answered registration can be
read; every request ends; contention leaves a winner; a listing misses and
repeats nothing without a cause; every stored key is a public one and verifies
its own signatures only; every failure keeps its documented answer; the limiter
admits no more than its limit and refuses no one without cause; valid tokens are
bounded; no connection and no row lock leaks, however a request ends; whoever
serves has its tables, and a sound release ends up serving.
The hazards behind them are listed, each at its line, in `PROJECT.json`.

## 2. Modules

```
AgentEntity        the aggregate, as operators
  AgentLifecycle   abstract: every stored agent is an aggregate
  AgentStore       tables, sessions, commit, answer, faults
    StatusUpdate   PATCH /agents/{id}/status
    Registration   POST /agents
    Lookup         GET /agents/{id}, POST /agents/verify-signature
      Registry     their composition, properties, inductive invariant
        MCRegistry, RegistryProofs, AnswerProofs
  Listing          GET /agents, page by page
    MCListing, ListingProofs
KeyLedger          abstract: who owns which key
KeyValidation      what is checked and stored of a key, how it verifies
  MCKeyValidation, KeyValidationProofs
HttpPipeline       middleware layers, router, exceptions
  HttpPipelineProofs
RateLimiter        the sliding-window store
  AuthGate         the two limited endpoints and the tokens behind one of them
    MCAuthGate, AuthGateProofs
SessionPool        connections and the sessions that hold them
  MCSessionPool, SessionPoolProofs
Deployment         settings, pre-deploy, migrations, start-up
  MCDeployment, DeploymentProofs
```

`Registry` composes the request handlers over one store; `AuthGate` composes the
token endpoint and the verification endpoint with the limiter, and its
specification is proved to refine the limiter's. The other modules meet at what
they leave open to each other: `KeyValidation` is what happens inside `Refuse` and
`Arrive` of a registration, `SessionPool` what is behind `DbFault` and the lock
waits, `HttpPipeline` what becomes of an exception.

### Correspondence to the code: Registry

* `status`, `updated`: columns of `agents` (`"ABSENT"`: no row). `owner`,
  `live`: `agent_id` and `is_active` of `public_keys`. `updated_at` is the name
  of the request that set it, because only equality with what a session loaded
  matters.
* `input`, `pc`, `reply`: one HTTP request: what it carries, how far its
  coroutine is, what its client is told. A request runs once. A retry of a
  client is another request. A registration's fresh ULID is the request itself.
* `entity`, `base`: the domain object a handler works on, and the values its
  session loaded. A flush writes their difference, column by column and key row
  by key row (`WrittenLive`, `Commit`).
* `inserted`: how many of its key rows a registration has inserted and not
  committed.
* `before`, `missed`, `faults`: history and the fault counter. `before` is the
  set of requests answered with success when a reader arrived; `missed` the
  requests that committed a change to the agent a PATCH has loaded.

| Action | Code |
|---|---|
| `Arrive` | a client sends a request (external) |
| `Refuse` | authentication, roles, validation, key checks, rate limit |
| `Load`, `PatchNotFound`, `PatchConflict` | `get_by_id`, the 404 and the domain exception of `UpdateAgentStatusUseCase.execute` |
| `Save` | the second SELECT of `save` and the copying of attributes |
| `Flush` | `session.flush()`: UPDATEs that wait for row locks |
| `InsertAgent`, `InsertKey`, `InsertConflict` | `save` of a new agent, row by row, and the `IntegrityError` |
| `DeadlockAbort` | PostgreSQL fails one of a circle of waiting statements |
| `Get`, `Verify` | the readers, in one step: each runs one SELECT |
| `Commit`, `Reply` | `get_db_session` after `yield`, and the answer, in the order given by `CommitBeforeReply` |
| `DbFault`, `Crash` | a failing statement, commit or connection; a restart |

### Correspondence to the code: the other modules

* **Listing.** `status`, `created` are the table; `query`, `offset`, `page`,
  `seen` one client's walk. `ReadPage` is one GET with its LIMIT and OFFSET;
  `Register` and `ChangeStatus` are commits of other requests in between, in any
  order of `created_at` (it is read from the clock long before the commit). Ties
  in `created_at` come in another order with every query.
* **KeyValidation.** `payload`, `validated` are the locals of
  `RegisterAgentUseCase.execute`, `stored` the rows. `CheckKey` is one turn of its
  loop; `Save` is the insert with the check constraint and the unique index. A
  PEM text is a record of what the code can tell of it.
* **HttpPipeline.** `depth` and `inward` say where the request is among the
  layers, `raised` and `response` what is on its way out, `spent` the limiter's
  admissions. `Enter`, `Leave` are `dispatch` before and after `call_next`;
  `RouterRefuses`, `Endpoint` are the two ways a request ends at the router.
* **RateLimiter.** `Sample` and `Decide` are `is_allowed` before and under its
  lock; `Reset`, `Restart`, `Tick` speak for themselves. `log` is a history
  variable: the admissions since the last reset or restart, since both give
  every client a new budget.
* **AuthGate.** `Login` is POST /auth/token (the limiter's `Decide`, then a
  token), `VerifySignature` the other limited endpoint, `Valid` what
  `decode_access_token` says of a token. `tokens` is history: the service itself
  keeps nothing.
* **SessionPool.** `link`, `holder` are the pool, `lock` the row lock of one agent,
  `pc` a request's way through `get_db_session`. `Raise` is an exception in the
  handler (503 for a probe's statement), `Rollback` the `except` and `finally`.
  There are three ways to `Rollback`: `Fail` (the connection is dead), `Reject`
  (no such agent, an error of the domain, a statement PostgreSQL refuses, all on a
  working connection and perhaps with the row locked) and `Cancel` (a
  `CancelledError`, which only the `finally` sees, and which may cost the session
  its connection in the middle of a statement).
* **Deployment.** `env` is the environment of the current release, `phase` the
  pre-deploy script, `schema` what the database holds, `inst` the instances.
  `Accepted` and `Loads` are `Settings()` and the engine, which needs a driver that
  `requirements.txt` installs: asyncpg only. `PreDeploy` and `Upgrade` are the script
  and Alembic; the script runs once for a release and ends `passed`, `failed`, or
  `cut off` by an outage. `Start` and `CreateAll` are the lifespan in its two steps.
  What does not load, or finds no database, exits; `docker-compose.yml`
  (`restart: always`, with ENVIRONMENT=development) starts it again, and nothing in
  the repository does so in production (`Restarted`).

### Abstractions

* Answers of the registry are `ok` (200, 201), `notfound` (404), `conflict` (a
  domain rule: 400), `refused` (400, 401, 403, 422, 429 before the database is
  used), `error` (500) and `lost`. A verification is `ok` when the signature was
  checked, whatever came out. Status codes and error names are in `HttpPipeline`.
* The UPDATEs of one PATCH are one step. They go to rows in a fixed order
  (agents, then keys by primary key), so two PATCHes cannot deadlock, and
  nothing of them is visible before the commit.
* One choice, `kept`, covers the weak references of the identity map for an
  agent and its keys together. Both values are explored in every run.
* The isolation level is PostgreSQL's default, READ COMMITTED: each SELECT sees
  what is committed when it runs.
* Manifest, names and descriptions do not influence control flow and are left
  out; so is `expires_at` of a key, which is stored and returned and never
  compared with anything.
* `HttpPipeline` has one request in flight: the layers keep no state, and what
  requests share (the limiter's budget, the database) is the subject of the
  other modules. Its limiter is a counter that a passing window clears.
* Time is counted in ticks. The monotonic clock of the limiter and the wall
  clock of the tokens advance together: a wall clock that is set back would
  lengthen lifetimes, and nothing in the code defends against it. `iat` is in
  the past.
* `AuthGate` and `HttpPipeline` limit always: `RATE_LIMIT_ENABLED`, which is on by
  default, is not switched off in them.
* `SessionPool` has one contended row. A lock that PostgreSQL releases because it
  lost the connection is free at once, and a dead connection is noticed by the
  next statement on it; a half-open one, whose server is silent, is not modelled.
* `Deployment` has one database, and settings by the classes the code tells apart.
  A release replaces all instances at once, so that a rolling deploy, with two
  releases side by side, is not covered. That the platform runs the pre-deploy
  command before it starts a production instance, and once, is an assumption
  taken from `docs/RENDER_DEPLOYMENT.md:40`. What `src/docker/init-db.sql` prepares lies outside the
  search path of the service and is left out.

Operators marked *Slip* are plausible mistakes in the definition that follows
them. No specification uses them; they are there so that each property can be
shown to notice one.

## 3. Runs

| Run | Configuration | Checks | Result |
|---|---|---|---|
| `PatchRaces` | 3 requests, all status changes of one two-key agent, overlapping, 1 fault | `TypeOK`, `IsolatedSaveIsExact`, `RevivalNeedsStaleRead`, `SplitsNeedStaleRead` | hold |
| `SerialPatches` | 3 requests: status changes of a seeded and a new agent, verifications, a registration; clients wait for the answer; 1 fault | `KeysFollowStatus`, `RevocationIsEffective`, `RevokedIsTerminal`, `StoreIsAggregate`, `AcceptedTargetIsReached` | hold |
| `Registrations` | 3 requests, 4 keys, payloads that cross, form circles, repeat a key, take one after one or two free ones; readers; 1 fault | `RegistrationIsWhole`, `ReadYourRegistration`, `ContentionLeavesAWinner`, `KeysNeverChangeHands` | hold |
| `Progress` | 3 requests, blocking workload, answer before commit, fair | `NobodyIsStuck`, `EveryRequestEnds`, `AcknowledgedIsStored` | hold |
| `RateLimit` | a token client and a verification client, limit 2 in a window of 2, tokens of 4 ticks, clock to 5, 1 restart | `GateTypeOK`, `NeverOverLimit`, `RefusalsAreEarned`, `ValidTokensAreBounded`, `LifetimeIsKept` | hold |
| `Pages` | 3 agents of 2 organizations, 3 times, pages of 1 and 2, 4 filters | `TypeOK`, `MissedOnlyIfMovedUp`, `RepeatedOnlyIfMovedDown` | hold |
| `KeyChecks` | one key pair of each of 7 kinds in 13 texts, payloads of up to 2 keys, up to 4 rows | `TypeOK`, `GuardSparesTheConstraint`, `StoredKeysVerify`, `FirstFaultDecides` | hold |
| `Pipeline` | every kind of request, a budget of 2 | `TypeOK`, `AllowedOriginsReadErrors`, `LookupsArePaidFor`, `FailuresKeepTheirNames` | hold |
| `Pool` | 2 writers of one row, a reader, a probe; 2 connections, 1 of them overflow; 1 outage; any request refused or cancelled anywhere; fair | `TypeOK`, `NothingLeaks`, `OutageIsPaidOnce`, `EveryRequestEnds` | hold |
| `Releases` | 2 instances, 2 releases with any environment, 2 outages or crashes; fair | `TypeOK`, `ServingHasTables`, `PassedReleasesLoad`, `SoundReleasesServe` | hold |
| `Overlap` | 2 overlapping status changes | `RevokedIsTerminal` | **violated** |
| `Headers` | every kind of request, a budget of 1 | `EveryResponseSecured` | **violated** |

### Why these bounds

* *Registry.* Faults (`MaxFaults`) count crashes and database failures together.
  Three requests are enough for a writer, a conflicting writer and an observer,
  and for circles of two and of three waiting registrations; two keys tell a
  partly written agent from a whole one; four keys (one of them seeded) allow a
  circle of three. Request names are symmetric in the safety runs.
* *RateLimit.* A clock of 5 (`MaxTime`) spans two windows of two ticks and the
  lifetime of a token and its end; a second has two ticks, so that tokens are
  issued within one. One handler is enough, because calls on the event loop do
  not interleave; two clients show that budgets are apart.
* *Pages.* Three agents make walks of up to four pages of one, and the smallest
  case in which an agent is passed over because another one moved.
* *KeyChecks.* Two keys in a payload order a private and an invalid one both
  ways; the second payload meets the rows of the first (`MaxKeys`, `MaxRows`).
* *Pool.* More requests than connections, more connections than the pool keeps:
  exhaustion, overflow, a lock wait that holds a connection, and an outage
  (`MaxOutages`) that kills both. Refusals and cancellations need no bound, each
  request ends once.
* *Releases.* Two instances race for `create_all`; one further release
  (`MaxReleases`) may change anything: a development database becomes
  production's, a sound release follows a broken one and the reverse. Two faults
  (`MaxFaults`) are an outage in the script and a crash behind it, or two crashes
  that bring both instances into `create_all` again.

`ContentionLeavesAWinner` has a hypothesis that an attempt to prove it has found:
every payload that can hold a key while it waits for another (`CanBlock`) could
succeed alone. Without it a registration of k3, k2 and a taken k1 deadlocks with
one of k2 and k3, which PostgreSQL may abort, and then fails at k1, so that
nobody wins; the workload of `Registrations` has that payload. `NobodyIsStuck`
says with guards (`CanGoOn`) what `ENABLED` cannot say in a theorem; that these are
the guards of `Serve` is checked by `tlc -config Guards.cfg MCRegistry.tla`.

Deadlock is checked except where the system may stop: `Pages` ends with the walk,
`KeyChecks` with the bound on rows, and the configurations of `MCDeployment` with a
release that has failed, when there is no further one. In the registry `Quiescent`, and in the pool
`Done`, stand for the end of all requests, the only place to stop.

### Disagreements between the code and its documentation

Two are runs of the table:

* **Overlap.** A PATCH loads an agent, a REVOKED PATCH of the same agent
  commits, then the first one saves: whatever it asked for, unless that is
  REVOKED too (in the shortest trace it is PENDING_VERIFICATION, which asks for
  nothing), the agent has left REVOKED
  and its keys are active again. The README says `ACTIVE ↔ SUSPENDED → REVOKED` (`src/README.md:36`),
  the domain test that a revoked agent can be neither activated nor suspended
  (`src/tests/test_domain.py:89`).
  `RevivalNeedsStaleRead` says that there is no other way out of REVOKED.
* **Headers.** The layer that adds the security headers is added first and is
  therefore the innermost. Whatever the exception layer answers (a 404 for an
  unknown agent, a 500) leaves without them, although `main.py:72` calls the layer
  outermost and "applied to every response". Preflights are left out of the
  property; CORSMiddleware answers those before either layer.

The others are kept as configurations beside the runs, each with one property
that TLC refutes, for instance with `tlc -config Paddings.cfg MCKeyValidation.tla`:

| Configuration | Module | Property | What it shows |
|---|---|---|---|
| `NoOpPatch` | `MCRegistry` | `EveryTargetIsReached` | A PATCH to `PENDING_VERIFICATION` changes nothing and is answered 200 (`update_agent_status.py:17-22`). The schema's field accepts all four values; its description (`agent_schemas.py:64`) names the three that `AcceptedTargetIsReached` covers. |
| `ReadAfterWrite` | `MCRegistry` | `ReadYourRegistration` | With a FastAPI that answers before it leaves dependencies, a client that was told 201 can be told 404; `tests/test_api_integration.py:44-45` expects its agent. `AcknowledgedIsStored` says that this ends. |
| `RateLimitThreads` | `MCAuthGate` | `RefusalsAreEarned` | Two threads may append timestamps out of order; eviction stops at the first that is young enough, so an expired one behind it still counts. `rate_limit_middleware.py:33` says "Thread-safe". The service calls the limiter from one loop only. |
| `Fingerprint` | `MCKeyValidation` | `CanonicalFingerprint` | One key written with other line ends has another `key_id`, and two agents may register it; `public_key.py:23` calls the fingerprint canonical. |
| `Paddings` | `MCKeyValidation` | `DocumentedPaddings` | RSA signatures with PKCS#1 v1.5 padding never verify; `src/README.md:42` lists them. |
| `LocalSetup` | `MCDeployment` | `DefaultsServe` | `src/README.md:149-158` installs `requirements.txt`, starts uvicorn and says that the server will be running; the default URL (`config.py:27`) needs aiosqlite, which `requirements.txt` does not list, so that `database.py:15` raises at import. The template `.env.example` that the README copies is not in the repository. The property is a liveness property, refuted under the fairness below. |
| `ExplicitOrigins` | `MCDeployment` | `OriginsAreExplicit` | A production instance serves on the localhost default of `CORS_ORIGINS`; `config.py:38` says "Production requires explicit origins", and `docs/RENDER_DEPLOYMENT.md:57` calls the variable required. |
| `JsonOrigins` | `MCDeployment` | `JsonOriginsAreUnderstood` | A JSON array in `CORS_ORIGINS` is split at its commas, brackets and quotes included; `config.py:67` says "Accept list (from env as JSON array)". |

### Fairness

* *Registry.* `FairSpec` assumes weak fairness of `Serve(r)` for every request
  `r`: the event loop resumes a coroutine whose awaited statement has returned,
  PostgreSQL grants a lock once it is free, and it fails one of a circle of
  waiting statements (its deadlock timeout). A lock wait disables `Serve(r)`; it
  must end because the holder's own `Serve` goes on. Nothing is assumed of
  clients, faults or crashes: `Arrive`, `DbFault` and `Crash` have no fairness.
* *SessionPool.* Weak fairness of `Step(r)`: every coroutine runs on, and the
  timeout of a checkout (`CheckoutFails`) is one of its steps. Nothing is assumed
  of `Outage` and `Recover`: requests end even if the database never returns.
  `Interrupt(r)` (a refusal, a cancellation) is outside the fair step: nobody has
  to be refused, and a request must not depend on it to end.
* *Deployment.* Weak fairness of the script of a production release (the platform
  runs it, once: no phase but `none` and `migrating` lets it go on), of the end of
  an outage, and of `Start(i)` and `CreateAll(i)`. Starting again is left to
  `Restarted`: what has exited in production stays so. Faults are bounded, nothing is
  assumed of `Configure`, `Stop` and `Outage`. `SoundReleasesServe` has the form
  `<>[]unhindered => <>[]serving`, and `Unhindered` names all that may stop a sound
  release: a script cut off by an outage, an exited production instance, a
  production database that `create_all` has set up, and a percent sign in a
  production URL.

## 4. Proofs

Every theorem holds for arbitrary constants that satisfy the named assumptions
of its module; those say that names are distinct and sets finite where they are
counted, that bounds are natural numbers, that limits and windows are positive,
that a pool keeps at least one connection, and that a private block is introduced
by the words "PRIVATE KEY". Every inductive invariant was first checked by TLC.

| Module | Theorem | Says |
|---|---|---|
| `RegistryProofs` | `TypeCorrect`, `Inductive` | `[](TypeOK /\ Staged)`, `[]IInv` |
| | `WholeRegistrations` | `[]RegistrationIsWhole` |
| | `LedgerImplemented` | `Spec` implements `KeyLedger` |
| | `ExactSaves`, `RevivalExplained` | `IsolatedSaveIsExact`, `RevivalNeedsStaleRead` |
| | `SerialRevocationIsTerminal` | `RevokedIsTerminal`, if clients wait for the answer and answers for the commit |
| | `SerialStoreIsAggregate` | `Spec` implements `AgentLifecycle`, under the same two assumptions |
| `AnswerProofs` | `RegistrationsAreRead` | `[]ReadYourRegistration`, if answers wait for the commit |
| | `TargetsAreReached`, `KeysAgreeWithStatus`, `RevocationsAreEffective` | `AcceptedTargetIsReached`, `[]KeysFollowStatus`, `[]RevocationIsEffective`, if clients wait as well |
| | `SplitsExplained` | `SplitsNeedStaleRead`, in both modes |
| | `ContentionHasWinner` | `[]ContentionLeavesAWinner`, in both modes |
| | `SomeoneCanGoOn` | `[]NobodyIsStuck`, in both modes, for circles of any length |
| | `SuccessesAreStored` | `[]StoredInTheEnd`: without a fault every registration that has ended with success is stored |
| `ListingProofs` | `PagingInductive`, `PagingTypeOK`, `NothingElseMissed`, `NothingElseRepeated` | `[]IInv`, `[]TypeOK`, `[]MissedOnlyIfMovedUp`, `RepeatedOnlyIfMovedDown` |
| `KeyValidationProofs` | `KeysInductive`, `KeysTypeOK`, `GuardIsEnough`, `RegisteredKeysVerify`, `FaultsDecideInOrder` | `[]KInv`, `[]TypeOK`, `[]GuardSparesTheConstraint`, `[]StoredKeysVerify`, `FirstFaultDecides` |
| `HttpPipelineProofs` | `PipelineInductive`, `PipelineTypeOK`, `ErrorsAreReadable`, `LookupsPaid`, `FailuresNamed` | `[]PInv`, `[]TypeOK`, `[]AllowedOriginsReadErrors`, `[]LookupsArePaidFor`, `FailuresKeepTheirNames` |
| `AuthGateProofs` | `LimiterTypeOK` | the limiter: `[]TypeOK`, for threads too |
| | `LimiterInductive`, `LimitIsKept`, `RefusalsEarned` | on the event loop: `[]RInv`, `[]NeverOverLimit`, `RefusalsAreEarned` |
| | `AdmissionsSpread` | on the event loop: no more than `Limit` admissions for each window that begins in an interval, of any length |
| | `GateUsesLimiter` | `GateSpec` refines the limiter's `Spec` |
| | `GateTypes`, `GateKeepsLimit`, `LifetimesAreKept` | `[]GateTypeOK`; on the event loop `[]NeverOverLimit`; `[]LifetimeIsKept` |
| | `TokensPaid`, `TokensBounded` | on the event loop: `[](TokensArePaid /\ CallsFollowTokens)`, `[]ValidTokensAreBounded` |
| `SessionPoolProofs` | `PoolInductive`, `PoolTypeOK`, `NoLeaks`, `OutagesArePaidOnce` | `[]SInv`, `[]TypeOK`, `[]NothingLeaks`, `[]OutageIsPaidOnce` |
| `DeploymentProofs` | `DeploymentInductive`, `DeploymentTypeOK`, `ServesWithTables`, `PassedStarts` | `[]DInv`, `[]TypeOK`, `[]ServingHasTables`, `[]PassedReleasesLoad` |

The properties are not inductive. What each invariant adds:

* **Registry, `IInv`.** That a commit shows a whole registration depends on what
  an open registration has inserted so far and on nobody else inserting the same
  key; that a save is exact depends on what the session has loaded.
  `InsertsInOrder`: a registration holds a prefix of its payload, all of it once
  flushed. `InsertsExclusive`: an uncommitted key has no owner and one holder.
  `RowsAppearWhole`: an agent that is not seeded appears with all of its keys, and
  every owner exists. `SessionsFit`: a PATCH works on an existing agent and only on
  its keys. `SessionsFresh`: a PATCH that has missed no commit has loaded the agent
  as it is, and holds the transition of that agent. `StepCases` reduces a step to a
  crash, a stutter and nine kinds of request steps, one of them `Ends` (all
  refusals, conflicts, aborts, reads and database faults leave the tables alone);
  every conjunct has a lemma with one step per kind. `CommitRegister` and
  `CommitPatch` say what the two kinds of commit do to the tables. The serial
  theorems add `PatchesAlone`: with waiting clients no two PATCHes of an agent are
  under way together, so that none ever misses anything.
* **Registry, `Promises`.** What an answer says is true when it is given (`Honest`,
  a part of `Ends`); `Promises` makes it last: nothing is answered before its end,
  a reader only counts answers that were successes, and a registration answered
  with success is stored. Agents and owners never vanish (`NothingVanishes`). It
  needs `CommitBeforeReply`: otherwise `ReadAfterWrite` refutes the property.
* **Registry, `AgentsWhole` and `Revoked`.** The aggregate keeps an agent's flags in
  step with its status (`TransitionsStayWhole`), and a commit that has missed
  nothing stores the aggregate's transition (`PatchCommits`); a committed
  revocation stays in force because nothing revives an agent without a missed
  commit. Both rest on `PatchesAlone`.
  `SplitsNeedStaleRead` needs neither client nor mode: a commit that missed nothing
  keeps keys and status in step (`Split`), and a new agent appears with all of its
  keys active.
* **Registry, `WinnersAreFeasible` and `SomeoneInPlay`.** While nothing but
  contention makes a feasible registration fail, another feasible one is in play:
  it is writing, committed or answered. Only two steps end a feasible registration
  (`FaultCases`). The unique index refuses it a key that was free at first, so the
  owner is a committed registration, and those were feasible (`ConflictHasWinner`).
  A deadlock aborts it, then it waited for another member, which holds a key and
  waits for one, and by hypothesis is feasible (`DeadlockHasSurvivor`).
* **Registry, `InOneMode`.** If nobody could go on, everybody under way would be a
  registration that waits for another: a status change waits only for one that
  has flushed, since a registration under way is about an agent that does not
  exist (`FlushWaitsForFlushed`). Only finitely many requests have been sent, so
  there is a smallest set of requests that wait for each other; in it everyone is
  waited for, which makes it a circle that PostgreSQL breaks
  (`WaitsEndInCircles`, by the well-foundedness of strict inclusion of finite
  sets).
* **Registry, `CommittedIsThere`.** Commit and answer come in either order; without
  a fault both have happened when a registration is done.
* **Listing, `IInv`.** `UnseenAhead` and `SeenBehind` place every agent that
  matched throughout relative to the next page by its `Rank`, the number of newer
  agents in the filter: unseen ones have a rank of at least the offset, seen ones
  a smaller one, up to ties and agents that moved. A registration can only raise
  ranks, an agent that leaves lower them; a page covers a range of ranks.
* **KeyValidation, `KInv`.** Whatever is in `validated` or `stored` is the entity of
  a key without objection, and `validated` covers a beginning of the payload.
* **HttpPipeline, `PInv`.** `ExceptionsStayInside`: a raised exception is on its way
  through the two inner layers only, so that the exception layer answers it and
  what comes to the CORS layer is always an answer. `Caught` finds, for each class,
  the clause of the class nearest in its ancestry.
* **RateLimiter, `RInv`.** A deque is the end of its log (`DequesEndLogs`), logs are
  in order, and what was evicted is older than a window at every reading of the
  clock that is still in use (`Ordered`). Then the admissions in any window are
  among the last `Limit` entries of the log when it was last evicted. `OneAtATime`
  is where the event loop enters; without it `Ordered` is false
  (`RateLimitThreads`).
* **RateLimiter, `AdmissionsAreSpread`.** A window is full after `Limit` admissions
  (`NeverOverLimit`), and an interval is its last window and a shorter interval:
  adding an admission or a tick preserves the bound for every interval at once.
* **AuthGate, `TokensArePaid`.** The limiter's log forgets at a restart what the
  tokens do not. From any time on the tokens of a client are no more than the
  admissions on its log, a full account for each restart, and one for a call that
  read the clock before. `CallsFollowTokens` says that there is one such call at
  most: on the event loop none is under way while a token is issued.
* **AuthGate, `TokensFit`.** Every token carries the expiry of its time of issue;
  `Rounding` bounds what is lost by cutting to whole seconds.
* **SessionPool, `SInv`.** `Counts` weighs burnt requests together with dead
  connections that may still burn one against the outages so far; `ServedHaveOne`
  and `LiveOnes` say who has which connections.
* **Deployment, `DInv`.** `PassedIsMigrated` and `RunningIsReleased` carry what the
  script has accepted over to instances that were started because of it.

Only model-checked are the liveness properties `EveryRequestEnds` (of `Registry`
and of `SessionPool`), `AcknowledgedIsStored` and `SoundReleasesServe`, since
fairness is out of the proof system's reach. Their safe parts are proved where
the argument is more than one step: `NobodyIsStuck` for the first, `StoredInTheEnd`
for `AcknowledgedIsStored`, `PassedReleasesLoad` for `SoundReleasesServe`. Every
invariant and every action property of a passing run is stated by a theorem.

## 5. Not modelled

* The arithmetic of keys, signatures, hashes and tokens, and the parsing of PEM,
  JSON and URLs: libraries, of which the models keep the outcomes the code tells
  apart.
* Logging, the OpenAPI schemas and the two documentation pages: no state, no
  influence on control flow.
* The agent manifest: data that is stored and returned.
* How a client's address is read from a request (the limiter's clients are
  names), and the growth of the limiter's map with their number, which only the
  deployment bounds.
* Lengths: a longer text than its column is one of the database faults.
* The password helpers of `security.py`, `PostgresAgentRepository.update_status`
  (it would set a status without the aggregate's guards), Alembic's offline mode
  and the downgrade: nothing calls them.
* A deployment's environment that is misspelt ("Production" is development):
  no statement of the repository says what it should do.

Still worth proving: that no step takes a request back to an earlier stage, which
with `NobodyIsStuck` bounds the steps until every request has ended, and the same
pair of facts for `SessionPool`.
