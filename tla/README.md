# A TLA+ model of CGC Core

CGC Core is a serverless governance service: a tenant's application asks
`POST /governance/decision` whether an AI action may go ahead, and the answer
is scored, signed, evaluated, logged into a hash-chained audit trail, sealed as
a Proof of Decision and sent to a webhook.  Every instance is a separate Vercel
function; all they share is one PostgreSQL database.  So the questions worth a
model are what happens when several instances work on the same rows, when a
statement or an acknowledgement is lost, and when an instance is frozen or killed.

This directory holds TLA+ modules translated from the source, TLC
configurations that check them on small instances, and proofs checked by TLAPS.
`PROJECT.json` maps every definition to the lines it models; paths below are
relative to the repository.

## The system: inventory

| component | state it keeps | operations | models |
|---|---|---|---|
| Circuit breaker (`app/modules/guard/circuit_breaker.py`) | one row per actor: state, violation count, window start, cooldown end | check, record violation, record success, reset | `CircuitBreaker` |
| TCO audit trail (`app/modules/tco/tcomodule.py`) | global hash chain `cgc_tco.audit_trail`; per instance `total_entries` | log a decision, verify a range | `AuditChain` |
| Proof of Decision (`app/modules/pod/`) | a chain per tenant in `cgc_pod.pod_ledger`; per instance a chain in memory and the pending intercepts | begin, seal, look up, verify | `PoDLedger` |
| Webhooks (`app/main.py`, `app/Core/db/database.py`) | one registration per app, the retry queue | register, remove, deliver, work the queue | `WebhookDelivery` |
| Rate limiter (`app/modules/guard/rate_limiter.py`) | one row per counted event | check (counts) | `RateLimiter` |
| Plans and monthly quota (`app/Core/tenant/multi_tenant.py`) | plan per org, counter per org, period and resource | reserve, increment, change plan | `GovernanceDecision` |
| Governance pipeline (`app/main.py`, `app/modules/loop/cgc_loop.py`) | none of its own: it drives the others | one decision | `GovernanceDecision`, `Attestation` |
| Kill switch, tenant action policies (`app/modules/guard/`) | switches and rules per org and app | activate, deactivate, set, delete, look up | `GovernanceDecision` |
| PreFilter (`app/modules/prefilter/PreFilter.py`) | none (pure) | evaluate an agent and a request | `Decisions` |
| Scoring modules PAN, ECM, PFM, SDA (`app/modules/`) | none that scores | analyze, calibrate, predict, advise | `Scoring`, `Decisions` |
| Decision loop (`app/modules/loop/cgc_loop.py`) | none; weighting overrides per app | weigh, enforce, decide | `Scoring`, `Decisions` |
| Calibration (`api/v1/endpoints/calibration.py`, `app/Core/db/cgc_db_loader.py`) | calibration rows and their changelog; per instance a cache of rows | update, load, reload | `Calibration` |
| SCM (`app/modules/scm/scmmodule.py`) | per process: data keys, one SQLite connection with tenants, signatures, encryption records and merkle nodes | register, sign, verify, encrypt, decrypt, rotate | `KeyVault` |
| Compliance engine (`app/modules/compliance/compliance_engine.py`) | per process: one profile per industry | evaluate, report | `Attestation` |
| Accounts and sessions (`app/Core/auth/auth_system.py`, `app/main.py`) | accounts, sessions, block list | sign up, sign in, verify a token, delete | `Accounts` |
| Login guard (`app/modules/guard/login_guard.py`) | one row per login attempt | lock out, record, detect stuffing | `Accounts` |
| SAML and Google sign-on (`api/v1/endpoints/saml_sso.py`, `app/main.py`) | one connection per email domain | draft, test, activate, delete, set, sign in | `SamlConnections`, `Accounts` |
| Tenants and API keys (`app/main.py`, `auth_system.py`) | API keys per application | claim an application, rotate, revoke | `Tenancy` |
| Billing (`app/Core/tenant/app_billing.py`, `app/main.py`) | one row per application | checkout, Stripe events, claim | `Tenancy` |
| Agent registry | agent records per org | register, look up | look-up in `Decisions` |
| Policy manager, error monitor, launch readiness, flow scoring, model registry, analytics, JSON fallback, SDKs | see "Not modelled" | | |

### How they interact

The pipeline calls, in this order and inside one request: rate limiter, payload
guard, `begin_intercept`, kill switch, circuit breaker, tenant policy, agent
lookup, PreFilter (whose verdict goes back to the breaker), quota, SCM's entry
gate, the scoring modules, SCM's signature, compliance evaluation and report,
the TCO audit trail, `seal_intercept`, webhook.  Calls are synchronous inside an
instance up to the audit trail.  Seal, webhook and answer await, so that other
requests of the same instance run between them; the seal runs on asyncpg and
interleaves with other seals at every `await`.  Instances meet only in
PostgreSQL: through rows, through advisory transaction locks (the breaker's
actor, the audit trail as a whole, a tenant's ledger, a limiter's key, a quota
counter), and through UNIQUE constraints.  The retry queue is worked by a cron,
by a workflow and by an administrator, nothing keeps two runs apart.

A sign-in goes through the login guard and then through `AuthSystem`, each query
a transaction; single sign-on ends in the same tables.  A session or an API key
says who the caller of the tenants' routes is, and Stripe's events change the
billing row the same routes create.  Calibration rows reach a decision through
the cache of the instance that takes it.

### What is hard here

* read-modify-write spread over statements, protected by a lock in some places
  (breaker, limiter, chains) and by nothing in others (retry attempts, login
  failures, key rotation, billing, calibration);
* a decision taken on a row that another instance has changed since: an account
  deleted during a sign-in, a connection replaced during its test;
* a commit whose acknowledgement is lost, and retries of what was done;
* one SQLite connection shared by all operations of SCM, so that a failed
  commit is finished by the next one;
* one object shared by all requests of an industry, read after an await;
* events that come twice or in another order than they were raised (Stripe);
* an instance killed between two steps, with its memory, its caches and its keys;
* clocks: `NOW()` is the begin of the transaction, the window comes from the
  instance;
* failing open or closed: most guards let a call through when the database fails;
* a scoring module that raises is replaced by a default score, and rows of
  different origin (seed, fallback, administrator) meet in one decision: a
  failure must not make the outcome more lenient.

`PROJECT.json` lists these as hazards, each at its line, with the properties
that would catch it going wrong.

## The modules

`CircuitBreaker.tla`: one actor's row, its clock, and `Handlers` instances, each
somewhere in `check_breaker` -> verdict -> `record_violation` or
`record_success`.  Every SQL statement is a step (`CheckAdmits`, `CheckFlips`,
`ViolationReads`, ...), a transaction whose only write is its last statement
commits with that statement.  `Abort` is the instance dying or a statement
failing: the transaction and its lock go.  `log` is history: the recorded
violations, in commit order, with the time they were raised and committed.

`AuditChain.tla`: one chain, `Instances` appending.  Lock, read, insert are
steps; a commit may be acknowledged (`CommitLogged`) or not (`CommitUnacked`).
A hash is the sequence of decisions it covers, which is exact as long as
SHA-256 has no collisions.  `Verified` is `verify_chain` as the code walks it.

`PoDLedger.tla`: the same for the Proof of Decision, with a chain per tenant,
seals that interleave inside an instance, the connection pool they share
(`MaxConnections`), the fallback to a chain in memory which all tenants
of an instance share, both verifications, and `verify_decision`: what it may answer
to a tenant, a block and the chain proof of it, either of which is missing when
there is no pool or its query fails.  A look-up holds a connection for a moment: a
seal waits for it as it waits for another seal, and as long as it may wait anyway.
`Persist` says whether the instance has a repository at all.

`AppendOnlyLedger.tla` is the abstract specification both chains implement: an
entry is appended at most once, at the end, nothing in it changes, and an entry
is acknowledged only when it is there.

`WebhookDelivery.tla`: the tenant's registration and removal of its endpoint, the
attempt made inside the request, the retry queue, and `Runs` overlapping
executions of `POST /admin/webhooks/process-retries`, statement by statement.  A
POST has three outcomes: not processed, processed but not seen (a timeout),
processed and answered.  When a row's `next_retry_at` passes is left open.

`RateLimiter.tla`: concurrent calls of `check_rate_limit`; the window's start is
taken from the instance's clock (off by up to `Skew`), `created_at` from the
begin of the transaction, and between the two and the COUNT lies the wait for
the lock.

`GovernanceDecision.tla`: the request itself, from its first guard to its
answer: `execute_governance_decision`, `run_cgc_prefilter` and
`execute_governance_cycle`, with the kill switch, the tenant policies, the
monthly quota and the changes tenants and operators make to them while
requests run.  A request is a record whose `pc` is the database call it is at;
`row`, `proof` and `reply` are what it leaves behind; `held`, `looked`, `charged`,
`strikes` and `killed` are history the properties compare with.  `held` is what
has been against the request without interruption since it came: `Change`, the
common part of every change, takes away what was lifted.  `month[r]` is the period
by the clock of the instance that serves `r` (`_period`, `multi_tenant.py:69`),
taken anew for the SELECT and for the INSERT of `reserve_quota`; the clocks turn
independently, even those of requests that one instance may serve.

`Scoring.tla` is the arithmetic of a decision, as pure definitions: the seeded and
the fallback calibration rows, data quality (PAN), the eight frameworks and the
critical ones among them (ECM), the risk (PFM), the number of recommendations
(SDA), the weighting matrix, aggregation and outcome.

`Decisions.tla` is the order in which they happen: `Receive` is
`PreFilter.evaluate` with the agent `run_cgc_prefilter` looks up or makes up;
`Analyze`, `Calibrate`, `Predict` and `Advise` run a module on a row of a
`Kind` (as seeded, the loader's fallback, rewritten by an administrator, rewritten
so that the module raises); `Decide` finds the tenant's weighting, if there is one,
aggregates, enforces and decides.  It opens up the free outcome that
`GovernanceDecision` has between its quota and its audit row.

`KeyVault.tla` is SCM in one process: `stored` is what the SQLite file holds as
committed, `seen` what the shared connection reads, `memory` the data keys.  A
transaction begins with the first write and ends with the next commit, whoever
commits; a commit that fails raises and leaves it open or rolls it back
(`torn`).  `Restart` loses the memory, and `Boot` chooses the KMS as the code does:
AWS when configured and reachable, else the one in the process.

`Attestation.tla` extends it with the end of the cycle: the decision is signed,
evaluated by the compliance engine, reported, logged; then sealed, posted and
answered with awaits between.  `profile` is the one object per industry the
process keeps: the request whose evaluation it holds now.  The requests refer
to it.

`Accounts.tla`: password sign-in statement by statement (block list, lockout
count, account, bcrypt, record of the attempt, stuffing count, update of the
account, session), sign-up, federated sign-in, expiry, and changes made by hand in
the database.  `failed` is what the lockout reads, `tried` what the stuffing
detection reads; attempts leave their windows by `LeaveWindow`.  The deletion of an
account is the one transaction of several statements: `DeleteUserRow`,
`PurgeSessions` and `CommitDeletion`, under READ COMMITTED.  Until the COMMIT the
others see the account, whoever would write its row waits (`Locked`), and sessions
go on being inserted, for which nothing waits.  `late`, in a session, is history.

`SamlConnections.tla`: a row per email domain, drafted, tested, activated and
deleted by the domain's accounts or set by an operator; an assertion is taken
against the row as it was read before an await.  The sign-in it ends in is
`FederatedSignIn` of `Accounts`.

`Tenancy.tla`: applications claimed (`Claim*`), keys rotated key by key and revoked,
and the billing row, which `upsert_billing` inserts or updates on an earlier
SELECT.  Stripe is external: it raises events, sends each until it is answered,
in any order, and may send it again.

`Calibration.tla`: rows as sequences of their versions, the changelog, the caches of
the instances under every key that is loaded from a row, and the PUT requests of
administrators: read, UPDATE and changelog are three transactions, each of which
may lose its acknowledgement.  A request carries columns and values, which may be
the ones it read, ones that were there before or another's: each UPDATE is a
version of its row, whatever it writes.

`MC*.tla` extend them for TLC (symmetry sets, small inputs), `*Proofs.tla` hold
theorems.  Some proof modules are about several components and extend all of them;
that is why some components name their specification for themselves (`SamlSpec`,
`TenancySpec`, `WebhookSpec`, `CalibrationSpec`, with `SamlTypeOK` and so on).  Some
modules contain definitions placed just before the one they vary (`LockFree` before
`Lock`, `InsertAsPassed` before `Insert`): plausible bugs, used by no specification,
which show that each property depends on the code it is about.

### What the modules simplify

* **Hashes** are the sequences they cover.  Exact as long as SHA-256 has no
  collisions; signatures and timestamps of blocks are data.
* **The pipeline sees the other components by what they promise.**  Breaker and
  limiter are free verdicts; seal, webhook and response are one step (`Answer`);
  `CircuitBreaker`, `RateLimiter`, `PoDLedger`, `WebhookDelivery` and
  `Attestation` open them up.  Whether a proof is in the database or in memory is
  not told apart there.
* **Scores are a free outcome in the pipeline.**  `GovernanceDecision!Decide`
  chooses any of APPROVE, REQUIRE_HUMAN, REJECT, which `Decisions` explains;
  `EvaluateDenies` and `EvaluateAllows` are both enabled.  SCM's entry gate
  approves every request (`scmmodule.py:982-990`), its branch in the cycle is not
  reached.
* **A failure of `begin_intercept`** is a request without a proof, as a failed
  seal is.
* **A lost acknowledgement of the quota commit** is an allowed, counted request,
  as an acknowledged one is: `reserve_quota` fails open.
* **The counter per `app_source`** (`main.py:2047-2051`) is left out: nothing
  reads it but the usage panel.
* **Instances without a pool** (`Offline`) still reach the quota, which opens
  connections of its own.
* **A policy's conditions** (action, area, domains) are in whether the app has a
  rule for the action.
* **Scores are integers** in `Scoring`: module scores in thousandths, as the code
  rounds them; framework scores in millionths, rounded down after each factor.
  A comparison of a framework with its threshold comes out as in the code; a
  module's score may differ by a thousandth where the float is at a tie.
* **A text is the set of terms** the rules look for in it.  Data is counted: its
  fields, those of them that are filled, whether a domain pattern finds an entity
  in it, whether SDA would rate it excellent.  Input that is no JSON object is
  left out.
* **A calibration row** a PUT has made unusable (`calibration.py:93` checks which
  fields are written, not their values) makes its module raise; which error it is
  does not matter.
* **Encryption and signatures** are members of small sets.  What a key version can
  read is the version; whether a provider's data key is one that Fernet takes is
  `MakesFernetKeys`.
* **Passwords** are compared, not hashed; a session's token is a member of
  `Tokens`, and a token that has expired can be issued again, which bounds the
  sessions that exist at once and nothing else.
* **XML, certificates, ID tokens and Stripe's signatures** are one verdict each.
* **Time** is a counter in breaker and limiter, and absent elsewhere: a backoff
  passes when it passes, a month turns for an instance when it turns, an attempt leaves the
  lockout window and a session expires at any moment.

## Runs

| run | question | bounds | distinct states |
|---|---|---|---|
| `breaker` | what can stored count and state be, and does every request get out | 2 handlers, threshold 2, window and cooldown 1, time 0..3, 3 requests, 1 reset | 76,642 |
| `audit` | is the audit trail an append-only ledger, does its verification tell the truth, does every call end | 3 instances, 3 decisions, 2 restarts | 25,776 |
| `pod` | the same of the Proof of Decision, per tenant, and is what was sealed shown | 2 instances, 2 tenants, 4 intercepts, 2 connections, 1 restart | 304,413 |
| `webhook` | what do overlapping runs do to the queue, and does it drain | 1 app, 1 delivery, 2 runs, 3 attempts, 2 registrations or removals, 2 crashes | 69,835 |
| `limiter` | is the limit a limit | 3 calls, 2 keys, limit 1, window 2, skew 1, time 0..3 | 751,161 |
| `governance` | what stops a request, what is counted, what is recorded | 2 requests, 1 app, limits 1 and unlimited, 1 change, 2 months by the clock of each request, 1 crash | 2,836,714 |
| `decisions` | what can make a decision more lenient | every area at 0 domains, at each limit and beyond the last, with and without an owner, 12 shapes of data, 4 kinds of row for each of 4 modules, 3 overrides | 745,251 |
| `accounts` | how late is the lockout, which sessions outlive their account | 2 emails, 1 address, 2 handlers, 2 tokens, 1 failure allowed, 3 sign-ins, 1 change by hand | 1,085,122 |
| `saml` | does what was made live work, and who replaces it | 2 domains, 2 handlers, working and broken metadata | 21,165 |
| `tenancy` | does a rotation leave one key, does the billing row say what Stripe says | 2 accounts, 1 app, 3 keys, 2 handlers, 1 plan, 1 subscription, 3 events | 469,749 |
| `attestation` | is what is handed out recorded, is what is logged attested, whose evaluation is told | 2 requests, 2 tenants, 2 signatures, 1 ciphertext, 2 key versions | 559,984 |
| `calibration` | is the changelog true, what do the caches serve | 1 row under 2 keys, 3 columns, 2 values, 6 payloads, 2 updates, 2 instances, 1 restart | 1,415,246 |

Five more configurations, kept beside the runs, each check one sentence of the
repository that the code does not keep.  TLC is expected to end with a
counterexample (see "What the code does that its texts do not say"); `tlc -config
CircuitBreakerTrial.cfg MCCircuitBreaker` and so on.  Their instances are as small as
the counterexample lets them be.

| configuration | sentence, as a property | what TLC finds |
|---|---|---|
| `CircuitBreakerTrial.cfg` of `MCCircuitBreaker` | `OneTrial`: "allow exactly one trial request through" (`circuit_breaker.py:90`) | the first request after the cooldown turns the row HALF_OPEN, the next finds it so and is let through as well |
| `WebhookAttempts.cfg` of `MCWebhookDelivery` | `OriginalIsCounted`: "5 attempts total (including the original synchronous one)" (`database.py:3397`) | the original attempt and five retries |
| `WebhookRemoved.cfg` of `MCWebhookDelivery` | `RemovedStopsRetries`: "nothing left to retry against, stop trying" (`main.py:771`) | a run that finds the webhook gone leaves the row pending |
| `CalibrationSilent.cfg` of `MCCalibration` | `NoSilentChange`: "no code path that updates a calibration row without also writing its changelog entry" (`calibration.py:21-24`) | the UPDATE is committed, the INSERT of the entry fails |
| `GovernanceOffline.cfg` of `MCGovernanceDecision` | `SwitchStopsEverywhere`: "fails CLOSED on a DB error" (`kill_switch.py:31`) | an instance that started without the database approves with the switch on |

What they show:

* `breaker`: `NoLostViolation` (a count written is built on the stored one),
  `ClosedBelowThreshold` (a CLOSED row is below the threshold), `TripNeedsCause`
  (a step opens the breaker only on a failed trial or on a threshold of violations
  that fell into one window), `RequestsEnd`.
* `audit`: `ChainLinked`, `NoFalseAlarm` (every range of an untouched chain
  passes, by every instance's own idea of the total), `ImplementsLedger` (the
  refinement of `AppendOnlyLedger`), `LoggingEnds`.
* `pod`: `ProofIsShown` (a decision whose proof was handed out as sealed in the
  database can be shown to its tenant; none is shown to another tenant or by two
  blocks, and a chain proof that is there has the block and passes), `NoFalseAlarm`,
  `ImplementsLedgers` (each tenant's chain on its own).
* `webhook`: `DeliveredWasAccepted` (what is marked delivered was processed by the
  endpoint), `GivesUpOnlyWhenSpent` (a row is given up after the whole backoff
  schedule, whatever increments overlapping runs lose), `SettledIsLeftAlone` (a
  settled row that no run holds stays, and its event is not sent again),
  `QueueDrains`.
* `limiter`: `WindowBound` (no window of the configured length, less the skew,
  holds more than the limit).
* `governance`: `SwitchStops` and `PolicyStops` (a request that had a switch or a
  policy against it all along is not approved), `StruckOnce` (a request is
  counted against its caller at most once), `QuotaBound` (a decision counted in the
  month that was looked at for it is within the limit read for it; where the clock
  turned in between, nothing can be promised, see below), `UsageIsCounted`,
  `RecordsAgree` (count, audit row, proof and answer tell one story).
* `decisions`: `FailedEthicsNeverApproves` (an ECM that raised is never followed by
  an approval in an area that has weights of its own), `FailureNeverHelps` (who is
  approved although ECM or PFM failed would have been with the seeded row),
  `WorseRequestNeverHelps` (neither exposed personal data nor biased terms turn a
  refusal into an approval; on seeded rows neither do they together with more
  sensitive domains), `NoAgentNoEscalation` at the end.  The third has two
  exceptions, each with its counterexample.  An administrator's row may reward what
  it should not: a negative baseline or multiplier, or a critical factor that is
  itself a term of personal data (`Sensible` rules these out, the code does not).
  And where the matrix moves weight from PAN to ECM and PFM, one more sensitive
  domain favours data that is hardly filled: a RETAIL request with 2 of 10 fields
  filled is approved at MEDIUM and refused at LOW, since RETAIL's risk is also
  multiplied by .95 at MEDIUM; DEFAULT has the same below .3 (`LevelsAgree` asks of
  these two areas that PAN scores at least .4; the run has data at the limit and below).
  `NoAgentNoEscalation`: without a registered agent an enforced violation is
  refused.  All but the last compare the decision taken with the one that would have been
  taken (`Instead`).  The override in the instance that approves everything shows
  why the properties speak of the built-in weights: a tenant may switch
  enforcement off.
* `accounts`: `GuessBound` (the failures counted in a window plus the guesses
  under way that were let past the count are fewer than the limit and one guess per
  handler: the lockout is late, by less than one round of concurrent requests),
  `AccountsAreNotTakenOver` (racing creations of an account never replace the
  password it has), `OnlyLateSessionsAreOrphans` (a session without an account was
  issued, to a sign-in that had read the account before, when the account was gone
  or in the window between the deletion's look at the sessions and its COMMIT; no
  session that was there at the look outlives its account).
* `saml`: `LiveConnectionWorks` (a connection a customer made live validates its
  provider's assertions, unless the draft under test was deleted meanwhile),
  `RowsAreNotOverwritten` (only an operator replaces a row in place).
* `tenancy`: `RotationLeavesOneKey` (a rotation leaves exactly one valid key to a
  caller that was issued no other meanwhile), `BillingAgrees` (when Stripe's
  events about the only subscription of an application are answered, the row
  agrees with Stripe, however they were repeated or failed, if it was written
  in their order).
* `attestation`: `HandedOutIsStored` (a signature or ciphertext the caller got is
  recorded for good, whatever commit fails later and whenever the process dies),
  `BarredByTornCommit` (a tenant that cannot be registered any more is one whose own
  registration failed to commit), `LoggedIsAttested` (a decision in the trail has
  its signature in the ledger and an evaluation with nothing failed),
  `EvaluationsChangeForGood` (the evaluations told by proof, webhook and answer are
  of the request's own profile, and once one was another request's, none is its own
  again).
* `calibration`: `ChangelogIsTrue` (an entry names every column its update changed,
  shows after what the update wrote, and before what it overwrote, but for columns
  others changed between its read and its UPDATE), `ChangesAreLogged` (a committed
  UPDATE without an entry is that of a request under way, failed or dead; a 200 left
  both; an UPDATE to the same values is one, and is logged), `OwnUpdateIsServed`
  (the instance that answered 200 serves no older version under any key).

Every module also has a type invariant (`TypeOK`, or with the module's name before
it).  Those of `CircuitBreaker`, `AuditChain`, `PoDLedger`, `RateLimiter`,
`GovernanceDecision`, `Tenancy`, `KeyVault`, `Attestation` and `Calibration` are
theorems, those of `Accounts` and `SamlConnections` are part of the invariants proved
of them; those of `Decisions` and `WebhookDelivery` hold in the runs (add the type
invariant to the `INVARIANTS` of the configuration).

**Why the bounds are enough.**  The hazards are races of two: the smallest
instance with the race has two handlers, instances, runs or requests, and each
run has that or one more.  A limit or threshold is one more than the first
value at which the off-by-one cases differ, or the first, where the other would
multiply the states without a new case (quota 1, limit 1, one failure before the
lockout).  Time runs far enough for a window or a cooldown to pass and a second
one to begin.  One crash or restart is enough for every step to be cut short
after every other.  In `webhook` one delivery is enough, since runs meet on a
row; the safety properties were also checked with two.  In `accounts` two emails
are what the stuffing detection tells apart, three sign-ins are two that race and
one after.  In `tenancy` three keys are the two of a racing pair and the one that
was there.  Three events are a checkout, a change and a cancellation.  In
`pod` two connections for four intercepts make seals wait for each other.
`decisions` needs no bound on the system, which handles one request; its
inputs are one for each side of every limit the code compares with.  Every passing run
has, for each of its properties, a plausible bug that it finds within these
bounds (`PROJECT.json`, "mutants"): the bounds reach the case.  For the
properties that are proved they do not matter.

**Fairness.**
`CircuitBreaker!FairSpec`: a request that has begun takes its next step or
fails (statements time out), and one that waits for the advisory lock gets it,
since PostgreSQL queues waiters in order (strong fairness: the lock is free again
and again).  Nothing is assumed of arrivals, failures or the clock.
`AuditChain!FairSpec` is the same.
`WebhookDelivery!WebhookFairSpec`: time passes (`BecomeDue`), a cron starts a run every
ten minutes (`StartRun`), a run takes its next step (every wait has a timeout).
The other modules are checked for safety only: their requests end because each
step has a timeout, with no queue or lock to wait for but the ones above.  Deadlock
is checked in every run; `Done`, where a module has it, is the only state in which
the system may rest.

## Proofs

Proved with TLAPS, for every value of the constants that satisfies the named
assumptions of the modules.  These say that what marks an absence is no member of
what it marks (`Null`, `None`, `Unknown`, `NoAccount`, `NoConnection`, `NoKey`,
`NoRow`, `NoSubscription`), that bounds are numbers and those the code has at least
one of are positive (a key version, a connection, an email), that `Unset` is no
plan and an operator no account.  In `Decisions` they say that a request's fields and
domains are counted and its words are strings (`DataAssumption`); that an
administrator writes no negative risk, which the code does not check, and a finite
list of critical factors (`EditedPfmAssumption`); and that an ECM row which does not
raise has frameworks, finitely many, and numbers where numbers belong
(`EditedEcmAssumption`: one without frameworks divides by zero, `ecmmodule.py:149`,
and is an `Unusable` row).  In `Calibration` a column's seed is a value, and a request
names at least one column (`CalibrationUpdateIn` wants a field; names that are no
columns are ignored, as columns nobody may edit are).  `Sensible` and `LevelsAgree`
are no assumptions: they
stand in the property itself.

| module | theorems | inductive invariant |
|---|---|---|
| `CircuitBreakerProofs` | `BreakerTypeCorrect`, `ClosedIsBelowThreshold`, `NoViolationIsLost`, `TripsHaveCauses` | `TypeOK`, `LockHeld`, `NoLostViolation`, `ClosedBelowThreshold`; `CountsAreFounded` |
| `AuditChainProofs` | `AuditTypeCorrect`, `AuditChainIsLinked`, `AuditReadIsCurrent`, `AuditLoggedIsStored`, `AuditNoFalseAlarm`, `AuditImplementsLedger` | `TypeOK`, `LockHeld`, `ChainLinked`, `ReadIsCurrent`, `InFlightFresh`, `LoggedIsStored` |
| `RateLimiterProofs` | `LimiterTypeCorrect`, `LimiterBoundsEveryWindow` | `TypeOK`, `events` finite, `LockHeld`, `SinceIsOld`, `RoomLeft`, `WindowBound` |
| `GovernanceDecisionProofs` | `DecisionTypeCorrect`, `ActiveSwitchStops`, `StandingPolicyStops`, `OneStrike`, `QuotaIsBound`, `UsageIsTheCount`, `WhatIsRecordedAgrees` | `TypeOK`, `RequestsOK`, `QuotaInv` |
| `PoDLedgerProofs` | `PoDTypeCorrect`, `PoDNoFalseAlarm`, `PoDProofIsShown`, `PoDImplementsLedgers` | `TypeOK`, `LockHeld`, `ChainLinked`, `ReadIsCurrent`, `StoredOnce`, `SealedIsStored` |
| `DecisionsProofs` | `NoEscalation`, `FailedEthics`, `FailuresNeverHelp`, `WorseNeverHelps` | `RequestOK`, `ResultsOK`, `OutcomeOK`; `Served` |
| | `CalibrationTypeCorrect`, `CalibrationChangelogIsTrue`, `CalibrationChangesAreLogged`, `CalibrationOwnUpdateIsServed` | `CalibrationTypeOK`, `TellsAChange` of each entry, `UpdateInOrder` of each update |
| `IdentityProofs` | `LockoutIsLateByARound`, `PasswordsAreKept`, `OrphansAreLate` (`Accounts`) | `Typed`, `GuessBound` |
| | `LiveConnectionsWork`, `OnlyOperatorsReplace` (`SamlConnections`) | `SamlTypeOK`, `RowSound`, `TestIsOfRow` |
| | `TenancyTypeCorrect`, `RotationsLeaveOneKey`, `BillsAgree` (`Tenancy`) | `TenancyInv`: types, three parts about keys, eight about billing |
| `OutcomeProofs` | `VaultHandedOutIsStored`, `VaultBarredByTornCommit` (`KeyVault`, as `Attestation` extends it) | `VaultInv`: `VaultTypeOK`, `SeenIsAhead`, `KnownIsStored`, and the two |
| | `AttestationTypeCorrect`, `AttestationLoggedIsAttested`, `AttestationChangesForGood` (`Attestation`) | `VaultInv`, `EndInv` |
| | `WebhookDeliveredWasAccepted`, `WebhookGivesUpOnlyWhenSpent`, `WebhookSettledIsLeftAlone` (`WebhookDelivery`) | `WebhookInv`: types, `BatchesGoOn`, `BatchesAreQueued`, `QueuedWhenDone`, `SuccessWasAccepted`, `ReadWasTried`, and the first two |

The argument in the first five is the lock.  `LockHeld` says that the holder of the
advisory lock is exactly the process between its locking statement and the end
of its transaction; so what that process has read is still what is stored when
it writes (`NoLostViolation`, `ReadIsCurrent`, `RoomLeft`), and so the write
extends a good state to a good state (`ClosedBelowThreshold`, `ChainLinked`,
`WindowBound`, `QuotaBound`).  The properties one is after are not inductive
without these.

* Circuit breaker: besides, what the row counts, and what a handler has read and is
  about to add one to, are backed by that many entries of the log in their window
  (`CountsAreFounded`).  The log only grows, so a count that was backed stays so
  whatever the row becomes meanwhile, and a violation adds an entry with its one.
* Audit trail: besides, a decision in flight is of one instance and has no row
  (`InFlightFresh`), so none gets two.  The refinement maps every step to an
  append, an acknowledgement or a stutter.
* Proof of Decision: the same for each tenant's chain, under the tenant's lock.
  An intercept in a chain is past its seal, is of the chain's tenant and has no
  second block (`StoredOnce`); one handed out as sealed has its block
  (`SealedIsStored`).  So exactly one block shows it, to its tenant only, and the
  chain before it is linked, which is what the chain proof walks.
* Rate limiter: an event counted in a window was admitted under a window start
  at least as old, up to the skew (`SinceIsOld`); the last event of a window
  was admitted when the others, counted, left room.
* Governance: `RequestsOK` holds of each request alone.  It says where a request
  can be with a switch (`SwitchHolds`) or a policy (`PolicyHolds`) against it all
  along, how many strikes it can have by then (`StrikesHold`), and what its
  records can say (`RecordsHold`).  `QuotaInv` is about the counters: a request
  about to count still has room in the month it looked at, whatever its clock says
  by then (`RoomLeft`; only requests of an unlimited plan count without the lock),
  the counter is the number of requests counted (`UsageIsCounted`).
* Decisions: `ResultsOK` bounds what each module has returned once it ran,
  `OutcomeOK` says that an outcome is the decision on what is stored.  With ECM's
  default of .5 every named area stays below its threshold even if the others
  score as high as they can (`NamedAreasAreStrict`, `HalfEthicsIsNotEnough`).  In
  AUDIT and RETAIL at LOW it does so only because PAN never exceeds .99: with 1.0
  the sums would reach .80 and .75, their thresholds.
* Decisions, on a failure: each result is the one of the row its module was served
  (`Served`), so the decision that would have been taken differs in one score.
  That score is no lower: an approval without ECM is in an area without rules of
  its own (`FailedEthics`), where only exposed personal data and biased terms
  lower a framework, and no framework below half (`SeededEcmIsFair`); no seeded
  row predicts a risk above 50 (`SeededRiskIsFair`).  Scores that are no lower
  keep an approval (`BetterScoresStillApprove`).  What ECM computes are two folds
  over sets, the rules that apply and the frameworks.  `FoldHasSolution` shows that
  such a recursion has a solution, and `InductionOverSubsets` says what all
  solutions have, in whatever order the elements are taken.
* Decisions, on a worse request: the rules that look for personal data or bias only
  lower fairness and privacy (`RulesOnHarm`).  Without the harm, the rules that apply
  to a framework are the same, or at most one of them is left and those that went
  lowered it (`Relieved`).  So no framework falls, in whatever order the rules are
  applied and rounded down (`FewerLoweringRules`, `MilderIsEvaluated`), nor does the
  mean, and what was above its threshold stays so.  The risk is no higher, and PAN and
  SDA are the same (`EasedScores`); scores that are no lower keep an approval.  At a
  lower level the weights change too, and scores cannot be compared one by one.  But
  on seeded rows those of PFM and SDA depend on area and level only, so, with ECM's no
  lower and PAN's the same, an approval at one level is one at a lower level by the
  arithmetic of each area's weights and thresholds (`LowerLevelPasses`).
* Accounts: there is no lock.  A step lets no guess past the count (`Calm`), counts
  one that is over (`Counts`), or lets one past a count below the limit
  (`Admits`); in each case `GuessBound` goes on to hold, in the last because there
  are no more guesses than handlers.  The other two theorems rest on what any step
  does to accounts and sessions (`Keeps`) and on how a deletion comes to its COMMIT
  (`CommitsHaveLooked`); the invariant is that a deletion at its COMMIT has found
  every session of its account that is not late (`Foreseen`).
* Connections: a row that is live was tested, and one that is tested works
  (`RowSound`), because the draft under a test is still the row of its domain,
  unless an operator replaced it or somebody deleted it (`TestIsOfRow`).
* Keys: a rotation that was alone since it listed the keys still has every active key
  of its caller on its list (`RotationListsAll`), so that the one it issues is
  the only one left.
* Billing: nothing orders Stripe's deliveries, so the invariant says what the events
  are, not what the row is.  Of a subscription's events the first names the plan
  and the last the status (`FirstNamesThePlan`, `LastNamesTheStatus`), a handler
  writes the event it was given (`WritesAreEvents`), and an answered one has been
  applied, or one after it (`AnsweredAreApplied`).  A row that was written in
  Stripe's order is then the first event's plan with the last applied status
  (`RowIsWhatStripeSaid`).
* SCM: what the shared connection sees is what is committed and more (`SeenIsAhead`).
  A commit therefore only adds, whoever makes it, and what was handed out stays.
  A tenant in memory has its row (`KnownIsStored`): only one whose row is seen and
  not committed finds its registration barred, and its own commit was the torn one.
* Attestation: the steps of a cycle come in the order of `pc`; a request at its
  report is signed and evaluated without a failure (`AttestedBefore`).  A profile
  holds evaluations of its own industry (`ProfilesHoldTheirOwn`), and once a
  request was told of another's, its own has been overwritten and, since it is
  evaluated once, does not come back (`OverwrittenForGood`).
* Webhooks: nothing locks the queue.  What a run is about to record has happened
  (`SuccessWasAccepted`), and the attempts it read were made (`ReadWasTried`): a lost
  increment leaves the stored count behind the attempts made, never ahead.  A run
  takes pending rows only, so whoever writes a row has its request done
  (`BatchesAreQueued`, `QueuedWhenDone`); that `Only`, which picks them, picks nothing
  else is shown by following it along the sequence (`OnlySelects`).
* Calibration: the three transactions of an update are followed one by one.  After
  the first, what it read is still what its row holds, but for the columns that a
  version written since has changed (`ReadBut`), which every further version keeps
  true (`ReadButGrows`).  After the second, the version it wrote differs from the
  one before it in what the update asked for and nowhere else, and `ReadBut` speaks
  of that one for good (`WroteVersion`).  That is what its entry says
  (`TellsAChange`). Which values are written plays no part: none need be new.
  Caches only go forward (`CacheInOrder`), so an answered update is not served by an
  older version.

Only model-checked:

* liveness (`RequestsEnd`, `LoggingEnds`, `QueueDrains`), which the prover cannot do
  under fairness;
* the types of `Decisions`: an administrator's row with negative numbers, which the
  code accepts, leaves the ranges of its scores;
* the number of attempts a webhook makes (`AttemptCounts` in `WebhookTypeOK`), which
  counts over overlapping runs.

Every safety property the passing runs check is a theorem.

The library's induction theorems take operators as parameters, which the provers
cannot instantiate.  Where an induction along a sequence was needed or over subsets
(`Least`, `OnlySelects`, `InductionOverSubsets`) it goes through the smallest
counterexample, from the well-foundedness of the naturals.  No module declares a
RECURSIVE operator.

## What the code does that its texts do not say

Met while modelling.  The models have all of it as the code has it.  Five of them
have a configuration that shows the counterexample, named in brackets.

Guards, trail, proof and queue:

* `circuit_breaker.py:79` a HALF_OPEN breaker admits every request that finds it so,
  not "exactly one trial request" (line 90) [`CircuitBreakerTrial`].  `:197` a
  success that was admitted before the breaker opened closes it when it is late;
  `:92` the flip of a request that read an elapsed cooldown ends a fresh one; `:151`
  the window is fixed, not trailing.
* `kill_switch.py:66` an instance that started without its pool ignores active
  switches, against "fails CLOSED on a DB error" (line 31) [`GovernanceOffline`].
* `multi_tenant.py:284` takes the month a second time: when the clock of the instance
  turns between the SELECT (271) and the INSERT, the decision is counted in the new
  month with the room of the old one, and where an instance whose clock is ahead
  has already counted there, beyond the limit (`QuotaBound` without its condition on
  `looked` fails of the instance of run `governance`).
* `tcomodule.py:599` `get_decision_audit` verifies one block, not its chain.
* `pod_interceptor_v2.py:516` an untouched chain in memory fails verification once two
  tenants share it; `:511` `run_integrity_verification` never raises, so the fallback to
  memory is never taken; `pod_repository.py:390` a chain that cannot be read
  verifies as an empty one; `:498` the first row of a range is trusted for its
  predecessor.
* `database.py:3504` a run that overlaps the one that delivered can turn the row to
  `failed_permanently` (line 3485 calls delivered final).  `:3414` the first attempt
  and five retries make six attempts, the comment (3397) says five with the original
  [`WebhookAttempts`].
  `main.py:772` a retry whose webhook has been removed is counted as a failed attempt
  and rescheduled until it is spent; the comment says it stops trying
  [`WebhookRemoved`].
* `main.py:2136` what the PreFilter denies, and what fails, has no row in the audit
  trail that should hold "every AI decision" (`README.md:5` of the repository).
  `:2187` a decision blocked by its quota has no outcome; the column of the ledger
  does not take NULL, so its proof never reaches the database.

Scores:

* `sdamodule.py:357` `any()` of a Boolean raises `TypeError` for the first data
  requirement, and every seeded area but DEFAULT has some: SDA never advises
  there.  The loop takes the missing list as "0 recs = good"
  (`cgc_loop.py:762`), which an SDA that works cannot score, since it always
  recommends something.
* `cgc_loop.py:824` HEALTHCARE has calibration rows and no weights: it is weighed
  as DEFAULT, where critical frameworks are not enforced; at LOW even an ECM that
  raised does not keep a request from being approved.
* BANKING and FINANCE are never approved above LOW by the seeded rows, but by the
  fallback of the risk model BANKING is: fallback rows are more lenient than
  seeded ones, and stay in the cache of the instance after the database is back
  (`cgc_db_loader.py:198`), where 38-42 say "until DB connection is restored".
* `pfmmodule.py:409` an area without critical factors has its risk lowered by a
  fifth, the comment says "Penalty for missing factors"; no seeded area has any.
* RETAIL is less risky at MEDIUM (20 * .95) than at LOW, and with data that is hardly
  filled approved at MEDIUM only; a PAN that failed (.5)
  scores better than poorly filled data; one entity earns the whole bonus of ten
  (`panmodule.py:496`).
* The limit of HIGH is 4 domains where RETAIL and AUDIT have 3 and DEFAULT 2: only
  a request that repeats a domain reaches it (`PreFilter.py:459`).

Calibration:

* `calibration.py:125` the UPDATE is committed before the changelog is written: when
  the INSERT fails, the row has changed and nothing says so, against "no code path
  that updates a calibration row without also writing its changelog entry"
  (21-24) [`CalibrationSilent`].
* `calibration.py:104` reads the row in a transaction of its own, so of two
  concurrent updates the later one's `previous_value` may be from before the earlier
  one.  One that sends its whole form back may undo the other's change and be
  logged as no change: `a` is 0 when it is read, another update makes it 5, and the
  0 written back is logged as 0 after 0.
* The other instances keep the old row until they are replaced; so does one that
  cached the fallback when its query failed.

SCM and compliance:

* `scmmodule.py:1188` `verify_signature` verifies over the hash of the data, while
  `sign_data` signs the data (1118): the verdict is always INVALID.  `:1220` a
  rotation discards the old data key, and with it what it encrypted; after a restart
  tenants have no data key (`encrypt_data` raises) and their versions begin at 1
  again.
* AWS's data key is raw bytes, which Fernet refuses, and its RAW signatures are
  limited to 4096 bytes.  `:573` no caller gives a node its predecessor, so
  `verify_tenant_chain` is False from two nodes on.  `:1264`
  `get_compliance_audit_report` ends in a method its class lacks.
* `:640` a transaction whose commit failed stays open on the one connection and is
  published by the next commit, whoever makes it; a registration whose commit
  failed bars its tenant until the restart.
* `cgc_loop.py:631` the response refers to the profile of its industry, which the next
  cycle of that industry overwrites (`compliance_engine.py:202`): proof, webhook
  and answer may tell another request's evaluation.  Only banking and healthcare
  have profiles, all others share banking's.  A report's file is named for the
  second.

Accounts, connections, tenants and billing:

* `auth_system.py:729` the sign-in that read an account before it was deleted gets its
  session afterwards, and `verify_token` does not ask whether the account exists.
* `auth_system.py:274` the same happens to a session inserted after the deletion has
  looked for the sessions and before its COMMIT (275): it is there when the account
  goes, and stays.  `delete_user` says it revokes every session the account holds (663).
* `saml_sso.py:154` a test is recorded on whatever row the domain has by then: if the
  draft was deleted and drafted anew, the new one counts as tested.
* `main.py:973` a claim of an application again writes its billing row back to FREE.
  `:1146` a rotation revokes before it issues, so for a moment no key is valid,
  which its docstring rules out (1137).  A
  caller that signs in with an API key is known by an email made from it, so
  its rotation revokes the keys that it issued and no others.
* `main.py:1757` changes and cancellations of a subscription keep the plan, and do
  not ask which subscription the row has: those of an old one change the row of the
  new one.

## Not modelled, and the plan

Next:

1. What is only model-checked above: the types of `Decisions` for rows without
   negative numbers, and the bound on a webhook's attempts.
2. An instance of `Decisions` inside `GovernanceDecision` in place of the free
   outcome, with a theorem that the decision loop refines it.
3. The error monitor's deduplication and flow scoring.

Left out for good:

* the JSON-file fallback (development without PostgreSQL), connection and schema set-up;
* password reset, password change and logout, which no route calls; the merkle
  nodes' hashes, access policies and dashboards of SCM;
* text matching inside the guards, DNS and HTTP, cryptography, PDF and XML;
* the policy manager, the model registry, launch readiness, analytics: reads or
  single statements; the SDKs and the dashboards.

`PROJECT.json` ("components") gives the reason for each.
