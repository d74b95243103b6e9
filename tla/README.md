# A verification of the transaction ledger

These modules model the transaction ledger of this repository: a FastAPI
service that opens accounts and moves money between them, exactly once per
`Idempotency-Key`, over one PostgreSQL database that any number of stateless
instances share. TLC checks the model on small instances; TLAPS proves the
results that matter most for every value of the constants.

## 1. The system

### Components

| Component | Source | State | Operations | Correct when |
| --- | --- | --- | --- | --- |
| Idempotency layer | `app/services/idempotency.py` | the row of a key, its uncommitted claim | `require_key`, `fingerprint`, `replay`, `execute_once` | a key has one effect and one story; a refusal leaves the key free; a 409 is never answered to a retry |
| Transfers | `app/services/transfers.py` | row locks, two balances, two entries | `_lock_accounts`, `_move_money` | money is conserved, balances stay in range, decisions rest on current balances, nobody deadlocks |
| Account opening | `app/services/accounts.py` 19-56 | a new row of `accounts` | `create_account`, `_open_account` | one account per key, its opening balance recorded for ever |
| Reads | `app/services/accounts.py` 59-98, `app/routers/accounts.py` | none | `get_balance`, `list_transactions` | what a client was told of, it sees; a transfer is listed once, with the other side of it |
| Tables | `app/models.py`, `migrations/versions` | `accounts`, `ledger_entries`, `idempotency_keys` | CHECKs, primary key, deferred conservation trigger | the constraints are backstops: they never fire |
| Sessions | `app/db.py`, `app/config.py` | transactions, the connection pool, `lock_timeout` | `get_db`, commit, rollback, close | no wait for a lock is unbounded, connections come back |
| Endpoints and handlers | `app/routers`, `app/main.py`, `app/errors.py` | none | status, code, `Idempotent-Replay`, `Retry-After` | what the client is told is true |
| Schemas | `app/schemas.py` | none | parsing, four-decimal serialisation | exactly what the ledger holds is accepted; equal amounts hash equally, different requests do not |
| Limiter, probes | `app/main.py` 78-107, 195-224 | tokens of the thread limiter | `lifespan`, `/health`, `/ready` | threads do not queue for connections; every request is answered |
| Boot | `docker-entrypoint.sh`, `migrations/env.py`, `migrations/versions` | the schema, `alembic_version`, the rows of an older release | `alembic upgrade head` | the version is that of the schema, what serves is the head, a retry survives the deploy |
| Logging | `app/logging.py` | none | log lines | out of scope |

### How they interact

A router checks the header (`require_key`), then calls a service, which hands
`execute_once` a callback. `execute_once` owns the transaction: it looks for
the key (fast path), closes that read transaction, inserts the key's row, lets
the callback lock rows and write, and commits. Instances interact only through
the database, in three ways: an INSERT of a key waits for an uncommitted
INSERT of the same key; a `SELECT ... FOR UPDATE` waits for the holder of the
row; and everybody reads what is committed. Exceptions travel back through the
`except` branches of `execute_once`, which roll back and translate the
sqlstate, to the handlers of `app/main.py`.

Inside an instance a request takes a worker thread and then a connection, and
gives them back in an order that depends on its endpoint. Before there is an
instance, its container brings the schema to the head, beside others that do
the same. In front of a handler, pydantic decides what an amount is.

### What is hard

Copies of a request that all miss the fast path; a winner that rolls back
while a loser waits for it; keys recycled across endpoints; lock timeouts,
crashes and lost connections at any statement, in particular around COMMIT;
balances read before a lock wait and used after it; two kinds of lock whose
orders have to fit together; the largest balance and the last unit of a
balance. Timestamps taken before the wait and shown after it; connections that
outlive the thread that took them; containers that migrate at once; numbers
that are equal and not written alike. `PROJECT.json` lists each at the line where it bites, with the
properties that would notice.

## 2. The modules

| Module | What it is |
| --- | --- |
| `Requests` | the values that cross the API and the pure functions on them: boundary check, fingerprint, stored row, replay, table of errors |
| `LedgerService` | the core state machine: attempts at the two mutating endpoints over one database |
| `Ledger` | the abstract specification: a book of accounts on which a key has at most one effect, in one step |
| `LedgerSafety` | the properties, the fairness, and the refinement mapping to `Ledger` |
| `LedgerInvariant` | the inductive invariant `IInv`, in named parts |
| `MCLedgerService` | instances for TLC |
| `LedgerProofs` | `Spec => []IInv` |
| `LedgerTheorems` | what follows from it |
| `LedgerStories` | what the row of a key tells: three more properties, each with an invariant of its own |
| `LedgerMoney` | sums over entries, and what the money rests on: two more |
| `History`, `MCHistory`, `HistoryProofs` | the read endpoints beside the steps of `LedgerService`, and `created_at` |
| `Pools`, `MCPools`, `PoolsProofs` | worker threads and connections inside one instance, the probes, a database that falls silent |
| `Migrations`, `MCMigrations`, `MigrationsProofs` | the entrypoint, the three revisions, and retries that span a deploy |
| `Boundary`, `MCBoundary`, `BoundaryProofs` | amounts as they are written, accepted, rendered and hashed |

`LedgerService` EXTENDS `Requests`; `LedgerSafety` EXTENDS `LedgerService` and
INSTANCEs `Ledger`. `LedgerInvariant` EXTENDS `LedgerSafety`; the proofs and
`MCLedgerService` EXTEND it. `LedgerProofs`, `LedgerTheorems`, `LedgerStories`
and `LedgerMoney` EXTEND one another in this order, and `HistoryProofs` EXTENDS
the last. `History` EXTENDS `LedgerSafety` and runs its
queries beside the very steps of `LedgerService`, so a list is read while keys
are claimed, commits fail and answers are lost. `Pools`, `Migrations` and
`Boundary` share no state with the ledger: each stands for a layer that
`LedgerService` takes as given. `Boundary` says which amounts get to it and
what their fingerprints are, `Pools` relies on its calls ending
(`EveryCallEnds`), and `Migrations` on `execute_once` as a whole.

### State and code

An *attempt* is one execution of a handler, with a database session of its
own. A client's retry is another attempt with the same call. Since instances
keep no state, an instance is not a variable, and its death is the crash of
the attempts it was running.

| Variable | In the code |
| --- | --- |
| `accounts`, `balance`, `opening_balance`, `ledger_entries`, `idempotency_keys` | the committed tables |
| `claimant` | whose uncommitted row the primary-key index has under a key |
| `row_lock` | who holds `FOR UPDATE` on an account |
| `pc` | the next statement of an attempt that has to wait or can fail |
| `request`, `answer` | what it was sent, and what it answered |
| `session` | balances in the identity map of its session |
| `draft`, `entries`, `new_account` | its uncommitted rows |

| Actions | Code |
| --- | --- |
| `Receive`, `RejectAtBoundary` | the endpoint, `require_key`, the same-account check |
| `FastPathHit`, `FastPathMiss` | idempotency.py 149-159 |
| `Claim`, `LoseRace`, `ReplayWinner` | 172-176, 186-202 |
| `LockAccount`, `AccountMissing` | one turn of the loop of `_lock_accounts` |
| `InsufficientFunds`, `AmountOutOfRange`, `MoveMoney` | transfers.py 111-152, with the 22003 of its flush |
| `OpenAccount` | `_open_account` |
| `Commit`, `CommitUnacknowledged`, `CommitThenCrash` | the COMMIT at 177 and its three outcomes once it is durable |
| `LockTimeout`, `UnhandledError`, `Crash` | 55P03, every unmapped exception, the death of the instance |
| `Sever` | the connection is lost and the server does not notice; db.py 10-31 sets no keepalive and no idle-in-transaction timeout |
| `LateCommit`, `OrphanEnds` | what the server does with the transaction later: carry out a COMMIT that had been sent, or roll back |
| `OutsiderLocks`, `OutsiderUnlocks` | a `psql` session; tests/test_lock_timeout.py 77-92 |

A step of the model is a stretch of code between two points where other
transactions can be seen or waited for, so its parts cannot be told apart from
outside. The work between the row locks and COMMIT is one step because it
touches only locked or invisible rows.

PostgreSQL itself is external and modelled from how the code relies on it:
READ COMMITTED, an INSERT that waits for an uncommitted row of the same key,
`FOR UPDATE` that returns the row as it is after the wait, atomic COMMIT, and a
rollback when it finds a connection gone.

A severed attempt is an *orphan*: its client has an error or nothing, its
handler is gone, and the server still has its transaction, with its key and
its rows. An orphan is `in_doubt` when its COMMIT had been sent, which the
server may carry out after the client has retried. A statement that waits for
a lock when its connection is severed is taken to end together with its wait,
and an attempt that has not claimed its key holds nothing, so severing it is
the same as its crash.

### Abstractions

* Money counts units of 10^-4 up to `MaxBalance`, which stands for the
  largest NUMERIC(20,4). The scale a client wrote is a field that must not
  matter.
* A header is its text, with or without blanks around it; the texts that are
  not keys are `BlankText` and `OverlongText`.
* Amounts are values, so the sign of a zero is not there; `Boundary` has it.
* SHA-256 is injective. A uuid4 is fresh: a transfer is named by its attempt,
  an account by an id nobody uses.
* Timestamps, log lines, messages and the details of errors are left out.
* Bodies that fail validation never reach a handler; `Boundary` sends them.

### `History`

`begun` is `now()` of a write transaction, which PostgreSQL fixes at its first
statement, before any wait; `clock` moves by at most one with each, so two may
tie. The other steps are those of `LedgerService`, held back only until their
transaction has begun. A query goes through `Ask` (what its client has been
told is remembered in `told`), `FindAccount` or `AnswerMissing` (`get_account`),
and `AnswerList` (the self-join and its cap) or `AnswerBalance`; each is a
statement with a snapshot of its own. Ids of entries are in no order of events.

### `Pools`

One instance. `GetThread` is Starlette handing a sync endpoint to a worker
thread of the limiter `lifespan` sizes (main.py 82-98); `Checkout` and
`CheckoutTimeout` are the pool of db.py; `Return` is the handler returning.
What it gives back differs: `execute_once` has ended its transactions, so a
mutating call has no connection any more, but a read, or a replay that lost the
race for its key (idempotency.py 190-202), keeps its connection until `get_db`
closes the session (`Close`). Between, FastAPI renders a response that has a
`response_model`, in a worker thread again (`GetThreadToRender`, `Render`).
`Stall` and `Recover` are a database that is connected and silent. FastAPI,
Starlette, AnyIO and SQLAlchemy are external and modelled from how the code
uses them.

### `Migrations`

`ReadVersion` is alembic reading `alembic_version` without a lock; `Lock` the
first statement of an upgrade getting what it locks; `Upgrade` one revision in
the one transaction of env.py 37-38; `UpgradeFails` a revision that finds its
objects there already, after which `set -e` ends the container; `Commit` is
followed by `exec uvicorn`. `draft` is the database as that transaction sees
it, and what is committed when there is none. A schema is the set of objects
that a later revision or the application depends on. `Init` is a database at
any revision, with any rows its release could have written, and `Serve` is a
retry, or a first call, on an instance that is up.

`Crash` and `Disconnect` strike between any two of these, and the server
notices and rolls back. `Sever` is a connection, or a container, that is lost
without the server noticing: the transaction stays as an orphan with its locks,
until the server gives it up (`OrphanEnds`) or, if its COMMIT had been sent,
carries it out (`LateCommit`). `OutsiderLocks` and `OutsiderUnlocks` are a
session of psql that keeps what a revision wants to lock. The engine of env.py
30-34 has no `lock_timeout`, unlike that of db.py, so a boot waits for either
for as long as it lasts. That all revisions lock one thing, at the first
statement, is an abstraction; a boot that is severed before it has that lock
holds nothing, and is the same as one that crashed.

### `Boundary`

A Decimal has a sign, a coefficient and an exponent. `Fits` is what pydantic
makes of `max_digits` and `decimal_places`, as an amount was written and as it
is normalised. `normalize()` is arithmetic: it first rounds a coefficient that
is longer than the precision of Python's decimal context (`Rounded`, 28 digits
in CPython's default context, the constant `Precision` here), and then strips
zeros (`Stripped`). So an amount of more digits passes the limits when rounding
leaves no finer digit, and keeps its own digits afterwards.
`PositiveMoney`, `NonNegativeMoney`, `Accepted` are the models; `Rendered` is
`f"{v:.4f}"`, half to even and with the sign of a zero, which is what the
fingerprint hashes; `Stored` is what NUMERIC makes of the amount. Then
`Reject`, `Perform` and `Retry` are calls under one key, and `Overflow` is an
accepted amount that rounding takes past the largest one: as an opening
balance it is refused with 22003, which `execute_once` answers with a 422, and
no balance covers it in a transfer.

### "Wrong" definitions

Some definitions are marked `Wrong:`. None is used by the specification. Each
is a bug the code could have had (`dest.balance -= amount`, unsorted locks, a
balance read before the wait, a forgotten rollback, an upsert for an insert, a
hash that keeps the scale), and `PROJECT.json` says which property fails when
it replaces the definition below it.

## 3. What is checked

| Property | Module | It says |
| --- | --- | --- |
| `BooksBalance` | `LedgerSafety` | entries net to zero and every balance is its opening balance plus its entries, in every committed state |
| `LockedReadsAreCurrent` | | the balance the funds check rests on is the committed one |
| `BackstopsNeverFire` | | no CHECK and no trigger ever refuses a transaction the code takes to COMMIT |
| `KeyAndEffectTogether` | | a committed key has its one complete effect, and every effect its one key |
| `OneStoryPerKey` | | all successes under a key have one body and one meaning, and one 201 at most |
| `OnlyRealConflicts` | | a 409 is answered only if another call of another meaning may have committed under the key |
| `RefusalsBurnNoKey` | | a refused call leaves the key free |
| `WinnerIsReadable` | | the loser of a race finds the winner's row |
| `NoDeadlock` | | no set of attempts waits for itself |
| `LocksHaveLiveOwners` | | whoever holds a lock has a transaction that is still open; rows are held under a claimed key only |
| `RefusalsAreJustified` | | 404, 422 funds and 422 range are true of the committed state at that moment |
| `AppendOnly` | | committed rows that should not change do not |
| `ImplementsBook` | | the service refines `Ledger` |
| `EveryCallEnds` | | every call that is received is answered, or its instance or its connection is lost |
| `ListsTellTransfers` | `History` | every item is a transfer of the account, signed by its side, with the other side as counterparty, once |
| `ListsShowWhatWasTold` | | a transfer that was answered before the list was asked for is in it, or a full page of newer ones is |
| `ListsOnlyGrow` | | what one list shows the next one shows, unless a full page of newer ones does |
| `BalancesShowWhatWasTold` | | a balance is the opening balance plus some of the entries, those the client was told of among them |
| `NoAccountIsLost` | | an account a client was told of is never a 404 |
| `HoldersAreAtWork` | `Pools` | threads and connections are held by requests that are at work with them, and by reads and raced replays until `get_db` closes |
| `OnlyLeftoversExhaustThePool` | | a thread finds the pool exhausted only while a request without a thread holds a connection |
| `EveryRequestIsAnswered` | | every request is answered once the database answers again |
| `SchemaIsItsVersion` | `Migrations` | `alembic_version` names the schema there is |
| `ServedSchemaIsHead` | | whoever serves, serves at the head |
| `RetriesSurviveTheDeploy` | | a retry of a request the previous release recorded replays, and any other request under its key conflicts |
| `LosersFindTheHead` | | an upgrade that fails because of another leaves the head behind |
| `EveryBootEnds` | | unless a session of others keeps what a revision locks for ever, every boot ends in serving, or in a container that is gone |
| `AcceptedIsStorable` | `Boundary` | what the column holds is accepted, with the right sign; nothing else is that the decimal context can hold; a longer amount that is accepted is moved by half a unit in the context's last digit at most |
| `ReplaysAreOfTheSameRequest` | | what replays has the endpoint, the fields, the sign and the number of the first call; of amounts longer than the context, nearly the number |
| `PositiveRetriesReplay` | | a positive amount written in another way replays |

| Run | Instance | Faults | Properties | Distinct states |
| --- | --- | --- | --- | --- |
| `HotKey` | 3 attempts, 2 keys, 3 accounts (2 open), 10 calls, `MaxBalance` 3 | timeout, crash, drop, sever | the keys, `BooksBalance`, `AppendOnly`, `RefusalsAreJustified`, `ImplementsBook`, `IInv`, `TypeOK` | 107,177 |
| `Contention` | 3 attempts, 3 keys, 3 accounts, 5 calls, `MaxBalance` 4 | timeout, crash, drop | the money, the locks, `RefusalsBurnNoKey`, `RefusalsAreJustified`, `ImplementsBook`, `IInv` | 26,434 |
| `HeldRows` | 3 attempts, 2 keys, 2 accounts, 2 calls | timeout, outsider, sever | `EveryCallEnds` | 56,516 |
| `History` | 2 attempts, 3 keys, 3 accounts (2 open), 3 calls, 2 queries, page of 1 | crash, sever | those of `History` | 1,219,066 |
| `Pools` | 5 requests (2 reads, a raced replay, a write, a probe), 2 threads, 2 connections | stall | `HoldersAreAtWork`, `OnlyLeftoversExhaustThePool`, `EveryRequestIsAnswered` | 15,768 |
| `Boot` | 3 instances, 1 key, 3 bodies | crash, disconnect, sever, outsider | those of `Migrations`, `IInv` | 186,488 |
| `Boundary` | 18 coefficients, 5 exponents, both signs, 2 calls, NUMERIC(3,1), a context of 4 digits | | those of `Boundary`, `TypeOK` | 47,321 |
| `NotApplied` | as `HeldRows` | drop | `InternalErrorWasNotApplied`, violated | |
| `Surplus` | as `Pools` | stall | `ThreadsFindConnections`, violated | |
| `Probe` | 3 requests (2 writes, the liveness probe), 2 threads, 2 connections | stall | `LivenessWithoutDatabase`, violated | |
| `Race` | 2 instances, 1 key, 3 bodies | none | `NoBootFails`, violated | |
| `NegativeZero` | as `Boundary` | | `EquivalentRetriesReplay`, violated | |

The safety runs of the ledger use symmetry of attempts, which the specification
does not tell apart; the liveness runs do not, and neither does `History`,
which orders attempts as ids. Deadlock is checked, except in `Pools`, `Surplus`
and `Probe`, where the requests run out, and in `Boundary` and `NegativeZero`,
where the calls do.

**Why the bounds are enough to be of use.** Three attempts give every race the
code speaks of: a winner, a loser that waits, and a third that arrives after
either has ended, so that a key can be claimed, released by a failure, claimed
again and replayed. Three accounts are the shortest cycle of transfers that is
not a pair; the pair occurs as well. The balances are chosen so that two
transfers fit one by one and not together, that the last unit can be spent,
and that a credit ends exactly at `MaxBalance` and one above it. The number of
attempts bounds the behaviours: each attempt runs once, and `Quiescent` is the
stutter of a system with no calls left, so that TLC's deadlock check still
finds every real standstill.

In `History` two transactions are enough for one to begin first and commit
last, and a page of one is full with the first entry, so every order of
begin, commit and read meets the cap; `clock` is bounded by the attempts. In
`Pools` two connections can both be held by reads without a thread while two
other requests have both threads, which is the standstill `pool_timeout` has to
end; the fifth request is one more that waits. In `Boot` the third instance
meets an upgrade that has already been lost by the second; instances may be
restarted without bound. In `Boundary` the coefficients and exponents are on
both sides of each of the three limits, with zeros that normalisation takes
away, ties that rounding would meet, and five-digit coefficients, one more than
the context holds, that round down to an amount of the column, up to one, and
up past the largest; two calls are one and its retry (`MaxCalls`).

**Fairness.** `FairSpec` of `LedgerSafety` has weak fairness of `Progress` for
each attempt: the server runs the handlers it has started. It has strong
fairness of `LockAccount`, because PostgreSQL queues the waiters of a row, so a
waiter is not passed over for ever. It has weak fairness of `LockTimeout`: a
wait that lasts is ended after `lock_timeout` (db.py 16-30). No failure is
fair, an outsider may keep a row for ever, and an orphan its key and its rows.

In `Pools` a thread that is free goes to the request that has waited longest
(AnyIO's limiter is a queue: strong fairness), and each step of code that runs,
and `pool_timeout`, are weakly fair. Whether the database comes back is an
assumption: `RecoveringSpec` of `Pools` makes it, `FairSpec` of `Probe` does
not. In `Migrations` the steps of a boot are weakly fair and `Lock` strongly,
because PostgreSQL queues those that wait for a lock; nobody has to start an
instance, nothing has to fail, and neither an orphan nor an outsider has to let
go. `EveryBootEnds` therefore assumes that the lock is free of them again and
again: env.py sets no `lock_timeout`, and without that assumption a boot can
wait for ever.

## 4. Where the code and its documentation differ

Each of these is the counterexample of a run.

* `NotApplied`: INTERNAL_ERROR says "The request was not applied"
  (main.py 184, errors.py 156). If the connection drops after COMMIT is durable
  and before it is acknowledged, the request was applied. The retry is still
  safe, by `OneStoryPerKey`.
* `Surplus`: "threads <= pool_size + max_overflow" is to keep threads from
  queueing on connection checkout (main.py 82-96). A read gives its thread back
  before its connection, so they queue all the same, and may wait for a
  connection whose holder waits for a thread. `pool_timeout` ends it
  (`EveryRequestIsAnswered`), and what does hold is
  `OnlyLeftoversExhaustThePool`.
* `Probe`: `/health` is to be answered whatever the database does (main.py
  196-203). It is a sync endpoint, so it needs a worker thread, and while the
  database is silent all of them may be waiting for it: `lock_timeout` bounds
  waits for locks, not for answers.
* `Race`: "Alembic takes a lock so that is safe" (docker-entrypoint.sh 5-7). It
  takes none before it reads the version, so the second of two instances can
  fail, and `set -e` ends its container. The schema stays right, and a restart
  comes up.
* `NegativeZero`: "Equivalent encodings are treated as the same request when
  retried" (schemas.py 83-84). "-0" is accepted, equals 0, renders "-0.0000"
  and hashes differently, so such a retry conflicts. Of positive amounts the
  sentence is true (`PositiveRetriesReplay`).

Others were met while modelling and have no run.

* `Retry-After` is said to be driven by the class's `retryable` flag (main.py
  137-138), and InternalError sets the flag (errors.py 157), but the catch-all
  handler (main.py 184-185) sends no such header.
* The id is a tie-breaker "so paging over this later is stable" (accounts.py
  84-85). `created_at` is the start of a transaction, so an entry can become
  visible behind one that was read; a page that starts where the last one ended
  would miss it. There is no paging yet.
* "Silently rounding 10.00001 to 10.0000 would mean the amount the client sent
  and the amount that moved are different numbers" (test_error_contract.py
  81-83), and "same fingerprint" means "same request" (schemas.py 88-93). Of
  amounts with more than 28 significant digits neither is quite so: a transfer
  of "0.10000000000000000000000000000001" is accepted, moves 0.1000, and replays
  a transfer of 0.1 under its key. "9999999999999999.99999999999999999999" is
  accepted too, and rounds to one more than the column holds: an account is
  refused with AMOUNT_OUT_OF_RANGE and a transfer for lack of funds, where a
  shorter amount of that size is a validation error.
  `AcceptedIsStorable` and `ReplaysAreOfTheSameRequest` say how far it can go.
* db.py bounds every wait for a lock by `lock_timeout`; the engine of env.py
  30-34 does not, so a boot waits without bound for a session that keeps a
  table, one whose connection is lost included. `EveryBootEnds` says what is
  left.
* `downgrade()` of 7d1e9b4c2a80 drops the column `operation` and keeps the rows
  of accounts; a later `upgrade()` would label them 'create_transfer'. "Existing
  rows can only have come from transfers" is true of the first upgrade.
* "A bad deploy is fixed by shipping the previous image" (README.md 187-189):
  an older image would find a revision in `alembic_version` that it does not
  know, and alembic would stop its entrypoint.

## 5. What is proved

For the ledger: for any sets of attempts, keys and calls, any finite set of
accounts, any `MaxBalance` and any faults, under these assumptions and no
others:

* `MaxBalanceAssumption`: the largest balance is a positive number.
* `AccountAssumption`: account ids are naturals and finitely many. The code
  compares uuids, which are 128-bit numbers.
* `IdentityAssumption`: a fresh uuid4 of a transfer is not that of an account.
* `CallsAssumption`, `InitialAccountsAssumption`, `MarkersAssumption`: calls
  are well-formed, the accounts that exist at the start hold a legal balance,
  and the markers for "nothing" are no values.

For `History`: besides, for any set of queries and any positive
`MaxTransactions` (`QueryAssumption`); ids are numbers in no order of events,
as uuids are (`OrderedIds`). For `Pools`: for any finite set of requests of
any kinds and any pool that has a connection (`RequestAssumption`,
`SizesAssumption`). For `Migrations`: for any sets of instances, keys and
bodies and any faults (`BodyAssumption`, `SentinelAssumption`). For `Boundary`:
for any precision and scale of the column, any larger precision of the decimal
context, as 28 is larger than 20, any coefficients, any exponents that have a
least one, and any number of calls (`SizesAssumption`). The least exponent reaches
down to the last decimal place, and the scale is less than the precision, as 4
is less than 20: a column without a digit in front of the point holds 0, and
pydantic, which counts one digit in a "0", would refuse it.

| Theorem | Module | Statement |
| --- | --- | --- |
| `Invariance` | `LedgerProofs` | `Spec => []IInv` |
| `TypeCorrect` | `LedgerTheorems` | `Spec => []TypeOK` |
| `ReadsAreCurrent` | | `Spec => []LockedReadsAreCurrent` |
| `RecordNeverVanishes` | | `Spec => []WinnerIsReadable` |
| `NoLockIsLeftBehind` | | `Spec => []LocksHaveLiveOwners` |
| `DeadlockFreedom` | | `Spec => []NoDeadlock` |
| `CommittedRowsStay` | | `Spec => AppendOnly` |
| `RefusalsRestOnFacts` | | `Spec => RefusalsAreJustified` |
| `KeysSurviveRefusals` | | `Spec => []RefusalsBurnNoKey` |
| `Refinement` | | `Spec => ImplementsBook` |
| `OneEffectPerKey` | `LedgerStories` | `Spec => []KeyAndEffectTogether` |
| `EveryoneHearsTheSame` | | `Spec => []OneStoryPerKey` |
| `RetriesNeverConflict` | | `Spec => []OnlyRealConflicts` |
| `ConstraintsAreBackstops` | `LedgerMoney` | `Spec => []BackstopsNeverFire` |
| `MoneyIsConserved` | | `Spec => []BooksBalance` |
| `ListsAreTrue` | `HistoryProofs` | `HistorySpec => []ListsTellTransfers` |
| `ListsAreComplete` | | `HistorySpec => []ListsShowWhatWasTold` |
| `ListsGrow` | | `HistorySpec => []ListsOnlyGrow` |
| `BalancesAreCurrent` | | `HistorySpec => []BalancesShowWhatWasTold` |
| `AccountsAreFound` | | `HistorySpec => []NoAccountIsLost` |
| `NothingIsLeaked` | `PoolsProofs` | `Spec => []HoldersAreAtWork` |
| `SizingSuffices` | | `Spec => []OnlyLeftoversExhaustThePool` |
| `Invariance` | `MigrationsProofs` | `Spec => []IInv` |
| `VersionsAreTrue` | | `Spec => []SchemaIsItsVersion` |
| `InstancesServeTheHead` | | `Spec => []ServedSchemaIsHead` |
| `DeploysAreNotNoticed` | | `Spec => []RetriesSurviveTheDeploy` |
| `LosersComeUpNext` | | `Spec => LosersFindTheHead` |
| `TypeCorrect` | `BoundaryProofs` | `Spec => []TypeOK` |
| `AcceptedIsWhatTheColumnHolds` | | `Spec => []AcceptedIsStorable` |
| `ReplaysAreHonest` | | `Spec => []ReplaysAreOfTheSameRequest` |
| `RewritingReplays` | | `Spec => []PositiveRetriesReplay` |

**The argument.** No property of the ledger is inductive by itself. That
balances stay in range when a transfer commits depends on what it read under
its locks; that what it read is still true depends on nobody else writing a row
it holds; that depends on writers holding the rows they write, and on keys
being claimed by one attempt at a time. `IInv` has a part for each link:
`CallsAtWork` (an attempt is on the branch of its call), `ClaimsAreExclusive`
(a claimed key has one claimant and no committed row), `RowsFollowTheOrder`
(rows are held by transfers, in sorted order), `LockedReadsAreCurrent`,
`DraftsAreOwn` (uncommitted rows have one owner), `CommitsAreReady` (a
transaction at COMMIT has computed its effect from the committed balances) and
`ResourcesAreSettled` (what a key names is open or over). `LedgerProofs` has
one lemma per kind of step; the four ways a COMMIT becomes durable share
`PublishStep`, and every path that rolls back shares `RollbackStep`.

*Deadlock.* An attempt that waits for a key holds nothing, so a circle would
consist of attempts that wait for rows only. Each holds the smaller of its two
rows, so the row it wants is larger than the row the one before it wants. A
finite set of wanted rows has a largest (lemma `Largest`).

*Refinement.* Only `Publish` changes the tables (`OnlyCommitsWrite`), and by
`CommitsAreReady` it is one `Move` or one `Open` of the book, under a key that
had no effect and an id nobody has.

*Stories.* `Together` is inductive with `IInv`: a commit adds one row and one
effect under an id that, by `ResourcesAreSettled`, no row names yet, and
accounts that were there at the start are never taken for effects.
`Stories` says of every success that the row of its key has its operation, its
fingerprint and its body, and of every row that an attempt which asked for it
may have committed it. `HowAnswered` lists the three ways to be answered; a
second 201 would need a second commit under the key, which `ClaimsAreExclusive`
excludes; and calls mean the same exactly when operation and fingerprint agree
(`MeaningIsFingerprint`), so a replay that refuses has a real difference to
point at.

*Money.* `LegSum` is a fold, that is the solution of an equation over the
subsets of a set. `LedgerMoney` shows by induction on their size that the
equation has a solution and only one, whatever the set it is solved on, so that
an entry may be taken out first, last or in between (`SumEquation`,
`SumWithout`, `SumWith`). The induction is `EveryNumber`, over the set of the
numbers that have the property, since the induction theorems of the library
take operators that the provers cannot instantiate. `Books` is what a commit
then preserves: the entries are finitely many, each of an account that is open,
at most one per transfer and account, and they balance. A transfer commits the
two legs of `LegsCancel`, under an id that has none yet (`NoLegsYet`); an
opening adds a balance that is all opening balance. The constraints have
nothing to refuse because at COMMIT, by `CommitsAreReady`, the balances are in
range and the legs cancel.

*Reads.* A step of `History` is a step of the ledger or leaves it alone
(`WritesAreSteps`), so `LedgerFacts`, which is all of the above, holds there.
`EntryHasRow` and `TransferRow` lead from an entry to the row of its key and
so to exactly two legs, which is why the join finds one counterparty
(`ItemsAreTransfers`, `ItemsAreOnce`). `FirstOfTheList` is about pages: the
place of a transaction is the number of those before it, places are taken once
and without gaps, so a page that leaves something out is full, and of
transactions that are no older. `HistoryIInv` says of each query that what it
has listed is still an item (`PageStands`), that what its client had been told
is there or was cut off by a full page (`Shows`, `Reports`, `Misses`), and of
two lists that the later extends the earlier (`Extends`). A query that waits
depends on `TransfersAreWhole` and `ItemsStay`: a committed transfer gains no
entry and keeps its time, because its attempt has finished and will not begin
again (`WaitingStep`). A query that moves meets a ledger that stands still
(`MovingStep`).

*Pools.* Threads number at most `Tokens`. If no connection were with a request
that has no thread, all connections would be with threads, and the thread that
waits for one would be one too many.

*Migrations.* `UpgradesAreSerial` says that one transaction at a time migrates
and that what it started from is still committed, or else the head is; the
second of two therefore fails at its first revision. It speaks of the
transaction and not of its instance, so it outlives a connection that is lost:
what an orphan may still commit is a step from what is committed now.
`RowsAreClaims` says that a row is of the first request with its key and
labelled as its version has it.

*Boundary.* `PowerOfTen` is a recursive function; that it has a value for
every number is proved first (`PowerEquation`), with the same induction, then
that it turns sums into products and keeps the order. A coefficient lies
between two powers of ten, which is its length, and is a number without
trailing zeros times a third (`LengthBounds`, `ZerosFound`). Stripping zeros
leaves the whole digits alone and makes the decimals as few as they can be
(`StrippedIsSmallest`), so the limit on decimals is divisibility by the last
place (`DecimalsMeanPlaces`) and the limit on whole digits is a comparison
(`WholeDigitsMeanSize`), both of the rounded amount. Rounding to the precision
moves an amount by half a unit at most, never makes one too small to be too
large, and changes nothing the column or the context holds (`RoundedIsNear`).
An amount below the largest has less than a last place left to lose, because
the context has more digits than the column; so what fits is nearer than half
a last place to a multiple of it, and that is where the fingerprint and the
column round it to (`HalfEvenIsNearest`, `StoredIsNearest`, `WhatFits`). Equal
renderings are thus equal stored amounts, and what they were rounded from is as
near as two roundings (`StoredAlike`). `IInv` of `BoundaryProofs` ties the
latest status to the call it answers and to the row.

**Only model-checked.** Every invariant and every action property of a passing
run is stated by a theorem. `EveryCallEnds`, `EveryRequestIsAnswered` and
`EveryBootEnds` are liveness under fairness, which is out of the prover's
reach: they are checked on the instances of section 3 and no more is claimed.

## 6. Not modelled

* Logging and the request-id middleware: they set what only log lines read.
* OpenAPI texts, packaging, deployment files, and the tests, which are read for
  what they claim.
* Foreign keys and secondary indexes: no path of the application gets to the
  former, and the latter change no result.
* Message texts and the details of errors.
* `downgrade()` and alembic's offline mode, which nothing calls, and a previous
  release that still serves while the schema is renamed; the docstring of
  7d1e9b4c2a80 says that this is not safe.
* Amounts sent as JSON floats.
* In the ledger, what an amount was before it was rounded to the scale of the
  column. Only an amount with more than 28 significant digits is accepted and
  rounded; it is compared with a balance unrounded, so one that is rounded down
  to the whole balance is refused for lack of funds.
* Which object a revision locks, and when: the locks of DDL are one lock, met at
  the first statement of an upgrade.
* How a request that is cancelled by its client ends: the endpoints are sync
  and run to their end.

## 7. What could come next

`Boundary` and `Migrations` each state what `LedgerService` takes for granted:
that a fingerprint is the meaning of a call, and that the rows it starts from
are rows. A refinement from each to the part of `LedgerService` it stands for
would make that a theorem. If paging is added, `ListsOnlyGrow` is the property
to restate for two pages.
