---------------------------- MODULE LedgerService ----------------------------
(***************************************************************************)
(* The mutating endpoints of the ledger, POST /transfers and               *)
(* POST /accounts, served by any number of stateless instances over one    *)
(* PostgreSQL database at READ COMMITTED.                                  *)
(*                                                                         *)
(* An attempt is one execution of a handler: one HTTP request on one       *)
(* instance, with a database session of its own.  A client's retry is      *)
(* another attempt that carries the same call.  Attempts share nothing but *)
(* the database, so an instance has no state of its own here, and the      *)
(* death of an instance is the crash of the attempts it was running.       *)
(*                                                                         *)
(* The database is the committed tables plus what uncommitted transactions *)
(* hold: the entry of the primary-key index each has inserted, the row     *)
(* locks of SELECT ... FOR UPDATE, and rows nobody else can see yet.       *)
(*                                                                         *)
(* Definitions marked "Wrong:" are no part of the specification.  Each is  *)
(* a version of the definition below it with a bug the code could have     *)
(* had, kept to show that a property of LedgerSafety notices.              *)
(***************************************************************************)
EXTENDS Requests, FiniteSetsExt

CONSTANTS
    Calls,          \* the calls clients make
    InitAccounts,   \* accounts opened before the behaviour starts ...
    InitBalance,    \* ... and what each was opened with
    Faults,         \* of "timeout", "crash", "drop", "sever", "outsider"
    Nobody,         \* holder of a lock that is free
    Outsider,       \* a database session that is not this application
    NoRecord,       \* no row under a key
    NoCall,         \* an attempt that has not been sent
    NoAnswer        \* an attempt that has not answered

ASSUME CallsAssumption == Calls \subseteq Call

ASSUME InitialAccountsAssumption ==
    /\ InitAccounts \subseteq Account
    /\ InitBalance \in [Account -> Money]
    /\ \A a \in Account \ InitAccounts : InitBalance[a] = 0

ASSUME MarkersAssumption ==
    /\ Nobody \notin Attempt
    /\ Outsider \notin Attempt \cup {Nobody}
    /\ NoRecord \notin Record
    /\ NoCall \notin Call
    /\ NoAnswer \notin Answer

VARIABLES
    accounts,           \* the committed rows of accounts
    balance,            \* accounts.balance
    opening_balance,    \* accounts.opening_balance
    ledger_entries,     \* the committed rows of ledger_entries
    idempotency_keys,   \* the committed rows of idempotency_keys, by key
    claimant,           \* whose uncommitted row the index has under a key
    row_lock,           \* who holds FOR UPDATE on an account
    pc,                 \* where an attempt is in its handler
    request,            \* the call an attempt executes
    session,            \* balances as the session of an attempt has them
    draft,              \* the uncommitted row of idempotency_keys of an attempt
    entries,            \* its uncommitted rows of ledger_entries
    new_account,        \* its uncommitted row of accounts
    answer              \* what an attempt answered

tables == <<accounts, balance, opening_balance, ledger_entries, idempotency_keys>>
locks == <<claimant, row_lock>>
transaction == <<session, draft, entries, new_account>>

vars == <<tables, locks, transaction, pc, request, answer>>

LedgerEntry == [transfer_id : Attempt, account_id : Account, amount : Int]

\* What an attempt waits for next; "claim" to "commit" are inside its
\* write transaction, "fast_path" and "raced" inside a read-only one.  The
\* handler of an orphan has gone, and the server still has its transaction:
\* one nobody is going to continue, or one whose COMMIT is on its way.
Working == {"fast_path", "claim", "lock", "move", "open", "commit", "raced",
            "orphaned", "in_doubt"}

Orphans == {"orphaned", "in_doubt"}

Finished == {"answered", "crashed"}

TypeOK ==
    /\ accounts \subseteq Account
    /\ balance \in [Account -> Money]
    /\ opening_balance \in [Account -> Money]
    /\ ledger_entries \subseteq LedgerEntry
    /\ idempotency_keys \in [Key -> Record \cup {NoRecord}]
    /\ claimant \in [Key -> Attempt \cup {Nobody}]
    /\ row_lock \in [Account -> Attempt \cup {Nobody, Outsider}]
    /\ pc \in [Attempt -> {"idle"} \cup Working \cup Finished]
    /\ request \in [Attempt -> Calls \cup {NoCall}]
    /\ session \in [Attempt -> [Account -> Int]]
    /\ draft \in [Attempt -> Record \cup {NoRecord}]
    /\ entries \in [Attempt -> SUBSET LedgerEntry]
    /\ new_account \in [Attempt -> Account \cup {Null}]
    /\ answer \in [Attempt -> Answer \cup {NoAnswer}]

NothingRead == [a \in Account |-> 0]

Init ==
    /\ accounts = InitAccounts
    /\ balance = InitBalance
    /\ opening_balance = InitBalance
    /\ ledger_entries = {}
    /\ idempotency_keys = [k \in Key |-> NoRecord]
    /\ claimant = [k \in Key |-> Nobody]
    /\ row_lock = [a \in Account |-> Nobody]
    /\ pc = [r \in Attempt |-> "idle"]
    /\ request = [r \in Attempt |-> NoCall]
    /\ session = [r \in Attempt |-> NothingRead]
    /\ draft = [r \in Attempt |-> NoRecord]
    /\ entries = [r \in Attempt |-> {}]
    /\ new_account = [r \in Attempt |-> Null]
    /\ answer = [r \in Attempt |-> NoAnswer]

----------------------------------------------------------------------------
(* Transactions.                                                           *)

KeyOf(r) == StrippedKey(request[r])

Source(r) == request[r].req.from_account_id
Destination(r) == request[r].req.to_account_id
Amount(r) == request[r].req.amount

Held(r) == {a \in Account : row_lock[a] = r}

\* The end of the transaction of r, by COMMIT or by ROLLBACK: every lock and
\* every uncommitted row goes.
EndTransaction(r) ==
    /\ claimant' = [k \in Key |-> IF claimant[k] = r THEN Nobody ELSE claimant[k]]
    /\ row_lock' = [a \in Account |-> IF row_lock[a] = r THEN Nobody ELSE row_lock[a]]
    /\ session' = [session EXCEPT ![r] = NothingRead]
    /\ draft' = [draft EXCEPT ![r] = NoRecord]
    /\ entries' = [entries EXCEPT ![r] = {}]
    /\ new_account' = [new_account EXCEPT ![r] = Null]

\* Wrong: the error path forgets db.rollback(), and the locks stay.
RollbackForgotten(r) ==
    /\ session' = [session EXCEPT ![r] = NothingRead]
    /\ UNCHANGED <<tables, locks, draft, entries, new_account>>

Rollback(r) == EndTransaction(r) /\ UNCHANGED tables

\* What the tables hold once the rows of r are visible.
CommittedBalance(r) ==
    [a \in Account |-> IF a = new_account[r] THEN request[r].req.initial_balance
                      ELSE IF a \in Held(r) THEN session[r][a]
                      ELSE balance[a]]

\* Wrong: an account is opened without recording what it was opened with.
OpeningForgotten(r) == opening_balance

CommittedOpening(r) ==
    [a \in Account |-> IF a = new_account[r] THEN request[r].req.initial_balance
                      ELSE opening_balance[a]]

\* Wrong: the work commits without the row of the key.
KeyForgotten(r) == idempotency_keys

CommittedKeys(r) == [idempotency_keys EXCEPT ![KeyOf(r)] = draft[r]]

\* COMMIT makes the rows of r visible, all at once.
Publish(r) ==
    /\ accounts' = accounts \cup ({new_account[r]} \ {Null})
    /\ balance' = CommittedBalance(r)
    /\ opening_balance' = CommittedOpening(r)
    /\ ledger_entries' = ledger_entries \cup entries[r]
    /\ idempotency_keys' = CommittedKeys(r)
    /\ EndTransaction(r)

LegSum(legs) == MapThenSumSet(LAMBDA e : e.amount, legs)

\* The constraints of the schema on what r is about to commit: the CHECKs on
\* balances and amounts, and the deferred trigger on the legs of a transfer.
SchemaAccepts(r) ==
    /\ \A a \in Held(r) : session[r][a] >= 0
    /\ \A e \in entries[r] : e.amount # 0
    /\ \A e \in entries[r] :
           LegSum({f \in ledger_entries \cup entries[r] : f.transfer_id = e.transfer_id}) = 0

Reply(r, a) ==
    /\ pc' = [pc EXCEPT ![r] = "answered"]
    /\ answer' = [answer EXCEPT ![r] = a]
    /\ UNCHANGED request

\* Wrong: a refused call commits its claim, so the key is burnt.
AbortKeepingKey(r, a) ==
    /\ EndTransaction(r)
    /\ idempotency_keys' = [idempotency_keys EXCEPT ![KeyOf(r)] =
            IF claimant[KeyOf(r)] = r THEN draft[r] ELSE @]
    /\ UNCHANGED <<accounts, balance, opening_balance, ledger_entries>>
    /\ Reply(r, a)

\* The transaction is rolled back and an error takes its place.
Abort(r, a) == Rollback(r) /\ Reply(r, a)

Go(r, next) ==
    /\ pc' = [pc EXCEPT ![r] = next]
    /\ UNCHANGED <<request, answer>>

----------------------------------------------------------------------------
(* The boundary: require_key, the same-account check, then execute_once.   *)

Receive(r) ==
    /\ pc[r] = "idle"
    /\ \E c \in Calls :
           /\ BoundaryError(c) = "NONE"
           /\ request' = [request EXCEPT ![r] = c]
    /\ pc' = [pc EXCEPT ![r] = "fast_path"]
    /\ UNCHANGED <<tables, locks, transaction, answer>>

RejectAtBoundary(r) ==
    /\ pc[r] = "idle"
    /\ \E c \in Calls :
           /\ BoundaryError(c) # "NONE"
           /\ request' = [request EXCEPT ![r] = c]
           /\ answer' = [answer EXCEPT ![r] = Refusal(BoundaryError(c))]
    /\ pc' = [pc EXCEPT ![r] = "answered"]
    /\ UNCHANGED <<tables, locks, transaction>>

----------------------------------------------------------------------------
(* execute_once: the fast path, the claim, and the race for it.            *)

Stored(r) == idempotency_keys[KeyOf(r)]

FastPathHit(r) ==
    /\ pc[r] = "fast_path"
    /\ Stored(r) # NoRecord
    /\ Reply(r, Replay(Stored(r), request[r]))
    /\ UNCHANGED <<tables, locks, transaction>>

FastPathMiss(r) ==
    /\ pc[r] = "fast_path"
    /\ Stored(r) = NoRecord
    /\ Go(r, "claim")
    /\ UNCHANGED <<tables, locks, transaction>>

\* The INSERT meets an uncommitted row of the same key and waits for its end.
BlockedOnKey(r) == pc[r] = "claim" /\ claimant[KeyOf(r)] # Nobody

\* Wrong: an upsert instead of an insert.
KeyIsNotHeld(r) == ~BlockedOnKey(r)

KeyIsFree(r) == ~BlockedOnKey(r) /\ Stored(r) = NoRecord

\* Wrong: the loser does not wait for the winner to commit.
KeyIsHeldOrTaken(r) == BlockedOnKey(r) \/ Stored(r) # NoRecord

KeyIsTaken(r) == ~BlockedOnKey(r) /\ Stored(r) # NoRecord

\* Nobody has the key: the row is in the index, and the work starts.
Claim(r) ==
    /\ pc[r] = "claim"
    /\ KeyIsFree(r)
    /\ claimant' = [claimant EXCEPT ![KeyOf(r)] = r]
    /\ draft' = [draft EXCEPT ![r] = ClaimedRecord(request[r])]
    /\ Go(r, IF IsTransfer(request[r]) THEN "lock" ELSE "open")
    /\ UNCHANGED <<tables, row_lock, session, entries, new_account>>

\* A committed row has the key: 23505, rollback, and read the winner's row.
LoseRace(r) ==
    /\ pc[r] = "claim"
    /\ KeyIsTaken(r)
    /\ Rollback(r)
    /\ Go(r, "raced")

RacedAnswer(r) ==
    IF Stored(r) = NoRecord THEN Refusal("INTERNAL_ERROR")
                            ELSE Replay(Stored(r), request[r])

ReplayWinner(r) ==
    /\ pc[r] = "raced"
    /\ Reply(r, RacedAnswer(r))
    /\ UNCHANGED <<tables, locks, transaction>>

----------------------------------------------------------------------------
(* _move_money.                                                            *)

\* Wrong: the rows are locked in the order of the request.
LockOrderUnsorted(r) == <<Source(r), Destination(r)>>

\* sorted(account_ids)
LockOrder(r) ==
    IF Source(r) < Destination(r) THEN <<Source(r), Destination(r)>>
                                  ELSE <<Destination(r), Source(r)>>

NextLock(r) ==
    IF row_lock[LockOrder(r)[1]] = r THEN LockOrder(r)[2] ELSE LockOrder(r)[1]

\* SELECT ... FOR UPDATE finds the row locked and waits for its holder.
BlockedOnRow(r) == pc[r] = "lock" /\ row_lock[NextLock(r)] # Nobody

\* Wrong: both balances are read with the first lock and not again with the
\* second (no populate_existing).
ReadEarly(r) ==
    IF NextLock(r) = LockOrder(r)[1] THEN [session EXCEPT ![r] = balance] ELSE session

ReadOnceLocked(r) == [session EXCEPT ![r][NextLock(r)] = balance[NextLock(r)]]

\* Wrong: a row that is not there counts as found.
AnyRow(r) == TRUE

RowExists(r) == NextLock(r) \in accounts

\* The row is locked, and what is read is the row as it is after the wait.
LockAccount(r) ==
    /\ pc[r] = "lock"
    /\ RowExists(r)
    /\ ~BlockedOnRow(r)
    /\ row_lock' = [row_lock EXCEPT ![NextLock(r)] = r]
    /\ session' = ReadOnceLocked(r)
    /\ Go(r, IF NextLock(r) = LockOrder(r)[2] THEN "move" ELSE "lock")
    /\ UNCHANGED <<tables, claimant, draft, entries, new_account>>

AccountMissing(r) ==
    /\ pc[r] = "lock"
    /\ ~RowExists(r)
    /\ Abort(r, Refusal("ACCOUNT_NOT_FOUND"))

\* Wrong: no funds check; a funds check that refuses the last unit.
HasFundsUnchecked(r) == TRUE
HasFundsStrict(r) == session[r][Source(r)] > Amount(r)

HasFunds(r) == session[r][Source(r)] >= Amount(r)

\* Wrong: no bound; a bound that refuses the largest balance.
CreditUnchecked(r) == TRUE
CreditFitsStrict(r) == session[r][Destination(r)] + Amount(r) < MaxBalance

CreditFits(r) == session[r][Destination(r)] + Amount(r) <= MaxBalance

InsufficientFunds(r) ==
    /\ pc[r] = "move"
    /\ ~HasFunds(r)
    /\ Abort(r, Refusal("INSUFFICIENT_FUNDS"))

\* The UPDATE of the credited balance raises 22003.
AmountOutOfRange(r) ==
    /\ pc[r] = "move"
    /\ HasFunds(r)
    /\ ~CreditFits(r)
    /\ Abort(r, Refusal("AMOUNT_OUT_OF_RANGE"))

\* transfer_id is a fresh uuid4: the attempt itself names it.
Legs(r) ==
    {[transfer_id |-> r, account_id |-> Source(r),      amount |-> -Amount(r)],
     [transfer_id |-> r, account_id |-> Destination(r), amount |-> Amount(r)]}

\* Wrong: dest.balance -= amount.
BothDebited(r) ==
    [session EXCEPT ![r][Source(r)]      = @ - Amount(r),
                    ![r][Destination(r)] = @ - Amount(r)]

Moved(r) ==
    [session EXCEPT ![r][Source(r)]      = @ - Amount(r),
                    ![r][Destination(r)] = @ + Amount(r)]

MoveMoney(r) ==
    /\ pc[r] = "move"
    /\ HasFunds(r)
    /\ CreditFits(r)
    /\ session' = Moved(r)
    /\ entries' = [entries EXCEPT ![r] = Legs(r)]
    /\ draft' = [draft EXCEPT ![r] =
                    FilledRecord(@, r, TransferResponse(r, request[r].req))]
    /\ Go(r, "commit")
    /\ UNCHANGED <<tables, locks, new_account>>

----------------------------------------------------------------------------
(* _open_account.  The id is a fresh uuid4.                                *)

FreshAccounts == Account \ (accounts \cup {new_account[r] : r \in Attempt})

OpenAccount(r) ==
    /\ pc[r] = "open"
    /\ \E a \in FreshAccounts :
           /\ new_account' = [new_account EXCEPT ![r] = a]
           /\ draft' = [draft EXCEPT ![r] =
                FilledRecord(@, a, AccountResponse(a, request[r].req.initial_balance))]
    /\ Go(r, "commit")
    /\ UNCHANGED <<tables, locks, session, entries>>

----------------------------------------------------------------------------
(* COMMIT, and what can come of it.                                        *)

Commit(r) ==
    /\ pc[r] = "commit"
    /\ SchemaAccepts(r)
    /\ Publish(r)
    /\ Reply(r, Success(201, draft[r].response_body, FALSE))

\* The commit is durable, but the connection drops before its
\* acknowledgement: an OperationalError without a lock's sqlstate, so the
\* catch-all handler answers.
CommitUnacknowledged(r) ==
    /\ "drop" \in Faults
    /\ pc[r] = "commit"
    /\ SchemaAccepts(r)
    /\ Publish(r)
    /\ Reply(r, CatchAll)

\* The commit is durable, but the instance dies before it answers.
CommitThenCrash(r) ==
    /\ "crash" \in Faults
    /\ pc[r] = "commit"
    /\ SchemaAccepts(r)
    /\ Publish(r)
    /\ Go(r, "crashed")

----------------------------------------------------------------------------
(* Failures.                                                               *)

Blocked(r) == BlockedOnKey(r) \/ BlockedOnRow(r)

\* lock_timeout ends a wait for a key or for a row: 55P03.
LockTimeout(r) ==
    /\ "timeout" \in Faults
    /\ Blocked(r)
    /\ Abort(r, Refusal("LOCK_TIMEOUT"))

\* Whatever no branch of execute_once maps: a dropped connection at any
\* statement, a checkout timeout, a constraint of the schema that fires.
UnhandledError(r) ==
    /\ pc[r] \in Working \ Orphans
    /\ (pc[r] = "commit" => SchemaAccepts(r)) => "drop" \in Faults
    /\ Abort(r, CatchAll)

\* The instance dies; the server rolls back when the connection goes.
Crash(r) ==
    /\ "crash" \in Faults
    /\ pc[r] \in Working \ Orphans
    /\ Rollback(r)
    /\ Go(r, "crashed")

\* The connection or the host is lost and the server does not notice: the
\* client has an error or nothing, and the transaction keeps what it holds.
Sever(r) ==
    /\ "sever" \in Faults
    /\ pc[r] \in {"lock", "move", "open", "commit"}
    /\ pc' = [pc EXCEPT ![r] = IF pc[r] = "commit" THEN "in_doubt" ELSE "orphaned"]
    /\ answer' \in {answer, [answer EXCEPT ![r] = CatchAll]}
    /\ UNCHANGED <<tables, locks, transaction, request>>

Epitaph(r) == IF answer[r] = CatchAll THEN "answered" ELSE "crashed"

\* The COMMIT had been sent, and is carried out after all.
LateCommit(r) ==
    /\ pc[r] = "in_doubt"
    /\ SchemaAccepts(r)
    /\ Publish(r)
    /\ Go(r, Epitaph(r))

\* The server finds the connection gone.
OrphanEnds(r) ==
    /\ pc[r] \in Orphans
    /\ Rollback(r)
    /\ Go(r, Epitaph(r))

\* A session outside this application, psql say, locks a row and lets it go.
OutsiderLocks(a) ==
    /\ "outsider" \in Faults
    /\ a \in accounts
    /\ row_lock[a] = Nobody
    /\ row_lock' = [row_lock EXCEPT ![a] = Outsider]
    /\ UNCHANGED <<tables, claimant, transaction, pc, request, answer>>

OutsiderUnlocks(a) ==
    /\ row_lock[a] = Outsider
    /\ row_lock' = [row_lock EXCEPT ![a] = Nobody]
    /\ UNCHANGED <<tables, claimant, transaction, pc, request, answer>>

----------------------------------------------------------------------------

\* Taking the locks, which may have to wait.
Acquire(r) == Claim(r) \/ LoseRace(r) \/ LockAccount(r) \/ AccountMissing(r)

\* What the handler of r does by itself once it has been called.
Progress(r) ==
    \/ FastPathHit(r)
    \/ FastPathMiss(r)
    \/ Acquire(r)
    \/ ReplayWinner(r)
    \/ InsufficientFunds(r)
    \/ AmountOutOfRange(r)
    \/ MoveMoney(r)
    \/ OpenAccount(r)
    \/ Commit(r)

Failure(r) ==
    \/ CommitUnacknowledged(r)
    \/ CommitThenCrash(r)
    \/ LockTimeout(r)
    \/ UnhandledError(r)
    \/ Crash(r)
    \/ Sever(r)
    \/ LateCommit(r)
    \/ OrphanEnds(r)

\* Every attempt is over: the model has no more calls to make.
Quiescent ==
    /\ \A r \in Attempt : pc[r] \in Finished
    /\ UNCHANGED vars

Next ==
    \/ \E r \in Attempt :
           Receive(r) \/ RejectAtBoundary(r) \/ Progress(r) \/ Failure(r)
    \/ \E a \in Account : OutsiderLocks(a) \/ OutsiderUnlocks(a)
    \/ Quiescent

Spec == Init /\ [][Next]_vars

============================================================================
