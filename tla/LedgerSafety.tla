---------------------------- MODULE LedgerSafety ----------------------------
(***************************************************************************)
(* What LedgerService has to guarantee.                                    *)
(***************************************************************************)
EXTENDS LedgerService

----------------------------------------------------------------------------
(* The money.                                                              *)

EntriesOf(a) == {e \in ledger_entries : e.account_id = a}

\* The four checks of assert_ledger_invariants (tests/conftest.py), on every
\* committed state and not only at the end of a test: the entries of every
\* transfer net to zero, so nothing is created or lost, and every cached
\* balance is its opening balance plus the entries of its account.  A lost
\* update between two lockers of a row breaks the second (models.py 37-38).
BooksBalance ==
    /\ LegSum(ledger_entries) = 0
    /\ \A a \in Account : balance[a] = opening_balance[a] + LegSum(EntriesOf(a))

\* Between its lock and its decision a transfer sees the committed balance:
\* the read that the funds check of _move_money rests on is never stale,
\* however long the lock was waited for (transfers.py 54-56, 111-112).
LockedReadsAreCurrent ==
    \A r \in Attempt : pc[r] \in {"lock", "move"} =>
        \A a \in Held(r) : a \in accounts /\ session[r][a] = balance[a]

\* "The application never intends to write a negative balance" (models.py
\* 48-50): the CHECKs and the conservation trigger are backstops, so no
\* transaction the code takes to its COMMIT is ever refused by one.
BackstopsNeverFire ==
    \A r \in Attempt : pc[r] \in {"commit", "in_doubt"} => SchemaAccepts(r)

----------------------------------------------------------------------------
(* The keys.                                                               *)

TransferMatches(record) ==
    /\ {e \in ledger_entries : e.transfer_id = record.resource_id} =
           {[transfer_id |-> record.resource_id,
             account_id  |-> record.request_hash.from_account_id,
             amount      |-> -record.request_hash.amount],
            [transfer_id |-> record.resource_id,
             account_id  |-> record.request_hash.to_account_id,
             amount      |-> record.request_hash.amount]}
    /\ record.response_body = TransferResponse(record.resource_id, record.request_hash)

OpeningMatches(record) ==
    /\ record.resource_id \in accounts \ InitAccounts
    /\ opening_balance[record.resource_id] = record.request_hash.initial_balance
    /\ record.response_body =
           AccountResponse(record.resource_id, record.request_hash.initial_balance)

Committed == {k \in Key : idempotency_keys[k] # NoRecord}

\* "There is no window in which one exists without the other" (models.py
\* 99-102, 124-126): a committed key row is complete and its one effect is
\* there, as requested; and every entry and every account opened through
\* the API is the effect of exactly one key.
KeyAndEffectTogether ==
    /\ \A k \in Committed :
           LET record == idempotency_keys[k] IN
           /\ record.response_status = 201
           /\ IF record.operation = "create_transfer"
              THEN TransferMatches(record) ELSE OpeningMatches(record)
    /\ \A id \in {e.transfer_id : e \in ledger_entries} \cup (accounts \ InitAccounts) :
           \E k \in Committed :
               /\ idempotency_keys[k].resource_id = id
               /\ \A j \in Committed : idempotency_keys[j].resource_id = id => j = k

\* What was asked for, whatever scale the amount was written with.
SameMeaning(c, d) ==
    /\ c.operation = d.operation
    /\ [c.req EXCEPT !.scale = d.req.scale] = d.req

Succeeded == {r \in Attempt : pc[r] = "answered" /\ answer[r].code = "OK"}

\* All the successes a key is ever answered with tell one story: the same
\* body, for calls of the same meaning, and at most one of them claims to
\* have done the work itself (201); the others say it had been done (200).
OneStoryPerKey ==
    \A r, s \in Succeeded : KeyOf(r) = KeyOf(s) =>
        /\ answer[r].body = answer[s].body
        /\ SameMeaning(request[r], request[s])
        /\ answer[r].status = 201 /\ answer[s].status = 201 => r = s

\* r succeeded, crashed, or could not tell its client how its commit ended.
MayHaveCommitted(r) ==
    \/ pc[r] = "crashed"
    \/ pc[r] = "answered" /\ answer[r].code \in {"OK", "INTERNAL_ERROR"}

\* A retry is never refused as a conflict: a 409 is answered only to a call
\* whose meaning differs from that of some other call under the same key
\* that the service did execute (idempotency.py 76-84).
OnlyRealConflicts ==
    \A r \in Attempt : pc[r] = "answered" /\ answer[r].code = "IDEMPOTENCY_KEY_CONFLICT" =>
        \E s \in Attempt :
            /\ request[s] # NoCall
            /\ KeyOf(s) = KeyOf(r)
            /\ ~SameMeaning(request[s], request[r])
            /\ MayHaveCommitted(s)

\* "A failed transfer doesn't burn the key" (README.md 83-84): a key has a
\* row only if an attempt under it succeeded, crashed, or could not tell the
\* client how its commit ended.  A refusal leaves the key free.
RefusalsBurnNoKey ==
    \A k \in Committed : \E r \in Attempt : MayHaveCommitted(r) /\ KeyOf(r) = k

\* The loser of a race for a key finds the row that beat it: "reaching here
\* proves the winner committed" (idempotency.py 191-195), and the branch for
\* a vanished record stays unused.
WinnerIsReadable ==
    \A r \in Attempt : pc[r] = "raced" => Stored(r) # NoRecord

----------------------------------------------------------------------------
(* The locks.                                                              *)

\* The attempts r cannot go on without.
WaitsFor(r) ==
    {s \in Attempt :
        \/ BlockedOnKey(r) /\ claimant[KeyOf(r)] = s
        \/ BlockedOnRow(r) /\ row_lock[NextLock(r)] = s}

\* "Should be unreachable: every lock is taken in a globally consistent
\* order" (idempotency.py 224-229): there is never a set of attempts each of
\* which waits for another of the set, through keys, rows or both.  So 40P01
\* is never raised, and its branch is not an action of LedgerService.
NoDeadlock ==
    ~ \E S \in SUBSET Attempt :
          S # {} /\ \A r \in S : WaitsFor(r) \cap S # {}

\* A lock has an owner whose transaction is still open: no path out of the
\* handler, by answer, error or crash, leaves a key or a row behind, unless
\* the server has not noticed yet that its connection is lost.  And who
\* waits for a key has no row yet, so the loser of a race "cannot delay
\* unrelated requests" (idempotency.py 167-168).
LocksHaveLiveOwners ==
    /\ \A k \in Key, r \in Attempt : claimant[k] = r =>
           pc[r] \in {"lock", "move", "open", "commit"} \cup Orphans /\ KeyOf(r) = k
    /\ \A a \in Account, r \in Attempt : row_lock[a] = r =>
           /\ pc[r] \in {"lock", "move", "commit"} \cup Orphans
           /\ a \in {Source(r), Destination(r)}
           /\ claimant[KeyOf(r)] = r

----------------------------------------------------------------------------
(* What a step may never do, and what has to happen.                       *)

Refuses(r, code) == answer'[r] # answer[r] /\ answer'[r].code = code

\* A call is refused on the committed state of that moment and for a reason
\* that holds in it: the account is not there, the funds fall short, or the
\* credit does not fit.  The last unit can be spent and the largest balance
\* reached (transfers.py 66-67, 113; idempotency.py 204-214).
RefusalsAreJustified ==
    [][ \A r \in Attempt :
          /\ Refuses(r, "ACCOUNT_NOT_FOUND") =>
                 ~ {Source(r), Destination(r)} \subseteq accounts
          /\ Refuses(r, "INSUFFICIENT_FUNDS") => balance[Source(r)] < Amount(r)
          /\ Refuses(r, "AMOUNT_OUT_OF_RANGE") =>
                 balance[Destination(r)] + Amount(r) > MaxBalance ]_vars

\* The tables are append-only: an entry, an account, an opening balance or a
\* key row that is committed stays as it is (models.py 33, 60-61; a stored
\* response "should survive a schema change", idempotency.py 102-104).
AppendOnly ==
    [][ /\ ledger_entries \subseteq ledger_entries'
        /\ accounts \subseteq accounts'
        /\ \A a \in accounts : opening_balance'[a] = opening_balance[a]
        /\ \A k \in Committed : idempotency_keys'[k] = idempotency_keys[k] ]_vars

\* LedgerService implements the book of Ledger: whatever attempts race, fail
\* or are repeated, every key has at most one effect, in one step, on the
\* balances of that moment.
Outcome(record) ==
    IF record = NoRecord THEN Null
    ELSE [operation   |-> record.operation,
          request     |-> record.request_hash,
          resource_id |-> record.resource_id]

Book ==
    INSTANCE Ledger
    WITH Identity <- Attempt,
         Unused   <- Null,
         outcome  <- [k \in Key |-> Outcome(idempotency_keys[k])]

ImplementsBook == Book!BookSpec

\* The server runs every handler it has started (weak fairness), and grants
\* a row to a waiter that finds it free again and again: PostgreSQL queues
\* the waiters of a row (strong fairness of LockAccount only).  A wait that
\* lasts is ended by lock_timeout.  Nothing fails of necessity, and an
\* orphan may keep what it holds for ever.
Fairness ==
    \A r \in Attempt :
        /\ WF_vars(Progress(r))
        /\ SF_vars(LockAccount(r))
        /\ WF_vars(LockTimeout(r))

FairSpec == Spec /\ Fairness

\* Every call that is received is answered, or its instance dies: no lock
\* wait parks a connection for ever (db.py 16-24), whoever holds the lock.
EveryCallEnds ==
    \A r \in Attempt : pc[r] = "fast_path" ~> pc[r] \in Finished \cup Orphans

----------------------------------------------------------------------------
(* What the code says of itself and does not do.                           *)

\* "The request was not applied" (errors.py 156, main.py 184): an attempt
\* answered with INTERNAL_ERROR moved no money.
InternalErrorWasNotApplied ==
    \A r \in Attempt : pc[r] = "answered" /\ answer[r].code = "INTERNAL_ERROR" =>
        \A e \in ledger_entries : e.transfer_id # r

============================================================================
