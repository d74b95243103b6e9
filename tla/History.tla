------------------------------- MODULE History -------------------------------
(***************************************************************************)
(* The two read endpoints, GET /accounts/{id}/balance and                  *)
(* GET /accounts/{id}/transactions, beside the mutating ones of            *)
(* LedgerService, and the column that orders a history: created_at is      *)
(* now(), which PostgreSQL fixes when the transaction begins, long before  *)
(* it may be allowed to commit.                                            *)
(*                                                                         *)
(* A query reads one account.  Each of its statements has a snapshot of    *)
(* its own (READ COMMITTED).  A list takes two: get_account, then the      *)
(* self-join.  The steps of LedgerService are unchanged; what is added is  *)
(* the instant at which a write transaction begins, just before the INSERT *)
(* of its key.                                                             *)
(*                                                                         *)
(* Definitions marked "Wrong:" are no part of the specification: see       *)
(* LedgerService.                                                          *)
(***************************************************************************)
EXTENDS LedgerSafety

CONSTANTS
    Query,              \* the read requests, in the order they are made
    MaxTransactions     \* MAX_TRANSACTIONS

ASSUME QueryAssumption == Query \subseteq Nat /\ MaxTransactions \in Nat \ {0}

\* Ids of entries are uuids, so unrelated to any order of events.  The id of
\* the transfer stands for them: an account has one entry per transfer.
ASSUME OrderedIds == Attempt \subseteq Nat

VARIABLES
    clock,      \* the server's clock, by the resolution of a timestamp
    begun,      \* now() of the write transaction of an attempt
    stage,      \* where a query is
    asked,      \* the account it is about
    told,       \* what its client knew when it sent the query: who had
                \* been answered with success
    page,       \* the transactions it was answered with
    reported    \* the balance it was answered with

queries == <<stage, asked, told, page, reported>>

history == <<vars, clock, begun, queries>>

NotBegun == 0

HistoryInit ==
    /\ Init
    /\ clock = 1
    /\ begun = [r \in Attempt |-> NotBegun]
    /\ stage = [q \in Query |-> "unsent"]
    /\ asked = [q \in Query |-> Null]
    /\ told = [q \in Query |-> {}]
    /\ page = [q \in Query |-> {}]
    /\ reported = [q \in Query |-> Null]

\* BEGIN, with the first statement after the fast path: now() is fixed, and
\* may be that of another transaction that began in the same microsecond.
Begin(r) ==
    /\ pc[r] = "claim"
    /\ begun[r] = NotBegun
    /\ clock' \in {clock, clock + 1}
    /\ begun' = [begun EXCEPT ![r] = clock']
    /\ UNCHANGED <<vars, queries>>

\* A step of the mutating endpoints: nothing comes of an INSERT before its
\* transaction has begun.
Write ==
    /\ Next
    /\ \A r \in Attempt : pc[r] = "claim" /\ begun[r] = NotBegun => pc'[r] = "claim"
    /\ UNCHANGED <<clock, begun, queries>>

----------------------------------------------------------------------------
(* The statements of the read endpoints.                                   *)

\* Wrong: an account without a history is an unknown account.
FoundByHistory(a) == EntriesOf(a) # {}

\* get_account
Found(a) == a \in accounts

\* Wrong: theirs is not kept apart from mine.
PairsWithThemselves(a) ==
    {p \in EntriesOf(a) \X ledger_entries : p[2].transfer_id = p[1].transfer_id}

\* The self-join of list_transactions: an entry of the account, and the other
\* entry of the same transfer: <<mine, theirs>>.
Pairs(a) ==
    {p \in EntriesOf(a) \X ledger_entries :
        p[2].transfer_id = p[1].transfer_id /\ p[2] # p[1]}

\* Wrong: the oldest come first; the order is that of the ids.
OlderFirst(t, u) == t.created_at < u.created_at
IdOnly(t, u) == t.transfer_id > u.transfer_id

\* order_by(created_at.desc(), id.desc())
ListedBefore(t, u) ==
    \/ t.created_at > u.created_at
    \/ t.created_at = u.created_at /\ t.transfer_id > u.transfer_id

\* TransactionItem
Items(a) ==
    {[transfer_id |-> p[1].transfer_id,
      amount      |-> p[1].amount,
      counterparty_account_id |-> p[2].account_id,
      created_at  |-> begun[p[1].transfer_id]] : p \in Pairs(a)}

\* Wrong: a page that is one short.
TransactionsButOne(a) ==
    {t \in Items(a) : Cardinality({u \in Items(a) : ListedBefore(u, t)}) + 1 < MaxTransactions}

\* The first MAX_TRANSACTIONS of them.  A page is a set: its order is that
\* of ListedBefore.
Transactions(a) ==
    {t \in Items(a) : Cardinality({u \in Items(a) : ListedBefore(u, t)}) < MaxTransactions}

\* Wrong: the balance an account was opened with.
BalanceAsOpened(a) == opening_balance[a]

\* The cached balance, read as it is.
Balance(a) == balance[a]

\* A client asks about an account, knowing which calls have succeeded.
Ask(q) ==
    /\ stage[q] = "unsent"
    /\ \A p \in Query : p < q => stage[p] \in {"listed", "balance", "missing"}
    /\ \E a \in Account : asked' = [asked EXCEPT ![q] = a]
    /\ told' = [told EXCEPT ![q] = Succeeded]
    /\ stage' = [stage EXCEPT ![q] = "sent"]
    /\ UNCHANGED <<vars, clock, begun, page, reported>>

\* get_account finds no row, for either endpoint: 404.
AnswerMissing(q) ==
    /\ stage[q] = "sent"
    /\ ~Found(asked[q])
    /\ stage' = [stage EXCEPT ![q] = "missing"]
    /\ UNCHANGED <<vars, clock, begun, asked, told, page, reported>>

\* GET /balance
AnswerBalance(q) ==
    /\ stage[q] = "sent"
    /\ Found(asked[q])
    /\ reported' = [reported EXCEPT ![q] = Balance(asked[q])]
    /\ stage' = [stage EXCEPT ![q] = "balance"]
    /\ UNCHANGED <<vars, clock, begun, asked, told, page>>

\* GET /transactions, between its two statements.
FindAccount(q) ==
    /\ stage[q] = "sent"
    /\ Found(asked[q])
    /\ stage' = [stage EXCEPT ![q] = "found"]
    /\ UNCHANGED <<vars, clock, begun, asked, told, page, reported>>

AnswerList(q) ==
    /\ stage[q] = "found"
    /\ page' = [page EXCEPT ![q] = Transactions(asked[q])]
    /\ stage' = [stage EXCEPT ![q] = "listed"]
    /\ UNCHANGED <<vars, clock, begun, asked, told, reported>>

HistoryNext ==
    \/ Write
    \/ \E r \in Attempt : Begin(r)
    \/ \E q \in Query :
           Ask(q) \/ AnswerMissing(q) \/ AnswerBalance(q) \/ FindAccount(q) \/ AnswerList(q)

HistorySpec == HistoryInit /\ [][HistoryNext]_history

----------------------------------------------------------------------------
(* Properties.                                                             *)

Listed == {q \in Query : stage[q] = "listed"}

IsFull(q) == Cardinality(page[q]) = MaxTransactions

\* The transaction t is the transfer that key k was used for, as account a
\* sees it: signed by its side of it, with the other side as counterparty.
Tells(t, a, k) ==
    LET sent == idempotency_keys[k].request_hash IN
    /\ idempotency_keys[k].resource_id = t.transfer_id
    /\ {sent.from_account_id, sent.to_account_id} = {a, t.counterparty_account_id}
    /\ t.amount = IF sent.to_account_id = a THEN sent.amount ELSE -sent.amount

\* Every transaction listed is a transfer that some key was used for, seen
\* from the account that was asked about, and listed once (accounts.py 66-75;
\* the join could fan out, test_transactions.py 67-77).
ListsTellTransfers ==
    \A q \in Listed :
        /\ Cardinality(page[q]) <= MaxTransactions
        /\ \A t, u \in page[q] : t.transfer_id = u.transfer_id => t = u
        /\ \A t \in page[q] : \E k \in Committed : Tells(t, asked[q], k)

\* A client sees what it has been told: a transfer that was answered with
\* success before the list was asked for is in it, or a full page of newer
\* ones has left it out (routers/accounts.py 117-127; README.md 51).
ListsShowWhatWasTold ==
    \A q \in Listed : \A r \in told[q] :
        IsTransfer(request[r]) /\ asked[q] \in {Source(r), Destination(r)} =>
            LET id == answer[r].body.transfer_id IN
            \/ \E t \in page[q] : t.transfer_id = id
            \/ IsFull(q) /\ \A t \in page[q] : t.created_at >= begun[id]

\* The same of a balance: it is what the account was opened with and some of
\* its entries, those of the transfers the client was told of among them
\* ("never stale", routers/accounts.py 97-100).
BalancesShowWhatWasTold ==
    \A q \in Query : stage[q] = "balance" =>
        \E E \in SUBSET EntriesOf(asked[q]) :
            /\ reported[q] = opening_balance[asked[q]] + LegSum(E)
            /\ \A e \in EntriesOf(asked[q]) :
                   (\E r \in told[q] : IsTransfer(request[r])
                        /\ answer[r].body.transfer_id = e.transfer_id) => e \in E

\* An account that a client was told of is never unknown, history or not
\* (test_transactions.py 25-46).
NoAccountIsLost ==
    \A q \in Query : stage[q] = "missing" =>
        /\ asked[q] \notin InitAccounts
        /\ \A r \in told[q] : ~IsTransfer(request[r]) => answer[r].body.id # asked[q]

\* What one list shows the next one shows, unless newer transactions fill it.
ListsOnlyGrow ==
    \A p, q \in Listed : p < q /\ asked[p] = asked[q] =>
        \A t \in page[p] \ page[q] :
            IsFull(q) /\ \A u \in page[q] : u.created_at >= t.created_at

============================================================================
