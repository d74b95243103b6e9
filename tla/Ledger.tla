------------------------------- MODULE Ledger -------------------------------
(***************************************************************************)
(* What the service promises, without transactions, locks or retries: a    *)
(* book of accounts on which every idempotency key has at most one effect, *)
(* and every effect happens in one step, on the balances of that moment.   *)
(***************************************************************************)
EXTENDS Integers

CONSTANTS
    Key, Account,   \* idempotency keys and account ids
    Identity,       \* what a transfer can be called
    MaxBalance,     \* no balance is larger
    InitAccounts, InitBalance,
    Unused          \* the outcome of a key that has had no effect

VARIABLES
    accounts,       \* the accounts that are open
    balance,        \* what each of them holds
    outcome         \* what each key has done

book == <<accounts, balance, outcome>>

Transfer(from, to, amount, id) ==
    [operation   |-> "create_transfer",
     request     |-> [from_account_id |-> from, to_account_id |-> to, amount |-> amount],
     resource_id |-> id]

Opening(a, initial) ==
    [operation   |-> "create_account",
     request     |-> [initial_balance |-> initial],
     resource_id |-> a]

BookInit ==
    /\ accounts = InitAccounts
    /\ balance = InitBalance
    /\ outcome = [k \in Key |-> Unused]

\* No other key has done something under this id.
Unnamed(id) == \A k \in Key : outcome[k] # Unused => outcome[k].resource_id # id

Move(k, from, to, amount, id) ==
    /\ outcome[k] = Unused
    /\ Unnamed(id)
    /\ {from, to} \subseteq accounts
    /\ from # to
    /\ amount > 0
    /\ balance[from] >= amount
    /\ balance[to] + amount <= MaxBalance
    /\ balance' = [balance EXCEPT ![from] = @ - amount, ![to] = @ + amount]
    /\ outcome' = [outcome EXCEPT ![k] = Transfer(from, to, amount, id)]
    /\ UNCHANGED accounts

Open(k, a, initial) ==
    /\ outcome[k] = Unused
    /\ a \notin accounts
    /\ accounts' = accounts \cup {a}
    /\ balance' = [balance EXCEPT ![a] = initial]
    /\ outcome' = [outcome EXCEPT ![k] = Opening(a, initial)]

BookNext ==
    \E k \in Key :
        \/ \E from, to \in Account, amount \in 1..MaxBalance, id \in Identity :
               Move(k, from, to, amount, id)
        \/ \E a \in Account, initial \in 0..MaxBalance : Open(k, a, initial)

BookSpec == BookInit /\ [][BookNext]_book

============================================================================
