---------------------------- MODULE HistoryProofs ----------------------------
(***************************************************************************)
(* What the read endpoints tell is true and complete, for any number of    *)
(* attempts, queries and accounts and any length of a page, whatever the   *)
(* writers do between the statements of a read.                            *)
(*                                                                         *)
(* A step of History is a step of LedgerService or leaves its variables    *)
(* alone, so what is proved of the ledger holds here too.  The rest is an  *)
(* invariant about the queries, and a lemma about pages: what a full page  *)
(* leaves out comes after all that it lists.                               *)
(***************************************************************************)
EXTENDS History, LedgerMoney

----------------------------------------------------------------------------
(* The ledger underneath.                                                  *)

LedgerFacts == IInv /\ Together /\ Stories /\ Books

LEMMA WritesAreSteps ==
    ASSUME [HistoryNext]_history
    PROVE  [Next]_vars
BY DEF HistoryNext, history, Write, Begin, Ask, AnswerMissing, AnswerBalance, FindAccount,
       AnswerList

LEMMA FactsHold == HistorySpec => []LedgerFacts
<1>1. HistoryInit => Init
    BY DEF HistoryInit
<1>2. [HistoryNext]_history => [Next]_vars
    BY WritesAreSteps
<1>3. HistorySpec => Spec
    BY <1>1, <1>2, PTL DEF HistorySpec, Spec
<1>4. Spec => []LedgerFacts
  <2>1. IInv /\ Together /\ Stories /\ Books => LedgerFacts
      BY DEF LedgerFacts
  <2> QED
      BY <2>1, Invariance, TogetherHolds, StoriesHold, BooksHold, PTL
<1> QED
    BY <1>3, <1>4, PTL

\* The row of a transfer has two accounts, and an amount.
LEMMA TransferRow ==
    ASSUME LedgerFacts, NEW k \in Committed, idempotency_keys[k].operation = "create_transfer"
    PROVE  /\ TransferMatches(idempotency_keys[k])
           /\ idempotency_keys[k].request_hash.from_account_id \in Account
           /\ idempotency_keys[k].request_hash.to_account_id \in Account
           /\ idempotency_keys[k].request_hash.from_account_id #
                  idempotency_keys[k].request_hash.to_account_id
           /\ idempotency_keys[k].request_hash.amount \in Nat \ {0}
           /\ idempotency_keys[k].resource_id \in Attempt
           /\ pc[idempotency_keys[k].resource_id] \in Finished
<1> DEFINE row == idempotency_keys[k]
           sent == row.request_hash
           debit == [transfer_id |-> row.resource_id,
                     account_id  |-> sent.from_account_id, amount |-> -sent.amount]
           credit == [transfer_id |-> row.resource_id,
                      account_id  |-> sent.to_account_id, amount |-> sent.amount]
<1>1. TransferMatches(row)
    BY DEF LedgerFacts, Together, Complete
<1>2. PICK r \in Attempt : request[r] \in Calls /\ row.operation = request[r].operation
                           /\ sent = Fingerprint(request[r])
    BY DEF LedgerFacts, Stories, IsRowOf
<1>3. request[r] \in TransferCall
    BY <1>2, CallsAssumption DEF Call, CreateAccountCall
<1>4. /\ sent.from_account_id \in Account /\ sent.to_account_id \in Account
      /\ sent.amount \in Nat \ {0}
  <2>1. /\ request[r].req.from_account_id \in Account
        /\ request[r].req.to_account_id \in Account
        /\ request[r].req.amount \in Nat \ {0}
      BY <1>3, MaxBalanceAssumption DEF TransferCall, TransferRequest, Money
  <2> QED
      BY <1>2, <2>1 DEF Fingerprint, IsTransfer
<1>5. debit \in ledger_entries /\ credit \in ledger_entries
    BY <1>1 DEF TransferMatches
<1>6. debit # credit
    BY <1>4
<1>7. sent.from_account_id # sent.to_account_id
    BY <1>5, <1>6 DEF LedgerFacts, Books
<1>8. row.resource_id \in Attempt
    BY <1>5 DEF LedgerFacts, IInv, TypeOK, LedgerEntry
<1>9. row.resource_id \notin accounts
    BY <1>8, IdentityAssumption DEF LedgerFacts, IInv, TypeOK
<1>10. pc[row.resource_id] \in Finished
    BY <1>9 DEF LedgerFacts, IInv, ResourcesAreSettled
<1> QED
    BY <1>1, <1>4, <1>7, <1>8, <1>10

\* Every entry is a leg of a transfer that some row tells of.
LEMMA EntryHasRow ==
    ASSUME LedgerFacts, NEW e \in ledger_entries
    PROVE  \E k \in Committed : /\ idempotency_keys[k].operation = "create_transfer"
                                /\ idempotency_keys[k].resource_id = e.transfer_id
<1>1. PICK k \in Committed : idempotency_keys[k].resource_id = e.transfer_id
    BY DEF LedgerFacts, Together, Effects, OneKeyNames, Names
<1>2. e.transfer_id \in Attempt /\ e.transfer_id \notin accounts
    BY IdentityAssumption DEF LedgerFacts, IInv, TypeOK, LedgerEntry
<1>3. idempotency_keys[k].operation = "create_transfer"
    BY <1>1, <1>2 DEF LedgerFacts, Together, Complete, OpeningMatches
<1> QED
    BY <1>1, <1>3

\* An attempt that succeeded told what the row of its key says.
LEMMA SuccessHasRow ==
    ASSUME LedgerFacts, NEW r \in Succeeded
    PROVE  /\ IsTransfer(request[r]) => \E k \in Committed :
                  /\ idempotency_keys[k].operation = "create_transfer"
                  /\ idempotency_keys[k].resource_id = answer[r].body.transfer_id
                  /\ idempotency_keys[k].request_hash.from_account_id = Source(r)
                  /\ idempotency_keys[k].request_hash.to_account_id = Destination(r)
           /\ ~IsTransfer(request[r]) => answer[r].body.id \in accounts
<1>1. PICK k \in Key : IsRowOf(k, r) /\ answer[r].body = idempotency_keys[k].response_body
    BY DEF LedgerFacts, Stories
<1>2. k \in Committed /\ Complete(idempotency_keys[k])
    BY <1>1 DEF IsRowOf, LedgerFacts, Together
<1>3. CASE IsTransfer(request[r])
  <2>1. idempotency_keys[k].operation = "create_transfer"
      BY <1>1, <1>3 DEF IsRowOf, IsTransfer
  <2>2. answer[r].body.transfer_id = idempotency_keys[k].resource_id
      BY <1>1, <1>2, <2>1 DEF Complete, TransferMatches, TransferResponse
  <2>3. /\ idempotency_keys[k].request_hash.from_account_id = Source(r)
        /\ idempotency_keys[k].request_hash.to_account_id = Destination(r)
      BY <1>1, <1>3 DEF IsRowOf, Fingerprint, Source, Destination
  <2> QED
      BY <1>2, <1>3, <2>1, <2>2, <2>3
<1>4. CASE ~IsTransfer(request[r])
  <2>1. idempotency_keys[k].operation # "create_transfer"
      BY <1>1, <1>4 DEF IsRowOf, IsTransfer
  <2>2. OpeningMatches(idempotency_keys[k])
      BY <1>2, <2>1 DEF Complete
  <2> QED
      BY <1>1, <1>4, <2>2 DEF OpeningMatches, AccountResponse
<1> QED
    BY <1>3, <1>4

\* A transfer never gains an entry once it has one.
LEMMA TransfersAreWhole ==
    ASSUME LedgerFacts, LedgerFacts', [Next]_vars, NEW e \in ledger_entries,
           NEW f \in ledger_entries', f.transfer_id = e.transfer_id
    PROVE  f \in ledger_entries
<1> SUFFICES ASSUME NEW k \in Committed, NEW row, row = idempotency_keys[k],
                    row.operation = "create_transfer", row.resource_id = e.transfer_id
             PROVE  f \in ledger_entries
    BY EntryHasRow
<1>1. TransferMatches(row)
    BY TransferRow
<1>2. idempotency_keys'[k] = row /\ k \in Committed'
    BY TablesGrow DEF LedgerFacts, Committed
<1>3. TransferMatches(row)'
  <2>1. Complete(idempotency_keys[k])'
      BY <1>2 DEF LedgerFacts, Together
  <2> QED
      BY <1>2, <2>1 DEF Complete, TransferMatches
<1>4. {x \in ledger_entries' : x.transfer_id = row.resource_id} =
          {x \in ledger_entries : x.transfer_id = row.resource_id}
    BY <1>1, <1>3 DEF TransferMatches
<1> QED
    BY <1>4

----------------------------------------------------------------------------
(* Pages.                                                                  *)

Listable(S) ==
    /\ IsFiniteSet(S)
    /\ \A t \in S : t.transfer_id \in Nat /\ t.created_at \in Nat
    /\ \A t, u \in S : t.transfer_id = u.transfer_id => t = u

FirstOf(n, S) == {t \in S : Cardinality({u \in S : ListedBefore(u, t)}) < n}

\* The first n of a set of transactions: n at most; and when one is left
\* out there are n, none of them older than it.  Its place in the list is
\* how many come before it, so every place up to the last is taken once.
LEMMA FirstOfTheList ==
    ASSUME NEW S, Listable(S), NEW n \in Nat, NEW P, P = FirstOf(n, S)
    PROVE  /\ Cardinality(P) <= n
           /\ \A x \in S \ P : Cardinality(P) = n /\ \A t \in P : t.created_at >= x.created_at
<1> USE DEF Listable, FirstOf
<1> DEFINE Before(t) == {u \in S : ListedBefore(u, t)}
           Place(t) == Cardinality(Before(t))
           N == Cardinality(S)
           place == [t \in S |-> Place(t)]
           top == [t \in P |-> Place(t)]
<1>1. N \in Nat
    BY FS_CardinalityType
<1>2. /\ \A t \in S : ~ListedBefore(t, t)
      /\ \A t, u \in S : ListedBefore(t, u) \/ ListedBefore(u, t) \/ t = u
      /\ \A t, u, v \in S : ListedBefore(t, u) /\ ListedBefore(u, v) => ListedBefore(t, v)
    BY DEF ListedBefore
<1>3. /\ \A t \in S : Before(t) \in SUBSET S /\ t \notin Before(t)
      /\ \A t, u \in S : ListedBefore(t, u) => Before(t) \in SUBSET Before(u) /\ t \in Before(u)
      /\ P = {t \in S : Cardinality(Before(t)) < n}
    BY <1>2
<1> HIDE DEF Before
<1>4. ASSUME NEW t \in S
      PROVE  IsFiniteSet(Before(t)) /\ Place(t) \in Nat /\ Place(t) < N
  <2>1. Before(t) \in SUBSET S /\ Before(t) # S
      BY <1>3
  <2>2. IsFiniteSet(Before(t)) /\ Place(t) <= N /\ Place(t) # N
      BY <2>1, FS_Subset
  <2> QED
      BY <1>1, <2>2, FS_CardinalityType
<1>5. ASSUME NEW t \in S, NEW u \in S, ListedBefore(t, u)
      PROVE  Place(t) < Place(u)
  <2>1. Before(t) \in SUBSET Before(u) /\ Before(t) # Before(u)
      BY <1>3, <1>5
  <2>2. Place(t) <= Place(u) /\ Place(t) # Place(u)
      BY <1>4, <2>1, FS_Subset
  <2> QED
      BY <1>4, <2>2
<1>6. /\ \A t \in S : Place(t) \in Nat /\ Place(t) < N
      /\ \A t, u \in S : ListedBefore(t, u) => Place(t) < Place(u)
      /\ P = {t \in S : Place(t) < n}
    BY <1>3, <1>4, <1>5
<1> HIDE DEF Place, N
<1>7. \A t, u \in S : Place(t) = Place(u) => t = u
    BY <1>2, <1>6
<1>8. \A m \in Nat : IsFiniteSet(0 .. (m - 1)) /\ Cardinality(0 .. (m - 1)) = m
    BY FS_Interval
<1>9. place \in Surjection(S, 0 .. (N - 1))
  <2>1. place \in Injection(S, 0 .. (N - 1))
      BY <1>1, <1>6, <1>7 DEF Injection, IsInjective
  <2> QED
      BY <1>1, <1>8, <2>1, FS_Injection DEF N
<1>10. top \in Injection(P, 0 .. (n - 1))
    BY <1>6, <1>7 DEF Injection, IsInjective
<1>11. Cardinality(P) <= n
    BY <1>8, <1>10, FS_Injection
<1>12. ASSUME NEW x \in S \ P
       PROVE  Cardinality(P) = n /\ \A t \in P : t.created_at >= x.created_at
  <2>1. Place(x) \in Nat /\ n <= Place(x) /\ Place(x) < N
      BY <1>6
  <2>2. top \in Surjection(P, 0 .. (n - 1))
    <3>1. ASSUME NEW m \in 0 .. (n - 1)
          PROVE  \E t \in P : Place(t) = m
      <4>1. m \in 0 .. (N - 1)
          BY <1>1, <2>1
      <4>2. PICK t \in S : place[t] = m
          BY <1>9, <4>1 DEF Surjection
      <4>3. Place(t) = m /\ m < n
          BY <4>2
      <4> QED
          BY <1>6, <4>3
    <3>2. top \in [P -> 0 .. (n - 1)]
        BY <1>10 DEF Injection
    <3> QED
        BY <3>1, <3>2 DEF Surjection
  <2>3. Cardinality(P) = n
      BY <1>8, <1>10, <2>2, FS_Injection
  <2>4. \A t \in P : ListedBefore(t, x)
      BY <1>2, <1>6, <2>1
  <2>5. \A t \in P : t.created_at >= x.created_at
      BY <1>6, <2>4 DEF ListedBefore
  <2> QED
      BY <2>3, <2>5
<1> QED
    BY <1>11, <1>12

\* What the join makes of an entry: the two legs of one transfer.
LEMMA ItemsAreTransfers ==
    ASSUME LedgerFacts, begun \in [Attempt -> Nat], NEW a, NEW t \in Items(a)
    PROVE  /\ \E mine \in EntriesOf(a), theirs \in ledger_entries :
                  /\ theirs.transfer_id = mine.transfer_id /\ theirs # mine
                  /\ t = [transfer_id |-> mine.transfer_id,
                          amount      |-> mine.amount,
                          counterparty_account_id |-> theirs.account_id,
                          created_at  |-> begun[mine.transfer_id]]
           /\ t.transfer_id \in Nat /\ t.created_at \in Nat
           /\ \E k \in Committed : Tells(t, a, k)
<1>1. PICK p \in Pairs(a) : t = [transfer_id |-> p[1].transfer_id,
                                 amount      |-> p[1].amount,
                                 counterparty_account_id |-> p[2].account_id,
                                 created_at  |-> begun[p[1].transfer_id]]
    BY DEF Items
<1> SUFFICES ASSUME NEW mine, mine = p[1], NEW theirs, theirs = p[2]
             PROVE  /\ mine \in EntriesOf(a) /\ theirs \in ledger_entries
                    /\ theirs.transfer_id = mine.transfer_id /\ theirs # mine
                    /\ mine.transfer_id \in Nat /\ begun[mine.transfer_id] \in Nat
                    /\ \E k \in Committed : Tells(t, a, k)
    BY <1>1
<1>2. /\ mine \in EntriesOf(a) /\ mine \in ledger_entries /\ mine.account_id = a
      /\ theirs \in ledger_entries
      /\ theirs.transfer_id = mine.transfer_id /\ theirs # mine
    BY DEF Pairs, EntriesOf
<1>3. mine.transfer_id \in Attempt /\ mine.transfer_id \in Nat
    BY <1>2, OrderedIds DEF LedgerFacts, IInv, TypeOK, LedgerEntry
<1>4. PICK k \in Committed : /\ idempotency_keys[k].operation = "create_transfer"
                             /\ idempotency_keys[k].resource_id = mine.transfer_id
    BY <1>2, EntryHasRow
<1> DEFINE sent == idempotency_keys[k].request_hash
<1>5. /\ TransferMatches(idempotency_keys[k])
      /\ sent.from_account_id # sent.to_account_id
    BY <1>4, TransferRow
<1>6. \A e \in ledger_entries : e.transfer_id = mine.transfer_id =>
          \/ e = [transfer_id |-> mine.transfer_id,
                  account_id |-> sent.from_account_id, amount |-> -sent.amount]
          \/ e = [transfer_id |-> mine.transfer_id,
                  account_id |-> sent.to_account_id, amount |-> sent.amount]
    BY <1>4, <1>5 DEF TransferMatches
<1>7. \/ /\ mine.account_id = sent.from_account_id /\ mine.amount = -sent.amount
         /\ theirs.account_id = sent.to_account_id
      \/ /\ mine.account_id = sent.to_account_id /\ mine.amount = sent.amount
         /\ theirs.account_id = sent.from_account_id
    BY <1>2, <1>6
<1>8. /\ {sent.from_account_id, sent.to_account_id} = {a, theirs.account_id}
      /\ mine.amount = IF sent.to_account_id = a THEN sent.amount ELSE -sent.amount
    BY <1>2, <1>5, <1>7
<1>9. /\ t.transfer_id = mine.transfer_id /\ t.amount = mine.amount
      /\ t.counterparty_account_id = theirs.account_id
    BY <1>1
<1>10. Tells(t, a, k)
    BY <1>4, <1>8, <1>9 DEF Tells
<1> QED
    BY <1>2, <1>3, <1>10

\* So a transfer is listed once: the join does not fan out.
LEMMA ItemsAreOnce ==
    ASSUME LedgerFacts, begun \in [Attempt -> Nat], NEW a, NEW t \in Items(a), NEW u \in Items(a),
           t.transfer_id = u.transfer_id
    PROVE  t = u
<1>1. PICK mine \in EntriesOf(a), theirs \in ledger_entries :
          /\ theirs.transfer_id = mine.transfer_id /\ theirs # mine
          /\ t = [transfer_id |-> mine.transfer_id,
                  amount      |-> mine.amount,
                  counterparty_account_id |-> theirs.account_id,
                  created_at  |-> begun[mine.transfer_id]]
    BY ItemsAreTransfers
<1>2. PICK mine2 \in EntriesOf(a), theirs2 \in ledger_entries :
          /\ theirs2.transfer_id = mine2.transfer_id /\ theirs2 # mine2
          /\ u = [transfer_id |-> mine2.transfer_id,
                  amount      |-> mine2.amount,
                  counterparty_account_id |-> theirs2.account_id,
                  created_at  |-> begun[mine2.transfer_id]]
    BY ItemsAreTransfers
<1>3. mine2.transfer_id = mine.transfer_id
    BY <1>1, <1>2
<1>4. mine2 = mine
    BY <1>3 DEF EntriesOf, LedgerFacts, Books
<1>5. mine \in ledger_entries
    BY DEF EntriesOf
<1>6. PICK k \in Committed : /\ idempotency_keys[k].operation = "create_transfer"
                             /\ idempotency_keys[k].resource_id = mine.transfer_id
    BY <1>5, EntryHasRow
<1>7. TransferMatches(idempotency_keys[k])
    BY <1>6, TransferRow
<1>8. PICK debit, credit :
          \A e \in ledger_entries : e.transfer_id = mine.transfer_id => e = debit \/ e = credit
    BY <1>6, <1>7 DEF TransferMatches
<1>9. theirs2 = theirs
    BY <1>1, <1>2, <1>4, <1>5, <1>8
<1> QED
    BY <1>1, <1>2, <1>4, <1>9

LEMMA ItemsAreFinite ==
    ASSUME LedgerFacts, begun \in [Attempt -> Nat], NEW a
    PROVE  IsFiniteSet(Items(a))
<1> DEFINE entry == [t \in Items(a) |->
                        CHOOSE e \in EntriesOf(a) : e.transfer_id = t.transfer_id]
<1>1. ASSUME NEW t \in Items(a)
      PROVE  entry[t] \in EntriesOf(a) /\ entry[t].transfer_id = t.transfer_id
  <2>1. \E e \in EntriesOf(a) : e.transfer_id = t.transfer_id
      BY ItemsAreTransfers
  <2> QED
      BY <2>1
<1>2. \A t, u \in Items(a) : entry[t] = entry[u] => t = u
  <2> HIDE DEF entry
  <2> QED
      BY <1>1, ItemsAreOnce
<1>3. entry \in Injection(Items(a), EntriesOf(a))
    BY <1>1, <1>2 DEF Injection, IsInjective
<1>4. IsFiniteSet(EntriesOf(a))
    BY FS_Subset DEF EntriesOf, LedgerFacts, Books
<1> QED
    BY <1>3, <1>4, FS_Injection

\* A page is the head of the list: what it leaves out is no newer than what
\* it shows, and it leaves nothing out before it is full.
LEMMA PagesAreHeads ==
    ASSUME LedgerFacts, begun \in [Attempt -> Nat], NEW a, NEW P, P = Transactions(a)
    PROVE  /\ P \subseteq Items(a)
           /\ Cardinality(P) <= MaxTransactions
           /\ \A x \in Items(a) \ P :
                  /\ Cardinality(P) = MaxTransactions
                  /\ \A t \in P : t.created_at >= x.created_at
<1>1. Listable(Items(a))
    BY ItemsAreFinite, ItemsAreTransfers, ItemsAreOnce DEF Listable
<1>2. MaxTransactions \in Nat
    BY QueryAssumption
<1>3. P = FirstOf(MaxTransactions, Items(a))
    BY DEF Transactions, FirstOf
<1>4. P \subseteq Items(a)
    BY DEF Transactions
<1> QED
    BY <1>1, <1>2, <1>3, <1>4, FirstOfTheList

\* A transfer that was answered with success is an item of either account.
LEMMA SuccessIsItem ==
    ASSUME LedgerFacts, NEW r \in Succeeded, IsTransfer(request[r]),
           NEW a \in {Source(r), Destination(r)}
    PROVE  \E t \in Items(a) : /\ t.transfer_id = answer[r].body.transfer_id
                               /\ t.created_at = begun[answer[r].body.transfer_id]
<1>1. PICK k \in Committed :
          /\ idempotency_keys[k].operation = "create_transfer"
          /\ idempotency_keys[k].resource_id = answer[r].body.transfer_id
          /\ idempotency_keys[k].request_hash.from_account_id = Source(r)
          /\ idempotency_keys[k].request_hash.to_account_id = Destination(r)
    BY SuccessHasRow
<1> DEFINE id == answer[r].body.transfer_id
           sent == idempotency_keys[k].request_hash
           debit == [transfer_id |-> id, account_id |-> sent.from_account_id,
                     amount |-> -sent.amount]
           credit == [transfer_id |-> id, account_id |-> sent.to_account_id,
                      amount |-> sent.amount]
<1>2. TransferMatches(idempotency_keys[k]) /\ sent.from_account_id # sent.to_account_id
    BY <1>1, TransferRow
<1>3. debit \in ledger_entries /\ credit \in ledger_entries
    BY <1>1, <1>2 DEF TransferMatches
<1>4. /\ debit # credit /\ debit.transfer_id = id /\ credit.transfer_id = id
      /\ debit.account_id = Source(r) /\ credit.account_id = Destination(r)
    BY <1>1, <1>2
<1> HIDE DEF debit, credit
<1>5. CASE a = Source(r)
  <2>1. <<debit, credit>> \in Pairs(a)
      BY <1>3, <1>4, <1>5 DEF Pairs, EntriesOf
  <2>2. [transfer_id |-> debit.transfer_id, amount |-> debit.amount,
         counterparty_account_id |-> credit.account_id, created_at |-> begun[debit.transfer_id]]
            \in Items(a)
      BY <2>1 DEF Items
  <2> QED
      BY <1>4, <2>2
<1>6. CASE a = Destination(r)
  <2>1. <<credit, debit>> \in Pairs(a)
      BY <1>3, <1>4, <1>6 DEF Pairs, EntriesOf
  <2>2. [transfer_id |-> credit.transfer_id, amount |-> credit.amount,
         counterparty_account_id |-> debit.account_id, created_at |-> begun[credit.transfer_id]]
            \in Items(a)
      BY <2>1 DEF Items
  <2> QED
      BY <1>4, <2>2
<1> QED
    BY <1>5, <1>6

\* now() of a transfer that has entries is fixed for good, and its items are.
LEMMA ItemsStay ==
    ASSUME LedgerFacts, [Next]_vars,
           \A e \in ledger_entries : begun'[e.transfer_id] = begun[e.transfer_id],
           NEW a, NEW t \in Items(a)
    PROVE  t \in Items(a)'
<1>1. ledger_entries \subseteq ledger_entries'
    BY TablesGrow DEF LedgerFacts
<1>2. PICK p \in Pairs(a) : t = [transfer_id |-> p[1].transfer_id,
                                 amount      |-> p[1].amount,
                                 counterparty_account_id |-> p[2].account_id,
                                 created_at  |-> begun[p[1].transfer_id]]
    BY DEF Items
<1>3. p \in Pairs(a)' /\ p[1] \in ledger_entries
    BY <1>1 DEF Pairs, EntriesOf
<1> QED
    BY <1>2, <1>3 DEF Items

----------------------------------------------------------------------------
(* The invariant.                                                          *)

Item == [transfer_id : Attempt, amount : Int, counterparty_account_id : Account,
         created_at : Nat]

HistoryTypeOK ==
    /\ clock \in Nat
    /\ begun \in [Attempt -> Nat]
    /\ stage \in [Query -> {"unsent", "sent", "found", "listed", "balance", "missing"}]
    /\ asked \in [Query -> Account \cup {Null}]
    /\ told \in [Query -> SUBSET Attempt]
    /\ page \in [Query -> SUBSET Item]
    /\ reported \in [Query -> Money \cup {Null}]

\* Queries are made one after the other, about an account that is there once
\* it has been found, by clients that know of nothing that was not done.
InOrder(q) == stage[q] # "unsent" =>
    /\ asked[q] \in Account
    /\ \A p \in Query : p < q => stage[p] \in {"listed", "balance", "missing"}

FoundIsOpen(q) == stage[q] \in {"found", "listed", "balance"} => asked[q] \in accounts

ToldIsDone(q) == told[q] \subseteq Succeeded

\* What was listed would be listed again, on a page without an end.
PageStands(q) == stage[q] = "listed" =>
    page[q] \subseteq Items(asked[q]) /\ Cardinality(page[q]) <= MaxTransactions

\* The properties, of one query.
Shows(q) == stage[q] = "listed" =>
    \A r \in told[q] :
        IsTransfer(request[r]) /\ asked[q] \in {Source(r), Destination(r)} =>
            \/ \E t \in page[q] : t.transfer_id = answer[r].body.transfer_id
            \/ /\ IsFull(q)
               /\ \A t \in page[q] : t.created_at >= begun[answer[r].body.transfer_id]

Extends(p, q) ==
    stage[p] = "listed" /\ stage[q] = "listed" /\ p < q /\ asked[p] = asked[q] =>
        \A t \in page[p] \ page[q] :
            IsFull(q) /\ \A u \in page[q] : u.created_at >= t.created_at

Reports(q) == stage[q] = "balance" =>
    \E E \in SUBSET EntriesOf(asked[q]) :
        /\ reported[q] = opening_balance[asked[q]] + LegSum(E)
        /\ \A e \in EntriesOf(asked[q]) :
               (\E r \in told[q] : IsTransfer(request[r])
                    /\ answer[r].body.transfer_id = e.transfer_id) => e \in E

Misses(q) == stage[q] = "missing" =>
    /\ asked[q] \notin InitAccounts
    /\ \A r \in told[q] : ~IsTransfer(request[r]) => answer[r].body.id # asked[q]

QueryOK(q) ==
    /\ InOrder(q)
    /\ FoundIsOpen(q)
    /\ ToldIsDone(q)
    /\ PageStands(q)
    /\ Shows(q)
    /\ Reports(q)
    /\ Misses(q)

HistoryIInv ==
    /\ HistoryTypeOK
    /\ \A q \in Query : QueryOK(q)
    /\ \A p, q \in Query : Extends(p, q)

----------------------------------------------------------------------------
(* What a step does to a query.                                            *)

Same(q) ==
    /\ stage'[q] = stage[q] /\ asked'[q] = asked[q] /\ told'[q] = told[q]
    /\ page'[q] = page[q] /\ reported'[q] = reported[q]

Moves(q) == Ask(q) \/ AnswerMissing(q) \/ AnswerBalance(q) \/ FindAccount(q) \/ AnswerList(q)

LEMMA QuerySteps ==
    ASSUME LedgerFacts, HistoryTypeOK, [HistoryNext]_history
    PROVE  /\ begun' \in [Attempt -> Nat] /\ clock' \in Nat
           /\ \A e \in ledger_entries : begun'[e.transfer_id] = begun[e.transfer_id]
           /\ \/ UNCHANGED queries
              \/ \E q \in Query : Moves(q) /\ UNCHANGED <<vars, begun>>
           /\ \A q \in Query : \/ Same(q)
                              \/ /\ Moves(q) /\ UNCHANGED <<vars, begun>>
                                 /\ \A p \in Query : p # q => Same(p)
<1>1. \A e \in ledger_entries : pc[e.transfer_id] \in Finished
    BY EntryHasRow, TransferRow
<1>2. CASE UNCHANGED queries /\ UNCHANGED <<clock, begun>>
    BY <1>2 DEF queries, Same, HistoryTypeOK
<1>3. CASE \E r \in Attempt : Begin(r)
  <2>1. PICK r \in Attempt : Begin(r)
      BY <1>3
  <2>2. /\ clock' \in Nat
        /\ begun' = [begun EXCEPT ![r] = clock'] /\ pc[r] = "claim" /\ UNCHANGED queries
      BY <2>1 DEF Begin, HistoryTypeOK
  <2>3. \A e \in ledger_entries : begun'[e.transfer_id] = begun[e.transfer_id]
    <3>1. \A e \in ledger_entries : e.transfer_id # r
        BY <1>1, <2>2 DEF Finished
    <3> QED
        BY <2>2, <3>1 DEF HistoryTypeOK
  <2>4. \A q \in Query : Same(q)
      BY <2>2 DEF queries, Same
  <2> QED
      BY <2>2, <2>3, <2>4 DEF HistoryTypeOK
<1>4. CASE \E q \in Query : Moves(q)
  <2>1. PICK q \in Query : Moves(q)
      BY <1>4
  <2>2. UNCHANGED <<vars, clock, begun>>
      BY <2>1 DEF Moves, Ask, AnswerMissing, AnswerBalance, FindAccount, AnswerList
  <2>3. \A p \in Query : p # q => Same(p)
      BY <2>1 DEF HistoryTypeOK, Same, Moves, Ask, AnswerMissing, AnswerBalance, FindAccount,
                  AnswerList
  <2> QED
      BY <2>1, <2>2, <2>3 DEF HistoryTypeOK
<1> QED
    BY <1>2, <1>3, <1>4 DEF HistoryNext, history, Write, Moves

\* What was done stays done, and is told as it was.
LEMMA DoneStaysDone ==
    ASSUME LedgerFacts, [Next]_vars, NEW r \in Succeeded
    PROVE  /\ r \in Succeeded' /\ request'[r] = request[r] /\ answer'[r] = answer[r]
           /\ Source(r)' = Source(r) /\ Destination(r)' = Destination(r)
BY StoriesStay, FinishedStays DEF LedgerFacts, Succeeded, Finished, Source, Destination

LEMMA TypeStep ==
    ASSUME LedgerFacts, HistoryIInv, [HistoryNext]_history
    PROVE  HistoryTypeOK'
<1> USE DEF HistoryIInv, HistoryTypeOK
<1>1. begun' \in [Attempt -> Nat] /\ clock' \in Nat
    BY QuerySteps
<1>2. CASE UNCHANGED queries
    BY <1>1, <1>2 DEF queries
<1>3. ASSUME NEW q \in Query, Moves(q)
      PROVE  HistoryTypeOK'
  <2>1. CASE Ask(q)
      BY <1>1, <2>1 DEF Ask, Succeeded
  <2>2. CASE AnswerMissing(q) \/ FindAccount(q)
      BY <1>1, <2>2 DEF AnswerMissing, FindAccount
  <2>3. CASE AnswerBalance(q)
    <3>1. balance[asked[q]] \in Money
        BY <2>3 DEF AnswerBalance, Found, LedgerFacts, IInv, TypeOK
    <3> QED
        BY <1>1, <2>3, <3>1 DEF AnswerBalance, Balance
  <2>4. CASE AnswerList(q)
    <3>1. \A a : Items(a) \subseteq Item
      <4> SUFFICES ASSUME NEW a, NEW t \in Items(a) PROVE t \in Item
          OBVIOUS
      <4>1. PICK mine \in EntriesOf(a), theirs \in ledger_entries :
                t = [transfer_id |-> mine.transfer_id,
                     amount      |-> mine.amount,
                     counterparty_account_id |-> theirs.account_id,
                     created_at  |-> begun[mine.transfer_id]]
          BY ItemsAreTransfers
      <4>2. mine \in LedgerEntry /\ theirs \in LedgerEntry
          BY DEF EntriesOf, LedgerFacts, IInv, TypeOK
      <4> QED
          BY <4>1, <4>2 DEF LedgerEntry, Item
    <3>2. Transactions(asked[q]) \in SUBSET Item
        BY <3>1 DEF Transactions
    <3> QED
        BY <1>1, <2>4, <3>2 DEF AnswerList
  <2> QED
      BY <1>3, <2>1, <2>2, <2>3, <2>4 DEF Moves
<1> QED
    BY <1>2, <1>3, QuerySteps

\* A query that nobody touches, while the ledger goes on.
LEMMA WaitingStep ==
    ASSUME LedgerFacts, LedgerFacts', HistoryIInv, [HistoryNext]_history, NEW q \in Query, Same(q)
    PROVE  FoundIsOpen(q)' /\ ToldIsDone(q)' /\ PageStands(q)' /\ Shows(q)' /\ Reports(q)'
           /\ Misses(q)'
<1> USE WritesAreSteps
<1> SUFFICES ASSUME NEW a, a = asked[q], NEW T, T = told[q], NEW P, P = page[q]
             PROVE  FoundIsOpen(q)' /\ ToldIsDone(q)' /\ PageStands(q)' /\ Shows(q)'
                    /\ Reports(q)' /\ Misses(q)'
    OBVIOUS
<1>0. asked'[q] = a /\ told'[q] = T /\ page'[q] = P /\ stage'[q] = stage[q]
      /\ reported'[q] = reported[q] /\ QueryOK(q)
    BY DEF Same, HistoryIInv
<1>1. /\ ledger_entries \subseteq ledger_entries'
      /\ accounts \subseteq accounts'
      /\ \A b \in accounts : opening_balance'[b] = opening_balance[b]
    BY TablesGrow DEF LedgerFacts
<1>2. \A r \in T : /\ r \in Succeeded /\ r \in Succeeded'
                    /\ request'[r] = request[r] /\ answer'[r] = answer[r]
                    /\ Source(r)' = Source(r) /\ Destination(r)' = Destination(r)
    BY <1>0, DoneStaysDone DEF QueryOK, ToldIsDone
<1>3. \A r \in T : IsTransfer(request[r]) =>
          \E e \in ledger_entries : e.transfer_id = answer[r].body.transfer_id
  <2> SUFFICES ASSUME NEW r \in T, IsTransfer(request[r])
               PROVE  \E e \in ledger_entries : e.transfer_id = answer[r].body.transfer_id
      OBVIOUS
  <2>1. PICK k \in Committed :
            /\ idempotency_keys[k].operation = "create_transfer"
            /\ idempotency_keys[k].resource_id = answer[r].body.transfer_id
      BY <1>2, SuccessHasRow
  <2>2. TransferMatches(idempotency_keys[k])
      BY <2>1, TransferRow
  <2> QED
      BY <2>1, <2>2 DEF TransferMatches
<1>4. FoundIsOpen(q)'
    BY <1>0, <1>1 DEF QueryOK, FoundIsOpen
<1>5. ToldIsDone(q)'
    BY <1>0, <1>2 DEF ToldIsDone
<1>6. \A e \in ledger_entries : begun'[e.transfer_id] = begun[e.transfer_id]
    BY QuerySteps DEF HistoryIInv
<1>7. PageStands(q)'
  <2>1. \A t \in Items(a) : t \in Items(a)'
      BY <1>6, ItemsStay
  <2>2. stage[q] = "listed" => P \subseteq Items(a) /\ Cardinality(P) <= MaxTransactions
      BY <1>0 DEF QueryOK, PageStands
  <2>3. stage[q] = "listed" => \A t \in P : t \in Items(a)'
      BY <2>1, <2>2
  <2> QED
      BY <1>0, <2>2, <2>3 DEF PageStands
<1>8. Shows(q)'
  <2> SUFFICES ASSUME stage[q] = "listed", NEW r \in T, IsTransfer(request'[r]),
                      a \in {Source(r)', Destination(r)'}
               PROVE  \/ \E t \in P : t.transfer_id = answer'[r].body.transfer_id
                      \/ /\ Cardinality(P) = MaxTransactions
                         /\ \A t \in P : t.created_at >= begun'[answer'[r].body.transfer_id]
      BY <1>0 DEF Shows, IsFull
  <2>1. IsTransfer(request[r]) /\ a \in {Source(r), Destination(r)} /\ answer'[r] = answer[r]
      BY <1>2
  <2>2. begun'[answer[r].body.transfer_id] = begun[answer[r].body.transfer_id]
      BY <1>3, <1>6, <2>1
  <2>3. \/ \E t \in P : t.transfer_id = answer[r].body.transfer_id
        \/ /\ Cardinality(P) = MaxTransactions
           /\ \A t \in P : t.created_at >= begun[answer[r].body.transfer_id]
      BY <1>0, <2>1 DEF QueryOK, Shows, IsFull
  <2> QED
      BY <2>1, <2>2, <2>3
<1>9. Reports(q)'
  <2> SUFFICES ASSUME stage[q] = "balance" PROVE Reports(q)'
      BY <1>0 DEF Reports
  <2>1. PICK E \in SUBSET EntriesOf(a) :
            /\ reported[q] = opening_balance[a] + LegSum(E)
            /\ \A e \in EntriesOf(a) :
                   (\E r \in T : IsTransfer(request[r])
                        /\ answer[r].body.transfer_id = e.transfer_id) => e \in E
      BY <1>0 DEF QueryOK, Reports
  <2>2. E \in SUBSET (EntriesOf(a)')
      BY <1>1 DEF EntriesOf
  <2>3. opening_balance'[a] = opening_balance[a]
      BY <1>0, <1>1 DEF QueryOK, FoundIsOpen
  <2>4. ASSUME NEW e \in EntriesOf(a)', NEW r \in T, IsTransfer(request'[r]),
               answer'[r].body.transfer_id = e.transfer_id
        PROVE  e \in E
    <3>1. IsTransfer(request[r]) /\ answer[r].body.transfer_id = e.transfer_id
        BY <1>2, <2>4
    <3>2. PICK f \in ledger_entries : f.transfer_id = e.transfer_id
        BY <1>3, <3>1
    <3>3. e \in ledger_entries' /\ e.account_id = a
        BY DEF EntriesOf
    <3>4. e \in EntriesOf(a)
        BY <3>2, <3>3, TransfersAreWhole DEF EntriesOf
    <3> QED
        BY <2>1, <3>1, <3>4
  <2> QED
      BY <1>0, <2>1, <2>2, <2>3, <2>4 DEF Reports
<1>10. Misses(q)'
    BY <1>0, <1>2 DEF QueryOK, Misses
<1> QED
    BY <1>4, <1>5, <1>7, <1>8, <1>9, <1>10

LEMMA OrderStep ==
    ASSUME LedgerFacts, HistoryIInv, [HistoryNext]_history, NEW q \in Query
    PROVE  InOrder(q)'
<1>1. /\ \A p \in Query : InOrder(p)
      /\ stage \in [Query -> {"unsent", "sent", "found", "listed", "balance", "missing"}]
      /\ asked \in [Query -> Account \cup {Null}]
    BY DEF HistoryIInv, QueryOK, HistoryTypeOK
<1>2. \A p \in Query : Same(p) \/ Moves(p)
    BY QuerySteps DEF HistoryIInv
<1>3. \A p \in Query : stage[p] \in {"listed", "balance", "missing"} => stage'[p] = stage[p]
    BY <1>2 DEF Same, Moves, Ask, AnswerMissing, AnswerBalance, FindAccount, AnswerList
<1>4. CASE Same(q)
    BY <1>1, <1>3, <1>4 DEF InOrder, Same
<1>5. CASE Ask(q)
  <2>1. asked'[q] \in Account
      BY <1>1, <1>5 DEF Ask
  <2>2. \A p \in Query : p < q => stage[p] \in {"listed", "balance", "missing"}
      BY <1>5 DEF Ask
  <2> QED
      BY <1>3, <2>1, <2>2 DEF InOrder
<1>6. CASE AnswerMissing(q) \/ AnswerBalance(q) \/ FindAccount(q) \/ AnswerList(q)
  <2>1. stage[q] # "unsent" /\ asked' = asked
      BY <1>6 DEF AnswerMissing, AnswerBalance, FindAccount, AnswerList
  <2> QED
      BY <1>1, <1>3, <2>1 DEF InOrder
<1> QED
    BY <1>2, <1>4, <1>5, <1>6 DEF Moves

\* A query that makes a step, while the ledger stands still.
LEMMA MovingStep ==
    ASSUME LedgerFacts, HistoryIInv, NEW q \in Query, Moves(q), UNCHANGED <<vars, begun>>
    PROVE  FoundIsOpen(q)' /\ ToldIsDone(q)' /\ PageStands(q)' /\ Shows(q)' /\ Reports(q)'
           /\ Misses(q)'
<1>1. /\ FoundIsOpen(q) /\ ToldIsDone(q) /\ InOrder(q)
      /\ stage \in [Query -> {"unsent", "sent", "found", "listed", "balance", "missing"}]
      /\ asked \in [Query -> Account \cup {Null}]
      /\ told \in [Query -> SUBSET Attempt]
      /\ page \in [Query -> SUBSET Item]
      /\ reported \in [Query -> Money \cup {Null}]
      /\ begun \in [Attempt -> Nat]
    BY DEF HistoryIInv, QueryOK, HistoryTypeOK
<1>2. /\ Succeeded' = Succeeded /\ accounts' = accounts
      /\ request' = request /\ answer' = answer /\ begun' = begun
      /\ ledger_entries' = ledger_entries /\ opening_balance' = opening_balance
    BY DEF vars, tables, Succeeded
<1>3. CASE Ask(q)
  <2>1. stage'[q] = "sent" /\ told'[q] = Succeeded
      BY <1>1, <1>3 DEF Ask
  <2> QED
      BY <1>2, <2>1 DEF FoundIsOpen, ToldIsDone, PageStands, Shows, Reports, Misses
<1>4. CASE AnswerMissing(q)
  <2>1. /\ stage'[q] = "missing" /\ asked'[q] = asked[q] /\ told'[q] = told[q]
        /\ asked[q] \notin accounts
      BY <1>1, <1>4 DEF AnswerMissing, Found
  <2>2. /\ asked[q] \notin InitAccounts
        /\ \A r \in told[q] : ~IsTransfer(request[r]) => answer[r].body.id # asked[q]
      BY <1>1, <2>1, SuccessHasRow DEF LedgerFacts, Together, ToldIsDone
  <2> QED
      BY <1>1, <1>2, <2>1, <2>2 DEF FoundIsOpen, ToldIsDone, PageStands, Shows, Reports, Misses
<1>5. CASE AnswerBalance(q)
  <2>1. /\ stage'[q] = "balance" /\ asked'[q] = asked[q] /\ told'[q] = told[q]
        /\ reported'[q] = balance[asked[q]] /\ asked[q] \in accounts
      BY <1>1, <1>5 DEF AnswerBalance, Found, Balance
  <2>2. asked[q] \in Account
      BY <2>1 DEF LedgerFacts, IInv, TypeOK
  <2>3. reported'[q] = opening_balance[asked[q]] + LegSum(EntriesOf(asked[q]))
      BY <2>1, <2>2 DEF LedgerFacts, Books, BooksBalance
  <2>4. EntriesOf(asked[q])' = EntriesOf(asked[q])
      BY <1>2, <2>1 DEF EntriesOf
  <2>5. Reports(q)'
    <3> SUFFICES ASSUME NEW E, E = EntriesOf(asked[q])
                 PROVE  /\ E \in SUBSET EntriesOf(asked[q])'
                        /\ reported'[q] = opening_balance'[asked'[q]] + LegSum(E)
                        /\ \A e \in EntriesOf(asked[q])' : e \in E
        BY DEF Reports
    <3> QED
        BY <1>2, <2>1, <2>3, <2>4
  <2> QED
      BY <1>1, <1>2, <2>1, <2>5 DEF FoundIsOpen, ToldIsDone, PageStands, Shows, Misses
<1>6. CASE FindAccount(q)
  <2>1. /\ stage'[q] = "found" /\ asked'[q] = asked[q] /\ told'[q] = told[q]
        /\ asked[q] \in accounts
      BY <1>1, <1>6 DEF FindAccount, Found
  <2> QED
      BY <1>1, <1>2, <2>1 DEF FoundIsOpen, ToldIsDone, PageStands, Shows, Reports, Misses
<1>7. CASE AnswerList(q)
  <2> SUFFICES ASSUME NEW a, a = asked[q], NEW P, P = Transactions(a)
               PROVE  FoundIsOpen(q)' /\ ToldIsDone(q)' /\ PageStands(q)' /\ Shows(q)'
                      /\ Reports(q)' /\ Misses(q)'
      OBVIOUS
  <2>1. /\ stage[q] = "found" /\ stage'[q] = "listed" /\ asked'[q] = a /\ told'[q] = told[q]
        /\ page'[q] = P
      BY <1>1, <1>7 DEF AnswerList
  <2>2. /\ P \subseteq Items(a) /\ Cardinality(P) <= MaxTransactions
        /\ \A x \in Items(a) \ P :
               Cardinality(P) = MaxTransactions /\ \A t \in P : t.created_at >= x.created_at
      BY <1>1, PagesAreHeads
  <2>3. Items(a)' = Items(a)
      BY <1>2 DEF Items, Pairs, EntriesOf
  <2>4. PageStands(q)'
      BY <2>1, <2>2, <2>3 DEF PageStands
  <2>5. Shows(q)'
    <3> SUFFICES ASSUME NEW r \in told[q], IsTransfer(request[r]),
                        a \in {Source(r), Destination(r)}
                 PROVE  \/ \E t \in P : t.transfer_id = answer[r].body.transfer_id
                        \/ /\ Cardinality(P) = MaxTransactions
                           /\ \A t \in P : t.created_at >= begun[answer[r].body.transfer_id]
        BY <1>2, <2>1 DEF Shows, IsFull, Source, Destination
    <3>1. PICK x \in Items(a) : /\ x.transfer_id = answer[r].body.transfer_id
                                /\ x.created_at = begun[answer[r].body.transfer_id]
        BY <1>1, SuccessIsItem DEF ToldIsDone
    <3> QED
        BY <2>2, <3>1
  <2> QED
      BY <1>1, <1>2, <2>1, <2>4, <2>5 DEF FoundIsOpen, ToldIsDone, Reports, Misses
<1> QED
    BY <1>3, <1>4, <1>5, <1>6, <1>7 DEF Moves

\* Of two lists the later one is made last: queries are made in order.
LEMMA ExtendsStep ==
    ASSUME LedgerFacts, HistoryIInv, [HistoryNext]_history, NEW p \in Query, NEW q \in Query
    PROVE  Extends(p, q)'
<1>1. /\ InOrder(q) /\ PageStands(p) /\ Extends(p, q)
      /\ stage \in [Query -> {"unsent", "sent", "found", "listed", "balance", "missing"}]
      /\ page \in [Query -> SUBSET Item]
      /\ begun \in [Attempt -> Nat]
      /\ p \in Nat /\ q \in Nat
    BY QueryAssumption DEF HistoryIInv, QueryOK, HistoryTypeOK
<1>2. /\ Same(p) \/ Moves(p)
      /\ Same(q) \/ (Moves(q) /\ \A x \in Query : x # q => Same(x))
    BY QuerySteps DEF HistoryIInv
<1> SUFFICES ASSUME stage'[p] = "listed", stage'[q] = "listed", p < q, asked'[p] = asked'[q],
                    NEW t \in page'[p] \ page'[q]
             PROVE  /\ Cardinality(page'[q]) = MaxTransactions
                    /\ \A u \in page'[q] : u.created_at >= t.created_at
    BY DEF Extends, IsFull
<1>3. Same(p)
  <2> SUFFICES ASSUME Moves(p) PROVE FALSE
      BY <1>2
  <2>1. stage[p] \in {"unsent", "sent", "found"}
      BY DEF Moves, Ask, AnswerMissing, AnswerBalance, FindAccount, AnswerList
  <2>2. stage[q] = "unsent"
      BY <1>1, <2>1 DEF InOrder
  <2>3. stage'[q] # "listed"
    <3>1. CASE Same(q)
        BY <2>2, <3>1 DEF Same
    <3>2. CASE Moves(q)
        BY <1>1, <2>2, <3>2 DEF Moves, Ask, AnswerMissing, AnswerBalance, FindAccount, AnswerList
    <3> QED
        BY <1>2, <3>1, <3>2
  <2> QED
      BY <2>3
<1>4. CASE Same(q)
    BY <1>1, <1>3, <1>4 DEF Same, Extends, IsFull
<1>5. CASE Moves(q)
  <2>1. AnswerList(q)
      BY <1>1, <1>5 DEF Moves, Ask, AnswerMissing, AnswerBalance, FindAccount
  <2> SUFFICES ASSUME NEW a, a = asked[q], NEW P, P = Transactions(a)
               PROVE  /\ Cardinality(page'[q]) = MaxTransactions
                      /\ \A u \in page'[q] : u.created_at >= t.created_at
      OBVIOUS
  <2>2. page'[q] = P /\ asked' = asked
      BY <1>1, <2>1 DEF AnswerList
  <2>3. t \in Items(a) \ P
      BY <1>1, <1>3, <2>2 DEF Same, PageStands
  <2>4. \A x \in Items(a) \ P :
            Cardinality(P) = MaxTransactions /\ \A u \in P : u.created_at >= x.created_at
      BY <1>1, PagesAreHeads
  <2> QED
      BY <2>2, <2>3, <2>4
<1> QED
    BY <1>2, <1>4, <1>5

LEMMA HistoryStarts ==
    ASSUME HistoryInit
    PROVE  HistoryIInv
<1>1. HistoryTypeOK
    BY DEF HistoryInit, HistoryTypeOK, NotBegun
<1>2. \A q \in Query : stage[q] = "unsent" /\ told[q] = {}
    BY DEF HistoryInit
<1>3. \A q \in Query : QueryOK(q)
    BY <1>2 DEF QueryOK, InOrder, FoundIsOpen, ToldIsDone, PageStands, Shows, Reports, Misses
<1>4. \A p, q \in Query : Extends(p, q)
    BY <1>2 DEF Extends
<1> QED
    BY <1>1, <1>3, <1>4 DEF HistoryIInv

LEMMA HistoryStep ==
    ASSUME LedgerFacts, LedgerFacts', HistoryIInv, [HistoryNext]_history
    PROVE  HistoryIInv'
<1>1. HistoryTypeOK'
    BY TypeStep
<1>2. ASSUME NEW q \in Query
      PROVE  QueryOK(q)'
  <2>1. InOrder(q)'
      BY OrderStep
  <2>2. Same(q) \/ (Moves(q) /\ UNCHANGED <<vars, begun>>)
      BY QuerySteps DEF HistoryIInv
  <2>3. FoundIsOpen(q)' /\ ToldIsDone(q)' /\ PageStands(q)' /\ Shows(q)' /\ Reports(q)'
        /\ Misses(q)'
      BY <2>2, WaitingStep, MovingStep
  <2> QED
      BY <2>1, <2>3 DEF QueryOK
<1>3. \A p, q \in Query : Extends(p, q)'
    BY ExtendsStep
<1> QED
    BY <1>1, <1>2, <1>3 DEF HistoryIInv

LEMMA QueriesHold == HistorySpec => [](LedgerFacts /\ HistoryIInv)
BY FactsHold, HistoryStarts, HistoryStep, PTL DEF HistorySpec

----------------------------------------------------------------------------
(* The theorems.                                                           *)

\* Every transaction that GET /accounts/{id}/transactions lists is a transfer
\* some key was used for, seen from the account asked about, listed once, on
\* a page of no more than MAX_TRANSACTIONS (accounts.py 57-75).
THEOREM ListsAreTrue == HistorySpec => []ListsTellTransfers
<1>1. LedgerFacts /\ HistoryIInv => ListsTellTransfers
  <2> SUFFICES ASSUME LedgerFacts, HistoryIInv, NEW q \in Listed
               PROVE  /\ Cardinality(page[q]) <= MaxTransactions
                      /\ \A t, u \in page[q] : t.transfer_id = u.transfer_id => t = u
                      /\ \A t \in page[q] : \E k \in Committed : Tells(t, asked[q], k)
      BY DEF ListsTellTransfers
  <2>1. page[q] \subseteq Items(asked[q]) /\ Cardinality(page[q]) <= MaxTransactions
      BY DEF Listed, HistoryIInv, QueryOK, PageStands
  <2>2. begun \in [Attempt -> Nat]
      BY DEF HistoryIInv, HistoryTypeOK
  <2>3. \A t, u \in page[q] : t.transfer_id = u.transfer_id => t = u
      BY <2>1, <2>2, ItemsAreOnce
  <2>4. \A t \in page[q] : \E k \in Committed : Tells(t, asked[q], k)
      BY <2>1, <2>2, ItemsAreTransfers
  <2> QED
      BY <2>1, <2>3, <2>4
<1> QED
    BY <1>1, QueriesHold, PTL

\* A transfer that a client was told of before it asked is in the list it
\* gets, or a full page of no older ones has left it out
\* (routers/accounts.py 117-127).
THEOREM ListsAreComplete == HistorySpec => []ListsShowWhatWasTold
<1>1. HistoryIInv => ListsShowWhatWasTold
    BY DEF HistoryIInv, QueryOK, Shows, ListsShowWhatWasTold, Listed
<1> QED
    BY <1>1, QueriesHold, PTL

\* What one list shows the next one shows, unless a full page of no older
\* transactions has left it out (accounts.py 70-75).
THEOREM ListsGrow == HistorySpec => []ListsOnlyGrow
<1>1. HistoryIInv => ListsOnlyGrow
    BY DEF HistoryIInv, Extends, ListsOnlyGrow, Listed
<1> QED
    BY <1>1, QueriesHold, PTL

\* A balance is what the account was opened with and the legs of some of its
\* transfers, all those the client was told of among them
\* (routers/accounts.py 97-100).
THEOREM BalancesAreCurrent == HistorySpec => []BalancesShowWhatWasTold
<1>1. HistoryIInv => BalancesShowWhatWasTold
    BY DEF HistoryIInv, QueryOK, Reports, BalancesShowWhatWasTold
<1> QED
    BY <1>1, QueriesHold, PTL

\* A client that was told of an account is never answered 404 for it
\* (accounts.py 23-29, get_account).
THEOREM AccountsAreFound == HistorySpec => []NoAccountIsLost
<1>1. HistoryIInv => NoAccountIsLost
    BY DEF HistoryIInv, QueryOK, Misses, NoAccountIsLost
<1> QED
    BY <1>1, QueriesHold, PTL

==============================================================================
