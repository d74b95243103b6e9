---------------------------- MODULE LedgerProofs ----------------------------
(***************************************************************************)
(* IInv is an inductive invariant of LedgerService, and what follows.      *)
(***************************************************************************)
EXTENDS LedgerInvariant, TLAPS

----------------------------------------------------------------------------
(* Calls, records and answers.                                             *)

\* A call that gets past the boundary has a legal key, and a transfer names
\* two different accounts.
LEMMA AcceptedCall ==
    ASSUME NEW c \in Calls, BoundaryError(c) = "NONE"
    PROVE  /\ StrippedKey(c) \in Key
           /\ IsTransfer(c) => /\ c.operation = "create_transfer"
                               /\ c.req.from_account_id \in Account
                               /\ c.req.to_account_id \in Account
                               /\ c.req.from_account_id # c.req.to_account_id
                               /\ c.req.amount \in Money \ {0}
           /\ ~IsTransfer(c) => /\ c.operation = "create_account"
                                /\ c.req.initial_balance \in Money
<1>1. c \in Call
    BY CallsAssumption
<1>2. c.header.text \in Key \cup {BlankText, OverlongText}
    BY <1>1 DEF Call, TransferCall, CreateAccountCall, Header
<1>3. c.header.text # BlankText /\ c.header.text # OverlongText
    BY DEF BoundaryError
<1>4. StrippedKey(c) \in Key
    BY <1>2, <1>3 DEF StrippedKey
<1>5. IsTransfer(c) => c.req.from_account_id # c.req.to_account_id
    BY <1>2, <1>3 DEF BoundaryError
<1>6. IsTransfer(c) => c \in TransferCall
    BY <1>1 DEF IsTransfer, Call, TransferCall, CreateAccountCall
<1>7. ~IsTransfer(c) => c \in CreateAccountCall
    BY <1>1 DEF IsTransfer, Call, TransferCall, CreateAccountCall
<1> QED
    BY <1>4, <1>5, <1>6, <1>7 DEF TransferCall, CreateAccountCall, TransferRequest, CreateAccountRequest

\* The row a call claims its key with is a row of the table.
LEMMA ClaimedRecordType ==
    ASSUME NEW c \in Calls, BoundaryError(c) = "NONE"
    PROVE  ClaimedRecord(c) \in Record
<1>1. Fingerprint(c) \in RequestHash
    BY AcceptedCall DEF Fingerprint, RequestHash
<1>2. c.operation \in {"create_transfer", "create_account"}
    BY AcceptedCall
<1> QED
    BY <1>1, <1>2 DEF ClaimedRecord, Record

\* Recording a response keeps it one.
LEMMA FilledRecordType ==
    ASSUME NEW record \in Record, NEW id \in Attempt \cup Account, NEW body \in Body
    PROVE  FilledRecord(record, id, body) \in Record
BY DEF FilledRecord, Record

\* Every answer the handlers build is an answer.
LEMMA AnswerTypes ==
    /\ CatchAll \in Answer
    /\ \A body \in Body \cup {Null}, replayed \in BOOLEAN :
           Success(200, body, replayed) \in Answer /\ Success(201, body, replayed) \in Answer
    /\ \A code \in {"IDEMPOTENCY_KEY_REQUIRED", "IDEMPOTENCY_KEY_INVALID",
                    "SAME_ACCOUNT_TRANSFER", "ACCOUNT_NOT_FOUND", "IDEMPOTENCY_KEY_CONFLICT",
                    "INSUFFICIENT_FUNDS", "AMOUNT_OUT_OF_RANGE", "LOCK_TIMEOUT",
                    "INTERNAL_ERROR"} : Refusal(code) \in Answer
    /\ \A record \in Record, c \in Calls : Replay(record, c) \in Answer
<1>1. CatchAll \in Answer
    BY DEF CatchAll, Answer
<1>2. \A body \in Body \cup {Null}, replayed \in BOOLEAN :
           Success(200, body, replayed) \in Answer /\ Success(201, body, replayed) \in Answer
    BY DEF Success, Answer
<1>3. \A code \in {"IDEMPOTENCY_KEY_REQUIRED", "IDEMPOTENCY_KEY_INVALID",
                    "SAME_ACCOUNT_TRANSFER", "ACCOUNT_NOT_FOUND", "IDEMPOTENCY_KEY_CONFLICT",
                    "INSUFFICIENT_FUNDS", "AMOUNT_OUT_OF_RANGE", "LOCK_TIMEOUT",
                    "INTERNAL_ERROR"} : Refusal(code) \in Answer
    BY DEF Refusal, StatusCode, Retryable, Answer
<1>4. \A record \in Record, c \in Calls : Replay(record, c) \in Answer
  <2> SUFFICES ASSUME NEW record \in Record, NEW c \in Calls
               PROVE  Replay(record, c) \in Answer
      OBVIOUS
  <2>1. record.response_body \in Body \cup {Null}
      BY DEF Record
  <2>2. Success(200, record.response_body, TRUE) \in Answer
      BY <2>1 DEF Success, Answer
  <2>3. Refusal("IDEMPOTENCY_KEY_CONFLICT") \in Answer
      BY <1>3
  <2> QED
      BY <2>2, <2>3 DEF Replay
<1> QED
    BY <1>1, <1>2, <1>3, <1>4

----------------------------------------------------------------------------
(* The initial states.                                                     *)

LEMMA InitIInv == Init => IInv
<1> SUFFICES ASSUME Init PROVE IInv
    OBVIOUS
<1> USE DEF Init, NothingRead
<1>1. TypeOK
    BY InitialAccountsAssumption DEF TypeOK, Money
<1>2. CallsAtWork
    BY DEF CallsAtWork, Working
<1>3. ClaimsAreExclusive
    BY MarkersAssumption DEF ClaimsAreExclusive, Claimed
<1>4. RowsFollowTheOrder
    BY MarkersAssumption DEF RowsFollowTheOrder
<1>5. LockedReadsAreCurrent
    BY MarkersAssumption DEF LockedReadsAreCurrent, Held
<1>6. DraftsAreOwn
    BY DEF DraftsAreOwn, Claimed
<1>7. CommitsAreReady
    BY DEF CommitsAreReady
<1>8. ResourcesAreSettled
    BY DEF ResourcesAreSettled, Committed
<1>9. WinnerIsReadable
    BY DEF WinnerIsReadable
<1> QED
    BY <1>1, <1>2, <1>3, <1>4, <1>5, <1>6, <1>7, <1>8, <1>9 DEF IInv

----------------------------------------------------------------------------
(* What the invariant says of an attempt at work.                          *)

\* It has a key, and a transfer two accounts in a strict order.
LEMMA AtWork ==
    ASSUME TypeOK, CallsAtWork, NEW r \in Attempt, pc[r] \in Working
    PROVE  /\ request[r] \in Calls
           /\ BoundaryError(request[r]) = "NONE"
           /\ KeyOf(r) \in Key
           /\ IsTransfer(request[r]) =>
                  /\ Source(r) \in Account
                  /\ Destination(r) \in Account
                  /\ Source(r) # Destination(r)
                  /\ Amount(r) \in Money \ {0}
                  /\ LockOrder(r)[1] \in Account
                  /\ LockOrder(r)[2] \in Account
                  /\ LockOrder(r)[1] # LockOrder(r)[2]
                  /\ LockOrder(r)[1] < LockOrder(r)[2]
                  /\ {LockOrder(r)[1], LockOrder(r)[2]} = {Source(r), Destination(r)}
           /\ ~IsTransfer(request[r]) => request[r].req.initial_balance \in Money
<1>1. request[r] \in Calls /\ BoundaryError(request[r]) = "NONE"
    BY DEF CallsAtWork
<1>2. KeyOf(r) \in Key
    BY <1>1, AcceptedCall DEF KeyOf
<1>3. ~IsTransfer(request[r]) => request[r].req.initial_balance \in Money
    BY <1>1, AcceptedCall
<1>4. ASSUME IsTransfer(request[r])
      PROVE  /\ Source(r) \in Account
             /\ Destination(r) \in Account
             /\ Source(r) # Destination(r)
             /\ Amount(r) \in Money \ {0}
    BY <1>1, <1>4, AcceptedCall DEF Source, Destination, Amount
<1>5. ASSUME IsTransfer(request[r])
      PROVE  /\ LockOrder(r)[1] \in Account
             /\ LockOrder(r)[2] \in Account
             /\ LockOrder(r)[1] # LockOrder(r)[2]
             /\ LockOrder(r)[1] < LockOrder(r)[2]
             /\ {LockOrder(r)[1], LockOrder(r)[2]} = {Source(r), Destination(r)}
  <2>1. Source(r) \in Nat /\ Destination(r) \in Nat
      BY <1>4, <1>5, AccountAssumption
  <2>2. CASE Source(r) < Destination(r)
      BY <2>2, <1>4, <1>5 DEF LockOrder
  <2>3. CASE Destination(r) < Source(r)
    <3>1. ~(Source(r) < Destination(r))
        BY <2>1, <2>3
    <3> QED
        BY <3>1, <2>3, <1>4, <1>5 DEF LockOrder
  <2> QED
      BY <2>1, <2>2, <2>3, <1>4, <1>5
<1> QED
    BY <1>1, <1>2, <1>3, <1>4, <1>5

----------------------------------------------------------------------------
(* Every action keeps the invariant.  Actions with the same effect on the  *)
(* database share a lemma.                                                 *)

\* Steps that touch neither the tables nor a transaction, of an attempt that
\* holds nothing before and after: the fast path and the replays.
LEMMA PassiveStep ==
    ASSUME IInv, NEW r \in Attempt, NEW n \in {"claim", "answered"},
           pc[r] \in {"fast_path", "raced"},
           pc' = [pc EXCEPT ![r] = n],
           answer' \in [Attempt -> Answer \cup {NoAnswer}],
           UNCHANGED <<tables, locks, transaction, request>>
    PROVE  IInv'
<1> USE DEF IInv, tables, locks, transaction
<1>0. pc \in [Attempt -> {"idle"} \cup Working \cup Finished]
    BY DEF TypeOK
<1>1. TypeOK'
    BY DEF TypeOK, Working, Finished
<1>2. CallsAtWork'
    BY <1>0 DEF CallsAtWork, Working
<1>3. ClaimsAreExclusive'
    BY <1>0 DEF ClaimsAreExclusive, Claimed, KeyOf
<1>4. RowsFollowTheOrder'
    BY <1>0 DEF RowsFollowTheOrder, LockOrder, Source, Destination
<1>5. LockedReadsAreCurrent'
    BY <1>0 DEF LockedReadsAreCurrent, Held
<1>6. DraftsAreOwn'
    BY <1>0 DEF DraftsAreOwn, Claimed
<1>7. CommitsAreReady'
    BY <1>0 DEF CommitsAreReady, TransferReady, OpeningReady, Legs, Source, Destination, Amount
<1>8. ResourcesAreSettled'
    BY <1>0 DEF ResourcesAreSettled, Committed, Finished
<1>9. WinnerIsReadable'
    BY <1>0 DEF WinnerIsReadable, Stored, KeyOf
<1> QED
    BY <1>1, <1>2, <1>3, <1>4, <1>5, <1>6, <1>7, <1>8, <1>9

\* A transaction is rolled back: all its locks and rows go, and the tables
\* stay.
LEMMA RollbackStep ==
    ASSUME IInv, NEW r \in Attempt, NEW n \in {"raced", "answered", "crashed"},
           pc[r] \in Working,
           n = "raced" => Stored(r) # NoRecord,
           Rollback(r),
           pc' = [pc EXCEPT ![r] = n],
           answer' \in [Attempt -> Answer \cup {NoAnswer}],
           UNCHANGED request
    PROVE  IInv'
<1> USE DEF IInv, tables, Rollback, EndTransaction
<1>0. pc \in [Attempt -> {"idle"} \cup Working \cup Finished]
    BY DEF TypeOK
<1>a. /\ claimant \in [Key -> Attempt \cup {Nobody}]
      /\ row_lock \in [Account -> Attempt \cup {Nobody, Outsider}]
      /\ entries \in [Attempt -> SUBSET LedgerEntry]
      /\ new_account \in [Attempt -> Account \cup {Null}]
      /\ draft \in [Attempt -> Record \cup {NoRecord}]
      /\ session \in [Attempt -> [Account -> Int]]
    BY DEF TypeOK
<1>b. \A q \in Attempt : pc[q] \in Working => KeyOf(q) \in Key
    BY AtWork
<1>1. TypeOK'
  <2>1. session' \in [Attempt -> [Account -> Int]]
      BY <1>a DEF NothingRead
  <2>2. /\ claimant' \in [Key -> Attempt \cup {Nobody}]
        /\ row_lock' \in [Account -> Attempt \cup {Nobody, Outsider}]
        /\ entries' \in [Attempt -> SUBSET LedgerEntry]
        /\ new_account' \in [Attempt -> Account \cup {Null}]
        /\ draft' \in [Attempt -> Record \cup {NoRecord}]
      BY <1>a
  <2> QED
      BY <1>0, <2>1, <2>2 DEF TypeOK, Finished, Working
<1>2. CallsAtWork'
    BY <1>0 DEF CallsAtWork, Working
<1>3. ClaimsAreExclusive'
    BY <1>0, <1>a, <1>b, MarkersAssumption DEF ClaimsAreExclusive, Claimed, KeyOf, CallsAtWork, Working
<1>4. RowsFollowTheOrder'
  <2> SUFFICES ASSUME NEW q \in Attempt
               PROVE  /\ \A a \in Account : row_lock'[a] = q =>
                             /\ pc'[q] \in {"lock", "move", "commit", "orphaned", "in_doubt"}
                             /\ IsTransfer(request[q])
                             /\ a \in {Source(q), Destination(q)}
                      /\ pc'[q] = "lock" => row_lock'[LockOrder(q)[2]] # q
                      /\ pc'[q] = "move" \/ (pc'[q] \in {"commit", "in_doubt"} /\ IsTransfer(request[q])) =>
                             row_lock'[Source(q)] = q /\ row_lock'[Destination(q)] = q
      BY DEF RowsFollowTheOrder, LockOrder, Source, Destination
  <2>1. CASE q = r
      BY <2>1, <1>0, <1>a, MarkersAssumption DEF RowsFollowTheOrder
  <2>2. CASE q # r
    <3>1. pc'[q] = pc[q]
        BY <2>2, <1>0
    <3>2. \A a \in Account : row_lock'[a] = q <=> row_lock[a] = q
        BY <2>2, <1>a, MarkersAssumption
    <3>3. pc[q] \in Working /\ IsTransfer(request[q]) =>
              {Source(q), Destination(q), LockOrder(q)[2]} \subseteq Account
        BY AtWork
    <3>4. pc[q] \in {"lock", "move"} => IsTransfer(request[q])
        BY DEF CallsAtWork
    <3> QED
        BY <3>1, <3>2, <3>3, <3>4 DEF RowsFollowTheOrder, Working
  <2> QED
      BY <2>1, <2>2
<1>5. LockedReadsAreCurrent'
    BY <1>0, <1>a, MarkersAssumption DEF LockedReadsAreCurrent, Held
<1>6. DraftsAreOwn'
    BY <1>0, <1>a DEF DraftsAreOwn, Claimed
<1>7. CommitsAreReady'
    BY <1>0, <1>a DEF CommitsAreReady, TransferReady, OpeningReady, Legs, Source, Destination, Amount
<1>8. ResourcesAreSettled'
    BY <1>0 DEF ResourcesAreSettled, Committed, Finished, Working
<1>9. WinnerIsReadable'
    BY <1>0 DEF WinnerIsReadable, Stored, KeyOf
<1> QED
    BY <1>1, <1>2, <1>3, <1>4, <1>5, <1>6, <1>7, <1>8, <1>9

\* A call arrives: the attempt holds nothing yet.
LEMMA ArrivalStep ==
    ASSUME IInv, NEW r \in Attempt, NEW n \in {"fast_path", "answered"}, NEW c \in Calls,
           pc[r] = "idle",
           n = "fast_path" => BoundaryError(c) = "NONE",
           pc' = [pc EXCEPT ![r] = n],
           request' = [request EXCEPT ![r] = c],
           answer' \in [Attempt -> Answer \cup {NoAnswer}],
           UNCHANGED <<tables, locks, transaction>>
    PROVE  IInv'
<1> USE DEF IInv, tables, locks, transaction
<1>0. /\ pc \in [Attempt -> {"idle"} \cup Working \cup Finished]
      /\ request \in [Attempt -> Calls \cup {NoCall}]
    BY DEF TypeOK
<1>a. \A q \in Attempt : q # r => pc'[q] = pc[q] /\ request'[q] = request[q]
    BY <1>0
<1>b. pc'[r] = n /\ request'[r] = c
    BY <1>0
<1>1. TypeOK'
    BY <1>0 DEF TypeOK, Working, Finished
<1>2. CallsAtWork'
    BY <1>a, <1>b DEF CallsAtWork, Working
<1>3. ClaimsAreExclusive'
    BY <1>a, <1>b DEF ClaimsAreExclusive, Claimed, KeyOf
<1>4. RowsFollowTheOrder'
    BY <1>a, <1>b DEF RowsFollowTheOrder, LockOrder, Source, Destination
<1>5. LockedReadsAreCurrent'
    BY <1>a, <1>b DEF LockedReadsAreCurrent, Held
<1>6. DraftsAreOwn'
    BY <1>a, <1>b DEF DraftsAreOwn, Claimed
<1>7. CommitsAreReady'
    BY <1>a, <1>b
    DEF CommitsAreReady, TransferReady, OpeningReady, Legs, Source, Destination, Amount
<1>8. ResourcesAreSettled'
    BY <1>a, <1>b DEF ResourcesAreSettled, Committed, Finished
<1>9. WinnerIsReadable'
    BY <1>a, <1>b DEF WinnerIsReadable, Stored, KeyOf
<1> QED
    BY <1>1, <1>2, <1>3, <1>4, <1>5, <1>6, <1>7, <1>8, <1>9

\* The key is claimed: it was nobody's, and no row has it.
LEMMA ClaimStep ==
    ASSUME IInv, NEW r \in Attempt, Claim(r)
    PROVE  IInv'
<1> USE DEF IInv, Claim, tables, Go
<1>0. /\ pc \in [Attempt -> {"idle"} \cup Working \cup Finished]
      /\ claimant \in [Key -> Attempt \cup {Nobody}]
      /\ draft \in [Attempt -> Record \cup {NoRecord}]
    BY DEF TypeOK
<1> DEFINE n == IF IsTransfer(request[r]) THEN "lock" ELSE "open"
<1>a. \A q \in Attempt : q # r => pc'[q] = pc[q] /\ draft'[q] = draft[q]
    BY <1>0
<1>b. pc'[r] = n /\ draft'[r] = ClaimedRecord(request[r]) /\ pc[r] = "claim"
    BY <1>0
<1>c. /\ KeyOf(r) \in Key
      /\ request[r] \in Calls
      /\ ClaimedRecord(request[r]) \in Record
    BY AtWork, ClaimedRecordType DEF Working
<1>d. claimant[KeyOf(r)] = Nobody /\ idempotency_keys[KeyOf(r)] = NoRecord
    BY DEF KeyIsFree, BlockedOnKey, Stored
<1>e. \A k \in Key : claimant'[k] = IF k = KeyOf(r) THEN r ELSE claimant[k]
    BY <1>0
<1>f. \A a \in Account : row_lock[a] # r
    BY <1>b DEF RowsFollowTheOrder
<1>1. TypeOK'
    BY <1>0, <1>c DEF TypeOK, Working
<1>2. CallsAtWork'
    BY <1>a, <1>b DEF CallsAtWork, Working
<1>3. ClaimsAreExclusive'
  <2>1. \A q \in Attempt : pc'[q] \in Claimed => claimant'[KeyOf(q)] = q
    <3> SUFFICES ASSUME NEW q \in Attempt, pc'[q] \in Claimed
                 PROVE  claimant'[KeyOf(q)] = q
        OBVIOUS
    <3>1. CASE q = r
        BY <3>1, <1>c, <1>e
    <3>2. CASE q # r
      <4>1. claimant[KeyOf(q)] = q /\ KeyOf(q) \in Key
          BY <3>2, <1>a, AtWork DEF ClaimsAreExclusive, Claimed, Working
      <4>2. KeyOf(q) # KeyOf(r)
          BY <4>1, <1>d, MarkersAssumption
      <4> QED
          BY <4>1, <4>2, <1>e
    <3> QED
        BY <3>1, <3>2
  <2>2. \A k \in Key, q \in Attempt : claimant'[k] = q =>
           pc'[q] \in Claimed /\ KeyOf(q) = k /\ idempotency_keys[k] = NoRecord
    <3> SUFFICES ASSUME NEW k \in Key, NEW q \in Attempt, claimant'[k] = q
                 PROVE  pc'[q] \in Claimed /\ KeyOf(q) = k /\ idempotency_keys[k] = NoRecord
        OBVIOUS
    <3>1. CASE k = KeyOf(r)
        BY <3>1, <1>b, <1>d, <1>e DEF Claimed
    <3>2. CASE k # KeyOf(r)
        BY <3>2, <1>a, <1>b, <1>e DEF ClaimsAreExclusive, Claimed
    <3> QED
        BY <3>1, <3>2
  <2> QED
      BY <2>1, <2>2 DEF ClaimsAreExclusive, KeyOf
<1>4. RowsFollowTheOrder'
  <2>1. IsTransfer(request[r]) => LockOrder(r)[2] \in Account
      BY AtWork, <1>b DEF Working
  <2> QED
      BY <2>1, <1>a, <1>b, <1>f DEF RowsFollowTheOrder, LockOrder, Source, Destination
<1>5. LockedReadsAreCurrent'
    BY <1>a, <1>b, <1>f DEF LockedReadsAreCurrent, Held
<1>6. DraftsAreOwn'
    BY <1>a, <1>b DEF DraftsAreOwn, Claimed
<1>7. CommitsAreReady'
    BY <1>a, <1>b
    DEF CommitsAreReady, TransferReady, OpeningReady, Legs, Source, Destination, Amount
<1>8. ResourcesAreSettled'
    BY <1>a, <1>b DEF ResourcesAreSettled, Committed, Finished
<1>9. WinnerIsReadable'
    BY <1>a, <1>b DEF WinnerIsReadable, Stored, KeyOf
<1> QED
    BY <1>1, <1>2, <1>3, <1>4, <1>5, <1>6, <1>7, <1>8, <1>9

\* A row is locked: its balance is read after everyone else has let go of it.
LEMMA LockStep ==
    ASSUME IInv, NEW r \in Attempt, LockAccount(r)
    PROVE  IInv'
<1> USE DEF IInv, LockAccount, tables, Go
<1>0. /\ pc \in [Attempt -> {"idle"} \cup Working \cup Finished]
      /\ row_lock \in [Account -> Attempt \cup {Nobody, Outsider}]
      /\ session \in [Attempt -> [Account -> Int]]
      /\ balance \in [Account -> Money]
    BY DEF TypeOK
<1> DEFINE a0 == NextLock(r)
           n  == IF a0 = LockOrder(r)[2] THEN "move" ELSE "lock"
<1>b. pc'[r] = n /\ pc[r] = "lock" /\ IsTransfer(request[r])
    BY <1>0 DEF CallsAtWork
<1>a. \A q \in Attempt : q # r => pc'[q] = pc[q] /\ session'[q] = session[q]
    BY <1>0 DEF ReadOnceLocked
<1>c. /\ LockOrder(r)[1] \in Account
      /\ LockOrder(r)[2] \in Account
      /\ LockOrder(r)[1] # LockOrder(r)[2]
      /\ {LockOrder(r)[1], LockOrder(r)[2]} = {Source(r), Destination(r)}
    BY <1>b, AtWork DEF Working
<1>d. a0 \in Account /\ a0 \in {Source(r), Destination(r)} /\ row_lock[a0] = Nobody
    BY <1>b, <1>c DEF NextLock, BlockedOnRow
<1>e. \A a \in Account : row_lock'[a] = IF a = a0 THEN r ELSE row_lock[a]
    BY <1>0
<1>f. \A a \in Account : session'[r][a] = IF a = a0 THEN balance[a0] ELSE session[r][a]
    BY <1>0 DEF ReadOnceLocked
<1>g. \/ a0 = LockOrder(r)[1] /\ n = "lock"
      \/ a0 = LockOrder(r)[2] /\ n = "move" /\ row_lock[LockOrder(r)[1]] = r
    BY <1>c DEF NextLock
<1>1. TypeOK'
  <2>1. session' \in [Attempt -> [Account -> Int]]
      BY <1>0, <1>d DEF ReadOnceLocked, Money
  <2>2. row_lock' \in [Account -> Attempt \cup {Nobody, Outsider}]
      BY <1>0
  <2> QED
      BY <1>0, <2>1, <2>2 DEF TypeOK, Working
<1>2. CallsAtWork'
    BY <1>a, <1>b DEF CallsAtWork, Working
<1>3. ClaimsAreExclusive'
    BY <1>a, <1>b DEF ClaimsAreExclusive, Claimed, KeyOf
<1>4. RowsFollowTheOrder'
  <2> SUFFICES ASSUME NEW q \in Attempt
               PROVE  /\ \A a \in Account : row_lock'[a] = q =>
                             /\ pc'[q] \in {"lock", "move", "commit", "orphaned", "in_doubt"}
                             /\ IsTransfer(request[q])
                             /\ a \in {Source(q), Destination(q)}
                      /\ pc'[q] = "lock" => row_lock'[LockOrder(q)[2]] # q
                      /\ pc'[q] = "move" \/ (pc'[q] \in {"commit", "in_doubt"} /\ IsTransfer(request[q])) =>
                             row_lock'[Source(q)] = q /\ row_lock'[Destination(q)] = q
      BY DEF RowsFollowTheOrder, LockOrder, Source, Destination
  <2>1. CASE q = r
    <3>1. \A a \in Account : row_lock'[a] = r =>
                /\ pc'[r] \in {"lock", "move"}
                /\ IsTransfer(request[r])
                /\ a \in {Source(r), Destination(r)}
        BY <1>b, <1>d, <1>e DEF RowsFollowTheOrder
    <3>2. pc'[r] = "lock" => row_lock'[LockOrder(r)[2]] # r
      <4>1. row_lock[LockOrder(r)[2]] # r
          BY <1>b DEF RowsFollowTheOrder
      <4> QED
          BY <4>1, <1>b, <1>c, <1>e
    <3>3. pc'[r] = "move" => row_lock'[Source(r)] = r /\ row_lock'[Destination(r)] = r
        BY <1>b, <1>c, <1>e, <1>g
    <3> QED
        BY <2>1, <3>1, <3>2, <3>3, <1>b
  <2>2. CASE q # r
    <3>1. \A a \in Account : row_lock'[a] = q => row_lock[a] = q
        BY <2>2, <1>e
    <3>2. \A a \in Account : row_lock[a] = q => row_lock'[a] = q
        BY <2>2, <1>d, <1>e, MarkersAssumption
    <3>3. pc[q] \in Working /\ IsTransfer(request[q]) =>
              {Source(q), Destination(q), LockOrder(q)[2]} \subseteq Account
        BY AtWork
    <3>4. pc[q] \in {"lock", "move"} => IsTransfer(request[q])
        BY DEF CallsAtWork
    <3> QED
        BY <2>2, <3>1, <3>2, <3>3, <3>4, <1>a DEF RowsFollowTheOrder, Working
  <2> QED
      BY <2>1, <2>2
<1>5. LockedReadsAreCurrent'
  <2>1. a0 \in accounts
      BY DEF RowExists
  <2> QED
      BY <2>1, <1>a, <1>b, <1>d, <1>e, <1>f DEF LockedReadsAreCurrent, Held
<1>6. DraftsAreOwn'
    BY <1>a, <1>b DEF DraftsAreOwn, Claimed
<1>7. CommitsAreReady'
    BY <1>a, <1>b
    DEF CommitsAreReady, TransferReady, OpeningReady, Legs, Source, Destination, Amount
<1>8. ResourcesAreSettled'
    BY <1>a, <1>b DEF ResourcesAreSettled, Committed, Finished
<1>9. WinnerIsReadable'
    BY <1>a, <1>b DEF WinnerIsReadable, Stored, KeyOf
<1> QED
    BY <1>1, <1>2, <1>3, <1>4, <1>5, <1>6, <1>7, <1>8, <1>9

\* The money is moved in the session of the attempt.
LEMMA MoveStep ==
    ASSUME IInv, NEW r \in Attempt, MoveMoney(r)
    PROVE  IInv'
<1> USE DEF IInv, MoveMoney, tables, locks, Go
<1>0. /\ pc \in [Attempt -> {"idle"} \cup Working \cup Finished]
      /\ session \in [Attempt -> [Account -> Int]]
      /\ balance \in [Account -> Money]
      /\ entries \in [Attempt -> SUBSET LedgerEntry]
      /\ draft \in [Attempt -> Record \cup {NoRecord}]
    BY DEF TypeOK
<1>b. pc'[r] = "commit" /\ pc[r] = "move" /\ IsTransfer(request[r])
    BY <1>0 DEF CallsAtWork
<1>a. \A q \in Attempt : q # r =>
          pc'[q] = pc[q] /\ session'[q] = session[q] /\ entries'[q] = entries[q]
              /\ draft'[q] = draft[q]
    BY <1>0 DEF Moved
<1>c. /\ Source(r) \in Account
      /\ Destination(r) \in Account
      /\ Source(r) # Destination(r)
      /\ Amount(r) \in Money \ {0}
      /\ request[r] \in Calls /\ BoundaryError(request[r]) = "NONE"
    BY <1>b, AtWork DEF Working
<1>d. row_lock[Source(r)] = r /\ row_lock[Destination(r)] = r
    BY <1>b DEF RowsFollowTheOrder
<1>e. /\ session[r][Source(r)] = balance[Source(r)]
      /\ session[r][Destination(r)] = balance[Destination(r)]
      /\ {Source(r), Destination(r)} \subseteq accounts
    BY <1>b, <1>c, <1>d DEF LockedReadsAreCurrent, Held
<1>f. /\ session'[r][Source(r)] = balance[Source(r)] - Amount(r)
      /\ session'[r][Destination(r)] = balance[Destination(r)] + Amount(r)
    BY <1>0, <1>c, <1>e DEF Moved
<1>g. draft[r] = ClaimedRecord(request[r]) /\ new_account[r] = Null
    BY <1>b DEF DraftsAreOwn
<1>h. draft'[r] = FilledRecord(ClaimedRecord(request[r]), r, TransferResponse(r, request[r].req))
    BY <1>0, <1>g
<1>i. entries'[r] = Legs(r)
    BY <1>0
<1>1. TypeOK'
  <2>1. session' \in [Attempt -> [Account -> Int]]
      BY <1>0, <1>c DEF Moved, Money
  <2>2. TransferResponse(r, request[r].req) \in Body
      BY <1>c DEF TransferResponse, Body, Source, Destination, Amount
  <2>3. FilledRecord(ClaimedRecord(request[r]), r, TransferResponse(r, request[r].req)) \in Record
      BY <2>2, <1>c, ClaimedRecordType, FilledRecordType
  <2>4. draft' \in [Attempt -> Record \cup {NoRecord}]
      BY <2>3, <1>0, <1>g
  <2>5. Legs(r) \subseteq LedgerEntry
      BY <1>c, MaxBalanceAssumption DEF Legs, LedgerEntry, Money
  <2>6. entries' \in [Attempt -> SUBSET LedgerEntry]
      BY <2>5, <1>0
  <2> QED
      BY <1>0, <2>1, <2>4, <2>6 DEF TypeOK, Working
<1>2. CallsAtWork'
    BY <1>a, <1>b DEF CallsAtWork, Working
<1>3. ClaimsAreExclusive'
    BY <1>a, <1>b DEF ClaimsAreExclusive, Claimed, KeyOf
<1>4. RowsFollowTheOrder'
    BY <1>a, <1>b, <1>d DEF RowsFollowTheOrder, LockOrder, Source, Destination
<1>5. LockedReadsAreCurrent'
    BY <1>a, <1>b DEF LockedReadsAreCurrent, Held
<1>6. DraftsAreOwn'
    BY <1>a, <1>b DEF DraftsAreOwn, Claimed
<1>7. CommitsAreReady'
  <2>1. TransferReady(r)'
    <3>1. balance[Source(r)] >= Amount(r) /\ balance[Destination(r)] + Amount(r) <= MaxBalance
        BY <1>e DEF HasFunds, CreditFits
    <3> QED
        BY <3>1, <1>e, <1>f, <1>g, <1>h, <1>i
        DEF TransferReady, Legs, Source, Destination, Amount
  <2>2. ASSUME NEW q \in Attempt, q # r, pc'[q] \in {"commit", "in_doubt"}
        PROVE  IF IsTransfer(request'[q]) THEN TransferReady(q)' ELSE OpeningReady(q)'
      BY <1>a, <2>2
      DEF CommitsAreReady, TransferReady, OpeningReady, Legs, Source, Destination, Amount
  <2> QED
      BY <2>1, <2>2, <1>b DEF CommitsAreReady
<1>8. ResourcesAreSettled'
    BY <1>a, <1>b DEF ResourcesAreSettled, Committed, Finished
<1>9. WinnerIsReadable'
    BY <1>a, <1>b DEF WinnerIsReadable, Stored, KeyOf
<1> QED
    BY <1>1, <1>2, <1>3, <1>4, <1>5, <1>6, <1>7, <1>8, <1>9

\* An account is opened in the session of the attempt, under a fresh id.
LEMMA OpenStep ==
    ASSUME IInv, NEW r \in Attempt, OpenAccount(r)
    PROVE  IInv'
<1> USE DEF IInv, OpenAccount, tables, locks, Go
<1>0. /\ pc \in [Attempt -> {"idle"} \cup Working \cup Finished]
      /\ new_account \in [Attempt -> Account \cup {Null}]
      /\ draft \in [Attempt -> Record \cup {NoRecord}]
    BY DEF TypeOK
<1>1. PICK a \in FreshAccounts :
          /\ new_account' = [new_account EXCEPT ![r] = a]
          /\ draft' = [draft EXCEPT ![r] =
                FilledRecord(@, a, AccountResponse(a, request[r].req.initial_balance))]
    OBVIOUS
<1>a. \A q \in Attempt : q # r =>
          pc'[q] = pc[q] /\ new_account'[q] = new_account[q] /\ draft'[q] = draft[q]
    BY <1>0, <1>1
<1>b. pc'[r] = "commit" /\ pc[r] = "open" /\ ~IsTransfer(request[r])
    BY <1>0 DEF CallsAtWork
<1>c. /\ a \in Account /\ a \notin accounts
      /\ \A q \in Attempt : new_account[q] # a
    BY DEF FreshAccounts
<1>d. /\ request[r] \in Calls /\ BoundaryError(request[r]) = "NONE"
      /\ request[r].req.initial_balance \in Money
    BY <1>b, AtWork DEF Working
<1>e. draft[r] = ClaimedRecord(request[r]) /\ entries[r] = {}
    BY <1>b DEF DraftsAreOwn
<1>f. new_account'[r] = a
    BY <1>0, <1>1
<1>g. draft'[r] = FilledRecord(ClaimedRecord(request[r]), a,
                      AccountResponse(a, request[r].req.initial_balance))
    BY <1>0, <1>1, <1>e
<1>2. TypeOK'
  <2>1. AccountResponse(a, request[r].req.initial_balance) \in Body
      BY <1>c, <1>d DEF AccountResponse, Body
  <2>2. draft'[r] \in Record
      BY <2>1, <1>c, <1>d, <1>g, ClaimedRecordType, FilledRecordType
  <2>3. draft' \in [Attempt -> Record \cup {NoRecord}]
      BY <2>2, <1>0, <1>1
  <2>4. new_account' \in [Attempt -> Account \cup {Null}]
      BY <1>0, <1>1, <1>c
  <2> QED
      BY <1>0, <2>3, <2>4 DEF TypeOK, Working
<1>3. CallsAtWork'
    BY <1>a, <1>b DEF CallsAtWork, Working
<1>4. ClaimsAreExclusive'
    BY <1>a, <1>b DEF ClaimsAreExclusive, Claimed, KeyOf
<1>5. RowsFollowTheOrder'
  <2>1. \A x \in Account : row_lock[x] # r
      BY <1>b DEF RowsFollowTheOrder
  <2> QED
      BY <2>1, <1>a, <1>b DEF RowsFollowTheOrder, LockOrder, Source, Destination
<1>6. LockedReadsAreCurrent'
    BY <1>a, <1>b DEF LockedReadsAreCurrent, Held
<1>7. DraftsAreOwn'
    BY <1>a, <1>b, <1>c, <1>f DEF DraftsAreOwn, Claimed
<1>8. CommitsAreReady'
  <2>1. OpeningReady(r)'
      BY <1>c, <1>e, <1>f, <1>g DEF OpeningReady
  <2>2. ASSUME NEW q \in Attempt, q # r, pc'[q] \in {"commit", "in_doubt"}
        PROVE  IF IsTransfer(request'[q]) THEN TransferReady(q)' ELSE OpeningReady(q)'
      BY <1>a, <2>2
      DEF CommitsAreReady, TransferReady, OpeningReady, Legs, Source, Destination, Amount
  <2> QED
      BY <2>1, <2>2, <1>b DEF CommitsAreReady
<1>9. ResourcesAreSettled'
    BY <1>a, <1>b DEF ResourcesAreSettled, Committed, Finished
<1>10. WinnerIsReadable'
    BY <1>a, <1>b DEF WinnerIsReadable, Stored, KeyOf
<1> QED
    BY <1>2, <1>3, <1>4, <1>5, <1>6, <1>7, <1>8, <1>9, <1>10

\* The connection of an attempt is lost: its transaction stays as it is, with
\* nobody to continue it.
LEMMA SeverStep ==
    ASSUME IInv, NEW r \in Attempt, Sever(r)
    PROVE  IInv'
<1> USE DEF IInv, Sever, tables, locks, transaction
<1>0. /\ pc \in [Attempt -> {"idle"} \cup Working \cup Finished]
      /\ answer \in [Attempt -> Answer \cup {NoAnswer}]
    BY DEF TypeOK
<1>a. \A q \in Attempt : q # r => pc'[q] = pc[q]
    BY <1>0
<1>b. \/ pc[r] = "commit" /\ pc'[r] = "in_doubt"
      \/ pc[r] \in {"lock", "move", "open"} /\ pc'[r] = "orphaned"
    BY <1>0
<1>1. TypeOK'
  <2>1. answer' \in [Attempt -> Answer \cup {NoAnswer}]
      BY <1>0, AnswerTypes
  <2> QED
      BY <1>0, <2>1 DEF TypeOK, Working
<1>2. CallsAtWork'
    BY <1>a, <1>b DEF CallsAtWork, Working
<1>3. ClaimsAreExclusive'
    BY <1>a, <1>b DEF ClaimsAreExclusive, Claimed, KeyOf
<1>4. RowsFollowTheOrder'
    BY <1>a, <1>b DEF RowsFollowTheOrder, LockOrder, Source, Destination
<1>5. LockedReadsAreCurrent'
    BY <1>a, <1>b DEF LockedReadsAreCurrent, Held
<1>6. DraftsAreOwn'
    BY <1>a, <1>b DEF DraftsAreOwn, Claimed
<1>7. CommitsAreReady'
    BY <1>a, <1>b
    DEF CommitsAreReady, TransferReady, OpeningReady, Legs, Source, Destination, Amount
<1>8. ResourcesAreSettled'
    BY <1>a, <1>b DEF ResourcesAreSettled, Committed, Finished
<1>9. WinnerIsReadable'
    BY <1>a, <1>b DEF WinnerIsReadable, Stored, KeyOf
<1> QED
    BY <1>1, <1>2, <1>3, <1>4, <1>5, <1>6, <1>7, <1>8, <1>9

\* A session outside the application locks a row nobody has, or lets it go.
LEMMA OutsiderStep ==
    ASSUME IInv, NEW a \in Account, OutsiderLocks(a) \/ OutsiderUnlocks(a)
    PROVE  IInv'
<1> USE DEF IInv, OutsiderLocks, OutsiderUnlocks, tables, transaction
<1>1. row_lock \in [Account -> Attempt \cup {Nobody, Outsider}]
    BY DEF TypeOK
<1>2. row_lock' \in [Account -> Attempt \cup {Nobody, Outsider}]
    BY <1>1
<1>3. \A b \in Account, q \in Attempt : row_lock'[b] = q <=> row_lock[b] = q
    BY <1>1, MarkersAssumption
<1>4. TypeOK'
    BY <1>2 DEF TypeOK
<1>5. CallsAtWork'
    BY DEF CallsAtWork
<1>6. ClaimsAreExclusive'
    BY DEF ClaimsAreExclusive, KeyOf
<1>7. RowsFollowTheOrder'
  <2>1. \A q \in Attempt :
            /\ pc[q] \in Working /\ IsTransfer(request[q]) =>
                   {Source(q), Destination(q), LockOrder(q)[2]} \subseteq Account
            /\ pc[q] \in {"lock", "move"} => IsTransfer(request[q])
      BY AtWork DEF CallsAtWork
  <2> QED
      BY <2>1, <1>3 DEF RowsFollowTheOrder, LockOrder, Source, Destination, Working
<1>8. LockedReadsAreCurrent'
    BY <1>3 DEF LockedReadsAreCurrent, Held
<1>9. DraftsAreOwn'
    BY DEF DraftsAreOwn
<1>10. CommitsAreReady'
    BY DEF CommitsAreReady, TransferReady, OpeningReady, Legs, Source, Destination, Amount
<1>11. ResourcesAreSettled'
    BY DEF ResourcesAreSettled, Committed
<1>12. WinnerIsReadable'
    BY DEF WinnerIsReadable, Stored, KeyOf
<1> QED
    BY <1>4, <1>5, <1>6, <1>7, <1>8, <1>9, <1>10, <1>11, <1>12

\* Nothing happens.
LEMMA StutterStep ==
    ASSUME IInv, UNCHANGED vars
    PROVE  IInv'
BY DEF IInv, vars, tables, locks, transaction, TypeOK, CallsAtWork, ClaimsAreExclusive,
       RowsFollowTheOrder, LockedReadsAreCurrent, DraftsAreOwn, CommitsAreReady,
       TransferReady, OpeningReady, ResourcesAreSettled, WinnerIsReadable, Committed, Held,
       Stored, KeyOf, LockOrder, Legs, Source, Destination, Amount

\* What a commit does to the balances: a transfer moves its amount between
\* its two accounts, on the committed balances of that moment, and an opening
\* adds one account with what it was opened with.
LEMMA PublishEffect ==
    ASSUME IInv, NEW r \in Attempt, pc[r] \in {"commit", "in_doubt"}, Publish(r)
    PROVE  /\ KeyOf(r) \in Key
           /\ idempotency_keys[KeyOf(r)] = NoRecord
           /\ draft[r] \in Record
           /\ IsTransfer(request[r]) =>
                 /\ accounts' = accounts
                 /\ balance' = [balance EXCEPT ![Source(r)] = @ - Amount(r),
                                               ![Destination(r)] = @ + Amount(r)]
                 /\ opening_balance' = opening_balance
                 /\ draft[r].resource_id = r
           /\ ~IsTransfer(request[r]) =>
                 /\ new_account[r] \in Account \ accounts
                 /\ accounts' = accounts \cup {new_account[r]}
                 /\ balance' = [balance EXCEPT ![new_account[r]] = request[r].req.initial_balance]
                 /\ opening_balance' =
                        [opening_balance EXCEPT ![new_account[r]] = request[r].req.initial_balance]
                 /\ draft[r].resource_id = new_account[r]
                 /\ entries[r] = {}
<1> USE DEF IInv, Publish
<1>0. /\ balance \in [Account -> Money]
      /\ opening_balance \in [Account -> Money]
      /\ draft \in [Attempt -> Record \cup {NoRecord}]
      /\ new_account \in [Attempt -> Account \cup {Null}]
    BY DEF TypeOK
<1>1. KeyOf(r) \in Key /\ request[r] \in Calls /\ BoundaryError(request[r]) = "NONE"
    BY AtWork DEF Working
<1>2. idempotency_keys[KeyOf(r)] = NoRecord
    BY <1>1 DEF ClaimsAreExclusive, Claimed
<1>3. ClaimedRecord(request[r]) \in Record
    BY <1>1, ClaimedRecordType
<1>4. ASSUME IsTransfer(request[r])
      PROVE  /\ accounts' = accounts
             /\ balance' = [balance EXCEPT ![Source(r)] = @ - Amount(r),
                                           ![Destination(r)] = @ + Amount(r)]
             /\ opening_balance' = opening_balance
             /\ draft[r].resource_id = r
             /\ draft[r] \in Record
  <2>1. TransferReady(r)
      BY <1>4 DEF CommitsAreReady
  <2>2. /\ Source(r) \in Account /\ Destination(r) \in Account
        /\ Source(r) # Destination(r)
        /\ Amount(r) \in Money \ {0}
      BY <1>4, AtWork DEF Working
  <2>3. Held(r) = {Source(r), Destination(r)}
      BY <1>4, <2>2 DEF Held, RowsFollowTheOrder
  <2>4. new_account[r] = Null /\ \A a \in Account : a # new_account[r]
      BY <2>1, IdentityAssumption DEF TransferReady
  <2>5. accounts' = accounts
      BY <2>4
  <2>6. balance' = [balance EXCEPT ![Source(r)] = @ - Amount(r),
                                   ![Destination(r)] = @ + Amount(r)]
    <3>1. /\ session[r][Source(r)] = balance[Source(r)] - Amount(r)
          /\ session[r][Destination(r)] = balance[Destination(r)] + Amount(r)
        BY <2>1 DEF TransferReady
    <3> QED
        BY <3>1, <2>2, <2>3, <2>4, <1>0 DEF CommittedBalance
  <2>7. opening_balance' = opening_balance
      BY <2>4, <1>0 DEF CommittedOpening
  <2>8. TransferResponse(r, request[r].req) \in Body
      BY <2>2 DEF TransferResponse, Body, Source, Destination, Amount
  <2>9. draft[r] \in Record
      BY <2>1, <2>8, <1>3, FilledRecordType DEF TransferReady
  <2>10. draft[r].resource_id = r
      BY <2>1, <1>3 DEF TransferReady, FilledRecord, ClaimedRecord
  <2> QED
      BY <2>5, <2>6, <2>7, <2>9, <2>10
<1>5. ASSUME ~IsTransfer(request[r])
      PROVE  /\ new_account[r] \in Account \ accounts
             /\ accounts' = accounts \cup {new_account[r]}
             /\ balance' = [balance EXCEPT ![new_account[r]] = request[r].req.initial_balance]
             /\ opening_balance' =
                    [opening_balance EXCEPT ![new_account[r]] = request[r].req.initial_balance]
             /\ draft[r].resource_id = new_account[r]
             /\ entries[r] = {}
             /\ draft[r] \in Record
  <2>1. OpeningReady(r)
      BY <1>5 DEF CommitsAreReady
  <2>2. request[r].req.initial_balance \in Money
      BY <1>5, AtWork DEF Working
  <2>3. Held(r) = {}
      BY <1>5 DEF Held, RowsFollowTheOrder
  <2>4. new_account[r] \in Account \ accounts /\ new_account[r] # Null
      BY <2>1, IdentityAssumption DEF OpeningReady
  <2>5. accounts' = accounts \cup {new_account[r]}
      BY <2>4
  <2>6. balance' = [balance EXCEPT ![new_account[r]] = request[r].req.initial_balance]
      BY <2>3, <2>4, <1>0 DEF CommittedBalance
  <2>7. opening_balance' =
            [opening_balance EXCEPT ![new_account[r]] = request[r].req.initial_balance]
      BY <2>4, <1>0 DEF CommittedOpening
  <2>8. AccountResponse(new_account[r], request[r].req.initial_balance) \in Body
      BY <2>2, <2>4 DEF AccountResponse, Body
  <2>9. draft[r] \in Record
      BY <2>1, <2>4, <2>8, <1>3, FilledRecordType DEF OpeningReady
  <2>10. draft[r].resource_id = new_account[r]
      BY <2>1, <1>3 DEF OpeningReady, FilledRecord, ClaimedRecord
  <2> QED
      BY <2>1, <2>4, <2>5, <2>6, <2>7, <2>9, <2>10 DEF OpeningReady
<1> QED
    BY <1>1, <1>2, <1>4, <1>5

\* A transaction commits: its rows become visible and its locks go.
LEMMA PublishStep ==
    ASSUME IInv, NEW r \in Attempt, NEW n \in {"answered", "crashed"},
           pc[r] \in {"commit", "in_doubt"},
           Publish(r),
           pc' = [pc EXCEPT ![r] = n],
           answer' \in [Attempt -> Answer \cup {NoAnswer}],
           UNCHANGED request
    PROVE  IInv'
<1> USE DEF IInv, EndTransaction
<1>0. /\ pc \in [Attempt -> {"idle"} \cup Working \cup Finished]
      /\ claimant \in [Key -> Attempt \cup {Nobody}]
      /\ row_lock \in [Account -> Attempt \cup {Nobody, Outsider}]
      /\ entries \in [Attempt -> SUBSET LedgerEntry]
      /\ new_account \in [Attempt -> Account \cup {Null}]
      /\ draft \in [Attempt -> Record \cup {NoRecord}]
      /\ session \in [Attempt -> [Account -> Int]]
      /\ balance \in [Account -> Money]
      /\ opening_balance \in [Account -> Money]
      /\ idempotency_keys \in [Key -> Record \cup {NoRecord}]
    BY DEF TypeOK
<1>a. /\ claimant' = [k \in Key |-> IF claimant[k] = r THEN Nobody ELSE claimant[k]]
      /\ row_lock' = [a \in Account |-> IF row_lock[a] = r THEN Nobody ELSE row_lock[a]]
      /\ session' = [session EXCEPT ![r] = NothingRead]
      /\ draft' = [draft EXCEPT ![r] = NoRecord]
      /\ entries' = [entries EXCEPT ![r] = {}]
      /\ new_account' = [new_account EXCEPT ![r] = Null]
      /\ ledger_entries' = ledger_entries \cup entries[r]
      /\ idempotency_keys' = [idempotency_keys EXCEPT ![KeyOf(r)] = draft[r]]
    BY DEF Publish, CommittedKeys
<1>b. /\ KeyOf(r) \in Key
      /\ idempotency_keys[KeyOf(r)] = NoRecord
      /\ draft[r] \in Record
      /\ draft[r] # NoRecord
    BY PublishEffect, MarkersAssumption
<1>c. /\ accounts \subseteq accounts'
      /\ \A a \in Account : row_lock[a] \in Attempt /\ row_lock[a] # r /\ a \in accounts =>
             balance'[a] = balance[a]
      /\ \A q \in Attempt : q # r /\ pc[q] \in {"commit", "in_doubt"} /\ ~IsTransfer(request[q]) =>
             new_account[q] \notin accounts'
  <2>1. CASE IsTransfer(request[r])
    <3>1. /\ accounts' = accounts
          /\ balance' = [balance EXCEPT ![Source(r)] = @ - Amount(r),
                                        ![Destination(r)] = @ + Amount(r)]
        BY <2>1, PublishEffect
    <3>2. row_lock[Source(r)] = r /\ row_lock[Destination(r)] = r
        BY <2>1 DEF RowsFollowTheOrder
    <3> QED
        BY <3>1, <3>2, <1>0 DEF CommitsAreReady, OpeningReady
  <2>2. CASE ~IsTransfer(request[r])
    <3>1. /\ new_account[r] \in Account \ accounts
          /\ accounts' = accounts \cup {new_account[r]}
          /\ balance' = [balance EXCEPT ![new_account[r]] = request[r].req.initial_balance]
        BY <2>2, PublishEffect
    <3>2. \A q \in Attempt : q # r => new_account[q] # new_account[r]
        BY <3>1, IdentityAssumption DEF DraftsAreOwn
    <3> QED
        BY <3>1, <3>2, <1>0 DEF CommitsAreReady, OpeningReady
  <2> QED
      BY <2>1, <2>2
<1>d. \A q \in Attempt : q # r =>
          /\ pc'[q] = pc[q] /\ session'[q] = session[q] /\ draft'[q] = draft[q]
          /\ entries'[q] = entries[q] /\ new_account'[q] = new_account[q]
    BY <1>0, <1>a
<1>e. /\ pc'[r] = n /\ draft'[r] = NoRecord /\ entries'[r] = {} /\ new_account'[r] = Null
    BY <1>0, <1>a
<1>f. \A a \in Account, q \in Attempt : row_lock'[a] = q <=> row_lock[a] = q /\ q # r
    BY <1>0, <1>a, MarkersAssumption
<1>g. \A k \in Key, q \in Attempt : claimant'[k] = q <=> claimant[k] = q /\ q # r
    BY <1>0, <1>a, MarkersAssumption
<1>h. \A k \in Key : idempotency_keys'[k] =
          IF k = KeyOf(r) THEN draft[r] ELSE idempotency_keys[k]
    BY <1>0, <1>a
<1>i. \A q \in Attempt : pc[q] \in Working => KeyOf(q) \in Key
    BY AtWork
<1>j. \A q \in Attempt :
          /\ pc[q] \in Working /\ IsTransfer(request[q]) =>
                 {Source(q), Destination(q), LockOrder(q)[2]} \subseteq Account
          /\ pc[q] \in {"lock", "move"} => IsTransfer(request[q])
    BY AtWork DEF CallsAtWork
<1>1. TypeOK'
  <2>1. session' \in [Attempt -> [Account -> Int]]
      BY <1>0, <1>a DEF NothingRead
  <2>2. /\ claimant' \in [Key -> Attempt \cup {Nobody}]
        /\ row_lock' \in [Account -> Attempt \cup {Nobody, Outsider}]
        /\ entries' \in [Attempt -> SUBSET LedgerEntry]
        /\ new_account' \in [Attempt -> Account \cup {Null}]
        /\ draft' \in [Attempt -> Record \cup {NoRecord}]
        /\ idempotency_keys' \in [Key -> Record \cup {NoRecord}]
        /\ pc' \in [Attempt -> {"idle"} \cup Working \cup Finished]
      BY <1>0, <1>a, <1>b DEF Finished
  <2>3. ledger_entries' \subseteq LedgerEntry
      BY <1>0, <1>a DEF TypeOK
  <2>4. accounts' \subseteq Account
      BY PublishEffect DEF TypeOK
  <2>5. balance' \in [Account -> Money] /\ opening_balance' \in [Account -> Money]
    <3>1. CASE IsTransfer(request[r])
      <4>1. /\ Amount(r) \in Money \ {0}
            /\ Source(r) \in Account /\ Destination(r) \in Account
            /\ Source(r) # Destination(r)
          BY <3>1, AtWork DEF Working
      <4>2. balance[Source(r)] >= Amount(r) /\ balance[Destination(r)] + Amount(r) <= MaxBalance
          BY <3>1 DEF CommitsAreReady, TransferReady
      <4>3. balance[Source(r)] - Amount(r) \in Money /\ balance[Destination(r)] + Amount(r) \in Money
          BY <4>1, <4>2, <1>0, MaxBalanceAssumption DEF Money
      <4>4. balance' = [balance EXCEPT ![Source(r)] = @ - Amount(r),
                                       ![Destination(r)] = @ + Amount(r)]
          BY <3>1, PublishEffect
      <4>5. balance' \in [Account -> Money]
          BY <4>1, <4>3, <4>4, <1>0
      <4> QED
          BY <4>5, <3>1, <1>0, PublishEffect
    <3>2. CASE ~IsTransfer(request[r])
      <4>1. request[r].req.initial_balance \in Money
          BY <3>2, AtWork DEF Working
      <4> QED
          BY <4>1, <3>2, <1>0, PublishEffect
    <3> QED
        BY <3>1, <3>2
  <2> QED
      BY <2>1, <2>2, <2>3, <2>4, <2>5 DEF TypeOK
<1>2. CallsAtWork'
    BY <1>d, <1>e DEF CallsAtWork, Working
<1>3. ClaimsAreExclusive'
    BY <1>d, <1>e, <1>g, <1>h, <1>i DEF ClaimsAreExclusive, Claimed, KeyOf, Working
<1>4. RowsFollowTheOrder'
    BY <1>d, <1>e, <1>f, <1>j DEF RowsFollowTheOrder, LockOrder, Source, Destination, Working
<1>5. LockedReadsAreCurrent'
    BY <1>c, <1>d, <1>e, <1>f DEF LockedReadsAreCurrent, Held
<1>6. DraftsAreOwn'
    BY <1>d, <1>e DEF DraftsAreOwn, Claimed
<1>7. CommitsAreReady'
  <2> SUFFICES ASSUME NEW q \in Attempt, q # r, pc[q] \in {"commit", "in_doubt"}
               PROVE  IF IsTransfer(request[q]) THEN TransferReady(q)' ELSE OpeningReady(q)'
      BY <1>d, <1>e DEF CommitsAreReady
  <2>1. CASE IsTransfer(request[q])
    <3>1. TransferReady(q)
        BY <2>1 DEF CommitsAreReady
    <3>2. row_lock[Source(q)] = q /\ row_lock[Destination(q)] = q
        BY <2>1 DEF RowsFollowTheOrder
    <3>3. {Source(q), Destination(q)} \subseteq accounts
        BY <3>1 DEF TransferReady
    <3>4. /\ balance'[Source(q)] = balance[Source(q)]
          /\ balance'[Destination(q)] = balance[Destination(q)]
        BY <3>2, <3>3, <1>c, <1>j, <2>1 DEF Working
    <3> QED
        BY <2>1, <3>1, <3>4, <1>c, <1>d
        DEF TransferReady, Legs, Source, Destination, Amount
  <2>2. CASE ~IsTransfer(request[q])
    <3>1. OpeningReady(q)
        BY <2>2 DEF CommitsAreReady
    <3> QED
        BY <2>2, <3>1, <1>c, <1>d DEF OpeningReady
  <2> QED
      BY <2>1, <2>2
<1>8. ResourcesAreSettled'
  <2> SUFFICES ASSUME NEW k \in Key, idempotency_keys'[k] # NoRecord
               PROVE  \/ idempotency_keys'[k].resource_id \in accounts'
                      \/ /\ idempotency_keys'[k].resource_id \in Attempt
                         /\ pc'[idempotency_keys'[k].resource_id] \in Finished
      BY DEF ResourcesAreSettled, Committed
  <2>1. CASE k = KeyOf(r)
      BY <2>1, <1>e, <1>h, PublishEffect DEF Finished
  <2>2. CASE k # KeyOf(r)
      BY <2>2, <1>c, <1>d, <1>h DEF ResourcesAreSettled, Committed, Finished
  <2> QED
      BY <2>1, <2>2
<1>9. WinnerIsReadable'
  <2> SUFFICES ASSUME NEW q \in Attempt, pc'[q] = "raced"
               PROVE  idempotency_keys'[KeyOf(q)] # NoRecord
      BY DEF WinnerIsReadable, Stored, KeyOf
  <2>1. q # r /\ pc[q] = "raced" /\ KeyOf(q) \in Key
      BY <1>d, <1>e, <1>i DEF Working
  <2> QED
      BY <2>1, <1>b, <1>h DEF WinnerIsReadable, Stored
<1> QED
    BY <1>1, <1>2, <1>3, <1>4, <1>5, <1>6, <1>7, <1>8, <1>9

----------------------------------------------------------------------------
(* The invariant.                                                          *)

\* Every step of every attempt, and of everyone else, keeps it.
LEMMA NextIInv ==
    ASSUME IInv, [Next]_vars
    PROVE  IInv'
<1>0. /\ answer \in [Attempt -> Answer \cup {NoAnswer}]
      /\ idempotency_keys \in [Key -> Record \cup {NoRecord}]
      /\ draft \in [Attempt -> Record \cup {NoRecord}]
    BY DEF IInv, TypeOK
<1>1. \A r \in Attempt, a \in Answer :
          answer' = [answer EXCEPT ![r] = a] => answer' \in [Attempt -> Answer \cup {NoAnswer}]
    BY <1>0
<1>2. ASSUME NEW r \in Attempt, Receive(r)
      PROVE  IInv'
    BY <1>2, <1>0, ArrivalStep DEF Receive
<1>3. ASSUME NEW r \in Attempt, RejectAtBoundary(r)
      PROVE  IInv'
  <2>1. PICK c \in Calls :
            /\ BoundaryError(c) # "NONE"
            /\ request' = [request EXCEPT ![r] = c]
            /\ answer' = [answer EXCEPT ![r] = Refusal(BoundaryError(c))]
      BY <1>3 DEF RejectAtBoundary
  <2>2. BoundaryError(c) \in {"IDEMPOTENCY_KEY_REQUIRED", "IDEMPOTENCY_KEY_INVALID",
                              "SAME_ACCOUNT_TRANSFER"}
      BY <2>1 DEF BoundaryError
  <2>3. Refusal(BoundaryError(c)) \in Answer
      BY <2>2, AnswerTypes
  <2>4. answer' \in [Attempt -> Answer \cup {NoAnswer}]
      BY <2>1, <2>3, <1>1
  <2> QED
      BY <2>1, <2>4, <1>3, ArrivalStep DEF RejectAtBoundary
<1>4. ASSUME NEW r \in Attempt, FastPathHit(r)
      PROVE  IInv'
  <2>1. KeyOf(r) \in Key /\ request[r] \in Calls /\ pc[r] = "fast_path"
      BY <1>4, AtWork DEF IInv, FastPathHit, Working
  <2>2. Replay(Stored(r), request[r]) \in Answer
      BY <2>1, <1>0, <1>4, AnswerTypes DEF FastPathHit, Stored
  <2> QED
      BY <2>1, <2>2, <1>1, <1>4, PassiveStep DEF FastPathHit, Reply
<1>5. ASSUME NEW r \in Attempt, FastPathMiss(r)
      PROVE  IInv'
    BY <1>0, <1>5, PassiveStep DEF FastPathMiss, Go
<1>6. ASSUME NEW r \in Attempt, ReplayWinner(r)
      PROVE  IInv'
  <2>1. KeyOf(r) \in Key /\ request[r] \in Calls /\ pc[r] = "raced"
      BY <1>6, AtWork DEF IInv, ReplayWinner, Working
  <2>2. Stored(r) \in Record \cup {NoRecord}
      BY <2>1, <1>0 DEF Stored
  <2>3. RacedAnswer(r) \in Answer
      BY <2>1, <2>2, AnswerTypes DEF RacedAnswer
  <2> QED
      BY <2>1, <2>3, <1>1, <1>6, PassiveStep DEF ReplayWinner, Reply
<1>7. ASSUME NEW r \in Attempt, Acquire(r)
      PROVE  IInv'
  <2>1. CASE Claim(r)
      BY <2>1, ClaimStep
  <2>2. CASE LoseRace(r)
      BY <2>2, <1>0, RollbackStep DEF LoseRace, KeyIsTaken, Go, Working
  <2>3. CASE LockAccount(r)
      BY <2>3, LockStep
  <2>4. CASE AccountMissing(r)
    <3>1. answer' \in [Attempt -> Answer \cup {NoAnswer}]
        BY <2>4, <1>1, AnswerTypes DEF AccountMissing, Abort, Reply
    <3> QED
        BY <3>1, <2>4, RollbackStep DEF AccountMissing, Abort, Reply, Working
  <2> QED
      BY <2>1, <2>2, <2>3, <2>4, <1>7 DEF Acquire
<1>8. ASSUME NEW r \in Attempt, InsufficientFunds(r) \/ AmountOutOfRange(r)
      PROVE  IInv'
  <2>1. answer' \in [Attempt -> Answer \cup {NoAnswer}]
      BY <1>8, <1>1, AnswerTypes DEF InsufficientFunds, AmountOutOfRange, Abort, Reply
  <2> QED
      BY <2>1, <1>8, RollbackStep DEF InsufficientFunds, AmountOutOfRange, Abort, Reply, Working
<1>9. ASSUME NEW r \in Attempt, MoveMoney(r)
      PROVE  IInv'
    BY <1>9, MoveStep
<1>10. ASSUME NEW r \in Attempt, OpenAccount(r)
       PROVE  IInv'
    BY <1>10, OpenStep
<1>11. ASSUME NEW r \in Attempt, Commit(r)
       PROVE  IInv'
  <2>1. draft[r].response_body \in Body \cup {Null}
      BY <1>11, PublishEffect DEF Commit, Record
  <2>2. Success(201, draft[r].response_body, FALSE) \in Answer
      BY <2>1, AnswerTypes
  <2>3. answer' = [answer EXCEPT ![r] = Success(201, draft[r].response_body, FALSE)]
      BY <1>11 DEF Commit, Reply
  <2>4. answer' \in [Attempt -> Answer \cup {NoAnswer}]
      BY <2>2, <2>3, <1>1
  <2> QED
      BY <2>4, <1>11, PublishStep DEF Commit, Reply
<1>12. ASSUME NEW r \in Attempt, Failure(r)
       PROVE  IInv'
  <2>1. CASE CommitUnacknowledged(r)
    <3>1. answer' \in [Attempt -> Answer \cup {NoAnswer}]
        BY <2>1, <1>1, AnswerTypes DEF CommitUnacknowledged, Reply
    <3> QED
        BY <3>1, <2>1, PublishStep DEF CommitUnacknowledged, Reply
  <2>2. CASE CommitThenCrash(r)
      BY <2>2, <1>0, PublishStep DEF CommitThenCrash, Go
  <2>3. CASE LockTimeout(r)
    <3>1. answer' \in [Attempt -> Answer \cup {NoAnswer}]
        BY <2>3, <1>1, AnswerTypes DEF LockTimeout, Abort, Reply
    <3> QED
        BY <3>1, <2>3, RollbackStep
        DEF LockTimeout, Blocked, BlockedOnKey, BlockedOnRow, Abort, Reply, Working
  <2>4. CASE UnhandledError(r)
    <3>1. answer' \in [Attempt -> Answer \cup {NoAnswer}]
        BY <2>4, <1>1, AnswerTypes DEF UnhandledError, Abort, Reply
    <3> QED
        BY <3>1, <2>4, RollbackStep DEF UnhandledError, Abort, Reply
  <2>5. CASE Crash(r)
      BY <2>5, <1>0, RollbackStep DEF Crash, Go
  <2>6. CASE Sever(r)
      BY <2>6, SeverStep
  <2>7. Epitaph(r) \in {"answered", "crashed"}
      BY DEF Epitaph
  <2>8. CASE LateCommit(r)
      BY <2>7, <2>8, <1>0, PublishStep DEF LateCommit, Go
  <2>9. CASE OrphanEnds(r)
    <3>1. pc[r] \in Working /\ Epitaph(r) # "raced"
        BY <2>7, <2>9 DEF OrphanEnds, Orphans, Working
    <3> QED
        BY <3>1, <2>7, <2>9, <1>0, RollbackStep DEF OrphanEnds, Go
  <2> QED
      BY <2>1, <2>2, <2>3, <2>4, <2>5, <2>6, <2>8, <2>9, <1>12 DEF Failure
<1>13. ASSUME NEW a \in Account, OutsiderLocks(a) \/ OutsiderUnlocks(a)
       PROVE  IInv'
    BY <1>13, OutsiderStep
<1>14. CASE UNCHANGED vars
    BY <1>14, StutterStep
<1> QED
    BY <1>2, <1>3, <1>4, <1>5, <1>6, <1>7, <1>8, <1>9, <1>10, <1>11, <1>12, <1>13, <1>14
    DEF Next, Progress, Quiescent

\* IInv is an invariant of the service.
THEOREM Invariance == Spec => []IInv
<1>1. Init => IInv
    BY InitIInv
<1>2. IInv /\ [Next]_vars => IInv'
    BY NextIInv
<1> QED
    BY <1>1, <1>2, PTL DEF Spec

============================================================================
