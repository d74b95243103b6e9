--------------------------- MODULE LedgerTheorems ---------------------------
(***************************************************************************)
(* What LedgerService guarantees for every value of its constants: any     *)
(* number of attempts, keys, accounts and calls, and any of the faults.    *)
(* Every theorem here follows from the invariant of LedgerProofs.          *)
(***************************************************************************)
EXTENDS LedgerProofs, FiniteSetTheorems

----------------------------------------------------------------------------
(* Invariants.                                                             *)

\* The type invariant.
THEOREM TypeCorrect == Spec => []TypeOK
<1>1. IInv => TypeOK
    BY DEF IInv
<1> QED
    BY <1>1, Invariance, PTL

\* The funds check of _move_money never rests on a stale balance.
THEOREM ReadsAreCurrent == Spec => []LockedReadsAreCurrent
<1>1. IInv => LockedReadsAreCurrent
    BY DEF IInv
<1> QED
    BY <1>1, Invariance, PTL

\* The loser of a race for a key always finds the row of the winner.
THEOREM RecordNeverVanishes == Spec => []WinnerIsReadable
<1>1. IInv => WinnerIsReadable
    BY DEF IInv
<1> QED
    BY <1>1, Invariance, PTL

\* Whoever holds a key or a row has a transaction that is still open: what
\* ends the transaction releases both.
THEOREM NoLockIsLeftBehind == Spec => []LocksHaveLiveOwners
<1>1. ASSUME IInv
      PROVE  LocksHaveLiveOwners
  <2>1. \A k \in Key, r \in Attempt : claimant[k] = r =>
            pc[r] \in {"lock", "move", "open", "commit"} \cup Orphans /\ KeyOf(r) = k
      BY <1>1 DEF IInv, ClaimsAreExclusive, Claimed, Orphans
  <2>2. \A a \in Account, r \in Attempt : row_lock[a] = r =>
            /\ pc[r] \in {"lock", "move", "commit"} \cup Orphans
            /\ a \in {Source(r), Destination(r)}
      BY <1>1 DEF IInv, RowsFollowTheOrder, Orphans
  <2>3. \A r \in Attempt : pc[r] \in {"lock", "move", "commit"} \cup Orphans =>
            claimant[KeyOf(r)] = r
      BY <1>1 DEF IInv, ClaimsAreExclusive, Claimed, Orphans
  <2> QED
      BY <2>1, <2>2, <2>3 DEF LocksHaveLiveOwners
<1> QED
    BY <1>1, Invariance, PTL

----------------------------------------------------------------------------
(* Deadlock.                                                               *)

\* A finite set of numbers that is not empty has a largest element.
LEMMA Largest ==
    ASSUME NEW S, IsFiniteSet(S), S \subseteq Nat, S # {}
    PROVE  \E m \in S : \A n \in S : n <= m
<1> DEFINE Above(m) == {n \in S : n > m}
           Counts == {Cardinality(Above(m)) : m \in S}
<1>1. \A m \in S : IsFiniteSet(Above(m)) /\ Cardinality(Above(m)) \in Nat
    BY FS_Subset, FS_CardinalityType
<1>2. Counts \subseteq Nat /\ Counts # {}
    BY <1>1
<1>3. PICK c \in Counts : \A d \in Counts : ~(<<d, c>> \in OpToRel(<, Nat))
    BY <1>2, WFMin, NatLessThanWellFounded
<1>4. PICK m \in S : c = Cardinality(Above(m))
    BY DEF Counts
<1>5. ASSUME NEW n \in S, n > m
      PROVE  FALSE
  <2>1. Above(n) \subseteq Above(m) /\ m \in Nat /\ n \in Nat
    <3>1. m \in Nat /\ n \in Nat /\ n > m /\ \A k \in S : k \in Nat
        BY <1>5
    <3>2. \A k \in S : k > n => k > m
        BY <3>1
    <3> QED
        BY <3>1, <3>2
  <2>2. Above(n) # Above(m)
      BY <1>5, <2>1
  <2>3. Cardinality(Above(n)) < Cardinality(Above(m))
      BY <1>1, <2>1, <2>2, FS_Subset
  <2>4. <<Cardinality(Above(n)), c>> \in OpToRel(<, Nat)
      BY <1>1, <1>4, <2>3 DEF OpToRel
  <2> QED
      BY <1>3, <2>4
<1>6. m \in Nat /\ \A n \in S : n \in Nat /\ ~(n > m)
    BY <1>5
<1> QED
    BY <1>6

\* No set of attempts waits for itself, so PostgreSQL never raises 40P01: an
\* attempt that waits for a key waits for one that has claimed it, and
\* whoever holds a row waits at most for a row with a larger id.
THEOREM DeadlockFreedom == Spec => []NoDeadlock
<1>1. ASSUME IInv
      PROVE  NoDeadlock
  <2> SUFFICES ASSUME NEW S \in SUBSET Attempt, S # {},
                      \A r \in S : WaitsFor(r) \cap S # {}
               PROVE  FALSE
      BY DEF NoDeadlock
  <2> DEFINE Stuck == {r \in S : BlockedOnRow(r)}
             Wanted == {NextLock(r) : r \in Stuck}
  <2>1. \A r \in Attempt : pc[r] = "lock" =>
            /\ IsTransfer(request[r])
            /\ LockOrder(r)[1] \in Account /\ LockOrder(r)[2] \in Account
            /\ LockOrder(r)[1] < LockOrder(r)[2]
            /\ {LockOrder(r)[1], LockOrder(r)[2]} = {Source(r), Destination(r)}
            /\ row_lock[LockOrder(r)[2]] # r
    <3>1. \A r \in Attempt : pc[r] = "lock" => IsTransfer(request[r]) /\ pc[r] \in Working
        BY <1>1 DEF IInv, CallsAtWork, Working
    <3> QED
        BY <3>1, <1>1, AtWork DEF IInv, RowsFollowTheOrder
  <2>2. \A r \in S : BlockedOnKey(r) \/ BlockedOnRow(r)
      BY DEF WaitsFor
  <2>3. Stuck # {}
    <3>1. PICK r \in S : TRUE
        OBVIOUS
    <3>2. CASE BlockedOnRow(r)
        BY <3>2
    <3>3. CASE BlockedOnKey(r)
      <4>1. pc[r] = "claim" /\ pc[r] # "lock"
          BY <3>3 DEF BlockedOnKey
      <4>2. PICK s \in S : claimant[KeyOf(r)] = s
          BY <4>1 DEF WaitsFor, BlockedOnRow
      <4>3. KeyOf(r) \in Key
          BY <1>1, <4>1, AtWork DEF IInv, Working
      <4>4. pc[s] \in Claimed
          BY <1>1, <4>2, <4>3 DEF IInv, ClaimsAreExclusive
      <4>5. BlockedOnRow(s)
          BY <2>2, <4>4 DEF BlockedOnKey, Claimed
      <4> QED
          BY <4>5
    <3> QED
        BY <2>2, <3>2, <3>3
  <2>4. Wanted \subseteq Account /\ Wanted # {}
      BY <2>1, <2>3 DEF BlockedOnRow, NextLock
  <2>5. IsFiniteSet(Wanted) /\ Wanted \subseteq Nat
      BY <2>4, AccountAssumption, FS_Subset
  <2>6. PICK r \in Stuck : \A s \in Stuck : NextLock(s) <= NextLock(r)
    <3>1. PICK m \in Wanted : \A n \in Wanted : n <= m
        BY <2>4, <2>5, Largest
    <3> QED
        BY <3>1
  <2>7. PICK s \in S : row_lock[NextLock(r)] = s
      BY <2>6 DEF WaitsFor, BlockedOnRow, BlockedOnKey
  <2>8. NextLock(r) \in Account
      BY <2>4
  <2>9. pc[s] # "claim" /\ NextLock(r) \in {Source(s), Destination(s)}
      BY <1>1, <2>7, <2>8 DEF IInv, RowsFollowTheOrder
  <2>10. BlockedOnRow(s) /\ pc[s] = "lock"
      BY <2>2, <2>9 DEF BlockedOnKey, BlockedOnRow
  <2>11. NextLock(r) = LockOrder(s)[1]
      BY <2>1, <2>7, <2>9, <2>10
  <2>12. NextLock(s) = LockOrder(s)[2]
      BY <2>7, <2>11 DEF NextLock
  <2>13. NextLock(r) < NextLock(s)
      BY <2>1, <2>10, <2>11, <2>12
  <2>14. NextLock(s) <= NextLock(r)
      BY <2>6, <2>10
  <2>15. NextLock(r) \in Nat /\ NextLock(s) \in Nat
      BY <2>5, <2>10
  <2> QED
      BY <2>13, <2>14, <2>15
<1> QED
    BY <1>1, Invariance, PTL

----------------------------------------------------------------------------
(* What a step can do to the tables.                                       *)

\* Only a COMMIT changes what is in the tables.
LEMMA OnlyCommitsWrite ==
    ASSUME [Next]_vars
    PROVE  \/ UNCHANGED tables
           \/ \E r \in Attempt :
                  /\ pc[r] \in {"commit", "in_doubt"}
                  /\ Publish(r)
                  /\ \/ Reply(r, Success(201, draft[r].response_body, FALSE))
                     \/ Reply(r, CatchAll)
                     \/ Go(r, "crashed")
                     \/ Go(r, Epitaph(r))
<1>1. CASE UNCHANGED vars
    BY <1>1 DEF vars
<1>2. CASE \E r \in Attempt : Receive(r) \/ RejectAtBoundary(r)
    BY <1>2 DEF Receive, RejectAtBoundary
<1>3. CASE \E r \in Attempt : Progress(r)
  <2>1. PICK r \in Attempt : Progress(r)
      BY <1>3
  <2>2. CASE FastPathHit(r) \/ FastPathMiss(r) \/ ReplayWinner(r)
      BY <2>2 DEF FastPathHit, FastPathMiss, ReplayWinner
  <2>3. CASE Acquire(r)
      BY <2>3 DEF Acquire, Claim, LoseRace, LockAccount, AccountMissing, Abort, Rollback
  <2>4. CASE InsufficientFunds(r) \/ AmountOutOfRange(r)
      BY <2>4 DEF InsufficientFunds, AmountOutOfRange, Abort, Rollback
  <2>5. CASE MoveMoney(r) \/ OpenAccount(r)
      BY <2>5 DEF MoveMoney, OpenAccount
  <2>6. CASE Commit(r)
      BY <2>6 DEF Commit
  <2> QED
      BY <2>1, <2>2, <2>3, <2>4, <2>5, <2>6 DEF Progress
<1>4. CASE \E r \in Attempt : Failure(r)
    BY <1>4 DEF Failure, CommitUnacknowledged, CommitThenCrash, LockTimeout,
                UnhandledError, Crash, Sever, LateCommit, OrphanEnds, Abort, Rollback
<1>5. CASE \E a \in Account : OutsiderLocks(a) \/ OutsiderUnlocks(a)
    BY <1>5 DEF OutsiderLocks, OutsiderUnlocks
<1> QED
    BY <1>1, <1>2, <1>3, <1>4, <1>5 DEF Next, Quiescent

\* And a COMMIT only adds to them: a row that is there stays as it is.
LEMMA TablesGrow ==
    ASSUME IInv, [Next]_vars
    PROVE  /\ ledger_entries \subseteq ledger_entries'
           /\ accounts \subseteq accounts'
           /\ \A a \in accounts : opening_balance'[a] = opening_balance[a]
           /\ \A k \in Committed : idempotency_keys'[k] = idempotency_keys[k]
<1>1. CASE UNCHANGED tables
    BY <1>1 DEF tables
<1>2. CASE \E r \in Attempt : pc[r] \in {"commit", "in_doubt"} /\ Publish(r)
  <2>1. PICK r \in Attempt : pc[r] \in {"commit", "in_doubt"} /\ Publish(r)
      BY <1>2
  <2>2. /\ KeyOf(r) \in Key
        /\ idempotency_keys[KeyOf(r)] = NoRecord
        /\ \A a \in accounts : opening_balance'[a] = opening_balance[a]
    <3>1. opening_balance \in [Account -> Money] /\ accounts \subseteq Account
        BY DEF IInv, TypeOK
    <3>2. CASE IsTransfer(request[r])
        BY <2>1, <3>2, PublishEffect
    <3>3. CASE ~IsTransfer(request[r])
        BY <2>1, <3>1, <3>3, PublishEffect
    <3> QED
        BY <2>1, <3>2, <3>3, PublishEffect
  <2>3. idempotency_keys' = [idempotency_keys EXCEPT ![KeyOf(r)] = draft[r]]
      BY <2>1 DEF Publish, CommittedKeys
  <2>4. \A k \in Committed : idempotency_keys'[k] = idempotency_keys[k]
      BY <2>2, <2>3 DEF Committed, IInv, TypeOK
  <2> QED
      BY <2>1, <2>2, <2>4 DEF Publish
<1> QED
    BY <1>1, <1>2, OnlyCommitsWrite

\* A committed row is never changed and never goes: a replay long after the
\* call finds the very response that the work recorded.
THEOREM CommittedRowsStay == Spec => AppendOnly
<1> DEFINE Appends ==
        /\ ledger_entries \subseteq ledger_entries'
        /\ accounts \subseteq accounts'
        /\ \A a \in accounts : opening_balance'[a] = opening_balance[a]
        /\ \A k \in Committed : idempotency_keys'[k] = idempotency_keys[k]
<1>1. IInv /\ [Next]_vars => [Appends]_vars
    BY TablesGrow
<1> QED
    BY <1>1, Invariance, PTL DEF Spec, AppendOnly

\* An attempt that is over stays as it is.
LEMMA FinishedStays ==
    ASSUME IInv, [Next]_vars, NEW q \in Attempt, pc[q] \in Finished
    PROVE  pc'[q] = pc[q] /\ request'[q] = request[q] /\ answer'[q] = answer[q]
<1> DEFINE Stays == pc'[q] = pc[q] /\ request'[q] = request[q] /\ answer'[q] = answer[q]
<1>0. /\ pc \in [Attempt -> {"idle"} \cup Working \cup Finished]
      /\ request \in [Attempt -> Calls \cup {NoCall}]
      /\ answer \in [Attempt -> Answer \cup {NoAnswer}]
      /\ pc[q] \in {"answered", "crashed"}
    BY DEF IInv, TypeOK, Finished
<1>1. \A r \in Attempt : \A n : Go(r, n) /\ r # q => Stays
    BY <1>0 DEF Go
<1>2. \A r \in Attempt : \A a : Reply(r, a) /\ r # q => Stays
    BY <1>0 DEF Reply
<1>3. CASE UNCHANGED vars
    BY <1>3 DEF vars
<1>4. CASE \E r \in Attempt : Receive(r) \/ RejectAtBoundary(r)
    BY <1>4, <1>0 DEF Receive, RejectAtBoundary
<1>5. CASE \E r \in Attempt : Progress(r)
  <2>1. PICK r \in Attempt : Progress(r)
      BY <1>5
  <2>2. CASE FastPathHit(r) \/ FastPathMiss(r) \/ ReplayWinner(r)
      BY <2>2, <1>0, <1>1, <1>2 DEF FastPathHit, FastPathMiss, ReplayWinner
  <2>3. CASE Acquire(r)
      BY <2>3, <1>0, <1>1, <1>2 DEF Acquire, Claim, LoseRace, LockAccount, AccountMissing, Abort
  <2>4. CASE InsufficientFunds(r) \/ AmountOutOfRange(r)
      BY <2>4, <1>0, <1>2 DEF InsufficientFunds, AmountOutOfRange, Abort
  <2>5. CASE MoveMoney(r) \/ OpenAccount(r) \/ Commit(r)
      BY <2>5, <1>0, <1>1, <1>2 DEF MoveMoney, OpenAccount, Commit
  <2> QED
      BY <2>1, <2>2, <2>3, <2>4, <2>5 DEF Progress
<1>6. CASE \E r \in Attempt : Failure(r)
  <2>1. PICK r \in Attempt : Failure(r)
      BY <1>6
  <2>2. r # q
      BY <2>1, <1>0 DEF Failure, CommitUnacknowledged, CommitThenCrash, LockTimeout, Blocked,
                        BlockedOnKey, BlockedOnRow, UnhandledError, Crash, Sever,
                        LateCommit, OrphanEnds, Orphans, Working
  <2> QED
      BY <2>1, <2>2, <1>0, <1>1, <1>2 DEF Failure, CommitUnacknowledged, CommitThenCrash,
                                          LockTimeout, UnhandledError, Crash, Sever,
                                          LateCommit, OrphanEnds, Abort
<1>7. CASE \E a \in Account : OutsiderLocks(a) \/ OutsiderUnlocks(a)
    BY <1>7 DEF OutsiderLocks, OutsiderUnlocks
<1> QED
    BY <1>3, <1>4, <1>5, <1>6, <1>7 DEF Next, Quiescent

\* "A failed transfer doesn't burn the key": the row of a key is there only
\* if an attempt under it succeeded, crashed, or lost its acknowledgement.
THEOREM KeysSurviveRefusals == Spec => []RefusalsBurnNoKey
<1>1. Init => RefusalsBurnNoKey
    BY DEF Init, RefusalsBurnNoKey, Committed
<1>2. ASSUME IInv, RefusalsBurnNoKey, [Next]_vars
      PROVE  RefusalsBurnNoKey'
  <2> SUFFICES ASSUME NEW k \in Key, idempotency_keys'[k] # NoRecord
               PROVE  \E r \in Attempt : (MayHaveCommitted(r) /\ KeyOf(r) = k)'
      BY DEF RefusalsBurnNoKey, Committed
  <2>1. ASSUME idempotency_keys[k] # NoRecord
        PROVE  \E r \in Attempt : (MayHaveCommitted(r) /\ KeyOf(r) = k)'
    <3>1. PICK r \in Attempt : MayHaveCommitted(r) /\ KeyOf(r) = k
        BY <1>2, <2>1 DEF RefusalsBurnNoKey, Committed
    <3>2. pc[r] \in Finished
        BY <3>1 DEF MayHaveCommitted, Finished
    <3>3. pc'[r] = pc[r] /\ request'[r] = request[r] /\ answer'[r] = answer[r]
        BY <3>2, <1>2, FinishedStays
    <3> QED
        BY <3>1, <3>3 DEF MayHaveCommitted, KeyOf
  <2>2. ASSUME idempotency_keys[k] = NoRecord
        PROVE  \E r \in Attempt : (MayHaveCommitted(r) /\ KeyOf(r) = k)'
    <3>1. PICK r \in Attempt :
              /\ pc[r] \in {"commit", "in_doubt"}
              /\ Publish(r)
              /\ \/ Reply(r, Success(201, draft[r].response_body, FALSE))
                 \/ Reply(r, CatchAll)
                 \/ Go(r, "crashed")
                 \/ Go(r, Epitaph(r))
        BY <2>2, <1>2, OnlyCommitsWrite DEF tables
    <3>2. k = KeyOf(r)
        BY <3>1, <2>2, <1>2 DEF Publish, CommittedKeys, IInv, TypeOK
    <3>3. /\ pc \in [Attempt -> {"idle"} \cup Working \cup Finished]
          /\ answer \in [Attempt -> Answer \cup {NoAnswer}]
        BY <1>2 DEF IInv, TypeOK
    <3>4. MayHaveCommitted(r)'
        BY <3>1, <3>3 DEF MayHaveCommitted, Reply, Go, Epitaph, Success, CatchAll
    <3>5. KeyOf(r)' = KeyOf(r)
        BY <3>1 DEF KeyOf, Reply, Go
    <3> QED
        BY <3>2, <3>4, <3>5
  <2> QED
      BY <2>1, <2>2
<1> QED
    BY <1>1, <1>2, Invariance, PTL DEF Spec

----------------------------------------------------------------------------
(* Refusals.                                                               *)

\* What a step answers is told to one attempt, and its code is known.
LEMMA AnswerIsOwn ==
    ASSUME IInv, NEW r \in Attempt, NEW a, answer' = [answer EXCEPT ![r] = a],
           NEW q \in Attempt, NEW code, Refuses(q, code)
    PROVE  q = r /\ a.code = code
BY DEF Refuses, IInv, TypeOK

\* Only a refusal carries the code of one.
LEMMA CodesOfAnswers ==
    /\ CatchAll.code = "INTERNAL_ERROR"
    /\ \A status, body, replayed : Success(status, body, replayed).code = "OK"
    /\ \A code : Refusal(code).code = code
    /\ \A record, c : Replay(record, c).code \in {"OK", "IDEMPOTENCY_KEY_CONFLICT"}
BY DEF CatchAll, Success, Refusal, Replay

\* Every refusal of a transfer is true of the committed state in which it is
\* decided: the rows it rests on are locked, or the account is not there.
THEOREM RefusalsRestOnFacts == Spec => RefusalsAreJustified
<1> DEFINE Justified(q) ==
        /\ Refuses(q, "ACCOUNT_NOT_FOUND") =>
               ~ {Source(q), Destination(q)} \subseteq accounts
        /\ Refuses(q, "INSUFFICIENT_FUNDS") => balance[Source(q)] < Amount(q)
        /\ Refuses(q, "AMOUNT_OUT_OF_RANGE") =>
               balance[Destination(q)] + Amount(q) > MaxBalance
<1>1. ASSUME IInv, [Next]_vars, NEW q \in Attempt
      PROVE  Justified(q)
  <2>1. answer' = answer => Justified(q)
      BY DEF Refuses
  <2>2. \A r \in Attempt : \A a :
            /\ answer' = [answer EXCEPT ![r] = a]
            /\ a.code \notin {"ACCOUNT_NOT_FOUND", "INSUFFICIENT_FUNDS", "AMOUNT_OUT_OF_RANGE"}
            => Justified(q)
      BY <1>1, AnswerIsOwn
  <2>3. \A r \in Attempt : \A n : Go(r, n) => Justified(q)
      BY <2>1 DEF Go
  <2>4. \A r \in Attempt : \A a :
            /\ Reply(r, a)
            /\ a.code \notin {"ACCOUNT_NOT_FOUND", "INSUFFICIENT_FUNDS", "AMOUNT_OUT_OF_RANGE"}
            => Justified(q)
      BY <2>2 DEF Reply
  <2>5. ASSUME NEW r \in Attempt, NEW code, answer' = [answer EXCEPT ![r] = Refusal(code)],
               NEW c, Refuses(q, c)
        PROVE  q = r /\ c = code
    <3>1. q = r /\ Refusal(code).code = c
        BY <1>1, <2>5, AnswerIsOwn
    <3> QED
        BY <3>1, CodesOfAnswers
  <2>6. CASE UNCHANGED vars
      BY <2>6, <2>1 DEF vars
  <2>7. ASSUME NEW r \in Attempt, Receive(r) \/ RejectAtBoundary(r)
        PROVE  Justified(q)
    <3>1. CASE Receive(r)
        BY <3>1, <2>1 DEF Receive
    <3>2. CASE RejectAtBoundary(r)
      <4>1. PICK c \in Calls :
                BoundaryError(c) # "NONE" /\ answer' = [answer EXCEPT ![r] = Refusal(BoundaryError(c))]
          BY <3>2 DEF RejectAtBoundary
      <4>2. Refusal(BoundaryError(c)).code = BoundaryError(c)
          BY CodesOfAnswers
      <4>3. BoundaryError(c) \in {"IDEMPOTENCY_KEY_REQUIRED", "IDEMPOTENCY_KEY_INVALID",
                                  "SAME_ACCOUNT_TRANSFER"}
          BY <4>1 DEF BoundaryError
      <4> QED
          BY <4>1, <4>2, <4>3, <2>2
    <3> QED
        BY <3>1, <3>2, <2>7
  <2>8. ASSUME NEW r \in Attempt, FastPathHit(r) \/ FastPathMiss(r) \/ ReplayWinner(r)
        PROVE  Justified(q)
    <3>1. RacedAnswer(r).code \in {"OK", "IDEMPOTENCY_KEY_CONFLICT", "INTERNAL_ERROR"}
        BY CodesOfAnswers DEF RacedAnswer
    <3> QED
        BY <3>1, <2>8, <2>3, <2>4, CodesOfAnswers DEF FastPathHit, FastPathMiss, ReplayWinner
  <2>9. ASSUME NEW r \in Attempt,
               \/ Claim(r) \/ LoseRace(r) \/ LockAccount(r) \/ MoveMoney(r) \/ OpenAccount(r)
        PROVE  Justified(q)
      BY <2>9, <2>3 DEF Claim, LoseRace, LockAccount, MoveMoney, OpenAccount
  <2>10. ASSUME NEW r \in Attempt, AccountMissing(r)
        PROVE  Justified(q)
    <3>1. answer' = [answer EXCEPT ![r] = Refusal("ACCOUNT_NOT_FOUND")]
        BY <2>10 DEF AccountMissing, Abort, Reply
    <3>2. NextLock(r) \in {Source(r), Destination(r)} /\ NextLock(r) \notin accounts
      <4>1. IsTransfer(request[r]) /\ pc[r] \in Working
          BY <1>1, <2>10 DEF IInv, CallsAtWork, AccountMissing, Working
      <4> QED
          BY <4>1, <1>1, <2>10, AtWork DEF IInv, AccountMissing, RowExists, NextLock
    <3> QED
        BY <3>1, <3>2, <2>5
  <2>11. ASSUME NEW r \in Attempt, InsufficientFunds(r) \/ AmountOutOfRange(r)
         PROVE  Justified(q)
    <3>1. pc[r] = "move" /\ IsTransfer(request[r])
        BY <2>11, <1>1 DEF InsufficientFunds, AmountOutOfRange, IInv, CallsAtWork
    <3>2. /\ Source(r) \in Account /\ Destination(r) \in Account
          /\ Amount(r) \in Money
        BY <3>1, <1>1, AtWork DEF IInv, Working
    <3>3. Source(r) \in Held(r) /\ Destination(r) \in Held(r)
        BY <3>1, <3>2, <1>1 DEF IInv, RowsFollowTheOrder, Held
    <3>4. /\ session[r][Source(r)] = balance[Source(r)]
          /\ session[r][Destination(r)] = balance[Destination(r)]
        BY <3>1, <3>3, <1>1 DEF IInv, LockedReadsAreCurrent
    <3>5. balance[Source(r)] \in Int /\ balance[Destination(r)] \in Int /\ Amount(r) \in Int
        BY <3>2, <1>1 DEF IInv, TypeOK, Money
    <3>6. CASE InsufficientFunds(r)
      <4>1. answer' = [answer EXCEPT ![r] = Refusal("INSUFFICIENT_FUNDS")]
          BY <3>6 DEF InsufficientFunds, Abort, Reply
      <4>2. balance[Source(r)] < Amount(r)
          BY <3>6, <3>4, <3>5 DEF InsufficientFunds, HasFunds
      <4> QED
          BY <4>1, <4>2, <2>5
    <3>7. CASE AmountOutOfRange(r)
      <4>1. answer' = [answer EXCEPT ![r] = Refusal("AMOUNT_OUT_OF_RANGE")]
          BY <3>7 DEF AmountOutOfRange, Abort, Reply
      <4>2. balance[Destination(r)] + Amount(r) > MaxBalance
          BY <3>7, <3>4, <3>5, MaxBalanceAssumption DEF AmountOutOfRange, CreditFits
      <4> QED
          BY <4>1, <4>2, <2>5
    <3> QED
        BY <3>6, <3>7, <2>11
  <2>12. ASSUME NEW r \in Attempt, Commit(r) \/ Failure(r)
         PROVE  Justified(q)
    <3>1. ASSUME answer' = [answer EXCEPT ![r] = Refusal("LOCK_TIMEOUT")]
          PROVE  Justified(q)
      <4>1. Refusal("LOCK_TIMEOUT").code = "LOCK_TIMEOUT"
          BY CodesOfAnswers
      <4> QED
          BY <3>1, <4>1, <2>2
    <3>2. CASE answer' = answer
        BY <3>2, <2>1
    <3>3. CASE answer' = [answer EXCEPT ![r] = CatchAll]
      <4>1. CatchAll.code = "INTERNAL_ERROR"
          BY CodesOfAnswers
      <4> QED
          BY <3>3, <4>1, <2>2
    <3>4. CASE Commit(r)
      <4>1. answer' = [answer EXCEPT ![r] = Success(201, draft[r].response_body, FALSE)]
          BY <3>4 DEF Commit, Reply
      <4>2. Success(201, draft[r].response_body, FALSE).code = "OK"
          BY DEF Success
      <4> QED
          BY <4>1, <4>2, <2>2
    <3>5. CASE LockTimeout(r)
      <4>1. answer' = [answer EXCEPT ![r] = Refusal("LOCK_TIMEOUT")]
          BY <3>5 DEF LockTimeout, Abort, Reply
      <4> QED
          BY <4>1, <3>1
    <3>6. CASE CommitUnacknowledged(r)
        BY <3>6, <3>3 DEF CommitUnacknowledged, Reply
    <3>7. CASE UnhandledError(r)
        BY <3>7, <3>3 DEF UnhandledError, Abort, Reply
    <3>8. CASE CommitThenCrash(r)
        BY <3>8, <3>2 DEF CommitThenCrash, Go
    <3>9. CASE Crash(r)
        BY <3>9, <3>2 DEF Crash, Go
    <3>10. CASE Sever(r)
      <4>1. answer' = answer \/ answer' = [answer EXCEPT ![r] = CatchAll]
          BY <3>10 DEF Sever
      <4> QED
          BY <4>1, <3>2, <3>3
    <3>11. CASE LateCommit(r)
        BY <3>11, <3>2 DEF LateCommit, Go
    <3>12. CASE OrphanEnds(r)
        BY <3>12, <3>2 DEF OrphanEnds, Go
    <3> QED
        BY <3>4, <3>5, <3>6, <3>7, <3>8, <3>9, <3>10, <3>11, <3>12, <2>12 DEF Failure
  <2>13. CASE \E a \in Account : OutsiderLocks(a) \/ OutsiderUnlocks(a)
      BY <2>13, <2>1 DEF OutsiderLocks, OutsiderUnlocks
  <2> QED
      BY <2>6, <2>7, <2>8, <2>9, <2>10, <2>11, <2>12, <2>13, <1>1
      DEF Next, Progress, Acquire, Quiescent
<1> DEFINE AllJustified ==
        \A r \in Attempt :
            /\ Refuses(r, "ACCOUNT_NOT_FOUND") =>
                   ~ {Source(r), Destination(r)} \subseteq accounts
            /\ Refuses(r, "INSUFFICIENT_FUNDS") => balance[Source(r)] < Amount(r)
            /\ Refuses(r, "AMOUNT_OUT_OF_RANGE") =>
                   balance[Destination(r)] + Amount(r) > MaxBalance
<1>2. IInv /\ [Next]_vars => [AllJustified]_vars
    BY <1>1
<1> QED
    BY <1>2, Invariance, PTL DEF Spec, RefusalsAreJustified

----------------------------------------------------------------------------
(* Refinement.                                                             *)

\* The COMMIT of a transfer is one move of the book, under a name that is
\* its own.
LEMMA TransferIsMove ==
    ASSUME IInv, NEW r \in Attempt, pc[r] \in {"commit", "in_doubt"}, Publish(r),
           IsTransfer(request[r])
    PROVE  /\ Book!Move(KeyOf(r), Source(r), Destination(r), Amount(r), r)
           /\ Source(r) \in Account /\ Destination(r) \in Account
           /\ Amount(r) \in 1..MaxBalance
<1>1. /\ KeyOf(r) \in Key
      /\ idempotency_keys[KeyOf(r)] = NoRecord
      /\ draft[r] \in Record
      /\ accounts' = accounts
      /\ balance' = [balance EXCEPT ![Source(r)] = @ - Amount(r),
                                    ![Destination(r)] = @ + Amount(r)]
    BY PublishEffect
<1>2. /\ Source(r) \in Account /\ Destination(r) \in Account
      /\ Source(r) # Destination(r)
      /\ Amount(r) \in Money \ {0}
      /\ request[r] \in Calls
    BY AtWork DEF IInv, Working
<1>3. TransferReady(r)
    BY DEF IInv, CommitsAreReady
<1>4. Amount(r) \in 1..MaxBalance
    BY <1>2, MaxBalanceAssumption DEF Money
<1>5. ASSUME NEW k \in Key, Outcome(idempotency_keys[k]) # Null
      PROVE  Outcome(idempotency_keys[k]).resource_id # r
  <2>1. k \in Committed
      BY <1>5 DEF Outcome, Committed
  <2>2. Outcome(idempotency_keys[k]).resource_id = idempotency_keys[k].resource_id
      BY <2>1 DEF Outcome, Committed
  <2>3. idempotency_keys[k].resource_id # r
    <3>1. r \notin accounts
        BY IdentityAssumption DEF IInv, TypeOK
    <3> QED
        BY <2>1, <3>1 DEF IInv, ResourcesAreSettled, Finished
  <2> QED
      BY <2>2, <2>3
<1>6. Outcome(draft[r]) = Book!Transfer(Source(r), Destination(r), Amount(r), r)
  <2>1. draft[r] # NoRecord
      BY <1>1, MarkersAssumption
  <2>2. /\ draft[r].operation = request[r].operation
        /\ draft[r].request_hash = Fingerprint(request[r])
        /\ draft[r].resource_id = r
      BY <1>3 DEF TransferReady, FilledRecord, ClaimedRecord
  <2>3. Fingerprint(request[r]) = [from_account_id |-> Source(r), to_account_id |-> Destination(r),
                                   amount |-> Amount(r)]
      BY DEF Fingerprint, Source, Destination, Amount
  <2>4. request[r].operation = "create_transfer"
      BY DEF IsTransfer
  <2> QED
      BY <2>1, <2>2, <2>3, <2>4 DEF Outcome, Book!Transfer
<1>7. idempotency_keys' = [idempotency_keys EXCEPT ![KeyOf(r)] = draft[r]]
    BY DEF Publish, CommittedKeys
<1>8. [k \in Key |-> Outcome(idempotency_keys'[k])] =
          [[k \in Key |-> Outcome(idempotency_keys[k])] EXCEPT
               ![KeyOf(r)] = Book!Transfer(Source(r), Destination(r), Amount(r), r)]
  <2>1. idempotency_keys \in [Key -> Record \cup {NoRecord}]
      BY DEF IInv, TypeOK
  <2>2. \A k \in Key : idempotency_keys'[k] =
            IF k = KeyOf(r) THEN draft[r] ELSE idempotency_keys[k]
      BY <1>1, <1>7, <2>1
  <2> QED
      BY <1>1, <1>6, <2>2
<1>9. Outcome(NoRecord) = Null
    BY DEF Outcome
<1> QED
    BY <1>1, <1>2, <1>3, <1>4, <1>5, <1>8, <1>9
    DEF Book!Move, Book!Unnamed, TransferReady, Outcome

\* The COMMIT of an opening is one opening in the book.
LEMMA OpeningIsOpen ==
    ASSUME IInv, NEW r \in Attempt, pc[r] \in {"commit", "in_doubt"}, Publish(r),
           ~IsTransfer(request[r])
    PROVE  /\ Book!Open(KeyOf(r), new_account[r], request[r].req.initial_balance)
           /\ new_account[r] \in Account
           /\ request[r].req.initial_balance \in 0..MaxBalance
<1>1. /\ KeyOf(r) \in Key
      /\ idempotency_keys[KeyOf(r)] = NoRecord
      /\ draft[r] \in Record
      /\ new_account[r] \in Account \ accounts
      /\ accounts' = accounts \cup {new_account[r]}
      /\ balance' = [balance EXCEPT ![new_account[r]] = request[r].req.initial_balance]
    BY PublishEffect
<1>2. /\ request[r] \in Calls /\ BoundaryError(request[r]) = "NONE"
      /\ request[r].req.initial_balance \in 0..MaxBalance
    BY AtWork DEF IInv, Working, Money
<1>3. OpeningReady(r)
    BY DEF IInv, CommitsAreReady
<1>4. Outcome(draft[r]) = Book!Opening(new_account[r], request[r].req.initial_balance)
  <2>1. draft[r] # NoRecord
      BY <1>1, MarkersAssumption
  <2>2. /\ draft[r].operation = request[r].operation
        /\ draft[r].request_hash = Fingerprint(request[r])
        /\ draft[r].resource_id = new_account[r]
      BY <1>3 DEF OpeningReady, FilledRecord, ClaimedRecord
  <2>3. Fingerprint(request[r]) = [initial_balance |-> request[r].req.initial_balance]
      BY DEF Fingerprint
  <2>4. request[r].operation = "create_account"
      BY <1>2, AcceptedCall DEF IsTransfer
  <2> QED
      BY <2>1, <2>2, <2>3, <2>4 DEF Outcome, Book!Opening
<1>5. idempotency_keys' = [idempotency_keys EXCEPT ![KeyOf(r)] = draft[r]]
    BY DEF Publish, CommittedKeys
<1>6. [k \in Key |-> Outcome(idempotency_keys'[k])] =
          [[k \in Key |-> Outcome(idempotency_keys[k])] EXCEPT
               ![KeyOf(r)] = Book!Opening(new_account[r], request[r].req.initial_balance)]
  <2>1. idempotency_keys \in [Key -> Record \cup {NoRecord}]
      BY DEF IInv, TypeOK
  <2>2. \A k \in Key : idempotency_keys'[k] =
            IF k = KeyOf(r) THEN draft[r] ELSE idempotency_keys[k]
      BY <1>1, <1>5, <2>1
  <2> QED
      BY <1>1, <1>4, <2>2
<1>7. Outcome(NoRecord) = Null
    BY DEF Outcome
<1> QED
    BY <1>1, <1>2, <1>6, <1>7 DEF Book!Open

\* The service implements the book: whatever races, fails, crashes or is
\* sent again, every key has at most one effect, in one step, and an effect
\* happens on balances that allow it.
THEOREM Refinement == Spec => ImplementsBook
<1>1. Init => Book!BookInit
  <2>1. Outcome(NoRecord) = Null
      BY DEF Outcome
  <2> QED
      BY <2>1 DEF Init, Book!BookInit
<1>2. ASSUME IInv, [Next]_vars
      PROVE  [Book!BookNext]_(Book!book)
  <2>1. CASE UNCHANGED tables
      BY <2>1 DEF tables, Book!book
  <2>2. CASE \E r \in Attempt : pc[r] \in {"commit", "in_doubt"} /\ Publish(r)
    <3>1. PICK r \in Attempt : pc[r] \in {"commit", "in_doubt"} /\ Publish(r)
        BY <2>2
    <3>2. KeyOf(r) \in Key
        BY <3>1, <1>2, PublishEffect
    <3>3. CASE IsTransfer(request[r])
      <4>1. /\ Book!Move(KeyOf(r), Source(r), Destination(r), Amount(r), r)
            /\ Source(r) \in Account /\ Destination(r) \in Account
            /\ Amount(r) \in 1..MaxBalance
          BY <3>1, <3>3, <1>2, TransferIsMove
      <4> QED
          BY <3>2, <4>1 DEF Book!BookNext
    <3>4. CASE ~IsTransfer(request[r])
      <4>1. /\ Book!Open(KeyOf(r), new_account[r], request[r].req.initial_balance)
            /\ new_account[r] \in Account
            /\ request[r].req.initial_balance \in 0..MaxBalance
          BY <3>1, <3>4, <1>2, OpeningIsOpen
      <4> QED
          BY <3>2, <4>1 DEF Book!BookNext
    <3> QED
        BY <3>3, <3>4
  <2> QED
      BY <2>1, <2>2, <1>2, OnlyCommitsWrite
<1> QED
    BY <1>1, <1>2, Invariance, PTL DEF Spec, ImplementsBook, Book!BookSpec

============================================================================
