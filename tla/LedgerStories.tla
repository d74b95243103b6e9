---------------------------- MODULE LedgerStories ----------------------------
(***************************************************************************)
(* What a key tells: that its row and its one effect are there together,   *)
(* and that whoever is answered under it hears the same story.  Each       *)
(* property is inductive once it says what the row of the key holds.       *)
(***************************************************************************)
EXTENDS LedgerTheorems

----------------------------------------------------------------------------
(* The row of a key and its effect.                                        *)

\* What a transfer records is what it was asked for and what it moved.
LEMMA TransferRecorded ==
    ASSUME IInv, NEW r \in Attempt, pc[r] \in {"commit", "in_doubt"}, IsTransfer(request[r])
    PROVE  /\ draft[r].operation = "create_transfer"
           /\ draft[r].request_hash = Fingerprint(request[r])
           /\ draft[r].resource_id = r
           /\ draft[r].response_status = 201
           /\ draft[r].response_body = TransferResponse(r, draft[r].request_hash)
           /\ entries[r] =
                  {[transfer_id |-> r,
                    account_id  |-> draft[r].request_hash.from_account_id,
                    amount      |-> -draft[r].request_hash.amount],
                   [transfer_id |-> r,
                    account_id  |-> draft[r].request_hash.to_account_id,
                    amount      |-> draft[r].request_hash.amount]}
<1>1. TransferReady(r) /\ request[r].operation = "create_transfer"
    BY DEF IInv, CommitsAreReady, IsTransfer
<1>2. /\ draft[r].operation = request[r].operation
      /\ draft[r].request_hash = Fingerprint(request[r])
      /\ draft[r].resource_id = r
      /\ draft[r].response_status = 201
      /\ draft[r].response_body = TransferResponse(r, request[r].req)
    BY <1>1 DEF TransferReady, FilledRecord, ClaimedRecord
<1>3. /\ Fingerprint(request[r]).from_account_id = Source(r)
      /\ Fingerprint(request[r]).to_account_id = Destination(r)
      /\ Fingerprint(request[r]).amount = Amount(r)
    BY DEF Fingerprint, Source, Destination, Amount
<1>4. TransferResponse(r, request[r].req) = TransferResponse(r, Fingerprint(request[r]))
    BY <1>3 DEF TransferResponse, Source, Destination, Amount
<1>5. entries[r] = Legs(r)
    BY <1>1 DEF TransferReady
<1> QED
    BY <1>1, <1>2, <1>3, <1>4, <1>5 DEF Legs

\* What an opening records is what it was asked for and what it opened.
LEMMA OpeningRecorded ==
    ASSUME IInv, NEW r \in Attempt, pc[r] \in {"commit", "in_doubt"}, ~IsTransfer(request[r])
    PROVE  /\ draft[r].operation = "create_account"
           /\ draft[r].request_hash = Fingerprint(request[r])
           /\ draft[r].request_hash.initial_balance = request[r].req.initial_balance
           /\ draft[r].resource_id = new_account[r]
           /\ draft[r].response_status = 201
           /\ draft[r].response_body =
                  AccountResponse(new_account[r], draft[r].request_hash.initial_balance)
<1>1. OpeningReady(r)
    BY DEF IInv, CommitsAreReady
<1>2. request[r] \in Calls /\ BoundaryError(request[r]) = "NONE"
    BY AtWork DEF IInv, Working
<1>3. /\ draft[r].operation = request[r].operation
      /\ draft[r].request_hash = Fingerprint(request[r])
      /\ draft[r].resource_id = new_account[r]
      /\ draft[r].response_status = 201
      /\ draft[r].response_body =
             AccountResponse(new_account[r], request[r].req.initial_balance)
    BY <1>1 DEF OpeningReady, FilledRecord, ClaimedRecord
<1>4. Fingerprint(request[r]).initial_balance = request[r].req.initial_balance
    BY DEF Fingerprint
<1> QED
    BY <1>2, <1>3, <1>4, AcceptedCall

\* What KeyAndEffectTogether says of one row, and of one effect.
Complete(record) ==
    /\ record.response_status = 201
    /\ IF record.operation = "create_transfer"
       THEN TransferMatches(record) ELSE OpeningMatches(record)

Effects == {e.transfer_id : e \in ledger_entries} \cup (accounts \ InitAccounts)

Names(k, id) == k \in Committed /\ idempotency_keys[k].resource_id = id

OneKeyNames(id) == \E k \in Key : Names(k, id) /\ \A j \in Key : Names(j, id) => j = k

Together ==
    /\ InitAccounts \subseteq accounts
    /\ \A k \in Committed : Complete(idempotency_keys[k])
    /\ \A id \in Effects : OneKeyNames(id)

LEMMA TogetherSuffices == Together <=> KeyAndEffectTogether /\ InitAccounts \subseteq accounts
BY DEF Together, KeyAndEffectTogether, Complete, Effects, Names, OneKeyNames, Committed

\* A commit under a key of its own, with an id no row and no effect has.
LEMMA TogetherStep ==
    ASSUME IInv, Together, NEW r \in Attempt, pc[r] \in {"commit", "in_doubt"}, Publish(r)
    PROVE  Together'
<1> SUFFICES ASSUME NEW k0, k0 = KeyOf(r), NEW row, row = draft[r],
                    NEW id0, id0 = row.resource_id
             PROVE  Together'
    OBVIOUS
<1>1. /\ k0 \in Key
      /\ idempotency_keys \in [Key -> Record \cup {NoRecord}]
      /\ idempotency_keys[k0] = NoRecord
      /\ row # NoRecord
    BY PublishEffect, MarkersAssumption DEF IInv, TypeOK
<1>2. \A k \in Key : idempotency_keys'[k] = IF k = k0 THEN row ELSE idempotency_keys[k]
    BY <1>1 DEF Publish, CommittedKeys
<1>3. Committed' = Committed \cup {k0} /\ k0 \notin Committed
    BY <1>1, <1>2 DEF Committed
<1>4. ledger_entries' = ledger_entries \cup entries[r]
    BY DEF Publish
<1>5. id0 \notin accounts /\ \A k \in Committed : idempotency_keys[k].resource_id # id0
  <2>1. \A k \in Committed :
            \/ idempotency_keys[k].resource_id \in accounts
            \/ /\ idempotency_keys[k].resource_id \in Attempt
               /\ pc[idempotency_keys[k].resource_id] \in Finished
      BY DEF IInv, ResourcesAreSettled
  <2>2. accounts \subseteq Account
      BY DEF IInv, TypeOK
  <2>3. CASE IsTransfer(request[r])
    <3>1. id0 = r /\ r \notin accounts
        BY <2>2, <2>3, PublishEffect, IdentityAssumption
    <3>2. pc[r] \notin Finished
        BY DEF Finished
    <3> QED
        BY <2>1, <3>1, <3>2
  <2>4. CASE ~IsTransfer(request[r])
    <3>1. id0 \in Account \ accounts /\ id0 \notin Attempt
        BY <2>4, PublishEffect, IdentityAssumption
    <3> QED
        BY <2>1, <3>1
  <2> QED
      BY <2>3, <2>4
<1>6. id0 \notin Effects
    BY <1>5 DEF Together, OneKeyNames, Names, Effects
<1>7. Names(k0, id0)' /\ \A k \in Key : Names(k, id0)' => k = k0
    BY <1>1, <1>2, <1>3, <1>5 DEF Names
<1>8. \A id : id # id0 => \A k \in Key : Names(k, id)' <=> Names(k, id)
    BY <1>1, <1>2, <1>3 DEF Names
<1>9. \A id : id = id0 \/ id \in Effects => OneKeyNames(id)'
  <2>1. OneKeyNames(id0)'
      BY <1>1, <1>7 DEF OneKeyNames
  <2>2. ASSUME NEW id \in Effects, id # id0
        PROVE  OneKeyNames(id)'
      BY <2>2, <1>8 DEF Together, OneKeyNames
  <2> QED
      BY <2>1, <2>2
<1>10. CASE IsTransfer(request[r])
  <2>1. accounts' = accounts /\ opening_balance' = opening_balance /\ id0 = r
      BY <1>10, PublishEffect
  <2>2. \A e \in ledger_entries : e.transfer_id # id0
      BY <1>6 DEF Effects
  <2>3. \A e \in entries[r] : e.transfer_id = id0
      BY <1>10, <2>1, TransferRecorded
  <2>4. Complete(row)'
    <3>1. {e \in ledger_entries' : e.transfer_id = id0} = entries[r]
        BY <1>4, <2>2, <2>3
    <3> QED
        BY <1>10, <2>1, <3>1, TransferRecorded DEF Complete, TransferMatches
  <2>5. ASSUME NEW k \in Committed
        PROVE  Complete(idempotency_keys[k])'
    <3>1. idempotency_keys'[k] = idempotency_keys[k] /\ idempotency_keys[k].resource_id # id0
        BY <1>2, <1>3, <1>5 DEF Committed
    <3>2. Complete(idempotency_keys[k])
        BY DEF Together
    <3>3. CASE idempotency_keys[k].operation = "create_transfer"
      <4>1. {e \in ledger_entries' : e.transfer_id = idempotency_keys[k].resource_id} =
                {e \in ledger_entries : e.transfer_id = idempotency_keys[k].resource_id}
          BY <1>4, <2>3, <3>1
      <4> QED
          BY <3>1, <3>2, <3>3, <4>1 DEF Complete, TransferMatches
    <3>4. CASE idempotency_keys[k].operation # "create_transfer"
        BY <2>1, <3>1, <3>2, <3>4 DEF Complete, OpeningMatches
    <3> QED
        BY <3>3, <3>4
  <2>6. \A k \in Committed' : Complete(idempotency_keys[k])'
    <3>1. idempotency_keys'[k0] = row
        BY <1>1, <1>2
    <3> QED
        BY <1>3, <2>4, <2>5, <3>1 DEF Complete, TransferMatches, OpeningMatches
  <2>7. \A id \in Effects' : id = id0 \/ id \in Effects
      BY <1>4, <2>1, <2>3 DEF Effects
  <2> QED
      BY <1>9, <2>1, <2>6, <2>7 DEF Together
<1>11. CASE ~IsTransfer(request[r])
  <2>1. /\ id0 \in Account \ accounts
        /\ accounts' = accounts \cup {id0}
        /\ opening_balance' = [opening_balance EXCEPT ![id0] = request[r].req.initial_balance]
        /\ ledger_entries' = ledger_entries
      BY <1>4, <1>11, PublishEffect
  <2>2. accounts \subseteq Account /\ opening_balance \in [Account -> Money]
      BY DEF IInv, TypeOK
  <2>3. Complete(row)'
    <3>1. id0 \in accounts' \ InitAccounts
        BY <2>1 DEF Together
    <3> QED
        BY <1>11, <2>1, <2>2, <3>1, OpeningRecorded DEF Complete, OpeningMatches
  <2>4. ASSUME NEW k \in Committed
        PROVE  Complete(idempotency_keys[k])'
    <3>1. idempotency_keys'[k] = idempotency_keys[k] /\ idempotency_keys[k].resource_id # id0
        BY <1>2, <1>3, <1>5 DEF Committed
    <3>2. Complete(idempotency_keys[k])
        BY DEF Together
    <3>3. CASE idempotency_keys[k].operation = "create_transfer"
        BY <2>1, <3>1, <3>2, <3>3 DEF Complete, TransferMatches
    <3>4. CASE idempotency_keys[k].operation # "create_transfer"
        BY <2>1, <2>2, <3>1, <3>2, <3>4 DEF Complete, OpeningMatches
    <3> QED
        BY <3>3, <3>4
  <2>5. \A k \in Committed' : Complete(idempotency_keys[k])'
    <3>1. idempotency_keys'[k0] = row
        BY <1>1, <1>2
    <3> QED
        BY <1>3, <2>3, <2>4, <3>1 DEF Complete, TransferMatches, OpeningMatches
  <2>6. \A id \in Effects' : id = id0 \/ id \in Effects
      BY <2>1 DEF Effects
  <2> QED
      BY <1>9, <2>1, <2>5, <2>6 DEF Together
<1> QED
    BY <1>10, <1>11

LEMMA TogetherHolds == Spec => []Together
<1>1. Init => Together
    BY DEF Init, Together, Committed, Effects
<1>2. ASSUME IInv, Together, [Next]_vars
      PROVE  Together'
  <2>1. CASE UNCHANGED tables
      BY <1>2, <2>1 DEF tables, Together, Committed, Complete, Effects, Names, OneKeyNames,
                        TransferMatches, OpeningMatches
  <2>2. CASE \E r \in Attempt : pc[r] \in {"commit", "in_doubt"} /\ Publish(r)
      BY <1>2, <2>2, TogetherStep
  <2> QED
      BY <1>2, <2>1, <2>2, OnlyCommitsWrite
<1> QED
    BY <1>1, <1>2, Invariance, PTL DEF Spec

\* A key and its effect are committed together or not at all: there is no
\* row without its transfer or account, and none of these without its row.
THEOREM OneEffectPerKey == Spec => []KeyAndEffectTogether
<1>1. Together => KeyAndEffectTogether
    BY TogetherSuffices
<1> QED
    BY <1>1, TogetherHolds, PTL

----------------------------------------------------------------------------
(* What is answered under a key.                                           *)

\* Calls mean the same when the operation and the fingerprint are the same:
\* the scale is all the fingerprint forgets.
LEMMA MeaningIsFingerprint ==
    ASSUME NEW c \in Calls, NEW d \in Calls
    PROVE  SameMeaning(c, d) <=> c.operation = d.operation /\ Fingerprint(c) = Fingerprint(d)
<1>1. c \in Call /\ d \in Call
    BY CallsAssumption
<1>2. CASE c.operation # d.operation
    BY <1>2 DEF SameMeaning
<1>3. CASE c \in TransferCall /\ d \in TransferCall
  <2>1. SameMeaning(c, d) <=>
            /\ c.req.from_account_id = d.req.from_account_id
            /\ c.req.to_account_id = d.req.to_account_id
            /\ c.req.amount = d.req.amount
      BY <1>3 DEF SameMeaning, TransferCall, TransferRequest
  <2>2. Fingerprint(c) = Fingerprint(d) <=>
            /\ c.req.from_account_id = d.req.from_account_id
            /\ c.req.to_account_id = d.req.to_account_id
            /\ c.req.amount = d.req.amount
    <3>1. IsTransfer(c) /\ IsTransfer(d)
        BY <1>3 DEF IsTransfer, TransferCall
    <3>2. \A a1, b1, m1, a2, b2, m2 :
              [from_account_id |-> a1, to_account_id |-> b1, amount |-> m1] =
                  [from_account_id |-> a2, to_account_id |-> b2, amount |-> m2]
              <=> a1 = a2 /\ b1 = b2 /\ m1 = m2
        OBVIOUS
    <3> QED
        BY <3>1, <3>2 DEF Fingerprint
  <2>3. c.operation = d.operation
      BY <1>3 DEF TransferCall
  <2> QED
      BY <2>1, <2>2, <2>3
<1>4. CASE c \in CreateAccountCall /\ d \in CreateAccountCall
  <2>1. SameMeaning(c, d) <=> c.req.initial_balance = d.req.initial_balance
      BY <1>4 DEF SameMeaning, CreateAccountCall, CreateAccountRequest
  <2>2. Fingerprint(c) = Fingerprint(d) <=> c.req.initial_balance = d.req.initial_balance
    <3>1. ~IsTransfer(c) /\ ~IsTransfer(d)
        BY <1>4 DEF IsTransfer, CreateAccountCall
    <3>2. \A b1, b2 : [initial_balance |-> b1] = [initial_balance |-> b2] <=> b1 = b2
        OBVIOUS
    <3> QED
        BY <3>1, <3>2 DEF Fingerprint
  <2>3. c.operation = d.operation
      BY <1>4 DEF CreateAccountCall
  <2> QED
      BY <2>1, <2>2, <2>3
<1> QED
    BY <1>1, <1>2, <1>3, <1>4 DEF Call, TransferCall, CreateAccountCall

\* An attempt that is answered in a step is refused or failed, or is told
\* what the row of its key says, or has just committed that row.
Told(q) ==
    \/ answer'[q].code \notin {"OK", "IDEMPOTENCY_KEY_CONFLICT"}
    \/ /\ pc[q] \in {"fast_path", "raced"}
       /\ Stored(q) # NoRecord
       /\ answer'[q] = Replay(Stored(q), request[q])
       /\ UNCHANGED <<tables, request>>
    \/ /\ pc[q] = "commit"
       /\ Publish(q)
       /\ answer'[q] = Success(201, draft[q].response_body, FALSE)
       /\ UNCHANGED request

LEMMA HowAnswered ==
    ASSUME IInv, [Next]_vars, NEW q \in Attempt, pc[q] # "answered", pc'[q] = "answered"
    PROVE  Told(q)
<1>0. /\ pc \in [Attempt -> {"idle"} \cup Working \cup Finished]
      /\ answer \in [Attempt -> Answer \cup {NoAnswer}]
    BY DEF IInv, TypeOK
<1>1. \A r \in Attempt : \A a : Reply(r, a) => r = q /\ answer'[q] = a /\ request' = request
    BY <1>0 DEF Reply
<1>2. \A r \in Attempt : \A n : Go(r, n) => r = q /\ n = "answered" /\ answer' = answer
    BY <1>0 DEF Go
<1>3. /\ CatchAll.code = "INTERNAL_ERROR"
      /\ \A code : Refusal(code).code = code
    BY CodesOfAnswers
<1>4. pc' # pc
    OBVIOUS
<1>5. CASE UNCHANGED vars
    BY <1>4, <1>5 DEF vars
<1>6. ASSUME NEW r \in Attempt, Receive(r) \/ RejectAtBoundary(r)
      PROVE  Told(q)
  <2>1. CASE Receive(r)
      BY <1>0, <2>1 DEF Receive
  <2>2. CASE RejectAtBoundary(r)
    <3>1. PICK c \in Calls :
              /\ BoundaryError(c) # "NONE"
              /\ answer' = [answer EXCEPT ![r] = Refusal(BoundaryError(c))]
        BY <2>2 DEF RejectAtBoundary
    <3>2. r = q
        BY <1>0, <2>2 DEF RejectAtBoundary
    <3>3. answer'[q].code = BoundaryError(c)
        BY <1>0, <1>3, <3>1, <3>2
    <3>4. BoundaryError(c) \in {"IDEMPOTENCY_KEY_REQUIRED", "IDEMPOTENCY_KEY_INVALID",
                                "SAME_ACCOUNT_TRANSFER"}
        BY <3>1 DEF BoundaryError
    <3> QED
        BY <3>3, <3>4 DEF Told
  <2> QED
      BY <1>6, <2>1, <2>2
<1>7. ASSUME NEW r \in Attempt, Progress(r)
      PROVE  Told(q)
  <2>1. CASE FastPathHit(r)
      BY <1>1, <2>1 DEF FastPathHit, Told, tables
  <2>2. CASE ReplayWinner(r)
    <3>1. r = q /\ answer'[q] = RacedAnswer(q) /\ request' = request /\ UNCHANGED tables
        BY <1>1, <2>2 DEF ReplayWinner
    <3>2. Stored(q) # NoRecord
        BY <2>2, <3>1 DEF ReplayWinner, IInv, WinnerIsReadable
    <3> QED
        BY <2>2, <3>1, <3>2 DEF ReplayWinner, RacedAnswer, Told
  <2>3. CASE \/ FastPathMiss(r) \/ Claim(r) \/ LoseRace(r) \/ LockAccount(r)
             \/ MoveMoney(r) \/ OpenAccount(r)
      BY <1>2, <2>3 DEF FastPathMiss, Claim, LoseRace, LockAccount, MoveMoney, OpenAccount
  <2>4. CASE AccountMissing(r) \/ InsufficientFunds(r) \/ AmountOutOfRange(r)
    <3>1. answer'[q].code \in {"ACCOUNT_NOT_FOUND", "INSUFFICIENT_FUNDS", "AMOUNT_OUT_OF_RANGE"}
        BY <1>1, <1>3, <2>4 DEF AccountMissing, InsufficientFunds, AmountOutOfRange, Abort
    <3> QED
        BY <3>1 DEF Told
  <2>5. CASE Commit(r)
    <3>1. Reply(r, Success(201, draft[r].response_body, FALSE))
        BY <2>5 DEF Commit
    <3>2. /\ r = q /\ request' = request
          /\ answer'[q] = Success(201, draft[q].response_body, FALSE)
        BY <1>1, <3>1
    <3>3. pc[q] = "commit" /\ Publish(q)
        BY <2>5, <3>2 DEF Commit
    <3> QED
        BY <3>2, <3>3 DEF Told
  <2> QED
      BY <1>7, <2>1, <2>2, <2>3, <2>4, <2>5 DEF Progress, Acquire
<1>8. ASSUME NEW r \in Attempt, Failure(r)
      PROVE  Told(q)
  <2>1. CASE CommitUnacknowledged(r) \/ UnhandledError(r) \/ LockTimeout(r)
    <3>1. answer'[q].code \in {"INTERNAL_ERROR", "LOCK_TIMEOUT"}
        BY <1>1, <1>3, <2>1 DEF CommitUnacknowledged, UnhandledError, LockTimeout, Abort
    <3> QED
        BY <3>1 DEF Told
  <2>2. CASE CommitThenCrash(r) \/ Crash(r)
      BY <1>2, <2>2 DEF CommitThenCrash, Crash
  <2>3. CASE Sever(r)
      BY <1>0, <2>3 DEF Sever
  <2>4. CASE LateCommit(r) \/ OrphanEnds(r)
    <3>1. r = q /\ answer' = answer /\ answer[q] = CatchAll
        BY <1>2, <2>4 DEF LateCommit, OrphanEnds, Epitaph
    <3> QED
        BY <1>3, <3>1 DEF Told
  <2> QED
      BY <1>8, <2>1, <2>2, <2>3, <2>4 DEF Failure
<1>9. ASSUME NEW a \in Account, OutsiderLocks(a) \/ OutsiderUnlocks(a)
      PROVE  Told(q)
    BY <1>4, <1>9 DEF OutsiderLocks, OutsiderUnlocks
<1> QED
    BY <1>5, <1>6, <1>7, <1>8, <1>9 DEF Next, Quiescent

\* The row of k is the one r asked for.
IsRowOf(k, r) ==
    /\ k \in Committed
    /\ request[r] \in Calls
    /\ KeyOf(r) = k
    /\ idempotency_keys[k].operation = request[r].operation
    /\ idempotency_keys[k].request_hash = Fingerprint(request[r])

\* The row of a key is there to be read by whoever was told what it says;
\* one at most has written it; and whoever wrote it can be named.
Stories ==
    /\ \A r \in Succeeded :
           \E k \in Key : IsRowOf(k, r) /\ answer[r].body = idempotency_keys[k].response_body
    /\ \A r, s \in Succeeded :
           KeyOf(r) = KeyOf(s) /\ answer[r].status = 201 /\ answer[s].status = 201 => r = s
    /\ \A k \in Committed : \E r \in Attempt : IsRowOf(k, r) /\ MayHaveCommitted(r)
    /\ OnlyRealConflicts

\* What is over is told for ever.
LEMMA StoriesStay ==
    ASSUME IInv, [Next]_vars, NEW q \in Attempt, pc[q] \in Finished
    PROVE  /\ q \in Succeeded <=> q \in Succeeded'
           /\ KeyOf(q)' = KeyOf(q)
           /\ MayHaveCommitted(q)' <=> MayHaveCommitted(q)
           /\ \A k \in Key : IsRowOf(k, q) => IsRowOf(k, q)'
<1>1. pc'[q] = pc[q] /\ request'[q] = request[q] /\ answer'[q] = answer[q]
    BY FinishedStays
<1>2. KeyOf(q)' = KeyOf(q)
    BY <1>1 DEF KeyOf
<1>3. ASSUME NEW k \in Key, IsRowOf(k, q)
      PROVE  IsRowOf(k, q)'
  <2>1. k \in Committed /\ idempotency_keys'[k] = idempotency_keys[k]
      BY <1>3, TablesGrow DEF IsRowOf
  <2>2. k \in Committed'
      BY <2>1 DEF Committed
  <2> QED
      BY <1>1, <1>2, <1>3, <2>1, <2>2 DEF IsRowOf
<1> QED
    BY <1>1, <1>2, <1>3 DEF Succeeded, MayHaveCommitted

\* What a commit makes visible under the key of r is the row r asked for.
LEMMA CommitWritesItsRow ==
    ASSUME IInv, NEW r \in Attempt, pc[r] \in {"commit", "in_doubt"}, Publish(r),
           UNCHANGED request
    PROVE  /\ KeyOf(r) \in Key /\ KeyOf(r) \notin Committed
           /\ \A k : k = KeyOf(r) => IsRowOf(k, r)'
           /\ idempotency_keys'[KeyOf(r)] = draft[r]
           /\ Committed' = Committed \cup {KeyOf(r)}
<1>1. /\ KeyOf(r) \in Key
      /\ idempotency_keys \in [Key -> Record \cup {NoRecord}]
      /\ idempotency_keys[KeyOf(r)] = NoRecord
      /\ draft[r] \in Record
      /\ draft[r] # NoRecord
    BY PublishEffect, MarkersAssumption DEF IInv, TypeOK
<1>2. \A k \in Key :
          idempotency_keys'[k] = IF k = KeyOf(r) THEN draft[r] ELSE idempotency_keys[k]
    BY <1>1 DEF Publish, CommittedKeys
<1>3. Committed' = Committed \cup {KeyOf(r)} /\ KeyOf(r) \notin Committed
    BY <1>1, <1>2 DEF Committed
<1>4. request[r] \in Calls /\ BoundaryError(request[r]) = "NONE"
    BY AtWork DEF IInv, Working
<1>5. draft[r].operation = request[r].operation /\ draft[r].request_hash = Fingerprint(request[r])
    BY <1>4, AcceptedCall, TransferRecorded, OpeningRecorded
<1>6. KeyOf(r)' = KeyOf(r)
    BY DEF KeyOf
<1> QED
    BY <1>1, <1>2, <1>3, <1>4, <1>5, <1>6 DEF IsRowOf

\* What a replay says, and what it refuses.
LEMMA ReplayTells ==
    ASSUME NEW record, NEW c
    PROVE  /\ Replay(record, c).code = "OK" =>
                  /\ record.operation = c.operation
                  /\ record.request_hash = Fingerprint(c)
                  /\ Replay(record, c).body = record.response_body
                  /\ Replay(record, c).status = 200
           /\ Replay(record, c).code = "IDEMPOTENCY_KEY_CONFLICT" =>
                  record.operation # c.operation \/ record.request_hash # Fingerprint(c)
BY DEF Replay, Success, Refusal

LEMMA StoriesStep ==
    ASSUME IInv, Stories, [Next]_vars
    PROVE  Stories'
<1>1. \A q \in Attempt : pc'[q] = "answered" => pc[q] \in Finished \/ Told(q)
    BY HowAnswered DEF Finished
<1>2. ASSUME NEW q \in Attempt, pc[q] \in {"fast_path", "raced"}, Stored(q) # NoRecord,
             UNCHANGED <<tables, request>>, answer'[q] = Replay(Stored(q), request[q])
      PROVE  /\ KeyOf(q) \in Committed /\ KeyOf(q)' = KeyOf(q)
             /\ request[q] \in Calls /\ request'[q] = request[q]
             /\ answer'[q].code = "OK" => \A k : k = KeyOf(q) => IsRowOf(k, q)'
  <2>1. KeyOf(q) \in Key /\ request[q] \in Calls
      BY <1>2, AtWork DEF IInv, Working
  <2>2. KeyOf(q)' = KeyOf(q) /\ Committed' = Committed
      BY <1>2 DEF KeyOf, Committed, tables
  <2> QED
      BY <1>2, <2>1, <2>2, ReplayTells DEF IsRowOf, Stored, Committed, tables
<1>3. ASSUME NEW q \in Succeeded'
      PROVE  \E k \in Key : IsRowOf(k, q)' /\ answer'[q].body = idempotency_keys'[k].response_body
  <2>1. q \in Attempt /\ pc'[q] = "answered" /\ answer'[q].code = "OK"
      BY DEF Succeeded
  <2>2. CASE pc[q] \in Finished
    <3>1. q \in Succeeded /\ answer'[q] = answer[q]
        BY <2>1, <2>2, StoriesStay, FinishedStays
    <3>2. PICK k \in Key : IsRowOf(k, q) /\ answer[q].body = idempotency_keys[k].response_body
        BY <3>1 DEF Stories
    <3>3. IsRowOf(k, q)' /\ idempotency_keys'[k] = idempotency_keys[k]
        BY <2>1, <2>2, <3>2, StoriesStay, TablesGrow DEF IsRowOf
    <3> QED
        BY <3>1, <3>2, <3>3
  <2>3. CASE /\ pc[q] \in {"fast_path", "raced"}
             /\ Stored(q) # NoRecord
             /\ answer'[q] = Replay(Stored(q), request[q])
             /\ UNCHANGED <<tables, request>>
    <3>1. KeyOf(q) \in Committed /\ \A k : k = KeyOf(q) => IsRowOf(k, q)'
        BY <1>2, <2>1, <2>3
    <3>2. answer'[q].body = Stored(q).response_body /\ UNCHANGED idempotency_keys
        BY <2>1, <2>3, ReplayTells DEF tables
    <3> QED
        BY <3>1, <3>2 DEF Committed, Stored
  <2>4. CASE /\ pc[q] = "commit"
             /\ Publish(q)
             /\ answer'[q] = Success(201, draft[q].response_body, FALSE)
             /\ UNCHANGED request
    <3>1. /\ KeyOf(q) \in Key
          /\ \A k : k = KeyOf(q) => IsRowOf(k, q)'
          /\ idempotency_keys'[KeyOf(q)] = draft[q]
        BY <2>1, <2>4, CommitWritesItsRow
    <3> QED
        BY <2>4, <3>1 DEF Success
  <2> QED
      BY <1>1, <2>1, <2>2, <2>3, <2>4 DEF Told
<1>4. ASSUME NEW q \in Succeeded', answer'[q].status = 201, pc[q] \notin Finished
      PROVE  /\ pc[q] = "commit" /\ KeyOf(q)' = KeyOf(q)
             /\ KeyOf(q) \in Key /\ KeyOf(q) \notin Committed
  <2>1. q \in Attempt /\ pc'[q] = "answered" /\ answer'[q].code = "OK"
      BY DEF Succeeded
  <2>2. answer'[q] # Replay(Stored(q), request[q])
      BY <1>4, <2>1, ReplayTells
  <2>3. Told(q)
      BY <1>1, <1>4, <2>1
  <2>4. pc[q] = "commit" /\ Publish(q) /\ UNCHANGED request
      BY <2>1, <2>2, <2>3 DEF Told
  <2> QED
      BY <2>1, <2>4, CommitWritesItsRow DEF KeyOf
<1>5. ASSUME NEW r \in Succeeded', NEW s \in Succeeded', KeyOf(r)' = KeyOf(s)',
             answer'[r].status = 201, answer'[s].status = 201
      PROVE  r = s
  <2>1. r \in Attempt /\ s \in Attempt
      BY DEF Succeeded
  <2>2. ASSUME NEW q \in Succeeded', pc[q] \in Finished
        PROVE  /\ q \in Succeeded /\ answer'[q] = answer[q]
               /\ KeyOf(q)' = KeyOf(q) /\ KeyOf(q) \in Committed
    <3>1. q \in Succeeded /\ KeyOf(q)' = KeyOf(q) /\ answer'[q] = answer[q]
        BY <2>2, StoriesStay, FinishedStays DEF Succeeded
    <3> QED
        BY <3>1 DEF Stories, IsRowOf
  <2>3. CASE pc[r] \in Finished /\ pc[s] \in Finished
      BY <1>5, <2>2, <2>3 DEF Stories
  <2>4. CASE pc[r] \notin Finished /\ pc[s] \notin Finished
    <3>1. pc[r] = "commit" /\ pc[s] = "commit" /\ KeyOf(r) = KeyOf(s)
        BY <1>4, <1>5, <2>4
    <3> QED
        BY <2>1, <3>1 DEF IInv, ClaimsAreExclusive, Claimed
  <2>5. CASE pc[r] \notin Finished /\ pc[s] \in Finished
      BY <1>4, <1>5, <2>2, <2>5
  <2>6. CASE pc[r] \in Finished /\ pc[s] \notin Finished
      BY <1>4, <1>5, <2>2, <2>6
  <2> QED
      BY <2>3, <2>4, <2>5, <2>6
<1>6. ASSUME NEW k \in Committed
      PROVE  \E r \in Attempt :
                 /\ IsRowOf(k, r) /\ IsRowOf(k, r)'
                 /\ MayHaveCommitted(r) /\ MayHaveCommitted(r)'
                 /\ request'[r] = request[r] /\ KeyOf(r)' = KeyOf(r)
  <2>1. PICK r \in Attempt : IsRowOf(k, r) /\ MayHaveCommitted(r)
      BY DEF Stories
  <2>2. pc[r] \in Finished /\ k \in Key
      BY <2>1 DEF MayHaveCommitted, Finished, Committed
  <2> QED
      BY <2>1, <2>2, StoriesStay, FinishedStays
<1>7. ASSUME NEW k \in Committed'
      PROVE  \E r \in Attempt : IsRowOf(k, r)' /\ MayHaveCommitted(r)'
  <2>1. CASE k \in Committed
      BY <1>6, <2>1
  <2>2. CASE k \notin Committed
    <3>1. PICK r \in Attempt :
              /\ pc[r] \in {"commit", "in_doubt"}
              /\ Publish(r)
              /\ \/ Reply(r, Success(201, draft[r].response_body, FALSE))
                 \/ Reply(r, CatchAll)
                 \/ Go(r, "crashed")
                 \/ Go(r, Epitaph(r))
        BY <2>2, OnlyCommitsWrite DEF tables, Committed
    <3>2. /\ \A j : j = KeyOf(r) => IsRowOf(j, r)'
          /\ Committed' = Committed \cup {KeyOf(r)}
        BY <3>1, CommitWritesItsRow DEF Reply, Go
    <3>3. /\ pc \in [Attempt -> {"idle"} \cup Working \cup Finished]
          /\ answer \in [Attempt -> Answer \cup {NoAnswer}]
        BY DEF IInv, TypeOK
    <3>4. MayHaveCommitted(r)'
        BY <3>1, <3>3 DEF MayHaveCommitted, Reply, Go, Epitaph, Success, CatchAll
    <3> QED
        BY <2>2, <3>2, <3>4
  <2> QED
      BY <2>1, <2>2
<1>8. OnlyRealConflicts'
  <2> SUFFICES ASSUME NEW q \in Attempt, pc'[q] = "answered",
                      answer'[q].code = "IDEMPOTENCY_KEY_CONFLICT"
               PROVE  \E s \in Attempt :
                          /\ request'[s] # NoCall
                          /\ KeyOf(s)' = KeyOf(q)'
                          /\ ~SameMeaning(request'[s], request'[q])
                          /\ MayHaveCommitted(s)'
      BY DEF OnlyRealConflicts
  <2>1. CASE pc[q] \in Finished
    <3>1. /\ pc[q] = "answered" /\ answer[q].code = "IDEMPOTENCY_KEY_CONFLICT"
          /\ request'[q] = request[q] /\ KeyOf(q)' = KeyOf(q)
        BY <2>1, StoriesStay, FinishedStays
    <3>2. PICK s \in Attempt : /\ request[s] # NoCall
                               /\ KeyOf(s) = KeyOf(q)
                               /\ ~SameMeaning(request[s], request[q])
                               /\ MayHaveCommitted(s)
        BY <3>1 DEF Stories, OnlyRealConflicts
    <3>3. pc[s] \in Finished
        BY <3>2 DEF MayHaveCommitted, Finished
    <3> QED
        BY <3>1, <3>2, <3>3, StoriesStay, FinishedStays
  <2>2. CASE pc[q] \notin Finished
    <3>1. /\ pc[q] \in {"fast_path", "raced"}
          /\ Stored(q) # NoRecord
          /\ answer'[q] = Replay(Stored(q), request[q])
          /\ UNCHANGED <<tables, request>>
      <4>1. Told(q)
          BY <1>1, <2>2
      <4>2. answer'[q] # Success(201, draft[q].response_body, FALSE)
          BY DEF Success
      <4> QED
          BY <4>1, <4>2 DEF Told
    <3>2. /\ KeyOf(q) \in Committed /\ KeyOf(q)' = KeyOf(q)
          /\ request[q] \in Calls /\ request'[q] = request[q]
        BY <1>2, <3>1
    <3>3. PICK s \in Attempt :
              /\ IsRowOf(KeyOf(q), s) /\ MayHaveCommitted(s)'
              /\ request'[s] = request[s] /\ KeyOf(s)' = KeyOf(s)
        BY <1>6, <3>2
    <3>4. ~SameMeaning(request[s], request[q])
        BY <3>1, <3>2, <3>3, ReplayTells, MeaningIsFingerprint DEF IsRowOf, Stored
    <3>5. request[s] # NoCall
        BY <3>3, CallsAssumption, MarkersAssumption DEF IsRowOf
    <3> QED
        BY <3>2, <3>3, <3>4, <3>5 DEF IsRowOf
  <2> QED
      BY <2>1, <2>2
<1> QED
    BY <1>3, <1>5, <1>7, <1>8 DEF Stories

LEMMA StoriesHold == Spec => []Stories
<1>1. Init => Stories
    BY DEF Init, Stories, Succeeded, Committed, OnlyRealConflicts
<1>2. IInv /\ Stories /\ [Next]_vars => Stories'
    BY StoriesStep
<1> QED
    BY <1>1, <1>2, Invariance, PTL DEF Spec

\* Whoever succeeds under a key hears of the same effect, asked for it, and
\* one at most is told to have caused it.
THEOREM EveryoneHearsTheSame == Spec => []OneStoryPerKey
<1>1. ASSUME Stories
      PROVE  OneStoryPerKey
  <2> SUFFICES ASSUME NEW r \in Succeeded, NEW s \in Succeeded, KeyOf(r) = KeyOf(s)
               PROVE  /\ answer[r].body = answer[s].body
                      /\ SameMeaning(request[r], request[s])
                      /\ answer[r].status = 201 /\ answer[s].status = 201 => r = s
      BY DEF OneStoryPerKey
  <2>1. PICK k \in Key : IsRowOf(k, r) /\ answer[r].body = idempotency_keys[k].response_body
      BY <1>1 DEF Stories
  <2>2. IsRowOf(k, s) /\ answer[s].body = idempotency_keys[k].response_body
    <3>1. PICK j \in Key : IsRowOf(j, s) /\ answer[s].body = idempotency_keys[j].response_body
        BY <1>1 DEF Stories
    <3>2. j = k
        BY <2>1, <3>1 DEF IsRowOf
    <3> QED
        BY <3>1, <3>2
  <2>3. SameMeaning(request[r], request[s])
      BY <2>1, <2>2, MeaningIsFingerprint DEF IsRowOf
  <2> QED
      BY <1>1, <2>1, <2>2, <2>3 DEF Stories
<1> QED
    BY <1>1, StoriesHold, PTL

\* Only a call that means something else than the one which took the key is
\* refused as a conflict: a retry never is.
THEOREM RetriesNeverConflict == Spec => []OnlyRealConflicts
<1>1. Stories => OnlyRealConflicts
    BY DEF Stories
<1> QED
    BY <1>1, StoriesHold, PTL

==============================================================================
