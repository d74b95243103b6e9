-------------------------- MODULE LedgerInvariant --------------------------
(***************************************************************************)
(* Why LedgerService is correct: an inductive invariant, in parts.  TLC    *)
(* checks it on the instances of MCLedgerService; LedgerProofs shows that  *)
(* it is inductive for every value of the constants.                       *)
(***************************************************************************)
EXTENDS LedgerSafety

\* Inside the write transaction, with the key claimed.
Claimed == {"lock", "move", "open", "commit", "orphaned", "in_doubt"}

\* An attempt at work has a call that got past the boundary, and is on the
\* branch of that call.
CallsAtWork ==
    \A r \in Attempt :
        /\ pc[r] \in Working => request[r] \in Calls /\ BoundaryError(request[r]) = "NONE"
        /\ pc[r] \in {"lock", "move"} => IsTransfer(request[r])
        /\ pc[r] = "open" => ~IsTransfer(request[r])

\* The index entry of a key belongs to the one attempt that works under it,
\* and no committed row has that key.
ClaimsAreExclusive ==
    /\ \A r \in Attempt : pc[r] \in Claimed => claimant[KeyOf(r)] = r
    /\ \A k \in Key, r \in Attempt : claimant[k] = r =>
           /\ pc[r] \in Claimed
           /\ KeyOf(r) = k
           /\ idempotency_keys[k] = NoRecord

\* Rows are locked by transfers only, their own two, in the sorted order.
RowsFollowTheOrder ==
    \A r \in Attempt :
        /\ \A a \in Account : row_lock[a] = r =>
               /\ pc[r] \in {"lock", "move", "commit", "orphaned", "in_doubt"}
               /\ IsTransfer(request[r])
               /\ a \in {Source(r), Destination(r)}
        /\ pc[r] = "lock" => row_lock[LockOrder(r)[2]] # r
        /\ pc[r] = "move" \/ (pc[r] \in {"commit", "in_doubt"} /\ IsTransfer(request[r])) =>
               row_lock[Source(r)] = r /\ row_lock[Destination(r)] = r

\* A row that is not committed yet exists in one attempt only, and before
\* the work is done an attempt has only its claim.
DraftsAreOwn ==
    \A r \in Attempt :
        /\ pc[r] \notin Claimed => draft[r] = NoRecord
        /\ pc[r] \in {"lock", "move", "open"} => draft[r] = ClaimedRecord(request[r])
        /\ pc[r] \notin {"commit", "in_doubt"} => entries[r] = {} /\ new_account[r] = Null
        /\ \A s \in Attempt : new_account[r] = new_account[s] => r = s \/ new_account[r] = Null

\* A transfer about to commit: both balances are the committed ones with the
\* amount moved, and stay within their bounds.
TransferReady(r) ==
    /\ {Source(r), Destination(r)} \subseteq accounts
    /\ session[r][Source(r)] = balance[Source(r)] - Amount(r)
    /\ session[r][Destination(r)] = balance[Destination(r)] + Amount(r)
    /\ balance[Source(r)] >= Amount(r)
    /\ balance[Destination(r)] + Amount(r) <= MaxBalance
    /\ entries[r] = Legs(r)
    /\ new_account[r] = Null
    /\ draft[r] = FilledRecord(ClaimedRecord(request[r]), r,
                               TransferResponse(r, request[r].req))

\* An opening about to commit: its account is nobody else's.
OpeningReady(r) ==
    /\ new_account[r] \in Account \ accounts
    /\ entries[r] = {}
    /\ draft[r] = FilledRecord(ClaimedRecord(request[r]), new_account[r],
                      AccountResponse(new_account[r], request[r].req.initial_balance))

CommitsAreReady ==
    \A r \in Attempt : pc[r] \in {"commit", "in_doubt"} =>
        IF IsTransfer(request[r]) THEN TransferReady(r) ELSE OpeningReady(r)

\* What a committed key names is an account that is open, or a transfer
\* whose attempt is over.
ResourcesAreSettled ==
    \A k \in Committed :
        LET id == idempotency_keys[k].resource_id IN
        id \in accounts \/ (id \in Attempt /\ pc[id] \in Finished)

IInv ==
    /\ TypeOK
    /\ CallsAtWork
    /\ ClaimsAreExclusive
    /\ RowsFollowTheOrder
    /\ LockedReadsAreCurrent
    /\ DraftsAreOwn
    /\ CommitsAreReady
    /\ ResourcesAreSettled
    /\ WinnerIsReadable

============================================================================
