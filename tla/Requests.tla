------------------------------ MODULE Requests ------------------------------
(***************************************************************************)
(* The values that cross the API of the transaction ledger, and the pure   *)
(* functions the service applies to them: the check of the Idempotency-Key *)
(* header, the request fingerprint, the table of domain errors, and the    *)
(* replay of a stored response.                                            *)
(*                                                                         *)
(* Data is abstracted to what the properties tell apart.  Money is a count *)
(* of 10^-4 units, bounded as NUMERIC(20,4) is.  The scale a client wrote  *)
(* an amount with ("25" or "25.00") is a field of its own, because the     *)
(* code must ignore it.  A header is its text with or without surrounding  *)
(* blanks.  SHA-256 is taken to be injective, so a hash is what it hashes. *)
(*                                                                         *)
(* Definitions marked "Wrong:" are no part of the specification: see       *)
(* LedgerService.                                                          *)
(***************************************************************************)
EXTENDS Integers, FiniteSets

CONSTANTS
    Key,            \* idempotency keys of a legal length
    Account,        \* account ids; their order is the order of sorted()
    Attempt,        \* one execution of a mutating endpoint by some instance
    MaxBalance,     \* the largest value of NUMERIC(20,4), in 10^-4 units
    Scale,          \* how many decimals a client writes
    BlankText,      \* a header that is absent, empty or only blanks
    OverlongText,   \* a header of more than MAX_KEY_LENGTH characters
    Null            \* Python's None, SQL's NULL

ASSUME MaxBalanceAssumption == MaxBalance \in Nat \ {0}

ASSUME AccountAssumption == Account \subseteq Nat /\ IsFiniteSet(Account)

\* Ids are uuid4: one drawn for a transfer is not one drawn for an account.
ASSUME IdentityAssumption ==
    /\ Attempt \cap Account = {}
    /\ Null \notin Attempt \cup Account

----------------------------------------------------------------------------
(* Requests, as pydantic hands them to the routers.                        *)

Money == 0..MaxBalance

TransferRequest ==
    [from_account_id : Account, to_account_id : Account,
     amount : Money \ {0}, scale : Scale]

CreateAccountRequest == [initial_balance : Money, scale : Scale]

Header == [text : Key \cup {BlankText, OverlongText}, padded : BOOLEAN]

TransferCall == [operation : {"create_transfer"}, header : Header, req : TransferRequest]

CreateAccountCall == [operation : {"create_account"}, header : Header, req : CreateAccountRequest]

Call == TransferCall \cup CreateAccountCall

IsTransfer(c) == c.operation = "create_transfer"

\* raw.strip(): the blanks around the text are not part of the key.
StrippedKey(c) == c.header.text

\* Refusals made before any database work, in the order the code makes them:
\* the header first, then a transfer from an account to itself.
BoundaryError(c) ==
    CASE c.header.text = BlankText    -> "IDEMPOTENCY_KEY_REQUIRED"
      [] c.header.text = OverlongText -> "IDEMPOTENCY_KEY_INVALID"
      [] /\ c.header.text \in Key
         /\ IsTransfer(c)
         /\ c.req.from_account_id = c.req.to_account_id -> "SAME_ACCOUNT_TRANSFER"
      [] OTHER -> "NONE"

\* Wrong: the scale a client wrote reaches the hash.
FingerprintOfText(c) == c.req

\* The hash of the parsed body.  The serialisers of the money fields render
\* four decimals whatever was sent, so the scale does not reach it; neither
\* does the operation.
Fingerprint(c) ==
    IF IsTransfer(c)
    THEN [from_account_id |-> c.req.from_account_id,
          to_account_id   |-> c.req.to_account_id,
          amount          |-> c.req.amount]
    ELSE [initial_balance |-> c.req.initial_balance]

RequestHash ==
    [from_account_id : Account, to_account_id : Account, amount : Money \ {0}]
        \cup [initial_balance : Money]

----------------------------------------------------------------------------
(* The row of idempotency_keys, and the bodies stored in it.               *)

TransferResponse(id, req) ==
    [transfer_id     |-> id,
     from_account_id |-> req.from_account_id,
     to_account_id   |-> req.to_account_id,
     amount          |-> req.amount]

AccountResponse(id, initial) == [id |-> id, balance |-> initial]

Body ==
    [transfer_id : Attempt, from_account_id : Account, to_account_id : Account,
     amount : Money \ {0}]
        \cup [id : Account, balance : Money]

Record ==
    [operation       : {"create_transfer", "create_account"},
     request_hash    : RequestHash,
     resource_id     : Attempt \cup Account \cup {Null},
     response_status : {201, Null},
     response_body   : Body \cup {Null}]

\* The row as it is claimed, before the work runs: no result yet.
ClaimedRecord(c) ==
    [operation       |-> c.operation,
     request_hash    |-> Fingerprint(c),
     resource_id     |-> Null,
     response_status |-> Null,
     response_body   |-> Null]

\* Wrong: the work forgets the response it promised.
FilledRecordNoBody(record, id, body) == [record EXCEPT !.resource_id = id]

\* The row once the work has recorded its response on it.
FilledRecord(record, id, body) ==
    [record EXCEPT !.resource_id = id, !.response_status = 201, !.response_body = body]

----------------------------------------------------------------------------
(* Answers.                                                                *)

StatusCode(code) ==
    CASE code \in {"IDEMPOTENCY_KEY_REQUIRED", "IDEMPOTENCY_KEY_INVALID",
                   "SAME_ACCOUNT_TRANSFER"}                         -> 400
      [] code = "ACCOUNT_NOT_FOUND"                                 -> 404
      [] code = "IDEMPOTENCY_KEY_CONFLICT"                          -> 409
      [] code \in {"INSUFFICIENT_FUNDS", "AMOUNT_OUT_OF_RANGE"}     -> 422
      [] code = "LOCK_TIMEOUT"                                      -> 503
      [] OTHER                                                      -> 500

Retryable(code) == code \in {"LOCK_TIMEOUT", "INTERNAL_ERROR"}

Answer ==
    [status : {200, 201, 400, 404, 409, 422, 500, 503},
     code : {"OK", "IDEMPOTENCY_KEY_REQUIRED", "IDEMPOTENCY_KEY_INVALID",
             "SAME_ACCOUNT_TRANSFER", "ACCOUNT_NOT_FOUND", "IDEMPOTENCY_KEY_CONFLICT",
             "INSUFFICIENT_FUNDS", "AMOUNT_OUT_OF_RANGE", "LOCK_TIMEOUT", "INTERNAL_ERROR"},
     body : Body \cup {Null},
     replayed : BOOLEAN,
     retry_after : BOOLEAN]

Success(status, body, replayed) ==
    [status |-> status, code |-> "OK", body |-> body,
     replayed |-> replayed, retry_after |-> FALSE]

\* A LedgerError: Retry-After follows the retryable flag of its class.
Refusal(code) ==
    [status |-> StatusCode(code), code |-> code, body |-> Null,
     replayed |-> FALSE, retry_after |-> Retryable(code)]

\* Any other exception: the envelope of InternalError, without a header.
CatchAll ==
    [status |-> 500, code |-> "INTERNAL_ERROR", body |-> Null,
     replayed |-> FALSE, retry_after |-> FALSE]

\* Wrong: a replay without looking at the fingerprint.
ReplayAny(record, c) ==
    IF record.operation # c.operation
    THEN Refusal("IDEMPOTENCY_KEY_CONFLICT")
    ELSE Success(200, record.response_body, TRUE)

\* Answer from the stored response, or refuse a recycled key.
Replay(record, c) ==
    IF record.operation # c.operation \/ record.request_hash # Fingerprint(c)
    THEN Refusal("IDEMPOTENCY_KEY_CONFLICT")
    ELSE Success(200, record.response_body, TRUE)

============================================================================
