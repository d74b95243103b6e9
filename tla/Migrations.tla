------------------------------ MODULE Migrations ------------------------------
(***************************************************************************)
(* How an instance comes up: docker-entrypoint.sh runs `alembic upgrade    *)
(* head` and, when that succeeds, the server.  Instances that boot         *)
(* together all migrate.  env.py opens one transaction for every revision  *)
(* that is missing; the version it starts from is read without a lock.     *)
(* DDL locks what it changes, so the second of two upgrades waits at its   *)
(* first statement until the first has ended.  env.py sets no lock_timeout,*)
(* so it waits as long for a session of psql, or for a transaction whose   *)
(* connection is lost and which the server still has: an orphan.           *)
(*                                                                         *)
(* What is at stake is the table of idempotency keys: the previous release *)
(* has left rows in it, and their requests are retried after the deploy.   *)
(*                                                                         *)
(* Definitions marked "Wrong:" are no part of the specification: see       *)
(* LedgerService.                                                          *)
(***************************************************************************)
EXTENDS Integers, FiniteSets

CONSTANTS
    Instance,       \* the containers that are started
    Key,            \* idempotency keys
    Body,           \* request bodies, told apart by their hash
    OperationOf,    \* the endpoint whose model a body is an instance of
    Nobody, Outsider, Orphan,
    NoRow,
    Unlabelled,     \* of a row, while the table has no column "operation"
    NoRetry,
    Faults          \* what may go wrong: "crash", "disconnect", "sever", "outsider"

Operations == {"create_transfer", "create_account"}

ASSUME BodyAssumption == OperationOf \in [Body -> Operations]

ASSUME SentinelAssumption ==
    /\ {Nobody, Outsider, Orphan} \cap Instance = {}
    /\ Nobody # Outsider /\ Nobody # Orphan /\ Outsider # Orphan
    /\ NoRow \notin [operation : Operations \cup {Unlabelled}, request_hash : Body]
    /\ NoRow \notin Body
    /\ Unlabelled \notin Operations

VARIABLES
    database,       \* what is committed: the schema, alembic_version, the rows
    draft,          \* the same, as the transaction of an upgrade, if any, sees it
    holder,         \* whose transaction holds the locks of DDL
    pc,             \* how far an instance has come
    seen,           \* the revision an upgrade starts the next one from
    claimed,        \* the body each key was first used with
    answered        \* the latest request that was answered

vars == <<database, draft, holder, pc, seen, claimed, answered>>

----------------------------------------------------------------------------
(* The revisions: 02aa5ff6c3f1, 7d1e9b4c2a80 and c4b8f2e07a13.  A schema   *)
(* is the set of its objects that a later revision, or the application,    *)
(* depends on.                                                             *)

Head == 3

Adds == <<{"accounts", "ledger_entries", "idempotency_keys.transfer_id"},
          {"idempotency_keys.resource_id", "idempotency_keys.operation"},
          {"trg_ledger_entries_conserve_money"}>>

\* A rename takes the old name away.
Removes == <<{}, {"idempotency_keys.transfer_id"}, {}>>

SchemaAt(n) ==
    (UNION {Adds[m] : m \in 1..n}) \ (UNION {Removes[m] : m \in 1..n})

\* The columns that models.py names.
Expected ==
    {"accounts", "ledger_entries", "idempotency_keys.resource_id", "idempotency_keys.operation"}

Rows == {NoRow} \cup [operation : Operations \cup {Unlabelled}, request_hash : Body]

Databases == [schema  : SUBSET UNION {Adds[n] : n \in 1..Head},
              version : 0..Head,
              rows    : [Key -> Rows]]

\* A statement fails when its object exists already, or is gone.
Applies(n, db) ==
    /\ db.version = n - 1
    /\ Removes[n] \subseteq db.schema
    /\ Adds[n] \cap db.schema = {}

\* Wrong: the rows are labelled with the new endpoint.
LabelledAsNew(row) ==
    IF row = NoRow THEN NoRow ELSE [row EXCEPT !.operation = "create_account"]

\* add_column(operation, server_default): the rows there are, are transfers'.
\* request_hash is untouched.
Labelled(row) ==
    IF row = NoRow THEN NoRow ELSE [row EXCEPT !.operation = "create_transfer"]

\* upgrade() of a revision, and the UPDATE of alembic_version.
Upgraded(n, db) ==
    [schema  |-> (db.schema \ Removes[n]) \cup Adds[n],
     version |-> n,
     rows    |-> IF n = 2 THEN [k \in Key |-> Labelled(db.rows[k])] ELSE db.rows]

\* The first release had one endpoint that took a key, and no column for it;
\* since the second there are two.
RowsOf(n) ==
    {row \in [operation : Operations \cup {Unlabelled}, request_hash : Body] :
        row.operation = IF n = 1 THEN Unlabelled ELSE OperationOf[row.request_hash]}

WrittenBefore(n) ==
    {NoRow} \cup CASE n = 0 -> {}
                   [] n = 1 -> {row \in RowsOf(1) :
                                   OperationOf[row.request_hash] = "create_transfer"}
                   [] OTHER -> RowsOf(n)

----------------------------------------------------------------------------

Outcomes == {"created", "replayed", "conflict", "error"}

Booting == {"migrating", "pending", "upgrading"}

TypeOK ==
    /\ database \in Databases
    /\ draft \in Databases
    /\ holder \in Instance \cup {Nobody, Outsider, Orphan}
    /\ pc \in [Instance -> {"down", "exited", "serving"} \cup Booting]
    /\ seen \in [Instance -> 0..Head]
    /\ claimed \in [Key -> Body \cup {NoRow}]
    /\ answered \in {NoRetry} \cup [key : Key, body : Body, outcome : Outcomes]

Init ==
    /\ \E n \in 0..Head : \E rows \in [Key -> WrittenBefore(n)] :
           /\ database = [schema |-> SchemaAt(n), version |-> n, rows |-> rows]
           /\ claimed = [k \in Key |-> IF rows[k] = NoRow THEN NoRow ELSE rows[k].request_hash]
    /\ draft = database
    /\ holder = Nobody
    /\ pc = [i \in Instance |-> "down"]
    /\ seen = [i \in Instance |-> 0]
    /\ answered = NoRetry

Rollback == holder' = Nobody /\ draft' = database

\* What the server does with a session that has ended.
Release(i) == IF holder = i THEN Rollback ELSE UNCHANGED <<holder, draft>>

\* `docker compose up`, also of a container that has exited.
Boot(i) ==
    /\ pc[i] \in {"down", "exited"}
    /\ pc' = [pc EXCEPT ![i] = "migrating"]
    /\ UNCHANGED <<database, draft, holder, seen, claimed, answered>>

\* alembic reads alembic_version.  Nothing to do at head: exec uvicorn.
ReadVersion(i) ==
    /\ pc[i] = "migrating"
    /\ seen' = [seen EXCEPT ![i] = database.version]
    /\ pc' = [pc EXCEPT ![i] = IF database.version = Head THEN "serving" ELSE "pending"]
    /\ UNCHANGED <<database, draft, holder, claimed, answered>>

\* The first statement of the upgrade has what it locks.
Lock(i) ==
    /\ pc[i] = "pending"
    /\ holder = Nobody
    /\ holder' = i
    /\ draft' = database
    /\ pc' = [pc EXCEPT ![i] = "upgrading"]
    /\ UNCHANGED <<database, seen, claimed, answered>>

\* Wrong: DDL is committed as it runs, the version at the end.
UpgradeInPlace(i) ==
    /\ pc[i] = "upgrading"
    /\ seen[i] < Head
    /\ Applies(seen[i] + 1, draft)
    /\ draft' = Upgraded(seen[i] + 1, draft)
    /\ database' = [draft' EXCEPT !.version = database.version]
    /\ seen' = [seen EXCEPT ![i] = seen[i] + 1]
    /\ UNCHANGED <<holder, pc, claimed, answered>>

\* Wrong: transaction_per_migration.
UpgradeOne(i) ==
    /\ pc[i] = "upgrading"
    /\ seen[i] < Head
    /\ Applies(seen[i] + 1, draft)
    /\ draft' = Upgraded(seen[i] + 1, draft)
    /\ seen' = [seen EXCEPT ![i] = seen[i] + 1]
    /\ IF seen'[i] = Head
       THEN UNCHANGED <<database, holder, pc>>
       ELSE /\ database' = draft'
            /\ holder' = Nobody
            /\ pc' = [pc EXCEPT ![i] = "pending"]
    /\ UNCHANGED <<claimed, answered>>

\* The next revision, in the transaction of the others.
Upgrade(i) ==
    /\ pc[i] = "upgrading"
    /\ seen[i] < Head
    /\ Applies(seen[i] + 1, draft)
    /\ draft' = Upgraded(seen[i] + 1, draft)
    /\ seen' = [seen EXCEPT ![i] = seen[i] + 1]
    /\ UNCHANGED <<database, holder, pc, claimed, answered>>

\* Wrong: a transaction that fails is left open.
UpgradeFailsOpen(i) ==
    /\ pc[i] = "upgrading"
    /\ seen[i] < Head
    /\ ~Applies(seen[i] + 1, draft)
    /\ pc' = [pc EXCEPT ![i] = "exited"]
    /\ UNCHANGED <<database, draft, holder, seen, claimed, answered>>

\* Another instance has been here since the version was read: the revision
\* fails, the transaction is rolled back, and `set -e` ends the container.
UpgradeFails(i) ==
    /\ pc[i] = "upgrading"
    /\ seen[i] < Head
    /\ ~Applies(seen[i] + 1, draft)
    /\ pc' = [pc EXCEPT ![i] = "exited"]
    /\ Release(i)
    /\ UNCHANGED <<database, seen, claimed, answered>>

\* COMMIT of the upgrade; then exec uvicorn.
Commit(i) ==
    /\ pc[i] = "upgrading"
    /\ seen[i] = Head
    /\ database' = draft
    /\ holder' = Nobody
    /\ pc' = [pc EXCEPT ![i] = "serving"]
    /\ UNCHANGED <<draft, seen, claimed, answered>>

\* Wrong: no `set -e`, so the server starts whatever became of the upgrade.
DisconnectUnnoticed(i) ==
    /\ "disconnect" \in Faults
    /\ pc[i] \in Booting
    /\ pc' = [pc EXCEPT ![i] = "serving"]
    /\ Release(i)
    /\ UNCHANGED <<database, seen, claimed, answered>>

\* alembic cannot reach the database, or the server ends the session: nothing
\* is committed.
Disconnect(i) ==
    /\ "disconnect" \in Faults
    /\ pc[i] \in Booting
    /\ pc' = [pc EXCEPT ![i] = "exited"]
    /\ Release(i)
    /\ UNCHANGED <<database, seen, claimed, answered>>

\* The container dies; the server notices, and rolls back what it had open.
Crash(i) ==
    /\ "crash" \in Faults
    /\ pc[i] \in Booting \cup {"serving"}
    /\ pc' = [pc EXCEPT ![i] = "down"]
    /\ Release(i)
    /\ UNCHANGED <<database, seen, claimed, answered>>

\* The connection of an upgrade is lost, or its container is, and the server
\* does not notice: the transaction stays.
Sever(i) ==
    /\ "sever" \in Faults
    /\ pc[i] = "upgrading"
    /\ \E gone \in {"exited", "down"} : pc' = [pc EXCEPT ![i] = gone]
    /\ holder' = Orphan
    /\ UNCHANGED <<database, draft, seen, claimed, answered>>

\* A COMMIT that had been sent is carried out.
LateCommit ==
    /\ holder = Orphan
    /\ draft.version = Head
    /\ database' = draft
    /\ holder' = Nobody
    /\ UNCHANGED <<draft, pc, seen, claimed, answered>>

\* The server gives the connection up, and rolls back.
OrphanEnds ==
    /\ holder = Orphan
    /\ Rollback
    /\ UNCHANGED <<database, pc, seen, claimed, answered>>

\* A session of psql locks a table that a revision changes.
OutsiderLocks ==
    /\ "outsider" \in Faults
    /\ holder = Nobody
    /\ holder' = Outsider
    /\ UNCHANGED <<database, draft, pc, seen, claimed, answered>>

OutsiderUnlocks ==
    /\ holder = Outsider
    /\ holder' = Nobody
    /\ UNCHANGED <<database, draft, pc, seen, claimed, answered>>

Answered(k, body, outcome) == [key |-> k, body |-> body, outcome |-> outcome]

\* The answer of execute_once to a request, given the row of its key.
Outcome(row, body) ==
    IF ~(Expected \subseteq database.schema) THEN "error"
    ELSE IF row = NoRow THEN "created"
    ELSE IF row.operation = OperationOf[body] /\ row.request_hash = body THEN "replayed"
    ELSE "conflict"

\* A request, as a whole, on an instance that serves.  Its statements wait
\* for DDL in progress; what stops DDL, an open SELECT say, need not stop them.
Serve(i, k, body) ==
    /\ pc[i] = "serving"
    /\ holder \in {Nobody, Outsider}
    /\ LET outcome == Outcome(database.rows[k], body) IN
           /\ answered' = Answered(k, body, outcome)
           /\ IF outcome = "created"
              THEN /\ database' = [database EXCEPT !.rows[k] =
                          [operation |-> OperationOf[body], request_hash |-> body]]
                   /\ claimed' = [claimed EXCEPT ![k] = body]
              ELSE UNCHANGED <<database, claimed>>
    /\ draft' = database'
    /\ UNCHANGED <<holder, pc, seen>>

BootStep(i) ==
    ReadVersion(i) \/ Lock(i) \/ Upgrade(i) \/ UpgradeFails(i) \/ Commit(i)

Elsewhere == LateCommit \/ OrphanEnds \/ OutsiderLocks \/ OutsiderUnlocks

Next ==
    \/ \E i \in Instance :
           \/ BootStep(i)
           \/ Boot(i)
           \/ Disconnect(i)
           \/ Crash(i)
           \/ Sever(i)
           \/ \E k \in Key, body \in Body : Serve(i, k, body)
    \/ Elsewhere

Spec == Init /\ [][Next]_vars

\* A boot goes on by itself, and PostgreSQL queues those that wait for a
\* lock: one that waits gets it.  Nobody has to start an instance, nothing
\* has to fail, and neither an outsider nor an orphan has to let go.
FairSpec ==
    /\ Spec
    /\ \A i \in Instance : WF_vars(BootStep(i)) /\ SF_vars(Lock(i))

----------------------------------------------------------------------------
(* Properties.                                                             *)

\* The version that alembic_version names is the schema there is, whatever
\* an upgrade died of: env.py 37-38 puts DDL and version in one transaction.
SchemaIsItsVersion == database.schema = SchemaAt(database.version)

\* No instance serves on a schema it was not written for (set -e, and the
\* upgrade before the server, docker-entrypoint.sh 2 and 9).
ServedSchemaIsHead ==
    \A i \in Instance : pc[i] = "serving" => database.version = Head

\* A retry that spans the deploy replays, and never conflicts with itself
\* (7d1e9b4c2a80, 14-19), while a key still refuses any other request.
RetriesSurviveTheDeploy ==
    answered # NoRetry =>
        /\ answered.outcome \in {"created", "replayed", "conflict"}
        /\ answered.outcome = "conflict" <=> answered.body # claimed[answered.key]

\* An upgrade that finds the work done leaves the head behind: starting the
\* container again is all it takes (docker-entrypoint.sh 4-7).
LosersFindTheHead ==
    [][\A i \in Instance : UpgradeFails(i) => database.version = Head]_vars

\* How the two relate: one transaction at a time migrates, it belongs to an
\* instance that is upgrading unless it is an orphan, and what it started
\* from is still what is committed.
UpgradesAreSerial ==
    /\ \A i \in Instance : pc[i] = "upgrading" <=> holder = i
    /\ \A i \in Instance : pc[i] \in {"pending", "upgrading"} =>
           \/ database.version = Head
           \/ pc[i] = "pending" /\ seen[i] = database.version
           \/ pc[i] = "upgrading" /\ seen[i] = draft.version
    /\ \A i \in Instance : pc[i] = "pending" => seen[i] < Head
    /\ draft.schema = SchemaAt(draft.version)
    /\ database.version <= draft.version
    /\ draft.version = database.version \/ holder \in {Nobody, Outsider} => draft = database
    /\ \A i \in Instance : pc[i] = "upgrading" =>
           /\ seen[i] = Head => seen[i] = draft.version
           /\ seen[i] < draft.version => draft = database /\ database.version = Head

\* A row is of the first request with its key, and labelled as its version
\* has it.
RowsAreClaims(db) ==
    \A k \in Key :
        IF claimed[k] = NoRow THEN db.rows[k] = NoRow
        ELSE /\ db.version > 0
             /\ db.rows[k] = [operation    |-> IF db.version = 1 THEN Unlabelled
                                              ELSE OperationOf[claimed[k]],
                              request_hash |-> claimed[k]]
             /\ db.version = 1 => OperationOf[claimed[k]] = "create_transfer"

IInv ==
    /\ TypeOK
    /\ SchemaIsItsVersion
    /\ UpgradesAreSerial
    /\ ServedSchemaIsHead
    /\ RowsAreClaims(database)
    /\ RowsAreClaims(draft)
    /\ RetriesSurviveTheDeploy

\* Every boot comes to an end, whatever its rivals do or die of: it serves, or
\* the container is gone.  With no lock_timeout (env.py 30-38), that is only as
\* long as no session of others keeps what a revision locks for ever.
EveryBootEnds ==
    []<>(holder \notin {Outsider, Orphan}) =>
        \A i \in Instance : pc[i] \in Booting ~> pc[i] \in {"serving", "exited", "down"}

\* "N instances booting at once would all race to migrate.  Alembic takes a
\* lock so that is safe" (docker-entrypoint.sh 5-7): where nothing fails, no
\* container exits.
NoBootFails == \A i \in Instance : pc[i] # "exited"

============================================================================
