-------------------------------- MODULE Pools --------------------------------
(***************************************************************************)
(* What a request of any endpoint holds inside one instance: a worker      *)
(* thread of the limiter that lifespan sizes (main.py), and a connection   *)
(* of the engine's pool (db.py).  The database work of a request is one    *)
(* step here; that it ends, locks or no locks, is EveryCallEnds of         *)
(* LedgerSafety.                                                           *)
(*                                                                         *)
(* One transaction stands for all that a request runs, one after another,  *)
(* each with a checkout of its own.                                        *)
(*                                                                         *)
(* The two are taken one after the other and given back in another order.  *)
(* Every endpoint is sync, so it runs in a worker thread and lets go of it *)
(* when it returns.  Its session takes a connection with its first         *)
(* statement and gives it back with its transaction: execute_once ends its *)
(* transactions itself, but a read endpoint, and a replay that lost the    *)
(* race for its key, leave theirs to get_db, which closes the session when *)
(* the request is over.  In between, FastAPI renders a response that has a *)
(* response_model in a worker thread again.                                *)
(*                                                                         *)
(* Definitions marked "Wrong:" are no part of the specification: see       *)
(* LedgerService.                                                          *)
(***************************************************************************)
EXTENDS Naturals, FiniteSets

CONSTANTS
    Request,        \* the requests one instance receives
    Kind,           \* what each of them calls
    PoolSize,       \* db_pool_size
    MaxOverflow,    \* db_max_overflow
    DefaultTokens   \* the threads AnyIO has when nobody sizes its limiter

\* "write": a mutating endpoint whose execute_once ends its transactions;
\* "raced": one that answers with the row of the winner of its key;
\* "read": balance or transactions; "ready" and "live": the probes.
Kinds == {"write", "raced", "read", "ready", "live"}

ASSUME RequestAssumption == IsFiniteSet(Request) /\ Kind \in [Request -> Kinds]

ASSUME SizesAssumption ==
    PoolSize \in Nat \ {0} /\ MaxOverflow \in Nat /\ DefaultTokens \in Nat

VARIABLES
    pc,             \* where a request is
    threads,        \* the requests that have a worker thread
    connections,    \* the requests whose session has a connection
    database        \* "up", "stalled": connected and silent, or "back"

vars == <<pc, threads, connections, database>>

TypeOK ==
    /\ pc \in [Request -> {"new", "waiting", "running", "checkout", "querying",
                           "unrendered", "rendering", "closing", "done"}]
    /\ threads \subseteq Request
    /\ connections \subseteq Request
    /\ database \in {"up", "stalled", "back"}

Init ==
    /\ pc = [q \in Request |-> "new"]
    /\ threads = {}
    /\ connections = {}
    /\ database = "up"

\* Wrong: the limiter keeps the size AnyIO gives it.
TokensUnsized == DefaultTokens

\* limiter.total_tokens
Tokens == PoolSize + MaxOverflow

Connections == PoolSize + MaxOverflow

ThreadIsFree == Cardinality(threads) < Tokens

ConnectionIsFree == Cardinality(connections) < Connections

Go(q, next) == pc' = [pc EXCEPT ![q] = next]

----------------------------------------------------------------------------

Arrive(q) ==
    /\ pc[q] = "new"
    /\ Go(q, "waiting")
    /\ UNCHANGED <<threads, connections, database>>

\* Starlette runs the endpoint in a worker thread.  All but the liveness
\* probe begin with a statement, so with a connection.
GetThread(q) ==
    /\ pc[q] = "waiting"
    /\ ThreadIsFree
    /\ threads' = threads \cup {q}
    /\ Go(q, IF Kind[q] = "live" THEN "running" ELSE "checkout")
    /\ UNCHANGED <<connections, database>>

\* health: nothing to wait for.
AnswerLive(q) ==
    /\ pc[q] = "running"
    /\ threads' = threads \ {q}
    /\ Go(q, "done")
    /\ UNCHANGED <<connections, database>>

Checkout(q) ==
    /\ pc[q] = "checkout"
    /\ ConnectionIsFree
    /\ connections' = connections \cup {q}
    /\ Go(q, "querying")
    /\ UNCHANGED <<threads, database>>

\* Wrong: a checkout waits for as long as it takes.
CheckoutForEver(q) == FALSE

\* pool_timeout has passed without a connection: a 500 of the catch-all
\* handler, or a 503 of the readiness probe.
CheckoutTimeout(q) ==
    /\ pc[q] = "checkout"
    /\ ~ConnectionIsFree
    /\ threads' = threads \ {q}
    /\ Go(q, "done")
    /\ UNCHANGED <<connections, database>>

\* The handler returns while its session still has a transaction.
LeftToGetDb(q) == Kind[q] \in {"read", "raced"}

\* The last statement has been answered, well or with an error (a 404 of
\* get_account, a lost connection), and the handler returns its thread.
Return(q) ==
    /\ pc[q] = "querying"
    /\ database # "stalled"
    /\ threads' = threads \ {q}
    /\ IF LeftToGetDb(q)
       THEN /\ \/ Kind[q] = "read" /\ Go(q, "unrendered")
               \/ Go(q, "closing")
            /\ UNCHANGED connections
       ELSE /\ Go(q, "done")
            /\ connections' = connections \ {q}
    /\ UNCHANGED database

\* serialize_response of a sync endpoint with a response_model.
GetThreadToRender(q) ==
    /\ pc[q] = "unrendered"
    /\ ThreadIsFree
    /\ threads' = threads \cup {q}
    /\ Go(q, "rendering")
    /\ UNCHANGED <<connections, database>>

Render(q) ==
    /\ pc[q] = "rendering"
    /\ threads' = threads \ {q}
    /\ Go(q, "closing")
    /\ UNCHANGED <<connections, database>>

\* Wrong: get_db does not close its session.
SessionLeaked(q) ==
    /\ pc[q] = "closing"
    /\ Go(q, "done")
    /\ UNCHANGED <<threads, connections, database>>

\* get_db ends: the transaction is rolled back and the connection is back in
\* the pool.  FastAPI leaves a dependency in a thread outside the limiter.
Close(q) ==
    /\ pc[q] = "closing"
    /\ database # "stalled"
    /\ connections' = connections \ {q}
    /\ Go(q, "done")
    /\ UNCHANGED <<threads, database>>

\* The database stops answering, once, and nothing bounds a statement that
\* waits for an answer: lock_timeout bounds waits for locks only.
Stall ==
    /\ database = "up"
    /\ database' = "stalled"
    /\ UNCHANGED <<pc, threads, connections>>

Recover ==
    /\ database = "stalled"
    /\ database' = "back"
    /\ UNCHANGED <<pc, threads, connections>>

\* What the instance does with a request that has arrived.
Serve(q) ==
    \/ GetThread(q)
    \/ AnswerLive(q)
    \/ Checkout(q)
    \/ CheckoutTimeout(q)
    \/ Return(q)
    \/ GetThreadToRender(q)
    \/ Render(q)
    \/ Close(q)

Next ==
    \/ \E q \in Request : Arrive(q) \/ Serve(q)
    \/ Stall
    \/ Recover

Spec == Init /\ [][Next]_vars

----------------------------------------------------------------------------
(* Properties.                                                             *)

\* A thread is held by code that runs or waits for the database, and a
\* connection only outlives its thread in an endpoint that leaves its
\* transaction to get_db; whoever is done holds nothing (db.py 38-47).
HoldersAreAtWork ==
    \A q \in Request :
        /\ q \in threads <=> pc[q] \in {"running", "checkout", "querying", "rendering"}
        /\ q \in connections <=> pc[q] \in {"querying", "unrendered", "rendering", "closing"}
        /\ q \in connections \ threads => Kind[q] \in {"read", "raced"}

\* What the sizing of the limiter achieves (main.py 81-96): a thread waits
\* for a connection only while one is with a request that has no thread, so
\* mutating calls and probes alone never exhaust the pool.
OnlyLeftoversExhaustThePool ==
    \A q \in Request : pc[q] = "checkout" /\ ~ConnectionIsFree => connections \ threads # {}

\* What it is said to achieve: "threads <= pool_size + max_overflow" so that
\* threads do not "queue on connection checkout rather than on the row they
\* actually contend for" (main.py 81-96): a thread that wants a connection
\* finds one.
ThreadsFindConnections ==
    \A q \in Request : pc[q] = "checkout" => ConnectionIsFree

\* A thread that is free is given to the request that has waited longest
\* (AnyIO's limiter is a queue: strong fairness), a checkout ends with a
\* connection or with pool_timeout, and code that runs goes on running.
Fairness ==
    \A q \in Request :
        /\ SF_vars(GetThread(q) \/ GetThreadToRender(q))
        /\ WF_vars(\/ AnswerLive(q) \/ Checkout(q) \/ CheckoutTimeout(q)
                   \/ Return(q) \/ Render(q) \/ Close(q))

\* The database may be silent for ever.
FairSpec == Spec /\ Fairness

\* The database is heard of again.
RecoveringSpec == FairSpec /\ WF_vars(Recover)

\* Every request is answered once the database is back, although those
\* that hold all threads may wait for connections whose holders wait for
\* threads: pool_timeout is what ends that (main.py 86-90).
EveryRequestIsAnswered ==
    \A q \in Request : pc[q] = "waiting" ~> pc[q] = "done"

\* "Deliberately does not touch the database.  If Postgres blips and
\* liveness depends on it, every instance fails its probe at once" (main.py
\* 196-203): the liveness probe is answered whatever the database does.
LivenessWithoutDatabase ==
    \A q \in Request : Kind[q] = "live" => (pc[q] = "waiting" ~> pc[q] = "done")

============================================================================
