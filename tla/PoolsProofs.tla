----------------------------- MODULE PoolsProofs -----------------------------
(***************************************************************************)
(* Proofs about Pools, for any number of requests and any pool.            *)
(***************************************************************************)
EXTENDS Pools, FiniteSetTheorems, TLAPS

\* Only what is left to get_db gets to the stages after the handler.
KeptByReads ==
    \A q \in Request :
        pc[q] \in {"unrendered", "rendering", "closing"} => Kind[q] \in {"read", "raced"}

Inv ==
    /\ TypeOK
    /\ HoldersAreAtWork
    /\ KeptByReads
    /\ Cardinality(threads) <= Tokens

\* Taking a thread that is free keeps their number within the limiter.
LEMMA TakeThread ==
    ASSUME TypeOK, ThreadIsFree, NEW q \in Request, threads' = threads \cup {q}
    PROVE  Cardinality(threads') <= Tokens
<1>1. IsFiniteSet(threads)
    BY RequestAssumption, FS_Subset DEF TypeOK
<1>2. Cardinality(threads) \in Nat /\ Tokens \in Nat
    BY <1>1, FS_CardinalityType, SizesAssumption DEF Tokens
<1>3. Cardinality(threads') =
          IF q \in threads THEN Cardinality(threads) ELSE Cardinality(threads) + 1
    BY <1>1, FS_AddElement
<1> QED
    BY <1>2, <1>3 DEF ThreadIsFree

\* Giving a thread back does as well.
LEMMA GiveThread ==
    ASSUME Inv, NEW q \in Request, threads' = threads \ {q}
    PROVE  Cardinality(threads') <= Tokens
<1>1. IsFiniteSet(threads) /\ threads' \subseteq threads
    BY RequestAssumption, FS_Subset DEF Inv, TypeOK
<1>2. Cardinality(threads') <= Cardinality(threads)
    BY <1>1, FS_Subset
<1>3. Cardinality(threads) \in Nat /\ Cardinality(threads') \in Nat /\ Tokens \in Nat
    BY <1>1, FS_Subset, FS_CardinalityType, SizesAssumption DEF Tokens
<1> QED
    BY <1>2, <1>3 DEF Inv

\* The invariant is inductive.
LEMMA PoolsInvariance == Spec => []Inv
<1>1. Init => Inv
  <2>1. Init => Cardinality(threads) <= Tokens
      BY FS_EmptySet, SizesAssumption DEF Init, Tokens
  <2> QED
      BY <2>1 DEF Init, Inv, TypeOK, HoldersAreAtWork, KeptByReads
<1>2. ASSUME Inv, [Next]_vars
      PROVE  Inv'
  <2>1. CASE UNCHANGED vars
      BY <2>1, <1>2 DEF Inv, TypeOK, HoldersAreAtWork, KeptByReads, vars, Tokens
  <2>2. ASSUME NEW q \in Request, GetThread(q) \/ GetThreadToRender(q)
        PROVE  Inv'
    <3>1. Cardinality(threads') <= Tokens
        BY <2>2, <1>2, TakeThread DEF Inv, GetThread, GetThreadToRender
    <3>2. TypeOK'
        BY <2>2, <1>2 DEF Inv, TypeOK, GetThread, GetThreadToRender, Go
    <3>3. HoldersAreAtWork' /\ KeptByReads'
        BY <2>2, <1>2 DEF Inv, TypeOK, HoldersAreAtWork, KeptByReads, GetThread, GetThreadToRender, Go
    <3> QED
        BY <3>1, <3>2, <3>3 DEF Inv
  <2>3. ASSUME NEW q \in Request, AnswerLive(q) \/ CheckoutTimeout(q) \/ Render(q)
        PROVE  Inv'
    <3>1. Cardinality(threads') <= Tokens
        BY <2>3, <1>2, GiveThread DEF AnswerLive, CheckoutTimeout, Render
    <3>2. TypeOK'
        BY <2>3, <1>2 DEF Inv, TypeOK, AnswerLive, CheckoutTimeout, Render, Go
    <3>3. CASE AnswerLive(q)
        BY <3>1, <3>2, <3>3, <1>2 DEF Inv, TypeOK, HoldersAreAtWork, KeptByReads, AnswerLive, Go
    <3>4. CASE CheckoutTimeout(q)
        BY <3>1, <3>2, <3>4, <1>2 DEF Inv, TypeOK, HoldersAreAtWork, KeptByReads, CheckoutTimeout, Go
    <3>5. CASE Render(q)
        BY <3>1, <3>2, <3>5, <1>2 DEF Inv, TypeOK, HoldersAreAtWork, KeptByReads, Render, Go
    <3> QED
        BY <3>3, <3>4, <3>5, <2>3
  <2>4. ASSUME NEW q \in Request, Return(q)
        PROVE  Inv'
    <3>1. Cardinality(threads') <= Tokens
        BY <2>4, <1>2, GiveThread DEF Return
    <3>2. TypeOK'
        BY <2>4, <1>2 DEF Inv, TypeOK, Return, Go
    <3>3. CASE LeftToGetDb(q)
        BY <3>3, <2>4, <1>2, <3>1, <3>2
        DEF Inv, TypeOK, HoldersAreAtWork, KeptByReads, Return, Go, LeftToGetDb
    <3>4. CASE ~LeftToGetDb(q)
        BY <3>4, <2>4, <1>2, <3>1, <3>2
        DEF Inv, TypeOK, HoldersAreAtWork, KeptByReads, Return, Go
    <3> QED
        BY <3>3, <3>4
  <2>5. ASSUME NEW q \in Request, Arrive(q) \/ Checkout(q) \/ Close(q)
        PROVE  Inv'
    <3>1. TypeOK' /\ threads' = threads
        BY <2>5, <1>2 DEF Inv, TypeOK, Arrive, Checkout, Close, Go
    <3>2. HoldersAreAtWork' /\ KeptByReads'
        BY <2>5, <1>2 DEF Inv, TypeOK, HoldersAreAtWork, KeptByReads, Arrive, Checkout, Close, Go
    <3> QED
        BY <3>1, <3>2, <1>2 DEF Inv, Tokens
  <2>6. CASE Stall \/ Recover
      BY <2>6, <1>2 DEF Inv, TypeOK, HoldersAreAtWork, KeptByReads, Stall, Recover, Tokens
  <2> QED
      BY <2>1, <2>2, <2>3, <2>4, <2>5, <2>6, <1>2 DEF Next, Serve
<1> QED
    BY <1>1, <1>2, PTL DEF Spec

\* Sizing the limiter to the pool is enough, but for what is left to get_db:
\* if every connection is with a request that has a thread, a thread that
\* wants a connection finds one.
THEOREM SizingSuffices == Spec => []OnlyLeftoversExhaustThePool
<1>1. ASSUME Inv
      PROVE  OnlyLeftoversExhaustThePool
  <2> SUFFICES ASSUME NEW q \in Request, pc[q] = "checkout", connections \ threads = {}
               PROVE  ConnectionIsFree
      BY DEF OnlyLeftoversExhaustThePool
  <2>1. connections \subseteq threads /\ q \in threads \ connections
      BY <1>1 DEF Inv, TypeOK, HoldersAreAtWork
  <2>2. IsFiniteSet(threads)
      BY <1>1, RequestAssumption, FS_Subset DEF Inv, TypeOK
  <2>3. /\ Cardinality(connections) \in Nat /\ Cardinality(threads) \in Nat
        /\ Tokens \in Nat /\ Connections = Tokens
      BY <2>1, <2>2, FS_Subset, FS_CardinalityType, SizesAssumption DEF Tokens, Connections
  <2>4. Cardinality(connections) < Cardinality(threads)
    <3>1. Cardinality(connections) <= Cardinality(threads)
        BY <2>1, <2>2, FS_Subset
    <3>2. Cardinality(connections) # Cardinality(threads)
      <4>1. connections # threads
          BY <2>1
      <4> QED
          BY <4>1, <2>1, <2>2, FS_Subset
    <3> QED
        BY <3>1, <3>2, <2>3
  <2> QED
      BY <2>3, <2>4, <1>1 DEF Inv, ConnectionIsFree
<1> QED
    BY <1>1, PoolsInvariance, PTL

\* Whatever a request calls, what it holds it is using or get_db still has,
\* and it is done with nothing in its hands.
THEOREM NothingIsLeaked == Spec => []HoldersAreAtWork
<1>1. Inv => HoldersAreAtWork
    BY DEF Inv
<1> QED
    BY <1>1, PoolsInvariance, PTL

============================================================================
