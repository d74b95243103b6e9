--------------------------- MODULE MigrationsProofs ---------------------------
(***************************************************************************)
(* For any number of instances, keys and bodies, and whatever fails: the   *)
(* schema that is served is the head, and a retry that spans a deploy is   *)
(* answered as if there had been none.  The invariant is IInv.             *)
(***************************************************************************)
EXTENDS Migrations, TLAPS

USE BodyAssumption, SentinelAssumption

----------------------------------------------------------------------------
(* The revisions.                                                          *)

LEMMA Schemas ==
    /\ SchemaAt(0) = {}
    /\ SchemaAt(1) = Adds[1]
    /\ SchemaAt(2) = (Adds[1] \cup Adds[2]) \ Removes[2]
    /\ SchemaAt(3) = (Adds[1] \cup Adds[2] \cup Adds[3]) \ Removes[2]
<1> DEFINE A(m) == Adds[m]
           R(m) == Removes[m]
<1>1. R(1) = {} /\ R(3) = {}
  BY DEF Removes
<1>2. SchemaAt(0) = {}
  BY DEF SchemaAt
<1>3. /\ 1..1 = {1}
      /\ 1..2 = {1, 2}
      /\ 1..3 = {1, 2, 3}
  OBVIOUS
<1> HIDE DEF A, R
<1>4. SchemaAt(1) = (UNION {A(m) : m \in {1}}) \ (UNION {R(m) : m \in {1}})
  BY <1>3 DEF SchemaAt, A, R
<1>5. SchemaAt(2) = (UNION {A(m) : m \in {1, 2}}) \ (UNION {R(m) : m \in {1, 2}})
  BY <1>3 DEF SchemaAt, A, R
<1>6. SchemaAt(3) = (UNION {A(m) : m \in {1, 2, 3}}) \ (UNION {R(m) : m \in {1, 2, 3}})
  BY <1>3 DEF SchemaAt, A, R
<1>7. SchemaAt(1) = A(1)
  BY <1>1, <1>4
<1>8. SchemaAt(2) = (A(1) \cup A(2)) \ R(2)
  BY <1>1, <1>5
<1>9. SchemaAt(3) = (A(1) \cup A(2) \cup A(3)) \ R(2)
  BY <1>1, <1>6
<1> QED
  BY <1>2, <1>7, <1>8, <1>9 DEF A, R

\* A revision takes the schema of one version to that of the next, and the
\* application finds its columns at the head.
LEMMA Revisions ==
    /\ Expected \subseteq SchemaAt(Head)
    /\ \A n \in 1..Head :
           /\ (SchemaAt(n - 1) \ Removes[n]) \cup Adds[n] = SchemaAt(n)
           /\ Removes[n] \subseteq SchemaAt(n - 1)
           /\ Adds[n] \cap SchemaAt(n - 1) = {}
<1>1. Expected \subseteq SchemaAt(Head)
  BY Schemas DEF Expected, Head, Adds, Removes
<1>2. ASSUME NEW n \in 1..Head
      PROVE  /\ (SchemaAt(n - 1) \ Removes[n]) \cup Adds[n] = SchemaAt(n)
             /\ Removes[n] \subseteq SchemaAt(n - 1)
             /\ Adds[n] \cap SchemaAt(n - 1) = {}
  <2>1. CASE n = 1
    BY <2>1, Schemas DEF Adds, Removes
  <2>2. CASE n = 2
    BY <2>2, Schemas DEF Adds, Removes
  <2>3. CASE n = 3
    BY <2>3, Schemas DEF Adds, Removes
  <2> QED
    BY <2>1, <2>2, <2>3 DEF Head
<1> QED
  BY <1>1, <1>2

----------------------------------------------------------------------------
(* The invariant.                                                          *)

LEMMA InitInvariant == Init => IInv
<1> SUFFICES ASSUME Init PROVE IInv
  OBVIOUS
<1>1. PICK n \in 0..Head : \E rows \in [Key -> WrittenBefore(n)] :
         /\ database = [schema |-> SchemaAt(n), version |-> n, rows |-> rows]
         /\ claimed = [k \in Key |-> IF rows[k] = NoRow THEN NoRow ELSE rows[k].request_hash]
  BY DEF Init
<1>2. PICK rows \in [Key -> WrittenBefore(n)] :
         /\ database = [schema |-> SchemaAt(n), version |-> n, rows |-> rows]
         /\ claimed = [k \in Key |-> IF rows[k] = NoRow THEN NoRow ELSE rows[k].request_hash]
  BY <1>1
<1>3. \A k \in Key : rows[k] # NoRow =>
         /\ n > 0
         /\ rows[k].request_hash \in Body
         /\ rows[k] = [operation    |-> IF n = 1 THEN Unlabelled
                                        ELSE OperationOf[rows[k].request_hash],
                       request_hash |-> rows[k].request_hash]
         /\ n = 1 => OperationOf[rows[k].request_hash] = "create_transfer"
  BY DEF WrittenBefore, RowsOf, Head
<1>4. rows \in [Key -> Rows]
  BY DEF WrittenBefore, RowsOf, Rows
<1>5. database \in Databases
  BY <1>2, <1>4 DEF Databases, SchemaAt, Head
<1>6. TypeOK
  BY <1>2, <1>3, <1>5 DEF Init, TypeOK, Head
<1>7. RowsAreClaims(database)
  BY <1>2, <1>3 DEF RowsAreClaims
<1> QED
  BY <1>2, <1>6, <1>7 DEF Init, IInv, SchemaIsItsVersion, UpgradesAreSerial,
       ServedSchemaIsHead, RetriesSurviveTheDeploy, Head

\* Of a transaction that is rolled back nothing is left.
LEMMA RolledBack ==
    ASSUME IInv, Rollback, UNCHANGED <<database, seen, claimed, answered>>,
           pc' \in [Instance -> {"down", "exited", "serving"} \cup Booting],
           \A i \in Instance : /\ pc'[i] = pc[i] \/ pc'[i] \in {"exited", "down"}
                              /\ pc'[i] # "upgrading"
    PROVE  IInv'
<1>1. draft' = database' /\ holder' = Nobody
  BY DEF Rollback
<1>2. TypeOK'
  BY <1>1 DEF IInv, TypeOK
<1>3. RowsAreClaims(database)' /\ RowsAreClaims(draft)'
  BY <1>1 DEF IInv, RowsAreClaims
<1>4. SchemaIsItsVersion' /\ ServedSchemaIsHead' /\ RetriesSurviveTheDeploy'
  BY DEF IInv, SchemaIsItsVersion, ServedSchemaIsHead, RetriesSurviveTheDeploy
<1>5. UpgradesAreSerial'
  <2>1. database'.version \in 0..Head
    BY DEF IInv, TypeOK, Databases
  <2> QED
    BY <1>1, <1>4, <2>1 DEF IInv, UpgradesAreSerial, SchemaIsItsVersion, Head
<1> QED
  BY <1>2, <1>3, <1>4, <1>5 DEF IInv

\* What depends on the committed state and the rows' history alone is
\* preserved by the steps that leave both.
LEMMA StepInvariant == IInv /\ [Next]_vars => IInv'
<1> SUFFICES ASSUME IInv, [Next]_vars PROVE IInv'
  OBVIOUS
<1> USE DEF Head
<1>1. CASE UNCHANGED vars
  BY <1>1 DEF vars, IInv, TypeOK, SchemaIsItsVersion, UpgradesAreSerial,
       ServedSchemaIsHead, RowsAreClaims, RetriesSurviveTheDeploy
<1>2. ASSUME NEW i \in Instance, Boot(i) PROVE IInv'
  BY <1>2 DEF Boot, IInv, TypeOK, SchemaIsItsVersion, UpgradesAreSerial, Booting,
       ServedSchemaIsHead, RowsAreClaims, RetriesSurviveTheDeploy
<1>3. ASSUME NEW i \in Instance, ReadVersion(i) PROVE IInv'
  BY <1>3 DEF ReadVersion, IInv, TypeOK, Databases, SchemaIsItsVersion, UpgradesAreSerial,
       Booting, ServedSchemaIsHead, RowsAreClaims, RetriesSurviveTheDeploy
<1>4. ASSUME NEW i \in Instance, Lock(i) PROVE IInv'
  BY <1>4 DEF Lock, IInv, TypeOK, Databases, SchemaIsItsVersion, UpgradesAreSerial,
       Booting, ServedSchemaIsHead, RowsAreClaims, RetriesSurviveTheDeploy
<1>5. ASSUME NEW i \in Instance, Upgrade(i) PROVE IInv'
  <2> DEFINE n == seen[i] + 1
  <2>1. /\ n \in 1..Head
        /\ draft.version = n - 1
        /\ draft' = Upgraded(n, draft)
    BY <1>5 DEF Upgrade, Applies, IInv, TypeOK
  <2>2. /\ pc[i] = "upgrading"
        /\ holder = i
        /\ \A j \in Instance : pc[j] = "upgrading" => j = i
        /\ UNCHANGED <<database, holder, pc, claimed, answered>>
    BY <1>5 DEF Upgrade, IInv, UpgradesAreSerial
  <2>3. draft \in Databases /\ draft.schema = SchemaAt(n - 1)
    BY <2>1, <2>2 DEF IInv, TypeOK, UpgradesAreSerial
  <2>4. draft'.schema = SchemaAt(n) /\ draft'.version = n
    BY <2>1, <2>3, Revisions DEF Upgraded
  <2>5. draft'.rows \in [Key -> Rows]
    BY <2>1, <2>3 DEF Upgraded, Labelled, Rows, Databases, Operations
  <2>6. draft' \in Databases
    <3>1. SchemaAt(n) \subseteq UNION {Adds[m] : m \in 1..Head}
      BY <2>1 DEF SchemaAt
    <3> QED
      BY <2>1, <2>4, <2>5, <3>1 DEF Upgraded, Databases
  <2>7. RowsAreClaims(draft)'
    <3>1. RowsAreClaims(draft) /\ claimed' = claimed
      BY <2>2 DEF IInv
    <3>2. draft'.rows =
             IF n = 2 THEN [k \in Key |-> Labelled(draft.rows[k])] ELSE draft.rows
      BY <2>1 DEF Upgraded
    <3> SUFFICES ASSUME NEW k \in Key
                 PROVE  IF claimed[k] = NoRow THEN draft'.rows[k] = NoRow
                        ELSE /\ n > 0
                             /\ draft'.rows[k] =
                                  [operation    |-> IF n = 1 THEN Unlabelled
                                                    ELSE OperationOf[claimed[k]],
                                   request_hash |-> claimed[k]]
                             /\ n = 1 => OperationOf[claimed[k]] = "create_transfer"
      BY <2>4, <3>1 DEF RowsAreClaims
    <3>3. CASE claimed[k] = NoRow
      BY <3>1, <3>2, <3>3 DEF RowsAreClaims, Labelled
    <3>4. CASE claimed[k] # NoRow
      <4>1. claimed[k] \in Body
        BY <3>4 DEF IInv, TypeOK
      <4>2. /\ n - 1 > 0
            /\ draft.rows[k] = [operation    |-> IF n - 1 = 1 THEN Unlabelled
                                                ELSE OperationOf[claimed[k]],
                                request_hash |-> claimed[k]]
            /\ n - 1 = 1 => OperationOf[claimed[k]] = "create_transfer"
        BY <2>1, <3>1, <3>4 DEF RowsAreClaims
      <4>3. draft.rows[k] # NoRow
        BY <4>1, <4>2
      <4> QED
        BY <2>1, <3>2, <3>4, <4>2, <4>3 DEF Labelled
    <3> QED
      BY <3>3, <3>4
  <2>8. seen' = [seen EXCEPT ![i] = n]
    BY <1>5 DEF Upgrade
  <2>9. TypeOK'
    BY <2>1, <2>2, <2>6, <2>8 DEF IInv, TypeOK
  <2>10. UpgradesAreSerial'
    BY <2>1, <2>2, <2>3, <2>4, <2>8 DEF IInv, TypeOK, Databases, UpgradesAreSerial
  <2> QED
    BY <2>2, <2>7, <2>9, <2>10 DEF IInv, SchemaIsItsVersion, ServedSchemaIsHead,
         RowsAreClaims, RetriesSurviveTheDeploy
<1>6. ASSUME NEW i \in Instance, UpgradeFails(i) \/ Disconnect(i) \/ Crash(i) PROVE IInv'
  <2>1. /\ Release(i)
        /\ UNCHANGED <<database, seen, claimed, answered>>
        /\ \E gone \in {"exited", "down"} : pc' = [pc EXCEPT ![i] = gone]
    BY <1>6 DEF UpgradeFails, Disconnect, Crash
  <2>2. CASE holder = i
    <3>1. \A j \in Instance : pc[j] = "upgrading" => j = i
      BY <2>2 DEF IInv, UpgradesAreSerial
    <3> QED
      BY <2>1, <2>2, <3>1, RolledBack DEF Release, IInv, TypeOK
  <2>3. CASE holder # i
    BY <2>1, <2>3 DEF Release, IInv, TypeOK, SchemaIsItsVersion, UpgradesAreSerial,
         Booting, ServedSchemaIsHead, RowsAreClaims, RetriesSurviveTheDeploy
  <2> QED
    BY <2>2, <2>3
<1>7. ASSUME NEW i \in Instance, Commit(i) PROVE IInv'
  BY <1>7 DEF Commit, IInv, TypeOK, Databases, SchemaIsItsVersion, UpgradesAreSerial,
       Booting, ServedSchemaIsHead, RowsAreClaims, RetriesSurviveTheDeploy
<1>8. ASSUME NEW i \in Instance, Sever(i) PROVE IInv'
  BY <1>8 DEF Sever, IInv, TypeOK, SchemaIsItsVersion, UpgradesAreSerial, Booting,
       ServedSchemaIsHead, RowsAreClaims, RetriesSurviveTheDeploy
<1>9. ASSUME NEW i \in Instance, NEW k \in Key, NEW body \in Body, Serve(i, k, body)
      PROVE  IInv'
  <2> DEFINE outcome == Outcome(database.rows[k], body)
             row == [operation |-> OperationOf[body], request_hash |-> body]
  <2>1. /\ database \in Databases
        /\ database.version = Head
        /\ Expected \subseteq database.schema
        /\ holder \in {Nobody, Outsider}
    BY <1>9, Revisions DEF Serve, IInv, TypeOK, ServedSchemaIsHead, SchemaIsItsVersion
  <2>2. \A j \in Instance : pc[j] # "upgrading"
    BY <2>1 DEF IInv, UpgradesAreSerial
  <2>3. /\ outcome \in {"created", "replayed", "conflict"}
        /\ outcome = "created" <=> claimed[k] = NoRow
        /\ outcome = "conflict" <=> claimed[k] # NoRow /\ claimed[k] # body
    <3>1. CASE claimed[k] = NoRow
      BY <2>1, <3>1 DEF Outcome, IInv, RowsAreClaims
    <3>2. CASE claimed[k] # NoRow
      <4>1. claimed[k] \in Body
        BY <3>2 DEF IInv, TypeOK
      <4>2. database.rows[k] =
               [operation |-> OperationOf[claimed[k]], request_hash |-> claimed[k]]
        BY <2>1, <3>2 DEF IInv, RowsAreClaims
      <4>3. database.rows[k] # NoRow
        BY <4>1, <4>2
      <4>4. /\ database.rows[k].operation = OperationOf[claimed[k]]
            /\ database.rows[k].request_hash = claimed[k]
        BY <4>2
      <4> QED
        BY <2>1, <3>2, <4>3, <4>4 DEF Outcome
    <3> QED
      BY <3>1, <3>2
  <2>4. /\ answered' = Answered(k, body, outcome)
        /\ draft = database /\ draft' = database'
        /\ UNCHANGED <<holder, pc, seen>>
    BY <1>9, <2>1 DEF Serve, IInv, UpgradesAreSerial
  <2>5. CASE outcome = "created"
    <3>1. /\ database' = [database EXCEPT !.rows[k] = row]
          /\ claimed' = [claimed EXCEPT ![k] = body]
      BY <1>9, <2>5 DEF Serve
    <3>2. database' \in Databases /\ database'.version = Head
          /\ database'.schema = database.schema
          /\ database'.rows = [database.rows EXCEPT ![k] = row]
      BY <2>1, <3>1 DEF Databases, Rows, Operations
    <3>3. TypeOK'
      BY <2>3, <2>4, <3>1, <3>2 DEF IInv, TypeOK, Answered, Outcomes
    <3>4. RowsAreClaims(database)'
      BY <2>1, <3>1, <3>2 DEF IInv, TypeOK, Databases, RowsAreClaims
    <3>5. UpgradesAreSerial'
      BY <2>1, <2>2, <2>4, <3>2 DEF IInv, UpgradesAreSerial
    <3>6. RetriesSurviveTheDeploy'
      BY <2>4, <2>5, <3>1 DEF IInv, TypeOK, RetriesSurviveTheDeploy, Answered
    <3> QED
      BY <2>1, <2>2, <2>4, <3>2, <3>3, <3>4, <3>5, <3>6
         DEF IInv, SchemaIsItsVersion, ServedSchemaIsHead
  <2>6. CASE outcome # "created"
    <3>1. UNCHANGED <<database, claimed>>
      BY <1>9, <2>6 DEF Serve
    <3>2. TypeOK'
      BY <2>3, <2>4, <3>1 DEF IInv, TypeOK, Answered, Outcomes
    <3>3. RetriesSurviveTheDeploy'
      BY <2>3, <2>4, <2>6, <3>1 DEF RetriesSurviveTheDeploy, Answered
    <3> QED
      BY <2>4, <3>1, <3>2, <3>3 DEF IInv, SchemaIsItsVersion, UpgradesAreSerial,
           ServedSchemaIsHead, RowsAreClaims
  <2> QED
    BY <2>5, <2>6
<1>10. ASSUME Elsewhere PROVE IInv'
  <2>1. CASE LateCommit
    BY <2>1 DEF LateCommit, IInv, TypeOK, SchemaIsItsVersion, UpgradesAreSerial,
         ServedSchemaIsHead, RowsAreClaims, RetriesSurviveTheDeploy
  <2>2. CASE OrphanEnds
    BY <2>2, RolledBack DEF OrphanEnds, IInv, TypeOK, UpgradesAreSerial
  <2>3. CASE OutsiderLocks \/ OutsiderUnlocks
    BY <2>3 DEF OutsiderLocks, OutsiderUnlocks, IInv, TypeOK, SchemaIsItsVersion,
         UpgradesAreSerial, ServedSchemaIsHead, RowsAreClaims, RetriesSurviveTheDeploy
  <2> QED
    BY <1>10, <2>1, <2>2, <2>3 DEF Elsewhere
<1> QED
  BY <1>1, <1>2, <1>3, <1>4, <1>5, <1>6, <1>7, <1>8, <1>9, <1>10 DEF Next, BootStep

\* In every reachable state: the schema is what alembic_version says, one
\* upgrade at a time changes it, nothing is served before the head, and a row
\* of a key holds what it was claimed with, before the deploy and after.
THEOREM Invariance == Spec => []IInv
<1> QED
  BY InitInvariant, StepInvariant, PTL DEF Spec

----------------------------------------------------------------------------
(* What it is for.                                                         *)

\* Whatever an upgrade dies of, alembic_version tells the truth about the
\* schema (env.py 37-38).
THEOREM VersionsAreTrue == Spec => []SchemaIsItsVersion
<1>1. IInv => SchemaIsItsVersion
  BY DEF IInv
<1> QED
  BY Invariance, <1>1, PTL

\* However many instances boot, and whatever they die of, each of them
\* serves the schema it was written for (docker-entrypoint.sh 2 and 9).
THEOREM InstancesServeTheHead == Spec => []ServedSchemaIsHead
<1>1. IInv => ServedSchemaIsHead
  BY DEF IInv
<1> QED
  BY Invariance, <1>1, PTL

\* A request of the previous release that is retried after the deploy is
\* replayed, never refused (7d1e9b4c2a80, 14-19).
THEOREM DeploysAreNotNoticed == Spec => []RetriesSurviveTheDeploy
<1>1. IInv => RetriesSurviveTheDeploy
  BY DEF IInv
<1> QED
  BY Invariance, <1>1, PTL

\* An instance whose upgrade fails because another one migrated leaves a
\* schema at the head: it comes up when it is started again
\* (docker-entrypoint.sh 4-7).
THEOREM LosersComeUpNext == Spec => LosersFindTheHead
<1>1. IInv => \A i \in Instance : UpgradeFails(i) => database.version = Head
  <2> SUFFICES ASSUME IInv, NEW i \in Instance, UpgradeFails(i)
               PROVE  database.version = Head
    OBVIOUS
  <2>1. /\ pc[i] = "upgrading"
        /\ seen[i] + 1 \in 1..Head
        /\ ~Applies(seen[i] + 1, draft)
    BY DEF UpgradeFails, IInv, TypeOK, Head
  <2>2. CASE seen[i] = draft.version
    <3>1. draft.schema = SchemaAt(seen[i] + 1 - 1)
      BY <2>1, <2>2 DEF IInv, TypeOK, UpgradesAreSerial
    <3> QED
      BY <2>1, <2>2, <3>1, Revisions DEF Applies, IInv, TypeOK
  <2>3. CASE seen[i] # draft.version
    BY <2>1, <2>3 DEF IInv, UpgradesAreSerial
  <2> QED
    BY <2>2, <2>3
<1> QED
  BY Invariance, <1>1, PTL DEF LosersFindTheHead

============================================================================
