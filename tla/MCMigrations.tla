----------------------------- MODULE MCMigrations -----------------------------
(***************************************************************************)
(* Small instances of Migrations for TLC: two or three containers, and a   *)
(* key with two transfers and the opening of an account to use it for.     *)
(***************************************************************************)
EXTENDS Migrations, TLC

CONSTANTS i1, i2, i3, k1, t1, t2, a1

TwoInstances == {i1, i2}
ThreeInstances == {i1, i2, i3}
OneKey == {k1}
TwoTransfersAndOpening == {t1, t2, a1}
MCOperationOf ==
    [b \in TwoTransfersAndOpening |-> IF b = a1 THEN "create_account" ELSE "create_transfer"]

============================================================================
