------------------------------ MODULE MCHistory ------------------------------
(***************************************************************************)
(* Small instances of History for TLC: one account is paid twice, an       *)
(* account is opened, and the histories are read.                          *)
(***************************************************************************)
EXTENDS History, TLC

CONSTANTS k1, k2, k3, blank, overlong

MCScale == {0}
TwoAttempts == {11, 12}
MCKeys == {k1, k2, k3}
ThreeAccounts == 1..3
MCOpened == {1, 2}
MCBalance == [a \in ThreeAccounts |-> IF a \in MCOpened THEN 2 ELSE 0]
TwoQueries == 1..2

On(k) == [text |-> k, padded |-> FALSE]

CallTransfer(k, from, to, amount) ==
    [operation |-> "create_transfer", header |-> On(k),
     req |-> [from_account_id |-> from, to_account_id |-> to, amount |-> amount, scale |-> 0]]

CallOpen(k, initial) ==
    [operation |-> "create_account", header |-> On(k),
     req |-> [initial_balance |-> initial, scale |-> 0]]

TransfersAndOpening ==
    {CallTransfer(k1, 1, 2, 1), CallTransfer(k2, 2, 1, 2), CallOpen(k3, 1)}

============================================================================
