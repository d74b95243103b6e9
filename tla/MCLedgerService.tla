-------------------------- MODULE MCLedgerService --------------------------
(***************************************************************************)
(* Small instances of LedgerService for TLC.                               *)
(***************************************************************************)
EXTENDS LedgerInvariant, TLC

CONSTANTS r1, r2, r3, k1, k2, k3, blank, overlong

MCScale == {0, 2}

OnKey(k) == [text |-> k, padded |-> FALSE]
OnPaddedKey(k) == [text |-> k, padded |-> TRUE]

CallTransfer(header, from, to, amount, scale) ==
    [operation |-> "create_transfer", header |-> header,
     req |-> [from_account_id |-> from, to_account_id |-> to,
              amount |-> amount, scale |-> scale]]

CallOpen(header, initial, scale) ==
    [operation |-> "create_account", header |-> header,
     req |-> [initial_balance |-> initial, scale |-> scale]]

AttemptSymmetry == Permutations(Attempt)

----------------------------------------------------------------------------
(* A hot key: a transfer sent again in another encoding, the same key      *)
(* recycled for other amounts and for the other endpoint, and calls that   *)
(* do not get past the boundary.  Under a second key an account is opened, *)
(* and credited before and after it exists and past what it can hold.      *)

HotKeyAttempts == {r1, r2, r3}
HotKeyKeys == {k1, k2}
HotKeyAccounts == 1..3
HotKeyOpened == {1, 2}
HotKeyBalance == [a \in HotKeyAccounts |-> IF a \in HotKeyOpened THEN 2 ELSE 0]
HotKeyCalls ==
    {CallTransfer(OnKey(k1), 1, 2, 1, 0),
     CallTransfer(OnPaddedKey(k1), 1, 2, 1, 2),
     CallTransfer(OnKey(k1), 1, 2, 2, 0),
     CallTransfer(OnKey(k1), 1, 3, 3, 0),
     CallOpen(OnKey(k1), 1, 0),
     CallOpen(OnKey(k2), 2, 2),
     CallTransfer(OnKey(k2), 2, 3, 1, 0),
     CallTransfer(OnKey(blank), 1, 2, 1, 0),
     CallTransfer(OnKey(overlong), 1, 2, 1, 0),
     CallTransfer(OnKey(k1), 2, 2, 1, 0)}

----------------------------------------------------------------------------
(* Contention: transfers under keys of their own that chase each other     *)
(* round three accounts, two of which together overdraw account 1.         *)

ContentionAttempts == {r1, r2, r3}
ContentionKeys == {k1, k2, k3}
ContentionAccounts == 1..3
ContentionBalance == [a \in ContentionAccounts |-> IF a = 1 THEN 2 ELSE 1]
ContentionCalls ==
    {CallTransfer(OnKey(k1), 1, 2, 2, 0),
     CallTransfer(OnKey(k2), 3, 1, 1, 0),
     CallTransfer(OnKey(k3), 2, 3, 1, 0),
     CallTransfer(OnKey(k3), 1, 3, 1, 0),
     CallTransfer(OnKey(k2), 2, 1, 1, 0)}

----------------------------------------------------------------------------
(* Waiting: opposing transfers, one of them sent twice.                    *)

WaitingAttempts == {r1, r2, r3}
WaitingKeys == {k1, k2}
WaitingAccounts == 1..2
WaitingBalance == [a \in WaitingAccounts |-> 1]
WaitingCalls ==
    {CallTransfer(OnKey(k1), 1, 2, 1, 0),
     CallTransfer(OnKey(k2), 2, 1, 1, 0)}

============================================================================
