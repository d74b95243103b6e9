---------------------------- MODULE LedgerMoney ----------------------------
(***************************************************************************)
(* The money of LedgerService: nothing is created or lost, every cached    *)
(* balance is what the entries say, and the constraints of the schema have *)
(* nothing to refuse.                                                      *)
(*                                                                         *)
(* The sum over a set of entries is a fold of FiniteSetsExt; the first     *)
(* part shows what is needed of it, by induction on the size of the set.   *)
(***************************************************************************)
EXTENDS LedgerStories

----------------------------------------------------------------------------
(* Sums over sets of entries.                                              *)

\* Induction, with the set of the numbers that have the property.
LEMMA EveryNumber ==
    ASSUME NEW S, 0 \in S, \A n \in Nat : n \in S => n + 1 \in S
    PROVE  Nat \subseteq S
<1> DEFINE Missing == Nat \ S
<1> SUFFICES ASSUME Missing # {} PROVE FALSE
    OBVIOUS
<1>1. PICK m \in Missing : \A n \in Missing : ~(<<n, m>> \in OpToRel(<, Nat))
    BY WFMin, NatLessThanWellFounded
<1>2. m \in Nat /\ m # 0 /\ m \notin S
    BY <1>1
<1>3. m - 1 \in Nat /\ m - 1 < m /\ (m - 1) + 1 = m
    BY <1>2
<1>4. <<m - 1, m>> \in OpToRel(<, Nat)
    BY <1>2, <1>3 DEF OpToRel
<1>5. m - 1 \in S
    BY <1>1, <1>3, <1>4
<1> QED
    BY <1>2, <1>3, <1>5

Summable(S) == IsFiniteSet(S) /\ \A e \in S : e.amount \in Int

Picked(S) == CHOOSE e \in S : TRUE

\* The equation by which the fold defines the sum over the subsets of S.
SumUpTo(g, S) ==
    g = [T \in SUBSET S |-> IF T = {} THEN 0 ELSE Picked(T).amount + g[T \ {Picked(T)}]]

LEMMA SumIsFold ==
    ASSUME NEW S
    PROVE  LegSum(S) = (CHOOSE g : SumUpTo(g, S))[S]
BY DEF LegSum, MapThenSumSet, MapThenFoldSet, SumUpTo, Picked

LEMMA PickedGone ==
    ASSUME NEW S, Summable(S), NEW T \in SUBSET S, T # {}
    PROVE  /\ Picked(T) \in T /\ Picked(T).amount \in Int
           /\ IsFiniteSet(T) /\ Cardinality(T) \in Nat
           /\ Cardinality(T \ {Picked(T)}) = Cardinality(T) - 1
           /\ Cardinality(T) # 0
<1>1. Picked(T) \in T
    BY DEF Picked
<1>2. IsFiniteSet(T)
    BY FS_Subset DEF Summable
<1> QED
    BY <1>1, <1>2, FS_RemoveElement, FS_CardinalityType, FS_EmptySet DEF Summable

\* The equation has a solution.
LEMMA SumsExist ==
    ASSUME NEW S, Summable(S)
    PROVE  \E g \in [SUBSET S -> Int] : SumUpTo(g, S)
<1> DEFINE Small(n) == {T \in SUBSET S : Cardinality(T) <= n}
           Solves(g, n) == \A T \in Small(n) :
               g[T] = IF T = {} THEN 0 ELSE Picked(T).amount + g[T \ {Picked(T)}]
           Solved == {n \in Nat : \E g \in [Small(n) -> Int] : Solves(g, n)}
<1>0. \A T \in SUBSET S : IsFiniteSet(T) /\ Cardinality(T) \in Nat
    BY FS_Subset, FS_CardinalityType DEF Summable
<1>1. 0 \in Solved
  <2> DEFINE g == [T \in Small(0) |-> 0]
  <2>1. \A T \in Small(0) : T = {}
      BY <1>0, FS_EmptySet
  <2>2. g \in [Small(0) -> Int] /\ Solves(g, 0)
      BY <2>1
  <2> QED
      BY <2>2
<1>2. ASSUME NEW n \in Nat, n \in Solved
      PROVE  n + 1 \in Solved
  <2>1. PICK g \in [Small(n) -> Int] : Solves(g, n)
      BY <1>2
  <2> DEFINE h == [T \in Small(n + 1) |->
                      IF T \in Small(n) THEN g[T] ELSE Picked(T).amount + g[T \ {Picked(T)}]]
  <2>2. ASSUME NEW T \in Small(n + 1), T # {}
        PROVE  /\ T \ {Picked(T)} \in Small(n) /\ T \ {Picked(T)} \in Small(n + 1)
               /\ Picked(T).amount \in Int
      BY <2>2, PickedGone
  <2>3. \A T \in Small(n) : T \in Small(n + 1)
      BY <1>0
  <2>4. {} \in Small(n)
      BY FS_EmptySet
  <2>5. h \in [Small(n + 1) -> Int]
    <3>1. ASSUME NEW T \in Small(n + 1), T \notin Small(n)
          PROVE  Picked(T).amount + g[T \ {Picked(T)}] \in Int
      <4>1. T \ {Picked(T)} \in Small(n) /\ Picked(T).amount \in Int
          BY <2>2, <2>4, <3>1
      <4> QED
          BY <2>1, <4>1
    <3> QED
        BY <2>1, <3>1
  <2>6. ASSUME NEW T \in Small(n + 1)
        PROVE  h[T] = IF T = {} THEN 0 ELSE Picked(T).amount + h[T \ {Picked(T)}]
    <3>1. CASE T = {}
        BY <2>1, <2>4, <3>1
    <3>2. CASE T # {}
      <4>1. h[T] = Picked(T).amount + g[T \ {Picked(T)}]
          BY <2>1, <3>2
      <4>2. h[T \ {Picked(T)}] = g[T \ {Picked(T)}]
          BY <2>2, <3>2
      <4> QED
          BY <3>2, <4>1, <4>2
    <3> QED
        BY <3>1, <3>2
  <2>7. Solves(h, n + 1)
      BY <2>6
  <2>8. n + 1 \in Nat
      OBVIOUS
  <2> HIDE DEF h, Solves, Small
  <2> QED
      BY <2>5, <2>7, <2>8
<1>3. Nat \subseteq Solved
  <2> HIDE DEF Solved
  <2> QED
      BY <1>1, <1>2, EveryNumber
<1>4. Cardinality(S) \in Nat /\ \A T \in SUBSET S : Cardinality(T) <= Cardinality(S)
    BY <1>0, FS_Subset DEF Summable
<1>5. Small(Cardinality(S)) = SUBSET S
    BY <1>4
<1>6. PICK g \in [SUBSET S -> Int] : Solves(g, Cardinality(S))
    BY <1>3, <1>4, <1>5
<1>7. SumUpTo(g, S)
    BY <1>5, <1>6 DEF SumUpTo
<1> QED
    BY <1>7

\* And it has one only, on whatever sets two of them are solved.
LEMMA SumsAgree ==
    ASSUME NEW S, Summable(S), NEW U, Summable(U), NEW g, SumUpTo(g, S), NEW h, SumUpTo(h, U),
           NEW T \in SUBSET S, T \in SUBSET U
    PROVE  g[T] = h[T]
<1> DEFINE Common == {V \in SUBSET S : V \in SUBSET U}
           Agreed == {n \in Nat : \A V \in Common : Cardinality(V) = n => g[V] = h[V]}
<1>0. \A V \in Common : IsFiniteSet(V) /\ Cardinality(V) \in Nat
    BY FS_Subset, FS_CardinalityType DEF Summable
<1>1. \A V \in Common :
          /\ g[V] = IF V = {} THEN 0 ELSE Picked(V).amount + g[V \ {Picked(V)}]
          /\ h[V] = IF V = {} THEN 0 ELSE Picked(V).amount + h[V \ {Picked(V)}]
    BY DEF SumUpTo
<1>2. 0 \in Agreed
    BY <1>0, <1>1, FS_EmptySet
<1>3. ASSUME NEW n \in Nat, n \in Agreed
      PROVE  n + 1 \in Agreed
  <2> SUFFICES ASSUME NEW V \in Common, Cardinality(V) = n + 1 PROVE g[V] = h[V]
      OBVIOUS
  <2>1. V # {}
      BY FS_EmptySet
  <2>2. V \ {Picked(V)} \in Common /\ Cardinality(V \ {Picked(V)}) = n
      BY <2>1, PickedGone
  <2>3. g[V \ {Picked(V)}] = h[V \ {Picked(V)}]
      BY <1>3, <2>2
  <2> QED
      BY <1>1, <2>1, <2>3
<1>4. Nat \subseteq Agreed
  <2> HIDE DEF Agreed
  <2> QED
      BY <1>2, <1>3, EveryNumber
<1> QED
    BY <1>0, <1>4

\* The equation of the sum.
LEMMA SumEquation ==
    ASSUME NEW S, Summable(S)
    PROVE  /\ LegSum(S) \in Int
           /\ LegSum(S) = IF S = {} THEN 0 ELSE Picked(S).amount + LegSum(S \ {Picked(S)})
<1> DEFINE g == CHOOSE g : SumUpTo(g, S)
           rest == S \ {Picked(S)}
           h == CHOOSE h : SumUpTo(h, rest)
<1>1. PICK G \in [SUBSET S -> Int] : SumUpTo(G, S)
    BY SumsExist
<1>2. SumUpTo(g, S)
    BY <1>1
<1>3. Summable(rest)
    BY FS_Subset DEF Summable
<1>4. SumUpTo(h, rest)
    BY <1>3, SumsExist
<1>5. LegSum(S) = g[S] /\ LegSum(rest) = h[rest]
    BY SumIsFold
<1> HIDE DEF g, h
<1>6. g[S] = G[S]
    BY <1>1, <1>2, SumsAgree
<1>7. g[rest] = h[rest]
    BY <1>2, <1>3, <1>4, SumsAgree
<1>8. g[S] = IF S = {} THEN 0 ELSE Picked(S).amount + g[rest]
    BY <1>2 DEF SumUpTo
<1> QED
    BY <1>1, <1>5, <1>6, <1>7, <1>8

\* Any element can be taken first.
LEMMA SumWithout ==
    ASSUME NEW S, Summable(S), NEW e \in S
    PROVE  LegSum(S) = e.amount + LegSum(S \ {e})
<1> DEFINE Free == {n \in Nat : \A T \in SUBSET S : Cardinality(T) = n =>
                        \A x \in T : LegSum(T) = x.amount + LegSum(T \ {x})}
<1>0. \A T \in SUBSET S : IsFiniteSet(T) /\ Cardinality(T) \in Nat /\ Summable(T)
    BY FS_Subset, FS_CardinalityType DEF Summable
<1>1. 0 \in Free
    BY <1>0, FS_EmptySet
<1>2. ASSUME NEW n \in Nat, n \in Free
      PROVE  n + 1 \in Free
  <2> SUFFICES ASSUME NEW T \in SUBSET S, Cardinality(T) = n + 1, NEW x \in T
               PROVE  LegSum(T) = x.amount + LegSum(T \ {x})
      OBVIOUS
  <2> DEFINE c == Picked(T)
  <2>1. c \in T /\ c.amount \in Int /\ x.amount \in Int
      BY PickedGone DEF Summable
  <2>2. LegSum(T) = c.amount + LegSum(T \ {c})
      BY <1>0, SumEquation
  <2> HIDE DEF c
  <2>3. CASE x # c
    <3>1. /\ T \ {c} \in SUBSET S /\ Cardinality(T \ {c}) = n /\ x \in T \ {c}
          /\ T \ {x} \in SUBSET S /\ Cardinality(T \ {x}) = n /\ c \in T \ {x}
        BY <1>0, <2>1, <2>3, FS_RemoveElement
    <3>2. LegSum(T \ {c}) = x.amount + LegSum((T \ {c}) \ {x})
        BY <1>2, <3>1
    <3>3. LegSum(T \ {x}) = c.amount + LegSum((T \ {x}) \ {c})
        BY <1>2, <3>1
    <3>4. (T \ {x}) \ {c} = (T \ {c}) \ {x}
        OBVIOUS
    <3>5. LegSum((T \ {c}) \ {x}) \in Int
        BY <1>0, SumEquation
    <3>6. LegSum(T \ {x}) = c.amount + LegSum((T \ {c}) \ {x})
        BY <3>3, <3>4
    <3> QED
        BY <2>1, <2>2, <3>2, <3>5, <3>6
  <2> QED
      BY <2>2, <2>3
<1>3. Nat \subseteq Free
  <2> HIDE DEF Free
  <2> QED
      BY <1>1, <1>2, EveryNumber
<1> QED
    BY <1>0, <1>3

LEMMA SumOfNone == LegSum({}) = 0
<1>1. Summable({})
    BY FS_EmptySet DEF Summable
<1> QED
    BY <1>1, SumEquation

\* One more entry.
LEMMA SumWith ==
    ASSUME NEW S, Summable(S), NEW e, e.amount \in Int, e \notin S
    PROVE  Summable(S \cup {e}) /\ LegSum(S \cup {e}) = LegSum(S) + e.amount
<1>1. Summable(S \cup {e})
    BY FS_AddElement DEF Summable
<1>2. (S \cup {e}) \ {e} = S
    OBVIOUS
<1>3. LegSum(S) \in Int
    BY SumEquation
<1> QED
    BY <1>1, <1>2, <1>3, SumWithout

----------------------------------------------------------------------------
(* The legs of a transfer.                                                 *)

\* Before it commits a transfer has no entry.
LEMMA NoLegsYet ==
    ASSUME IInv, Together, NEW r \in Attempt, pc[r] \in {"commit", "in_doubt"}
    PROVE  \A e \in ledger_entries : e.transfer_id # r
<1> SUFFICES ASSUME r \in Effects PROVE FALSE
    BY DEF Effects
<1>1. PICK k \in Committed : idempotency_keys[k].resource_id = r
    BY DEF Together, OneKeyNames, Names
<1>2. r \in accounts \/ pc[r] \in Finished
    BY <1>1 DEF IInv, ResourcesAreSettled
<1>3. r \notin accounts
    BY IdentityAssumption DEF IInv, TypeOK
<1> QED
    BY <1>2, <1>3 DEF Finished

\* Its two legs are in two accounts that are open, and cancel out.
LEMMA LegsCancel ==
    ASSUME IInv, NEW r \in Attempt, pc[r] \in {"commit", "in_doubt"}, IsTransfer(request[r])
    PROVE  \E debit \in LedgerEntry, credit \in LedgerEntry :
              /\ entries[r] = {debit, credit}
              /\ debit.transfer_id = r /\ credit.transfer_id = r
              /\ debit.account_id = Source(r) /\ credit.account_id = Destination(r)
              /\ debit.amount = -Amount(r) /\ credit.amount = Amount(r)
              /\ Source(r) \in accounts /\ Destination(r) \in accounts
              /\ Source(r) # Destination(r)
              /\ Amount(r) \in Nat \ {0}
              /\ LegSum(entries[r]) = 0
<1> DEFINE debit == [transfer_id |-> r, account_id |-> Source(r), amount |-> -Amount(r)]
           credit == [transfer_id |-> r, account_id |-> Destination(r), amount |-> Amount(r)]
<1>1. TransferReady(r)
    BY DEF IInv, CommitsAreReady
<1>2. /\ Source(r) \in Account /\ Destination(r) \in Account
      /\ Source(r) # Destination(r) /\ Amount(r) \in Nat \ {0}
    BY AtWork, MaxBalanceAssumption DEF IInv, Working, Money
<1>3. debit \in LedgerEntry /\ credit \in LedgerEntry /\ debit # credit
    BY <1>2 DEF LedgerEntry
<1>4. entries[r] = {debit, credit}
    BY <1>1 DEF TransferReady, Legs
<1>5. debit.amount = -Amount(r) /\ credit.amount = Amount(r)
    OBVIOUS
<1>6. Summable({}) /\ Summable({debit}) /\ LegSum({debit}) = -Amount(r)
  <2>1. Summable({})
      BY FS_EmptySet DEF Summable
  <2>2. debit.amount \in Int /\ {} \cup {debit} = {debit}
      BY <1>2
  <2>3. Summable({} \cup {debit}) /\ LegSum({} \cup {debit}) = LegSum({}) + debit.amount
      BY <2>1, <2>2, SumWith
  <2> QED
      BY <1>2, <1>5, <2>1, <2>2, <2>3, SumOfNone
<1>7. LegSum({debit, credit}) = 0
  <2>1. credit.amount \in Int /\ {debit} \cup {credit} = {debit, credit} /\ credit \notin {debit}
      BY <1>2, <1>3
  <2>2. LegSum({debit} \cup {credit}) = LegSum({debit}) + credit.amount
      BY <1>6, <2>1, SumWith
  <2> QED
      BY <1>2, <1>5, <1>6, <2>1, <2>2
<1>8. Source(r) \in accounts /\ Destination(r) \in accounts
    BY <1>1 DEF TransferReady
<1>9. /\ debit.transfer_id = r /\ credit.transfer_id = r
      /\ debit.account_id = Source(r) /\ credit.account_id = Destination(r)
    OBVIOUS
<1> HIDE DEF debit, credit
<1> QED
    BY <1>2, <1>3, <1>4, <1>5, <1>7, <1>8, <1>9

\* The CHECKs and the conservation trigger have nothing to refuse: what the
\* code takes to a COMMIT is within bounds and conserves money.
THEOREM ConstraintsAreBackstops == Spec => []BackstopsNeverFire
<1>1. ASSUME IInv, Together
      PROVE  BackstopsNeverFire
  <2> SUFFICES ASSUME NEW r \in Attempt, pc[r] \in {"commit", "in_doubt"}
               PROVE  SchemaAccepts(r)
      BY DEF BackstopsNeverFire
  <2>1. CASE IsTransfer(request[r])
    <3>1. PICK debit \in LedgerEntry, credit \in LedgerEntry :
              /\ entries[r] = {debit, credit}
              /\ debit.transfer_id = r /\ credit.transfer_id = r
              /\ debit.amount = -Amount(r) /\ credit.amount = Amount(r)
              /\ Amount(r) \in Nat \ {0}
              /\ LegSum(entries[r]) = 0
        BY <1>1, <2>1, LegsCancel
    <3>2. TransferReady(r)
        BY <1>1, <2>1 DEF IInv, CommitsAreReady
    <3>3. \A a \in Held(r) : a = Source(r) \/ a = Destination(r)
        BY <1>1 DEF Held, IInv, RowsFollowTheOrder
    <3>4. \A a \in Held(r) : session[r][a] >= 0
      <4>1. \A a \in Account : balance[a] \in Nat
          BY <1>1, MaxBalanceAssumption DEF IInv, TypeOK, Money
      <4>2. Source(r) \in Account /\ Destination(r) \in Account
          BY <1>1, <2>1, AtWork DEF IInv, Working
      <4> QED
          BY <3>1, <3>2, <3>3, <4>1, <4>2 DEF TransferReady
    <3>5. {f \in ledger_entries \cup entries[r] : f.transfer_id = r} = entries[r]
        BY <1>1, <3>1, NoLegsYet
    <3>6. \A e \in entries[r] : e.amount # 0 /\ e.transfer_id = r
        BY <3>1
    <3> QED
        BY <3>1, <3>4, <3>5, <3>6 DEF SchemaAccepts
  <2>2. CASE ~IsTransfer(request[r])
    <3>1. entries[r] = {}
        BY <1>1, <2>2 DEF IInv, CommitsAreReady, OpeningReady
    <3>2. Held(r) = {}
        BY <1>1, <2>2 DEF Held, IInv, RowsFollowTheOrder
    <3> QED
        BY <3>1, <3>2 DEF SchemaAccepts
  <2> QED
      BY <2>1, <2>2
<1> QED
    BY <1>1, Invariance, TogetherHolds, PTL

----------------------------------------------------------------------------
(* The books.                                                              *)

\* An account that is not open yet has no entries: what it is opened with is
\* what it has.  And the two legs of a transfer are in two accounts.
Books ==
    /\ IsFiniteSet(ledger_entries)
    /\ \A e \in ledger_entries : e.account_id \in accounts
    /\ \A e, f \in ledger_entries :
           e.transfer_id = f.transfer_id /\ e.account_id = f.account_id => e = f
    /\ BooksBalance

LEMMA EntriesAreSummable ==
    ASSUME TypeOK, Books
    PROVE  /\ Summable(ledger_entries) /\ LegSum(ledger_entries) \in Int
           /\ \A a \in Account : Summable(EntriesOf(a)) /\ LegSum(EntriesOf(a)) \in Int
<1>1. \A e \in ledger_entries : e.amount \in Int
    BY DEF TypeOK, LedgerEntry
<1>2. \A S \in SUBSET ledger_entries : Summable(S)
    BY <1>1, FS_Subset DEF Summable, Books
<1> QED
    BY <1>2, SumEquation DEF EntriesOf

LEMMA BooksStep ==
    ASSUME IInv, Together, Books, NEW r \in Attempt, pc[r] \in {"commit", "in_doubt"}, Publish(r)
    PROVE  Books'
<1>0. /\ balance \in [Account -> Money] /\ opening_balance \in [Account -> Money]
      /\ \A n \in Money : n \in Int
      /\ ledger_entries' = ledger_entries \cup entries[r]
    BY MaxBalanceAssumption DEF IInv, TypeOK, Money, Publish
<1>1. /\ Summable(ledger_entries)
      /\ LegSum(ledger_entries) = 0
      /\ \A a \in Account :
             /\ Summable(EntriesOf(a))
             /\ LegSum(EntriesOf(a)) \in Int
             /\ balance[a] = opening_balance[a] + LegSum(EntriesOf(a))
    BY EntriesAreSummable DEF Books, BooksBalance, IInv
<1>2. CASE IsTransfer(request[r])
  <2>1. PICK debit \in LedgerEntry, credit \in LedgerEntry :
            /\ entries[r] = {debit, credit}
            /\ debit.transfer_id = r /\ credit.transfer_id = r
            /\ debit.account_id = Source(r) /\ credit.account_id = Destination(r)
            /\ debit.amount = -Amount(r) /\ credit.amount = Amount(r)
            /\ Source(r) \in accounts /\ Destination(r) \in accounts
            /\ Source(r) # Destination(r)
            /\ Amount(r) \in Nat \ {0}
      BY <1>2, LegsCancel
  <2>2. /\ debit.amount \in Int /\ credit.amount \in Int /\ debit # credit
        /\ debit \notin ledger_entries /\ credit \notin ledger_entries
      BY <2>1, NoLegsYet DEF LedgerEntry
  <2>3. /\ accounts' = accounts /\ opening_balance' = opening_balance
        /\ balance' = [balance EXCEPT ![Source(r)] = @ - Amount(r),
                                      ![Destination(r)] = @ + Amount(r)]
      BY <1>2, PublishEffect
  <2>4. /\ Summable(ledger_entries')
        /\ LegSum(ledger_entries') = 0
    <3>1. /\ Summable(ledger_entries \cup {debit})
          /\ LegSum(ledger_entries \cup {debit}) = -Amount(r)
        BY <1>1, <2>1, <2>2, SumWith
    <3>2. credit \notin ledger_entries \cup {debit}
        BY <2>2
    <3>3. (ledger_entries \cup {debit}) \cup {credit} = ledger_entries'
        BY <1>0, <2>1
    <3>4. /\ Summable((ledger_entries \cup {debit}) \cup {credit})
          /\ LegSum((ledger_entries \cup {debit}) \cup {credit}) =
                 LegSum(ledger_entries \cup {debit}) + credit.amount
        BY <2>2, <3>1, <3>2, SumWith
    <3>5. LegSum(ledger_entries \cup {debit}) + credit.amount = 0
        BY <2>1, <3>1
    <3> QED
        BY <3>3, <3>4, <3>5
  <2>5. ASSUME NEW a \in Account
        PROVE  balance'[a] = opening_balance'[a] + LegSum(EntriesOf(a)')
    <3>1. CASE a = Source(r)
      <4>1. EntriesOf(a)' = EntriesOf(a) \cup {debit} /\ debit \notin EntriesOf(a)
          BY <1>0, <2>1, <2>2, <3>1 DEF EntriesOf
      <4>2. LegSum(EntriesOf(a) \cup {debit}) = LegSum(EntriesOf(a)) + debit.amount
          BY <1>1, <2>2, <4>1, SumWith
      <4>3. balance'[a] = balance[a] - Amount(r)
          BY <1>0, <2>1, <2>3, <3>1
      <4> QED
          BY <1>0, <1>1, <2>1, <2>3, <4>1, <4>2, <4>3
    <3>2. CASE a = Destination(r)
      <4>1. EntriesOf(a)' = EntriesOf(a) \cup {credit} /\ credit \notin EntriesOf(a)
          BY <1>0, <2>1, <2>2, <3>2 DEF EntriesOf
      <4>2. LegSum(EntriesOf(a) \cup {credit}) = LegSum(EntriesOf(a)) + credit.amount
          BY <1>1, <2>2, <4>1, SumWith
      <4>3. balance'[a] = balance[a] + Amount(r)
          BY <1>0, <2>1, <2>3, <3>2
      <4> QED
          BY <1>0, <1>1, <2>1, <2>3, <4>1, <4>2, <4>3
    <3>3. CASE a # Source(r) /\ a # Destination(r)
      <4>1. EntriesOf(a)' = EntriesOf(a)
          BY <1>0, <2>1, <3>3 DEF EntriesOf
      <4>2. balance'[a] = balance[a]
          BY <1>0, <2>3, <3>3
      <4> QED
          BY <1>1, <2>3, <4>1, <4>2
    <3> QED
        BY <3>1, <3>2, <3>3
  <2>6. /\ \A e \in ledger_entries' : e.account_id \in accounts'
        /\ \A e, f \in ledger_entries' :
               e.transfer_id = f.transfer_id /\ e.account_id = f.account_id => e = f
      BY <1>0, <2>1, <2>3, NoLegsYet DEF Books
  <2> QED
      BY <2>4, <2>5, <2>6 DEF Books, BooksBalance, Summable
<1>3. CASE ~IsTransfer(request[r])
  <2> SUFFICES ASSUME NEW new, new = new_account[r], NEW initial,
                      initial = request[r].req.initial_balance
               PROVE  Books'
      OBVIOUS
  <2>1. /\ new \in Account \ accounts
        /\ accounts' = accounts \cup {new}
        /\ balance' = [balance EXCEPT ![new] = initial]
        /\ opening_balance' = [opening_balance EXCEPT ![new] = initial]
        /\ ledger_entries' = ledger_entries
      BY <1>0, <1>3, PublishEffect
  <2>2. initial \in Int
      BY <1>0, <1>3, AtWork DEF IInv, Working
  <2>3. \A a \in Account : EntriesOf(a)' = EntriesOf(a)
      BY <2>1 DEF EntriesOf
  <2>4. EntriesOf(new) = {}
      BY <2>1 DEF EntriesOf, Books
  <2>5. ASSUME NEW a \in Account
        PROVE  balance'[a] = opening_balance'[a] + LegSum(EntriesOf(a)')
    <3>1. CASE a = new
        BY <1>0, <2>1, <2>2, <2>3, <2>4, <3>1, SumOfNone
    <3>2. CASE a # new
        BY <1>0, <1>1, <2>1, <2>3, <3>2
    <3> QED
        BY <3>1, <3>2
  <2>6. /\ IsFiniteSet(ledger_entries') /\ LegSum(ledger_entries') = 0
        /\ \A e \in ledger_entries' : e.account_id \in accounts'
        /\ \A e, f \in ledger_entries' :
               e.transfer_id = f.transfer_id /\ e.account_id = f.account_id => e = f
      BY <1>1, <2>1 DEF Books
  <2> QED
      BY <2>5, <2>6 DEF Books, BooksBalance
<1> QED
    BY <1>2, <1>3

LEMMA BooksHold == Spec => []Books
<1>1. Init => Books
  <2> SUFFICES ASSUME Init PROVE Books
      OBVIOUS
  <2>1. ledger_entries = {} /\ balance = InitBalance /\ opening_balance = InitBalance
      BY DEF Init
  <2>2. \A a \in Account : EntriesOf(a) = {}
      BY <2>1 DEF EntriesOf
  <2>3. \A a \in Account : InitBalance[a] \in Int
      BY InitialAccountsAssumption, MaxBalanceAssumption DEF Money
  <2> QED
      BY <2>1, <2>2, <2>3, SumOfNone, FS_EmptySet DEF Books, BooksBalance
<1>2. ASSUME IInv, Together, Books, [Next]_vars
      PROVE  Books'
  <2>1. CASE UNCHANGED tables
      BY <1>2, <2>1 DEF tables, Books, BooksBalance, EntriesOf
  <2>2. CASE \E r \in Attempt : pc[r] \in {"commit", "in_doubt"} /\ Publish(r)
      BY <1>2, <2>2, BooksStep
  <2> QED
      BY <1>2, <2>1, <2>2, OnlyCommitsWrite
<1> QED
    BY <1>1, <1>2, Invariance, TogetherHolds, PTL DEF Spec

\* In every committed state the entries net to zero and every balance is
\* its opening balance plus its entries: nothing is created or lost, and no
\* update of a balance overwrites another.
THEOREM MoneyIsConserved == Spec => []BooksBalance
<1>1. Books => BooksBalance
    BY DEF Books
<1> QED
    BY <1>1, BooksHold, PTL

============================================================================
