------------------------------- MODULE Boundary -------------------------------
(***************************************************************************)
(* The amounts of schemas.py on their way in: what a client writes, what   *)
(* pydantic makes of it and accepts, what the serialisers hand to the      *)
(* fingerprint, and what becomes of it when the call is retried with the   *)
(* same key but written in another way.                                    *)
(*                                                                         *)
(* An amount is a Decimal as Python has it: a sign, a coefficient and an   *)
(* exponent, so that 25, 25.0 and 2.5E+1 are three values that are equal.  *)
(* Python's arithmetic rounds to the precision of its context, 28 digits,  *)
(* and normalize() is arithmetic: pydantic counts the digits of a rounded  *)
(* number.                                                                 *)
(* LedgerService starts from amounts that are accepted, and from their     *)
(* value.  Accounts are left out, and one key is used throughout.          *)
(*                                                                         *)
(* Definitions marked "Wrong:" are no part of the specification: see       *)
(* LedgerService.                                                          *)
(***************************************************************************)
EXTENDS Integers, FiniteSetsExt

CONSTANTS
    MaxDigits, DecimalPlaces,   \* max_digits and decimal_places
    Precision,                  \* of the context of Python's decimals
    Coefficient, Exponent,      \* what clients write
    MaxCalls,                   \* how many calls they make: a bound
    NoRow

ASSUME SizesAssumption ==
    /\ MaxCalls \in Nat
    /\ MaxDigits \in Nat /\ DecimalPlaces \in Nat /\ DecimalPlaces < MaxDigits
    /\ Precision \in Nat /\ MaxDigits < Precision
    /\ Coefficient \subseteq Nat
    /\ Exponent \subseteq Int
    /\ \E least \in Exponent :
           (\A e \in Exponent : least <= e) /\ DecimalPlaces <= -least

VARIABLES
    row,        \* the row of the key
    first,      \* the call that has claimed it
    latest,     \* the latest call, and the status it was answered with
    calls       \* how many there have been

vars == <<row, first, latest, calls>>

----------------------------------------------------------------------------
(* Decimals.                                                               *)

Finite(negative, coefficient, exponent) ==
    [kind |-> "finite", negative |-> negative,
     coefficient |-> coefficient, exponent |-> exponent]

Zero == Finite(FALSE, 0, 0)

\* NaN and the infinities are one, and so are the ways to leave a field out.
Special(kind) == [Zero EXCEPT !.kind = kind]

Written ==
    {Finite(n, c, e) : n \in BOOLEAN, c \in Coefficient, e \in Exponent}
        \cup {Special("nan"), Special("omitted")}

PowerOfTen[n \in Nat] == IF n = 0 THEN 1 ELSE 10 * PowerOfTen[n - 1]

\* The magnitude, in units of the smallest exponent.
Units(d) == d.coefficient * PowerOfTen[d.exponent - Min(Exponent)]

\* The last decimal place, in the same units.
LastPlace == PowerOfTen[-DecimalPlaces - Min(Exponent)]

SameNumber(d, e) ==
    /\ Units(d) = Units(e)
    /\ d.negative = e.negative \/ Units(d) = 0

\* The digits of the coefficient, without leading zeros; 0 has one.
Length(c) ==
    CHOOSE n \in 1..(c + 1) : c < PowerOfTen[n] /\ (n = 1 \/ PowerOfTen[n - 1] <= c)

TrailingZeros(c) ==
    CHOOSE z \in 0..Length(c) : c % PowerOfTen[z] = 0 /\ c % PowerOfTen[z + 1] # 0

\* To the nearest, half to even: decimal.ROUND_HALF_EVEN.
HalfEven(amount, unit) ==
    LET down == amount \div unit
        rest == 2 * (amount % unit)
    IN  IF rest > unit \/ (rest = unit /\ down % 2 = 1) THEN down + 1 ELSE down

\* What arithmetic leaves of a coefficient that is longer than the precision.
Rounded(d) ==
    LET surplus == Length(d.coefficient) - Precision IN
    IF surplus <= 0 THEN d
    ELSE [d EXCEPT !.coefficient = HalfEven(@, PowerOfTen[surplus]), !.exponent = @ + surplus]

\* No trailing zeros, and a zero has no exponent.
Stripped(d) ==
    IF d.coefficient = 0 THEN [d EXCEPT !.exponent = 0]
    ELSE LET zeros == TrailingZeros(d.coefficient)
         IN  [d EXCEPT !.coefficient = @ \div PowerOfTen[zeros], !.exponent = @ + zeros]

\* Decimal.normalize().
Normalized(d) == Stripped(Rounded(d))

\* Decimals and digits as pydantic counts them.
Decimals(d) == IF d.exponent < 0 THEN -d.exponent ELSE 0

Digits(d) ==
    IF d.exponent >= 0 THEN Length(d.coefficient) + d.exponent
    ELSE Max({Length(d.coefficient), Decimals(d)})

WholeDigits(d) == Digits(d) - Decimals(d)

\* Wrong: what is left of max_digits by decimal_places is not looked at.
FitsAnyhow(d) ==
    /\ Digits(d) <= MaxDigits \/ Digits(Normalized(d)) <= MaxDigits
    /\ Decimals(d) <= DecimalPlaces \/ Decimals(Normalized(d)) <= DecimalPlaces

\* max_digits and decimal_places: as it was written or as it is normalised,
\* one limit at a time.
Fits(d) ==
    \A limit \in {<<Digits(d), Digits(Normalized(d)), MaxDigits>>,
                  <<Decimals(d), Decimals(Normalized(d)), DecimalPlaces>>,
                  <<WholeDigits(d), WholeDigits(Normalized(d)), MaxDigits - DecimalPlaces>>} :
        limit[1] <= limit[3] \/ limit[2] <= limit[3]

----------------------------------------------------------------------------
(* The models.                                                             *)

\* PositiveMoney: gt=0.
PositiveMoney(d) == d.kind = "finite" /\ Fits(d) /\ ~d.negative /\ d.coefficient > 0

\* NonNegativeMoney: ge=0.  Minus zero is not less than zero.
NonNegativeMoney(d) == d.kind = "finite" /\ Fits(d) /\ (d.negative => d.coefficient = 0)

Call == [operation : {"create_transfer", "create_account"},
         amount : Written,
         extra : BOOLEAN]       \* a field the model does not have

\* The amount a model is built with: initial_balance has a default.
Parsed(c) ==
    IF c.operation = "create_account" /\ c.amount.kind = "omitted" THEN Zero ELSE c.amount

\* Wrong: extra="ignore".
AcceptedWithExtra(c) ==
    CASE c.operation = "create_transfer" -> PositiveMoney(Parsed(c))
      [] c.operation = "create_account"  -> NonNegativeMoney(Parsed(c))

\* CreateAccountRequest and TransferRequest, extra="forbid".
Accepted(c) ==
    /\ ~c.extra
    /\ CASE c.operation = "create_transfer" -> PositiveMoney(Parsed(c))
         [] c.operation = "create_account"  -> NonNegativeMoney(Parsed(c))

\* Wrong: str(), which is the default.
RenderedAsWritten(d) == d

\* f"{v:.4f}": the sign and the digits up to the last place, half to even.
\* The sign of a zero is rendered.
Rendered(d) == [negative |-> d.negative, places |-> HalfEven(Units(d), LastPlace)]

\* What the key is claimed with: the operation, and the hash of the body.
RowOf(c) == [operation |-> c.operation, request_hash |-> Rendered(Parsed(c))]

----------------------------------------------------------------------------

TypeOK ==
    /\ calls \in 0..MaxCalls
    /\ row # NoRow => first \in Call /\ row = RowOf(first)
    /\ latest.call \in Call
    /\ latest.status \in {200, 201, 409, 422}

Init ==
    /\ row = NoRow
    /\ first = NoRow
    /\ latest = [call |-> [operation |-> "create_account", amount |-> Special("nan"),
                           extra |-> FALSE],
                 status |-> 422]
    /\ calls = 0

Answer(c, status) ==
    /\ calls' = calls + 1
    /\ latest' = [call |-> c, status |-> status]

\* The body is parsed before the endpoint runs: 422, and no key is looked at.
Reject(c) ==
    /\ ~Accepted(c)
    /\ Answer(c, 422)
    /\ UNCHANGED <<row, first>>

\* What the column makes of an amount, in the units of Units: it rounds too.
\* Nothing that is accepted is a tie, on which it would differ from Python.
Stored(d) == LastPlace * HalfEven(Units(d), LastPlace)

TooLarge(u) == u >= PowerOfTen[MaxDigits - DecimalPlaces - Min(Exponent)]

\* An accepted amount that is rounded up past the column: no balance covers
\* it, and its INSERT is refused with 22003.  The key stays free.
Overflow(c) ==
    /\ Accepted(c)
    /\ row = NoRow
    /\ TooLarge(Stored(Parsed(c)))
    /\ Answer(c, 422)
    /\ UNCHANGED <<row, first>>

\* execute_once with a new key.  That the work is done is LedgerService's.
Perform(c) ==
    /\ Accepted(c)
    /\ row = NoRow
    /\ ~TooLarge(Stored(Parsed(c)))
    /\ row' = RowOf(c)
    /\ first' = c
    /\ Answer(c, 201)

\* Wrong: the row is that of the latest call.
RetryAnew(c) ==
    /\ Accepted(c)
    /\ row # NoRow
    /\ row' = RowOf(c)
    /\ Answer(c, IF row = RowOf(c) THEN 200 ELSE 409)
    /\ UNCHANGED first

\* execute_once with a key that was used.
Retry(c) ==
    /\ Accepted(c)
    /\ row # NoRow
    /\ Answer(c, IF row = RowOf(c) THEN 200 ELSE 409)
    /\ UNCHANGED <<row, first>>

Next ==
    /\ calls < MaxCalls
    /\ \E c \in Call : Reject(c) \/ Overflow(c) \/ Perform(c) \/ Retry(c)

Spec == Init /\ [][Next]_vars

----------------------------------------------------------------------------
(* Properties.                                                             *)

\* What NUMERIC(max_digits, decimal_places) holds without rounding.
Storable(d) == Units(d) % LastPlace = 0 /\ ~TooLarge(Units(d))

\* The precision of the context is enough for its digits.
Exact(d) ==
    d.coefficient = 0 \/ Length(d.coefficient) - TrailingZeros(d.coefficient) <= Precision

\* Twice the distance of two amounts, scaled so that half a unit in the last
\* digit of the context is at most the amount itself.
Apart(u, v) == 2 * PowerOfTen[Precision - 1] * (IF u < v THEN v - u ELSE u - v)

\* Nothing that the column holds is refused, however it is written, and what
\* is accepted and answered is what the column holds, with the right sign
\* (test_error_contract.py 78-100).  That is so of every amount whose digits
\* the context can hold.  A longer one is accepted, and rounded, when
\* rounding to the precision leaves no finer digit; it is moved by half a
\* unit in the last digit of the precision at most, and never past the
\* largest amount.
AcceptedIsStorable ==
    LET c == latest.call
        d == Parsed(c)
        rightSign == IF c.operation = "create_transfer" THEN ~d.negative /\ Units(d) > 0
                                                        ELSE d.negative => Units(d) = 0
        meaningful == ~c.extra /\ d.kind = "finite" /\ rightSign
    IN  /\ meaningful /\ Storable(d) => latest.status # 422
        /\ latest.status # 422 =>
               /\ meaningful
               /\ ~TooLarge(Units(d))
               /\ Exact(d) => Storable(d)
               /\ Apart(Units(d), Stored(d)) <= Units(d)
        /\ latest.status \in {200, 201} => ~TooLarge(Stored(d))

\* "Same fingerprint" means "same request" (schemas.py 88-93): the number too,
\* where the context holds its digits, and otherwise up to their rounding.
ReplaysAreOfTheSameRequest ==
    LET d == Parsed(latest.call)  e == Parsed(first) IN
    latest.status = 200 =>
        /\ latest.call.operation = first.operation
        /\ latest.call.extra = first.extra
        /\ Exact(d) /\ Exact(e) => SameNumber(d, e)
        /\ d.negative = e.negative
        /\ Apart(Units(d), Units(e)) <= Units(d) + Units(e)

\* A retry that writes the same positive amount in another way replays
\* (schemas.py 28-32 and 121-124).
PositiveRetriesReplay ==
    latest.status = 409 /\ Units(Parsed(latest.call)) > 0 =>
        \/ latest.call.operation # first.operation
        \/ ~SameNumber(Parsed(latest.call), Parsed(first))

\* "Equivalent encodings are treated as the same request when retried"
\* (schemas.py 81-84): the same of every amount, zero too.
EquivalentRetriesReplay ==
    latest.status = 409 =>
        \/ latest.call.operation # first.operation
        \/ ~SameNumber(Parsed(latest.call), Parsed(first))

============================================================================
