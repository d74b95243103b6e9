------------------------------ MODULE MCBoundary ------------------------------
(***************************************************************************)
(* Small instances of Boundary for TLC: NUMERIC(3,1) and a context of four *)
(* digits in place of NUMERIC(20,4) and 28.  Coefficients have up to five  *)
(* digits, on both sides of each limit, with and without trailing zeros;   *)
(* of those with five, some are rounded to fewer digits, up or down, one   *)
(* from a tie and one to a digit more, and some are not.                   *)
(***************************************************************************)
EXTENDS Boundary, TLC

MCCoefficient ==
    {0, 1, 10, 15, 25, 99, 100, 250, 999, 1000, 1001, 2500, 9990,
     10000, 10001, 10005, 10015, 99999}
MCExponent == -3..1

============================================================================
