---------------------------- MODULE SafeInteger ----------------------------
(***************************************************************************)
(* Minor units held in doubles: every integer is exact up to Limit, which  *)
(* stands for 2^53; the integers beyond it are even.  Both stores of       *)
(* ledger-core add postings up in such numbers and flag a currency when a  *)
(* sum leaves the safe range.                                              *)
(***************************************************************************)
EXTENDS Integers

CONSTANT Limit   \* 2^53, a multiple of 4 here so that ties round as in a double

ASSUME LimitAssumption == Limit \in Nat \ {0} /\ Limit % 4 = 0

\* Number.isSafeInteger: |n| <= 2^53 - 1.
IsSafeInteger(n) == -Limit < n /\ n < Limit

\* The double nearest to n, for |n| <= 2 * Limit; ties to the even significand.
Float(n) ==
    LET odd == n % 2 = 1
    IN  IF ~odd \/ (-Limit <= n /\ n <= Limit) THEN n
        ELSE IF (n + 1) % 4 = 0 THEN n + 1 ELSE n - 1
=============================================================================
