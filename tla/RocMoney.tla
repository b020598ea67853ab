------------------------------ MODULE RocMoney ------------------------------
(***************************************************************************)
(* The arithmetic of the ROC money core (roc-money.util.ts and the two     *)
(* copies of computePlaceAmounts): how one pay-in of A cents is cut into   *)
(* three ledger lines, and how a session's Players Fund is cut into        *)
(* prizes.  All amounts are integer cents, all shares integer basis        *)
(* points.                                                                 *)
(***************************************************************************)
EXTENDS Integers, Sequences, FiniteSetsExt

Bps == 10000

\* The three system accounts a pay-in is split over, in the order in which
\* creditPaymentSplit posts them.
Accounts == {"pf", "op", "pl"}

DefaultSplit == [pf |-> 4500, op |-> 3500, pl |-> 2000]

\* cents(): a stored amount is never read back as negative.
NonNegative(n) == IF n < 0 THEN 0 ELSE n

\* A split that does not cover the whole amount is replaced by the default.
NormalizeSplit(s) == IF s.pf + s.op + s.pl = Bps THEN s ELSE DefaultSplit

\* (mutant) Every share is floored, the dust is lost.
SplitAmountFloored(A, s) ==
  [a \in Accounts |-> (A * NormalizeSplit(s)[a]) \div Bps]

\* Operator and platform shares are floored, the Players Fund takes the dust.
SplitAmount(A, s) ==
  LET b  == NormalizeSplit(s)
      op == (A * b.op) \div Bps
      pl == (A * b.pl) \div Bps
  IN  [pf |-> A - op - pl, op |-> op, pl |-> pl]

-----------------------------------------------------------------------------
\* The structure createSession freezes in every session it creates.
DefaultPlaces == <<5000, 3000, 2000>>

\* The sum of what f has for the members of a set, and of a list up to its n-th.
SumOver(f, S) == MapThenSumSet(LAMBDA i : f[i], S)
Total(amounts, n) == SumOver(amounts, 1 .. n)

\* PERCENT_OF_FUND: shares are floored, the last place takes the remainder.
PercentOfFund(fund, bps) ==
  LET F     == NonNegative(fund)
      n     == Len(bps)
      cut   == [i \in 1 .. n |-> (F * bps[i]) \div Bps]
      dust  == F - Total(cut, n - 1)
  IN  [cut EXCEPT ![n] = NonNegative(dust)]

\* FIXED_CENTS: pay as announced when the fund allows it; otherwise HOLD pays
\* nobody and SCALE prorates.
FixedCents(fund, cents, policy) ==
  LET F   == NonNegative(fund)
      sum == Total(cents, Len(cents))
  IN  IF sum <= F THEN cents
      ELSE [i \in 1 .. Len(cents) |->
              IF policy = "HOLD" THEN 0 ELSE (cents[i] * F) \div sum]

\* PercentOfFund on DefaultPlaces written out: what a session really pays.
SessionPrizes(fund) ==
  LET F     == NonNegative(fund)
      first == (F * 5000) \div Bps
      second == (F * 3000) \div Bps
  IN  <<first, second, NonNegative(F - (first + second))>>
=============================================================================
