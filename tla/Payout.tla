------------------------------- MODULE Payout -------------------------------
(***************************************************************************)
(* Money arithmetic of the laboratory (packages/contracts): what usage     *)
(* costs, and how a settled charge is divided.  Amounts are integers of    *)
(* micro-units; the code computes them with BigInt, so nothing wraps.      *)
(***************************************************************************)
EXTENDS Integers, Functions

Bps == 10000

ceilDiv(numerator, denominator) == (numerator + denominator - 1) \div denominator

\* The price of input and output tokens under a model manifest m.
chargeFor(m, input, output) ==
  ceilDiv(input * m.input_rate + output * m.output_rate, m.denominator)

\* The reservation for a request: every other token of the context as input.
quoteMaximum(m, output) == chargeFor(m, m.max_context - output, output)

\* The part of a charge that goes to the laboratory's working account.
feeOf(charge) == (charge * 2000) \div Bps

\* What the first i shares of an allocation come to, rounded down.
Boundary(total, shares, i) == (total * SumFunctionOnSet(shares, 1..i)) \div Bps

\* Each share is the difference of two consecutive boundaries.
splitByBps(total, shares) ==
  [i \in DOMAIN shares |-> Boundary(total, shares, i) - Boundary(total, shares, i - 1)]
=============================================================================
