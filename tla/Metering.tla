------------------------------ MODULE Metering ------------------------------
(***************************************************************************)
(* The arithmetic of one request, from its quote (market.ts) through the   *)
(* usage that the root reports (sessions.ts receipt) to the division of    *)
(* the charge (finalize).  Sessions takes a charge as given; this module   *)
(* says where it comes from.                                               *)
(***************************************************************************)
EXTENDS Payout, Sequences

CONSTANTS
  Manifest,    \* model manifests that may be quoted
  Allocation,  \* the shares of routes, in basis points
  MaxQuote,   \* the largest posted amount (2^63 - 1 in the code)
  MaxUsage     \* bound of the model: the most tokens a node may report

ASSUME MeteringAssumption ==
  /\ MaxQuote \in Nat /\ MaxUsage \in Nat
  /\ \A shares \in Allocation : shares \in Seq(1..Bps) /\ SumFunction(shares) = Bps
  /\ \A m \in Manifest :
       /\ m.input_rate \in Nat /\ m.output_rate \in Nat
       /\ m.denominator \in Nat \ {0}
       /\ m.max_output \in Nat \ {0} /\ m.max_context \in Nat
       /\ m.max_output < m.max_context

VARIABLES
  manifest,    \* quotes.manifest: the model as it was quoted
  output,      \* quotes.max_output_tokens; 0: nothing quoted yet
  hold,        \* quotes.maximum_microtu, which the session reserves
  charge,      \* what the reported usage costs
  parts        \* what each provider of the route gets; empty: not settled

meterVars == <<manifest, output, hold, charge, parts>>

MeterInit ==
  /\ manifest \in Manifest
  /\ output = 0 /\ hold = 0 /\ charge = 0 /\ parts = <<>>

quote(out) ==
  /\ output = 0
  /\ out <= manifest.max_output
  /\ quoteMaximum(manifest, out) <= MaxQuote
  /\ output' = out
  /\ hold' = quoteMaximum(manifest, out)
  /\ UNCHANGED <<manifest, charge, parts>>

\* A bug: the prompt is checked against the whole context.
Plausible_WholeContext(prompt, completion) ==
  /\ prompt > 0 /\ completion > 0
  /\ prompt <= manifest.max_context
  /\ completion <= output
\* Usage that could come from the request as it was quoted.
Plausible(prompt, completion) ==
  /\ prompt > 0 /\ completion > 0
  /\ prompt <= manifest.max_context - output
  /\ completion <= output

\* A bug: every share is rounded by itself.
Split_Each(total, shares) == [i \in DOMAIN shares |-> (total * shares[i]) \div Bps]
Split(total, shares) == splitByBps(total, shares)

\* The usage of a completed receipt is charged and divided among the route.
settle(prompt, completion, shares) ==
  LET cost == chargeFor(manifest, prompt, completion) IN
  /\ output > 0 /\ parts = <<>>
  /\ Plausible(prompt, completion)
  /\ charge' = cost
  /\ parts' = Split(cost - feeOf(cost), shares)
  /\ UNCHANGED <<manifest, output, hold>>

MeterNext ==
  \/ \E out \in 1..MaxUsage : quote(out)
  \/ \E prompt, completion \in 1..MaxUsage, shares \in Allocation :
       settle(prompt, completion, shares)

MeterSpec == MeterInit /\ [][MeterNext]_meterVars

-----------------------------------------------------------------------------
\* Plausible usage never costs more than was reserved when the request was
\* quoted, whatever the rates and their rounding: no completed receipt is
\* refused for exceeding the hold, and none overflows an amount.
ChargeWithinQuote == charge <= hold /\ hold <= MaxQuote

\* Nothing is lost or made by rounding: the parts and the fee are the charge,
\* and each part is its exact share of the rest, to within a micro-unit.
SplitIsExact ==
  LET rest == charge - feeOf(charge) IN
  parts # <<>> =>
    /\ SumFunction(parts) = rest
    /\ \E shares \in Allocation :
         /\ DOMAIN shares = DOMAIN parts
         /\ \A i \in DOMAIN parts :
              (parts[i] - 1) * Bps < rest * shares[i] /\ rest * shares[i] < (parts[i] + 1) * Bps
=============================================================================
