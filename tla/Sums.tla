-------------------------------- MODULE Sums --------------------------------
(***************************************************************************)
(* Sums of amounts and lists of indices: how the loops of the client add   *)
(* up the outputs of a wallet, and how the server lists them.  Amounts are *)
(* integers in the smallest unit, as common.Integer is.                    *)
(***************************************************************************)
EXTENDS Integers, Sequences

\* The running totals of a sequence of amounts: Totals(q)[i] is the sum of
\* the first i.
Totals(q) ==
  LET total[i \in 0..Len(q)] == IF i = 0 THEN 0 ELSE total[i - 1] + q[i]
  IN total

Total(q) == Totals(q)[Len(q)]

\* What the amounts at some indices add up to.
SumAt(S, q) == Total([i \in 1..Len(q) |-> IF i \in S THEN q[i] ELSE 0])

\* The members of a set of indices up to n, in order.
InOrder(S, n) ==
  LET listed[i \in 0..n] ==
        IF i = 0 THEN <<>>
        ELSE IF i \in S THEN Append(listed[i - 1], i) ELSE listed[i - 1]
  IN listed[n]

\* A list of the first limit of them.
Listed(S, n, limit) ==
  LET all == InOrder(S, n)
  IN SubSeq(all, 1, IF Len(all) < limit THEN Len(all) ELSE limit)
=============================================================================
