-------------------------- MODULE KernelTransaction --------------------------
(***************************************************************************)
(* Transactions made straight for the kernel: the payment of kernel_tx.go  *)
(* and the command of cli/kernel.go that divides a mint distribution.      *)
(* Amounts are in the smallest unit, 0.00000001.                           *)
(***************************************************************************)
EXTENDS Sums

\* SendKernelTransactionFromAccount: it panics when the inputs are not worth
\* the amount, and what is left goes back to the account.
KernelOutputs(inputs, amount) ==
  LET total == Total(inputs)
  IN IF total < amount THEN [ok |-> FALSE]
     ELSE [ok |-> TRUE, outputs |-> IF total > amount THEN <<amount, total - amount>>
                                    ELSE <<amount>>]

\* What the shares of a distribution add up to.
Whole == 10000

\* Mutant: the rest is handed out only while it is less than four units.
MintOutputsBelow(total, shares) ==
  LET amounts == [i \in DOMAIN shares |-> (total * shares[i]) \div Whole]
      change == total - Total(amounts)
  IN IF total = 0 \/ \E i \in DOMAIN shares : shares[i] \notin 1..Whole
     THEN [ok |-> FALSE]
     ELSE [ok |-> TRUE, outputs |-> IF change \in 1..3
                                    THEN [amounts EXCEPT ![Len(shares)] = @ + change]
                                    ELSE amounts]

\* ClaimMintDistribution: each recipient gets its share of ten thousand, rounded
\* down, and the last the rest when that is less than five units.  The panics of
\* the library's Integer on an amount that is not positive are left out.
MintOutputs(total, shares) ==
  LET amounts == [i \in DOMAIN shares |-> (total * shares[i]) \div Whole]
      change == total - Total(amounts)
  IN IF total = 0 \/ \E i \in DOMAIN shares : shares[i] \notin 1..Whole
     THEN [ok |-> FALSE]
     ELSE [ok |-> TRUE, outputs |-> IF change \in 1..4
                                    THEN [amounts EXCEPT ![Len(shares)] = @ + change]
                                    ELSE amounts]
=============================================================================
