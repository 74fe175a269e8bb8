--------------------------- MODULE RawTransaction ---------------------------
(***************************************************************************)
(* How transaction.go and withdrawal.go put a raw transaction together:    *)
(* which outputs of the wallet become inputs, what change goes back and in *)
(* how many parts and how long the extra may be.  The outputs of the       *)
(* wallet are the sequence of their amounts, in the order /safe/outputs    *)
(* lists them.                                                             *)
(***************************************************************************)
EXTENDS Sums

Least(S) == CHOOSE n \in S : \A k \in S : n <= k

\* How many of the outputs the loop over them takes: it stops at the first
\* whose running total has reached the bound, and else takes them all.
Taken(outputs, bound) ==
  CHOOSE n \in 0..Len(outputs) :
    /\ n = Len(outputs) \/ Totals(outputs)[n] >= bound
    /\ \A i \in 0..(n - 1) : Totals(outputs)[i] < bound

Insufficient == [ok |-> FALSE, taken |-> 0, change |-> 0]

\* Mutant: the loop stops one output after the total is reached.
SelectOutputsLate(outputs, amount) ==
  LET n == Taken(outputs, amount + 1)
      input == Totals(outputs)[n]
  IN IF outputs = <<>> \/ input < amount THEN Insufficient
     ELSE [ok |-> TRUE, taken |-> n, change |-> input - amount]

\* Mutant: the output that reaches the total is left out of the slice.
SelectOutputsShort(outputs, amount) ==
  LET n == Taken(outputs, amount)
      input == Totals(outputs)[n]
  IN IF outputs = <<>> \/ input < amount THEN Insufficient
     ELSE [ok |-> TRUE, taken |-> n - 1, change |-> input - amount]

\* Mutant: whatever the outputs are worth, they are sent.
SelectOutputsUnchecked(outputs, amount) ==
  LET n == Taken(outputs, amount)
  IN [ok |-> TRUE, taken |-> n, change |-> Totals(outputs)[n] - amount]

\* requestUnspentOutputsForRecipients, and the loop over the outputs of the
\* asset in withdrawalTransaction.
SelectOutputs(outputs, amount) ==
  LET n == Taken(outputs, amount)
      input == Totals(outputs)[n]
  IN IF outputs = <<>> \/ input < amount THEN Insufficient
     ELSE [ok |-> TRUE, taken |-> n, change |-> input - amount]

\* The loop over the outputs of the fee asset in withdrawalTransaction: it
\* compares its running total with the amount withdrawn, not with the fee.
SelectFeeOutputs(outputs, fee, amount) ==
  LET n == Taken(outputs, amount)
      input == Totals(outputs)[n]
  IN IF input < fee THEN Insufficient
     ELSE [ok |-> TRUE, taken |-> n, change |-> input - fee]

MaxOutputs == 256

\* Mutant: the last part is a full one as well, whatever is left.
ChangePartsNoRest(change, splitAmt, splitCount, recipients) ==
  IF splitCount > 0 /\ splitAmt > 0 /\ change > splitAmt
  THEN LET full == (change + splitAmt - 1) \div splitAmt
       IN [ok |-> TRUE, parts |-> [i \in 1..Least({splitCount, full}) |-> splitAmt]]
  ELSE [ok |-> TRUE, parts |-> IF change > 0 THEN <<change>> ELSE <<>>]

\* How SendTransactionWithUtxosAndChangeOutputs divides the change: parts of
\* splitAmt until the change is used up, the last of splitCount takes the rest.
ChangeParts(change, splitAmt, splitCount, recipients) ==
  IF splitCount > 0 /\ splitAmt > 0 /\ change > splitAmt
  THEN IF splitCount > MaxOutputs - recipients \/ splitCount % 2 # 0
       THEN [ok |-> FALSE, parts |-> <<>>]
       ELSE LET total[i \in 0..splitCount] ==
                  IF i = 0 THEN 0
                  ELSE IF total[i - 1] + splitAmt <= change /\ i < splitCount
                       THEN total[i - 1] + splitAmt ELSE change
                n == Least({i \in 1..splitCount : total[i] >= change})
            IN [ok |-> TRUE, parts |-> [i \in 1..n |-> total[i] - total[i - 1]]]
  ELSE [ok |-> TRUE, parts |-> IF change > 0 THEN <<change>> ELSE <<>>]

\* BuildRawTransaction checks the extra of the transaction it has just made,
\* which is empty, and only then assigns the caller's.
ExtraAccepted(extraLen, limit) ==
  LET txExtraLen == 0
  IN ~(txExtraLen >= limit)
=============================================================================
