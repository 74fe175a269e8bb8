------------------------------- MODULE Purse -------------------------------
(***************************************************************************)
(* What paying from a wallet promises, whatever outputs, requests, faults  *)
(* and retries there are: money that is there is paid, each payment once   *)
(* and in its exact amount, and what is not paid stays.                    *)
(***************************************************************************)
EXTENDS Naturals

CONSTANTS Payments, Amount, Balance, DepositAmount

VARIABLES paid, balance

vars == <<paid, balance>>

Init == paid = {} /\ balance = Balance

Pay(p) ==
  /\ p \notin paid
  /\ Amount[p] <= balance
  /\ paid' = paid \cup {p}
  /\ balance' = balance - Amount[p]

Deposit ==
  /\ balance' = balance + DepositAmount
  /\ UNCHANGED paid

Next == Deposit \/ \E p \in Payments : Pay(p)

Spec == Init /\ [][Next]_vars
=============================================================================
