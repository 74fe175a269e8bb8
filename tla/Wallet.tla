------------------------------- MODULE Wallet -------------------------------
(***************************************************************************)
(* A wallet whose balance is read, by a function of asset.go, while        *)
(* another goroutine withdraws from it: Withdrawal and BalancePaging share *)
(* its outputs and nothing else.                                           *)
(***************************************************************************)
EXTENDS Withdrawal

CONSTANTS PageSize, Wanted

VARIABLES reads, at, offset, filter, total, begun

Reader == INSTANCE BalancePaging
            WITH Assets <- Legs, Amounts <- {}, MaxSequence <- 0, outputs <- outputs

ASSUME WalletAssumption == Reader!PagingAssumption

readVars == <<reads, at, offset, filter, total, begun>>
walletVars == <<vars, readVars>>

InitWallet == Init /\ Reader!InitReader

\* Everything is withdrawn and read.
Rest ==
  /\ \A w \in Workers : Returned(w)
  /\ at \in {"done", "failed"}
  /\ UNCHANGED walletVars

NextWallet ==
  \/ Next /\ UNCHANGED readVars
  \/ Reader!ReaderStep /\ UNCHANGED vars
  \/ Rest

\* The goroutines run and the server answers.
SpecWallet ==
  /\ InitWallet /\ [][NextWallet]_walletVars
  /\ \A w \in Workers : WF_walletVars(UNCHANGED readVars /\ CallStep(w))
  /\ \A w \in Workers, l \in Legs : WF_walletVars(UNCHANGED readVars /\ Settle(w, l))
  /\ WF_walletVars(UNCHANGED vars /\ Reader!ReaderStep)

\* What BalancePaging promises, of the wallet Withdrawal moves.
NothingMissed == Reader!NothingMissed
CountedOnce == Reader!CountedOnce
BalanceReturns == Reader!BalanceReturns
=============================================================================
