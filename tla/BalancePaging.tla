--------------------------- MODULE BalancePaging ---------------------------
(***************************************************************************)
(* Reading a balance: AssetBalance, ListAssetWithBalance and               *)
(* UserAssetBalance of asset.go list the unspent outputs of a wallet page  *)
(* by page, by their sequence, while others spend outputs and receive new  *)
(* ones.  The position of an output in outputs is its sequence.            *)
(*                                                                         *)
(* The wallet is external.  Whether a list starts at its offset or after   *)
(* it is not known from the code, and each page may do either.             *)
(***************************************************************************)
EXTENDS Sums, FiniteSets

CONSTANTS
  Assets,
  Amounts,     \* the amounts of outputs
  Wanted,      \* the asset AssetBalance and UserAssetBalance are asked for
  PageSize,    \* the limit of a list (500)
  MaxSequence   \* bound on the outputs of the wallet

\* What is assumed of them; Wallet assumes it of its own.
PagingAssumption ==
  /\ Wanted \in Assets
  /\ Amounts \subseteq Nat
  /\ PageSize \in Nat /\ PageSize > 1
  /\ MaxSequence \in Nat

VARIABLES
  outputs,   \* the outputs of the wallet, each with who spent it
  reads,     \* the function that reads
  at,        \* where it is
  offset, filter, total,
  begun      \* how many outputs there were when it began

readerVars == <<reads, at, offset, filter, total, begun>>
pagingVars == <<outputs, readerVars>>

Readings == {"AssetBalance", "ListAssetWithBalance", "UserAssetBalance"}

InitReader ==
  /\ reads \in Readings
  /\ at = "start"
  /\ offset = 0
  /\ filter = {}
  /\ total = [a \in Assets |-> 0]
  /\ begun = 0

\* The first list is asked for.
Begin ==
  /\ at = "start"
  /\ at' = "page"
  /\ begun' = Len(outputs)
  /\ UNCHANGED <<outputs, reads, offset, filter, total>>

Asked(i) ==
  /\ outputs[i].by = "nobody"
  /\ reads = "ListAssetWithBalance" \/ outputs[i].asset = Wanted

\* What there is to list from a sequence on, and the page with the first of it.
AskedFrom(first) == {i \in 1..Len(outputs) : i >= first /\ Asked(i)}
Page(first) == Listed(AskedFrom(first), Len(outputs), PageSize)
Of(page) == {page[k] : k \in 1..Len(page)}

\* Mutant: a page that is just full counts as the last.
LastPageFull(page) == Len(page) <= PageSize

\* A page with less than was asked for is the last; UserAssetBalance reads no
\* second one.
LastPage(page) == Len(page) < PageSize \/ reads = "UserAssetBalance"

\* Where a function goes when the last page has been read.
AfterPages(seen) ==
  IF reads = "ListAssetWithBalance" /\ seen # {} THEN "fetch" ELSE "done"

\* What some of the outputs are worth, those of an asset.
WorthIn(S, a) ==
  SumAt({i \in S : outputs[i].asset = a}, [i \in 1..Len(outputs) |-> outputs[i].amount])

\* Mutant: the outputs of a page are added without a look at the filter.
AddedAll(page) == [a \in Assets |-> total[a] + WorthIn(Of(page), a)]

\* The totals with the outputs of a page that are not in the filter.
Added(page) == [a \in Assets |-> total[a] + WorthIn(Of(page) \ filter, a)]

\* Mutant: the offset moves only with a page of new outputs.
NextOffsetAllNew(page) ==
  IF page # <<>> /\ Of(page) \cap filter = {} THEN page[Len(page)] ELSE offset

\* The offset moves to the last output of a page, unless that was known.
NextOffset(page) ==
  IF page # <<>> /\ page[Len(page)] \notin filter THEN page[Len(page)] ELSE offset

\* One list and the loop over it.
ReadPage ==
  /\ at = "page"
  /\ \E page \in {Page(offset), Page(offset + 1)} :
       /\ total' = Added(page)
       /\ filter' = filter \cup Of(page)
       /\ offset' = NextOffset(page)
       /\ at' = IF LastPage(page) THEN AfterPages(filter') ELSE "page"
  /\ UNCHANGED <<outputs, reads, begun>>

\* The list fails: the loops ask again at once, whatever the error is, and
\* UserAssetBalance returns it.
PageError ==
  /\ at = "page"
  /\ reads = "UserAssetBalance"
  /\ at' = "failed"
  /\ UNCHANGED <<outputs, reads, offset, filter, total, begun>>

\* FetchAssets for the assets that were found.
Fetch ==
  /\ at = "fetch"
  /\ at' \in {"done", "failed"}
  /\ UNCHANGED <<outputs, reads, offset, filter, total, begun>>

ReaderStep == Begin \/ ReadPage \/ PageError \/ Fetch

-----------------------------------------------------------------------------
(* The wallet, external *)

Receive(a, n) ==
  /\ Len(outputs) < MaxSequence
  /\ outputs' = Append(outputs, [asset |-> a, amount |-> n, by |-> "nobody"])
  /\ UNCHANGED readerVars

Spend(i, who) ==
  /\ outputs[i].by = "nobody"
  /\ outputs' = [outputs EXCEPT ![i].by = who]
  /\ UNCHANGED readerVars

Init == outputs = <<>> /\ InitReader
Next == \/ ReaderStep
        \/ \E a \in Assets, n \in Amounts : Receive(a, n)
        \/ \E i \in 1..Len(outputs) : Spend(i, "somebody")
Spec == Init /\ [][Next]_pagingVars

-----------------------------------------------------------------------------
(* Properties *)

ReaderTypeOK ==
  /\ reads \in Readings
  /\ at \in {"start", "page", "fetch", "done", "failed"}
  /\ offset \in 0..Len(outputs)
  /\ filter \subseteq 1..Len(outputs)
  /\ total \in [Assets -> Nat]
  /\ begun \in 0..Len(outputs)

HasAll ==
  \A i \in 1..begun : Asked(i) => i \in filter

\* An output that was there when the reading began and is still unspent when
\* it ends has been counted, whatever was spent and received between the
\* pages.  UserAssetBalance reads one page, and misses what is beyond it.
NothingMissed ==
  at \in {"fetch", "done"} =>
    HasAll \/ (reads = "UserAssetBalance" /\ Cardinality(filter) = PageSize)

\* Each output is counted once, also one that two pages listed.
CountedOnce == \A a \in Assets : total[a] = WorthIn(filter, a)

\* A reading ends when the server goes on answering, however the outputs move.
BalanceReturns == at = "page" ~> at \in {"done", "failed"}
=============================================================================
