--------------------------- MODULE WithdrawalProofs ---------------------------
(***************************************************************************)
(* A withdrawal and its fee, for any wallet, workers, amounts, faults and  *)
(* late calls, and whether or not the sequencer takes the two together;    *)
(* and the balance that is read meanwhile, for pages of any size.          *)
(***************************************************************************)
EXTENDS Wallet, RawTransactionProofs, FiniteSetTheorems, FunctionTheorems

Places == Legs \cup {"quote", "verify", "send", "ok", "failed"}
Errors == {"none", "signed"} \cup CallError
Output == [asset : Legs, amount : Nat \ {0}, by : Workers \cup {"nobody", "other"}]
States == {"none", "unspent", "signed", "spent"}

\* The transactions over n outputs.
TxsOf(n) ==
  [inputs : SUBSET (1..n), pays : Nat, change : Nat, refs : SUBSET SUBSET (1..n)]
Requests(n) == [Workers -> [Legs -> [state : States, tx : TxsOf(n)]]]

\* More outputs have all the transactions of fewer.
LEMMA TxsGrow ==
  ASSUME NEW m \in Nat, NEW n \in Nat, m <= n
  PROVE  TxsOf(m) \subseteq TxsOf(n) /\ Requests(m) \subseteq Requests(n)
<1>1. 1..m \subseteq 1..n
  OBVIOUS
<1>2. TxsOf(m) \subseteq TxsOf(n)
  BY <1>1 DEF TxsOf
<1>3. [state : States, tx : TxsOf(m)] \subseteq [state : States, tx : TxsOf(n)]
  BY <1>2
<1> QED BY <1>2, <1>3 DEF Requests

\* What the sequencer handles is well formed; all of it when there is nothing
\* to refuse, nothing else when it takes the two together.
LEMMA HandledIs ==
  ASSUME NEW well, NEW refused, NEW done \in Handled(well, refused)
  PROVE  /\ done \subseteq well
         /\ refused = {} => done = well
         /\ together /\ refused # {} => done = {}
BY DEF Handled

\* What is signed stays signed, as the transaction it is.
Kept == \A v \in Workers, l \in Legs : Signed(v, l) =>
          Signed(v, l)' /\ request'[v][l].tx = request[v][l].tx

\* A verification changes requests that are not signed.
LEMMA RecordIs ==
  ASSUME NEW n \in Nat, request \in Requests(n),
         NEW w \in Workers, NEW ts \in [Legs -> TxsOf(n)], Record(w, ts)
  PROVE  /\ request' \in Requests(n) /\ outputs' = outputs
         /\ Kept
         /\ \A v \in Workers, l \in Legs :
              /\ Signed(v, l)' => Signed(v, l)
              /\ \/ request'[v][l] = request[v][l]
                 \/ v = w /\ request'[v][l].tx = ts[l]
<1>1. PICK done \in Handled(Verifiable(w, ts), VerifyRefused(w, ts)) :
        request' = [request EXCEPT ![w] = [l \in Legs |->
                      IF l \in done THEN [state |-> "unspent", tx |-> ts[l]] ELSE request[w][l]]]
  BY DEF Record
<1>2. \A l \in done : l \in Legs /\ ~Signed(w, l)
  BY HandledIs DEF Verifiable
<1>3. \A v \in Workers, l \in Legs :
        request'[v][l] = IF v = w /\ l \in done THEN [state |-> "unspent", tx |-> ts[l]]
                         ELSE request[v][l]
  BY <1>1 DEF Requests
<1>4. request' \in Requests(n)
  BY <1>1 DEF Requests, States
<1> QED BY <1>2, <1>3, <1>4 DEF Record, Kept, Signed

\* The transactions of legs done are signed, and spend what they name.
Signs(w, ts, done) ==
  /\ done \subseteq Legs
  /\ \A l \in done : request[w][l].state = "unspent" /\ request[w][l].tx = ts[l] /\ Free(ts[l])
  /\ "fee" \in done => "asset" \in done \/ Refers(w, ts["fee"])
  /\ \A v \in Workers, l \in Legs :
       /\ request'[v][l].tx = request[v][l].tx
       /\ request'[v][l].state = IF v = w /\ l \in done THEN "signed" ELSE request[v][l].state
  /\ \A i \in 1..Len(outputs) :
       outputs'[i] = IF \E l \in done : i \in ts[l].inputs
                     THEN [outputs[i] EXCEPT !.by = w] ELSE outputs[i]

\* A call to send signs what it handles: what was recorded and is as it was
\* recorded, the fee only with or after the withdrawal it refers to.
LEMMA AcceptIs ==
  ASSUME outputs \in Seq(Output), NEW n \in Nat, request \in Requests(n),
         NEW w \in Workers, NEW ts, Accept(w, ts)
  PROVE  /\ request' \in Requests(n) /\ outputs' \in Seq(Output)
         /\ Len(outputs') = Len(outputs)
         /\ Kept
         /\ \E done \in Handled(Sendable(w, ts), SendRefused(w, ts)) : Signs(w, ts, done)
<1>1. PICK done \in Handled(Sendable(w, ts), SendRefused(w, ts)) :
        /\ "fee" \in done => "asset" \in done \/ Refers(w, ts["fee"])
        /\ request' = [request EXCEPT ![w] = [l \in Legs |->
                         IF l \in done THEN [request[w][l] EXCEPT !.state = "signed"]
                         ELSE request[w][l]]]
        /\ outputs' = [i \in 1..Len(outputs) |->
                         IF \E l \in done : i \in ts[l].inputs
                         THEN [outputs[i] EXCEPT !.by = w] ELSE outputs[i]]
  BY DEF Accept
<1>2. ASSUME NEW l \in done
      PROVE  /\ l \in Legs /\ request[w][l].state = "unspent" /\ request[w][l].tx = ts[l]
             /\ Free(ts[l])
  <2>1. done \subseteq Sendable(w, ts)
    BY HandledIs
  <2>2. l \in Legs /\ request[w][l] = [state |-> "unspent", tx |-> ts[l]] /\ Free(ts[l])
    BY <2>1, Zenon DEF Sendable
  <2> QED BY <2>2
<1>0. \A v \in Workers, l \in Legs :
        /\ request[v][l].tx \in TxsOf(n) /\ request[v][l].state \in States
        /\ request[v][l] \in [state : States, tx : TxsOf(n)]
        /\ [request[v][l] EXCEPT !.state = "signed"] = [state |-> "signed", tx |-> request[v][l].tx]
  BY DEF Requests
<1> DEFINE F == [l \in Legs |-> IF l \in done THEN [request[w][l] EXCEPT !.state = "signed"]
                               ELSE request[w][l]]
<1>3. F \in [Legs -> [state : States, tx : TxsOf(n)]]
  <2>1. "signed" \in States
    BY DEF States
  <2>2. \A t \in TxsOf(n) : [state |-> "signed", tx |-> t] \in [state : States, tx : TxsOf(n)]
    BY <2>1
  <2> QED BY <1>0, <2>2
<1>4. request' = [request EXCEPT ![w] = F] /\ request' \in Requests(n)
  BY <1>1, <1>3 DEF Requests
<1>8. \A v \in Workers, l \in Legs :
        request'[v][l] = IF v = w /\ l \in done
                         THEN [state |-> "signed", tx |-> request[v][l].tx]
                         ELSE request[v][l]
  BY <1>0, <1>4 DEF Requests
<1>5. ASSUME NEW v \in Workers, NEW l \in Legs
      PROVE  /\ request'[v][l].tx = request[v][l].tx
             /\ request'[v][l].state = IF v = w /\ l \in done THEN "signed"
                                       ELSE request[v][l].state
  <2>1. CASE v = w /\ l \in done
    <3>1. request'[v][l] = [state |-> "signed", tx |-> request[v][l].tx]
      BY <1>8, <2>1
    <3> QED BY <2>1, <3>1
  <2>2. CASE ~(v = w /\ l \in done)
    BY <1>8, <2>2
  <2> QED BY <2>1, <2>2
<1>6. outputs' \in Seq(Output) /\ Len(outputs') = Len(outputs)
  <2>1. Len(outputs) \in Nat /\ \A i \in 1..Len(outputs) : outputs[i] \in Output
    OBVIOUS
  <2>2. \A i \in 1..Len(outputs) : [outputs[i] EXCEPT !.by = w] \in Output
    BY <2>1 DEF Output
  <2> DEFINE o(i) == IF \E l \in done : i \in ts[l].inputs
                     THEN [outputs[i] EXCEPT !.by = w] ELSE outputs[i]
  <2>3. \A i \in 1..Len(outputs) : o(i) \in Output
    BY <2>1, <2>2
  <2>4. outputs' = [i \in 1..Len(outputs) |-> o(i)]
    BY <1>1
  <2> HIDE DEF o
  <2> QED BY <2>1, <2>3, <2>4
<1>7. Kept
  BY <1>5 DEF Kept, Signed
<1>9. \A i \in 1..Len(outputs) :
        outputs'[i] = IF \E l \in done : i \in ts[l].inputs
                      THEN [outputs[i] EXCEPT !.by = w] ELSE outputs[i]
  BY <1>1
<1>10. Signs(w, ts, done)
  BY <1>1, <1>2, <1>5, <1>9, Zenon DEF Signs
<1> QED BY <1>4, <1>6, <1>7, <1>10

-----------------------------------------------------------------------------
(* What a transaction is worth *)

\* What the transaction of a leg may pay, in one attempt or another.
Prices(w, l) == IF l = "asset" THEN {Amount[w]} ELSE Fee[w]

LEMMA PricesType == \A w \in Workers, l \in Legs : Prices(w, l) \subseteq Nat \ {0}
<1> SUFFICES ASSUME NEW w \in Workers, NEW l \in Legs PROVE Prices(w, l) \subseteq Nat \ {0}
  OBVIOUS
<1>1. Amount[w] \in Nat \ {0} /\ Fee[w] \in SUBSET (Nat \ {0})
  BY WithdrawalAssumption DEF WithdrawalAssumption
<1> QED BY <1>1 DEF Prices

\* The amounts of its inputs, in order.
AmountsOf(t, o) ==
  [k \in 1..Len(InOrder(t.inputs, Len(o))) |-> o[InOrder(t.inputs, Len(o))[k]].amount]

\* A transaction over outputs o whose inputs are of its asset, and worth what it
\* pays and its change.
Pays(w, l, t, o) ==
  /\ t \in TxsOf(Len(o))
  /\ t.pays \in Prices(w, l)
  /\ Total(AmountsOf(t, o)) = t.change + t.pays
  /\ \A i \in t.inputs : o[i].asset = l

\* Outputs are added, keep their assets and amounts, and once spent their owner.
Grows(o, n) ==
  /\ Len(o) <= Len(n)
  /\ \A i \in 1..Len(o) : /\ n[i].asset = o[i].asset /\ n[i].amount = o[i].amount
                          /\ o[i].by # "nobody" => n[i].by = o[i].by

\* A transaction goes on paying what it pays when outputs are added.
LEMMA StillPays ==
  ASSUME NEW o \in Seq(Output), NEW n \in Seq(Output), Grows(o, n),
         NEW w, NEW l, NEW t, Pays(w, l, t, o)
  PROVE  Pays(w, l, t, n)
<1>1. Len(o) \in Nat /\ Len(n) \in Nat /\ Len(o) <= Len(n) /\ t.inputs \subseteq 1..Len(o)
  BY DEF Grows, Pays, TxsOf
<1>2. t \in TxsOf(Len(n))
  BY <1>1, TxsGrow DEF Pays
<1> DEFINE a == InOrder(t.inputs, Len(o))
<1>3. a \in Seq(t.inputs) /\ Increasing(a) /\ \A x \in t.inputs : Holds(a, x)
  <2>1. t.inputs \cap (1..Len(o)) = t.inputs
    BY <1>1
  <2> QED BY <1>1, <2>1, InOrderIs
<1> HIDE DEF a
<1>4. InOrder(t.inputs, Len(n)) = a
  <2>1. t.inputs \subseteq 1..Len(n)
    BY <1>1
  <2> QED BY <1>1, <1>3, <2>1, InOrderOnly
<1>5. Len(a) \in Nat /\ \A k \in 1..Len(a) : a[k] \in t.inputs
  BY <1>3
<1>6. AmountsOf(t, n) = AmountsOf(t, o)
  <2>1. \A k \in 1..Len(a) : n[a[k]].amount = o[a[k]].amount
    BY <1>1, <1>5 DEF Grows
  <2>2. AmountsOf(t, n) = [k \in 1..Len(a) |-> n[a[k]].amount]
    BY <1>4 DEF AmountsOf
  <2>3. AmountsOf(t, o) = [k \in 1..Len(a) |-> o[a[k]].amount]
    BY DEF AmountsOf, a
  <2> QED BY <2>1, <2>2, <2>3
<1>7. \A i \in t.inputs : n[i].asset = l
  BY <1>1 DEF Grows, Pays
<1> QED BY <1>2, <1>6, <1>7 DEF Pays

\* What a worker builds pays for its leg, and a fee refers to the withdrawal
\* built before it.
LEMMA BuiltPays ==
  ASSUME outputs \in Seq(Output), NEW w \in Workers, NEW l \in Legs, NEW q, q = Unspent(l),
         Price(w, l) \in Prices(w, l), Chosen(w, l, q).ok, tx[w]["asset"].inputs \subseteq 1..Len(outputs)
  PROVE  /\ Pays(w, l, RawTx(w, l, q), outputs)
         /\ l = "fee" => RawTx(w, l, q).refs = {tx[w]["asset"].inputs}
<1> DEFINE r == Chosen(w, l, q)
           n == r.taken
           N == Len(outputs)
           inputs == InputsOf(q, n)
           t == RawTx(w, l, q)
           a == SubSeq(q, 1, n)
           S == {i \in 1..N : outputs[i].asset = l /\ outputs[i].by = "nobody"}
<1>1. /\ N \in Nat /\ ListLimit \in Nat /\ Amount[w] \in Nat /\ Price(w, l) \in Nat
      /\ \A i \in 1..N : outputs[i] \in Output
  BY WithdrawalAssumption, PricesType DEF WithdrawalAssumption
<1>2. /\ q \in Seq(S \cap (1..N)) /\ Increasing(q)
  <2>1. q = Listed(S, N, ListLimit)
    BY DEF Unspent
  <2>2. N \in Nat /\ ListLimit \in Nat
    BY <1>1
  <2> HIDE DEF S, N
  <2>3. /\ Listed(S, N, ListLimit) \in Seq(S \cap (1..N))
        /\ Increasing(Listed(S, N, ListLimit))
    BY <2>2, ListedIs
  <2> QED BY <2>1, <2>3
<1>3. Len(q) \in Nat /\ \A k \in 1..Len(q) : q[k] \in S
  BY <1>2
<1>4. \A i \in S : i \in 1..N /\ outputs[i].asset = l /\ outputs[i].amount \in Nat
  BY <1>1 DEF Output
<1> HIDE DEF S, N
<1>5. /\ Worths(q) = [k \in 1..Len(q) |-> outputs[q[k]].amount]
      /\ Len(Worths(q)) = Len(q) /\ \A k \in 1..Len(q) : Worths(q)[k] \in Nat
      /\ Numbers(Worths(q))
  BY <1>3, <1>4 DEF Worths, Numbers
<1>6. n \in 0..Len(q) /\ r.change \in Nat /\ Totals(Worths(q))[n] = Price(w, l) + r.change
  <2>1. CASE l = "asset"
    <3>1. r = SelectOutputs(Worths(q), Price(w, l))
      BY <2>1 DEF Chosen
    <3> HIDE DEF r
    <3> QED BY <1>1, <1>3, <1>5, <3>1, SelectedWorth DEF r
  <2>2. CASE l = "fee"
    <3>1. r = SelectFeeOutputs(Worths(q), Price(w, l), Amount[w])
      BY <2>2 DEF Chosen
    <3> HIDE DEF r
    <3> QED BY <1>1, <1>3, <1>5, <3>1, SelectedFeeWorth DEF r
  <2> QED BY <2>1, <2>2 DEF Legs
<1>7. t = [inputs |-> inputs, pays |-> Price(w, l), change |-> r.change,
           refs |-> IF l = "fee" THEN {tx[w]["asset"].inputs} ELSE {}]
  BY DEF RawTx
<1>8. n \in Nat /\ n <= Len(q) /\ inputs = {q[k] : k \in 1..n}
  BY <1>3, <1>6 DEF InputsOf
<1> HIDE DEF r, n, t, inputs
<1>9. inputs \subseteq S /\ inputs \subseteq 1..N
  BY <1>3, <1>4, <1>8
<1>10. t \in TxsOf(N)
  BY <1>1, <1>6, <1>7, <1>9 DEF TxsOf, N
<1>11. /\ Len(a) = n /\ \A k \in 1..n : a[k] = q[k]
       /\ a \in Seq(inputs) /\ Increasing(a) /\ \A x \in inputs : Holds(a, x)
  <2>1. Len(a) = n /\ \A k \in 1..n : a[k] = q[k]
    BY <1>2, <1>8
  <2>2. a \in Seq(inputs)
    <3>1. a = [k \in 1..n |-> q[k]]
      BY <1>2, <1>8
    <3> QED BY <1>8, <3>1
  <2> HIDE DEF a
  <2>3. Increasing(a)
    <3>1. \A j, k \in 1..n : j \in 1..Len(q) /\ k \in 1..Len(q)
      BY <1>3, <1>8
    <3>2. \A j, k \in 1..n : j < k => q[j] < q[k]
      BY <1>2, <3>1 DEF Increasing
    <3> QED BY <2>1, <3>2 DEF Increasing
  <2>4. \A x \in inputs : Holds(a, x)
    BY <1>8, <2>1 DEF Holds
  <2> QED BY <2>1, <2>2, <2>3, <2>4
<1> HIDE DEF a
<1>12. InOrder(inputs, N) = a
  BY <1>1, <1>9, <1>11, InOrderOnly
<1>13. AmountsOf(t, outputs) = [k \in 1..n |-> outputs[q[k]].amount]
  <2>1. AmountsOf(t, outputs) = [k \in 1..Len(a) |-> outputs[a[k]].amount]
    BY <1>7, <1>12 DEF AmountsOf, N
  <2> QED BY <1>11, <2>1
<1> DEFINE p == AmountsOf(t, outputs)
<1>14. Len(p) = n /\ \A k \in 1..n : p[k] = Worths(q)[k] /\ p[k] \in Int
  <2>1. \A k \in 1..n : k \in 1..Len(q)
    BY <1>3, <1>8
  <2> QED BY <1>5, <1>8, <1>13, <2>1
<1> HIDE DEF p
<1>15. Total(p) = Price(w, l) + r.change
  <2>1. Numbers(p) /\ Len(p) \in Nat
    BY <1>8, <1>14 DEF Numbers
  <2>2. Totals(p)[n] = Totals(Worths(q))[n]
    <3> DEFINE u == Worths(q)
    <3>4. Numbers(u) /\ Len(u) = Len(q)
      BY <1>5, Zenon
    <3>5. Len(p) = n /\ \A k \in 1..n : p[k] = u[k]
      BY <1>14, Zenon
    <3> HIDE DEF u
    <3>1. /\ Numbers(u) /\ Len(u) \in Nat /\ n <= Len(u) /\ n <= Len(p)
          /\ n \in Nat /\ \A k \in 1..n : p[k] = u[k]
      BY <1>3, <1>8, <3>4, <3>5
    <3>2. \A k \in 0..n : Totals(p)[k] = Totals(u)[k]
      BY <2>1, <3>1, TotalsAgree
    <3>3. n \in 0..n
      BY <3>1
    <3> QED BY <3>2, <3>3 DEF u
  <2> QED BY <1>6, <1>14, <2>2 DEF Total
<1>16. /\ t.change = r.change /\ t.pays = Price(w, l) /\ t.inputs = inputs
       /\ t.refs = IF l = "fee" THEN {tx[w]["asset"].inputs} ELSE {}
  BY <1>7
<1>17. Total(p) = t.change + t.pays /\ t.pays \in Prices(w, l)
  BY <1>1, <1>6, <1>15, <1>16
<1>18. \A i \in t.inputs : outputs[i].asset = l
  BY <1>4, <1>9, <1>16
<1> QED BY <1>10, <1>16, <1>17, <1>18 DEF Pays, t, p, N

-----------------------------------------------------------------------------
(* The invariant *)

Going == {"verify", "send"}

\* Both transactions of a withdrawal, the fee with a reference to the other.
PaysBoth(w, ts, o) ==
  /\ ts \in [Legs -> TxsOf(Len(o))]
  /\ \A l \in Legs : Pays(w, l, ts[l], o)
  /\ ts["fee"].refs = {ts["asset"].inputs}

WorkersInv ==
  /\ pc \in [Workers -> Places] /\ err \in [Workers -> Errors]
  /\ tx \in [Workers -> [Legs -> TxsOf(Len(outputs))]]
  /\ \A w \in Workers : pc[w] = "fee" => Pays(w, "asset", tx[w]["asset"], outputs)
  /\ \A w \in Workers : pc[w] \in Going => PaysBoth(w, tx[w], outputs)

\* A worker that builds has been quoted a fee.
Quoted ==
  /\ fee \in [Workers -> Nat]
  /\ \A w \in Workers : /\ fee[w] \in Fee[w] \cup {0}
                        /\ pc[w] \in Legs => fee[w] \in Fee[w]

LateInv ==
  \A m \in late :
    /\ m \in [step : Going, worker : Workers, txs : [Legs -> TxsOf(Len(outputs))]]
    /\ PaysBoth(m.worker, m.txs, outputs)

\* What the sequencer has.  It signs both or none if it takes them together.
RequestsInv ==
  /\ outputs \in Seq(Output) /\ request \in Requests(Len(outputs))
  /\ together \in BOOLEAN
  /\ \A w \in Workers, l \in Legs :
       /\ request[w][l].state # "none" => Pays(w, l, request[w][l].tx, outputs)
       /\ Signed(w, l) => \A i \in request[w][l].tx.inputs : outputs[i].by = w
  /\ FeeFollows
  /\ \A w \in Workers : together /\ Signed(w, "asset") => Signed(w, "fee")

Counters == faults \in 0..MaxFaults /\ others \in 0..MaxOthers

WithdrawalInv ==
  WorkersInv /\ Quoted /\ LateInv /\ RequestsInv /\ Counters /\ ToldMeansWithdrawn

\* The outputs a step leaves alone have not shrunk.
LEMMA SameGrows ==
  ASSUME outputs \in Seq(Output), outputs' = outputs
  PROVE  Grows(outputs, outputs')
BY DEF Grows

\* Nobody is told anything new, and what was told stays so.
LEMMA Untold ==
  ASSUME ToldMeansWithdrawn, Kept, together' = together,
         \A w \in Workers : /\ pc'[w] = "ok" => pc[w] = "ok"
                            /\ err'[w] = "signed" => err[w] = "signed"
  PROVE  ToldMeansWithdrawn'
BY DEF ToldMeansWithdrawn, Kept, Legs

\* A verification keeps what the sequencer has in order.
LEMMA RecordInv ==
  ASSUME RequestsInv, NEW w \in Workers, NEW ts, PaysBoth(w, ts, outputs), Record(w, ts),
         together' = together
  PROVE  RequestsInv' /\ Grows(outputs, outputs') /\ Kept
<1>1. Len(outputs) \in Nat /\ request \in Requests(Len(outputs)) /\ ts \in [Legs -> TxsOf(Len(outputs))]
  BY DEF RequestsInv, PaysBoth
<1>2. /\ request' \in Requests(Len(outputs)) /\ outputs' = outputs /\ Kept
      /\ \A v \in Workers, l \in Legs :
           /\ Signed(v, l)' => Signed(v, l)
           /\ \/ request'[v][l] = request[v][l]
              \/ v = w /\ request'[v][l].tx = ts[l]
  BY <1>1, RecordIs
<1>3. ASSUME NEW v \in Workers, NEW l \in Legs, request'[v][l].state # "none"
      PROVE  Pays(v, l, request'[v][l].tx, outputs)
  <2>1. CASE request'[v][l] = request[v][l]
    BY <1>3, <2>1 DEF RequestsInv
  <2>2. CASE v = w /\ request'[v][l].tx = ts[l]
    BY <2>2 DEF PaysBoth
  <2> QED BY <1>2, <2>1, <2>2
<1>4. ASSUME NEW v \in Workers, NEW l \in Legs, Signed(v, l)', NEW i \in request'[v][l].tx.inputs
      PROVE  outputs'[i].by = v
  <2>1. Signed(v, l) /\ request'[v][l].tx = request[v][l].tx
    BY <1>2, <1>4 DEF Kept
  <2> QED BY <1>2, <2>1 DEF RequestsInv
<1>5. FeeFollows'
  <2> SUFFICES ASSUME NEW v \in Workers, Signed(v, "fee")'
               PROVE  /\ Signed(v, "asset")'
                      /\ request'[v]["fee"].tx.refs = {request'[v]["asset"].tx.inputs}
    BY DEF FeeFollows
  <2>1. "fee" \in Legs /\ "asset" \in Legs
    BY DEF Legs
  <2>2. Signed(v, "fee") /\ request'[v]["fee"].tx = request[v]["fee"].tx
    BY <1>2, <2>1 DEF Kept
  <2>3. Signed(v, "asset") /\ request[v]["fee"].tx.refs = {request[v]["asset"].tx.inputs}
    BY <2>2 DEF RequestsInv, FeeFollows
  <2>4. Signed(v, "asset")' /\ request'[v]["asset"].tx = request[v]["asset"].tx
    BY <1>2, <2>1, <2>3 DEF Kept
  <2> QED BY <2>2, <2>3, <2>4
<1>6. \A v \in Workers : together' /\ Signed(v, "asset")' => Signed(v, "fee")'
  BY <1>2 DEF RequestsInv, Kept, Legs
<1>7. Grows(outputs, outputs')
  BY <1>2, SameGrows DEF RequestsInv
<1> QED BY <1>2, <1>3, <1>4, <1>5, <1>6, <1>7 DEF RequestsInv

\* So does a call to send: no fee is signed without its withdrawal, and an
\* output that is spent was nobody's.
LEMMA AcceptInv ==
  ASSUME RequestsInv, NEW w \in Workers, NEW ts, PaysBoth(w, ts, outputs), Accept(w, ts),
         together' = together
  PROVE  /\ RequestsInv' /\ Grows(outputs, outputs') /\ Kept
         /\ SendRefused(w, ts) = {} => \A l \in Legs : Signed(w, l)'
<1>1. Len(outputs) \in Nat /\ request \in Requests(Len(outputs)) /\ outputs \in Seq(Output)
  BY DEF RequestsInv
<1>2. /\ request' \in Requests(Len(outputs)) /\ outputs' \in Seq(Output)
      /\ Len(outputs') = Len(outputs) /\ Kept
  BY <1>1, AcceptIs
<1>3. PICK done \in Handled(Sendable(w, ts), SendRefused(w, ts)) : Signs(w, ts, done)
  BY <1>1, AcceptIs
<1>4. \A i \in 1..Len(outputs) : outputs[i] \in Output
  BY <1>1
<1>5. ASSUME NEW i \in 1..Len(outputs), NEW l \in done, i \in ts[l].inputs
      PROVE  outputs[i].by = "nobody" /\ outputs'[i].by = w
  <2>1. outputs[i].by = "nobody"
    BY <1>3, <1>5 DEF Free, Signs
  <2>2. outputs'[i] = [outputs[i] EXCEPT !.by = w] /\ outputs[i] \in Output
    BY <1>3, <1>4, <1>5 DEF Signs
  <2> QED BY <2>1, <2>2 DEF Output
<1>6. Grows(outputs, outputs')
  <2> SUFFICES ASSUME NEW i \in 1..Len(outputs)
               PROVE  /\ outputs'[i].asset = outputs[i].asset /\ outputs'[i].amount = outputs[i].amount
                      /\ outputs[i].by # "nobody" => outputs'[i].by = outputs[i].by
    BY <1>1, <1>2 DEF Grows
  <2>1. CASE \E l \in done : i \in ts[l].inputs
    <3>1. outputs'[i] = [outputs[i] EXCEPT !.by = w] /\ outputs[i] \in Output
      BY <1>3, <1>4, <2>1 DEF Signs
    <3>2. outputs[i].by = "nobody"
      BY <1>5, <2>1
    <3> QED BY <3>1, <3>2 DEF Output
  <2>2. CASE ~\E l \in done : i \in ts[l].inputs
    BY <1>3, <2>2 DEF Signs
  <2> QED BY <2>1, <2>2
<1>7. ASSUME NEW v \in Workers, NEW l \in Legs
      PROVE  /\ Signed(v, l)' <=> Signed(v, l) \/ (v = w /\ l \in done)
             /\ request'[v][l].state # "none" => request[v][l].state # "none"
  BY <1>3 DEF Signed, Signs
<1>8. ASSUME NEW v \in Workers, NEW l \in Legs, request'[v][l].state # "none"
      PROVE  Pays(v, l, request'[v][l].tx, outputs')
  <2>1. request'[v][l].tx = request[v][l].tx /\ Pays(v, l, request[v][l].tx, outputs)
    BY <1>3, <1>7, <1>8 DEF RequestsInv, Signs
  <2> QED BY <1>1, <1>2, <1>6, <2>1, StillPays
<1>9. ASSUME NEW v \in Workers, NEW l \in Legs, Signed(v, l)', NEW i \in request'[v][l].tx.inputs
      PROVE  outputs'[i].by = v
  <2>1. request'[v][l].tx = request[v][l].tx
    BY <1>3 DEF Signs
  <2>2. CASE Signed(v, l)
    <3>1. outputs[i].by = v /\ i \in 1..Len(outputs)
      BY <1>9, <2>1, <2>2 DEF RequestsInv, Requests, TxsOf
    <3>2. v # "nobody"
      BY WithdrawalAssumption DEF WithdrawalAssumption
    <3> QED BY <1>6, <3>1, <3>2 DEF Grows
  <2>3. CASE v = w /\ l \in done
    <3>1. request[w][l].tx = ts[l] /\ ts[l].inputs \subseteq 1..Len(outputs)
      BY <1>3, <2>3 DEF Signs, PaysBoth, TxsOf
    <3> QED BY <1>5, <1>9, <2>1, <2>3, <3>1
  <2> QED BY <1>7, <1>9, <2>2, <2>3
<1>10. FeeFollows'
  <2> SUFFICES ASSUME NEW v \in Workers, Signed(v, "fee")'
               PROVE  /\ Signed(v, "asset")'
                      /\ request'[v]["fee"].tx.refs = {request'[v]["asset"].tx.inputs}
    BY DEF FeeFollows
  <2>1. "fee" \in Legs /\ "asset" \in Legs
    BY DEF Legs
  <2>2. \A l \in Legs : request'[v][l].tx = request[v][l].tx
    BY <1>3 DEF Signs
  <2>3. CASE Signed(v, "fee")
    <3>1. Signed(v, "asset") /\ request[v]["fee"].tx.refs = {request[v]["asset"].tx.inputs}
      BY <2>3 DEF RequestsInv, FeeFollows
    <3> QED BY <1>7, <2>1, <2>2, <3>1
  <2>4. CASE v = w /\ "fee" \in done
    <3>1. request[w]["fee"].tx = ts["fee"] /\ ts["fee"].refs = {ts["asset"].inputs}
      BY <1>3, <2>4 DEF Signs, PaysBoth
    <3>2. CASE "asset" \in done
      <4>1. request[w]["asset"].tx = ts["asset"]
        BY <1>3, <3>2 DEF Signs
      <4> QED BY <1>7, <2>1, <2>2, <2>4, <3>1, <3>2, <4>1
    <3>3. CASE Refers(w, ts["fee"])
      <4>1. Signed(w, "asset") /\ request[w]["asset"].tx.inputs = ts["asset"].inputs
        BY <3>1, <3>3 DEF Refers
      <4> QED BY <1>7, <2>1, <2>2, <2>4, <3>1, <4>1
    <3> QED BY <1>3, <2>4, <3>2, <3>3 DEF Signs
  <2> QED BY <1>7, <2>1, <2>3, <2>4
<1>11. SendRefused(w, ts) = {} => \A l \in Legs : Signed(w, l)'
  <2> SUFFICES ASSUME SendRefused(w, ts) = {}, NEW l \in Legs PROVE Signed(w, l)'
    OBVIOUS
  <2>1. done = Sendable(w, ts)
    BY HandledIs
  <2>2. Signed(w, l) \/ l \in Sendable(w, ts)
    BY DEF SendRefused
  <2> QED BY <1>7, <2>1, <2>2
<1>12. ASSUME NEW v \in Workers, together, Signed(v, "asset")' PROVE Signed(v, "fee")'
  <2>1. "fee" \in Legs /\ "asset" \in Legs
    BY DEF Legs
  <2>2. CASE Signed(v, "asset")
    BY <1>7, <1>12, <2>1, <2>2 DEF RequestsInv
  <2>3. CASE v = w /\ "asset" \in done
    <3>1. SendRefused(w, ts) = {}
      BY <1>12, <2>3, HandledIs
    <3> QED BY <1>11, <2>1, <2>3, <3>1
  <2> QED BY <1>7, <1>12, <2>1, <2>2, <2>3
<1> QED BY <1>2, <1>6, <1>8, <1>9, <1>10, <1>11, <1>12 DEF RequestsInv

\* So does any step that adds outputs or lets another spend one, and signs
\* nothing.
LEMMA AddedInv ==
  ASSUME RequestsInv, outputs' \in Seq(Output), Grows(outputs, outputs'), together' = together,
         request' \in Requests(Len(outputs)),
         \A v \in Workers, l \in Legs :
           /\ request'[v][l].tx = request[v][l].tx
           /\ request'[v][l].state # "none" => request[v][l].state # "none"
           /\ Signed(v, l)' <=> Signed(v, l)
  PROVE  RequestsInv' /\ Kept
<1>1. /\ Len(outputs) \in Nat /\ Len(outputs') \in Nat /\ Len(outputs) <= Len(outputs')
      /\ outputs \in Seq(Output)
  BY DEF RequestsInv, Grows
<1>2. request' \in Requests(Len(outputs'))
  BY <1>1, TxsGrow
<1>3. ASSUME NEW v \in Workers, NEW l \in Legs, request'[v][l].state # "none"
      PROVE  Pays(v, l, request'[v][l].tx, outputs')
  <2>1. Pays(v, l, request[v][l].tx, outputs)
    BY <1>3 DEF RequestsInv
  <2> QED BY <1>1, <2>1, StillPays
<1>4. ASSUME NEW v \in Workers, NEW l \in Legs, Signed(v, l)', NEW i \in request'[v][l].tx.inputs
      PROVE  outputs'[i].by = v
  <2>1. Signed(v, l) /\ outputs[i].by = v /\ i \in 1..Len(outputs)
    BY <1>4 DEF RequestsInv, Requests, TxsOf
  <2>2. v # "nobody"
    BY WithdrawalAssumption DEF WithdrawalAssumption
  <2> QED BY <2>1, <2>2 DEF Grows
<1>5. "fee" \in Legs /\ "asset" \in Legs
  BY DEF Legs
<1>6. FeeFollows'
  BY <1>5 DEF RequestsInv, FeeFollows
<1>7. \A v \in Workers : together' /\ Signed(v, "asset")' => Signed(v, "fee")'
  BY <1>5 DEF RequestsInv
<1>8. Kept
  BY DEF Kept
<1> QED BY <1>2, <1>3, <1>4, <1>6, <1>7, <1>8 DEF RequestsInv

\* A settlement adds the change of a signed transaction to the wallet.
LEMMA SettleInv ==
  ASSUME RequestsInv, NEW w \in Workers, NEW l \in Legs, Settle(w, l)
  PROVE  RequestsInv' /\ Grows(outputs, outputs') /\ Kept
<1>1. /\ request' = [request EXCEPT ![w][l].state = "spent"]
      /\ request[w][l].state = "signed" /\ together' = together
      /\ outputs' = IF request[w][l].tx.change = 0 THEN outputs
                    ELSE Append(outputs, [asset |-> l, amount |-> request[w][l].tx.change,
                                          by |-> "nobody"])
  BY DEF Settle
<1>2. /\ outputs \in Seq(Output) /\ request[w][l].tx.change \in Nat
      /\ request \in Requests(Len(outputs))
  BY DEF RequestsInv, Requests, TxsOf
<1>3. outputs' \in Seq(Output) /\ Grows(outputs, outputs')
  <2>1. CASE request[w][l].tx.change = 0
    BY <1>1, <1>2, <2>1, SameGrows
  <2>2. CASE request[w][l].tx.change # 0
    <3>1. [asset |-> l, amount |-> request[w][l].tx.change, by |-> "nobody"] \in Output
      BY <1>2, <2>2 DEF Output
    <3> QED BY <1>1, <1>2, <2>2, <3>1 DEF Grows
  <2> QED BY <2>1, <2>2
<1>4. request' \in Requests(Len(outputs))
  BY <1>1, <1>2 DEF Requests, States
<1>5. ASSUME NEW v \in Workers, NEW k \in Legs
      PROVE  /\ request'[v][k].tx = request[v][k].tx
             /\ request'[v][k].state = IF v = w /\ k = l THEN "spent" ELSE request[v][k].state
  BY <1>1, <1>2 DEF Requests
<1>6. \A v \in Workers, k \in Legs :
        /\ request'[v][k].state # "none" => request[v][k].state # "none"
        /\ Signed(v, k)' <=> Signed(v, k)
  BY <1>1, <1>5 DEF Signed
<1> QED BY <1>1, <1>3, <1>4, <1>5, <1>6, AddedInv

\* Another program spends an output that is nobody's.
LEMMA OtherSpendsInv ==
  ASSUME RequestsInv, NEW i \in 1..Len(outputs), OtherSpends(i)
  PROVE  RequestsInv' /\ Grows(outputs, outputs') /\ Kept
<1>1. /\ outputs[i].by = "nobody" /\ outputs' = [outputs EXCEPT ![i].by = "other"]
      /\ request' = request /\ together' = together
  BY DEF OtherSpends
<1>2. outputs \in Seq(Output) /\ \A k \in 1..Len(outputs) : outputs[k] \in Output
  BY DEF RequestsInv
<1>3. outputs' \in Seq(Output) /\ Grows(outputs, outputs')
  <2>1. [outputs[i] EXCEPT !.by = "other"] \in Output
    BY <1>2 DEF Output
  <2>2. outputs' = [outputs EXCEPT ![i] = [outputs[i] EXCEPT !.by = "other"]]
    BY <1>1
  <2>3. outputs' \in Seq(Output) /\ Len(outputs') = Len(outputs)
    BY <1>2, <2>1, <2>2
  <2>4. \A k \in 1..Len(outputs) :
          outputs'[k] = IF k = i THEN [outputs[i] EXCEPT !.by = "other"] ELSE outputs[k]
    BY <1>2, <2>2
  <2>5. ASSUME NEW k \in 1..Len(outputs)
        PROVE  /\ outputs'[k].asset = outputs[k].asset /\ outputs'[k].amount = outputs[k].amount
               /\ outputs[k].by # "nobody" => outputs'[k].by = outputs[k].by
    BY <1>1, <1>2, <2>4 DEF Output
  <2> QED BY <1>2, <2>3, <2>5 DEF Grows
<1>4. request' \in Requests(Len(outputs)) /\ \A v \in Workers, l \in Legs : Signed(v, l)' <=> Signed(v, l)
  BY <1>1 DEF RequestsInv, Signed
<1> QED BY <1>1, <1>3, <1>4, AddedInv

-----------------------------------------------------------------------------
(* The steps *)

\* Both transactions go on paying when outputs are added.
LEMMA BothStillPay ==
  ASSUME outputs \in Seq(Output), outputs' \in Seq(Output), Grows(outputs, outputs'),
         NEW w, NEW ts, PaysBoth(w, ts, outputs)
  PROVE  PaysBoth(w, ts, outputs')
<1>1. Len(outputs) \in Nat /\ Len(outputs') \in Nat /\ Len(outputs) <= Len(outputs')
  BY DEF Grows
<1>2. ts \in [Legs -> TxsOf(Len(outputs'))]
  BY <1>1, TxsGrow DEF PaysBoth
<1>3. ASSUME NEW l \in Legs PROVE Pays(w, l, ts[l], outputs')
  BY StillPays DEF PaysBoth
<1> QED BY <1>2, <1>3 DEF PaysBoth

\* So do the calls on their way, and one that is added to them.
LEMMA LateStill ==
  ASSUME WithdrawalInv, RequestsInv', Grows(outputs, outputs'),
         late' \subseteq late \cup {InFlight(w) : w \in {v \in Workers : pc[v] \in Going}}
  PROVE  LateInv'
<1>1. /\ outputs \in Seq(Output) /\ outputs' \in Seq(Output)
      /\ Len(outputs) \in Nat /\ Len(outputs') \in Nat /\ Len(outputs) <= Len(outputs')
  BY DEF WithdrawalInv, RequestsInv, Grows
<1>2. ASSUME NEW m \in late'
      PROVE  /\ m \in [step : Going, worker : Workers, txs : [Legs -> TxsOf(Len(outputs))]]
             /\ PaysBoth(m.worker, m.txs, outputs)
  <2>1. CASE m \in late
    BY <2>1 DEF WithdrawalInv, LateInv
  <2>2. CASE \E w \in Workers : pc[w] \in Going /\ m = InFlight(w)
    <3>1. PICK w \in Workers : pc[w] \in Going /\ m = InFlight(w)
      BY <2>2
    <3>2. PaysBoth(w, tx[w], outputs) /\ tx[w] \in [Legs -> TxsOf(Len(outputs))]
      BY <3>1 DEF WithdrawalInv, WorkersInv
    <3>3. m = [step |-> pc[w], worker |-> w, txs |-> tx[w]]
      BY <3>1 DEF InFlight
    <3> QED BY <3>1, <3>2, <3>3
  <2> QED BY <1>2, <2>1, <2>2
<1>3. ASSUME NEW m \in late'
      PROVE  /\ m \in [step : Going, worker : Workers, txs : [Legs -> TxsOf(Len(outputs'))]]
             /\ PaysBoth(m.worker, m.txs, outputs')
  <2>1. PaysBoth(m.worker, m.txs, outputs')
    BY <1>1, <1>2, BothStillPay
  <2>2. m \in [step : Going, worker : Workers, txs : [Legs -> TxsOf(Len(outputs))]]
    BY <1>2
  <2>3. [Legs -> TxsOf(Len(outputs))] \subseteq [Legs -> TxsOf(Len(outputs'))]
    BY <1>1, TxsGrow
  <2> QED BY <2>1, <2>2, <2>3
<1> QED BY <1>3 DEF LateInv

\* Workers that build nothing and go nowhere new.
LEMMA WorkersStill ==
  ASSUME WithdrawalInv, RequestsInv', Grows(outputs, outputs'),
         pc' \in [Workers -> Places], err' \in [Workers -> Errors], tx' = tx,
         \A w \in Workers : /\ pc'[w] \in Going => pc[w] \in Going
                            /\ pc'[w] = "fee" => pc[w] = "fee"
  PROVE  WorkersInv'
<1>1. /\ outputs \in Seq(Output) /\ outputs' \in Seq(Output)
      /\ Len(outputs) \in Nat /\ Len(outputs') \in Nat /\ Len(outputs) <= Len(outputs')
  BY DEF WithdrawalInv, RequestsInv, Grows
<1>2. tx' \in [Workers -> [Legs -> TxsOf(Len(outputs'))]]
  <2>1. [Legs -> TxsOf(Len(outputs))] \subseteq [Legs -> TxsOf(Len(outputs'))]
    BY <1>1, TxsGrow
  <2> QED BY <2>1 DEF WithdrawalInv, WorkersInv
<1>3. ASSUME NEW w \in Workers, pc'[w] = "fee"
      PROVE  Pays(w, "asset", tx'[w]["asset"], outputs')
  BY <1>1, <1>3, StillPays DEF WithdrawalInv, WorkersInv
<1>4. ASSUME NEW w \in Workers, pc'[w] \in Going
      PROVE  PaysBoth(w, tx'[w], outputs')
  BY <1>1, <1>4, BothStillPay DEF WithdrawalInv, WorkersInv
<1> QED BY <1>2, <1>3, <1>4 DEF WorkersInv

\* A quote stands while its worker goes on building, or does nothing.
LEMMA QuotedStill ==
  ASSUME Quoted, fee' = fee, \A w \in Workers : pc'[w] \in Legs => pc[w] \in Legs
  PROVE  Quoted'
BY DEF Quoted

\* A call whose answer is lost gives its caller an error that is not the one of a
\* signed trace.
LEMMA LostIsNoResult ==
  ASSUME NEW w \in Workers, FailLost(w)
  PROVE  \E e \in {"timeout", "internal"} : Fail(w, e)
<1>1. PICK c \in RequestsAt(pc[w]) : Fail(w, Outcome(c.style, "lost"))
  BY DEF FailLost
<1>2. Outcome(c.style, "lost") = Failed(c.style, "lost")
  BY DEF Outcome, Codes
<1>3. Outcome(c.style, "lost") \in {"timeout", "internal"}
  BY <1>2 DEF Failed
<1> QED BY <1>1, <1>3

\* What the sequencer has stays in order when it does nothing.
LEMMA IdleInv ==
  ASSUME RequestsInv, outputs' = outputs, request' = request, together' = together
  PROVE  RequestsInv' /\ Grows(outputs, outputs') /\ Kept
<1>1. \A v \in Workers, l \in Legs : Signed(v, l)' <=> Signed(v, l)
  BY DEF Signed
<1>2. request' \in Requests(Len(outputs)) /\ outputs' \in Seq(Output) /\ Grows(outputs, outputs')
  BY SameGrows DEF RequestsInv
<1> QED BY <1>1, <1>2, AddedInv

\* A worker that goes to a place where it has built nothing, and is not told that
\* its withdrawal is made, keeps the invariant when the sequencer does.
LEMMA MoveKeeps ==
  ASSUME WithdrawalInv, NEW w \in Workers, RequestsInv', Grows(outputs, outputs'), Kept, Counters',
         Quoted',
         NEW to \in Places \ (Going \cup {"fee", "ok"}), pc' = [pc EXCEPT ![w] = to],
         NEW e \in Errors \ {"signed"}, err' = err \/ err' = [err EXCEPT ![w] = e],
         tx' = tx, together' = together,
         late' = late \/ late' = LateWith(w)
  PROVE  WithdrawalInv'
<1>1. /\ pc' \in [Workers -> Places] /\ err' \in [Workers -> Errors]
      /\ \A v \in Workers : /\ pc'[v] \in Going => pc[v] \in Going
                            /\ pc'[v] = "fee" => pc[v] = "fee"
                            /\ pc'[v] = "ok" => pc[v] = "ok"
                            /\ err'[v] = "signed" => err[v] = "signed"
  BY DEF WithdrawalInv, WorkersInv
<1>2. WorkersInv'
  BY <1>1, WorkersStill
<1>3. late' \subseteq late \cup {InFlight(v) : v \in {u \in Workers : pc[u] \in Going}}
  BY DEF LateWith, Going
<1>4. LateInv'
  BY <1>3, LateStill
<1>5. ToldMeansWithdrawn'
  BY <1>1, Untold DEF WithdrawalInv
<1> QED BY <1>2, <1>4, <1>5 DEF WithdrawalInv

\* A worker builds its withdrawal, and then the fee that refers to it.
LEMMA BuildKeeps ==
  ASSUME WithdrawalInv, NEW w \in Workers, Build(w)
  PROVE  WithdrawalInv'
<1> DEFINE l == pc[w]
           next == IF l = "asset" THEN "fee" ELSE "verify"
<1>1. /\ l \in Legs /\ pc' = [pc EXCEPT ![w] = next]
      /\ err' = err /\ outputs' = outputs /\ request' = request /\ late' = late
      /\ together' = together /\ faults' = faults /\ others' = others /\ fee' = fee
  BY DEF Build, sequencerVars
<1>2. PICK q : /\ q = Unspent(l) /\ Chosen(w, l, q).ok
               /\ tx' = [tx EXCEPT ![w][l] = RawTx(w, l, q)]
  BY DEF Build
<1>3. /\ outputs \in Seq(Output) /\ tx \in [Workers -> [Legs -> TxsOf(Len(outputs))]]
      /\ "asset" \in Legs /\ "fee" \in Legs
  BY DEF WithdrawalInv, WorkersInv, RequestsInv, Legs
<1>4. tx[w]["asset"].inputs \subseteq 1..Len(outputs)
  BY <1>3 DEF TxsOf
<1> DEFINE t == RawTx(w, l, q)
<1>5. Pays(w, l, t, outputs) /\ (l = "fee" => t.refs = {tx[w]["asset"].inputs})
  <2>1. Price(w, l) \in Prices(w, l)
    BY <1>1 DEF Price, Prices, WithdrawalInv, Quoted
  <2> QED BY <1>1, <1>2, <1>3, <1>4, <2>1, BuiltPays
<1>6. tx' = [tx EXCEPT ![w][l] = t]
  BY <1>2
<1> HIDE DEF t, l, next
<1>7. /\ tx' \in [Workers -> [Legs -> TxsOf(Len(outputs))]]
      /\ \A v \in Workers, k \in Legs : tx'[v][k] = IF v = w /\ k = l THEN t ELSE tx[v][k]
      /\ \A v \in Workers \ {w} : tx'[v] = tx[v]
  BY <1>1, <1>3, <1>5, <1>6 DEF Pays
<1>8. /\ pc' \in [Workers -> Places] /\ err' \in [Workers -> Errors]
      /\ \A v \in Workers : pc'[v] = IF v = w THEN next ELSE pc[v]
  BY <1>1 DEF next, WithdrawalInv, WorkersInv, Places, Legs
<1>9. ASSUME NEW v \in Workers, pc'[v] = "fee"
      PROVE  Pays(v, "asset", tx'[v]["asset"], outputs)
  <2>1. CASE v = w
    BY <1>3, <1>5, <1>7, <1>8, <1>9, <2>1 DEF next
  <2>2. CASE v # w
    BY <1>7, <1>8, <1>9, <2>2 DEF WithdrawalInv, WorkersInv
  <2> QED BY <2>1, <2>2
<1>10. ASSUME NEW v \in Workers, pc'[v] \in Going
       PROVE  PaysBoth(v, tx'[v], outputs)
  <2>1. CASE v = w
    <3>1. l = "fee" /\ pc[w] = "fee"
      BY <1>1, <1>8, <1>10, <2>1 DEF next, l, Going, Legs
    <3>2. tx'[w]["fee"] = t /\ tx'[w]["asset"] = tx[w]["asset"]
      BY <1>3, <1>7, <3>1
    <3>3. Pays(w, "asset", tx[w]["asset"], outputs)
      BY <3>1 DEF WithdrawalInv, WorkersInv
    <3>4. \A k \in Legs : Pays(w, k, tx'[w][k], outputs)
      BY <1>5, <3>1, <3>2, <3>3 DEF Legs
    <3> QED BY <1>5, <1>7, <2>1, <3>1, <3>2, <3>4 DEF PaysBoth
  <2>2. CASE v # w
    BY <1>7, <1>8, <1>10, <2>2 DEF WithdrawalInv, WorkersInv
  <2> QED BY <2>1, <2>2
<1>11. WorkersInv'
  BY <1>1, <1>7, <1>8, <1>9, <1>10 DEF WorkersInv
<1>12. RequestsInv' /\ Grows(outputs, outputs') /\ Kept
  BY <1>1, IdleInv DEF WithdrawalInv
<1>13. LateInv'
  BY <1>1, <1>12, LateStill
<1>14. ToldMeansWithdrawn'
  BY <1>1, <1>8, <1>12, Untold DEF next, WithdrawalInv
<1>15. Quoted'
  <2>1. \A v \in Workers : pc'[v] \in Legs => pc[v] \in Legs
    BY <1>1, <1>8 DEF l
  <2> QED BY <1>1, <2>1, QuotedStill DEF WithdrawalInv
<1> QED BY <1>1, <1>11, <1>12, <1>13, <1>14, <1>15 DEF WithdrawalInv, Counters

\* The calls that verify and send.
LEMMA PostKeeps ==
  ASSUME WithdrawalInv, NEW w \in Workers,
         Verify(w) \/ VerifyLocked(w) \/ Send(w) \/ SendLocked(w)
  PROVE  WithdrawalInv'
<1>1. /\ pc[w] \in Going /\ tx' = tx /\ fee' = fee /\ late' = late /\ together' = together
      /\ faults' = faults /\ others' = others
      /\ Record(w, tx[w]) \/ Accept(w, tx[w])
  BY DEF Verify, VerifyLocked, Send, SendLocked, Going
<1>2. PaysBoth(w, tx[w], outputs)
  BY <1>1 DEF WithdrawalInv, WorkersInv
<1>3. RequestsInv' /\ Grows(outputs, outputs') /\ Kept
  BY <1>1, <1>2, RecordInv, AcceptInv DEF WithdrawalInv
<1>4. Counters' /\ "asset" \in Legs /\ "fee" \in Legs
  BY <1>1 DEF WithdrawalInv, Counters, Legs
<1>8. Quoted'
  <2>1. \E to \in {"failed", "send", "ok"} : pc' = [pc EXCEPT ![w] = to]
    BY DEF Verify, VerifyLocked, Send, SendLocked, Fail
  <2>2. \A v \in Workers : pc'[v] \in Legs => pc[v] \in Legs
    BY <2>1 DEF WithdrawalInv, WorkersInv, Legs
  <2> QED BY <1>1, <2>2, QuotedStill DEF WithdrawalInv
<1>5. CASE VerifyLocked(w) \/ SendLocked(w)
  <2>1. pc' = [pc EXCEPT ![w] = "failed"] /\ err' = [err EXCEPT ![w] = "locked"]
    BY <1>5 DEF VerifyLocked, SendLocked, Fail
  <2>2. "failed" \in Places \ (Going \cup {"fee", "ok"}) /\ "locked" \in Errors \ {"signed"}
    BY DEF Places, Going, Errors, CallError, Codes
  <2> QED BY <1>1, <1>3, <1>4, <1>8, <2>1, <2>2, MoveKeeps
<1>6. CASE Verify(w) /\ Signed(w, "asset")
  <2>1. pc' = [pc EXCEPT ![w] = "failed"] /\ err' = [err EXCEPT ![w] = "signed"]
    BY <1>6 DEF Verify, Fail
  <2>2. /\ pc' \in [Workers -> Places] /\ err' \in [Workers -> Errors]
        /\ \A v \in Workers : /\ pc'[v] \in Going => pc[v] \in Going
                              /\ pc'[v] = "fee" => pc[v] = "fee"
                              /\ pc'[v] = "ok" => pc[v] = "ok"
                              /\ err'[v] = "signed" => v = w \/ err[v] = "signed"
    BY <2>1 DEF WithdrawalInv, WorkersInv, Places, Errors, Going
  <2>3. WorkersInv'
    BY <1>1, <1>3, <2>2, WorkersStill
  <2>4. LateInv'
    BY <1>1, <1>3, LateStill
  <2>5. Signed(w, "asset")' /\ (together' => Signed(w, "fee")')
    BY <1>1, <1>3, <1>4, <1>6 DEF WithdrawalInv, RequestsInv, Kept
  <2>6. ToldMeansWithdrawn'
    BY <1>1, <1>3, <1>4, <2>2, <2>5 DEF WithdrawalInv, ToldMeansWithdrawn, Kept
  <2> QED BY <1>3, <1>4, <1>8, <2>3, <2>4, <2>6 DEF WithdrawalInv
<1>7. CASE (Verify(w) /\ ~Signed(w, "asset")) \/ Send(w)
  <2>1. err' = err /\ \/ Verify(w) /\ pc' = [pc EXCEPT ![w] = "send"]
                      \/ Send(w) /\ pc' = [pc EXCEPT ![w] = "ok"]
    BY <1>7 DEF Verify, Send
  <2>2. /\ pc' \in [Workers -> Places]
        /\ \A v \in Workers : /\ pc'[v] \in Going => pc[v] \in Going
                              /\ pc'[v] = "fee" => pc[v] = "fee"
                              /\ pc'[v] = "ok" => pc[v] = "ok" \/ (v = w /\ Send(w))
    BY <1>1, <2>1 DEF WithdrawalInv, WorkersInv, Places, Going
  <2>3. WorkersInv'
    BY <1>1, <1>3, <2>1, <2>2, WorkersStill DEF WithdrawalInv, WorkersInv
  <2>4. LateInv'
    BY <1>1, <1>3, LateStill
  <2>5. Send(w) => \A l \in Legs : Signed(w, l)'
    BY <1>1, <1>2, AcceptInv DEF Send, WithdrawalInv
  <2>6. ToldMeansWithdrawn'
    BY <1>1, <1>3, <1>4, <2>1, <2>2, <2>5 DEF WithdrawalInv, ToldMeansWithdrawn, Kept
  <2> QED BY <1>3, <1>4, <1>8, <2>3, <2>4, <2>6 DEF WithdrawalInv
<1> QED BY <1>5, <1>6, <1>7

\* A step of the calls of worker w keeps the invariant.
LEMMA CallKeeps ==
  ASSUME WithdrawalInv, NEW w \in Workers, CallStep(w)
  PROVE  WithdrawalInv'
<1>1. CASE Quote(w) \/ BuildInsufficient(w) \/ Retry(w)
  <2>1. /\ tx' = tx /\ outputs' = outputs /\ request' = request /\ late' = late
        /\ together' = together /\ faults' = faults /\ others' = others
    BY <1>1 DEF Quote, BuildInsufficient, Retry, sequencerVars
  <2>2. /\ \E to \in Places \ (Going \cup {"fee", "ok"}) : pc' = [pc EXCEPT ![w] = to]
        /\ \E e \in Errors \ {"signed"} : err' = err \/ err' = [err EXCEPT ![w] = e]
    BY <1>1 DEF Quote, BuildInsufficient, Retry, Fail, Places, Going, Errors, CallError, Codes, Legs
  <2>3. RequestsInv' /\ Grows(outputs, outputs') /\ Kept /\ Counters'
    BY <2>1, IdleInv DEF WithdrawalInv, Counters
  <2>4. CASE Quote(w)
    <3>1. /\ pc' = [pc EXCEPT ![w] = "asset"]
          /\ \E f \in Fee[w] : fee' = [fee EXCEPT ![w] = f]
      BY <2>4 DEF Quote
    <3>2. Fee[w] \subseteq Nat
      BY WithdrawalAssumption DEF WithdrawalAssumption
    <3>3. Quoted'
      BY <3>1, <3>2 DEF WithdrawalInv, WorkersInv, Quoted
    <3> QED BY <2>1, <2>2, <2>3, <3>3, MoveKeeps
  <2>5. CASE BuildInsufficient(w) \/ Retry(w)
    <3>1. fee' = fee /\ \E to \in {"failed", "quote"} : pc' = [pc EXCEPT ![w] = to]
      BY <2>5 DEF BuildInsufficient, Retry, Fail
    <3>2. \A v \in Workers : pc'[v] \in Legs => pc[v] \in Legs
      BY <3>1 DEF WithdrawalInv, WorkersInv, Legs
    <3>3. Quoted'
      BY <3>1, <3>2, QuotedStill DEF WithdrawalInv
    <3> QED BY <2>1, <2>2, <2>3, <3>3, MoveKeeps
  <2> QED BY <1>1, <2>4, <2>5
<1> QED BY <1>1, BuildKeeps, PostKeeps DEF CallStep

\* A timeout, a lost answer or a crash of worker w keeps the invariant.
LEMMA FaultKeeps ==
  ASSUME WithdrawalInv, NEW w \in Workers, FaultStep(w)
  PROVE  WithdrawalInv'
<1>1. /\ tx' = tx /\ fee' = fee /\ together' = together /\ others' = others
      /\ faults' = faults + 1 /\ faults < MaxFaults
      /\ late' = late \/ late' = LateWith(w)
  BY DEF FaultStep, Timeout, AnswerLost, Crash, Fault
<1>2. Counters'
  BY <1>1, WithdrawalAssumption DEF WithdrawalInv, Counters, WithdrawalAssumption
<1>3. /\ \E to \in Places \ (Going \cup {"fee", "ok"}) : pc' = [pc EXCEPT ![w] = to]
      /\ \E e \in Errors \ {"signed"} : err' = [err EXCEPT ![w] = e]
  <2>1. CASE Crash(w)
    BY <2>1 DEF Crash, Places, Going, Errors
  <2>2. CASE FailLost(w)
    BY <2>2, LostIsNoResult DEF Fail, Places, Going, Errors, CallError
  <2> QED BY <2>1, <2>2 DEF FaultStep, Timeout, AnswerLost
<1>4. RequestsInv' /\ Grows(outputs, outputs') /\ Kept
  <2>1. CASE outputs' = outputs /\ request' = request
    BY <1>1, <2>1, IdleInv DEF WithdrawalInv
  <2>2. CASE AnswerLost(w)
    <3>1. pc[w] \in Going /\ (Record(w, tx[w]) \/ Accept(w, tx[w]))
      BY <2>2 DEF AnswerLost, Going
    <3>2. PaysBoth(w, tx[w], outputs)
      BY <3>1 DEF WithdrawalInv, WorkersInv
    <3> QED BY <1>1, <3>1, <3>2, RecordInv, AcceptInv DEF WithdrawalInv
  <2> QED BY <2>1, <2>2 DEF FaultStep, Timeout, Crash
<1>5. Quoted'
  <2>1. \E to \in {"failed", "quote"} : pc' = [pc EXCEPT ![w] = to]
    BY DEF FaultStep, Timeout, AnswerLost, Crash, FailLost, Fail
  <2>2. \A v \in Workers : pc'[v] \in Legs => pc[v] \in Legs
    BY <2>1 DEF WithdrawalInv, WorkersInv, Legs
  <2> QED BY <1>1, <2>2, QuotedStill DEF WithdrawalInv
<1> QED BY <1>1, <1>2, <1>3, <1>4, <1>5, MoveKeeps

\* So does what the sequencer, the kernel and others do on their own.
LEMMA OtherKeeps ==
  ASSUME WithdrawalInv,
         \/ \E m \in late : LateArrives(m)
         \/ \E w \in Workers, l \in Legs : Settle(w, l)
         \/ \E i \in 1..Len(outputs) : OtherSpends(i)
  PROVE  WithdrawalInv'
<1>1. /\ tx' = tx /\ fee' = fee /\ pc' = pc /\ err' = err /\ late' \subseteq late /\ together' = together
  BY DEF LateArrives, Settle, OtherSpends, workerVars
<1>2. RequestsInv' /\ Grows(outputs, outputs') /\ Kept /\ Counters'
  <2>1. ASSUME NEW m \in late, LateArrives(m)
        PROVE  RequestsInv' /\ Grows(outputs, outputs') /\ Kept /\ Counters'
    <3>1. /\ Record(m.worker, m.txs) \/ Accept(m.worker, m.txs)
          /\ faults' = faults /\ others' = others
      BY <2>1 DEF LateArrives
    <3>2. m.worker \in Workers /\ PaysBoth(m.worker, m.txs, outputs)
      BY DEF WithdrawalInv, LateInv
    <3> QED BY <1>1, <3>1, <3>2, RecordInv, AcceptInv DEF WithdrawalInv, Counters
  <2>2. ASSUME NEW w \in Workers, NEW l \in Legs, Settle(w, l)
        PROVE  RequestsInv' /\ Grows(outputs, outputs') /\ Kept /\ Counters'
    BY <2>2, SettleInv DEF WithdrawalInv, Counters, Settle
  <2>3. ASSUME NEW i \in 1..Len(outputs), OtherSpends(i)
        PROVE  RequestsInv' /\ Grows(outputs, outputs') /\ Kept /\ Counters'
    <3>1. others < MaxOthers /\ others' = others + 1 /\ faults' = faults /\ MaxOthers \in Nat
      BY <2>3, WithdrawalAssumption DEF OtherSpends, WithdrawalAssumption
    <3> QED BY <2>3, <3>1, OtherSpendsInv DEF WithdrawalInv, Counters
  <2> QED BY <2>1, <2>2, <2>3
<1>3. WorkersInv'
  BY <1>1, <1>2, WorkersStill DEF WithdrawalInv, WorkersInv
<1>4. LateInv'
  BY <1>1, <1>2, LateStill
<1>5. ToldMeansWithdrawn'
  BY <1>1, <1>2, Untold DEF WithdrawalInv
<1>6. Quoted'
  BY <1>1, QuotedStill DEF WithdrawalInv
<1> QED BY <1>2, <1>3, <1>4, <1>5, <1>6 DEF WithdrawalInv

\* Nothing is signed at first, and the outputs are those of the wallet.
LEMMA InitInv == Init => WithdrawalInv
<1> SUFFICES ASSUME Init PROVE WithdrawalInv
  OBVIOUS
<1>1. /\ Wallet \in Seq([asset : Legs, amount : Nat \ {0}])
      /\ outputs = [i \in 1..Len(Wallet) |->
                      [asset |-> Wallet[i].asset, amount |-> Wallet[i].amount, by |-> "nobody"]]
  BY WithdrawalAssumption DEF WithdrawalAssumption, Init
<1>2. outputs \in Seq(Output)
  <2>1. Len(Wallet) \in Nat /\ \A i \in 1..Len(Wallet) :
          Wallet[i].asset \in Legs /\ Wallet[i].amount \in Nat \ {0}
    <3> DEFINE R == [asset : Legs, amount : Nat \ {0}]
    <3>1. \A r \in R : r.asset \in Legs /\ r.amount \in Nat \ {0}
      OBVIOUS
    <3>2. Wallet \in Seq(R)
      BY <1>1
    <3> HIDE DEF R
    <3>3. Len(Wallet) \in Nat /\ \A i \in 1..Len(Wallet) : Wallet[i] \in R
      BY <3>2
    <3> QED BY <3>1, <3>3
  <2> DEFINE o(i) == [asset |-> Wallet[i].asset, amount |-> Wallet[i].amount, by |-> "nobody"]
  <2>2. \A i \in 1..Len(Wallet) : o(i) \in Output
    BY <2>1 DEF Output
  <2>3. outputs = [i \in 1..Len(Wallet) |-> o(i)]
    BY <1>1
  <2> HIDE DEF o
  <2> QED BY <2>1, <2>2, <2>3
<1>3. NoTx \in TxsOf(Len(outputs))
  BY <1>2 DEF NoTx, TxsOf
<1>4. /\ request = [w \in Workers |-> [l \in Legs |-> NoRequest]]
      /\ tx = [w \in Workers |-> [l \in Legs |-> NoTx]]
  BY DEF Init
<1>5. \A w \in Workers, l \in Legs : request[w][l].state = "none"
  BY <1>4 DEF NoRequest
<1>6. request \in Requests(Len(outputs))
  BY <1>3, <1>4 DEF Requests, NoRequest, States
<1>7. RequestsInv
  <2>1. \A w \in Workers, l \in Legs : ~Signed(w, l)
    BY <1>5 DEF Signed
  <2> QED BY <1>2, <1>5, <1>6, <2>1 DEF Init, RequestsInv, FeeFollows, Legs
<1>8. WorkersInv
  BY <1>3, <1>4 DEF Init, WorkersInv, Places, Going, Errors
<1>9. LateInv /\ Counters /\ ToldMeansWithdrawn
  BY WithdrawalAssumption
  DEF Init, LateInv, Counters, ToldMeansWithdrawn, WithdrawalAssumption
<1>10. Quoted
  BY DEF Init, Quoted, Legs
<1> QED BY <1>7, <1>8, <1>9, <1>10 DEF WithdrawalInv

\* The invariant of the withdrawals holds throughout.
LEMMA WithdrawalInvHolds == Spec => []WithdrawalInv
<1>1. Init => WithdrawalInv
  BY InitInv
<1>2. WithdrawalInv /\ [Next]_vars => WithdrawalInv'
  <2> SUFFICES ASSUME WithdrawalInv, [Next]_vars PROVE WithdrawalInv'
    OBVIOUS
  <2>1. ASSUME NEW w \in Workers, CallStep(w) \/ FaultStep(w) PROVE WithdrawalInv'
    BY <2>1, CallKeeps, FaultKeeps
  <2>2. CASE \/ \E m \in late : LateArrives(m)
             \/ \E w \in Workers, l \in Legs : Settle(w, l)
             \/ \E i \in 1..Len(outputs) : OtherSpends(i)
    BY <2>2, OtherKeeps
  <2>3. CASE UNCHANGED vars
    BY <2>3 DEF vars, workerVars, sequencerVars, WithdrawalInv, WorkersInv, LateInv, RequestsInv,
                Quoted, Counters, FeeFollows, ToldMeansWithdrawn, Signed
  <2> QED BY <2>1, <2>2, <2>3 DEF Next
<1> QED BY <1>1, <1>2, PTL DEF Spec

-----------------------------------------------------------------------------
(* The properties *)

\* Every variable of the withdrawals keeps its type, for wallets, workers and
\* lists of any size: in particular no transaction names an output that is not
\* there.
THEOREM WithdrawalTypes == Spec => []TypeOK
<1>1. WithdrawalInv => TypeOK
  BY DEF WithdrawalInv, WorkersInv, Quoted, LateInv, RequestsInv, Counters, TypeOK, Places, Errors,
         Going, States, Output, Requests, TxsOf, Txs
<1> QED BY <1>1, WithdrawalInvHolds, PTL

\* No fee is ever signed but for the withdrawal that is signed and that it
\* refers to, whether or not the sequencer takes the two together, and whatever
\* is retried, lost, late or restarted: withdrawalTransaction hands the hash of
\* the first to the second, and a call of an older attempt cannot pay for it.
THEOREM FeeIsTied == Spec => []FeeFollows
<1>1. WithdrawalInv => FeeFollows
  BY DEF WithdrawalInv, RequestsInv
<1> QED BY <1>1, WithdrawalInvHolds, PTL

\* A worker that is told its withdrawal is made is told the truth about the
\* withdrawal, and about the fee if the sequencer takes the two together, though
\* withdrawalTransaction looks at neither result and at one state.
THEOREM ToldIsWithdrawn == Spec => []ToldMeansWithdrawn
<1>1. WithdrawalInv => ToldMeansWithdrawn
  BY DEF WithdrawalInv
<1> QED BY <1>1, WithdrawalInvHolds, PTL

\* A withdrawal and its fee each take exactly what they pay, from outputs of
\* their asset and of no other withdrawal, and give the rest back.
THEOREM WithdrawalsExact == Spec => []WithdrawnExactly
<1>1. WithdrawalInv => WithdrawnExactly
  <2> SUFFICES ASSUME WithdrawalInv, NEW w \in Workers, NEW l \in Legs, Signed(w, l)
               PROVE  LET t == request[w][l].tx
                      IN /\ WorthOf(t) = t.change + t.pays
                         /\ t.pays \in (IF l = "asset" THEN {Amount[w]} ELSE Fee[w])
                         /\ \A i \in t.inputs : outputs[i].by = w /\ outputs[i].asset = l
    BY DEF WithdrawnExactly
  <2> DEFINE t == request[w][l].tx
  <2>1. Pays(w, l, t, outputs) /\ \A i \in t.inputs : outputs[i].by = w
    BY DEF WithdrawalInv, RequestsInv, Signed
  <2> HIDE DEF t
  <2>2. WorthOf(t) = Total(AmountsOf(t, outputs))
    BY DEF WorthOf, Worths, AmountsOf
  <2> QED BY <2>1, <2>2 DEF Pays, Prices, t
<1> QED BY <1>1, WithdrawalInvHolds, PTL

-----------------------------------------------------------------------------
(* Reading the balance meanwhile: the theorems about Wallet *)

\* Whatever a step of the withdrawals does, the outputs that were there stay
\* where they are with their amounts, none that is spent comes back, and what is
\* signed stays.
LEMMA OutputsGrow ==
  ASSUME WithdrawalInv, [Next]_vars
  PROVE  Grows(outputs, outputs') /\ Kept
<1>1. outputs \in Seq(Output) /\ RequestsInv
  BY DEF WithdrawalInv, RequestsInv
<1>2. ASSUME NEW w \in Workers, NEW ts, PaysBoth(w, ts, outputs), together' = together,
             Record(w, ts) \/ Accept(w, ts)
      PROVE  Grows(outputs, outputs') /\ Kept
  BY <1>1, <1>2, RecordInv, AcceptInv
<1>3. ASSUME NEW w \in Workers, CallStep(w) PROVE Grows(outputs, outputs') /\ Kept
  <2>1. CASE Quote(w) \/ Build(w) \/ BuildInsufficient(w) \/ Retry(w)
    BY <1>1, <2>1, IdleInv DEF Quote, Build, BuildInsufficient, Retry, sequencerVars
  <2>2. CASE Verify(w) \/ VerifyLocked(w) \/ Send(w) \/ SendLocked(w)
    <3>1. /\ pc[w] \in Going /\ together' = together
          /\ Record(w, tx[w]) \/ Accept(w, tx[w])
      BY <2>2 DEF Verify, VerifyLocked, Send, SendLocked, Going
    <3>2. PaysBoth(w, tx[w], outputs)
      BY <3>1 DEF WithdrawalInv, WorkersInv
    <3> QED BY <1>2, <3>1, <3>2
  <2> QED BY <1>3, <2>1, <2>2 DEF CallStep
<1>4. ASSUME NEW w \in Workers, FaultStep(w) PROVE Grows(outputs, outputs') /\ Kept
  <2>1. CASE Timeout(w) \/ Crash(w)
    BY <1>1, <2>1, IdleInv DEF Timeout, Crash
  <2>2. CASE AnswerLost(w)
    <3>1. /\ pc[w] \in Going /\ together' = together
          /\ Record(w, tx[w]) \/ Accept(w, tx[w])
      BY <2>2 DEF AnswerLost, Going
    <3>2. PaysBoth(w, tx[w], outputs)
      BY <3>1 DEF WithdrawalInv, WorkersInv
    <3> QED BY <1>2, <3>1, <3>2
  <2> QED BY <1>4, <2>1, <2>2 DEF FaultStep
<1>5. ASSUME NEW m \in late, LateArrives(m) PROVE Grows(outputs, outputs') /\ Kept
  <2>1. /\ Record(m.worker, m.txs) \/ Accept(m.worker, m.txs)
        /\ together' = together
    BY <1>5 DEF LateArrives
  <2>2. m.worker \in Workers /\ PaysBoth(m.worker, m.txs, outputs)
    BY DEF WithdrawalInv, LateInv
  <2> QED BY <1>2, <2>1, <2>2
<1>6. ASSUME NEW w \in Workers, NEW l \in Legs, Settle(w, l) PROVE Grows(outputs, outputs') /\ Kept
  BY <1>1, <1>6, SettleInv
<1>7. ASSUME NEW i \in 1..Len(outputs), OtherSpends(i) PROVE Grows(outputs, outputs') /\ Kept
  BY <1>1, <1>7, OtherSpendsInv
<1>8. CASE UNCHANGED vars
  BY <1>1, <1>8, IdleInv DEF vars, sequencerVars
<1> QED BY <1>3, <1>4, <1>5, <1>6, <1>7, <1>8 DEF Next

\* Nothing signed is ever taken back or altered, and no output loses its amount,
\* its place or who spent it, in any order of retries, restarts and late calls.
THEOREM NothingIsTakenBack == Spec => [][Kept /\ Grows(outputs, outputs')]_vars
<1>1. WithdrawalInv /\ [Next]_vars => Kept /\ Grows(outputs, outputs')
  BY OutputsGrow
<1> QED BY <1>1, WithdrawalInvHolds, PTL DEF Spec

\* What outputs o at some indices are worth, those of an asset.
AmountsIn(o) == [i \in 1..Len(o) |-> o[i].amount]
WorthOver(o, S, a) == SumAt({i \in S : o[i].asset = a}, AmountsIn(o))

LEMMA CountedIs ==
  /\ CountedOnce <=> \A a \in Legs : total[a] = WorthOver(outputs, filter, a)
  /\ CountedOnce' <=> \A a \in Legs : total'[a] = WorthOver(outputs', filter', a)
  /\ \A S, a : Reader!WorthIn(S, a) = WorthOver(outputs, S, a)
<1>1. \A S, a : Reader!WorthIn(S, a) = WorthOver(outputs, S, a)
  BY DEF Reader!WorthIn, Reader!SumAt, Reader!Total, Reader!Totals,
         WorthOver, AmountsIn, SumAt, Total, Totals
<1>2. \A a : Reader!WorthIn(filter, a)' = WorthOver(outputs', filter', a)
  BY DEF Reader!WorthIn, Reader!SumAt, Reader!Total, Reader!Totals,
         WorthOver, AmountsIn, SumAt, Total, Totals
<1> QED BY <1>1, <1>2 DEF CountedOnce, Reader!CountedOnce

LEMMA AmountsInAre ==
  ASSUME NEW o \in Seq(Output)
  PROVE  /\ Len(o) \in Nat /\ Len(AmountsIn(o)) = Len(o)
         /\ \A i \in 1..Len(o) : AmountsIn(o)[i] = o[i].amount /\ o[i].amount \in Nat
         /\ Numbers(AmountsIn(o))
<1>1. Len(o) \in Nat /\ \A i \in 1..Len(o) : o[i] \in Output
  OBVIOUS
<1>2. \A i \in 1..Len(o) : o[i].amount \in Nat
  BY <1>1 DEF Output
<1>3. Len(AmountsIn(o)) = Len(o) /\ \A i \in 1..Len(o) : AmountsIn(o)[i] = o[i].amount
  BY <1>1 DEF AmountsIn
<1> QED BY <1>1, <1>2, <1>3 DEF Numbers

\* What is counted is worth the same when the outputs grow.
LEMMA WorthStays ==
  ASSUME NEW o \in Seq(Output), NEW n \in Seq(Output), Grows(o, n),
         NEW S \in SUBSET (1..Len(o)), NEW a
  PROVE  WorthOver(n, S, a) = WorthOver(o, S, a)
<1> DEFINE T == {i \in S : o[i].asset = a}
<1>1. {i \in S : n[i].asset = a} = T
  BY DEF Grows
<1>2. /\ Len(AmountsIn(o)) \in Nat /\ Len(AmountsIn(n)) \in Nat
      /\ Len(AmountsIn(o)) <= Len(AmountsIn(n)) /\ Numbers(AmountsIn(o))
  BY AmountsInAre DEF Grows
<1>3. \A i \in 1..Len(AmountsIn(o)) : AmountsIn(n)[i] = AmountsIn(o)[i]
  <2>1. \A i \in 1..Len(o) : i \in 1..Len(n) /\ n[i].amount = o[i].amount
    BY AmountsInAre DEF Grows
  <2> QED BY <2>1, AmountsInAre
<1>4. \A i \in T : i \in 1..Len(AmountsIn(o))
  BY AmountsInAre
<1> HIDE DEF T
<1>5. SumAt(T, AmountsIn(n)) = SumAt(T, AmountsIn(o))
  BY <1>2, <1>3, <1>4, SumAtGrown
<1> QED BY <1>1, <1>5 DEF WorthOver, T

\* Where the reader is.  While it reads, it has counted what there is to count
\* up to its offset, and nothing beyond: later outputs come after it, and one
\* that is spent does not come back.
ReadingInv ==
  /\ reads \in Reader!Readings /\ at \in {"start", "page", "fetch", "done", "failed"}
  /\ offset \in 0..Len(outputs) /\ begun \in 0..Len(outputs)
  /\ filter \in SUBSET (1..Len(outputs))
  /\ CountedOnce
  /\ at = "start" => offset = 0 /\ filter = {}
  /\ at = "page" =>
       /\ \A i \in filter : i <= offset
       /\ \A i \in 1..offset : Reader!Asked(i) => i \in filter
       /\ reads = "UserAssetBalance" => offset = 0
  /\ NothingMissed

\* No step of the withdrawals makes an output of before to be listed again.
LEMMA WithdrawalsKeepReading ==
  ASSUME ReadingInv, outputs \in Seq(Output), outputs' \in Seq(Output),
         Grows(outputs, outputs'), UNCHANGED readVars
  PROVE  ReadingInv'
<1>1. /\ Len(outputs) \in Nat /\ Len(outputs') \in Nat /\ Len(outputs) <= Len(outputs')
      /\ filter \in SUBSET (1..Len(outputs))
      /\ reads' = reads /\ at' = at /\ offset' = offset /\ filter' = filter
      /\ total' = total /\ begun' = begun
  BY DEF Grows, ReadingInv, readVars
<1>2. \A i \in 1..Len(outputs) : Reader!Asked(i)' => Reader!Asked(i)
  BY <1>1 DEF Reader!Asked, Grows
<1>3. CountedOnce'
  <2>1. \A a \in Legs : total[a] = WorthOver(outputs, filter, a)
    BY CountedIs DEF ReadingInv
  <2>2. \A a \in Legs : WorthOver(outputs', filter, a) = WorthOver(outputs, filter, a)
    BY <1>1, WorthStays
  <2>3. \A a \in Legs : total'[a] = WorthOver(outputs', filter', a)
    BY <1>1, <2>1, <2>2
  <2> QED BY <2>3, CountedIs
<1>4. NothingMissed'
  <2>1. \A i \in 1..begun : i \in 1..Len(outputs)
    BY <1>1 DEF ReadingInv
  <2> QED BY <1>1, <1>2, <2>1 DEF ReadingInv, NothingMissed, Reader!NothingMissed, Reader!HasAll
<1>5. at' = "page" =>
        /\ \A i \in filter' : i <= offset'
        /\ \A i \in 1..offset' : Reader!Asked(i)' => i \in filter'
        /\ reads' = "UserAssetBalance" => offset' = 0
  <2>1. \A i \in 1..offset : i \in 1..Len(outputs)
    BY <1>1 DEF ReadingInv
  <2> QED BY <1>1, <1>2, <2>1 DEF ReadingInv
<1>6. offset' \in 0..Len(outputs') /\ begun' \in 0..Len(outputs') /\ filter' \in SUBSET (1..Len(outputs'))
  BY <1>1 DEF ReadingInv
<1> QED BY <1>1, <1>3, <1>4, <1>5, <1>6 DEF ReadingInv

LEMMA PageSizeIs == PageSize \in Nat /\ PageSize > 1 /\ Wanted \in Legs
BY WalletAssumption DEF Reader!PagingAssumption

LEMMA SeqWider ==
  ASSUME NEW A, NEW B, A \subseteq B, NEW q \in Seq(A)
  PROVE  q \in Seq(B) /\ Len(q) \in Nat /\ \A k \in 1..Len(q) : q[k] \in A
OBVIOUS

\* A page has the first there is to list, in order, and all of it if it is not
\* full.
LEMMA PageIs ==
  ASSUME outputs \in Seq(Output), NEW first \in Nat, NEW page, page = Reader!Page(first)
  PROVE  /\ page \in Seq(1..Len(outputs)) /\ Len(page) <= PageSize /\ Increasing(page)
         /\ \A k \in 1..Len(page) : first <= page[k] /\ Reader!Asked(page[k])
         /\ \A k \in 1..Len(page) : \A i \in 1..page[k] :
              first <= i /\ Reader!Asked(i) => i \in Reader!Of(page)
         /\ Len(page) < PageSize =>
              \A i \in 1..Len(outputs) :
                first <= i /\ Reader!Asked(i) => i \in Reader!Of(page)
<1> DEFINE S == Reader!AskedFrom(first)
           n == Len(outputs)
<1>1. n \in Nat /\ PageSize \in Nat
  BY PageSizeIs
<1>2. \A i : i \in S <=> i \in 1..n /\ first <= i /\ Reader!Asked(i)
  BY DEF Reader!AskedFrom
<1>3. page = Listed(S, n, PageSize)
  BY DEF Reader!Page, Reader!Listed, Reader!InOrder, Listed, InOrder
<1> HIDE DEF S, n
<1>4. /\ page \in Seq(S \cap (1..n)) /\ Increasing(page)
      /\ \A k \in 1..Len(page) : \A x \in S : x \in 1..page[k] => Holds(SubSeq(page, 1, k), x)
  <2>1. /\ Listed(S, n, PageSize) \in Seq(S \cap (1..n)) /\ Increasing(Listed(S, n, PageSize))
        /\ \A k \in 1..Len(Listed(S, n, PageSize)) : \A x \in S :
             x \in 1..Listed(S, n, PageSize)[k]
               => Holds(SubSeq(Listed(S, n, PageSize), 1, k), x)
    BY <1>1, ListedIs, Zenon
  <2> QED BY <1>3, <2>1, Zenon
<1>5. /\ Len(page) <= PageSize
      /\ Len(page) < PageSize => \A x \in S \cap (1..n) : Holds(page, x)
  <2>1. /\ Len(Listed(S, n, PageSize)) <= PageSize
        /\ Len(Listed(S, n, PageSize)) < PageSize =>
             \A x \in S \cap (1..n) : Holds(Listed(S, n, PageSize), x)
    BY <1>1, ListedAll, Zenon
  <2> QED BY <1>3, <2>1, Zenon
<1>6. /\ Len(page) \in Nat /\ S \cap (1..n) \subseteq 1..n
      /\ \A k \in 1..Len(page) : page[k] \in S /\ page[k] \in 1..n
  <2>1. page \in Seq(S \cap (1..n)) /\ S \cap (1..n) \subseteq 1..n
    BY <1>4
  <2>2. Len(page) \in Nat /\ \A k \in 1..Len(page) : page[k] \in S \cap (1..n)
    BY <2>1, SeqWider, Zenon
  <2> QED BY <2>1, <2>2
<1>7. page \in Seq(1..n)
  <2>1. page \in Seq(S \cap (1..n)) /\ S \cap (1..n) \subseteq 1..n
    BY <1>4, <1>6
  <2> QED BY <2>1, SeqWider, Zenon
<1>8. \A i : Holds(page, i) => i \in Reader!Of(page)
  BY DEF Reader!Of, Holds
<1>9. ASSUME NEW k \in 1..Len(page), NEW i \in 1..page[k], first <= i, Reader!Asked(i)
      PROVE  i \in Reader!Of(page)
  <2>1. i \in 1..n
    BY <1>1, <1>6
  <2>2. Holds(SubSeq(page, 1, k), i)
    BY <1>2, <1>4, <1>9, <2>1
  <2>3. Len(SubSeq(page, 1, k)) = k /\ \A j \in 1..k : SubSeq(page, 1, k)[j] = page[j] /\ j \in 1..Len(page)
    BY <1>6, <1>7
  <2> QED BY <1>8, <2>2, <2>3 DEF Holds
<1>10. Len(page) < PageSize =>
         \A i \in 1..n : first <= i /\ Reader!Asked(i) => i \in Reader!Of(page)
  BY <1>2, <1>5, <1>8
<1> QED BY <1>2, <1>4, <1>5, <1>6, <1>7, <1>9, <1>10 DEF n

\* A page has as many outputs as it is long.
LEMMA PageCounts ==
  ASSUME NEW n \in Nat, NEW page \in Seq(1..n), Increasing(page)
  PROVE  Cardinality(Reader!Of(page)) = Len(page)
<1> DEFINE S == Reader!Of(page)
<1>1. S = {page[k] : k \in 1..Len(page)} /\ Len(page) \in Nat
  BY DEF Reader!Of
<1>2. page \in [1..Len(page) -> S]
  BY <1>1
<1>3. \A j, k \in 1..Len(page) : page[j] = page[k] => j = k
  <2> SUFFICES ASSUME NEW j \in 1..Len(page), NEW k \in 1..Len(page), page[j] = page[k]
               PROVE  j = k
    OBVIOUS
  <2>1. page[j] \in Int /\ page[k] \in Int
    BY <1>2 DEF Reader!Of
  <2>2. ~(j < k) /\ ~(k < j)
    BY <2>1 DEF Increasing
  <2> QED BY <2>2
<1>4. \A x \in S : \E k \in 1..Len(page) : page[k] = x
  BY <1>1
<1> HIDE DEF S
<1>5. page \in Bijection(1..Len(page), S)
  BY <1>2, <1>3, <1>4, Fun_IsBij
<1>6. Cardinality(S) = Len(page)
  BY <1>1, <1>5, FS_CountingElements, Fun_ExistsBij
<1> QED BY <1>6 DEF S

\* A page keeps what is counted in step with the filter: none of its outputs is
\* added that was known.
LEMMA PageKeepsCount ==
  ASSUME ReadingInv, outputs \in Seq(Output), outputs' = outputs,
         NEW page, Reader!Of(page) \in SUBSET (1..Len(outputs)),
         total' = Reader!Added(page), filter' = filter \cup Reader!Of(page)
  PROVE  CountedOnce'
<1> DEFINE new == Reader!Of(page) \ filter
<1>1. \A a \in Legs : total'[a] = total[a] + WorthOver(outputs, new, a)
  BY CountedIs DEF Reader!Added
<1>2. \A a \in Legs : total[a] = WorthOver(outputs, filter, a)
  BY CountedIs DEF ReadingInv
<1>3. filter' = filter \cup new /\ filter \cap new = {}
  OBVIOUS
<1> HIDE DEF new
<1>4. ASSUME NEW a \in Legs
      PROVE  WorthOver(outputs, filter', a)
               = WorthOver(outputs, filter, a) + WorthOver(outputs, new, a)
  <2> DEFINE A == {i \in filter : outputs[i].asset = a}
             B == {i \in new : outputs[i].asset = a}
  <2>1. {i \in filter' : outputs[i].asset = a} = A \cup B /\ A \cap B = {}
    BY <1>3
  <2> HIDE DEF A, B
  <2>2. SumAt(A \cup B, AmountsIn(outputs)) = SumAt(A, AmountsIn(outputs)) + SumAt(B, AmountsIn(outputs))
    BY <2>1, AmountsInAre, SumAtUnion
  <2> QED BY <2>1, <2>2 DEF WorthOver, A, B
<1>5. \A a \in Legs : total'[a] = WorthOver(outputs', filter', a)
  BY <1>1, <1>2, <1>4
<1> QED BY <1>5, CountedIs

\* A page leaves nothing behind: the offset moves to its last output if there
\* may be more, since a full page ends beyond what is known, and the last page
\* has all that is left.
LEMMA PageKeepsReading ==
  ASSUME ReadingInv, outputs \in Seq(Output), Reader!ReadPage
  PROVE  ReadingInv'
<1>1. /\ at = "page" /\ outputs' = outputs /\ reads' = reads /\ begun' = begun
      /\ Len(outputs) \in Nat /\ offset \in 0..Len(outputs)
  BY DEF Reader!ReadPage, ReadingInv
<1>2. PICK page \in {Reader!Page(offset), Reader!Page(offset + 1)} :
        /\ total' = Reader!Added(page)
        /\ filter' = filter \cup Reader!Of(page)
        /\ offset' = Reader!NextOffset(page)
        /\ at' = IF Reader!LastPage(page) THEN Reader!AfterPages(filter') ELSE "page"
  BY DEF Reader!ReadPage
<1>3. PICK first \in {offset, offset + 1} : page = Reader!Page(first)
  BY <1>2
<1>4. first \in Nat
  BY <1>1
<1> DEFINE n == Len(outputs)
<1>5. /\ page \in Seq(1..n) /\ Len(page) <= PageSize /\ Increasing(page)
      /\ \A k \in 1..Len(page) : first <= page[k]
      /\ \A k \in 1..Len(page) : \A i \in 1..page[k] :
           first <= i /\ Reader!Asked(i) => i \in Reader!Of(page)
      /\ Len(page) < PageSize =>
           \A i \in 1..n : first <= i /\ Reader!Asked(i) => i \in Reader!Of(page)
  BY <1>3, <1>4, PageIs
<1>6. /\ Len(page) \in Nat /\ \A k \in 1..Len(page) : page[k] \in 1..n
      /\ Reader!Of(page) \in SUBSET (1..n)
      /\ \A i \in Reader!Of(page) : \E k \in 1..Len(page) : page[k] = i
  BY <1>5 DEF Reader!Of
<1>7. /\ \A i \in filter : i <= offset
      /\ \A i \in 1..offset : Reader!Asked(i) => i \in filter
      /\ reads = "UserAssetBalance" => offset = 0
      /\ filter \in SUBSET (1..n) /\ begun \in 0..n
  BY <1>1 DEF ReadingInv
<1>8. \A i : Reader!Asked(i)' <=> Reader!Asked(i)
  BY <1>1 DEF Reader!Asked
<1>9. CountedOnce'
  BY <1>1, <1>2, <1>6, PageKeepsCount
<1>10. offset' \in 0..n
  BY <1>1, <1>2, <1>6 DEF Reader!NextOffset
<1>11. filter' \in SUBSET (1..n)
  BY <1>2, <1>6, <1>7
<1>12. CASE Len(page) < PageSize
  <2>1. at' \in {"fetch", "done"}
    BY <1>2, <1>12 DEF Reader!LastPage, Reader!AfterPages
  <2>2. \A i \in 1..n : Reader!Asked(i) => i \in filter'
    <3> SUFFICES ASSUME NEW i \in 1..n, Reader!Asked(i) PROVE i \in filter'
      OBVIOUS
    <3>1. i \in 1..offset \/ first <= i
      BY <1>1, <1>3
    <3> QED BY <1>2, <1>5, <1>7, <1>12, <3>1
  <2>3. Reader!HasAll'
    BY <1>1, <1>7, <1>8, <2>2 DEF Reader!HasAll
  <2> QED BY <1>1, <1>9, <1>10, <1>11, <2>1, <2>3 DEF ReadingInv, NothingMissed, Reader!NothingMissed
<1>13. CASE Len(page) = PageSize /\ reads = "UserAssetBalance"
  <2>1. at' = "done"
    BY <1>2, <1>13 DEF Reader!LastPage, Reader!AfterPages
  <2>2. filter = {}
    BY <1>7, <1>13
  <2>3. Cardinality(filter') = PageSize
    <3>1. filter' = Reader!Of(page)
      BY <1>2, <2>2
    <3> QED BY <1>1, <1>5, <1>13, <3>1, PageCounts
  <2>4. Reader!Cardinality(filter') = PageSize
    BY <2>3 DEF Reader!Cardinality, Cardinality
  <2> QED BY <1>1, <1>7, <1>9, <1>10, <1>11, <1>13, <2>1, <2>4
          DEF ReadingInv, NothingMissed, Reader!NothingMissed
<1>14. CASE Len(page) = PageSize /\ reads # "UserAssetBalance"
  <2>1. at' = "page"
    BY <1>2, <1>14, PageSizeIs DEF Reader!LastPage
  <2> DEFINE last == page[Len(page)]
  <2>2. 1 \in 1..Len(page) /\ Len(page) \in 1..Len(page) /\ 1 < Len(page) /\ page # <<>>
    BY <1>5, <1>6, <1>14, PageSizeIs
  <2>3. page[1] < last /\ first <= page[1] /\ page[1] \in 1..n /\ last \in 1..n
    BY <1>5, <1>6, <2>2 DEF Increasing
  <2>4. offset < last
    BY <1>1, <1>3, <2>3
  <2>5. last \notin filter
    BY <1>1, <1>7, <2>3, <2>4
  <2>6. offset' = last
    BY <1>2, <2>2, <2>5 DEF Reader!NextOffset
  <2>7. \A k \in 1..Len(page) : page[k] <= last
    <3> SUFFICES ASSUME NEW k \in 1..Len(page) PROVE page[k] <= last
      OBVIOUS
    <3>1. CASE k = Len(page)
      BY <1>6, <3>1
    <3>2. CASE k < Len(page)
      BY <1>5, <1>6, <2>2, <3>2 DEF Increasing
    <3> QED BY <3>1, <3>2
  <2>8. \A i \in filter' : i <= offset'
    <3> SUFFICES ASSUME NEW i \in filter' PROVE i <= last
      BY <2>6
    <3>1. CASE i \in filter
      BY <1>1, <1>7, <2>3, <2>4, <3>1
    <3>2. CASE i \in Reader!Of(page)
      BY <1>6, <2>7, <3>2
    <3> QED BY <1>2, <3>1, <3>2
  <2>9. \A i \in 1..offset' : Reader!Asked(i)' => i \in filter'
    <3> SUFFICES ASSUME NEW i \in 1..last, Reader!Asked(i) PROVE i \in filter'
      BY <1>8, <2>6
    <3>1. i \in 1..offset \/ first <= i
      BY <1>1, <1>3, <2>3
    <3> QED BY <1>2, <1>5, <1>7, <2>2, <3>1
  <2> QED BY <1>1, <1>7, <1>9, <1>10, <1>11, <1>14, <2>1, <2>8, <2>9
          DEF ReadingInv, NothingMissed, Reader!NothingMissed
<1> QED BY <1>5, <1>6, <1>12, <1>13, <1>14, PageSizeIs

\* The other steps of the reader: it begins to read, or ends.
LEMMA ReaderKeepsReading ==
  ASSUME ReadingInv, outputs \in Seq(Output), Reader!ReaderStep, UNCHANGED vars
  PROVE  ReadingInv'
<1>1. CASE Reader!ReadPage
  BY <1>1, PageKeepsReading
<1>2. CASE Reader!Begin \/ Reader!PageError \/ Reader!Fetch
  <2>1. /\ outputs' = outputs /\ reads' = reads /\ offset' = offset /\ filter' = filter
        /\ total' = total /\ Len(outputs) \in Nat
    BY <1>2 DEF Reader!Begin, Reader!PageError, Reader!Fetch
  <2>2. CountedOnce'
    BY <2>1, CountedIs DEF ReadingInv
  <2>3. CASE Reader!Begin
    BY <2>1, <2>2, <2>3 DEF Reader!Begin, ReadingInv, NothingMissed, Reader!NothingMissed
  <2>4. CASE Reader!PageError
    BY <2>1, <2>2, <2>4 DEF Reader!PageError, ReadingInv, NothingMissed, Reader!NothingMissed
  <2>5. CASE Reader!Fetch
    <3>1. at = "fetch" /\ at' \in {"done", "failed"} /\ begun' = begun
      BY <2>5 DEF Reader!Fetch
    <3>2. \A i : Reader!Asked(i)' <=> Reader!Asked(i)
      BY <2>1 DEF Reader!Asked
    <3>3. NothingMissed'
      BY <2>1, <3>1, <3>2 DEF ReadingInv, NothingMissed, Reader!NothingMissed, Reader!HasAll
    <3> QED BY <2>1, <2>2, <3>1, <3>3 DEF ReadingInv
  <2> QED BY <1>2, <2>3, <2>4, <2>5
<1> QED BY <1>1, <1>2 DEF Reader!ReaderStep

LEMMA InitReading == InitWallet => ReadingInv
<1> SUFFICES ASSUME InitWallet PROVE ReadingInv
  OBVIOUS
<1>1. /\ reads \in Reader!Readings /\ at = "start" /\ offset = 0 /\ filter = {} /\ begun = 0
      /\ total = [a \in Legs |-> 0]
  BY DEF InitWallet, Reader!InitReader
<1>2. outputs \in Seq(Output) /\ Len(outputs) \in Nat
  BY InitInv DEF InitWallet, WithdrawalInv, RequestsInv
<1>3. \A a \in Legs : WorthOver(outputs, {}, a) = 0
  <2> SUFFICES ASSUME NEW a \in Legs PROVE WorthOver(outputs, {}, a) = 0
    OBVIOUS
  <2>1. {i \in {} : outputs[i].asset = a} = {}
    OBVIOUS
  <2>2. SumAt({}, AmountsIn(outputs)) = 0
    BY <1>2, AmountsInAre, SumAtNone
  <2> QED BY <2>1, <2>2 DEF WorthOver
<1>4. CountedOnce
  BY <1>1, <1>3, CountedIs
<1> QED BY <1>1, <1>2, <1>4 DEF ReadingInv, NothingMissed, Reader!NothingMissed

\* The balance is read beside the withdrawals and changes nothing of theirs:
\* what is proved of a wallet that withdraws holds while it is read.
THEOREM ReadingIsApart == SpecWallet => Spec
<1>1. InitWallet => Init
  BY DEF InitWallet
<1>2. [NextWallet]_walletVars => [Next]_vars
  BY DEF NextWallet, Rest, walletVars
<1> QED BY <1>1, <1>2, PTL DEF SpecWallet, Spec

LEMMA ReadingInvHolds == SpecWallet => []ReadingInv
<1>1. InitWallet => ReadingInv
  BY InitReading
<1>2. WithdrawalInv /\ WithdrawalInv' /\ ReadingInv /\ [NextWallet]_walletVars => ReadingInv'
  <2> SUFFICES ASSUME WithdrawalInv, WithdrawalInv', ReadingInv, [NextWallet]_walletVars
               PROVE  ReadingInv'
    OBVIOUS
  <2>1. outputs \in Seq(Output) /\ outputs' \in Seq(Output)
    BY DEF WithdrawalInv, RequestsInv
  <2>2. CASE Reader!ReaderStep /\ UNCHANGED vars
    BY <2>1, <2>2, ReaderKeepsReading
  <2>3. CASE [Next]_vars /\ UNCHANGED readVars
    <3>1. Grows(outputs, outputs')
      BY <2>3, OutputsGrow
    <3> QED BY <2>1, <2>3, <3>1, WithdrawalsKeepReading
  <2> QED BY <2>2, <2>3 DEF NextWallet, Rest, walletVars
<1>3. SpecWallet => []WithdrawalInv
  BY ReadingIsApart, WithdrawalInvHolds, PTL
<1> QED BY <1>1, <1>2, <1>3, PTL DEF SpecWallet

\* A balance is never short of an output that was there when its reading began
\* and is unspent when it ends, for pages of any size above one and a list that
\* starts at its offset or after it, whatever withdrawals spend and return
\* between the pages; UserAssetBalance, which reads one page, misses what is
\* beyond it.
THEOREM NoOutputIsMissed == SpecWallet => []NothingMissed
<1>1. ReadingInv => NothingMissed
  BY DEF ReadingInv
<1> QED BY <1>1, ReadingInvHolds, PTL

\* The balance of every asset is what the outputs found are worth, each once,
\* though pages overlap: the filters of asset.go.
THEOREM NoOutputIsCountedTwice == SpecWallet => []CountedOnce
<1>1. ReadingInv => CountedOnce
  BY DEF ReadingInv
<1> QED BY <1>1, ReadingInvHolds, PTL
=============================================================================
