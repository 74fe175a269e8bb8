------------------------- MODULE SafeTransferProofs -------------------------
(***************************************************************************)
(* What a worker of SafeTransfer is told about its payment is so, for any  *)
(* wallet, payments, retries, faults and number of workers per trace.      *)
(* What is signed is worth what it pays and spends its outputs alone, no   *)
(* worker panics, and the payments implement Purse.                        *)
(***************************************************************************)
EXTENDS SafeTransfer, RawTransactionProofs

States == {"none", "unspent", "signed", "spent"}
Errors == {"none", "insufficient", "signed", "locked", "timeout", "internal"}

\* The shapes the argument needs: what a transaction is does not matter to it.
Shape ==
  /\ pc \in [Workers -> {"lookup", "start", "verify", "send", "ok", "exists", "failed", "panic"}]
  /\ err \in [Workers -> Errors]
  /\ DOMAIN tx = Workers /\ tx = [w \in Workers |-> tx[w]]
  /\ request = [p \in Payments |-> [state |-> request[p].state, tx |-> request[p].tx]]
  /\ \A p \in Payments : request[p].state \in States

Inv == Shape /\ ToldMeansPaid

\* A call that is still on its way is about one of the payments.
LateTraced == \A m \in late : m.trace \in Payments

\* The initial state: nobody has been told anything.
LEMMA InitInv == Init => Inv
BY DEF Init, First, Inv, Shape, States, Errors, ToldMeansPaid, NoTx, NoRequest

\* A step of the sequencer never takes a signed request back, nor replaces its
\* transaction.
Kept == \A p \in Payments : Signed(p) =>
          request'[p].state \in {"signed", "spent"} /\ request'[p].tx = request[p].tx

\* Recording a verification keeps the signed requests and the shape.
LEMMA RecordKeeps ==
  ASSUME Inv, NEW p \in Payments, NEW t, Record(p, t)
  PROVE  /\ Kept
         /\ request' = [q \in Payments |-> [state |-> request'[q].state, tx |-> request'[q].tx]]
         /\ \A q \in Payments : request'[q].state \in States
<1>1. request' = [request EXCEPT ![p] = [state |-> "unspent", tx |-> t]] BY DEF Record
<1>2. ~Signed(p) BY DEF Record
<1>3. DOMAIN request = Payments BY DEF Inv, Shape
<1>4. \A q \in Payments : request'[q] = IF q = p THEN [state |-> "unspent", tx |-> t] ELSE request[q]
  BY <1>1, <1>3
<1>5. request' = [q \in Payments |-> request'[q]] BY <1>1, <1>3
<1> QED BY <1>2, <1>4, <1>5 DEF Inv, Shape, Kept, Signed, States

\* Accepting a signed transaction keeps the other signed requests and leaves
\* the trace signed with that transaction.
LEMMA AcceptKeeps ==
  ASSUME Inv, NEW p \in Payments, NEW t, Accept(p, t)
  PROVE  /\ Kept
         /\ request' = [q \in Payments |-> [state |-> request'[q].state, tx |-> request'[q].tx]]
         /\ \A q \in Payments : request'[q].state \in States
         /\ request'[p].state = "signed" /\ request'[p].tx = t
<1>1. request' = [request EXCEPT ![p].state = "signed"] BY DEF Accept
<1>2. request[p] = [state |-> "unspent", tx |-> t] BY DEF Accept
<1>3. DOMAIN request = Payments BY DEF Inv, Shape
<1>4. \A q \in Payments : request'[q] = IF q = p THEN [state |-> "signed", tx |-> t] ELSE request[q]
  BY <1>1, <1>2, <1>3
<1>5. request' = [q \in Payments |-> request'[q]] BY <1>1, <1>3
<1> QED BY <1>2, <1>4, <1>5 DEF Inv, Shape, Kept, Signed, States

\* A step that keeps the signed requests and tells nobody anything new keeps
\* the invariant.
LEMMA Untold ==
  ASSUME Inv, Kept, Shape',
         \A w \in Workers : pc'[w] = "ok" => pc[w] = "ok" /\ tx'[w] = tx[w],
         \A w \in Workers : pc'[w] = "exists" => pc[w] = "exists",
         \A w \in Workers : err'[w] = "signed" => err[w] = "signed"
  PROVE  Inv'
<1>1. \A w \in Workers : Trace[w] \in Payments BY TransferAssumption DEF TransferAssumption
<1> QED BY <1>1 DEF Inv, ToldMeansPaid, Kept, Signed

\* A step of the calls of worker w keeps the invariant.
LEMMA CallKeepsInv ==
  ASSUME Inv, NEW w \in Workers, CallStep(w)
  PROVE  Inv'
<1>0. Trace[w] \in Payments /\ \A v \in Workers : Trace[v] \in Payments
  BY TransferAssumption DEF TransferAssumption
<1>1. CASE Build(w)
  <2>1. PICK t : tx' = [tx EXCEPT ![w] = t] BY <1>1 DEF Build
  <2>2. pc' = [pc EXCEPT ![w] = "verify"] /\ pc[w] = "start" /\ err' = err /\ request' = request
    BY <1>1 DEF Build, sequencerVars
  <2>3. Shape' BY <2>1, <2>2 DEF Inv, Shape
  <2> QED BY <2>1, <2>2, <2>3, Untold DEF Inv, Shape, Kept, Signed
<1>2. CASE BuildInsufficient(w)
  <2>1. Shape' BY <1>2 DEF BuildInsufficient, Fail, Inv, Shape, Errors, sequencerVars
  <2> QED BY <1>2, <2>1, Untold DEF BuildInsufficient, Fail, Inv, Shape, Kept, Signed, sequencerVars
<1>3. CASE VerifyOk(w)
  <2>1. Kept /\ Record(Trace[w], tx[w]) BY <1>0, <1>3, RecordKeeps DEF VerifyOk
  <2>2. tx' = tx /\ err' = err /\ pc' = [pc EXCEPT ![w] = "send"] BY <1>3 DEF VerifyOk
  <2>3. Shape' BY <1>0, <2>1, <2>2, RecordKeeps DEF Inv, Shape
  <2> QED BY <2>1, <2>2, <2>3, Untold DEF Inv, Shape
<1>4. CASE VerifySigned(w)
  <2>1. Shape' BY <1>4 DEF VerifySigned, Fail, Inv, Shape, Errors, sequencerVars
  <2> QED BY <1>0, <1>4, <2>1
          DEF VerifySigned, Fail, Inv, Shape, ToldMeansPaid, Signed, sequencerVars
<1>5. CASE VerifyLocked(w)
  <2>1. Shape' BY <1>5 DEF VerifyLocked, Fail, Inv, Shape, Errors, sequencerVars
  <2> QED BY <1>5, <2>1, Untold DEF VerifyLocked, Fail, Inv, Shape, Kept, Signed, sequencerVars
<1>6. CASE SendOk(w)
  <2>1. Accept(Trace[w], tx[w]) BY <1>6 DEF SendOk
  <2>2. pc' = [pc EXCEPT ![w] = "ok"] /\ tx' = tx /\ err' = err BY <1>6 DEF SendOk
  <2>3. Kept /\ request'[Trace[w]].state = "signed" /\ request'[Trace[w]].tx = tx[w]
    BY <1>0, <2>1, AcceptKeeps
  <2>4. Shape' BY <1>0, <2>1, <2>2, AcceptKeeps DEF Inv, Shape
  <2>5. ASSUME NEW v \in Workers, v # w, pc'[v] = "ok"
        PROVE  Signed(Trace[v])' /\ request'[Trace[v]].tx = tx'[v]
    BY <1>0, <2>2, <2>3, <2>5 DEF Inv, Shape, ToldMeansPaid, Kept, Signed
  <2>6. ASSUME NEW v \in Workers, pc'[v] = "exists" \/ err'[v] = "signed"
        PROVE  Signed(Trace[v])'
    BY <1>0, <2>2, <2>3, <2>6 DEF Inv, Shape, ToldMeansPaid, Kept, Signed
  <2>7. Signed(Trace[w])' /\ request'[Trace[w]].tx = tx'[w]
    BY <2>2, <2>3 DEF Signed
  <2> QED BY <2>4, <2>5, <2>6, <2>7 DEF Inv, ToldMeansPaid
<1>7. CASE SendSigned(w)
  <2>1. Shape' BY <1>7 DEF SendSigned, Inv, Shape, sequencerVars
  <2> QED BY <1>0, <1>7, <2>1 DEF SendSigned, Inv, Shape, ToldMeansPaid, Signed, sequencerVars
<1>8. CASE SendLocked(w)
  <2>1. Shape' BY <1>8 DEF SendLocked, Fail, Inv, Shape, Errors, sequencerVars
  <2> QED BY <1>8, <2>1, Untold DEF SendLocked, Fail, Inv, Shape, Kept, Signed, sequencerVars
<1>9. CASE Retry(w)
  <2>1. Shape' BY <1>9 DEF Retry, First, Inv, Shape, Errors, sequencerVars
  <2> QED BY <1>9, <2>1, Untold DEF Retry, First, Inv, Shape, Kept, Signed, sequencerVars
<1>10. CASE LookupFound(w)
  <2>1. Shape' BY <1>10 DEF LookupFound, Inv, Shape, sequencerVars
  <2> QED BY <1>0, <1>10, <2>1 DEF LookupFound, Inv, Shape, ToldMeansPaid, Signed, sequencerVars
<1>11. CASE LookupNone(w)
  <2>1. Shape' BY <1>11 DEF LookupNone, Inv, Shape, sequencerVars
  <2> QED BY <1>11, <2>1, Untold DEF LookupNone, Inv, Shape, Kept, Signed, sequencerVars
<1> QED BY <1>1, <1>2, <1>3, <1>4, <1>5, <1>6, <1>7, <1>8, <1>9, <1>10, <1>11 DEF CallStep

\* A request that is lost is told as a timeout or as an internal error, which
\* no worker takes for a payment that was made.
LEMMA LostIsNoResult ==
  ASSUME NEW w \in Workers, FailLost(w)
  PROVE  \E e \in {"timeout", "internal"} : Fail(w, e)
<1>1. PICK c \in RequestsAt(pc[w]) : Fail(w, Outcome(c.style, "lost"))
  BY DEF FailLost
<1>2. c \in {ListOutputs, RequestSafeGhostKeys, VerifyRawTransaction, SendRawTransaction}
             \cup TransactionCalls
  BY DEF RequestsAt
<1>4. Outcome(c.style, "lost") = Failed(c.style, "lost")
  BY DEF Outcome, Codes
<1>5. Outcome(c.style, "lost") \in {"timeout", "internal"}
  BY <1>4 DEF Failed
<1> QED BY <1>1, <1>5

\* A timeout, a lost answer or a crash of worker w keeps the invariant.
LEMMA FaultKeepsInv ==
  ASSUME Inv, NEW w \in Workers, FaultStep(w)
  PROVE  Inv'
<1>0. Trace[w] \in Payments BY TransferAssumption DEF TransferAssumption
<1>1. CASE Timeout(w)
  <2>1. FailLost(w) /\ UNCHANGED <<tx, request>> BY <1>1 DEF Timeout
  <2>3. PICK e \in {"timeout", "internal"} : Fail(w, e) BY <2>1, LostIsNoResult
  <2>4. e \in Errors BY DEF Errors
  <2>2. Shape' BY <2>1, <2>3, <2>4 DEF Fail, Inv, Shape
  <2> QED BY <2>1, <2>2, <2>3, Untold DEF Fail, Inv, Shape, Kept, Signed
<1>2. CASE AnswerLost(w)
  <2>1. \/ Record(Trace[w], tx[w]) \/ Accept(Trace[w], tx[w])
    BY <1>2 DEF AnswerLost
  <2>0. FailLost(w) BY <1>2 DEF AnswerLost
  <2>5. PICK e \in {"timeout", "internal"} : Fail(w, e) BY <2>0, LostIsNoResult
  <2>2. tx' = tx /\ pc' = [pc EXCEPT ![w] = "failed"] /\ err' = [err EXCEPT ![w] = e]
    BY <1>2, <2>5 DEF AnswerLost, Fail
  <2>3. Kept BY <1>0, <2>1, RecordKeeps, AcceptKeeps
  <2>6. e \in Errors BY DEF Errors
  <2>4. Shape' BY <1>0, <2>1, <2>2, <2>6, RecordKeeps, AcceptKeeps DEF Inv, Shape
  <2> QED BY <2>2, <2>3, <2>4, Untold DEF Inv, Shape
<1>3. CASE Crash(w)
  <2>1. Shape' BY <1>3 DEF Crash, First, Inv, Shape, Errors
  <2> QED BY <1>3, <2>1, Untold DEF Crash, First, Inv, Shape, Kept, Signed
<1> QED BY <1>1, <1>2, <1>3 DEF FaultStep

\* The steps that are not a worker's.
LEMMA OtherKeepsInv ==
  ASSUME Inv,
         \/ \E m \in late : m.trace \in Payments /\ LateArrives(m)
         \/ \E p \in Payments : Settle(p)
         \/ Deposit \/ Terminated \/ UNCHANGED vars
  PROVE  Inv'
<1>1. ASSUME NEW m \in late, m.trace \in Payments, LateArrives(m) PROVE Inv'
  <2>1. \/ Record(m.trace, m.tx) \/ Accept(m.trace, m.tx)
    BY <1>1 DEF LateArrives
  <2>2. UNCHANGED workerVars BY <1>1 DEF LateArrives
  <2>3. Kept BY <1>1, <2>1, RecordKeeps, AcceptKeeps
  <2>4. Shape' BY <1>1, <2>1, <2>2, RecordKeeps, AcceptKeeps DEF Inv, Shape, workerVars
  <2> QED BY <2>2, <2>3, <2>4, Untold DEF workerVars
<1>2. ASSUME NEW p \in Payments, Settle(p) PROVE Inv'
  <2>1. request' = [request EXCEPT ![p].state = "spent"] /\ UNCHANGED workerVars
    BY <1>2 DEF Settle
  <2>2. DOMAIN request = Payments BY DEF Inv, Shape
  <2>3. \A q \in Payments :
          request'[q] = IF q = p THEN [state |-> "spent", tx |-> request[p].tx] ELSE request[q]
    BY <2>1, <2>2 DEF Inv, Shape
  <2>4. request' = [q \in Payments |-> request'[q]] BY <2>1, <2>2
  <2>5. Kept BY <2>3 DEF Kept, Signed
  <2>7. tx' = tx /\ pc' = pc /\ err' = err BY <2>1 DEF workerVars
  <2>8. \A q \in Payments : /\ request'[q].state \in States
                            /\ request'[q] = [state |-> request'[q].state, tx |-> request'[q].tx]
    <3> TAKE q \in Payments
    <3>1. CASE q = p BY <3>1, <2>3 DEF States
    <3>2. CASE q # p
      <4>1. request[q] = [state |-> request[q].state, tx |-> request[q].tx] BY DEF Inv, Shape
      <4> QED BY <3>2, <4>1, <2>3 DEF Inv, Shape
    <3> QED BY <3>1, <3>2
  <2>6. Shape' BY <2>4, <2>7, <2>8 DEF Inv, Shape
  <2> QED BY <2>1, <2>5, <2>6, Untold DEF workerVars
<1>3. ASSUME UNCHANGED <<workerVars, request>> PROVE Inv'
  BY <1>3 DEF Inv, Shape, ToldMeansPaid, Signed, workerVars
<1>4. Deposit => UNCHANGED <<workerVars, request>> BY DEF Deposit
<1>5. Terminated \/ UNCHANGED vars => UNCHANGED <<workerVars, request>>
  BY DEF Terminated, vars, sequencerVars
<1> QED BY <1>1, <1>2, <1>3, <1>4, <1>5

\* Only a worker that gives up leaves a call behind, and it is about its trace.
LEMMA NextKeepsLateTraced ==
  ASSUME LateTraced, [Next]_vars
  PROVE  LateTraced'
<1>1. \/ late' \subseteq late
      \/ \E w \in Workers : late' = late \cup {InFlight(w)}
  BY DEF Next, CallStep, FaultStep, LookupFound, LookupNone, Build, BuildInsufficient, VerifyOk,
         VerifySigned, VerifyLocked, SendOk, SendSigned, SendLocked, Retry, Timeout, AnswerLost, Crash,
         LateArrives, Settle, Deposit, Terminated, vars, sequencerVars
<1> QED BY <1>1, TransferAssumption DEF LateTraced, InFlight, TransferAssumption

\* A worker that is told that its payment was made, by a result or by the error
\* of a trace signed already, is told the truth, and a result is about the very
\* transaction it built: sendTransaction has no other way to nil.
THEOREM ToldIsPaid == Spec => []ToldMeansPaid
<1> DEFINE IInv == Inv /\ LateTraced
<1>1. Init => IInv
  BY InitInv DEF Init, LateTraced
<1>2. IInv /\ [Next]_vars => IInv'
  <2> SUFFICES ASSUME IInv, [Next]_vars PROVE IInv' OBVIOUS
  <2>1. LateTraced' BY NextKeepsLateTraced
  <2>2. ASSUME NEW w \in Workers, CallStep(w) \/ FaultStep(w) PROVE Inv'
    BY <2>2, CallKeepsInv, FaultKeepsInv
  <2>3. ASSUME NEW m \in late, LateArrives(m) PROVE Inv'
    <3>1. m.trace \in Payments BY DEF LateTraced
    <3> QED BY <2>3, <3>1, OtherKeepsInv
  <2>4. ASSUME \/ \E p \in Payments : Settle(p)
               \/ Deposit \/ Terminated \/ UNCHANGED vars
        PROVE  Inv'
    BY <2>4, OtherKeepsInv
  <2> QED BY <2>1, <2>2, <2>3, <2>4 DEF Next
<1>3. IInv => ToldMeansPaid BY DEF Inv
<1> QED BY <1>1, <1>2, <1>3, PTL DEF Spec

-----------------------------------------------------------------------------
(* What is signed is worth what it pays, and spends its outputs alone *)

Places == {"lookup", "start", "verify", "send", "ok", "exists", "failed", "panic"}
Output == [amount : Nat \ {0}, by : Payments \cup {"nobody"}]

TxsOf(o) == [inputs : Seq(1..Len(o)), change : Nat]
AmountsIn(t, o) == [k \in 1..Len(t.inputs) |-> o[t.inputs[k]].amount]

\* A transaction of outputs o whose inputs are worth payment p and its change.
Pays(p, t, o) == t \in TxsOf(o) /\ Total(AmountsIn(t, o)) = Amount[p] + t.change

\* The three parts of the invariant: what the workers are about to send, what is
\* on its way, and what the sequencer has.
WorkersPay ==
  /\ pc \in [Workers -> Places] /\ err \in [Workers -> Errors]
  /\ tx \in [Workers -> TxsOf(outputs)]
  /\ \A w \in Workers : pc[w] \in {"verify", "send"} => Pays(Trace[w], tx[w], outputs)
LatePays ==
  \A m \in late : /\ m \in [step : {"verify", "send"}, trace : Payments, tx : TxsOf(outputs)]
                  /\ Pays(m.trace, m.tx, outputs)
RequestsPay ==
  /\ outputs \in Seq(Output)
  /\ request \in [Payments -> [state : States, tx : TxsOf(outputs)]]
  /\ \A p \in Payments : request[p].state # "none" => Pays(p, request[p].tx, outputs)
  /\ \A p \in Payments : Signed(p) =>
       \A k \in 1..Len(request[p].tx.inputs) : outputs[request[p].tx.inputs[k]].by = p
Counters == deposits \in 0..MaxDeposits /\ faults \in 0..MaxFaults

PayInv == WorkersPay /\ LatePays /\ RequestsPay /\ Counters

\* Outputs are added, and keep their amounts.
Grows(o, n) == Len(o) <= Len(n) /\ \A i \in 1..Len(o) : n[i].amount = o[i].amount

\* A sequence of members of a set is one of any larger set.
LEMMA SeqMonotone ==
  ASSUME NEW A, NEW B, A \subseteq B
  PROVE  Seq(A) \subseteq Seq(B)
<1> SUFFICES ASSUME NEW s \in Seq(A) PROVE s \in Seq(B)
  OBVIOUS
<1>1. s = [i \in 1..Len(s) |-> s[i]] /\ Len(s) \in Nat /\ \A i \in 1..Len(s) : s[i] \in B
  OBVIOUS
<1> QED BY <1>1

\* Each worker pays one of the payments.
LEMMA TraceType == \A w \in Workers : Trace[w] \in Payments
BY TransferAssumption DEF TransferAssumption

\* A transaction of the outputs is one of more outputs, and pays what it paid.
LEMMA StillPays ==
  ASSUME NEW o \in Seq(Output), NEW n \in Seq(Output), Grows(o, n)
  PROVE  /\ TxsOf(o) \subseteq TxsOf(n)
         /\ \A p, t : Pays(p, t, o) => Pays(p, t, n)
<1>1. 1..Len(o) \subseteq 1..Len(n) /\ Len(o) \in Nat
  BY DEF Grows
<1>2. TxsOf(o) \subseteq TxsOf(n)
  <2>1. Seq(1..Len(o)) \subseteq Seq(1..Len(n))
    BY <1>1, SeqMonotone
  <2> QED BY <2>1 DEF TxsOf
<1>3. ASSUME NEW p, NEW t, Pays(p, t, o) PROVE Pays(p, t, n)
  <2>1. t.inputs \in Seq(1..Len(o))
    BY <1>3 DEF Pays, TxsOf
  <2>2. \A k \in 1..Len(t.inputs) : t.inputs[k] \in 1..Len(o)
    BY <2>1
  <2>3. AmountsIn(t, n) = AmountsIn(t, o)
    BY <2>2 DEF AmountsIn, Grows
  <2> QED BY <1>2, <1>3, <2>3 DEF Pays
<1> QED BY <1>2, <1>3

\* The amounts of the inputs are those of the list they are the first of.
LEMMA BuiltPays ==
  ASSUME PayInv, NEW w \in Workers, NEW q, q = Unspent, Chosen(w, q).ok
  PROVE  Pays(Trace[w], RawTx(w, q), outputs)
<1> DEFINE r == SelectOutputs(Worths(q), Amount[Trace[w]])
           n == r.taken
           inputs == SubSeq(q, 1, n)
<1>1. outputs \in Seq(Output) /\ Amount[Trace[w]] \in Nat /\ ListLimit \in Nat
  BY TransferAssumption, TraceType DEF PayInv, RequestsPay, TransferAssumption
<1>2. q \in Seq(1..Len(outputs))
  <2> DEFINE S == {i \in 1..Len(outputs) : outputs[i].by = "nobody"}
  <2>1. q = Listed(S, Len(outputs), ListLimit)
    BY DEF Unspent
  <2> HIDE DEF S
  <2>0. Len(outputs) \in Nat
    BY <1>1
  <2>2. Listed(S, Len(outputs), ListLimit) \in Seq(S \cap (1..Len(outputs)))
    BY <1>1, <2>0, ListedIs
  <2> QED BY <2>1, <2>2, SeqMonotone
<1>3. Len(q) \in Nat /\ \A k \in 1..Len(q) : q[k] \in 1..Len(outputs)
  BY <1>2
<1>4. /\ Worths(q) = [k \in 1..Len(q) |-> outputs[q[k]].amount]
      /\ \A k \in 1..Len(q) : Worths(q)[k] \in Nat
  <2>1. \A i \in 1..Len(outputs) : outputs[i] \in Output
    BY <1>1
  <2>2. \A i \in 1..Len(outputs) : outputs[i].amount \in Nat
    BY <2>1 DEF Output
  <2> QED BY <1>3, <2>2 DEF Worths
<1>5. Len(Worths(q)) = Len(q)
  BY <1>3, <1>4
<1>6. Numbers(Worths(q)) /\ r.ok
  BY <1>4, <1>5 DEF Numbers, Chosen
<1>7. /\ n \in 0..Len(q) /\ r.change \in Nat
      /\ Totals(Worths(q))[n] = Amount[Trace[w]] + r.change
  <2> HIDE DEF r
  <2>1. SelectOutputs(Worths(q), Amount[Trace[w]]).ok
    BY <1>6 DEF r
  <2> QED BY <1>1, <1>3, <1>5, <1>6, <2>1, SelectedWorth DEF r
<1>8. RawTx(w, q) = [inputs |-> inputs, change |-> r.change]
  BY DEF RawTx, Chosen
<1> HIDE DEF r, n
<1>9. /\ inputs \in Seq(1..Len(outputs)) /\ Len(inputs) = n
      /\ \A k \in 1..n : inputs[k] = q[k]
  BY <1>2, <1>7
<1> HIDE DEF inputs
<1> DEFINE paid == AmountsIn(RawTx(w, q), outputs)
<1>10. paid = [k \in 1..n |-> outputs[inputs[k]].amount]
  BY <1>8, <1>9 DEF AmountsIn
<1>11. /\ Len(paid) = n /\ \A k \in 1..n : paid[k] = Worths(q)[k]
  BY <1>4, <1>7, <1>9, <1>10
<1> HIDE DEF paid
<1>12. Totals(paid)[n] = Totals(Worths(q))[n]
  <2>1. Numbers(paid) /\ Len(paid) \in Nat
    <3>1. n \in Nat /\ 1..n \subseteq 1..Len(q)
      BY <1>3, <1>7
    <3> QED BY <1>4, <1>11, <3>1 DEF Numbers
  <2> QED BY <1>3, <1>5, <1>6, <1>7, <1>11, <2>1, TotalsAgree
<1>13. Total(paid) = Amount[Trace[w]] + r.change
  BY <1>7, <1>11, <1>12 DEF Total
<1> QED BY <1>7, <1>8, <1>9, <1>13 DEF Pays, TxsOf, paid

\* A verification that is recorded keeps what the sequencer has in order.
LEMMA RecordPays ==
  ASSUME RequestsPay, NEW p \in Payments, NEW t, Pays(p, t, outputs), Record(p, t)
  PROVE  RequestsPay' /\ outputs' = outputs
<1>1. /\ request' = [request EXCEPT ![p] = [state |-> "unspent", tx |-> t]]
      /\ outputs' = outputs
  BY DEF Record
<1>2. t \in TxsOf(outputs)
  BY DEF Pays
<1>3. \A q \in Payments :
        request'[q] = IF q = p THEN [state |-> "unspent", tx |-> t] ELSE request[q]
  BY <1>1 DEF RequestsPay
<1>4. request' \in [Payments -> [state : States, tx : TxsOf(outputs)]]
  BY <1>1, <1>2 DEF RequestsPay, States
<1>5. ASSUME NEW q \in Payments
      PROVE  /\ request'[q].state # "none" => Pays(q, request'[q].tx, outputs)
             /\ request'[q].state \in {"signed", "spent"} =>
                  \A k \in 1..Len(request'[q].tx.inputs) :
                    outputs[request'[q].tx.inputs[k]].by = q
  BY <1>3 DEF RequestsPay, Signed
<1> QED BY <1>1, <1>4, <1>5 DEF RequestsPay, Signed

\* A signed transaction takes its inputs for its payment: the others that are
\* signed have none of them.
LEMMA AcceptPays ==
  ASSUME RequestsPay, NEW p \in Payments, NEW t, Pays(p, t, outputs), Accept(p, t)
  PROVE  RequestsPay' /\ Grows(outputs, outputs')
<1> DEFINE Of(i) == \E k \in 1..Len(t.inputs) : t.inputs[k] = i
<1>0. outputs \in Seq(Output) /\ Len(outputs) \in Nat
  BY DEF RequestsPay
<1>1. /\ request' = [request EXCEPT ![p].state = "signed"]
      /\ outputs' = [i \in 1..Len(outputs) |->
                       IF Of(i) THEN [outputs[i] EXCEPT !.by = p] ELSE outputs[i]]
      /\ request[p] = [state |-> "unspent", tx |-> t]
      /\ Free(t)
  BY DEF Accept
<1> HIDE DEF Of
<1>2. \A i \in 1..Len(outputs) : outputs[i] \in Output
  BY <1>0
<1>3. \A i \in 1..Len(outputs) :
        /\ outputs'[i] \in Output
        /\ outputs'[i].amount = outputs[i].amount
        /\ outputs'[i].by = IF Of(i) THEN p ELSE outputs[i].by
  BY <1>1, <1>2 DEF Output
<1>4. Len(outputs') = Len(outputs) /\ outputs' \in Seq(Output)
  <2>1. outputs' = [i \in 1..Len(outputs) |-> outputs'[i]]
    BY <1>1
  <2> QED BY <1>0, <1>3, <2>1
<1>5. Grows(outputs, outputs')
  BY <1>0, <1>3, <1>4 DEF Grows
<1>6. \A q \in Payments :
        request'[q] = IF q = p THEN [state |-> "signed", tx |-> t] ELSE request[q]
  BY <1>1 DEF RequestsPay
<1>7. request' \in [Payments -> [state : States, tx : TxsOf(outputs)]]
  BY <1>1 DEF RequestsPay, States
<1>8. TxsOf(outputs) = TxsOf(outputs')
  BY <1>4 DEF TxsOf
<1>9. ASSUME NEW q \in Payments, request'[q].state # "none"
      PROVE  Pays(q, request'[q].tx, outputs')
  <2>1. Pays(q, request'[q].tx, outputs)
    BY <1>6, <1>9 DEF RequestsPay
  <2> QED BY <1>0, <1>4, <1>5, <2>1, StillPays
<1>10. ASSUME NEW q \in Payments, request'[q].state \in {"signed", "spent"},
              NEW k \in 1..Len(request'[q].tx.inputs)
       PROVE  outputs'[request'[q].tx.inputs[k]].by = q
  <2> DEFINE i == request'[q].tx.inputs[k]
  <2>1. request'[q].tx \in TxsOf(outputs)
    BY <1>7
  <2>2. i \in 1..Len(outputs)
    BY <2>1 DEF TxsOf
  <2>3. CASE q = p
    <3>1. Of(i)
      BY <1>6, <2>3 DEF Of
    <3> QED BY <1>3, <2>2, <2>3, <3>1
  <2>4. CASE q # p
    <3>1. request'[q] = request[q]
      BY <1>6, <2>4
    <3>2. outputs[i].by = q
      BY <1>10, <3>1 DEF RequestsPay, Signed
    <3>3. q # "nobody"
      BY TransferAssumption DEF TransferAssumption
    <3>4. ~Of(i)
      BY <1>1, <3>2, <3>3 DEF Free, Of
    <3> QED BY <1>3, <2>2, <3>2, <3>4
  <2> QED BY <2>3, <2>4
<1> QED BY <1>4, <1>5, <1>7, <1>8, <1>9, <1>10 DEF RequestsPay, Signed

\* A new output is one more, and changes none.
LEMMA AppendPays ==
  ASSUME NEW o \in Seq(Output), NEW n \in Nat \ {0}
  PROVE  LET new == Append(o, [amount |-> n, by |-> "nobody"])
         IN new \in Seq(Output) /\ Grows(o, new) /\ \A i \in 1..Len(o) : new[i] = o[i]
<1>1. [amount |-> n, by |-> "nobody"] \in Output
  BY DEF Output
<1> QED BY <1>1 DEF Grows

\* What is signed is still in order when only outputs were added.
LEMMA AddedPays ==
  ASSUME RequestsPay, outputs' \in Seq(Output), Grows(outputs, outputs'),
         \A i \in 1..Len(outputs) : outputs'[i] = outputs[i],
         request' \in [Payments -> [state : States, tx : TxsOf(outputs)]],
         \A q \in Payments : /\ request'[q].tx = request[q].tx
                             /\ request'[q].state # "none" => request[q].state # "none"
                             /\ Signed(q)' => Signed(q)
  PROVE  RequestsPay'
<1>1. TxsOf(outputs) \subseteq TxsOf(outputs')
  BY StillPays DEF RequestsPay
<1>2. request' \in [Payments -> [state : States, tx : TxsOf(outputs')]]
  BY <1>1
<1>3. ASSUME NEW q \in Payments, request'[q].state # "none"
      PROVE  Pays(q, request'[q].tx, outputs')
  BY <1>3, StillPays DEF RequestsPay
<1>4. ASSUME NEW q \in Payments, Signed(q)', NEW k \in 1..Len(request'[q].tx.inputs)
      PROVE  outputs'[request'[q].tx.inputs[k]].by = q
  <2>1. request[q].tx \in TxsOf(outputs)
    BY DEF RequestsPay
  <2>2. request[q].tx.inputs[k] \in 1..Len(outputs)
    BY <1>4, <2>1 DEF TxsOf
  <2> QED BY <1>4, <2>2 DEF RequestsPay
<1> QED BY <1>2, <1>3, <1>4 DEF RequestsPay

\* A settlement adds the change of a signed transaction to the wallet.
LEMMA SettlePays ==
  ASSUME RequestsPay, NEW p \in Payments, Settle(p)
  PROVE  RequestsPay' /\ Grows(outputs, outputs')
<1>1. /\ request' = [request EXCEPT ![p].state = "spent"]
      /\ request[p].state = "signed"
      /\ outputs' = IF request[p].tx.change = 0 THEN outputs
                    ELSE Append(outputs, [amount |-> request[p].tx.change, by |-> "nobody"])
  BY DEF Settle
<1>2. outputs \in Seq(Output) /\ request[p].tx.change \in Nat
  BY DEF RequestsPay, TxsOf
<1>3. /\ outputs' \in Seq(Output) /\ Grows(outputs, outputs')
      /\ \A i \in 1..Len(outputs) : outputs'[i] = outputs[i]
  <2>1. CASE request[p].tx.change = 0
    BY <1>1, <1>2, <2>1 DEF Grows
  <2>2. CASE request[p].tx.change # 0
    BY <1>1, <1>2, <2>2, AppendPays
  <2> QED BY <2>1, <2>2
<1>4. request' \in [Payments -> [state : States, tx : TxsOf(outputs)]]
  BY <1>1 DEF RequestsPay, States
<1>5. \A q \in Payments : /\ request'[q].tx = request[q].tx
                          /\ request'[q].state = IF q = p THEN "spent" ELSE request[q].state
  BY <1>1 DEF RequestsPay
<1>6. \A q \in Payments : /\ request'[q].state # "none" => request[q].state # "none"
                          /\ Signed(q)' => Signed(q)
  BY <1>1, <1>5 DEF Signed
<1> QED BY <1>3, <1>4, <1>5, <1>6, AddedPays

\* The calls on their way pay what they paid when the outputs grow, and so does
\* one that is added to them.
LEMMA LateStillPay ==
  ASSUME PayInv, RequestsPay', Grows(outputs, outputs'),
         late' \subseteq late \cup {InFlight(w) : w \in {v \in Workers : pc[v] \in {"verify", "send"}}}
  PROVE  LatePays'
<1>1. outputs \in Seq(Output) /\ outputs' \in Seq(Output)
  BY DEF PayInv, RequestsPay
<1>2. TxsOf(outputs) \subseteq TxsOf(outputs') /\ \A p, t : Pays(p, t, outputs) => Pays(p, t, outputs')
  BY <1>1, StillPays
<1>3. ASSUME NEW m \in late'
      PROVE  /\ m \in [step : {"verify", "send"}, trace : Payments, tx : TxsOf(outputs)]
             /\ Pays(m.trace, m.tx, outputs)
  <2>1. CASE m \in late
    BY <2>1 DEF PayInv, LatePays
  <2>2. CASE \E w \in Workers : pc[w] \in {"verify", "send"} /\ m = InFlight(w)
    <3>1. PICK w \in Workers : pc[w] \in {"verify", "send"} /\ m = InFlight(w)
      BY <2>2
    <3>2. tx[w] \in TxsOf(outputs) /\ Pays(Trace[w], tx[w], outputs) /\ Trace[w] \in Payments
      BY <3>1, TraceType DEF PayInv, WorkersPay
    <3>3. m = [step |-> pc[w], trace |-> Trace[w], tx |-> tx[w]]
      BY <3>1 DEF InFlight
    <3> HIDE DEF TxsOf, Pays
    <3> QED BY <3>1, <3>2, <3>3
  <2> QED BY <1>3, <2>1, <2>2
<1>4. ASSUME NEW m \in late'
      PROVE  /\ m \in [step : {"verify", "send"}, trace : Payments, tx : TxsOf(outputs')]
             /\ Pays(m.trace, m.tx, outputs')
  BY <1>2, <1>3
<1> QED BY <1>4 DEF LatePays

\* The workers pay what they paid when the outputs grow, if none but one that
\* was about to send is about to.
LEMMA WorkersStillPay ==
  ASSUME PayInv, RequestsPay', Grows(outputs, outputs'),
         pc' \in [Workers -> Places], err' \in [Workers -> Errors], tx' = tx,
         \A w \in Workers : pc'[w] \in {"verify", "send"} => pc[w] \in {"verify", "send"}
  PROVE  WorkersPay'
<1>1. outputs \in Seq(Output) /\ outputs' \in Seq(Output)
  BY DEF PayInv, RequestsPay
<1>2. TxsOf(outputs) \subseteq TxsOf(outputs') /\ \A p, t : Pays(p, t, outputs) => Pays(p, t, outputs')
  BY <1>1, StillPays
<1>3. tx' \in [Workers -> TxsOf(outputs')]
  BY <1>2 DEF PayInv, WorkersPay
<1>4. ASSUME NEW w \in Workers, pc'[w] \in {"verify", "send"}
      PROVE  Pays(Trace[w], tx'[w], outputs')
  BY <1>2, <1>4 DEF PayInv, WorkersPay
<1> QED BY <1>3, <1>4 DEF WorkersPay

\* The outputs a step leaves alone have not shrunk.
LEMMA SameGrows ==
  ASSUME RequestsPay, outputs' = outputs
  PROVE  Grows(outputs, outputs')
BY DEF RequestsPay, Grows

\* A step of the calls of worker w keeps the invariant.
LEMMA CallKeepsPay ==
  ASSUME PayInv, NEW w \in Workers, CallStep(w)
  PROVE  PayInv'
<1>0. Trace[w] \in Payments
  BY TraceType
<1>1. late' = late /\ deposits' = deposits /\ faults' = faults
  BY DEF CallStep, LookupFound, LookupNone, Build, BuildInsufficient, VerifyOk, VerifySigned,
         VerifyLocked, SendOk, SendSigned, SendLocked, Retry, sequencerVars
<1>2. Counters'
  BY <1>1 DEF PayInv, Counters
<1>3. CASE Build(w)
  <2>1. /\ pc' = [pc EXCEPT ![w] = "verify"]
        /\ err' = err /\ outputs' = outputs /\ request' = request
        /\ \E q \in {Unspent} : Chosen(w, q).ok /\ tx' = [tx EXCEPT ![w] = RawTx(w, q)]
    BY <1>3 DEF Build, sequencerVars
  <2>2. PICK q : q = Unspent /\ Chosen(w, q).ok /\ tx' = [tx EXCEPT ![w] = RawTx(w, q)]
    BY <2>1
  <2>3. Pays(Trace[w], RawTx(w, q), outputs)
    BY <2>2, BuiltPays
  <2>4. RequestsPay'
    BY <2>1 DEF PayInv, RequestsPay, Signed
  <2>5. LatePays'
    BY <1>1, <2>1, <2>4, SameGrows, LateStillPay DEF PayInv
  <2>6. tx' \in [Workers -> TxsOf(outputs)]
    BY <2>2, <2>3 DEF PayInv, WorkersPay, Pays
  <2>7. ASSUME NEW v \in Workers, pc'[v] \in {"verify", "send"}
        PROVE  Pays(Trace[v], tx'[v], outputs)
    BY <2>1, <2>2, <2>3, <2>7 DEF PayInv, WorkersPay
  <2>8. pc' \in [Workers -> Places]
    BY <2>1 DEF PayInv, WorkersPay, Places
  <2>9. WorkersPay'
    BY <2>1, <2>6, <2>7, <2>8 DEF PayInv, WorkersPay
  <2> QED BY <1>2, <2>4, <2>5, <2>9 DEF PayInv
<1>4. CASE VerifyOk(w) \/ SendOk(w)
  <2>1. /\ pc[w] \in {"verify", "send"} /\ tx' = tx /\ err' = err
        /\ pc' = [pc EXCEPT ![w] = "send"] \/ pc' = [pc EXCEPT ![w] = "ok"]
        /\ Record(Trace[w], tx[w]) \/ Accept(Trace[w], tx[w])
    BY <1>4 DEF VerifyOk, SendOk
  <2>2. Pays(Trace[w], tx[w], outputs)
    BY <2>1 DEF PayInv, WorkersPay
  <2>3. RequestsPay' /\ Grows(outputs, outputs')
    BY <1>0, <2>1, <2>2, RecordPays, AcceptPays, SameGrows DEF PayInv
  <2>4. pc' \in [Workers -> Places] /\ \A v \in Workers :
          pc'[v] \in {"verify", "send"} => pc[v] \in {"verify", "send"}
    BY <2>1 DEF PayInv, WorkersPay, Places
  <2>5. WorkersPay'
    BY <2>1, <2>3, <2>4, WorkersStillPay DEF PayInv, WorkersPay
  <2>6. LatePays'
    BY <1>1, <2>3, LateStillPay
  <2> QED BY <1>2, <2>3, <2>5, <2>6 DEF PayInv
<1>5. CASE \/ LookupFound(w) \/ LookupNone(w) \/ BuildInsufficient(w) \/ VerifySigned(w)
           \/ VerifyLocked(w) \/ SendSigned(w) \/ SendLocked(w) \/ Retry(w)
  <2>1. tx' = tx /\ outputs' = outputs /\ request' = request
    BY <1>5 DEF LookupFound, LookupNone, BuildInsufficient, VerifySigned, VerifyLocked,
                SendSigned, SendLocked, Retry, sequencerVars
  <2>2. /\ \E to \in Places \ {"verify", "send"} : pc' = [pc EXCEPT ![w] = to]
        /\ err' = err \/ \E e \in Errors : err' = [err EXCEPT ![w] = e]
    BY <1>5 DEF LookupFound, LookupNone, BuildInsufficient, VerifySigned, VerifyLocked,
                SendSigned, SendLocked, Retry, Fail, First, Places, Errors
  <2>3. /\ pc' \in [Workers -> Places] /\ err' \in [Workers -> Errors]
        /\ \A v \in Workers : pc'[v] \in {"verify", "send"} => pc[v] \in {"verify", "send"}
    BY <2>2 DEF PayInv, WorkersPay
  <2>4. RequestsPay'
    BY <2>1 DEF PayInv, RequestsPay, Signed
  <2>5. Grows(outputs, outputs')
    BY <2>1, SameGrows DEF PayInv
  <2>6. WorkersPay'
    BY <2>1, <2>3, <2>4, <2>5, WorkersStillPay
  <2>7. LatePays'
    BY <1>1, <2>4, <2>5, LateStillPay
  <2> QED BY <1>2, <2>4, <2>6, <2>7 DEF PayInv
<1> QED BY <1>3, <1>4, <1>5 DEF CallStep

\* A timeout, a lost answer or a crash of worker w keeps the invariant.
LEMMA FaultKeepsPay ==
  ASSUME PayInv, NEW w \in Workers, FaultStep(w)
  PROVE  PayInv'
<1>0. Trace[w] \in Payments
  BY TraceType
<1>1. tx' = tx /\ deposits' = deposits /\ faults' = faults + 1 /\ faults < MaxFaults
  BY DEF FaultStep, Timeout, AnswerLost, Crash, Fault
<1>2. Counters'
  BY <1>1, TransferAssumption DEF PayInv, Counters, TransferAssumption
<1>3. /\ \E to \in Places \ {"verify", "send"} : pc' = [pc EXCEPT ![w] = to]
      /\ \E e \in Errors : err' = [err EXCEPT ![w] = e]
  <2>1. CASE Crash(w)
    <3>1. First(w) \in Places \ {"verify", "send"} /\ "none" \in Errors
      BY DEF First, Places, Errors
    <3>2. pc' = [pc EXCEPT ![w] = First(w)] /\ err' = [err EXCEPT ![w] = "none"]
      BY <2>1 DEF Crash
    <3> QED BY <3>1, <3>2
  <2>2. CASE FailLost(w)
    BY <2>2, LostIsNoResult DEF Fail, Places, Errors
  <2> QED BY <2>1, <2>2 DEF FaultStep, Timeout, AnswerLost
<1>4. /\ pc' \in [Workers -> Places] /\ err' \in [Workers -> Errors]
      /\ \A v \in Workers : pc'[v] \in {"verify", "send"} => pc[v] \in {"verify", "send"}
  BY <1>3 DEF PayInv, WorkersPay
<1>5. RequestsPay' /\ Grows(outputs, outputs')
  <2>1. CASE outputs' = outputs /\ request' = request
    BY <2>1, SameGrows DEF PayInv, RequestsPay, Signed
  <2>2. CASE AnswerLost(w)
    <3>1. /\ pc[w] \in {"verify", "send"}
          /\ Record(Trace[w], tx[w]) \/ Accept(Trace[w], tx[w])
      BY <2>2 DEF AnswerLost
    <3>2. Pays(Trace[w], tx[w], outputs)
      BY <3>1 DEF PayInv, WorkersPay
    <3> QED BY <1>0, <3>1, <3>2, RecordPays, AcceptPays, SameGrows DEF PayInv
  <2> QED BY <2>1, <2>2 DEF FaultStep, Timeout, Crash
<1>6. WorkersPay'
  BY <1>1, <1>4, <1>5, WorkersStillPay
<1>7. \/ late' = late
      \/ pc[w] \in {"verify", "send"} /\ late' = late \cup {InFlight(w)}
  BY DEF FaultStep, Timeout, AnswerLost, Crash
<1>8. LatePays'
  BY <1>5, <1>7, LateStillPay
<1> QED BY <1>2, <1>5, <1>6, <1>8 DEF PayInv

\* So does what the sequencer, the kernel and others do on their own.
LEMMA OtherKeepsPay ==
  ASSUME PayInv,
         \/ \E m \in late : LateArrives(m)
         \/ \E p \in Payments : Settle(p)
         \/ Deposit
  PROVE  PayInv'
<1>1. UNCHANGED workerVars /\ late' \subseteq late
  BY DEF LateArrives, Settle, Deposit
<1>2. tx' = tx /\ pc' = pc /\ err' = err
  BY <1>1 DEF workerVars
<1>3. RequestsPay' /\ Grows(outputs, outputs') /\ Counters'
  <2>1. ASSUME NEW m \in late, LateArrives(m) PROVE RequestsPay' /\ Grows(outputs, outputs') /\ Counters'
    <3>1. /\ Record(m.trace, m.tx) \/ Accept(m.trace, m.tx)
          /\ deposits' = deposits /\ faults' = faults
      BY <2>1 DEF LateArrives
    <3>2. m.trace \in Payments /\ Pays(m.trace, m.tx, outputs)
      BY DEF PayInv, LatePays
    <3> QED BY <3>1, <3>2, RecordPays, AcceptPays, SameGrows DEF PayInv, Counters
  <2>2. ASSUME NEW p \in Payments, Settle(p) PROVE RequestsPay' /\ Grows(outputs, outputs') /\ Counters'
    BY <2>2, SettlePays DEF PayInv, Counters, Settle
  <2>3. ASSUME Deposit PROVE RequestsPay' /\ Grows(outputs, outputs') /\ Counters'
    <3>1. /\ outputs' = Append(outputs, [amount |-> DepositAmount, by |-> "nobody"])
          /\ request' = request /\ deposits' = deposits + 1 /\ deposits < MaxDeposits
          /\ faults' = faults
      BY <2>3 DEF Deposit
    <3>2. DepositAmount \in Nat \ {0} /\ MaxDeposits \in Nat /\ outputs \in Seq(Output)
      BY TransferAssumption DEF TransferAssumption, PayInv, RequestsPay
    <3>3. /\ outputs' \in Seq(Output) /\ Grows(outputs, outputs')
          /\ \A i \in 1..Len(outputs) : outputs'[i] = outputs[i]
      BY <3>1, <3>2, AppendPays
    <3>4. \A q \in Payments : Signed(q)' <=> Signed(q)
      BY <3>1 DEF Signed
    <3>5. RequestsPay'
      BY <3>1, <3>3, <3>4, AddedPays DEF PayInv, RequestsPay
    <3> QED BY <3>1, <3>2, <3>3, <3>5 DEF PayInv, Counters
  <2> QED BY <2>1, <2>2, <2>3
<1>4. WorkersPay'
  BY <1>2, <1>3, WorkersStillPay DEF PayInv, WorkersPay
<1>5. LatePays'
  BY <1>1, <1>3, LateStillPay
<1> QED BY <1>3, <1>4, <1>5 DEF PayInv

\* Nothing is signed at first, and the outputs are those of the wallet.
LEMMA InitPay == Init => PayInv
<1> SUFFICES ASSUME Init PROVE PayInv
  OBVIOUS
<1>1. /\ Wallet \in Seq(Nat \ {0})
      /\ outputs = [i \in 1..Len(Wallet) |-> [amount |-> Wallet[i], by |-> "nobody"]]
  BY TransferAssumption DEF TransferAssumption, Init
<1>2. outputs \in Seq(Output)
  <2>1. \A i \in 1..Len(Wallet) : [amount |-> Wallet[i], by |-> "nobody"] \in Output
    BY <1>1 DEF Output
  <2> QED BY <1>1, <2>1
<1>3. NoTx \in TxsOf(outputs)
  BY <1>2 DEF NoTx, TxsOf
<1>4. request = [p \in Payments |-> [state |-> "none", tx |-> NoTx]]
  BY DEF Init, NoRequest
<1>5. RequestsPay
  BY <1>2, <1>3, <1>4 DEF RequestsPay, Signed, States
<1>6. WorkersPay
  <2>1. /\ pc = [w \in Workers |-> First(w)] /\ tx = [w \in Workers |-> NoTx]
        /\ err = [w \in Workers |-> "none"]
    BY DEF Init
  <2>2. \A w \in Workers : First(w) \in Places \ {"verify", "send"}
    BY DEF First, Places
  <2> QED BY <1>3, <2>1, <2>2 DEF WorkersPay, Errors
<1>7. LatePays /\ Counters
  BY TransferAssumption DEF Init, LatePays, Counters, TransferAssumption
<1> QED BY <1>5, <1>6, <1>7 DEF PayInv

\* The invariant of the payments holds throughout.
LEMMA PayInvHolds == Spec => []PayInv
<1>1. Init => PayInv
  BY InitPay
<1>2. PayInv /\ [Next]_vars => PayInv'
  <2> SUFFICES ASSUME PayInv, [Next]_vars PROVE PayInv' OBVIOUS
  <2>1. ASSUME NEW w \in Workers, CallStep(w) \/ FaultStep(w) PROVE PayInv'
    BY <2>1, CallKeepsPay, FaultKeepsPay
  <2>2. CASE \/ \E m \in late : LateArrives(m)
             \/ \E p \in Payments : Settle(p)
             \/ Deposit
    BY <2>2, OtherKeepsPay
  <2>3. CASE Terminated \/ UNCHANGED vars
    <3>1. UNCHANGED vars
      BY <2>3 DEF Terminated
    <3> QED BY <3>1 DEF vars, workerVars, sequencerVars, PayInv, WorkersPay, LatePays, RequestsPay,
                        Counters, Signed
  <2> QED BY <2>1, <2>2, <2>3 DEF Next
<1> QED BY <1>1, <1>2, PTL DEF Spec

\* Every variable of the payments keeps its type, for wallets, payments and
\* lists of any size: in particular no transaction names an output that is not
\* there.
THEOREM TransferTypes == Spec => []TypeOK
<1>1. PayInv => TypeOK
  BY DEF PayInv, WorkersPay, LatePays, RequestsPay, Counters, TypeOK, Places, Errors, States,
         Output, TxsOf, Txs, Calls
<1> QED BY <1>1, PayInvHolds, PTL

\* No output is spent by two payments, and a payment that is signed takes
\* exactly its amount out of the wallet, whatever is retried, lost, late or
\* restarted, with any number of goroutines for each trace.
THEOREM PaymentsExact == Spec => []PaidExactly
<1>1. PayInv => PaidExactly
  <2> SUFFICES ASSUME PayInv, NEW p \in Payments, Signed(p)
               PROVE  /\ Worth(request[p].tx) = Amount[p] + request[p].tx.change
                      /\ \A q \in Payments \ {p} : Signed(q) => Inputs(p) \cap Inputs(q) = {}
    BY DEF PaidExactly
  <2>1. Worth(request[p].tx) = Amount[p] + request[p].tx.change
    <3>1. Pays(p, request[p].tx, outputs)
      BY DEF PayInv, RequestsPay, Signed
    <3> QED BY <3>1 DEF Pays, AmountsIn, Worth, Worths
  <2>2. ASSUME NEW q \in Payments \ {p}, Signed(q), NEW i \in Inputs(p), i \in Inputs(q)
        PROVE  FALSE
    <3>1. outputs[i].by = p /\ outputs[i].by = q
      BY <2>2 DEF Inputs, PayInv, RequestsPay
    <3> QED BY <3>1
  <2> QED BY <2>1, <2>2
<1> QED BY <1>1, PayInvHolds, PTL

-----------------------------------------------------------------------------
(* Two transactions of one payment whose inputs are all unspent are one *)

\* Transaction t takes the first unspent outputs of o, and no more than it must.
FirstOf(p, t, o) ==
  /\ Len(t.inputs) \in Nat \ {0} /\ Increasing(t.inputs)
  /\ \A i \in 1..t.inputs[Len(t.inputs)] : o[i].by = "nobody" => Holds(t.inputs, i)
  /\ Totals(AmountsIn(t, o))[Len(t.inputs) - 1] < Amount[p]

FreeIn(t, o) == \A k \in 1..Len(t.inputs) : o[t.inputs[k]].by = "nobody"

\* Outputs that are spent stay so.
Spends(o, n) == \A i \in 1..Len(o) : n[i].by = "nobody" => o[i].by = "nobody"

\* So they agree as far as both go.
LEMMA FirstAgree ==
  ASSUME NEW o \in Seq(Output), NEW p, NEW t, NEW u,
         t \in TxsOf(o), u \in TxsOf(o), FirstOf(p, t, o), FirstOf(p, u, o),
         FreeIn(t, o), FreeIn(u, o)
  PROVE  \A k \in 1..Len(t.inputs) : k <= Len(u.inputs) => t.inputs[k] = u.inputs[k]
<1> DEFINE a == t.inputs
           b == u.inputs
           F == {i \in Nat : o[i].by = "nobody"}
<1>1. a \in Seq(1..Len(o)) /\ b \in Seq(1..Len(o)) /\ Len(o) \in Nat
  BY DEF TxsOf
<1>2. /\ Increasing(a) /\ Increasing(b)
      /\ \A k \in 1..Len(a) : o[a[k]].by = "nobody"
      /\ \A k \in 1..Len(b) : o[b[k]].by = "nobody"
      /\ \A i \in 1..a[Len(a)] : o[i].by = "nobody" => Holds(a, i)
      /\ \A i \in 1..b[Len(b)] : o[i].by = "nobody" => Holds(b, i)
  BY DEF FirstOf, FreeIn
<1> HIDE DEF a, b
<1>3. /\ Len(a) \in Nat /\ \A k \in 1..Len(a) : a[k] \in Nat \ {0}
      /\ Len(b) \in Nat /\ \A k \in 1..Len(b) : b[k] \in Nat \ {0}
  BY <1>1
<1>4. Lists(a, F) /\ Lists(b, F)
  BY <1>2, <1>3 DEF Lists
<1> HIDE DEF F
<1>5. \A k \in 1..Len(a) : k <= Len(b) => a[k] = b[k]
  BY <1>4, PrefixesAgree
<1> QED BY <1>5 DEF a, b

\* And neither goes on when the other has enough.
LEMMA NotLonger ==
  ASSUME NEW o \in Seq(Output), NEW p \in Payments, NEW t, NEW u,
         Pays(p, t, o), Pays(p, u, o), FirstOf(p, t, o), FirstOf(p, u, o),
         \A k \in 1..Len(t.inputs) : k <= Len(u.inputs) => t.inputs[k] = u.inputs[k]
  PROVE  ~(Len(t.inputs) < Len(u.inputs))
<1> SUFFICES ASSUME Len(t.inputs) < Len(u.inputs) PROVE FALSE
  OBVIOUS
<1> DEFINE a == AmountsIn(t, o)
           b == AmountsIn(u, o)
           m == Len(t.inputs)
           n == Len(u.inputs)
<1>0. /\ \A k \in 1..m : t.inputs[k] \in 1..Len(o)
      /\ \A k \in 1..n : u.inputs[k] \in 1..Len(o)
      /\ m \in Nat /\ n \in Nat /\ t.change \in Nat
  BY DEF Pays, TxsOf
<1>1. \A i \in 1..Len(o) : o[i].amount \in Nat
  <2>1. \A i \in 1..Len(o) : o[i] \in Output
    OBVIOUS
  <2> QED BY <2>1 DEF Output
<1>2. /\ a = [k \in 1..m |-> o[t.inputs[k]].amount]
      /\ b = [k \in 1..n |-> o[u.inputs[k]].amount]
  BY DEF AmountsIn
<1> HIDE DEF a, b
<1>3. /\ Len(a) = m /\ Len(b) = n
      /\ \A k \in 1..m : a[k] \in Nat
      /\ \A k \in 1..n : b[k] \in Nat
      /\ \A k \in 1..m : a[k] = b[k]
  BY <1>0, <1>1, <1>2
<1> HIDE DEF m, n
<1>4. Totals(a)[m] = Totals(b)[m]
  <2>1. Numbers(a) /\ Numbers(b)
    BY <1>3 DEF Numbers
  <2>2. m \in Nat /\ m <= n /\ m \in 0..m
    BY <1>0 DEF m, n
  <2>3. Len(a) \in Nat /\ Len(b) \in Nat /\ m <= Len(a) /\ m <= Len(b)
    BY <1>0, <1>3, <2>2 DEF n
  <2>4. \A k \in 0..m : Totals(a)[k] = Totals(b)[k]
    BY <1>3, <2>1, <2>2, <2>3, TotalsAgree
  <2> QED BY <2>2, <2>4
<1>5. Totals(a)[m] = Amount[p] + t.change /\ Amount[p] \in Nat
  BY <1>3, TransferAssumption DEF Pays, Total, a, TransferAssumption
<1>6. Totals(b)[m] <= Totals(b)[n - 1]
  <2>1. m \in 0..Len(b) /\ n - 1 \in 0..Len(b) /\ m <= n - 1 /\ Len(b) \in Nat
    BY <1>0, <1>3 DEF m, n
  <2>2. \A k \in 1..Len(b) : b[k] \in Nat
    BY <1>3
  <2> QED BY <2>1, <2>2, TotalsGrow
<1>7. Totals(b)[n - 1] < Amount[p]
  BY DEF FirstOf, b, n
<1>8. Totals(b)[m] \in Int /\ Totals(b)[n - 1] \in Int
  <2>1. m \in 0..Len(b) /\ n - 1 \in 0..Len(b) /\ Len(b) \in Nat
    BY <1>0, <1>3 DEF m, n
  <2>2. Numbers(b)
    BY <1>3 DEF Numbers
  <2> QED BY <2>1, <2>2, TotalsOf
<1> QED BY <1>0, <1>4, <1>5, <1>6, <1>7, <1>8

\* Two transactions of a payment that are still free to be sent are the same:
\* each took the first outputs that were unspent when it was built, and those
\* are the first still.
LEMMA FreeAlike ==
  ASSUME NEW o \in Seq(Output), NEW p \in Payments, NEW t, NEW u,
         Pays(p, t, o), Pays(p, u, o), FirstOf(p, t, o), FirstOf(p, u, o),
         FreeIn(t, o), FreeIn(u, o)
  PROVE  t = u
<1>1. t \in TxsOf(o) /\ u \in TxsOf(o)
  BY DEF Pays
<1>2. /\ \A k \in 1..Len(t.inputs) : k <= Len(u.inputs) => t.inputs[k] = u.inputs[k]
      /\ \A k \in 1..Len(u.inputs) : k <= Len(t.inputs) => u.inputs[k] = t.inputs[k]
  BY <1>1, FirstAgree
<1>3. ~(Len(t.inputs) < Len(u.inputs)) /\ ~(Len(u.inputs) < Len(t.inputs))
  BY <1>2, NotLonger
<1>4. /\ t.inputs \in Seq(1..Len(o)) /\ u.inputs \in Seq(1..Len(o))
      /\ t.change \in Nat /\ u.change \in Nat
      /\ t = [inputs |-> t.inputs, change |-> t.change]
      /\ u = [inputs |-> u.inputs, change |-> u.change]
  BY <1>1 DEF TxsOf
<1>5. t.inputs = u.inputs
  <2>1. Len(t.inputs) = Len(u.inputs) /\ Len(t.inputs) \in Nat
    BY <1>3, <1>4
  <2>2. t.inputs = [k \in 1..Len(t.inputs) |-> t.inputs[k]] /\ u.inputs = [k \in 1..Len(u.inputs) |-> u.inputs[k]]
    BY <1>4
  <2> QED BY <1>2, <2>1, <2>2
<1>6. t.change = u.change
  <2>1. Amount[p] + t.change = Amount[p] + u.change /\ Amount[p] \in Nat
    BY <1>5, TransferAssumption DEF Pays, AmountsIn, TransferAssumption
  <2> QED BY <1>4, <2>1
<1> QED BY <1>4, <1>5, <1>6
\* What a worker builds takes the first unspent outputs.
LEMMA BuiltFirst ==
  ASSUME PayInv, NEW w \in Workers, NEW q, q = Unspent, Chosen(w, q).ok
  PROVE  FirstOf(Trace[w], RawTx(w, q), outputs)
<1> DEFINE S == {i \in 1..Len(outputs) : outputs[i].by = "nobody"}
           r == SelectOutputs(Worths(q), Amount[Trace[w]])
           n == r.taken
           inputs == SubSeq(q, 1, n)
           t == RawTx(w, q)
<1>1. /\ outputs \in Seq(Output) /\ Len(outputs) \in Nat
      /\ Amount[Trace[w]] \in Nat \ {0} /\ ListLimit \in Nat
  BY TransferAssumption, TraceType DEF PayInv, RequestsPay, TransferAssumption
<1>2. q = Listed(S, Len(outputs), ListLimit)
  BY DEF Unspent
<1>3. \A i \in 1..Len(outputs) : outputs[i].by = "nobody" => i \in S
  OBVIOUS
<1> HIDE DEF S
<1>4. /\ Listed(S, Len(outputs), ListLimit) \in Seq(S \cap (1..Len(outputs)))
      /\ Increasing(Listed(S, Len(outputs), ListLimit))
      /\ \A k \in 1..Len(Listed(S, Len(outputs), ListLimit)) : \A x \in S :
           x \in 1..Listed(S, Len(outputs), ListLimit)[k]
             => Holds(SubSeq(Listed(S, Len(outputs), ListLimit), 1, k), x)
  BY <1>1, ListedIs
<1>5. /\ q \in Seq(1..Len(outputs)) /\ Increasing(q)
      /\ \A k \in 1..Len(q) : \A x \in S : x \in 1..q[k] => Holds(SubSeq(q, 1, k), x)
  <2>1. Seq(S \cap (1..Len(outputs))) \subseteq Seq(1..Len(outputs))
    BY SeqMonotone
  <2> QED BY <1>2, <1>4, <2>1
<1>6. /\ Worths(q) = [k \in 1..Len(q) |-> outputs[q[k]].amount]
      /\ Len(Worths(q)) = Len(q) /\ Len(q) \in Nat
      /\ \A k \in 1..Len(q) : q[k] \in 1..Len(outputs)
  BY <1>5 DEF Worths
<1>7. Numbers(Worths(q))
  <2>1. \A i \in 1..Len(outputs) : outputs[i] \in Output
    BY <1>1
  <2>2. \A i \in 1..Len(outputs) : outputs[i].amount \in Nat
    BY <2>1 DEF Output
  <2> QED BY <1>6, <2>2 DEF Numbers
<1>8. n \in 1..Len(q) /\ Totals(Worths(q))[n - 1] < Amount[Trace[w]]
  <2>1. r.ok
    BY DEF Chosen
  <2>2. /\ r.taken \in 1..Len(Worths(q))
        /\ Totals(Worths(q))[r.taken - 1] < Amount[Trace[w]]
    BY <1>1, <1>6, <1>7, <2>1, SelectedLeast
  <2> QED BY <1>6, <2>2
<1>9. t.inputs = inputs
  BY DEF RawTx, Chosen
<1> HIDE DEF r, n
<1>10. /\ Len(inputs) = n /\ n \in Nat \ {0}
       /\ \A k \in 1..n : inputs[k] = q[k] /\ k \in 1..Len(q)
  BY <1>5, <1>8
<1>11. \A x \in S : x \in 1..q[n] => Holds(inputs, x)
  BY <1>5, <1>8
<1> HIDE DEF inputs
<1>12. Increasing(inputs)
  BY <1>5, <1>10 DEF Increasing
<1>13. ASSUME NEW i \in 1..inputs[Len(inputs)], outputs[i].by = "nobody"
       PROVE  Holds(inputs, i)
  <2>1. inputs[Len(inputs)] = q[n] /\ q[n] \in 1..Len(outputs)
    BY <1>6, <1>8, <1>10
  <2>2. i \in 1..Len(outputs) /\ i \in 1..q[n]
    BY <2>1
  <2> QED BY <1>3, <1>11, <1>13, <2>2
<1> DEFINE paid == AmountsIn(t, outputs)
<1>14. paid = [k \in 1..n |-> outputs[inputs[k]].amount]
  BY <1>9, <1>10 DEF AmountsIn
<1>15. Len(paid) = n /\ \A k \in 1..n : paid[k] = Worths(q)[k]
  BY <1>6, <1>10, <1>14
<1> HIDE DEF paid, t
<1>16. Totals(paid)[n - 1] = Totals(Worths(q))[n - 1]
  <2> DEFINE m == n - 1
  <2>0. m \in Nat /\ m <= Len(paid) /\ m <= Len(Worths(q)) /\ m \in 0..m
    BY <1>6, <1>8, <1>15
  <2>1. Numbers(paid) /\ Len(paid) \in Nat
    <3>1. n \in Nat /\ 1..n \subseteq 1..Len(q)
      BY <1>6, <1>8
    <3>2. \A k \in 1..Len(q) : Worths(q)[k] \in Int
      BY <1>6, <1>7 DEF Numbers
    <3> QED BY <1>15, <3>1, <3>2 DEF Numbers
  <2>2. \A k \in 1..m : paid[k] = Worths(q)[k]
    BY <1>8, <1>15
  <2>4. Len(Worths(q)) \in Nat
    BY <1>6
  <2> HIDE DEF m
  <2>3. \A k \in 0..m : Totals(paid)[k] = Totals(Worths(q))[k]
    BY <1>7, <2>0, <2>1, <2>2, <2>4, TotalsAgree
  <2> QED BY <2>0, <2>3 DEF m
<1> QED BY <1>8, <1>9, <1>10, <1>12, <1>13, <1>16 DEF FirstOf, paid, t

\* What was first stays first, and what is not free stays so.
LEMMA StillFirst ==
  ASSUME NEW o \in Seq(Output), NEW n \in Seq(Output), Grows(o, n), Spends(o, n),
         NEW p, NEW t \in TxsOf(o)
  PROVE  /\ FirstOf(p, t, o) => FirstOf(p, t, n)
         /\ FreeIn(t, n) => FreeIn(t, o)
<1>1. Len(t.inputs) \in Nat /\ \A k \in 1..Len(t.inputs) : t.inputs[k] \in 1..Len(o)
  BY DEF TxsOf
<1>2. FreeIn(t, n) => FreeIn(t, o)
  BY <1>1 DEF FreeIn, Spends
<1>3. ASSUME FirstOf(p, t, o) PROVE FirstOf(p, t, n)
  <2>1. AmountsIn(t, n) = AmountsIn(t, o)
    BY <1>1 DEF AmountsIn, Grows
  <2>2. t.inputs[Len(t.inputs)] \in 1..Len(o) /\ Len(o) \in Nat
    BY <1>1, <1>3 DEF FirstOf
  <2>3. \A i \in 1..t.inputs[Len(t.inputs)] : i \in 1..Len(o)
    BY <2>2
  <2> QED BY <1>3, <2>1, <2>3 DEF FirstOf, Spends
<1> QED BY <1>2, <1>3

-----------------------------------------------------------------------------
(* sendTransaction does not panic when each trace has one worker *)

OneWorkerEach == \A v, w \in Workers : Trace[v] = Trace[w] => v = w

\* Whatever is about to be sent, or on its way, took the first outputs there were.
AllFirst ==
  /\ \A w \in Workers : pc[w] \in {"verify", "send"} => FirstOf(Trace[w], tx[w], outputs)
  /\ \A m \in late : FirstOf(m.trace, m.tx, outputs)

\* What a worker is about to send is what the sequencer has for its trace, and
\* what is on its way for the trace is the same or has lost an input.
SendsKnown ==
  \A w \in Workers : pc[w] = "send" =>
    /\ request[Trace[w]].tx = tx[w]
    /\ \A m \in late : m.trace = Trace[w] => m.tx = tx[w] \/ ~FreeIn(m.tx, outputs)

PanicInv == AllFirst /\ SendsKnown /\ NoPanic

\* No step gives an output back.
LEMMA NextSpends ==
  ASSUME PayInv, [Next]_vars
  PROVE  outputs' \in Seq(Output) /\ Grows(outputs, outputs') /\ Spends(outputs, outputs')
<1>0. outputs \in Seq(Output) /\ Len(outputs) \in Nat
  BY DEF PayInv, RequestsPay
<1>1. ASSUME outputs' = outputs
      PROVE  outputs' \in Seq(Output) /\ Grows(outputs, outputs') /\ Spends(outputs, outputs')
  BY <1>0, <1>1 DEF Grows, Spends
<1>2. ASSUME NEW p \in Payments, NEW t, Pays(p, t, outputs), Accept(p, t)
      PROVE  outputs' \in Seq(Output) /\ Grows(outputs, outputs') /\ Spends(outputs, outputs')
  <2>1. RequestsPay' /\ Grows(outputs, outputs')
    BY <1>2, AcceptPays DEF PayInv
  <2>2. outputs' = [i \in 1..Len(outputs) |->
                     IF \E k \in 1..Len(t.inputs) : t.inputs[k] = i
                     THEN [outputs[i] EXCEPT !.by = p] ELSE outputs[i]]
    BY <1>2 DEF Accept
  <2>3. p # "nobody" /\ \A i \in 1..Len(outputs) : outputs[i] \in Output
    BY <1>0, TransferAssumption DEF TransferAssumption
  <2>4. \A i \in 1..Len(outputs) : outputs'[i].by = p \/ outputs'[i] = outputs[i]
    BY <2>2, <2>3 DEF Output
  <2>5. Spends(outputs, outputs')
    BY <2>3, <2>4 DEF Spends
  <2> QED BY <2>1, <2>5 DEF RequestsPay
<1>3. ASSUME NEW n \in Nat \ {0}, outputs' = Append(outputs, [amount |-> n, by |-> "nobody"])
      PROVE  outputs' \in Seq(Output) /\ Grows(outputs, outputs') /\ Spends(outputs, outputs')
  <2>1. /\ outputs' \in Seq(Output) /\ Grows(outputs, outputs')
        /\ \A i \in 1..Len(outputs) : outputs'[i] = outputs[i]
    BY <1>0, <1>3, AppendPays
  <2> QED BY <2>1 DEF Spends
<1>4. ASSUME NEW w \in Workers, CallStep(w) \/ FaultStep(w)
      PROVE  \/ outputs' = outputs
             \/ pc[w] \in {"verify", "send"} /\ Accept(Trace[w], tx[w])
  BY <1>4 DEF CallStep, FaultStep, LookupFound, LookupNone, Build, BuildInsufficient, VerifyOk,
              VerifySigned, VerifyLocked, SendOk, SendSigned, SendLocked, Retry, Timeout, AnswerLost,
              Crash, Record, sequencerVars
<1>5. ASSUME NEW w \in Workers, CallStep(w) \/ FaultStep(w)
      PROVE  outputs' \in Seq(Output) /\ Grows(outputs, outputs') /\ Spends(outputs, outputs')
  <2>1. pc[w] \in {"verify", "send"} => Pays(Trace[w], tx[w], outputs)
    BY DEF PayInv, WorkersPay
  <2> QED BY <1>1, <1>2, <1>4, <1>5, <2>1, TraceType
<1>6. ASSUME NEW m \in late, LateArrives(m)
      PROVE  outputs' \in Seq(Output) /\ Grows(outputs, outputs') /\ Spends(outputs, outputs')
  <2>1. m.trace \in Payments /\ Pays(m.trace, m.tx, outputs)
    BY DEF PayInv, LatePays
  <2>2. outputs' = outputs \/ Accept(m.trace, m.tx)
    BY <1>6 DEF LateArrives, Record
  <2> QED BY <1>1, <1>2, <2>1, <2>2
<1>7. ASSUME NEW p \in Payments, Settle(p)
      PROVE  outputs' \in Seq(Output) /\ Grows(outputs, outputs') /\ Spends(outputs, outputs')
  <2>1. request[p].tx.change \in Nat
    BY DEF PayInv, RequestsPay, TxsOf
  <2>2. CASE request[p].tx.change = 0
    BY <1>1, <1>7, <2>2 DEF Settle
  <2>3. CASE request[p].tx.change # 0
    <3>1. request[p].tx.change \in Nat \ {0}
      BY <2>1, <2>3
    <3>2. outputs' = Append(outputs, [amount |-> request[p].tx.change, by |-> "nobody"])
      BY <1>7, <2>3 DEF Settle
    <3> QED BY <1>3, <3>1, <3>2
  <2> QED BY <2>2, <2>3
<1>8. ASSUME Deposit
      PROVE  outputs' \in Seq(Output) /\ Grows(outputs, outputs') /\ Spends(outputs, outputs')
  BY <1>3, <1>8, TransferAssumption DEF Deposit, TransferAssumption
<1>9. ASSUME Terminated \/ UNCHANGED vars
      PROVE  outputs' \in Seq(Output) /\ Grows(outputs, outputs') /\ Spends(outputs, outputs')
  BY <1>1, <1>9 DEF Terminated, vars, sequencerVars
<1> QED BY <1>5, <1>6, <1>7, <1>8, <1>9 DEF Next

\* A step of one worker leaves the others where they are.
LEMMA OthersStay ==
  ASSUME PayInv, NEW v \in Workers, CallStep(v) \/ FaultStep(v)
  PROVE  \A u \in Workers \ {v} : pc'[u] = pc[u] /\ tx'[u] = tx[u]
<1>1. /\ \E to : pc' = [pc EXCEPT ![v] = to]
      /\ tx' = tx \/ \E t : tx' = [tx EXCEPT ![v] = t]
  <2>1. CASE FaultStep(v)
    BY <2>1, LostIsNoResult DEF FaultStep, Timeout, AnswerLost, Crash, Fail
  <2>2. CASE CallStep(v)
    BY <2>2 DEF CallStep, LookupFound, LookupNone, Build, BuildInsufficient, VerifyOk, VerifySigned,
                VerifyLocked, SendOk, SendSigned, SendLocked, Retry, Fail
  <2> QED BY <2>1, <2>2
<1> QED BY <1>1 DEF PayInv, WorkersPay

\* A worker comes to its last call by a verification, and keeps what it built.
LEMMA NextPlaces ==
  ASSUME PayInv, [Next]_vars, NEW w \in Workers
  PROVE  /\ pc'[w] = "send" => tx'[w] = tx[w] /\ (pc[w] = "send" \/ VerifyOk(w))
         /\ pc'[w] = "verify" => (pc[w] = "verify" /\ tx'[w] = tx[w]) \/ Build(w)
         /\ pc'[w] = "panic" => pc[w] = "panic" \/ SendSigned(w)
<1>0. pc \in [Workers -> Places]
  BY DEF PayInv, WorkersPay
<1>1. CASE CallStep(w)
  BY <1>0, <1>1 DEF CallStep, LookupFound, LookupNone, Build, BuildInsufficient, VerifyOk, VerifySigned,
         VerifyLocked, SendOk, SendSigned, SendLocked, Retry, Fail, First, Places
<1>2. CASE FaultStep(w)
  <2>1. \E to \in {"failed", "lookup", "start"} : pc' = [pc EXCEPT ![w] = to]
    BY <1>2, LostIsNoResult DEF FaultStep, Timeout, AnswerLost, Crash, Fail, First
  <2> QED BY <1>0, <2>1
<1>3. CASE \E v \in Workers : v # w /\ (CallStep(v) \/ FaultStep(v))
  <2>1. pc'[w] = pc[w] /\ tx'[w] = tx[w]
    BY <1>3, OthersStay
  <2> QED BY <2>1
<1>4. CASE UNCHANGED <<pc, tx>>
  BY <1>4
<1>5. \/ \E v \in Workers : CallStep(v) \/ FaultStep(v)
      \/ UNCHANGED <<pc, tx>>
  BY DEF Next, LateArrives, Settle, Deposit, Terminated, vars, workerVars
<1> QED BY <1>1, <1>2, <1>3, <1>4, <1>5

\* The transaction of a request is replaced by a verification, whose inputs are
\* unspent.
LEMMA NextRequest ==
  ASSUME PayInv, [Next]_vars, NEW p \in Payments
  PROVE  \/ request'[p].tx = request[p].tx
         \/ \E w \in Workers : pc[w] = "verify" /\ Trace[w] = p /\ request'[p].tx = tx[w]
         \/ \E m \in late : m.trace = p /\ FreeIn(m.tx, outputs) /\ request'[p].tx = m.tx
<1>0. request \in [Payments -> [state : States, tx : TxsOf(outputs)]]
  BY DEF PayInv, RequestsPay
<1>1. ASSUME NEW q \in Payments, NEW t, Record(q, t)
      PROVE  request'[p].tx = request[p].tx \/ (q = p /\ request'[p].tx = t /\ FreeIn(t, outputs))
  BY <1>0, <1>1 DEF Record, Free, FreeIn
<1>2. ASSUME NEW q \in Payments, NEW t, Accept(q, t) PROVE request'[p].tx = request[p].tx
  BY <1>0, <1>2 DEF Accept
<1>3. ASSUME NEW q \in Payments, Settle(q) PROVE request'[p].tx = request[p].tx
  BY <1>0, <1>3 DEF Settle
<1>4. ASSUME NEW w \in Workers, CallStep(w) \/ FaultStep(w)
      PROVE  \/ request' = request
             \/ pc[w] = "verify" /\ Record(Trace[w], tx[w])
             \/ Accept(Trace[w], tx[w])
  BY <1>4 DEF CallStep, FaultStep, LookupFound, LookupNone, Build, BuildInsufficient, VerifyOk,
              VerifySigned, VerifyLocked, SendOk, SendSigned, SendLocked, Retry, Timeout, AnswerLost,
              Crash, sequencerVars
<1>5. CASE \E w \in Workers : CallStep(w) \/ FaultStep(w)
  BY <1>1, <1>2, <1>4, <1>5, TraceType
<1>6. CASE \E m \in late : LateArrives(m)
  <2>1. PICK m \in late : Record(m.trace, m.tx) \/ Accept(m.trace, m.tx)
    BY <1>6 DEF LateArrives
  <2>2. m.trace \in Payments
    BY DEF PayInv, LatePays
  <2> QED BY <1>1, <1>2, <2>1, <2>2
<1>7. CASE \/ \E q \in Payments : Settle(q)
           \/ Deposit \/ Terminated \/ UNCHANGED vars
  BY <1>3, <1>7 DEF Deposit, Terminated, vars, sequencerVars
<1> QED BY <1>5, <1>6, <1>7 DEF Next

\* Only a worker that gives up leaves its call behind.
LEMMA NextLate ==
  ASSUME PayInv, [Next]_vars, NEW m \in late'
  PROVE  \/ m \in late
         \/ \E w \in Workers : /\ pc[w] \in {"verify", "send"} /\ m = InFlight(w)
                              /\ pc'[w] \notin {"verify", "send"}
<1>0. pc \in [Workers -> Places]
  BY DEF PayInv, WorkersPay
<1>1. CASE \E w \in Workers : Timeout(w) \/ Crash(w)
  <2>1. PICK w \in Workers : Timeout(w) \/ Crash(w)
    BY <1>1
  <2>2. \E to \in {"failed", "lookup", "start"} : pc' = [pc EXCEPT ![w] = to]
    BY <2>1, LostIsNoResult DEF Timeout, Crash, Fail, First
  <2> QED BY <1>0, <2>1, <2>2 DEF Timeout, Crash
<1>2. late' \subseteq late \/ \E w \in Workers : Timeout(w) \/ Crash(w)
  BY DEF Next, CallStep, FaultStep, LookupFound, LookupNone, Build, BuildInsufficient, VerifyOk,
         VerifySigned, VerifyLocked, SendOk, SendSigned, SendLocked, Retry, AnswerLost,
         LateArrives, Settle, Deposit, Terminated, vars, sequencerVars
<1> QED BY <1>1, <1>2

\* Every step keeps AllFirst.
LEMMA NextAllFirst ==
  ASSUME PayInv, AllFirst, [Next]_vars
  PROVE  AllFirst'
<1>0. /\ outputs \in Seq(Output) /\ outputs' \in Seq(Output)
      /\ Grows(outputs, outputs') /\ Spends(outputs, outputs')
  BY NextSpends DEF PayInv, RequestsPay
<1>1. ASSUME NEW w \in Workers, pc[w] \in {"verify", "send"}
      PROVE  FirstOf(Trace[w], tx[w], outputs')
  <2>1. FirstOf(Trace[w], tx[w], outputs) /\ tx[w] \in TxsOf(outputs)
    BY <1>1 DEF AllFirst, PayInv, WorkersPay
  <2> QED BY <1>0, <2>1, StillFirst
<1>2. ASSUME NEW w \in Workers, pc'[w] \in {"verify", "send"}
      PROVE  FirstOf(Trace[w], tx'[w], outputs')
  <2>1. CASE Build(w)
    <3>1. PICK q : q = Unspent /\ Chosen(w, q).ok /\ tx' = [tx EXCEPT ![w] = RawTx(w, q)]
      BY <2>1 DEF Build
    <3>2. FirstOf(Trace[w], RawTx(w, q), outputs)
      BY <3>1, BuiltFirst
    <3>3. tx'[w] = RawTx(w, q) /\ outputs' = outputs
      BY <2>1, <3>1 DEF Build, PayInv, WorkersPay, sequencerVars
    <3> QED BY <3>2, <3>3
  <2>2. CASE ~Build(w)
    <3>1. tx'[w] = tx[w] /\ pc[w] \in {"verify", "send"}
      BY <1>2, <2>2, NextPlaces DEF VerifyOk
    <3> QED BY <1>1, <3>1
  <2> QED BY <2>1, <2>2
<1>3. ASSUME NEW m \in late' PROVE FirstOf(m.trace, m.tx, outputs')
  <2>1. CASE m \in late
    <3>1. FirstOf(m.trace, m.tx, outputs) /\ m.tx \in TxsOf(outputs)
      BY <2>1 DEF AllFirst, PayInv, LatePays
    <3> QED BY <1>0, <3>1, StillFirst
  <2>2. CASE \E w \in Workers : pc[w] \in {"verify", "send"} /\ m = InFlight(w)
    BY <1>1, <2>2 DEF InFlight
  <2> QED BY <2>1, <2>2, NextLate
<1> QED BY <1>2, <1>3 DEF AllFirst

\* Every step keeps SendsKnown: what a worker verifies and every older call for
\* its trace that can still succeed are one transaction.
LEMMA NextSendsKnown ==
  ASSUME OneWorkerEach, PayInv, AllFirst, SendsKnown, [Next]_vars
  PROVE  SendsKnown'
<1> SUFFICES ASSUME NEW w \in Workers, pc'[w] = "send"
             PROVE  /\ request'[Trace[w]].tx = tx'[w]
                    /\ \A m \in late' : m.trace = Trace[w] =>
                         m.tx = tx'[w] \/ ~FreeIn(m.tx, outputs')
  BY DEF SendsKnown
<1>0. /\ outputs \in Seq(Output) /\ outputs' \in Seq(Output)
      /\ Grows(outputs, outputs') /\ Spends(outputs, outputs') /\ Trace[w] \in Payments
  BY NextSpends, TraceType DEF PayInv, RequestsPay
<1>1. tx'[w] = tx[w] /\ (pc[w] = "send" \/ VerifyOk(w))
  BY NextPlaces
<1>2. ASSUME NEW m \in late', m.trace = Trace[w], m \notin late PROVE FALSE
  <2>1. PICK v \in Workers : m = InFlight(v) /\ pc'[v] \notin {"verify", "send"}
    BY <1>2, NextLate
  <2>2. Trace[v] = Trace[w]
    BY <1>2, <2>1 DEF InFlight
  <2> QED BY <2>1, <2>2 DEF OneWorkerEach
<1>3. ASSUME NEW m \in late, ~FreeIn(m.tx, outputs) PROVE ~FreeIn(m.tx, outputs')
  <2>1. m.tx \in TxsOf(outputs)
    BY DEF PayInv, LatePays
  <2> QED BY <1>0, <1>3, <2>1, StillFirst
<1>4. CASE VerifyOk(w)
  <2>1. /\ request'[Trace[w]].tx = tx[w] /\ FreeIn(tx[w], outputs) /\ pc[w] = "verify"
    BY <1>0, <1>4 DEF VerifyOk, Record, Free, FreeIn, PayInv, RequestsPay
  <2>2. Pays(Trace[w], tx[w], outputs) /\ FirstOf(Trace[w], tx[w], outputs)
    BY <2>1 DEF PayInv, WorkersPay, AllFirst
  <2>3. ASSUME NEW m \in late, m.trace = Trace[w], FreeIn(m.tx, outputs) PROVE m.tx = tx[w]
    <3>1. Pays(Trace[w], m.tx, outputs) /\ FirstOf(Trace[w], m.tx, outputs)
      BY <2>3 DEF PayInv, LatePays, AllFirst
    <3> QED BY <1>0, <2>1, <2>2, <2>3, <3>1, FreeAlike
  <2> QED BY <1>1, <1>2, <1>3, <2>1, <2>3
<1>5. CASE pc[w] = "send"
  <2>1. /\ request[Trace[w]].tx = tx[w]
        /\ \A m \in late : m.trace = Trace[w] => m.tx = tx[w] \/ ~FreeIn(m.tx, outputs)
    BY <1>5 DEF SendsKnown
  <2>2. ASSUME NEW v \in Workers, pc[v] = "verify", Trace[v] = Trace[w] PROVE FALSE
    BY <1>5, <2>2 DEF OneWorkerEach
  <2>3. request'[Trace[w]].tx = tx[w]
    BY <1>0, <2>1, <2>2, NextRequest
  <2> QED BY <1>1, <1>2, <1>3, <2>1, <2>3
<1> QED BY <1>1, <1>4, <1>5

\* When each trace has one worker, sendTransaction never panics: no retry,
\* restart or late call makes two transactions of a trace meet after the
\* verification, whatever else the wallet pays and receives.
THEOREM NeverPanics == ASSUME OneWorkerEach PROVE Spec => []NoPanic
<1> DEFINE IInv == PayInv /\ PanicInv
<1>1. Init => PanicInv
  BY DEF Init, First, PanicInv, AllFirst, SendsKnown, NoPanic
<1>2. PayInv /\ PanicInv /\ [Next]_vars => PanicInv'
  <2> SUFFICES ASSUME PayInv, PanicInv, [Next]_vars PROVE PanicInv'
    OBVIOUS
  <2>1. AllFirst' /\ SendsKnown'
    BY NextAllFirst, NextSendsKnown DEF PanicInv
  <2>2. ASSUME NEW w \in Workers PROVE pc'[w] # "panic"
    <3>1. CASE SendSigned(w)
      <4>1. request[Trace[w]].tx = tx[w]
        BY <3>1 DEF SendSigned, PanicInv, SendsKnown
      <4> QED BY <3>1, <4>1 DEF SendSigned, PayInv, WorkersPay
    <3>2. CASE ~SendSigned(w)
      BY <3>2, NextPlaces DEF PanicInv, NoPanic
    <3> QED BY <3>1, <3>2
  <2> QED BY <2>1, <2>2 DEF PanicInv, NoPanic
<1>3. PanicInv => NoPanic
  BY DEF PanicInv
<1> QED BY <1>1, <1>2, <1>3, PayInvHolds, PTL DEF Spec

-----------------------------------------------------------------------------
(* Paying implements Purse *)

\* What the wallet has by each output, with requests r for outputs o.
HoldingIn(o, r, i) ==
  IF o[i].by = "nobody" THEN o[i].amount
  ELSE IF r[o[i].by].state = "signed" /\ r[o[i].by].tx.inputs[1] = i
  THEN r[o[i].by].tx.change
  ELSE 0
Holdings(o, r) == [i \in 1..Len(o) |-> HoldingIn(o, r, i)]

LEMMA PursesAre ==
  /\ Purses = Total(Holdings(outputs, request))
  /\ Purses' = Total(Holdings(outputs', request'))
BY DEF Purses, Holding, Holdings, HoldingIn, Total, Totals

RequestsOf(o) == [Payments -> [state : States, tx : TxsOf(o)]]

LEMMA HoldingsType ==
  ASSUME NEW o \in Seq(Output), NEW n \in Seq(Output), NEW r \in RequestsOf(n)
  PROVE  /\ Len(o) \in Nat /\ Len(Holdings(o, r)) = Len(o) /\ Numbers(Holdings(o, r))
         /\ \A i \in 1..Len(o) :
              Holdings(o, r)[i] = HoldingIn(o, r, i) /\ Holdings(o, r)[i] \in Nat
<1>1. Len(o) \in Nat /\ \A i \in 1..Len(o) : o[i] \in Output
  OBVIOUS
<1>2. \A p \in Payments : r[p].tx.change \in Nat
  BY DEF RequestsOf, TxsOf
<1>3. \A i \in 1..Len(o) : HoldingIn(o, r, i) \in Nat
  BY <1>1, <1>2 DEF HoldingIn, Output
<1>4. Len(Holdings(o, r)) = Len(o) /\ \A i \in 1..Len(o) : Holdings(o, r)[i] = HoldingIn(o, r, i)
  BY <1>1 DEF Holdings
<1> QED BY <1>1, <1>3, <1>4 DEF Numbers

\* What is not signed makes no difference.
LEMMA HoldingsSame ==
  ASSUME NEW o \in Seq(Output), NEW r, NEW s,
         \A p \in Payments : \/ s[p] = r[p]
                             \/ r[p].state # "signed" /\ s[p].state # "signed"
  PROVE  Holdings(o, s) = Holdings(o, r)
<1>1. \A i \in 1..Len(o) : o[i] \in Output
  OBVIOUS
<1>2. \A i \in 1..Len(o) : o[i].by = "nobody" \/ o[i].by \in Payments
  BY <1>1 DEF Output
<1> QED BY <1>2 DEF Holdings, HoldingIn

\* A new output is worth its amount.
LEMMA HoldingsMore ==
  ASSUME NEW o \in Seq(Output), NEW r \in RequestsOf(o), NEW n \in Nat \ {0}
  PROVE  Total(Holdings(Append(o, [amount |-> n, by |-> "nobody"]), r)) = Total(Holdings(o, r)) + n
<1> DEFINE m == Append(o, [amount |-> n, by |-> "nobody"])
<1>1. m \in Seq(Output) /\ \A i \in 1..Len(o) : m[i] = o[i]
  BY AppendPays
<1>2. /\ Len(o) \in Nat /\ Len(m) = Len(o) + 1
      /\ m[Len(m)].amount = n /\ m[Len(m)].by = "nobody"
  OBVIOUS
<1> HIDE DEF m
<1> DEFINE p == Holdings(o, r)
           q == Holdings(m, r)
<1>3. /\ Len(p) = Len(o) /\ Len(q) = Len(o) + 1 /\ Numbers(p) /\ Numbers(q)
      /\ \A i \in 1..Len(o) : p[i] = HoldingIn(o, r, i)
      /\ \A i \in 1..Len(m) : q[i] = HoldingIn(m, r, i)
  BY <1>1, <1>2, HoldingsType
<1> HIDE DEF p, q
<1>4. \A i \in 1..Len(p) : q[i] = p[i]
  BY <1>1, <1>2, <1>3 DEF HoldingIn
<1>5. q[Len(q)] = n
  BY <1>2, <1>3 DEF HoldingIn
<1>6. Total(q) = Total(p) + q[Len(q)]
  BY <1>2, <1>3, <1>4, TotalMore
<1> QED BY <1>5, <1>6 DEF m, p, q

\* A payment takes its amount out of the purse, which has it: its inputs are
\* worth the amount and the change, and the change is coming.
LEMMA AcceptTakes ==
  ASSUME PayInv, NEW p \in Payments, NEW t, Pays(p, t, outputs), FirstOf(p, t, outputs),
         Accept(p, t)
  PROVE  Purses \in Nat /\ Amount[p] <= Purses /\ Purses' = Purses - Amount[p]
<1> DEFINE h == Holdings(outputs, request)
           g == Holdings(outputs', request')
           n == Len(outputs)
           s == t.inputs
           S == {s[k] : k \in 1..Len(s)}
           R == (1..n) \ S
<1>1. /\ outputs \in Seq(Output) /\ outputs' \in Seq(Output) /\ n \in Nat
      /\ request \in RequestsOf(outputs) /\ request' \in RequestsOf(outputs')
      /\ Len(outputs') = n
  <2>1. RequestsPay' /\ RequestsPay
    BY AcceptPays DEF PayInv
  <2>2. Len(outputs') = n
    BY <2>1 DEF Accept, RequestsPay
  <2> QED BY <2>1, <2>2 DEF RequestsPay, RequestsOf
<1>2. /\ s \in Seq(1..n) /\ Len(s) \in Nat \ {0} /\ Increasing(s) /\ t.change \in Nat
      /\ \A k \in 1..Len(s) : s[k] \in 1..n /\ outputs[s[k]].by = "nobody"
      /\ Total(AmountsIn(t, outputs)) = Amount[p] + t.change
  BY DEF Pays, TxsOf, FirstOf, Accept, Free
<1>3. /\ \A i \in 1..n : outputs'[i].by = IF i \in S THEN p ELSE outputs[i].by
      /\ \A i \in 1..n : outputs'[i].amount = outputs[i].amount
      /\ \A i \in 1..n : outputs[i] \in Output
  <2>1. \A i \in 1..n : outputs[i] \in Output
    BY <1>1
  <2>2. \A i \in 1..n : outputs'[i] = IF i \in S THEN [outputs[i] EXCEPT !.by = p] ELSE outputs[i]
    BY DEF Accept
  <2> QED BY <2>1, <2>2 DEF Output
<1>4. /\ request[p].state = "unspent" /\ request'[p].state = "signed" /\ request'[p].tx = t
      /\ \A q \in Payments : q # p => request'[q] = request[q]
  BY <1>1 DEF Accept, RequestsOf
<1>5. p # "nobody"
  BY TransferAssumption DEF TransferAssumption
<1>6. /\ Len(h) = n /\ Len(g) = n /\ Numbers(h) /\ Numbers(g)
      /\ \A i \in 1..n : h[i] = HoldingIn(outputs, request, i) /\ h[i] \in Nat
      /\ \A i \in 1..n : g[i] = HoldingIn(outputs', request', i)
  BY <1>1, HoldingsType
<1>7. s[1] \in S /\ \A i \in S : i \in 1..n /\ outputs[i].by = "nobody"
  BY <1>2
<1> HIDE DEF h, g
<1>8. \A i \in R : g[i] = h[i]
  <2> SUFFICES ASSUME NEW i \in R PROVE g[i] = h[i]
    OBVIOUS
  <2>1. i \in 1..n /\ i # s[1] /\ outputs'[i].by = outputs[i].by /\ outputs'[i].amount = outputs[i].amount
    BY <1>3, <1>7
  <2>2. outputs[i].by = "nobody" \/ outputs[i].by \in Payments
    BY <1>3 DEF Output
  <2>3. CASE outputs[i].by = p
    BY <1>4, <1>5, <1>6, <2>1, <2>3 DEF HoldingIn
  <2>4. CASE outputs[i].by # p
    BY <1>4, <1>6, <2>1, <2>2, <2>4 DEF HoldingIn
  <2> QED BY <2>3, <2>4
<1>9. \A i \in S : h[i] = outputs[i].amount /\ g[i] = IF i = s[1] THEN t.change ELSE 0
  <2> SUFFICES ASSUME NEW i \in S
               PROVE  h[i] = outputs[i].amount /\ g[i] = IF i = s[1] THEN t.change ELSE 0
    OBVIOUS
  <2>1. i \in 1..n /\ outputs[i].by = "nobody" /\ outputs'[i].by = p
    BY <1>3, <1>7
  <2>2. h[i] = outputs[i].amount
    BY <1>6, <2>1 DEF HoldingIn
  <2>3. g[i] = HoldingIn(outputs', request', i)
    BY <1>6, <2>1
  <2>4. g[i] = IF s[1] = i THEN t.change ELSE 0
    BY <1>4, <1>5, <2>1, <2>3 DEF HoldingIn
  <2> QED BY <2>2, <2>4
<1>10. SumAt(S, h) = Amount[p] + t.change
  <2>1. SumAt(S, h) = Total([k \in 1..Len(s) |-> h[s[k]]])
    BY <1>1, <1>2, <1>6, WorthOfIndices
  <2>2. [k \in 1..Len(s) |-> h[s[k]]] = AmountsIn(t, outputs)
    BY <1>9 DEF AmountsIn
  <2> QED BY <1>2, <2>1, <2>2
<1> HIDE DEF S
<1>11. SumAt(S, g) = t.change
  <2> DEFINE one == [i \in 1..Len(g) |-> IF i \in S THEN g[i] ELSE 0]
  <2>1. /\ Len(one) = n /\ s[1] \in 1..Len(one) /\ one[s[1]] = t.change
        /\ \A i \in 1..Len(one) : i # s[1] => one[i] = 0
    BY <1>1, <1>6, <1>7, <1>9
  <2> HIDE DEF one
  <2>2. Total(one) = t.change
    BY <1>1, <1>2, <2>1, TotalOfOne
  <2> QED BY <2>2 DEF SumAt, one
<1>12. /\ Total(h) = SumAt(S, h) + SumAt(R, h) /\ Total(g) = SumAt(S, g) + SumAt(R, g)
       /\ SumAt(R, g) = SumAt(R, h)
  <2>1. S \cap R = {} /\ \A i \in 1..n : i \in S \cup R
    OBVIOUS
  <2>2. SumAt(S \cup R, h) = Total(h) /\ SumAt(S \cup R, g) = Total(g)
    BY <1>1, <1>6, <2>1, SumAtAll
  <2>3. /\ SumAt(S \cup R, h) = SumAt(S, h) + SumAt(R, h)
        /\ SumAt(S \cup R, g) = SumAt(S, g) + SumAt(R, g)
    BY <1>1, <1>6, <2>1, SumAtUnion
  <2>4. SumAt(R, g) = SumAt(R, h)
    BY <1>6, <1>8, SumAtSame
  <2> QED BY <2>2, <2>3, <2>4
<1>13. SumAt(R, h) \in Nat
  <2> DEFINE rest == [i \in 1..Len(h) |-> IF i \in R THEN h[i] ELSE 0]
  <2>1. Len(rest) \in Nat /\ \A i \in 1..Len(rest) : rest[i] \in Nat
    BY <1>1, <1>6
  <2> HIDE DEF rest
  <2>2. Total(rest) \in Nat
    BY <2>1, TotalNat
  <2> QED BY <2>2 DEF SumAt, rest
<1>14. Amount[p] \in Nat
  BY TransferAssumption DEF TransferAssumption
<1>15. Purses = Total(h) /\ Purses' = Total(g)
  BY PursesAre DEF h, g
<1> QED BY <1>2, <1>10, <1>11, <1>12, <1>13, <1>14, <1>15

\* A settlement only changes what the change is had by.
LEMMA SettleMoves ==
  ASSUME PayInv, NEW p \in Payments, Settle(p)
  PROVE  Purses' = Purses
<1> DEFINE h == Holdings(outputs, request)
           g == Holdings(outputs, request')
           n == Len(outputs)
           t == request[p].tx
           f == t.inputs[1]
<1>1. /\ outputs \in Seq(Output) /\ n \in Nat
      /\ request \in RequestsOf(outputs) /\ request' \in RequestsOf(outputs)
      /\ request[p].state = "signed" /\ request'[p].state = "spent"
      /\ \A q \in Payments : q # p => request'[q] = request[q]
      /\ outputs' = IF t.change = 0 THEN outputs
                    ELSE Append(outputs, [amount |-> t.change, by |-> "nobody"])
      /\ t.change \in Nat
  <2>1. outputs \in Seq(Output) /\ request \in RequestsOf(outputs)
    BY DEF PayInv, RequestsPay, RequestsOf
  <2>2. request' \in RequestsOf(outputs)
    BY <2>1 DEF Settle, RequestsOf, States
  <2>3. t.change \in Nat
    BY <2>1 DEF RequestsOf, TxsOf
  <2> QED BY <2>1, <2>2, <2>3 DEF Settle, RequestsOf
<1>2. /\ Pays(p, t, outputs) /\ \A k \in 1..Len(t.inputs) : outputs[t.inputs[k]].by = p
  BY <1>1 DEF PayInv, RequestsPay, Signed
<1>3. Len(t.inputs) \in Nat \ {0}
  <2>1. Len(t.inputs) \in Nat
    BY <1>2 DEF Pays, TxsOf
  <2>2. ASSUME Len(t.inputs) = 0 PROVE FALSE
    <3>1. Len(AmountsIn(t, outputs)) = 0
      BY <2>2 DEF AmountsIn
    <3>2. Total(AmountsIn(t, outputs)) = 0
      BY <3>1, TotalOfZeros
    <3>3. Amount[p] \in Nat \ {0}
      BY TransferAssumption DEF TransferAssumption
    <3> QED BY <1>1, <1>2, <3>2, <3>3 DEF Pays
  <2> QED BY <2>1, <2>2
<1>4. f \in 1..n /\ outputs[f].by = p /\ p # "nobody"
  BY <1>2, <1>3, TransferAssumption DEF Pays, TxsOf, TransferAssumption
<1>5. /\ Len(h) = n /\ Len(g) = n /\ Numbers(h) /\ Numbers(g)
      /\ \A i \in 1..n : h[i] = HoldingIn(outputs, request, i)
      /\ \A i \in 1..n : g[i] = HoldingIn(outputs, request', i)
  BY <1>1, HoldingsType
<1> HIDE DEF h, g
<1>6. h[f] = t.change /\ g[f] = 0
  BY <1>1, <1>4, <1>5 DEF HoldingIn
<1>7. \A i \in 1..n : i # f => g[i] = h[i]
  <2> SUFFICES ASSUME NEW i \in 1..n, i # f PROVE g[i] = h[i]
    OBVIOUS
  <2>1. outputs[i].by = "nobody" \/ outputs[i].by \in Payments
    <3>1. outputs[i] \in Output
      BY <1>1
    <3> QED BY <3>1 DEF Output
  <2>2. CASE outputs[i].by = p
    BY <1>1, <1>4, <1>5, <2>2 DEF HoldingIn
  <2>3. CASE outputs[i].by # p
    BY <1>1, <1>5, <2>1, <2>3 DEF HoldingIn
  <2> QED BY <2>2, <2>3
<1>8. Total(g) = Total(h) - t.change
  <2>1. Total(g) = Total(h) + (g[f] - h[f])
    BY <1>1, <1>4, <1>5, <1>7, TotalChanged
  <2>2. Total(h) \in Int
    BY <1>1, <1>5, TotalInt
  <2> QED BY <1>1, <1>6, <2>1, <2>2
<1>9. Total(h) \in Int
  BY <1>1, <1>5, TotalInt
<1>10. Purses = Total(h) /\ Purses' = Total(Holdings(outputs', request'))
  BY PursesAre DEF h
<1>11. CASE t.change = 0
  BY <1>1, <1>8, <1>9, <1>10, <1>11 DEF g
<1>12. CASE t.change # 0
  <2>1. Total(Holdings(outputs', request')) = Total(g) + t.change
    BY <1>1, <1>12, HoldingsMore DEF g
  <2> QED BY <1>1, <1>8, <1>9, <1>10, <2>1
<1> QED BY <1>11, <1>12

Paid == {p \in Payments : Signed(p)}
Stays == Paid' = Paid /\ Purses' = Purses
PaysOne(p) == /\ p \notin Paid /\ Amount[p] <= Purses
              /\ Paid' = Paid \cup {p} /\ Purses' = Purses - Amount[p]

LEMMA RecordStays ==
  ASSUME PayInv, NEW p \in Payments, NEW t, Record(p, t)
  PROVE  Stays
<1>1. /\ outputs \in Seq(Output) /\ request \in RequestsOf(outputs) /\ outputs' = outputs
      /\ request' = [request EXCEPT ![p] = [state |-> "unspent", tx |-> t]]
      /\ ~Signed(p)
  BY DEF PayInv, RequestsPay, RequestsOf, Record
<1>2. \A q \in Payments : request'[q] = request[q] \/ (q = p /\ request'[q].state = "unspent")
  BY <1>1 DEF RequestsOf
<1>3. \A q \in Payments : Signed(q)' <=> Signed(q)
  BY <1>1, <1>2 DEF Signed
<1>4. Holdings(outputs', request') = Holdings(outputs, request)
  <2>1. \A q \in Payments : \/ request'[q] = request[q]
                            \/ request[q].state # "signed" /\ request'[q].state # "signed"
    BY <1>1, <1>2 DEF Signed
  <2> QED BY <1>1, <2>1, HoldingsSame
<1> QED BY <1>3, <1>4, PursesAre DEF Stays, Paid

LEMMA AcceptIsPay ==
  ASSUME PayInv, NEW p \in Payments, NEW t, Pays(p, t, outputs), FirstOf(p, t, outputs),
         Accept(p, t)
  PROVE  PaysOne(p)
<1>1. Amount[p] <= Purses /\ Purses' = Purses - Amount[p]
  BY AcceptTakes
<1>2. request[p].state = "unspent" /\ request' = [request EXCEPT ![p].state = "signed"]
  BY DEF Accept
<1>3. \A q \in Payments : request'[q].state = IF q = p THEN "signed" ELSE request[q].state
  BY <1>2 DEF PayInv, RequestsPay
<1>4. /\ ~Signed(p) /\ Signed(p)'
      /\ \A q \in Payments : q # p => (Signed(q)' <=> Signed(q))
  BY <1>2, <1>3 DEF Signed
<1> QED BY <1>1, <1>4 DEF PaysOne, Paid

LEMMA SettleStays ==
  ASSUME PayInv, NEW p \in Payments, Settle(p)
  PROVE  Stays
<1>1. request[p].state = "signed" /\ request' = [request EXCEPT ![p].state = "spent"]
  BY DEF Settle
<1>2. \A q \in Payments : request'[q].state = IF q = p THEN "spent" ELSE request[q].state
  BY <1>1 DEF PayInv, RequestsPay
<1>3. \A q \in Payments : Signed(q)' <=> Signed(q)
  BY <1>1, <1>2 DEF Signed
<1> QED BY <1>3, SettleMoves DEF Stays, Paid

LEMMA DepositAdds ==
  ASSUME PayInv, Deposit
  PROVE  Paid' = Paid /\ Purses' = Purses + DepositAmount
<1>1. /\ outputs \in Seq(Output) /\ request \in RequestsOf(outputs) /\ request' = request
      /\ outputs' = Append(outputs, [amount |-> DepositAmount, by |-> "nobody"])
      /\ DepositAmount \in Nat \ {0}
  BY TransferAssumption DEF TransferAssumption, PayInv, RequestsPay, RequestsOf, Deposit
<1>2. Total(Holdings(outputs', request')) = Total(Holdings(outputs, request)) + DepositAmount
  BY <1>1, HoldingsMore
<1> QED BY <1>1, <1>2, PursesAre DEF Paid, Signed

LEMMA IdleStays ==
  ASSUME outputs' = outputs, request' = request
  PROVE  Stays
BY PursesAre DEF Stays, Paid, Signed

\* Every step pays one payment, takes a deposit, or leaves the purse alone.
LEMMA NextOnPurse ==
  ASSUME PayInv, AllFirst, [Next]_vars
  PROVE  \/ Stays
         \/ \E p \in Payments : PaysOne(p)
         \/ Paid' = Paid /\ Purses' = Purses + DepositAmount
<1>1. ASSUME NEW w \in Workers, CallStep(w) \/ FaultStep(w)
      PROVE  Stays \/ \E p \in Payments : PaysOne(p)
  <2>1. \/ outputs' = outputs /\ request' = request
        \/ pc[w] = "verify" /\ Record(Trace[w], tx[w])
        \/ pc[w] = "send" /\ Accept(Trace[w], tx[w])
    BY <1>1 DEF CallStep, FaultStep, LookupFound, LookupNone, Build, BuildInsufficient, VerifyOk,
                VerifySigned, VerifyLocked, SendOk, SendSigned, SendLocked, Retry, Timeout,
                AnswerLost, Crash, sequencerVars
  <2>2. pc[w] = "send" => Pays(Trace[w], tx[w], outputs) /\ FirstOf(Trace[w], tx[w], outputs)
    BY DEF PayInv, WorkersPay, AllFirst
  <2>3. Trace[w] \in Payments
    BY TraceType
  <2> QED BY <2>1, <2>2, <2>3, IdleStays, RecordStays, AcceptIsPay
<1>2. ASSUME NEW m \in late, LateArrives(m)
      PROVE  Stays \/ \E p \in Payments : PaysOne(p)
  <2>1. Record(m.trace, m.tx) \/ Accept(m.trace, m.tx)
    BY <1>2 DEF LateArrives
  <2>2. /\ m.trace \in Payments /\ Pays(m.trace, m.tx, outputs)
        /\ FirstOf(m.trace, m.tx, outputs)
    BY DEF PayInv, LatePays, AllFirst
  <2> QED BY <2>1, <2>2, RecordStays, AcceptIsPay
<1>3. CASE \E p \in Payments : Settle(p)
  BY <1>3, SettleStays
<1>4. CASE Deposit
  BY <1>4, DepositAdds
<1>5. CASE Terminated \/ UNCHANGED vars
  BY <1>5, IdleStays DEF Terminated, vars, sequencerVars
<1> QED BY <1>1, <1>2, <1>3, <1>4, <1>5 DEF Next

\* At first nothing is paid, and the wallet has what its outputs are worth.
LEMMA InitPurse == Init => Paid = {} /\ Purses = Total(Wallet)
<1> SUFFICES ASSUME Init PROVE Paid = {} /\ Purses = Total(Wallet)
  OBVIOUS
<1>1. /\ outputs = [i \in 1..Len(Wallet) |-> [amount |-> Wallet[i], by |-> "nobody"]]
      /\ request = [p \in Payments |-> NoRequest]
  BY DEF Init
<1>2. Wallet \in Seq(Nat \ {0})
  BY TransferAssumption DEF TransferAssumption
<1>3. Paid = {}
  BY <1>1 DEF Paid, Signed, NoRequest
<1>4. /\ Len(outputs) = Len(Wallet) /\ Len(Wallet) \in Nat
      /\ \A i \in 1..Len(Wallet) : outputs[i].by = "nobody" /\ outputs[i].amount = Wallet[i]
  BY <1>1, <1>2
<1> DEFINE h == Holdings(outputs, request)
<1>5. /\ Len(h) = Len(Wallet)
      /\ \A i \in 1..Len(Wallet) : h[i] = Wallet[i] /\ Wallet[i] \in Int
  BY <1>2, <1>4 DEF Holdings, HoldingIn
<1> HIDE DEF h
<1>6. Total(h) = Total(Wallet)
  BY <1>4, <1>5, TotalPadded DEF Numbers
<1> QED BY <1>3, <1>6, PursesAre DEF h

\* Paying implements Purse: whatever is retried, lost, late or restarted, and
\* with any number of goroutines for each trace, a trace is paid once and in its
\* exact amount, out of money that is there, and nothing but a payment and a
\* deposit changes what the wallet has.
THEOREM TransferImplementsPurse == Spec => ImplementsPurse
<1>1. Init => Ideal!Init
  BY InitPurse DEF Ideal!Init, Paid
<1>2. Init => AllFirst
  BY DEF Init, First, AllFirst
<1>3. PayInv /\ AllFirst /\ [Next]_vars => AllFirst'
  BY NextAllFirst
<1>4. PayInv /\ AllFirst /\ [Next]_vars => [Ideal!Next]_Ideal!vars
  BY NextOnPurse DEF Ideal!Next, Ideal!vars, Ideal!Pay, Ideal!Deposit, Stays, PaysOne, Paid
<1> QED BY <1>1, <1>2, <1>3, <1>4, PayInvHolds, PTL DEF Spec, ImplementsPurse, Ideal!Spec
=============================================================================
