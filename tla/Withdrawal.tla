----------------------------- MODULE Withdrawal -----------------------------
(***************************************************************************)
(* A withdrawal whose fee is paid in another asset: withdrawalTransaction  *)
(* of withdrawal.go builds two transactions, the second of which refers to *)
(* the first, and verifies and sends both in one call each.  When the fee  *)
(* is in the same asset it is one SendTransaction, which SafeTransfer      *)
(* models.                                                                 *)
(*                                                                         *)
(* A worker makes one withdrawal, under one trace, over every retry and    *)
(* restart.  The sequencer is external.  Whether it takes the two of a     *)
(* call together or each on its own is not known from the code, and it may *)
(* do either; it takes a transaction only after the ones it refers to.     *)
(***************************************************************************)
EXTENDS RawTransaction, ApiCalls

CONSTANTS
  Workers,
  Amount,          \* what each worker withdraws
  Fee,             \* the fees each of its attempts may be quoted
  Wallet,          \* the outputs at first: the leg whose asset they are in, and amounts
  ListLimit,       \* how many outputs a list asks for (250)
  MaxFaults,       \* how many calls time out and processes crash
  MaxOthers        \* how many outputs another program of the wallet spends

\* The two transactions of a withdrawal, each with an asset of its own.
Legs == {"asset", "fee"}

ASSUME WithdrawalAssumption ==
  /\ Amount \in [Workers -> Nat \ {0}] /\ Fee \in [Workers -> SUBSET (Nat \ {0})]
  /\ Wallet \in Seq([asset : Legs, amount : Nat \ {0}])
  /\ {ListLimit, MaxFaults, MaxOthers} \subseteq Nat
  /\ Workers \cap {"nobody", "other"} = {}

VARIABLES
  pc,        \* where each worker is
  fee,       \* the fee its attempt was quoted
  tx,        \* the two transactions it built
  err,       \* the error its call returned
  outputs,   \* the outputs of the wallet, each with who spent it
  request,   \* the sequencer's request for each of the two traces
  late,      \* calls that timed out and may still arrive
  together,  \* whether the sequencer takes both of a call or neither
  faults, others

workerVars == <<pc, fee, tx, err>>
sequencerVars == <<outputs, request, late>>
vars == <<workerVars, sequencerVars, together, faults, others>>

NoTx == [inputs |-> {}, pays |-> 0, change |-> 0, refs |-> {}]
NoRequest == [state |-> "none", tx |-> NoTx]

Init ==
  /\ pc = [w \in Workers |-> "quote"]
  /\ fee = [w \in Workers |-> 0]
  /\ tx = [w \in Workers |-> [l \in Legs |-> NoTx]]
  /\ err = [w \in Workers |-> "none"]
  /\ outputs = [i \in 1..Len(Wallet) |->
                  [asset |-> Wallet[i].asset, amount |-> Wallet[i].amount, by |-> "nobody"]]
  /\ request = [w \in Workers |-> [l \in Legs |-> NoRequest]]
  /\ late = {}
  /\ together \in BOOLEAN
  /\ faults = 0 /\ others = 0

-----------------------------------------------------------------------------
(* The sequencer, external *)

Free(t) == \A i \in t.inputs : outputs[i].by = "nobody"
Signed(w, l) == request[w][l].state \in {"signed", "spent"}

\* Which of two transactions the sequencer handles when it handles the ones of
\* well and refuses the others: all when there are none to refuse.
Handled(well, refused) ==
  IF refused = {} THEN {well} ELSE IF together THEN {{}} ELSE SUBSET well

\* A call to verify: a trace that is signed is answered with what it has.
Verifiable(w, ts) == {l \in Legs : ~Signed(w, l) /\ Free(ts[l])}
VerifyRefused(w, ts) == {l \in Legs : ~Signed(w, l) /\ ~Free(ts[l])}

Record(w, ts) ==
  /\ \E done \in Handled(Verifiable(w, ts), VerifyRefused(w, ts)) :
       request' = [request EXCEPT ![w] = [l \in Legs |->
                     IF l \in done THEN [state |-> "unspent", tx |-> ts[l]] ELSE @[l]]]
  /\ UNCHANGED outputs

\* What a transaction refers to is signed, or is in the same call.
Refers(w, t) ==
  \A hash \in t.refs : Signed(w, "asset") /\ request[w]["asset"].tx.inputs = hash

Sendable(w, ts) ==
  LET own == {l \in Legs : request[w][l] = [state |-> "unspent", tx |-> ts[l]]
                           /\ Free(ts[l])}
  IN {l \in own : Refers(w, ts[l]) \/ ("asset" \in own /\ ts[l].refs = {ts["asset"].inputs})}
SendRefused(w, ts) == {l \in Legs : ~Signed(w, l) /\ l \notin Sendable(w, ts)}

Accept(w, ts) ==
  \E done \in Handled(Sendable(w, ts), SendRefused(w, ts)) :
    /\ "fee" \in done => "asset" \in done \/ Refers(w, ts["fee"])
    /\ request' = [request EXCEPT ![w] = [l \in Legs |->
                     IF l \in done THEN [@[l] EXCEPT !.state = "signed"] ELSE @[l]]]
    /\ outputs' = [i \in 1..Len(outputs) |->
                     IF \E l \in done : i \in ts[l].inputs
                     THEN [outputs[i] EXCEPT !.by = w] ELSE outputs[i]]

\* The kernel has a transaction: its change is a new output of the wallet.
Settle(w, l) ==
  /\ request[w][l].state = "signed"
  /\ request' = [request EXCEPT ![w][l].state = "spent"]
  /\ outputs' = IF request[w][l].tx.change = 0 THEN outputs
                ELSE Append(outputs, [asset |-> l, amount |-> request[w][l].tx.change,
                                      by |-> "nobody"])
  /\ UNCHANGED <<workerVars, late, together, faults, others>>

\* Another program of the wallet spends an output.
OtherSpends(i) ==
  /\ others < MaxOthers
  /\ outputs[i].by = "nobody"
  /\ others' = others + 1
  /\ outputs' = [outputs EXCEPT ![i].by = "other"]
  /\ UNCHANGED <<workerVars, request, late, together, faults>>

-----------------------------------------------------------------------------
(* SendWithdrawal and withdrawalTransaction, call by call *)

Fail(w, e) ==
  /\ pc' = [pc EXCEPT ![w] = "failed"]
  /\ err' = [err EXCEPT ![w] = e]

\* The asset, its chain and the fees have been read and the fee is picked: not
\* the one of the attempt before, if the server's fees have moved.  Of an empty
\* list none is picked and the program panics on it, a Crash at this step.
Quote(w) ==
  /\ pc[w] = "quote"
  /\ pc' = [pc EXCEPT ![w] = "asset"]
  /\ \E f \in Fee[w] : fee' = [fee EXCEPT ![w] = f]
  /\ UNCHANGED <<tx, err, sequencerVars, together, faults, others>>

\* The indices of the unspent outputs of an asset, as many as were asked for.
Unspent(l) ==
  Listed({i \in 1..Len(outputs) : outputs[i].asset = l /\ outputs[i].by = "nobody"},
         Len(outputs), ListLimit)
Worths(q) == [k \in 1..Len(q) |-> outputs[q[k]].amount]
InputsOf(q, n) == {q[k] : k \in 1..n}

\* What the transaction of a leg is to pay.
Price(w, l) == IF l = "asset" THEN Amount[w] ELSE fee[w]

\* The two loops over the outputs that were listed.
Chosen(w, l, q) ==
  IF l = "asset" THEN SelectOutputs(Worths(q), Price(w, l))
  ELSE SelectFeeOutputs(Worths(q), Price(w, l), Amount[w])

\* Mutant: the fee does not refer to the withdrawal.
RawTxNoReference(w, l, q) ==
  [inputs |-> InputsOf(q, Chosen(w, l, q).taken), pays |-> Price(w, l),
   change |-> Chosen(w, l, q).change, refs |-> {}]

\* Mutant: the change is left out.
RawTxNoChange(w, l, q) ==
  [inputs |-> InputsOf(q, Chosen(w, l, q).taken), pays |-> Price(w, l), change |-> 0,
   refs |-> IF l = "fee" THEN {tx[w]["asset"].inputs} ELSE {}]

\* A transaction made of them.  The inputs tell two withdrawals of a trace
\* apart, so they stand for the hash the fee refers to.
RawTx(w, l, q) ==
  [inputs |-> InputsOf(q, Chosen(w, l, q).taken), pays |-> Price(w, l),
   change |-> Chosen(w, l, q).change,
   refs |-> IF l = "fee" THEN {tx[w]["asset"].inputs} ELSE {}]

\* The outputs of one asset are listed and chosen; those of the fee are listed
\* by a call of their own, later.
Build(w) ==
  /\ pc[w] \in Legs
  /\ \E q \in {Unspent(pc[w])} :
       /\ Chosen(w, pc[w], q).ok
       /\ tx' = [tx EXCEPT ![w][pc[w]] = RawTx(w, pc[w], q)]
  /\ pc' = [pc EXCEPT ![w] = IF pc[w] = "asset" THEN "fee" ELSE "verify"]
  /\ UNCHANGED <<fee, err, sequencerVars, together, faults, others>>

BuildInsufficient(w) ==
  /\ pc[w] \in Legs
  /\ \A q \in {Unspent(pc[w])} : ~Chosen(w, pc[w], q).ok
  /\ Fail(w, "insufficient")
  /\ UNCHANGED <<tx, fee, sequencerVars, together, faults, others>>

\* The sequencer knows both.  The state of the first is looked at, that of the
\* fee is not.
Verify(w) ==
  /\ pc[w] = "verify"
  /\ VerifyRefused(w, tx[w]) = {}
  /\ Record(w, tx[w])
  /\ IF Signed(w, "asset") THEN Fail(w, "signed")
     ELSE pc' = [pc EXCEPT ![w] = "send"] /\ UNCHANGED err
  /\ UNCHANGED <<tx, fee, late, together, faults, others>>

VerifyLocked(w) ==
  /\ pc[w] = "verify"
  /\ VerifyRefused(w, tx[w]) # {}
  /\ Record(w, tx[w])
  /\ Fail(w, "locked")
  /\ UNCHANGED <<tx, fee, late, together, faults, others>>

\* Nothing of the results is compared with what was sent.
Send(w) ==
  /\ pc[w] = "send"
  /\ SendRefused(w, tx[w]) = {}
  /\ Accept(w, tx[w])
  /\ pc' = [pc EXCEPT ![w] = "ok"]
  /\ UNCHANGED <<tx, fee, err, late, together, faults, others>>

\* Mutant: the error of the last call is dropped.
SendLockedIsOk(w) ==
  /\ pc[w] = "send"
  /\ SendRefused(w, tx[w]) # {}
  /\ Accept(w, tx[w])
  /\ pc' = [pc EXCEPT ![w] = "ok"]
  /\ UNCHANGED <<tx, fee, err, late, together, faults, others>>

SendLocked(w) ==
  /\ pc[w] = "send"
  /\ SendRefused(w, tx[w]) # {}
  /\ Accept(w, tx[w])
  /\ Fail(w, "locked")
  /\ UNCHANGED <<tx, fee, late, together, faults, others>>

-----------------------------------------------------------------------------
(* Timeouts, crashes and late calls *)

Fault == faults < MaxFaults /\ faults' = faults + 1

\* The requests the step a worker is at makes.
RequestsAt(step) ==
  CASE step = "quote" -> {c \in NetworkAssetCalls \cup AssetCalls :
                            c.name \in {"ReadAsset", "ReadAssetFee"}}
    [] step \in Legs -> {ListOutputs, RequestSafeGhostKeys}
    [] step = "verify" -> {VerifyRawTransaction}
    [] step = "send" -> {SendRawTransaction}
    [] OTHER -> {}

FailLost(w) ==
  \E c \in RequestsAt(pc[w]) : Fail(w, Outcome(c.style, "lost"))

InFlight(w) == [step |-> pc[w], worker |-> w, txs |-> tx[w]]

LateWith(w) == IF pc[w] \in {"verify", "send"} THEN late \cup {InFlight(w)} ELSE late

\* The call has not arrived when its caller gives up; it may yet.
Timeout(w) ==
  /\ RequestsAt(pc[w]) # {}
  /\ Fault
  /\ late' = LateWith(w)
  /\ FailLost(w)
  /\ UNCHANGED <<tx, fee, outputs, request, together, others>>

\* The call was carried out, the answer is lost.
AnswerLost(w) ==
  /\ Fault
  /\ \/ pc[w] = "verify" /\ Record(w, tx[w])
     \/ pc[w] = "send" /\ Accept(w, tx[w])
  /\ FailLost(w)
  /\ UNCHANGED <<tx, fee, late, together, others>>

\* The process dies, and makes the same withdrawal when it starts again.
Crash(w) ==
  /\ Fault
  /\ late' = LateWith(w)
  /\ pc' = [pc EXCEPT ![w] = "quote"]
  /\ err' = [err EXCEPT ![w] = "none"]
  /\ UNCHANGED <<tx, fee, outputs, request, together, others>>

LateArrives(m) ==
  /\ m \in late
  /\ late' = late \ {m}
  /\ \/ m.step = "verify" /\ Record(m.worker, m.txs)
     \/ m.step = "send" /\ Accept(m.worker, m.txs)
  /\ UNCHANGED <<workerVars, together, faults, others>>

\* A caller that retries the errors of CheckRetryableError.
Retry(w) ==
  /\ pc[w] = "failed" /\ CheckRetryableError(err[w])
  /\ pc' = [pc EXCEPT ![w] = "quote"]
  /\ err' = [err EXCEPT ![w] = "none"]
  /\ UNCHANGED <<tx, fee, sequencerVars, together, faults, others>>

-----------------------------------------------------------------------------
CallStep(w) == \/ Quote(w) \/ Build(w) \/ BuildInsufficient(w)
               \/ Verify(w) \/ VerifyLocked(w) \/ Send(w) \/ SendLocked(w)
               \/ Retry(w)
FaultStep(w) == Timeout(w) \/ AnswerLost(w) \/ Crash(w)

Returned(w) == pc[w] = "ok" \/ (pc[w] = "failed" /\ ~CheckRetryableError(err[w]))

Next ==
  \/ \E w \in Workers : CallStep(w) \/ FaultStep(w)
  \/ \E m \in late : LateArrives(m)
  \/ \E w \in Workers, l \in Legs : Settle(w, l)
  \/ \E i \in 1..Len(outputs) : OtherSpends(i)

Fairness ==
  /\ \A w \in Workers : WF_vars(CallStep(w))
  /\ \A w \in Workers, l \in Legs : WF_vars(Settle(w, l))

Spec == Init /\ [][Next]_vars

-----------------------------------------------------------------------------
(* Properties *)

Txs == [inputs : SUBSET (1..Len(outputs)), pays : Nat, change : Nat,
        refs : SUBSET SUBSET (1..Len(outputs))]

\* Every variable has its type; a transaction names outputs of the wallet.
TypeOK ==
  /\ pc \in [Workers -> Legs \cup {"quote", "verify", "send", "ok", "failed"}]
  /\ \A w \in Workers : fee[w] \in Fee[w] \cup {0}
  /\ tx \in [Workers -> [Legs -> Txs]]
  /\ err \in [Workers -> {"none", "signed"} \cup CallError]
  /\ outputs \in Seq([asset : Legs, amount : Nat \ {0}, by : Workers \cup {"nobody", "other"}])
  /\ request \in [Workers -> [Legs -> [state : {"none", "unspent", "signed", "spent"},
                                       tx : Txs]]]
  /\ late \subseteq [step : {"verify", "send"}, worker : Workers, txs : [Legs -> Txs]]
  /\ together \in BOOLEAN
  /\ faults \in 0..MaxFaults /\ others \in 0..MaxOthers

\* No fee is paid for a withdrawal that is not made, nor for another attempt
\* at it: not when one of the two is refused, nor when calls of two attempts
\* arrive in any order.
FeeFollows ==
  \A w \in Workers : Signed(w, "fee") =>
    Signed(w, "asset") /\ request[w]["fee"].tx.refs = {request[w]["asset"].tx.inputs}

\* A worker that was given results has both transactions signed.  One told
\* that the trace is signed already can rely on its fee only if the sequencer
\* takes the two together: a withdrawal whose fee was refused alone is never
\* completed by a retry.
ToldMeansWithdrawn ==
  \A w \in Workers :
    /\ pc[w] = "ok" => \A l \in Legs : Signed(w, l)
    /\ err[w] = "signed" => Signed(w, "asset") /\ (together => Signed(w, "fee"))

WorthOf(t) == Total(Worths(InOrder(t.inputs, Len(outputs))))

\* The inputs of what is signed are worth what it pays and its change, are
\* spent by it, and are of its asset.  What it pays is the amount withdrawn, or
\* a fee one of the attempts was quoted.
WithdrawnExactly ==
  \A w \in Workers, l \in Legs : Signed(w, l) =>
    LET t == request[w][l].tx
    IN /\ WorthOf(t) = t.change + t.pays
       /\ t.pays \in (IF l = "asset" THEN {Amount[w]} ELSE Fee[w])
       /\ \A i \in t.inputs : outputs[i].by = w /\ outputs[i].asset = l

\* A withdrawal the wallet has the money for is made in the end, fee and all,
\* by a caller that retries, if the sequencer takes its two transactions
\* together.
EventuallyWithdrawn ==
  \A w \in Workers : together => <>(Signed(w, "asset") /\ Signed(w, "fee"))
=============================================================================
