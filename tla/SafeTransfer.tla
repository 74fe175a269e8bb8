---------------------------- MODULE SafeTransfer ----------------------------
(***************************************************************************)
(* Paying from a bot's wallet: SendTransaction of transaction.go (list the *)
(* unspent outputs, build, verify, sign, send) and the two ways its        *)
(* callers retry, SendTransactionUntilSufficient and CheckRetryableError   *)
(* of monitor/report.go.  Some callers look the trace up first, in every   *)
(* attempt: ReportToMonitor and transferCSV of cli/transfer.go.            *)
(*                                                                         *)
(* A worker is a goroutine that makes one payment, known by its trace id;  *)
(* it keeps the trace over every retry and restart.  The sequencer is      *)
(* external: it keeps one request per trace, which a later verification    *)
(* may replace until it is signed, and answers for a trace that is signed  *)
(* with what it has.  A call may be answered, or time out before or after  *)
(* the sequencer saw it, and one that timed out may still arrive later.    *)
(***************************************************************************)
EXTENDS RawTransaction, ApiCalls

CONSTANTS
  Workers,       \* goroutines
  Payments,      \* trace ids
  Trace,         \* the trace each worker pays
  Amount,        \* what each trace pays, to one recipient
  Caller,        \* "untilSufficient" or "retryable": how the worker retries
  Lookers,       \* the workers that look their trace up before they pay it
  Wallet,        \* the amounts of the outputs at first, in order of sequence
  DepositAmount, MaxDeposits,  \* deposits that may arrive meanwhile
  ListLimit,     \* how many outputs ListOutputs asks for (250)
  MaxFaults      \* how many calls time out and processes crash

ASSUME TransferAssumption ==
  /\ Trace \in [Workers -> Payments]
  /\ Amount \in [Payments -> Nat \ {0}]
  /\ Caller \in [Workers -> {"untilSufficient", "retryable"}]
  /\ Lookers \subseteq Workers
  /\ Wallet \in Seq(Nat \ {0})
  /\ DepositAmount \in Nat \ {0} /\ MaxDeposits \in Nat
  /\ ListLimit \in Nat \ {0} /\ MaxFaults \in Nat
  /\ "nobody" \notin Payments

VARIABLES
  pc,        \* where each worker is
  tx,        \* the raw transaction it built
  err,       \* the error its call returned
  outputs,   \* the outputs of the wallet, each with who spent it
  request,   \* the sequencer's request for each trace
  late,      \* calls that timed out and may still arrive
  deposits, faults

workerVars == <<pc, tx, err>>
sequencerVars == <<outputs, request, late>>
vars == <<workerVars, sequencerVars, deposits, faults>>

NoTx == [inputs |-> <<>>, change |-> 0]
NoRequest == [state |-> "none", tx |-> NoTx]

\* Where the program of a worker begins a payment.
First(w) == IF w \in Lookers THEN "lookup" ELSE "start"

Init ==
  /\ pc = [w \in Workers |-> First(w)]
  /\ tx = [w \in Workers |-> NoTx]
  /\ err = [w \in Workers |-> "none"]
  /\ outputs = [i \in 1..Len(Wallet) |-> [amount |-> Wallet[i], by |-> "nobody"]]
  /\ request = [p \in Payments |-> NoRequest]
  /\ late = {}
  /\ deposits = 0 /\ faults = 0

-----------------------------------------------------------------------------
(* The sequencer, external *)

Free(t) == \A k \in 1..Len(t.inputs) : outputs[t.inputs[k]].by = "nobody"
Signed(p) == request[p].state \in {"signed", "spent"}

\* The indices of the unspent outputs, in order, as many as were asked for.
Unspent ==
  Listed({i \in 1..Len(outputs) : outputs[i].by = "nobody"}, Len(outputs), ListLimit)

\* A verification that is accepted, with the view keys of its inputs.
Record(p, t) ==
  /\ ~Signed(p) /\ Free(t)
  /\ request' = [request EXCEPT ![p] = [state |-> "unspent", tx |-> t]]
  /\ UNCHANGED outputs

\* A signed transaction that is accepted: the one verified last, with all its
\* inputs still unspent.
Accept(p, t) ==
  /\ request[p] = [state |-> "unspent", tx |-> t]
  /\ Free(t)
  /\ request' = [request EXCEPT ![p].state = "signed"]
  /\ outputs' = [i \in 1..Len(outputs) |->
                   IF \E k \in 1..Len(t.inputs) : t.inputs[k] = i
                   THEN [outputs[i] EXCEPT !.by = p] ELSE outputs[i]]

\* The kernel has the transaction: its change is a new output of the wallet.
Settle(p) ==
  /\ request[p].state = "signed"
  /\ request' = [request EXCEPT ![p].state = "spent"]
  /\ outputs' = IF request[p].tx.change = 0 THEN outputs
                ELSE Append(outputs, [amount |-> request[p].tx.change, by |-> "nobody"])
  /\ UNCHANGED <<workerVars, late, deposits, faults>>

Deposit ==
  /\ deposits < MaxDeposits
  /\ deposits' = deposits + 1
  /\ outputs' = Append(outputs, [amount |-> DepositAmount, by |-> "nobody"])
  /\ UNCHANGED <<workerVars, request, late, faults>>

-----------------------------------------------------------------------------
(* The lookup before the payment *)

\* GetTransactionById has a request for the trace, which the sequencer shows
\* once it is signed: the payment is left alone.
LookupFound(w) ==
  /\ pc[w] = "lookup"
  /\ Signed(Trace[w])
  /\ pc' = [pc EXCEPT ![w] = "exists"]
  /\ UNCHANGED <<tx, err, sequencerVars, deposits, faults>>

\* Code 404, which GetTransactionById tells as nothing and no error.
LookupNone(w) ==
  /\ pc[w] = "lookup"
  /\ ~Signed(Trace[w])
  /\ pc' = [pc EXCEPT ![w] = "start"]
  /\ UNCHANGED <<tx, err, sequencerVars, deposits, faults>>

-----------------------------------------------------------------------------
(* SendTransaction: its calls, in order *)

Fail(w, e) ==
  /\ pc' = [pc EXCEPT ![w] = "failed"]
  /\ err' = [err EXCEPT ![w] = e]

\* The outputs that ListOutputs returned and the least of them that will do.
Worths(q) == [k \in 1..Len(q) |-> outputs[q[k]].amount]
Chosen(w, q) == SelectOutputs(Worths(q), Amount[Trace[w]])

\* The raw transaction made of them.  The keys of its outputs are a function
\* of the trace, so the inputs tell two transactions of a trace apart.
\* Mutant: the change is not added to the recipients.
RawTxNoChange(w, q) ==
  [inputs |-> SubSeq(q, 1, Chosen(w, q).taken), change |-> 0]

RawTx(w, q) ==
  [inputs |-> SubSeq(q, 1, Chosen(w, q).taken), change |-> Chosen(w, q).change]

Build(w) ==
  /\ pc[w] = "start"
  /\ \E q \in {Unspent} :
       /\ Chosen(w, q).ok
       /\ tx' = [tx EXCEPT ![w] = RawTx(w, q)]
  /\ pc' = [pc EXCEPT ![w] = "verify"]
  /\ UNCHANGED <<err, sequencerVars, deposits, faults>>

\* UtxoInsufficientError, which SendTransactionWithUtxosAndChangeOutputs wraps
\* in an error of another type with the same text.
BuildInsufficient(w) ==
  /\ pc[w] = "start"
  /\ \A q \in {Unspent} : ~Chosen(w, q).ok
  /\ Fail(w, "insufficient")
  /\ UNCHANGED <<tx, sequencerVars, deposits, faults>>

\* The sequencer knows the trace as unspent: the transaction is signed with the
\* view keys that came back.
VerifyOk(w) ==
  /\ pc[w] = "verify"
  /\ Record(Trace[w], tx[w])
  /\ pc' = [pc EXCEPT ![w] = "send"]
  /\ UNCHANGED <<tx, err, late, deposits, faults>>

\* Mutant: the state in the answer is not looked at.
VerifySignedGoesOn(w) ==
  /\ pc[w] = "verify"
  /\ Signed(Trace[w])
  /\ pc' = [pc EXCEPT ![w] = "send"]
  /\ UNCHANGED <<tx, err, sequencerVars, deposits, faults>>

\* The same trace has been signed already: the request comes back, and an
\* error with it.
VerifySigned(w) ==
  /\ pc[w] = "verify"
  /\ Signed(Trace[w])
  /\ Fail(w, "signed")
  /\ UNCHANGED <<tx, sequencerVars, deposits, faults>>

VerifyLocked(w) ==
  /\ pc[w] = "verify"
  /\ ~Signed(Trace[w]) /\ ~Free(tx[w])
  /\ Fail(w, "locked")
  /\ UNCHANGED <<tx, sequencerVars, deposits, faults>>

SendOk(w) ==
  /\ pc[w] = "send"
  /\ Accept(Trace[w], tx[w])
  /\ pc' = [pc EXCEPT ![w] = "ok"]
  /\ UNCHANGED <<tx, err, late, deposits, faults>>

\* The trace was signed meanwhile: what comes back must be what was sent.
SendSigned(w) ==
  /\ pc[w] = "send"
  /\ Signed(Trace[w])
  /\ pc' = [pc EXCEPT ![w] = IF request[Trace[w]].tx = tx[w] THEN "ok" ELSE "panic"]
  /\ UNCHANGED <<tx, err, sequencerVars, deposits, faults>>

\* Mutant: the error of the last call is dropped.
SendLockedIsOk(w) ==
  /\ pc[w] = "send"
  /\ ~Signed(Trace[w]) /\ ~Free(tx[w])
  /\ pc' = [pc EXCEPT ![w] = "ok"]
  /\ UNCHANGED <<tx, err, sequencerVars, deposits, faults>>

SendLocked(w) ==
  LET p == Trace[w]
  IN /\ pc[w] = "send"
     /\ ~Signed(p)
     /\ request[p].tx # tx[w] \/ ~Free(tx[w])
     /\ Fail(w, "locked")
     /\ UNCHANGED <<tx, sequencerVars, deposits, faults>>

-----------------------------------------------------------------------------
(* Timeouts, crashes and late calls *)

Fault == faults < MaxFaults /\ faults' = faults + 1

InFlight(w) == [step |-> pc[w], trace |-> Trace[w], tx |-> tx[w]]

\* The requests the step a worker is at makes.
RequestsAt(step) ==
  CASE step = "lookup" -> TransactionCalls
    [] step = "start" -> {ListOutputs, RequestSafeGhostKeys}
    [] step = "verify" -> {VerifyRawTransaction}
    [] step = "send" -> {SendRawTransaction}
    [] OTHER -> {}

\* One of them is lost: the error is what its function makes of that.
FailLost(w) ==
  \E c \in RequestsAt(pc[w]) : Fail(w, Outcome(c.style, "lost"))

\* The call has not arrived when its caller gives up; it may yet.
Timeout(w) ==
  /\ pc[w] \in {"lookup", "start", "verify", "send"}
  /\ Fault
  /\ late' = IF pc[w] \in {"verify", "send"} THEN late \cup {InFlight(w)} ELSE late
  /\ FailLost(w)
  /\ UNCHANGED <<tx, outputs, request, deposits>>

\* The call was carried out, the answer is lost.
AnswerLost(w) ==
  /\ Fault
  /\ \/ pc[w] = "verify" /\ Record(Trace[w], tx[w])
     \/ pc[w] = "send" /\ Accept(Trace[w], tx[w])
  /\ FailLost(w)
  /\ UNCHANGED <<tx, late, deposits>>

\* The process dies, perhaps before it has noted that the payment was made,
\* and the program that starts again makes the same payment.
Crash(w) ==
  /\ Fault
  /\ late' = IF pc[w] \in {"verify", "send"} THEN late \cup {InFlight(w)} ELSE late
  /\ pc' = [pc EXCEPT ![w] = First(w)]
  /\ err' = [err EXCEPT ![w] = "none"]
  /\ UNCHANGED <<tx, outputs, request, deposits>>

LateArrives(m) ==
  /\ m \in late
  /\ late' = late \ {m}
  /\ \/ m.step = "verify" /\ Record(m.trace, m.tx)
     \/ m.step = "send" /\ Accept(m.trace, m.tx)
  /\ UNCHANGED <<workerVars, deposits, faults>>

-----------------------------------------------------------------------------
(* The callers *)

\* The errors that are a *UtxoInsufficientError: the wrapped one is not.
IsUtxoInsufficientError(e) == FALSE

\* Mutant: a payment that lost its inputs to another is given up.
RetriesNotLocked(w) == err[w] # "locked" /\ CheckRetryableError(err[w])

\* What the caller makes of the error its call returned.
Retries(w) ==
  IF Caller[w] = "retryable" THEN CheckRetryableError(err[w])
  ELSE IsUtxoInsufficientError(err[w])

\* Mutant: only the first attempt looks the trace up.
RetryPays(w) ==
  /\ pc[w] = "failed" /\ Retries(w)
  /\ pc' = [pc EXCEPT ![w] = "start"]
  /\ err' = [err EXCEPT ![w] = "none"]
  /\ UNCHANGED <<tx, sequencerVars, deposits, faults>>

\* The caller makes the whole call again, with the same trace.
Retry(w) ==
  /\ pc[w] = "failed" /\ Retries(w)
  /\ pc' = [pc EXCEPT ![w] = First(w)]
  /\ err' = [err EXCEPT ![w] = "none"]
  /\ UNCHANGED <<tx, sequencerVars, deposits, faults>>

\* The worker has a result its caller does not retry.
Returned(w) == pc[w] \in {"ok", "exists", "panic"} \/ (pc[w] = "failed" /\ ~Retries(w))

Terminated == (\A w \in Workers : Returned(w)) /\ UNCHANGED vars

-----------------------------------------------------------------------------
CallStep(w) == \/ LookupFound(w) \/ LookupNone(w)
               \/ Build(w) \/ BuildInsufficient(w)
               \/ VerifyOk(w) \/ VerifySigned(w) \/ VerifyLocked(w)
               \/ SendOk(w) \/ SendSigned(w) \/ SendLocked(w)
               \/ Retry(w)
FaultStep(w) == Timeout(w) \/ AnswerLost(w) \/ Crash(w)

Next ==
  \/ \E w \in Workers : CallStep(w) \/ FaultStep(w)
  \/ \E m \in late : LateArrives(m)
  \/ \E p \in Payments : Settle(p)
  \/ Deposit
  \/ Terminated

\* The goroutines run, a sequencer that is asked answers and the kernel
\* settles what is signed.  Deposits and late calls are nobody's duty.
Fairness ==
  /\ \A w \in Workers : WF_vars(CallStep(w))
  /\ \A p \in Payments : WF_vars(Settle(p))

Spec == Init /\ [][Next]_vars
FairSpec == Spec /\ Fairness

-----------------------------------------------------------------------------
(* Properties *)

Txs == [inputs : Seq(1..Len(outputs)), change : Nat]
Calls == [step : {"verify", "send"}, trace : Payments, tx : Txs]

\* Every variable has its type; a transaction names outputs of the wallet.
TypeOK ==
  /\ pc \in [Workers -> {"lookup", "start", "verify", "send", "ok", "exists", "failed", "panic"}]
  /\ tx \in [Workers -> Txs]
  /\ err \in [Workers -> {"none", "insufficient", "signed", "locked", "timeout", "internal"}]
  /\ outputs \in Seq([amount : Nat \ {0}, by : Payments \cup {"nobody"}])
  /\ request \in [Payments -> [state : {"none", "unspent", "signed", "spent"}, tx : Txs]]
  /\ late \subseteq Calls
  /\ deposits \in 0..MaxDeposits /\ faults \in 0..MaxFaults

\* What a worker is told is so: a call that returned a result, a lookup that
\* found the trace, or the error of a trace signed already, has its payment
\* signed, and a result is the very transaction the worker built.
ToldMeansPaid ==
  \A w \in Workers :
    /\ pc[w] = "ok" => Signed(Trace[w]) /\ request[Trace[w]].tx = tx[w]
    /\ pc[w] = "exists" \/ err[w] = "signed" => Signed(Trace[w])

\* sendTransaction never panics on the raw transaction that came back, if each
\* trace has one worker: neither a retry, whatever has become of the calls
\* before it, nor the payments of other workers make two transactions of a
\* trace meet after the verification.
NoPanic == \A w \in Workers : pc[w] # "panic"

\* No output is input of two signed transactions, and the outputs a signed
\* transaction spends are worth its amount and its change.
Inputs(p) == {request[p].tx.inputs[k] : k \in 1..Len(request[p].tx.inputs)}
Worth(t) == Total(Worths(t.inputs))
PaidExactly ==
  \A p \in Payments : Signed(p) =>
    /\ Worth(request[p].tx) = Amount[p] + request[p].tx.change
    /\ \A q \in Payments \ {p} : Signed(q) => Inputs(p) \cap Inputs(q) = {}

\* A payment the wallet has the money for is made in the end, whichever calls
\* time out and whoever takes its inputs first, if its caller retries the
\* errors CheckRetryableError names.
EventuallyPaid == \A p \in Payments : <>Signed(p)

\* A worker that looks the trace up before every attempt is told in the end
\* that its payment is made, even when the payment emptied the wallet and its
\* answer was lost: one that does not is told "insufficient" then, on every
\* retry, since SendTransaction selects its outputs before anything else.
LookersLearn ==
  \A w \in Lookers : <>(pc[w] \in {"ok", "exists"} \/ err[w] = "signed")

\* What the wallet has by an output: its amount while nobody has spent it.  The
\* change of what is signed and not settled is had by the first input.
Holding(i) ==
  LET p == outputs[i].by
  IN IF p = "nobody" THEN outputs[i].amount
     ELSE IF request[p].state = "signed" /\ request[p].tx.inputs[1] = i
     THEN request[p].tx.change
     ELSE 0

\* The worth of the wallet: its unspent outputs, and the change that is coming.
Purses == Total([i \in 1..Len(outputs) |-> Holding(i)])

\* Paying implements Purse: each trace is paid once, in its exact amount, and
\* neither a retry, a late call nor a settlement makes or loses money.
Ideal == INSTANCE Purse WITH Payments <- Payments, Amount <- Amount,
                             Balance <- Total(Wallet), DepositAmount <- DepositAmount,
                             paid <- {p \in Payments : Signed(p)}, balance <- Purses
ImplementsPurse == Ideal!Spec

\* SendTransactionUntilSufficient does not return for want of outputs: "get
\* unspent outputs for asset and may return insufficient outputs error", which
\* its loop waits out.
UntilSufficientWaits ==
  \A w \in Workers : Caller[w] = "untilSufficient" /\ Returned(w)
                      => err[w] # "insufficient"
=============================================================================
