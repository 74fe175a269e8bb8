-------------------------- MODULE HttpClientProofs --------------------------
(***************************************************************************)
(* What the calls of HttpClient are told, for any goroutines, calls,       *)
(* rotations and transports: a token the library makes for a call is never *)
(* what the call is refused for, nil means that it was carried out, and a  *)
(* payment's call that was and does not say so tells its caller to retry.  *)
(***************************************************************************)
EXTENDS HttpClient, TLAPS

\* A style that Refused knows, and an answer that cannot be decoded told for
\* one, or for nothing by those who read no answer.
KnownStyle(s) ==
  /\ s.refused \in {"same", "mapped", "mapped404", "none404", "bad_data", "in_answer", "unread"}
  /\ s.garbled \in {"none", "internal", "bad_data", "decode"}
  /\ s.garbled = "none" => s.refused \in {"in_answer", "unread"}

\* A row of the table: a call with a SafeUser signs the very message it sends.
RowOK(c) == KnownStyle(c.style) /\ (c.auth = "own" => c.signs = c.sends)

\* The rows of one message sign it, and so do those with it written twice.
LEMMA RowsOfOneMessage ==
  ASSUME NEW s, KnownStyle(s)
  PROVE  \A n, m : /\ RowOK(Own(n, m, s))
                   /\ RowOK(Twice(n, m, m, s))
                   /\ RowOK(Public(n, m, s))
                   /\ RowOK(ApiKey(n, m, s))
                   /\ RowOK(Computer(n, m, s))
BY DEF RowOK, Own, Twice, Public, ApiKey, Computer, Call

\* The styles of the table.
LEMMA KnownStyles ==
  /\ KnownStyle(Wrapped) /\ KnownStyle(Plain) /\ KnownStyle(Raw) /\ KnownStyle(Mapped)
  /\ \A told : /\ KnownStyle(Style(told, "internal", "same"))
               /\ KnownStyle(Style(told, "bad_data", "mapped"))
               /\ KnownStyle(Style(told, "decode", "mapped404"))
               /\ KnownStyle(Style(told, "bad_data", "none404"))
               /\ KnownStyle(Style(told, "none", "in_answer"))
               /\ KnownStyle(Style(told, "bad_data", "bad_data"))
               /\ KnownStyle(Style(told, "none", "unread"))
               /\ KnownStyle(Style(told, "bad_data", "in_answer"))
BY DEF KnownStyle, Style, Wrapped, Plain, Raw, Mapped

\* Users and credentials, conversations and messages.
LEMMA MessengerRows ==
  /\ \A c \in UserCalls \cup MeCalls \cup PinCalls \cup RegisterCalls : RowOK(c)
  /\ \A c \in UpgradeCalls \cup SessionCalls \cup TipCalls \cup AppCalls \cup OAuthCalls :
       RowOK(c)
  /\ \A c \in ConversationCalls \cup ParticipantCalls \cup MessageCalls : RowOK(c)
  /\ \A c \in AttachmentCalls \cup TurnCalls : RowOK(c)
<1>1. \A c \in UserCalls \cup MeCalls \cup PinCalls \cup RegisterCalls : RowOK(c)
  BY RowsOfOneMessage, KnownStyles DEF UserCalls, MeCalls, PinCalls, RegisterCalls
<1>2. \A c \in UpgradeCalls \cup SessionCalls \cup TipCalls \cup AppCalls \cup OAuthCalls :
        RowOK(c)
  BY RowsOfOneMessage, KnownStyles DEF UpgradeCalls, SessionCalls, TipCalls, AppCalls, OAuthCalls
<1>3. \A c \in ConversationCalls \cup ParticipantCalls \cup MessageCalls : RowOK(c)
  BY RowsOfOneMessage, KnownStyles DEF ConversationCalls, ParticipantCalls, MessageCalls
<1>4. \A c \in AttachmentCalls \cup TurnCalls : RowOK(c)
  BY RowsOfOneMessage, KnownStyles DEF AttachmentCalls, TurnCalls
<1> QED BY <1>1, <1>2, <1>3, <1>4

\* The calls about money.
LEMMA MoneyRows ==
  /\ \A c \in PaymentCalls \cup TransactionCalls \cup OutputCalls : RowOK(c)
  /\ \A c \in AssetCalls \cup DepositCalls \cup PendingDepositCalls : RowOK(c)
  /\ \A c \in AddressCalls \cup SnapshotCalls \cup LegacySnapshotCalls : RowOK(c)
  /\ \A c \in NetworkSnapshotCalls \cup MultisigListCalls \cup MultisigCalls : RowOK(c)
  /\ \A c \in SafeMultisigCalls \cup KernelCalls : RowOK(c)
<1>1. \A c \in PaymentCalls \cup TransactionCalls \cup OutputCalls : RowOK(c)
  BY RowsOfOneMessage, KnownStyles DEF PaymentCalls, ListOutputs, RequestSafeGhostKeys,
     VerifyRawTransaction, SendRawTransaction, TransactionCalls, OutputCalls
<1>2. \A c \in AssetCalls \cup DepositCalls \cup PendingDepositCalls : RowOK(c)
  BY RowsOfOneMessage, KnownStyles DEF AssetCalls, DepositCalls, PendingDepositCalls
<1>3. \A c \in AddressCalls \cup SnapshotCalls \cup LegacySnapshotCalls : RowOK(c)
  BY RowsOfOneMessage, KnownStyles DEF AddressCalls, SnapshotCalls, LegacySnapshotCalls
<1>4. \A c \in NetworkSnapshotCalls \cup MultisigListCalls \cup MultisigCalls : RowOK(c)
  BY RowsOfOneMessage, KnownStyles DEF NetworkSnapshotCalls, MultisigListCalls, MultisigCalls
<1>5. \A c \in SafeMultisigCalls \cup KernelCalls : RowOK(c)
  BY RowsOfOneMessage, KnownStyles DEF SafeMultisigCalls, KernelCalls
<1> QED BY <1>1, <1>2, <1>3, <1>4, <1>5

\* What anybody may read.
LEMMA PublicRows ==
  /\ \A c \in FiatCalls \cup NetworkCalls \cup NetworkAssetCalls \cup ChainCalls : RowOK(c)
  /\ \A c \in CodeCalls \cup InscriptionCalls : RowOK(c)
  /\ \A c \in ComputerReads \cup ComputerWrites : RowOK(c)
BY RowsOfOneMessage, KnownStyles DEF FiatCalls, NetworkCalls, NetworkAssetCalls, ChainCalls, CodeCalls,
   InscriptionCalls, ComputerReads, ComputerWrites

\* Every row of the table.
LEMMA TableRows == \A c \in Table : RowOK(c)
BY MessengerRows, MoneyRows, PublicRows DEF Table

-----------------------------------------------------------------------------
(* The outcome of a call *)

\* What never gave an answer, or failed, is an error, and not a refusal.
LEMMA FailedIsError ==
  ASSUME NEW s, NEW a \in {"fault", "lost", "broken", "unsigned"}
  PROVE  Outcome(s, a) \in {"internal", "timeout", "io", "unsigned"}
<1>1. Outcome(s, a) = Failed(s, a) BY DEF Outcome, Codes
<1> QED BY <1>1 DEF Failed

\* A refusal for another reason is not told as one for the token, and is told
\* as nil only by the calls that do so.
LEMMA RefusedIsTold ==
  ASSUME NEW s, KnownStyle(s), NEW code \in Codes
  PROVE  /\ code # "unauthorized" => Outcome(s, code) # "unauthorized"
         /\ Outcome(s, code) = "none" => s.refused \in {"none404", "in_answer", "unread"}
<1>1. Outcome(s, code) = Refused(s, code) BY DEF Outcome, Codes
<1> QED BY <1>1 DEF Refused, KnownStyle, Codes

\* An answer that cannot be decoded.
LEMMA GarbledIsTold ==
  ASSUME NEW s, KnownStyle(s)
  PROVE  /\ Outcome(s, "garbled") # "unauthorized"
         /\ Outcome(s, "garbled") = "none" => s.refused \in {"in_answer", "unread"}
<1>1. Outcome(s, "garbled") = s.garbled BY DEF Outcome, Codes
<1> QED BY <1>1 DEF KnownStyle

\* What a caller of a payment may be told.
Retryable(e) == e \in {"none", "bad_data"} \/ CheckRetryableError(e)

\* A payment's call tells whatever may follow its being carried out so that a
\* caller retries.
LEMMA PaymentIsTold ==
  ASSUME NEW c \in PaymentCalls \ {ListOutputs},
         NEW a \in {"ok", "fault", "garbled", "lost", "broken"}
  PROVE  Retryable(Outcome(c.style, a))
<1>1. c.style = Wrapped
  BY DEF PaymentCalls, RequestSafeGhostKeys, VerifyRawTransaction, SendRawTransaction, Own, Call
<1>2. CASE a = "ok"
  <2>1. Outcome(c.style, a) = "none" BY <1>2 DEF Outcome, Codes
  <2> QED BY <2>1 DEF Retryable
<1>3. CASE a = "garbled"
  <2>1. Outcome(c.style, a) = "bad_data" BY <1>1, <1>3 DEF Outcome, Codes, Wrapped, Style
  <2> QED BY <2>1 DEF Retryable
<1>4. CASE a \in {"fault", "lost", "broken"}
  <2>1. Outcome(c.style, a) = Failed(c.style, a) BY <1>4 DEF Outcome, Codes
  <2>2. Failed(c.style, a) = "internal" BY <1>1, <1>4 DEF Failed, Wrapped, Style
  <2> QED BY <2>1, <2>2 DEF Retryable, CheckRetryableError
<1> QED BY <1>2, <1>3, <1>4

-----------------------------------------------------------------------------
(* The invariant *)

Shape ==
  /\ pc = [t \in Threads |-> pc[t]] /\ call = [t \in Threads |-> call[t]]
  /\ user = [t \in Threads |-> user[t]] /\ token = [t \in Threads |-> token[t]]
  /\ executed = [t \in Threads |-> executed[t]] /\ result = [t \in Threads |-> result[t]]

\* The token of a call is its user's, for what it sends, or a transport's.
TokenOK(t) ==
  call[t].auth = "own" /\ pc[t] # "idle" =>
    token[t] = OwnToken(user[t], call[t].sends) \/ token[t].by = "transport"

\* A call knows nothing before it returns.
Unknown(t) == result[t] = "none" /\ executed[t] = FALSE

\* What it was told.
RefusedOK(t) ==
  result[t] = "unauthorized" /\ call[t].auth = "own" =>
    token[t].by = "transport" \/ user[t] # session
NilOK(t) ==
  pc[t] = "returned" /\ result[t] = "none" =>
    executed[t] \/ call[t].style.refused \in {"none404", "in_answer", "unread"}
PaymentOK(t) ==
  executed[t] /\ call[t] \in PaymentCalls \ {ListOutputs} => Retryable(result[t])

One(t) ==
  /\ call[t] \in Table \cup {NoCall}
  /\ user[t] \in 0..session
  /\ TokenOK(t)
  /\ pc[t] # "returned" => Unknown(t)
  /\ RefusedOK(t) /\ NilOK(t) /\ PaymentOK(t)

Inv == session \in Nat /\ Shape /\ \A t \in Threads : One(t)

\* At first no goroutine has made a call.
LEMMA InitInv == Init => Inv
<1> SUFFICES ASSUME Init PROVE Inv OBVIOUS
<1>1. Shape BY DEF Init, Shape
<1>2. ASSUME NEW t \in Threads PROVE One(t)
  <2>1. /\ pc[t] = "idle" /\ call[t] = NoCall /\ user[t] = 0 /\ executed[t] = FALSE
        /\ result[t] = "none" /\ session = 1
    BY DEF Init
  <2> QED BY <2>1 DEF One, TokenOK, Unknown, RefusedOK, NilOK, PaymentOK
<1> QED BY <1>1, <1>2 DEF Init, Inv

\* Every call there is, and the absence of one, is a row.
LEMMA CallIsRow ==
  ASSUME Inv, NEW t \in Threads
  PROVE  RowOK(call[t])
<1>1. RowOK(NoCall) BY RowsOfOneMessage, KnownStyles DEF NoCall
<1> QED BY <1>1, TableRows DEF Inv, One

\* A step of one goroutine keeps the invariant if it keeps it for that one.
LEMMA StepOfOne ==
  ASSUME Inv, NEW t \in Threads, Shape', One(t)', session' = session,
         \A u \in Threads \ {t} :
           /\ pc'[u] = pc[u] /\ call'[u] = call[u] /\ user'[u] = user[u]
           /\ token'[u] = token[u] /\ executed'[u] = executed[u] /\ result'[u] = result[u]
  PROVE  Inv'
<1>1. ASSUME NEW u \in Threads, u # t PROVE One(u)'
  <2>1. One(u) BY DEF Inv
  <2>2. /\ pc'[u] = pc[u] /\ call'[u] = call[u] /\ user'[u] = user[u]
        /\ token'[u] = token[u] /\ executed'[u] = executed[u] /\ result'[u] = result[u]
    BY <1>1
  <2> QED BY <2>1, <2>2 DEF One, TokenOK, Unknown, RefusedOK, NilOK, PaymentOK
<1> QED BY <1>1 DEF Inv

\* A call that returns keeps the invariant if what it is told is so.
LEMMA ReturnKeepsInv ==
  ASSUME Inv, NEW t \in Threads, NEW a, NEW done \in BOOLEAN,
         pc[t] \in {"do", "sent"},
         Return(t, a),
         executed' = [executed EXCEPT ![t] = done],
         UNCHANGED <<session, globals, call, user, wrapped, token>>,
         Outcome(call[t].style, a) = "unauthorized" /\ call[t].auth = "own" =>
           token[t].by = "transport" \/ user[t] # session,
         Outcome(call[t].style, a) = "none" =>
           done \/ call[t].style.refused \in {"none404", "in_answer", "unread"},
         done => a \in {"ok", "fault", "garbled", "lost", "broken"}
  PROVE  Inv'
<1>1. Shape' BY DEF Inv, Shape, Return
<1>2. /\ pc'[t] = "returned" /\ result'[t] = Outcome(call[t].style, a) /\ executed'[t] = done
      /\ call' = call /\ user' = user /\ token' = token /\ session' = session
  BY DEF Return, Inv, Shape
<1>3. One(t) BY DEF Inv
<1>4. RefusedOK(t)' /\ NilOK(t)' BY <1>2 DEF RefusedOK, NilOK
<1>5. PaymentOK(t)' BY <1>2, PaymentIsTold DEF PaymentOK
<1>6. TokenOK(t)' BY <1>2, <1>3 DEF One, TokenOK
<1>7. One(t)' BY <1>2, <1>3, <1>4, <1>5, <1>6 DEF One
<1>8. \A u \in Threads \ {t} :
        /\ pc'[u] = pc[u] /\ call'[u] = call[u] /\ user'[u] = user[u]
        /\ token'[u] = token[u] /\ executed'[u] = executed[u] /\ result'[u] = result[u]
  BY <1>2 DEF Return, Inv, Shape
<1> QED BY <1>1, <1>2, <1>7, <1>8, StepOfOne

-----------------------------------------------------------------------------
(* The steps of a goroutine *)

\* A call begins, with a token for what it sends if it is a user's.
LEMMA BeginKeepsInv ==
  ASSUME Inv, NEW t \in Threads, NEW c \in Performs[t], Begin(t, c)
  PROVE  Inv'
<1>1. c \in Table /\ RowOK(c) BY HttpAssumption, TableRows DEF HttpAssumption
<1>2. One(t) BY DEF Inv
<1>3. /\ pc[t] = "idle" /\ pc'[t] = "do" /\ call'[t] = c /\ result' = result
      /\ executed' = executed /\ session' = session
      /\ user'[t] = IF c.auth = "own" THEN session ELSE 0
      /\ token'[t] = IF c.auth = "own" THEN OwnToken(session, c.signs) ELSE NoToken
  BY DEF Begin, Inv, Shape
<1>4. Unknown(t)' BY <1>2, <1>3 DEF One, Unknown
<1>5. TokenOK(t)' BY <1>1, <1>3 DEF TokenOK, RowOK
<1>6. user'[t] \in 0..session' BY <1>3 DEF Inv
<1>7. One(t)' BY <1>1, <1>3, <1>4, <1>5, <1>6 DEF One, Unknown, RefusedOK, NilOK, PaymentOK
<1>8. Shape' BY DEF Begin, Inv, Shape
<1> QED BY <1>3, <1>7, <1>8, StepOfOne DEF Begin, Inv, Shape

\* A SimpleRequest begins.
LEMMA BeginSimpleKeepsInv ==
  ASSUME Inv, NEW t \in Threads, NEW c \in Performs[t], BeginSimple(t, c)
  PROVE  Inv'
<1>1. c \in Table BY HttpAssumption DEF HttpAssumption
<1>2. One(t) BY DEF Inv
<1>3. /\ pc[t] = "idle" /\ pc'[t] = "wrap" /\ call'[t] = c /\ c.auth = "api_key"
      /\ result' = result /\ executed' = executed /\ session' = session
      /\ user' = user /\ token' = token
  BY DEF BeginSimple, Inv, Shape
<1>4. Unknown(t)' BY <1>2, <1>3 DEF One, Unknown
<1>5. One(t)'
  BY <1>1, <1>2, <1>3, <1>4 DEF One, TokenOK, Unknown, RefusedOK, NilOK, PaymentOK
<1>6. Shape' BY DEF BeginSimple, Inv, Shape
<1> QED BY <1>3, <1>5, <1>6, StepOfOne DEF BeginSimple, Inv, Shape

\* SimpleRequest stores its transport.
LEMMA WrapKeepsInv ==
  ASSUME Inv, NEW t \in Threads, Wrap(t)
  PROVE  Inv'
<1>1. One(t) BY DEF Inv
<1>2. /\ pc[t] = "wrap" /\ pc'[t] = "do" /\ call' = call /\ result' = result
      /\ executed' = executed /\ session' = session /\ user' = user /\ token' = token
  BY DEF Wrap, Inv, Shape
<1>3. Unknown(t)' BY <1>1, <1>2 DEF One, Unknown
<1>4. One(t)'
  BY <1>1, <1>2, <1>3 DEF One, TokenOK, Unknown, RefusedOK, NilOK, PaymentOK
<1>5. Shape' BY DEF Wrap, Inv, Shape
<1> QED BY <1>2, <1>4, <1>5, StepOfOne DEF Wrap, Inv, Shape

\* A request is sent, with the token it had or one of a transport.
LEMMA DoKeepsInv ==
  ASSUME Inv, NEW t \in Threads, Do(t)
  PROVE  Inv'
<1>1. One(t) BY DEF Inv
<1>2. /\ pc[t] = "do" /\ pc'[t] = "sent" /\ call' = call /\ result' = result
      /\ executed' = executed /\ session' = session /\ user' = user
      /\ token'[t] = IF call[t].auth = "computer" THEN token[t]
                     ELSE RoundTrip(call[t].sends, token[t])
  BY DEF Do, Inv, Shape
<1>3. Unknown(t)' BY <1>1, <1>2 DEF One, Unknown
<1>4. token'[t] = token[t] \/ token'[t].by = "transport"
  BY <1>2 DEF RoundTrip, BuildJWT
<1>5. TokenOK(t)' BY <1>1, <1>2, <1>4 DEF One, TokenOK
<1>6. One(t)'
  BY <1>1, <1>2, <1>3, <1>5 DEF One, Unknown, RefusedOK, NilOK, PaymentOK
<1>7. Shape' BY DEF Do, Inv, Shape
<1> QED BY <1>2, <1>6, <1>7, StepOfOne DEF Do, Inv, Shape

\* The goroutine forgets the call.
LEMMA DoneKeepsInv ==
  ASSUME Inv, NEW t \in Threads, Done(t)
  PROVE  Inv'
<1>1. /\ pc'[t] = "idle" /\ call'[t] = NoCall /\ result'[t] = "none"
      /\ executed'[t] = FALSE /\ session' = session /\ user'[t] = 0
  BY DEF Done, Inv, Shape
<1>2. One(t)' BY <1>1 DEF Inv, One, TokenOK, Unknown, RefusedOK, NilOK, PaymentOK
<1>3. Shape' BY DEF Done, Inv, Shape
<1> QED BY <1>1, <1>2, <1>3, StepOfOne DEF Done, Inv, Shape

\* A call that no transport could sign returns.
LEMMA DoUnsignedKeepsInv ==
  ASSUME Inv, NEW t \in Threads, DoUnsigned(t)
  PROVE  Inv'
<1>1. Outcome(call[t].style, "unsigned") \in {"internal", "timeout", "io", "unsigned"}
  BY FailedIsError
<1>2. pc[t] = "do" /\ Return(t, "unsigned") /\ executed' = executed
      /\ UNCHANGED <<session, globals, call, user, wrapped, token>>
  BY DEF DoUnsigned
<1>3. executed' = [executed EXCEPT ![t] = FALSE]
  <2>1. executed[t] = FALSE BY <1>2 DEF Inv, One, Unknown
  <2> QED BY <1>2, <2>1 DEF Inv, Shape
<1> QED BY <1>1, <1>2, <1>3, ReturnKeepsInv

\* The client gives up: the call may have been carried out.
LEMMA GiveUpKeepsInv ==
  ASSUME Inv, NEW t \in Threads, GiveUp(t)
  PROVE  Inv'
<1>1. PICK a \in {"lost", "broken"} : Return(t, a) BY DEF GiveUp
<1>2. PICK done \in BOOLEAN : executed' = [executed EXCEPT ![t] = done] BY DEF GiveUp
<1>3. Outcome(call[t].style, a) \in {"internal", "timeout", "io", "unsigned"}
  BY FailedIsError
<1>4. pc[t] = "sent" /\ UNCHANGED <<session, globals, call, user, wrapped, token>>
  BY DEF GiveUp
<1> QED BY <1>1, <1>2, <1>3, <1>4, ReturnKeepsInv

\* The server refuses the token: a user's own one is authentic as long as the
\* session it was made for is the server's.
LEMMA RefuseTokenKeepsInv ==
  ASSUME Inv, NEW t \in Threads, RefuseToken(t)
  PROVE  Inv'
<1>1. Return(t, "unauthorized") /\ pc[t] = "sent" /\ ~Authentic(t) /\ executed' = executed
      /\ UNCHANGED <<session, globals, call, user, wrapped, token>>
  BY DEF RefuseToken
<1>2. call[t].auth = "own" => token[t].by = "transport" \/ user[t] # session
  <2>1. TokenOK(t) BY DEF Inv, One
  <2> QED BY <1>1, <2>1 DEF TokenOK, Authentic, OwnToken
<1>3. executed' = [executed EXCEPT ![t] = FALSE]
  <2>1. executed[t] = FALSE BY <1>1 DEF Inv, One, Unknown
  <2> QED BY <1>1, <2>1 DEF Inv, Shape
<1>4. KnownStyle(call[t].style) BY CallIsRow DEF RowOK
<1>5. Outcome(call[t].style, "unauthorized") = "none" =>
        call[t].style.refused \in {"none404", "in_answer", "unread"}
  BY <1>4, RefusedIsTold DEF Codes
<1> QED BY <1>1, <1>2, <1>3, <1>5, ReturnKeepsInv

\* The server answers a request whose token it has taken, or needs none.
LEMMA AnswerKeepsInv ==
  ASSUME Inv, NEW t \in Threads, Answer(t)
  PROVE  Inv'
<1>1. pc[t] = "sent" /\ UNCHANGED <<session, globals, call, user, wrapped, token>>
  BY DEF Answer
<1>2. KnownStyle(call[t].style) BY CallIsRow DEF RowOK
<1>3. CASE executed' = [executed EXCEPT ![t] = TRUE] /\ Return(t, "ok")
  <2>1. Outcome(call[t].style, "ok") = "none" BY DEF Outcome, Codes
  <2> QED BY <1>1, <1>3, <2>1, ReturnKeepsInv
<1>4. ASSUME NEW code \in Codes, Return(t, code), executed' = executed,
             call[t].auth = "own" => code # "unauthorized"
      PROVE  Inv'
  <2>2. executed[t] = FALSE BY <1>1 DEF Inv, One, Unknown
  <2>3. executed' = [executed EXCEPT ![t] = FALSE] BY <1>4, <2>2 DEF Inv, Shape
  <2>4. /\ code # "unauthorized" => Outcome(call[t].style, code) # "unauthorized"
        /\ Outcome(call[t].style, code) = "none" =>
             call[t].style.refused \in {"none404", "in_answer", "unread"}
    BY <1>2, RefusedIsTold
  <2> QED BY <1>1, <1>4, <2>3, <2>4, ReturnKeepsInv
<1>5. ASSUME NEW done \in BOOLEAN, NEW a \in {"fault", "garbled"},
             executed' = [executed EXCEPT ![t] = done], Return(t, a)
      PROVE  Inv'
  <2>1. Outcome(call[t].style, a) # "unauthorized"
        /\ (Outcome(call[t].style, a) = "none" =>
              call[t].style.refused \in {"none404", "in_answer", "unread"})
    <3>1. CASE a = "fault" BY <3>1, FailedIsError
    <3>2. CASE a = "garbled" BY <1>2, <3>2, GarbledIsTold
    <3> QED BY <3>1, <3>2
  <2> QED BY <1>1, <1>5, <2>1, ReturnKeepsInv
<1>6. \/ executed' = [executed EXCEPT ![t] = TRUE] /\ Return(t, "ok")
      \/ /\ \E code \in Codes : Return(t, code) /\ (call[t].auth = "own" => code # "unauthorized")
         /\ executed' = executed
      \/ \E done \in BOOLEAN, a \in {"fault", "garbled"} :
           executed' = [executed EXCEPT ![t] = done] /\ Return(t, a)
  BY DEF Answer, NeedsToken
<1> QED BY <1>3, <1>4, <1>5, <1>6

\* The session is rotated: a token of the one before is no longer its user's.
LEMMA RotateKeepsInv ==
  ASSUME Inv, Rotate
  PROVE  Inv'
<1>1. session \in Nat /\ session' = session + 1 /\ UNCHANGED threadVars BY DEF Inv, Rotate
<1>2. Shape' BY <1>1 DEF Inv, Shape, threadVars
<1>3. ASSUME NEW t \in Threads PROVE One(t)'
  <2>1. One(t) BY DEF Inv
  <2>2. user'[t] \in 0..session' /\ user'[t] # session' BY <1>1, <2>1 DEF One, threadVars
  <2> QED BY <1>1, <2>1, <2>2
          DEF One, TokenOK, Unknown, RefusedOK, NilOK, PaymentOK, threadVars
<1> QED BY <1>1, <1>2, <1>3 DEF Inv

\* A step that leaves the goroutines and the session alone.
LEMMA ElsewhereKeepsInv ==
  ASSUME Inv, UNCHANGED <<session, threadVars>>
  PROVE  Inv'
BY DEF Inv, Shape, One, TokenOK, Unknown, RefusedOK, NilOK, PaymentOK, threadVars

\* Every step keeps the invariant.
LEMMA NextKeepsInv == Inv /\ [Next]_vars => Inv'
<1> SUFFICES ASSUME Inv, [Next]_vars PROVE Inv' OBVIOUS
<1>1. ASSUME NEW t \in Threads, CallStep(t) \/ Answer(t) \/ RefuseToken(t) \/ Done(t)
      PROVE  Inv'
  BY <1>1, WrapKeepsInv, DoKeepsInv, DoUnsignedKeepsInv, GiveUpKeepsInv, AnswerKeepsInv,
     RefuseTokenKeepsInv, DoneKeepsInv DEF CallStep
<1>2. ASSUME NEW t \in Threads, NEW c \in Performs[t], Begin(t, c) \/ BeginSimple(t, c)
      PROVE  Inv'
  BY <1>2, BeginKeepsInv, BeginSimpleKeepsInv
<1>3. SetSid \/ SetKey \/ UNCHANGED vars => UNCHANGED <<session, threadVars>>
  BY DEF SetSid, SetKey, vars
<1> QED BY <1>1, <1>2, <1>3, RotateKeepsInv, ElsewhereKeepsInv DEF Next

\* What the invariant says of every goroutine.
LEMMA InvTells == Inv => RefusedOnlyIfResigned /\ NilMeansExecuted /\ PaymentErrorsTold
BY DEF Inv, One, RefusedOK, NilOK, PaymentOK, Retryable, RefusedOnlyIfResigned,
       NilMeansExecuted, PaymentErrorsTold

\* The invariant holds of every behaviour.
LEMMA AlwaysInv == Spec => []Inv
BY InitInv, NextKeepsInv, PTL DEF Spec

\* A call with a SafeUser is refused for its token only if a transport of
\* SimpleRequest has signed over it or the session was rotated: what each
\* function signs is what it sends.
THEOREM OwnTokenIsTaken == Spec => []RefusedOnlyIfResigned
BY AlwaysInv, InvTells, PTL

\* A call that returns nil was carried out, but for the calls the property
\* names by what they do with an error.
THEOREM NilIsExecuted == Spec => []NilMeansExecuted
BY AlwaysInv, InvTells, PTL

\* A payment's verification or signature that was carried out, and is not told
\* so, is told as an error CheckRetryableError knows.
THEOREM PaymentsAreTold == Spec => []PaymentErrorsTold
BY AlwaysInv, InvTells, PTL

-----------------------------------------------------------------------------
(* Types *)

\* Whatever comes back, a call returns nil or an error of CallErrors.
LEMMA OutcomeType ==
  ASSUME NEW s, KnownStyle(s),
         NEW a \in Codes \cup {"ok", "fault", "garbled", "lost", "broken", "unsigned"}
  PROVE  Outcome(s, a) \in CallError \cup {"none"}
<1>1. CASE a = "ok"
  BY <1>1 DEF Outcome, Codes
<1>2. CASE a = "garbled"
  <2>1. Outcome(s, a) = s.garbled
    BY <1>2 DEF Outcome, Codes
  <2> QED BY <2>1 DEF KnownStyle, CallError
<1>3. CASE a \in {"fault", "lost", "broken", "unsigned"}
  BY <1>3, FailedIsError DEF CallError
<1>4. CASE a \in Codes
  <2>1. Outcome(s, a) = Refused(s, a)
    BY <1>4 DEF Outcome, Codes
  <2> QED BY <1>4, <2>1 DEF Refused, KnownStyle, Codes, CallError
<1> QED BY <1>1, <1>2, <1>3, <1>4

\* The types, and that the key of a token is not empty.
KeysOK == \A t \in Threads : token[t].by # "nobody" => token[t].key # 0
Types == TypeOK /\ KeysOK

\* A call that returns has a type.
LEMMA ReturnType ==
  ASSUME Types, Inv, NEW t \in Threads, NEW a, Return(t, a),
         a \in Codes \cup {"ok", "fault", "garbled", "lost", "broken", "unsigned"},
         executed' \in [Threads -> BOOLEAN],
         UNCHANGED <<session, globals, call, user, wrapped, token>>
  PROVE  Types'
<1>1. KnownStyle(call[t].style)
  BY CallIsRow DEF RowOK
<1>2. Outcome(call[t].style, a) \in CallError \cup {"none"}
  BY <1>1, OutcomeType
<1>3. /\ pc' \in [Threads -> {"idle", "wrap", "do", "sent", "returned"}]
      /\ result' \in [Threads -> CallError \cup {"none"}]
  BY <1>2 DEF Return, Types, TypeOK, KeysOK
<1> QED BY <1>3 DEF Types, TypeOK, KeysOK, Tokens, globals

\* A public call sends its message, and a message without a query is bare.
LEMMA RowSends == \A n, m, s : Public(n, m, s).sends = m
BY DEF Public, Call

LEMMA Bare ==
  ASSUME NEW a, NEW b, NEW d, NEW m, m = [method |-> a, path |-> b, query |-> {}, body |-> d]
  PROVE  [m EXCEPT !.query = {}] = m
OBVIOUS

LEMMA BareGet == \A path : [Get(path) EXCEPT !.query = {}] = Get(path)
BY Bare DEF Get, Message

\* A longer range has the sequences of a shorter one.
LEMMA SeqWiden ==
  ASSUME NEW m \in Nat, NEW n \in Nat, m <= n, NEW q \in Seq(0..m)
  PROVE  q \in Seq(0..n)
<1>1. \A i \in 1..Len(q) : q[i] \in 0..m
  OBVIOUS
<1>2. \A i \in 1..Len(q) : q[i] \in 0..n
  BY <1>1
<1> QED BY <1>2

\* A token a transport makes is of the message without its query.
LEMMA TransportToken ==
  ASSUME Types, NEW t \in Threads, transport # <<>>, ~Unsignable
  PROVE  LET made == RoundTrip(call[t].sends, token[t])
         IN made \in Tokens /\ made.key # 0
<1> DEFINE bare == [call[t].sends EXCEPT !.query = {}]
<1>1. bare \in {[c.sends EXCEPT !.query = {}] : c \in Table} \cup {Get("")}
  <2>1. CASE call[t] \in Table
    BY <2>1
  <2>2. CASE call[t] = NoCall
    <3>1. NoCall.sends = Get("")
      BY RowSends DEF NoCall
    <3>2. [Get("") EXCEPT !.query = {}] = Get("")
      BY BareGet
    <3> QED BY <2>2, <3>1, <3>2
  <2> QED BY <2>1, <2>2, HttpAssumption DEF Types, TypeOK, KeysOK, HttpAssumption
<1>2. Head(transport) \in 0..session /\ Head(transport) # 0
  BY DEF Types, TypeOK, KeysOK, Unsignable
<1>3. sid \in 0..session
  BY DEF Types, TypeOK, KeysOK
<1>4. RoundTrip(call[t].sends, token[t]) =
        [by |-> "transport", sid |-> sid, key |-> Head(transport), signs |-> bare]
  BY DEF RoundTrip, BuildJWT
<1> HIDE DEF bare
<1> DEFINE made == [by |-> "transport", sid |-> sid, key |-> Head(transport), signs |-> bare]
<1>5. made \in Tokens
  BY <1>1, <1>2, <1>3 DEF Tokens
<1>6. made.key # 0
  BY <1>2
<1> HIDE DEF made
<1>7. RoundTrip(call[t].sends, token[t]) = made
  BY <1>4 DEF made
<1> QED BY <1>5, <1>6, <1>7

\* The user's own token.
LEMMA OwnTokenType ==
  ASSUME NEW c \in Table, session \in Nat \ {0}
  PROVE  /\ OwnToken(session, c.signs) \in Tokens /\ OwnToken(session, c.signs).key # 0
         /\ NoToken \in Tokens /\ NoToken.by = "nobody"
<1>1. session \in 0..session /\ 0 \in 0..session
  OBVIOUS
<1>2. c.signs \in {d.signs : d \in Table}
  OBVIOUS
<1> QED BY <1>1, <1>2 DEF OwnToken, NoToken, Tokens

LEMMA StepType == Types /\ Inv /\ [Next]_vars => Types'
<1> SUFFICES ASSUME Types, Inv, [Next]_vars PROVE Types'
  OBVIOUS
<1> USE DEF globals, threadVars
<1>0. session \in Nat \ {0} /\ MaxSession \in Nat
  BY HttpAssumption DEF Types, TypeOK, KeysOK, HttpAssumption
<1>1. CASE Rotate
  <2>1. /\ session' \in 1..MaxSession /\ 0..session \subseteq 0..session'
    BY <1>0, <1>1 DEF Rotate
  <2>2. Tokens \subseteq Tokens'
    BY <2>1 DEF Tokens
  <2>3. \A q \in Seq(0..session) : q \in Seq(0..session')
    BY <1>0, <1>1, SeqWiden DEF Rotate
  <2>4. sid' \in 0..session' /\ privateKey' \in 0..session' /\ configuring' \in BOOLEAN
    BY <1>1, <2>1 DEF Rotate, Types, TypeOK, KeysOK
  <2>5. transport' \in Seq(0..session') /\ wrapped' \in [Threads -> Seq(0..session')]
    BY <1>1, <2>3 DEF Rotate, Types, TypeOK, KeysOK
  <2>6. user' \in [Threads -> 0..session'] /\ token' \in [Threads -> Tokens']
    BY <1>1, <2>1, <2>2 DEF Rotate, Types, TypeOK, KeysOK
  <2> QED BY <1>1, <2>1, <2>4, <2>5, <2>6 DEF Rotate, Types, TypeOK, KeysOK
<1>2. CASE SetSid \/ SetKey
  <2>1. session' = session /\ session \in 0..session
    BY <1>0, <1>2 DEF SetSid, SetKey
  <2>2. sid' \in 0..session /\ privateKey' \in 0..session /\ configuring' \in BOOLEAN
    BY <1>2, <2>1 DEF SetSid, SetKey, Types, TypeOK, KeysOK
  <2>3. UNCHANGED <<session, transport, threadVars>> /\ Tokens' = Tokens
    BY <1>2 DEF SetSid, SetKey, Tokens
  <2> QED BY <2>1, <2>2, <2>3 DEF Types, TypeOK, KeysOK
<1>3. ASSUME NEW t \in Threads, NEW c \in Performs[t], Begin(t, c) PROVE Types'
  <2>1. c \in Table
    BY HttpAssumption DEF HttpAssumption
  <2>2. Tokens' = Tokens
    BY <1>3 DEF Begin, Tokens
  <2>3. token' \in [Threads -> Tokens] /\ user' \in [Threads -> 0..session]
    BY <1>0, <1>3, <2>1, OwnTokenType DEF Begin, Types, TypeOK, KeysOK
  <2>4. \A u \in Threads : token'[u].by # "nobody" => token'[u].key # 0
    BY <1>0, <1>3, <2>1, OwnTokenType DEF Begin, Types, TypeOK, KeysOK
  <2>5. \A u \in Threads : call'[u] \in Performs[u] \cup {NoCall}
    BY <1>3 DEF Begin, Types, TypeOK, KeysOK, Inv, Shape
  <2>6. pc' \in [Threads -> {"idle", "wrap", "do", "sent", "returned"}]
    BY <1>3 DEF Begin, Types, TypeOK, KeysOK
  <2> QED BY <1>3, <2>2, <2>3, <2>4, <2>5, <2>6 DEF Begin, Types, TypeOK, KeysOK
<1>4. ASSUME NEW t \in Threads, NEW c \in Performs[t], BeginSimple(t, c) PROVE Types'
  <2>1. Tokens' = Tokens
    BY <1>4 DEF BeginSimple, Tokens
  <2>2. wrapped' \in [Threads -> Seq(0..session)]
    BY <1>4 DEF BeginSimple, Types, TypeOK, KeysOK
  <2>3. \A u \in Threads : call'[u] \in Performs[u] \cup {NoCall}
    BY <1>4 DEF BeginSimple, Types, TypeOK, KeysOK, Inv, Shape
  <2>4. pc' \in [Threads -> {"idle", "wrap", "do", "sent", "returned"}]
    BY <1>4 DEF BeginSimple, Types, TypeOK, KeysOK
  <2> QED BY <1>4, <2>1, <2>2, <2>3, <2>4 DEF BeginSimple, Types, TypeOK, KeysOK
<1>5. ASSUME NEW t \in Threads, Wrap(t) PROVE Types'
  <2>1. wrapped' \in [Threads -> Seq(0..session)] /\ transport' \in Seq(0..session)
    BY <1>5 DEF Wrap, Types, TypeOK, KeysOK
  <2>2. pc' \in [Threads -> {"idle", "wrap", "do", "sent", "returned"}]
    BY <1>5 DEF Wrap, Types, TypeOK, KeysOK
  <2> QED BY <1>5, <2>1, <2>2 DEF Wrap, Types, TypeOK, KeysOK, Tokens
<1>6. ASSUME NEW t \in Threads, Do(t) PROVE Types'
  <2>1. Tokens' = Tokens
    BY <1>6 DEF Do, Tokens
  <2>2. \/ token' = token
        \/ /\ transport # <<>> /\ ~Unsignable
           /\ token' = [token EXCEPT ![t] = RoundTrip(call[t].sends, token[t])]
    BY <1>6 DEF Do, RoundTrip, Types, TypeOK, KeysOK
  <2>3. /\ token' \in [Threads -> Tokens]
        /\ \A u \in Threads : token'[u].by # "nobody" => token'[u].key # 0
    BY <2>2, TransportToken DEF Types, TypeOK, KeysOK
  <2>4. pc' \in [Threads -> {"idle", "wrap", "do", "sent", "returned"}]
    BY <1>6 DEF Do, Types, TypeOK, KeysOK
  <2> QED BY <1>6, <2>1, <2>3, <2>4 DEF Do, Types, TypeOK, KeysOK
<1>7. ASSUME NEW t \in Threads, DoUnsigned(t) PROVE Types'
  BY <1>7, ReturnType DEF DoUnsigned, Types, TypeOK, KeysOK
<1>8. ASSUME NEW t \in Threads, GiveUp(t) PROVE Types'
  <2>1. executed' \in [Threads -> BOOLEAN]
    BY <1>8 DEF GiveUp, Types, TypeOK, KeysOK
  <2> QED BY <1>8, <2>1, ReturnType DEF GiveUp
<1>9. ASSUME NEW t \in Threads, RefuseToken(t) PROVE Types'
  BY <1>9, ReturnType DEF RefuseToken, Types, TypeOK, KeysOK, Codes
<1>10. ASSUME NEW t \in Threads, Answer(t) PROVE Types'
  <2>1. executed' \in [Threads -> BOOLEAN]
    BY <1>10 DEF Answer, Types, TypeOK, KeysOK
  <2>2. \E a \in Codes \cup {"ok", "fault", "garbled"} : Return(t, a)
    BY <1>10 DEF Answer
  <2> QED BY <1>10, <2>1, <2>2, ReturnType DEF Answer
<1>11. ASSUME NEW t \in Threads, Done(t) PROVE Types'
  <2>1. Tokens' = Tokens
    BY <1>11 DEF Done, Tokens
  <2>2. NoToken \in Tokens /\ NoToken.by = "nobody" /\ 0 \in 0..session
    BY <1>0 DEF NoToken, Tokens
  <2>3. /\ token' \in [Threads -> Tokens] /\ user' \in [Threads -> 0..session]
        /\ \A u \in Threads : token'[u].by # "nobody" => token'[u].key # 0
    BY <1>11, <2>2 DEF Done, Types, TypeOK, KeysOK
  <2>4. \A u \in Threads : call'[u] \in Performs[u] \cup {NoCall}
    BY <1>11 DEF Done, Types, TypeOK, KeysOK, Inv, Shape
  <2>5. /\ pc' \in [Threads -> {"idle", "wrap", "do", "sent", "returned"}]
        /\ executed' \in [Threads -> BOOLEAN] /\ result' \in [Threads -> CallError \cup {"none"}]
    BY <1>11 DEF Done, Types, TypeOK, KeysOK
  <2> QED BY <1>11, <2>1, <2>3, <2>4, <2>5 DEF Done, Types, TypeOK, KeysOK
<1>12. CASE UNCHANGED vars
  BY <1>12 DEF vars, Types, TypeOK, KeysOK, Tokens
<1> QED
  BY <1>1, <1>2, <1>3, <1>4, <1>5, <1>6, <1>7, <1>8, <1>9, <1>10, <1>11, <1>12
  DEF Next, CallStep

\* SimpleRequest finds the chain no longer empty, and a transport has signed
\* what it sends.
ChainInv ==
  \A t \in Threads :
    /\ pc[t] = "wrap" => wrapped[t] # <<>>
    /\ pc[t] \in {"do", "sent"} /\ call[t].auth = "api_key" => transport # <<>>
    /\ pc[t] = "sent" /\ call[t].auth = "api_key" => token[t].by = "transport"

LEMMA StepChain == TypeOK /\ Inv /\ ChainInv /\ [Next]_vars => ChainInv'
<1> SUFFICES ASSUME TypeOK, Inv, ChainInv, [Next]_vars PROVE ChainInv'
  OBVIOUS
<1> USE DEF globals, threadVars
<1>0. /\ pc = [t \in Threads |-> pc[t]] /\ call = [t \in Threads |-> call[t]]
      /\ DOMAIN wrapped = Threads /\ DOMAIN token = Threads
      /\ transport \in Seq(0..session)
  BY DEF TypeOK, Inv, Shape
<1>1. CASE UNCHANGED <<transport, pc, call, wrapped, token>>
  BY <1>1 DEF ChainInv
<1>2. CASE Rotate \/ SetSid \/ SetKey \/ UNCHANGED vars
  BY <1>1, <1>2 DEF Rotate, SetSid, SetKey, vars
<1>3. ASSUME NEW t \in Threads, NEW c \in Performs[t], Begin(t, c) PROVE ChainInv'
  <2>1. /\ c.auth # "api_key" /\ UNCHANGED <<transport, wrapped>>
        /\ pc'[t] = "do" /\ call'[t] = c
        /\ \A u \in Threads \ {t} : pc'[u] = pc[u] /\ call'[u] = call[u] /\ token'[u] = token[u]
    BY <1>0, <1>3 DEF Begin
  <2> QED BY <2>1 DEF ChainInv
<1>4. ASSUME NEW t \in Threads, NEW c \in Performs[t], BeginSimple(t, c) PROVE ChainInv'
  <2>1. /\ UNCHANGED <<transport, token>> /\ pc'[t] = "wrap"
        /\ wrapped'[t] = Append(transport, privateKey)
        /\ \A u \in Threads \ {t} : pc'[u] = pc[u] /\ call'[u] = call[u] /\ wrapped'[u] = wrapped[u]
    BY <1>0, <1>4 DEF BeginSimple
  <2>2. Append(transport, privateKey) # <<>>
    BY <1>0
  <2> QED BY <2>1, <2>2 DEF ChainInv
<1>5. ASSUME NEW t \in Threads, Wrap(t) PROVE ChainInv'
  <2>1. /\ UNCHANGED <<call, token>> /\ pc'[t] = "do" /\ transport' = wrapped[t]
        /\ wrapped[t] # <<>>
        /\ \A u \in Threads \ {t} : pc'[u] = pc[u] /\ wrapped'[u] = wrapped[u]
    BY <1>0, <1>5 DEF Wrap, ChainInv
  <2> QED BY <2>1 DEF ChainInv
<1>6. ASSUME NEW t \in Threads, Do(t) PROVE ChainInv'
  <2>1. /\ UNCHANGED <<transport, call, wrapped>> /\ pc[t] = "do" /\ pc'[t] = "sent"
        /\ \A u \in Threads \ {t} : pc'[u] = pc[u] /\ token'[u] = token[u]
    BY <1>0, <1>6 DEF Do
  <2>2. call[t].auth = "api_key" => token'[t] = RoundTrip(call[t].sends, token[t])
    BY <1>0, <1>6 DEF Do
  <2>3. call[t].auth = "api_key" => transport # <<>> /\ token'[t].by = "transport"
    BY <2>1, <2>2 DEF ChainInv, RoundTrip, BuildJWT
  <2> QED BY <2>1, <2>3 DEF ChainInv
<1>7. ASSUME NEW t \in Threads,
             DoUnsigned(t) \/ GiveUp(t) \/ Answer(t) \/ RefuseToken(t)
      PROVE  ChainInv'
  <2>1. /\ UNCHANGED <<transport, call, wrapped, token>>
        /\ pc' = [pc EXCEPT ![t] = "returned"]
    BY <1>7 DEF DoUnsigned, GiveUp, Answer, RefuseToken, Return
  <2> QED BY <1>0, <2>1 DEF ChainInv
<1>8. ASSUME NEW t \in Threads, Done(t) PROVE ChainInv'
  <2>1. /\ UNCHANGED <<transport, wrapped>> /\ pc'[t] = "idle"
        /\ \A u \in Threads \ {t} : pc'[u] = pc[u] /\ call'[u] = call[u] /\ token'[u] = token[u]
    BY <1>0, <1>8 DEF Done
  <2> QED BY <2>1 DEF ChainInv
<1> QED
  BY <1>2, <1>3, <1>4, <1>5, <1>6, <1>7, <1>8 DEF Next, CallStep

LEMMA TypesHold == Spec => [](Types /\ Inv /\ ChainInv)
<1>1. Init => Types /\ ChainInv
  <2> SUFFICES ASSUME Init PROVE Types /\ ChainInv
    OBVIOUS
  <2>1. session = 1 /\ 1 \in 1..MaxSession
    BY HttpAssumption DEF Init, HttpAssumption
  <2>2. NoToken \in Tokens /\ NoToken.by = "nobody"
    BY <2>1 DEF NoToken, Tokens
  <2>3. <<>> \in Seq(0..session) /\ 0 \in 0..session
    BY <2>1
  <2>4. Types
    BY <2>1, <2>2, <2>3 DEF Init, Types, TypeOK, KeysOK
  <2>5. ChainInv
    BY DEF Init, ChainInv
  <2> QED BY <2>4, <2>5
<1>2. Types /\ Inv /\ ChainInv /\ [Next]_vars => Types' /\ ChainInv'
  BY StepType, StepChain DEF Types
<1> QED BY <1>1, <1>2, InitInv, NextKeepsInv, PTL DEF Spec

\* Every variable of HttpClient has its type, for any goroutines, calls,
\* rotations and chain of transports.
THEOREM ClientTypes == Spec => []TypeOK
<1>1. Types => TypeOK
  BY DEF Types
<1> QED BY <1>1, TypesHold, PTL

\* No request leaves with a token of an empty key, and none that a user or the
\* API key is to sign leaves without a token, whatever transports were wrapped
\* before the key was set.
THEOREM NothingUnsigned == Spec => []NeverUnsigned
<1>1. Types /\ Inv /\ ChainInv => NeverUnsigned
  <2> SUFFICES ASSUME Types, Inv, ChainInv, NEW t \in Threads,
                      pc[t] = "sent", call[t].auth \in {"own", "api_key"}
               PROVE  token[t].by # "nobody"
    BY DEF NeverUnsigned, Types, KeysOK
  <2>1. CASE call[t].auth = "own"
    <3>1. token[t] = OwnToken(user[t], call[t].sends) \/ token[t].by = "transport"
      BY <2>1 DEF Inv, One, TokenOK
    <3> QED BY <3>1 DEF OwnToken
  <2>2. CASE call[t].auth = "api_key"
    BY <2>2 DEF ChainInv
  <2> QED BY <2>1, <2>2
<1> QED BY <1>1, TypesHold, PTL
=============================================================================
