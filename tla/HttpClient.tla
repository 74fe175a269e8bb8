----------------------------- MODULE HttpClient -----------------------------
(***************************************************************************)
(* The one http client all calls of a program share: request.go, the       *)
(* transports SimpleRequest wraps around each other (transport.go,         *)
(* authenticator.go) and the tokens of auth.go, for goroutines that make   *)
(* the calls of ApiCalls.                                                  *)
(*                                                                         *)
(* A session is a number; the user, the session id and the private key of  *)
(* one session have its number, and zero is an empty string.  The server   *)
(* is external: it knows one session, which the app's owner may rotate,    *)
(* and takes a token that is made for it, with its key, for the very       *)
(* request it comes with.                                                  *)
(***************************************************************************)
EXTENDS ApiCalls, Naturals, Sequences, SequencesExt

CONSTANTS
  Threads,     \* goroutines that make calls
  Performs,    \* the calls each of them makes
  MaxSession,  \* how often the owner rotates the session
  MaxWraps     \* how many transports SimpleRequest wraps

ASSUME HttpAssumption ==
  /\ Performs \in [Threads -> SUBSET Table]
  /\ MaxSession \in Nat \ {0} /\ MaxWraps \in Nat

VARIABLES
  session,     \* the session the server knows
  sid, privateKey, configuring,  \* the globals of WithAPIKey, and if it is half done
  transport,   \* the keys of the transports of httpClient, the innermost first
  pc, call,    \* where each goroutine is, in which call
  user,        \* the session of the SafeUser it gave to the call
  wrapped,     \* the transport SimpleRequest made and has not stored yet
  token,       \* the token of the request
  executed,    \* the server has carried the request out
  result       \* what the call returned, "none" for nil

globals == <<sid, privateKey, configuring, transport>>
threadVars == <<pc, call, user, wrapped, token, executed, result>>
vars == <<session, globals, threadVars>>

NoToken == [by |-> "nobody", sid |-> 0, key |-> 0, signs |-> Get("")]
NoCall == Public("", Get(""), Raw)

Init ==
  /\ session = 1
  /\ sid = 0 /\ privateKey = 0 /\ configuring = FALSE
  /\ transport = <<>>
  /\ pc = [t \in Threads |-> "idle"]
  /\ call = [t \in Threads |-> NoCall]
  /\ user = [t \in Threads |-> 0]
  /\ wrapped = [t \in Threads |-> <<>>]
  /\ token = [t \in Threads |-> NoToken]
  /\ executed = [t \in Threads |-> FALSE]
  /\ result = [t \in Threads |-> "none"]

-----------------------------------------------------------------------------
(* The session and the program's configuration *)

Rotate ==
  /\ session < MaxSession
  /\ session' = session + 1
  /\ UNCHANGED <<globals, threadVars>>

\* WithAPIKey assigns the globals one after the other, without a lock.
SetSid ==
  /\ ~configuring /\ sid # session
  /\ sid' = session /\ configuring' = TRUE
  /\ UNCHANGED <<session, privateKey, transport, threadVars>>

SetKey ==
  /\ configuring
  /\ privateKey' = sid /\ configuring' = FALSE
  /\ UNCHANGED <<session, sid, transport, threadVars>>

-----------------------------------------------------------------------------
(* Tokens *)

\* SignAuthenticationToken for a SafeUser of session s.
OwnToken(s, message) == [by |-> "own", sid |-> s, key |-> s, signs |-> message]

\* BuildJWT of a transport with a key: the session id is the global one, and
\* the path is signed without its query.
BuildJWT(key, message) ==
  [by |-> "transport", sid |-> sid, key |-> key, signs |-> [message EXCEPT !.query = {}]]

\* Mutant: the length of the private key is not looked at.
UnsignableUnchecked == FALSE

\* A transport with no key makes no token.
Unsignable == \E i \in 1..Len(transport) : transport[i] = 0

\* The transports sign one after the other, each over the token before it.
RoundTrip(message, given) ==
  IF transport = <<>> THEN given ELSE BuildJWT(Head(transport), message)

-----------------------------------------------------------------------------
(* A call *)

\* The user's token is made; a call without one leaves it empty.
Begin(t, c) ==
  /\ pc[t] = "idle" /\ c \in Performs[t] /\ c.auth # "api_key"
  /\ pc' = [pc EXCEPT ![t] = "do"]
  /\ call' = [call EXCEPT ![t] = c]
  /\ user' = [user EXCEPT ![t] = IF c.auth = "own" THEN session ELSE 0]
  /\ token' = [token EXCEPT ![t] =
                 IF c.auth = "own" THEN OwnToken(session, c.signs) ELSE NoToken]
  /\ UNCHANGED <<session, globals, wrapped, executed, result>>

\* SimpleRequest makes a transport around the one it finds.
BeginSimple(t, c) ==
  /\ pc[t] = "idle" /\ c \in Performs[t] /\ c.auth = "api_key"
  /\ Len(transport) < MaxWraps
  /\ pc' = [pc EXCEPT ![t] = "wrap"]
  /\ call' = [call EXCEPT ![t] = c]
  /\ wrapped' = [wrapped EXCEPT ![t] = Append(transport, privateKey)]
  /\ UNCHANGED <<session, globals, user, token, executed, result>>

Wrap(t) ==
  /\ pc[t] = "wrap"
  /\ transport' = wrapped[t]
  /\ wrapped' = [wrapped EXCEPT ![t] = <<>>]
  /\ pc' = [pc EXCEPT ![t] = "do"]
  /\ UNCHANGED <<session, sid, privateKey, configuring, call, user, token, executed, result>>

Return(t, answer) ==
  /\ pc' = [pc EXCEPT ![t] = "returned"]
  /\ result' = [result EXCEPT ![t] = Outcome(call[t].style, answer)]

\* The computer has a client of its own, whose transport is never wrapped.
Do(t) ==
  /\ pc[t] = "do"
  /\ call[t].auth = "computer" \/ ~Unsignable
  /\ pc' = [pc EXCEPT ![t] = "sent"]
  /\ token' = [token EXCEPT ![t] = IF call[t].auth = "computer" THEN @
                                   ELSE RoundTrip(call[t].sends, @)]
  /\ UNCHANGED <<session, globals, call, user, wrapped, executed, result>>

DoUnsigned(t) ==
  /\ pc[t] = "do"
  /\ call[t].auth # "computer" /\ Unsignable
  /\ Return(t, "unsigned")
  /\ UNCHANGED <<session, globals, call, user, wrapped, token, executed>>

-----------------------------------------------------------------------------
(* The server, external *)

NeedsToken(c) == c.auth = "own" \/ c.name = "CreateUserSimple"

Authentic(t) ==
  token[t].sid = session /\ token[t].key = session /\ token[t].signs = call[t].sends

\* A request that is carried out; one refused; one that fails half way, or
\* whose answer is not what the client can read.  What it can read holds the
\* data or an error.
Answer(t) ==
  /\ pc[t] = "sent"
  /\ NeedsToken(call[t]) => Authentic(t)
  /\ \/ /\ executed' = [executed EXCEPT ![t] = TRUE]
        /\ Return(t, "ok")
     \/ /\ \E code \in IF NeedsToken(call[t]) THEN Codes \ {"unauthorized"} ELSE Codes :
             Return(t, code)
        /\ UNCHANGED executed
     \/ \E done \in BOOLEAN, answer \in {"fault", "garbled"} :
          /\ executed' = [executed EXCEPT ![t] = done]
          /\ Return(t, answer)
  /\ UNCHANGED <<session, globals, call, user, wrapped, token>>

RefuseToken(t) ==
  /\ pc[t] = "sent"
  /\ NeedsToken(call[t]) /\ ~Authentic(t)
  /\ Return(t, "unauthorized")
  /\ UNCHANGED <<session, globals, call, user, wrapped, token, executed>>

-----------------------------------------------------------------------------

\* Mutant: the client has no timeout.
GiveUpNever(t) == FALSE

\* The client's ten seconds are over, or the connection breaks.
GiveUp(t) ==
  /\ pc[t] = "sent"
  /\ Return(t, "lost") \/ Return(t, "broken")
  /\ \E done \in IF NeedsToken(call[t]) /\ ~Authentic(t) THEN {FALSE} ELSE BOOLEAN :
       executed' = [executed EXCEPT ![t] = done]
  /\ UNCHANGED <<session, globals, call, user, wrapped, token>>

Done(t) ==
  /\ pc[t] = "returned"
  /\ pc' = [pc EXCEPT ![t] = "idle"]
  /\ call' = [call EXCEPT ![t] = NoCall]
  /\ user' = [user EXCEPT ![t] = 0]
  /\ token' = [token EXCEPT ![t] = NoToken]
  /\ executed' = [executed EXCEPT ![t] = FALSE]
  /\ result' = [result EXCEPT ![t] = "none"]
  /\ UNCHANGED <<session, globals, wrapped>>

CallStep(t) ==
  Wrap(t) \/ Do(t) \/ DoUnsigned(t) \/ GiveUp(t)

Next ==
  \/ Rotate \/ SetSid \/ SetKey
  \/ \E t \in Threads :
       \/ \E c \in Performs[t] : Begin(t, c) \/ BeginSimple(t, c)
       \/ CallStep(t) \/ Answer(t) \/ RefuseToken(t) \/ Done(t)

\* The goroutines run and the client's timer goes off.  The server need not
\* answer, and nobody need make another call.
Fairness == \A t \in Threads : WF_vars(CallStep(t))

Spec == Init /\ [][Next]_vars
FairSpec == Spec /\ Fairness

-----------------------------------------------------------------------------
(* Properties *)

Tokens == [by : {"nobody", "own", "transport"}, sid : 0..session, key : 0..session,
           signs : {c.signs : c \in Table} \cup
                   {[c.sends EXCEPT !.query = {}] : c \in Table} \cup {Get("")}]

\* Every variable has its type: every call returns nil or an error its callers
\* can tell.
TypeOK ==
  /\ session \in 1..MaxSession
  /\ sid \in 0..session /\ privateKey \in 0..session /\ configuring \in BOOLEAN
  /\ transport \in Seq(0..session)
  /\ pc \in [Threads -> {"idle", "wrap", "do", "sent", "returned"}]
  /\ \A t \in Threads : call[t] \in Performs[t] \cup {NoCall}
  /\ user \in [Threads -> 0..session]
  /\ wrapped \in [Threads -> Seq(0..session)]
  /\ token \in [Threads -> Tokens]
  /\ executed \in [Threads -> BOOLEAN]
  /\ result \in [Threads -> CallError \cup {"none"}]

\* No request leaves with a token made with an empty key, whatever SimpleRequests
\* wrapped before the API key was set: the client fails them itself, for good.
NeverUnsigned ==
  \A t \in Threads :
    /\ token[t].by # "nobody" => token[t].key # 0
    /\ pc[t] = "sent" /\ call[t].auth \in {"own", "api_key"} => token[t].by # "nobody"

\* A call with a SafeUser of the server's session is refused for its token only
\* if a transport has signed over it: the token each function makes is for the
\* method, the path and the body it then sends.
RefusedOnlyIfResigned ==
  \A t \in Threads :
    result[t] = "unauthorized" /\ call[t].auth = "own" =>
      token[t].by = "transport" \/ user[t] # session

\* A call that returns nil has been carried out, whatever was lost, failed or
\* answered on the way.  Not so for the calls that take an error for nothing
\* found, for those whose error the caller has to look for in the answer, and
\* for ComputerDeployExternalAsset, which does not read it.
NilMeansExecuted ==
  \A t \in Threads :
    pc[t] = "returned" /\ result[t] = "none" =>
      executed[t] \/ call[t].style.refused \in {"none404", "in_answer", "unread"}

\* A call of SendTransaction that was carried out and does not say so returns an
\* error that CheckRetryableError knows, so that the payment is made again with
\* its trace, as long as the answer could be read.  ListOutputs changes nothing
\* and is left out: it tells a broken connection as it is.
PaymentErrorsTold ==
  \A t \in Threads :
    executed[t] /\ call[t] \in PaymentCalls \ {ListOutputs} =>
      result[t] \in {"none", "bad_data"} \/ CheckRetryableError(result[t])

\* Every call returns, although no call hands its context to the client: the
\* client's own timeout ends it.
EveryCallReturns ==
  \A t \in Threads : pc[t] \in {"wrap", "do", "sent"} ~> pc[t] = "returned"

\* "this key is used for all authentication of messenger api": a request made
\* for a SafeUser is authenticated with its own session.
SessionKeyAuthenticates ==
  \A t \in Threads :
    pc[t] = "sent" /\ call[t].auth = "own" =>
      token[t].sid = user[t] /\ token[t].key = user[t]
=============================================================================
