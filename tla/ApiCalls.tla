------------------------------ MODULE ApiCalls ------------------------------
(***************************************************************************)
(* The functions that make one request of an API each, as a table: what    *)
(* the token of the call signs, what the call then sends, and what it      *)
(* makes of each answer.  Parts of a path that are arguments are written   *)
(* :arg.  A query is the set of its parameters, with every optional one    *)
(* given; a body is the JSON of the call or none.                          *)
(***************************************************************************)
EXTENDS CallErrors

Message(method, path, query, body) ==
  [method |-> method, path |-> path, query |-> query, body |-> body]

Get(path) == Message("GET", path, {}, FALSE)
List(path, query) == Message("GET", path, query, FALSE)
Post(path) == Message("POST", path, {}, TRUE)
PostEmpty(path) == Message("POST", path, {}, FALSE)

\* How a call tells an error of Request ("internal" or "as_is"), and what it
\* answers for an answer that cannot be decoded and for one that is an error.
Style(told, garbled, refused) ==
  [told |-> told, garbled |-> garbled, refused |-> refused]

Wrapped == Style("internal", "bad_data", "same")
Plain == Style("as_is", "bad_data", "same")
Raw == Style("as_is", "decode", "same")

\* auth tells where the token comes from: "own", made for the SafeUser of the
\* call; "none", an empty one; "api_key", none but the transport's; "computer",
\* another client altogether.
Call(name, auth, signs, sends, style) ==
  [name |-> name, auth |-> auth, signs |-> signs, sends |-> sends, style |-> style]

Own(name, message, style) == Call(name, "own", message, message, style)
\* The path is written twice, or built twice from the arguments.
Twice(name, signs, sends, style) == Call(name, "own", signs, sends, style)
Public(name, message, style) == Call(name, "none", message, message, style)
ApiKey(name, message, style) == Call(name, "api_key", message, message, style)
Computer(name, message, style) == Call(name, "computer", message, message, style)

-----------------------------------------------------------------------------
(* Users and credentials *)

UserCalls == {
  ApiKey("CreateUserSimple", Post("/users"), Wrapped),
  Twice("CreateUser", Post("/users"), Post("/users"), Wrapped),
  Own("GetUser", Get("/users/:id"), Wrapped),
  Own("GetUsers", Post("/users/fetch"), Wrapped),
  Own("SearchUser", Get("/search/:query"), Wrapped)}

MeCalls == {
  Twice("UpdatePin", Post("/pin/update"), Post("/pin/update"),
        Style("internal", "internal", "same")),
  Twice("RequestUserMe", Get("/safe/me"), Get("/safe/me"), Wrapped),
  Own("UpdateUserMe", Post("/me"), Wrapped),
  Own("UpdatePreference", Post("/me/preferences"), Wrapped),
  Own("Relationship", Post("/relationships"), Wrapped)}

PinCalls == {
  Own("VerifyPIN", Post("/pin/verify"), Plain),
  Own("VerifyPINTip", Post("/pin/verify"), Plain)}

RegisterCalls == {
  Twice("RegisterSafeBareUser", Post("/safe/users"), Post("/safe/users"), Raw),
  Twice("RegisterSafe", Post("/safe/users"), Post("/safe/users"), Raw)}

UpgradeCalls == {Public("UpgradeLegacyUser", Post("/legacy/users"), Wrapped)}
SessionCalls == {Own("FetchUserSession", Post("/sessions/fetch"), Wrapped)}
TipCalls == {Public("GetTipNodeByPath", Get("/external/tip/:path"), Wrapped)}
AppCalls == {Own("Migrate", Post("/apps/:uid/transfer"), Plain)}

\* An error that is neither 401 nor 403 is told as an internal one.
Mapped == Style("as_is", "decode", "mapped")

OAuthCalls == {Public("OAuthGetAccessToken", Post("/oauth/token"),
                      Style("internal", "bad_data", "mapped"))}

-----------------------------------------------------------------------------
(* Conversations and messages *)

ConversationCalls == {
  Twice("createConversation", Post("/conversations"), Post("/conversations"), Mapped),
  Twice("ConversationShow", Get("/conversations/:id"), Get("/conversations/:id"),
        Style("as_is", "decode", "mapped404"))}

ParticipantCalls == {
  Own("JoinConversation", PostEmpty("/conversations/:id/join"), Mapped),
  Own("RotateConversation", PostEmpty("/conversations/:id/rotate"), Mapped),
  Own("UpdateParticipants", Post("/conversations/:id/participants/:action"), Mapped)}

MessageCalls == {
  Twice("PostMessageRequest", Post("/messages"), Post("/messages"), Raw),
  Twice("PostMessages", Post("/messages"), Post("/messages"), Raw),
  Own("PostAcknowledgements", Post("/acknowledgements"), Raw)}

AttachmentCalls == {
  Twice("CreateAttachment", PostEmpty("/attachments"), PostEmpty("/attachments"), Raw),
  Twice("AttachmentShow", Get("/attachments/:id"), Get("/attachments/:id"), Raw)}

TurnCalls == {Twice("GetTurnServer", Get("/turn"), Get("/turn"), Wrapped)}

-----------------------------------------------------------------------------
(* Money *)

\* Mutant: the token is made for the path without its query.
ListOutputsSignsPath ==
  Twice("ListOutputs", Get("/safe/outputs"),
        List("/safe/outputs", {"members", "threshold", "limit", "offset", "asset", "state"}),
        Plain)

\* The calls SendTransaction makes, in order.
ListOutputs ==
  Own("ListOutputs",
      List("/safe/outputs", {"members", "threshold", "limit", "offset", "asset", "state"}),
      Plain)
RequestSafeGhostKeys == Own("RequestSafeGhostKeys", Post("/safe/keys"), Wrapped)
VerifyRawTransaction ==
  Own("VerifyRawTransaction", Post("/safe/transaction/requests"), Wrapped)
SendRawTransaction == Own("SendRawTransaction", Post("/safe/transactions"), Wrapped)

PaymentCalls ==
  {ListOutputs, RequestSafeGhostKeys, VerifyRawTransaction, SendRawTransaction}

\* A request that is not found is told as no request.
TransactionCalls == {
  Own("GetTransactionByIdWithSafeUser", Get("/safe/transactions/:id"),
      Style("as_is", "bad_data", "none404")),
  Public("GetTransactionById", Get("/safe/transactions/:id"),
         Style("as_is", "bad_data", "none404"))}

OutputCalls == {Own("GetOutput", Get("/safe/outputs/:id"), Wrapped)}

AssetCalls == {
  Own("ReadAssetFee", List("/safe/assets/:id/fees", {"destination"}), Wrapped),
  Own("FetchAssets", Post("/safe/assets/fetch"), Raw)}

DepositCalls == {Own("CreateDepositEntry", Post("/safe/deposit/entries"), Wrapped)}
PendingDepositCalls == {Public("FetchPendingSafeDeposits", Get("/safe/deposits"), Wrapped)}

AddressCalls == {
  Twice("CreateAddress", Post("/addresses"), Post("/addresses"), Plain),
  Own("ReadAddress", Get("/addresses/:id"), Plain),
  Own("DeleteAddress", Post("/addresses/:id/delete"), Plain),
  Own("GetAddressesByAssetId", Get("/assets/:id/addresses"), Plain),
  Public("CheckAddress",
         List("/external/addresses/check", {"asset", "destination", "tag"}), Wrapped)}

SafeSnapshotQuery == {"limit", "app", "asset", "offset", "opponent"}

SnapshotCalls == {
  Twice("SafeSnapshots", List("/safe/snapshots", SafeSnapshotQuery),
        List("/safe/snapshots", SafeSnapshotQuery), Raw),
  Twice("SafeSnapshotById", Get("/safe/snapshots/:id"), Get("/safe/snapshots/:id"), Raw),
  Own("SafeNotifySnapshot", Post("/safe/snapshots/notifications"), Raw)}

SnapshotQuery == {"limit", "offset", "asset", "order"}

LegacySnapshotCalls == {
  Twice("Snapshots", List("/snapshots", SnapshotQuery),
        List("/snapshots", SnapshotQuery), Raw),
  Twice("SnapshotById", Get("/snapshots/:id"), Get("/snapshots/:id"), Raw),
  Own("SnapshotByTraceId", Get("/snapshots/trace/:id"), Raw)}

NetworkSnapshotCalls == {
  Public("NetworkSnapshot", Get("/network/snapshots/:id"), Raw),
  Public("NetworkSnapshots", List("/network/snapshots", SnapshotQuery), Raw),
  Own("NetworkSnapshotsByToken", List("/network/snapshots", SnapshotQuery), Raw)}

MultisigListCalls == {
  Own("ReadMultisigsLegacy", List("/multisigs", {"limit", "offset"}), Wrapped),
  Own("ReadMultisigs",
      List("/multisigs/outputs", {"limit", "offset", "members", "threshold", "state"}),
      Wrapped)}

MultisigCalls == {
  Own("CreateMultisig", Post("/multisigs/requests"), Wrapped),
  Own("SignMultisig", Post("/multisigs/requests/:id/sign"), Wrapped),
  Own("CancelMultisig", PostEmpty("/multisigs/requests/:id/cancel"), Wrapped),
  Own("UnlockMultisig", Post("/multisigs/requests/:id/unlock"), Wrapped)}

SafeMultisigCalls == {
  Own("CreateSafeMultisigRequest", Post("/safe/multisigs"), Raw),
  Own("FetchSafeMultisigRequest", Get("/safe/multisigs/:id"), Raw)}

\* The answer of the kernel is given to the caller as it is.
KernelCalls == {
  Twice("CallKernelRPC", Post("/external/kernel"), Post("/external/kernel"),
        Style("as_is", "none", "in_answer"))}

-----------------------------------------------------------------------------
(* What anybody may read *)

FiatCalls == {
  ApiKey("GetFiats", Get("/external/fiats"), Wrapped),
  Public("Fiats", Get("/external/fiats"), Wrapped)}

NetworkCalls == {
  Public("ReadNetworkAssets", Get("/network"), Raw),
  Public("ReadNetworkAssetsTop", Get("/network/assets/top"), Raw)}

NetworkAssetCalls == {
  Public("ReadAsset", Get("/network/assets/:id"), Raw),
  Public("ReadAssetTickerWithOffset", List("/network/ticker", {"asset", "offset"}), Raw),
  Public("ReadAssetTicker", List("/network/ticker", {"asset"}), Raw),
  Public("AssetSearch", Get("/network/assets/search/:name"), Raw)}

ChainCalls == {
  Public("ReadNetworkChainById", Get("/network/chains/:id"), Raw),
  Public("ReadNetworkChains", Get("/network/chains"), Raw)}

CodeCalls == {Public("ReadCode", Get("/codes/:id"), Wrapped)}

InscriptionCalls == {
  Public("ReadCollection", Get("/safe/inscriptions/collections/:hash"), Raw),
  Public("ReadInscription", Get("/safe/inscriptions/items/:hash"), Raw),
  Public("ReadCollectionItems", Get("/safe/inscriptions/collections/:hash/items"), Raw)}

\* The computer's answers hold their own error.  Two calls leave it there, the
\* list of assets has no room for one, and the deployment reads no answer.
ComputerReads == {
  Computer("GetComputerInfo", Get("/"), Wrapped),
  Computer("GetComputerUser", Get("/users/:addr"), Style("internal", "bad_data", "none404")),
  Computer("GetComputerDeployedAssets", Get("/deployed_assets"),
           Style("internal", "bad_data", "bad_data")),
  Computer("GetComputerSystemCall", Get("/system_calls/:id"),
           Style("internal", "bad_data", "none404"))}

\* ComputerDeployExternalAsset is called for assets of other chains: it refuses
\* one of Solana before any request.
ComputerWrites == {
  Computer("ComputerDeployExternalAsset", Post("/deployed_assets"),
           Style("internal", "none", "unread")),
  Computer("LockComputerNonceAccount", Post("/nonce_accounts"),
           Style("internal", "bad_data", "in_answer")),
  Computer("GetFeeOnXINBasedOnSOL", Post("/fee"),
           Style("internal", "bad_data", "in_answer"))}

Table ==
  UNION {UserCalls, MeCalls, PinCalls, RegisterCalls, UpgradeCalls, SessionCalls,
         TipCalls, AppCalls, OAuthCalls, ConversationCalls, ParticipantCalls,
         MessageCalls, AttachmentCalls, TurnCalls, PaymentCalls, TransactionCalls,
         OutputCalls, AssetCalls, DepositCalls, PendingDepositCalls, AddressCalls,
         SnapshotCalls, LegacySnapshotCalls, NetworkSnapshotCalls, MultisigListCalls,
         MultisigCalls, SafeMultisigCalls, KernelCalls, FiatCalls, NetworkCalls,
         NetworkAssetCalls, ChainCalls, CodeCalls, InscriptionCalls, ComputerReads,
         ComputerWrites}

-----------------------------------------------------------------------------
(* What a call makes of what comes back *)

\* Mutant: the calls that map codes map the others to nothing.
RefusedForgotten(style, code) ==
  IF style.refused \in {"mapped", "mapped404"} /\ code \in {"invalid", "locked"}
  THEN "none" ELSE code

\* An error answer, by the style of the call.
Refused(style, code) ==
  CASE style.refused = "same" -> code
    [] style.refused = "mapped" ->
         IF code \in {"unauthorized", "forbidden"} THEN code ELSE "internal"
    [] style.refused = "mapped404" ->
         IF code \in {"unauthorized", "forbidden", "not_found"} THEN code ELSE "internal"
    [] style.refused = "none404" -> IF code = "not_found" THEN "none" ELSE code
    [] style.refused = "bad_data" -> "bad_data"
    [] style.refused \in {"in_answer", "unread"} -> "none"

\* Mutant: what http tells of a request that got no answer is not looked at.
FailedAsAnswered(style, answer) == answer

\* What Request does with a request that gives no answer, and with a status of
\* 500 or more, which is an internal error before and after it is wrapped.
Failed(style, answer) ==
  IF answer = "fault" \/ style.told = "internal" THEN "internal"
  ELSE CASE answer = "lost" -> "timeout"
         [] answer = "broken" -> "io"
         [] answer = "unsigned" -> "unsigned"

\* The outcome of a call: "none" stands for nil.
Outcome(style, answer) ==
  CASE answer = "ok" -> "none"
    [] answer \in {"fault", "lost", "broken", "unsigned"} -> Failed(style, answer)
    [] answer = "garbled" -> style.garbled
    [] answer \in Codes -> Refused(style, answer)
=============================================================================
