# A TLA+ model of bot-api-go-client

The library is the Go client of Mixin bots. A bot receives messages over one
websocket (`blaze.go`) and moves money by asking Mixin's sequencer to verify and
accept raw transactions it signs itself (`transaction.go`, `withdrawal.go`).
Everything else is one HTTP request per function. This directory holds the
specifications of the parts that have state, the TLC runs over them, and proofs of
the properties that matter most.

## The system

| Component | State | Operations | Talks to |
|---|---|---|---|
| Blaze client (`blaze.go`) | `messageContext`: the map of hooks, `readBuffer`, `writeBuffer`, `readDone`, `writeDone`; the global `blazeUri`; the connection | `Loop`, the `Send…` methods, `readPump`, `writePump`, `writeMessageAndWait`, `parseMessage` | the blaze server, the bot's listener |
| Payments (`transaction.go`, `output.go`, `object.go`) | none of its own: the wallet's outputs and the request of each trace id are the sequencer's | `SendTransaction` and its variants: list outputs, build, verify, sign, send | the sequencer over HTTP |
| Callers that retry (`monitor/report.go`, `SendTransactionUntilSufficient`, `cli/transfer.go`) | the trace id | retry by the text or the type of an error | payments |
| Withdrawals (`withdrawal.go`) | none | choose a fee, build two linked transactions, send both | payments, sequencer |
| Balances (`asset.go`) | offset and filter of a page loop | `AssetBalance…`, `ListAssetWithBalance` | sequencer |
| HTTP client (`request.go`, `transport.go`, `authenticator.go`, `auth.go`, `error.go`) | globals `httpClient`, `uid`, `sid`, `privateKey`, `httpUri` | `Request`, `SimpleRequest`, `WithAPIKey`, `Migrate` | every endpoint |
| Bot authentication (`botauth.go`, `session.go`) | a cache of shared keys by user | `SignRequest` | `/sessions/fetch` |
| Registration and PIN (`safe_user.go`, `user.go`, `pin.go`, `tip.go`) | the server's | `RegisterSafeWithSetupPin`, `UpdatePin` | two endpoints in order |
| Codecs (`mix.go`, `invoice.go`, `url_scheme.go`, `message.go`) | none | encode and decode | |
| API calls (the rest) | none | sign, request, decode, map the error | one endpoint each |

What is hard to test here: three goroutines per connection that end each other
through two channels of capacity one; answers that come after their caller has
given up; a listener slower than the server; a connection that breaks between a
message and its acknowledgement; a payment that is retried without knowing whether
the first attempt arrived; two payments after the same outputs. `PROJECT.json`
lists each such place with its line under `hazards`, and the properties that cover it.

What makes the components correct:

- **Blaze**: an answer reaches the call that asked or nobody, and never the
  listener; the listener's messages are the server's pushes without a gap; READ is
  only said of what was handled; every call returns; a dead connection ends all three
  goroutines; what the server holds for the bot is handled in the end.
- **Payments**: one transaction per trace, of the exact amount, whatever is retried,
  lost, late or restarted; nobody is told of a payment that was not made; the bot does
  not panic on what comes back; a payment the wallet can make is made in the end.
- **HTTP client and API calls**: a call signs what it then sends; a request is refused
  for its token only if something else has signed over it; nil means done; a payment's
  call that may have been carried out says so or returns an error that is retried;
  every call returns.
- **Raw transactions and codecs**: the least prefix of outputs that pays; a change split
  that adds up; limits that limit; what is written is read back as it was written.
- **Withdrawals**: no fee without its withdrawal, nor for another attempt at it; both in
  the end, for a caller that retries.
- **Balances**: nothing that was there all the time is missed, nothing is counted twice.
- **Keys**: a PIN or a registration is of a seed the operator has; what is half registered
  can be completed; a request to another bot is signed with a key that bot accepts.

## The modules

| Module | Models | Extends or instantiates |
|---|---|---|
| `Blaze`, `MCBlaze`, `BlazeProofs`, `BlazeFeedProofs` | `blaze.go` | `BlazeFeed` (refinement) |
| `Sums` | how amounts are added up and outputs listed | |
| `RawTransaction`, `RawTransactionProofs` | how `transaction.go` and `withdrawal.go` choose inputs and divide change | `Sums` |
| `SafeTransfer`, `MCSafeTransfer`, `SafeTransferProofs` | `SendTransaction` and its callers | `RawTransaction`, `ApiCalls`, `Purse` (refinement) |
| `Withdrawal`, `WithdrawalProofs` | `withdrawal.go` with a fee in another asset | `RawTransaction`, `ApiCalls` |
| `BalancePaging` | the page loops of `asset.go` | `Sums` |
| `Wallet`, `MCWallet` | a withdrawal and a balance over one wallet | `Withdrawal`, `BalancePaging` |
| `CallErrors`, `ApiCalls` | the table of HTTP functions and what they make of errors | |
| `HttpClient`, `MCHttpClient`, `HttpClientProofs` | the shared client and its credentials | `ApiCalls` |
| `Registration`, `BotAuthCache`, `MCCredentials`, `CredentialsProofs` | commands that set PINs and register; `SignRequest` | |
| `Codecs`, `KernelTransaction`, `MCAlgorithms`, `AlgorithmsProofs` | pure functions: addresses, invoices, encrypted messages, outputs made for the kernel | `Sums`, `RawTransaction` |

**Blaze.** Each `Loop` is a session, `1..MaxLoop`; a session has three goroutines,
`loop[s]`, `readPump[s]` and `writePump[s]`, whose values name the statement each stands
at. `call[t]` is the `writeMessageAndWait` a thread is blocked in (a `Loop` or a sender of
its own), and `attempt` is the list of all requests: the index is the uuid, the element
the request's JSON text and the channel `resp` of its hook. `transactions`, `readBuffer`,
`writeBuffer`, `readDone`, `writeDone` are the fields of `messageContext`, one set per
client (`Client(s)`: a client for each `Loop` as in `examples/blaze`, or one for all).
Actions are the branches of each `select` and the returns of each loop:
`EnqueueRequest/EnqueueTimeout`, `WaitAnswer/WaitTimeout/WaitRetry` for the two selects of
`writeMessageAndWait`; `LoopTake`, `LoopReadDone`, `LoopHandle…` for `Loop`; `ReadAnswer`,
`ReadIgnored`, `ReadMessage`, `PushMessage`, `PushTimeout` for `parseMessage`; `EndRead`
and the two `Signal…` for the deferred function of `readPump`; `WriteData`, `WriteError`,
`PingError`, `WriteDone` for `writePump`. A `select` with a timer that has fired and a
channel that has just become ready may take either branch; taking the timer is the same as
having taken it just before the channel became ready, so a timeout is enabled while the
channel is not ready and at any moment of that time. A frame that cannot be decoded ends
`readPump` as a broken connection does; `readPump` may also find an error on a connection
that is still open, which only then is closed. The network and the server are external: each
direction is a queue that a break empties, and the server pushes a message on every
connection that listed, until it is told that it is READ. A host whose dial times out
(`TimeoutHosts`) makes `connectMixinBlaze` switch to the default. `FeedIsPrefix` counts: the
k-th message the listener is given on a connection is the k-th one for the bot that the
server pushed on it (`IsNthForBot`).

`BlazeFeed` is what the client promises about messages: only what the server has is
handled, and it becomes read only after it was handled. `Blaze` implements it, with the
server's status of each message and the set of handled ones as the mapping
(`ImplementsFeed`).

**RawTransaction** holds the algorithms as operators on sequences of amounts in the
smallest unit: `SelectOutputs`, `SelectFeeOutputs`, `ChangeParts`, `ExtraAccepted`. **Sums**
holds what they and the other modules count with, as recursive functions: `Totals` and
`Total`, `SumAt` (the amounts at some indices), and `InOrder` and `Listed`, a page of a set
of outputs.

**SafeTransfer.** A worker's `pc` stands at the call it makes next: `lookup` (the workers in
`Lookers` look their trace up before every attempt, as `ReportToMonitor` and `transferCSV`
do), `start` (list the outputs and build), `verify`, `send`; `ok`, `exists`, `failed` and
`panic` are the ways it ends. Signing changes nothing but the transaction and
belongs to the step that verifies; the ghost keys are derived from the trace and belong to
the step that builds. `request[p]` is the sequencer's request for a trace and `outputs` the
wallet, both external: a verification replaces a request that is not signed; a signature is
accepted if its transaction is the one verified last and its inputs are unspent; a trace
that is signed is answered with what is signed. `late` holds calls whose caller gave up
before they arrived. `Retry` is the caller: `CheckRetryableError`, or the type test of
`SendTransactionUntilSufficient`. What a lost call tells is `Outcome` of the call's row in
`ApiCalls`. `Purse` is what paying promises: a set of payments made and a balance.
`SafeTransfer` implements it with the signed traces as the payments made and, as the
balance, the unspent outputs together with the change that is not yet settled
(`ImplementsPurse`): a signature is `Pay`, everything else but a deposit stutters. The
balance is written output by output (`Purses`): one that is spent has the change of the
transaction that spent it, if it is the first input of it and the change is not yet there
(`Holding`).

**Withdrawal.** `withdrawalTransaction` builds two transactions, one in each asset, the
second with the hash of the first among its references, and verifies and sends both in one
call each. `pc` stands at `quote` (asset and fees, of which each attempt is given one anew), `asset` and `fee` (each lists its
outputs and builds), `verify`, `send`. Only the state of the first is looked at, as in the
code. Whether the sequencer takes the two of a call or each on its own cannot be told from
the client, so `together` is either, chosen at the beginning; what refers to a transaction
is taken only after it. Another program may spend the wallet's outputs meanwhile.

**BalancePaging** is the loop over pages with its `offset` and `filter` (a map of seen
outputs). A page is a sequence of indices; a total gains what the outputs of a page that are
not in the filter are worth (`Added`, `WorthIn`), and the offset moves to the last of them
(`NextOffset`). The wallet it reads is a variable it does not own: **Wallet** instantiates it over
the `outputs` that `Withdrawal` moves, so that outputs are spent and change arrives between
two pages. Whether a page begins at its offset or after it is the server's, and either may
happen at each page.

**ApiCalls** is the library's HTTP functions as a table: each row says where its token
comes from, what the token signs, what the call sends (method, path, query, whether there
is a body) and its `Style`, what it makes of an error of `Request`, of an answer it cannot
decode and of an error in the answer. A function that writes its path or builds its query
twice has two messages, which may differ; one that uses one variable has one. `Outcome` is
the end of every such function. `CallErrors` names the errors and holds
`CheckRetryableError`.

**HttpClient** is the client all of them share. `transport` is the chain of transports in
`httpClient`, the innermost first, each known by the key it was made with; `sid` and
`privateKey` are the globals, which `WithAPIKey` assigns in two steps (`SetSid`, `SetKey`).
A call is `Begin` (its own token) or `BeginSimple` and `Wrap` (read the client's transport,
then store the one around it), then `Do`: each transport signs over the token before it, so
the innermost is the last, with its own key and the global session id; one with an empty
key fails the request (`DoUnsigned`). The calls of `computer.go` use another client. The
server is external: `Rotate`, `Answer`, `RefuseToken`; `GiveUp` is the client's timeout or a
broken connection, before or after the server carried the request out.

**Registration** is the operator of the command line, one command at a time:
`create_register_safe_bare_user` (create, set the PIN, register), `update_pin`,
`register_safe_bare_user`, `migrate`, `register`, each with the calls it makes. A
command that sets a PIN or registers takes the keystore's key or, with `--spend`, any seed
the operator has; what the operator has is what was logged. Any call may be lost, carried out without an answer, or
arrive after its command has ended. The server takes a PIN from a user without one and a
registration signed with that PIN.

**BotAuthCache** is `SignRequest` from several goroutines: look into the cache, fetch the
peer's session, derive, put. The cache is `NewMapCache`'s, gone with the process, or one that
outlives it and may fail (`persistent`). Peers rotate their sessions and the bot may come
back with another of its own. `first` records the sessions the first key of a peer was
derived from; it is not in the code and only `PeerAccepts` reads it.

**Codecs** puts each writer beside its reader: mix addresses, invoices (with the cost of
storage), and the layout of a message for several sessions. **KernelTransaction** is the
outputs of a payment made from a kernel account and of a mint distribution.

Each `MC…` module gives a specification its wallets, messages and senders for TLC; the
`.cfg` of a run has the bounds. `MCAlgorithms` runs the pure modules, one computation per
behaviour, over every small input; `MCCredentials` runs `Registration` or `BotAuthCache`,
which share no state.

## The runs

| Run | Question | Bounds | Result |
|---|---|---|---|
| `blaze_calls` | do answers find their callers, and only them; is the listener's feed in order and without a gap; does every call return and every dead connection end its goroutines | one Loop, a concurrent sender, a backlog of three messages (one a receipt) pushed in order, acknowledgements that fail once, refusals, buffers of one, a server that may fall silent | holds |
| `blaze_reuse` | what is still true when one client serves all Loops | three Loops, the first of which cannot connect; two messages (one of an ignored action) | holds; no deadlock check |
| `blaze_liveness` | is every message handled in the end | two Loops, one message, failing handlers, one request of Loop answered with an error and made again, a fair server | holds |
| `algorithms` | are inputs, change, addresses, invoices, encrypted messages and kernel outputs right for every small input | wallets of three outputs of up to five units; splits of up to four or 256 parts; addresses of 1 to 256 members; invoices of two entries around each limit; three sessions; shares of up to six recipients | holds |
| `transfer` | are payments made once, exactly and in the end, and does a caller that looks first learn of it | two payments of 2 and 3 from outputs 1, 2, 3; a deposit; two faults (timeout, lost answer, crash), late calls | holds |
| `wallet` | do a withdrawal and its fee stay together; does a balance read meanwhile add up | one withdrawal of 3 with a fee of 1 or 2, quoted anew by each attempt, over four outputs; one fault, one output spent by another program; pages of two | holds |
| `credentials` | are all keys known to the operator and can what is half done be completed; does the cache keep keys that are accepted | two users of which one is legacy, two keys, one fault; two goroutines, two peers, a rotation of each | holds |
| `api_calls` | does every call sign what it sends, tell the truth and return, while the client changes under it | one goroutine makes every call, one makes SimpleRequests; one rotation, a chain of at most one transport | holds |
| `session_key` | is a SafeUser's request authenticated with its own key | the same bounds, but two calls instead of all | violated |
| `withdrawal_fee_outputs` | is a fee refused only for want of outputs | two outputs | violated |
| `large_extra` | is a long extra refused | | violated |
| `transfer_until_sufficient` | does `SendTransactionUntilSufficient` wait | one short wallet | violated |

The four violations are findings: the code does something else than the comment or
message quoted with each in `PROJECT.json`.

Why the bounds are enough. In Blaze the buffers have capacity one, so that both fill:
one message in the buffer, one in the hand of the pump and a third on the wire are all
that `parseMessage` can tell apart. `Failing` names the actions the server answers with an error of
its own, which `writeMessageAndWait` repeats under another id, and `Refusable` the ones it
refuses with a 403, which it does not repeat. In `blaze_calls` the acknowledgements of the
receipt may fail while the pump that would bring the answer waits for the Loop that
waits for it; the backlog is there at the beginning and pushed in its order (`BacklogSpec`, `PushedInOrder`), the
receipt between two messages for the bot. Two Loops make a message be pushed twice. In `blaze_reuse` the
first of three dials fails, so that two Loops share the tokens and buffers that are left
behind. In `transfer` both payments pick the outputs 1 and 2 first, so that one of them
always loses its inputs and has to be built again from the third or from the other's
change; two faults let a call arrive after the next attempt, or a process die after it was
paid. In `wallet` either asset can be paid from other outputs once one is spent, so that a
retry may build other transactions than the ones on their way, for another fee too, and the
two outputs of the asset with the change of one fill a page of two and begin the next. In
`credentials` two keys let one be lost in a creation and the other be set, or one set by a
call that arrives late and the other tried in vain. The sizes of `algorithms` are the limits of
the formats themselves and their neighbours. In `api_calls` the bound on
wraps is read before the wrap, so that two goroutines may both make a transport
around the same one; a second transport adds nothing to what the innermost signs, and one
rotation makes old and new keys meet.

`blaze_reuse` does not check deadlock: with one client for several Loops the token that
`readPump` leaves in `writeDone` when `writePump` has already gone blocks the next
`readPump` for ever. That is the behaviour of the code and is listed as a hazard. The
inputs of `algorithms` are one step each and stop there, and the operator of `credentials`
has nothing to do when everybody is registered. In every other passing run the deadlock
check is on, and finds goroutines that wait for one another: `Terminated` (`Rest` in
`Wallet`) only allows to stop when all of them have ended.

Fairness. Go schedules every goroutine that can run and every timer fires: weak fairness
of each goroutine's steps, timeouts among them. In `Blaze` that is `ClientFairness`;
`readPump` is not made to read from a connection that is open and silent.
`CallsReturn` and `DeadConnectionEndsAll` rest on it alone and hold of a server that never
answers. `MessageHandled` also needs `ServerFairness`: a server reached over an open
connection answers and pushes. The kernel settles what is signed. Nothing obliges a connection to
break, a handler to fail, a call to time out, a deposit or a late call to arrive.
Every request of the http client ends by its timeout, whether the server answers or not.
`MessageHandled` assumes a server that does not refuse LIST_PENDING_MESSAGES: a 403
counts as success in `writeMessageAndWait`, and Loop would wait for ever. The errors a
server answers with are bounded by `MaxErrors`: the code retries each without bound.
`BalanceReturns` assumes a server that goes on answering, since the page loops retry every
error at once and without end. `EventuallyWithdrawn` is stated for a sequencer that takes
the two transactions of a call together: otherwise a withdrawal whose fee was refused alone
is never completed by a retry, which stops at the first's state. `RecoversInTheEnd` assumes
an operator who keeps running the commands for every user and tries every logged seed:
strong fairness of each user's two steps, since other commands come between them.

## What is proved

Every theorem is for all values of the constants its module assumes (`BlazeAssumption`,
`TransferAssumption`, `WithdrawalAssumption`, `HttpAssumption`, `RegistrationAssumption`,
`BotAuthAssumption`, `SizesAssumption`), and rests on nothing else unless it says so.

`BlazeProofs.tla`, for any number of Loops, senders and messages and any capacities:

- `TypeCorrect`: `[]TypeOK`, the invariant that the others start from;
- `HooksNeverBlock`: `[]HookNeverBlocks`. The strengthening says that ids grow, that each
  belongs to one client and that a hook and its answer are never both there;
- `ReadAfterHandled`: `[]ReadOnlyAfterHandled`, which no run checks on its own since
  `ImplementsFeed` contains it. The invariant follows the acknowledgement
  from `OnMessage` through the request, `writeBuffer` and the wire: each request that
  acknowledges a message is about one that was handled (`AckInv`);
- `NilIsAnswered`: `[]NilMeansAnswered`. `FlightInv` says that an answer on the wire
  was made by the server that executed or refused its request, `RespInv` says the same of
  an answer in `resp`.

`BlazeFeedProofs.tla` adds what needs the place of each request and frame (`ListenerInv`):

- `AnswersAreKept`: `[]AnswersStayOut`. `TripInv` says that a request is at one place at a
  time, in its caller, in `writeBuffer`, on the wire to the server or as an answer on the
  way back, and has its hook in the map all that time. So the answer finds the hook, which
  is taken out only by it: a caller that gives up leaves it there;
- `FeedImplemented`: `ImplementsFeed`, the refinement of `BlazeFeed`. `FeedInv` says that the
  frames without an id are pushes of messages the server has, in every queue they pass, so
  that what is handled is one of them; with `AckInv`, what becomes READ was handled. Every
  other action leaves both alone;
- `FeedInOrder`: `[]FeedIsPrefix`, if every `Loop` has a client of its own (`FreshClient`): a
  client that is used again hands the messages left in its `readBuffer` to the next `Loop`.
  `OrderInv` gives each push a place. What the listener has seen, `readBuffer`, the message
  in the hand of `readPump` and the frames on the wire follow one another, and the k-th
  place holds the k-th push for the bot (`Places`). A step moves the head of one of them to
  the end of the one before, so that no place changes (`SeenPlaced`, `BufferPlaced`,
  `HandPlaced`); a push appends to the last, an answer was in none of them
  (`HandedIsPush`), and only an end empties them;
- `HooksHaveCallers`: `[]HookHasCaller`. A call that owns a hook loses it only to its answer:
  another attempt is made after one (`StepOwns`), and Loop makes a call only when it is in
  none (`FreeInv`).
- `SignalsAlways`: `[]SignalsKept`, if every `Loop` has a client of its own: `readPump` never
  blocks on `writeDone` or `readDone`, and a goroutine of the connection that has not ended
  when `readPump` has finds the token that ends it. This is the safety part of
  `DeadConnectionEndsAll`, which adds that the ones that can go on do. `Told` says which
  tokens can be left, and who is still to take each, whichever of the three ends first
  (`Ending`, `StepTold`). Without a client of its own it is false: a token that one
  connection left in `writeDone` blocks the `readPump` of the next, which is why
  `blaze_reuse` does not check deadlock.

`RawTransactionProofs.tla` is about the pure operators. Their sums and lists are recursive
functions, and what they compute for a sequence of any length is an induction over its
indices. `Induction` states it for a set (one that has 0, and with each natural the next,
has them all), which needs no operator as a parameter: `TotalsOf` (the
totals are what their equation says), `TakenIs` (the loop stops at the first total that is
enough), `SelectedWorth` and `SelectedLeast` (the inputs are worth the amount and the
change, and one fewer would not do), `InOrderIs` and `ListedIs` (a list of a set of outputs
is in order and has the first of them; `InOrderOnly`: it is the only one that is), and
`SelectedFeeWorth`, that the inputs of a fee are worth it although the loop that takes them
stops at another amount.

`AlgorithmsProofs.tla` draws from it every property that `algorithms` checks, each from a
lemma or theorem that is for inputs of any size:

- `SelectionAlways`: `[]SelectionIsLeast`;
- `SplitAlways`: `[]SplitKeepsChange`. The recursion that hands the change out has a solution
  that reaches the change for the first time with the last part (`SplitIs`, `StepsAdd`);
- `AddressesReadBack`: `[]AddressReadsBack`, from `AddressRoundTrip`, which is for any members;
- `KernelAmountsAlways`: `[]KernelAmountsAddUp`, from `PaidAddsUp` and `MintAddsUp`, which are
  for any total and any shares. Dividing by ten thousand loses less than a unit for each
  recipient (`DividedTotal`), so up to five of them lose at most the four units that the
  last is given;
- `SessionsAlways`: `[]EverySessionReads`, from `ReadsFirst`: for up to 65535 sessions, a reader
  gets a text that is not empty if and only if the first session of its id was given its
  key; an empty text and none look alike to it, as in the code. A session
  is at the place the reader looks at, and nothing else is (`StartIs`, `MessageIs`);
- `InvoicesReadBack`: `[]InvoiceReadsBack`, from `InvoiceRoundTrip`, which is for any entries
  that refer to earlier ones: references are written by kind and told apart again, each kind
  in its order (`ReferencesRoundTrip`). That entries do refer to earlier ones is what the
  calls that build an invoice make sure of (`BuiltIs`, by induction over the calls).

The inputs of that run are the hypotheses of these six theorems; the sizes of wallets and
amounts among them are constants (`MaxLen`, `MaxAmount`).

`SafeTransferProofs.tla`, for any wallet, payments, faults and deposits:

- `ToldIsPaid`: `[]ToldMeansPaid`, for any number of workers per trace: signed requests
  keep their transaction (`Kept`), a step that tells a worker something new looks at the
  request it is about, and a step that tells nothing keeps what was told (`Untold`);
- `TransferTypes` and `PaymentsExact`: `[]TypeOK` and `[]PaidExactly`. The invariant
  (`PayInv`) says of every transaction there is, built, recorded or on its way, that its
  inputs are worth its amount and its change, that it names an output once, and that what
  is signed owns its inputs. Outputs are only added and keep their amounts (`Grows`), which
  keeps all of that true (`StillPays`);
- `NeverPanics`: `[]NoPanic`, if each trace has one worker (`OneWorkerEach`; with two it is
  false). `sendTransaction` panics when what comes back is not what it sent, so the claim
  is that no other transaction of the trace gets signed between its verification and its
  signature. Each was built from the first unspent outputs of some moment, and those that
  were before them are spent for good (`FirstOf`, `StillFirst`); so two transactions of a
  payment that are both still free to be sent are the same one (`FreeAlike`). The invariant
  (`PanicInv`) says that every call on its way either is the one the worker sends or has
  lost an input. That the list is cut at `ListLimit` does not matter, since both are
  prefixes of what is unspent;
- `TransferImplementsPurse`: `ImplementsPurse`, the refinement of `Purse`, for any number of
  workers per trace. `PayInv` says that a transaction is worth its amount and change; it is
  accepted only if its inputs are unspent, so that what the wallet has falls by just the
  amount (`AcceptTakes`, which needs that no input is named twice), and the change that is
  settled is had by an output of its own instead (`SettleMoves`). The sums are changed at
  one index or at those of a set (`TotalChanged`, `SumAtUnion`).

`WithdrawalProofs.tla`, for any wallet, workers, amounts, faults and late calls, with a
sequencer that takes the two transactions of a call together or each on its own:
`WithdrawalTypes`, `FeeIsTied`, `ToldIsWithdrawn` and `WithdrawalsExact`, which are
`[]TypeOK`, `[]FeeFollows`, `[]ToldMeansWithdrawn` and `[]WithdrawnExactly`, whichever of
any set of fees each attempt is quoted. The invariant
(`WithdrawalInv`) says of both transactions of every attempt, in a worker's hands
(`WorkersInv`), on their way (`LateInv`) or at the sequencer (`RequestsInv`), that they are
worth what they pay, and of the fee that it refers to the withdrawal it was built with. A
fee is taken only after what it refers to, and a request that is signed keeps its
transaction, so the two stay together whichever attempt's calls arrive first. Which
transaction it refers to is known by its inputs; that the inputs of two attempts may be
equal only makes them the same transaction. `NothingIsTakenBack` is the action property
beneath: no step takes back or alters what is signed (`Kept`), and outputs are only added
and spent (`Grows`).

The same module proves of `Wallet`, where a balance is read meanwhile, with any page size
above one and pages that begin at the offset or after it:

- `ReadingIsApart`: `SpecWallet => Spec`, so that all of the above holds of `Wallet` too;
- `NoOutputIsMissed` and `NoOutputIsCountedTwice`: `[]NothingMissed` and `[]CountedOnce`. The
  invariant (`ReadingInv`) says that a function that reads has counted every output up to its
  offset that is to be listed, and nothing beyond it. That is kept because an output that is
  spent does not come back and a new one comes after all others (`Grows`), and because a
  page begins no later than after the offset. That pages have room for more than one is
  assumed (`PagingAssumption`): with one, a list that begins at its offset would ask for
  the same output for ever.

`HttpClientProofs.tla` proves `OwnTokenIsTaken`, `NilIsExecuted`, `PaymentsAreTold`,
`ClientTypes` and `NothingUnsigned`, which are `[]RefusedOnlyIfResigned`,
`[]NilMeansExecuted`, `[]PaymentErrorsTold`, `[]TypeOK` and `[]NeverUnsigned`, for any goroutines and calls, any number of rotations and any chain of
transports. First every row of the table is shown to sign what it sends and to have a style `Outcome` knows
(`TableRows`); then what each kind of answer is told as (`FailedIsError`, `RefusedIsTold`,
`GarbledIsTold`, `PaymentIsTold`). The invariant adds that the token of a user's call is the
user's own for the message sent, or a transport's (`TokenOK`), and that a call knows
nothing before it returns (`Unknown`); every way to return is one lemma, `ReturnKeepsInv`.

`CredentialsProofs.tla`:

- `LoggedBeforeSent`: `RegSpec => []KeysLoggedFirst`. The invariant adds that the command
  that runs and every call on its way carry a logged seed; a PIN is set once, so that a
  registration keeps the key it was proved with;
- `AcceptedByPeers`: `BotSpec => []PeerAccepts`. `KeysBetween` says that each key, cached or
  in a goroutine's hands, is of its peer and of sessions not older than the ones the first
  key was made with and not newer than today's; if those are the same there is one key.

Only model-checked: the liveness properties, since fairness and ENABLED are out of the
prover's reach: `CallsReturn`, `DeadConnectionEndsAll`, `MessageHandled`, `EveryCallReturns`,
`EventuallyPaid`, `LookersLearn`, `EventuallyWithdrawn`, `BalanceReturns`, `RecoversInTheEnd`.
Every invariant of a passing run and both refinements are theorems.

## What is not modelled

Signatures, ghost keys, tokens, ciphers and the bytes of messages; the payloads of the
`Send…` methods; printing and flags of the commands; the fields of the answers of API
calls; the tables of chains; URL schemes; the memos and extras `computer.go` builds, which
nothing in the repository reads. The functions that take a token made elsewhere send what
their row of the table sends. Two clients that race for `blazeUri`, and the uid that
`Migrate` takes from the API key, are not modelled. Of a payment, references, outputs named
by the caller and the making of the trace are left: `ReportToMonitor` puts the minute into
its trace, so a retry in the next minute is another payment. Which fee of the server's list
a withdrawal picks is left to its quote; of an empty list the code picks none and reads it
all the same (`withdrawal.go:43`). `MapCache` is a map without a lock, which the runtime may
notice; the cache is taken as atomic. That the dial host switches is modelled, and no
property of its own is about it. The keystore of `register` needs the 64-byte key of the seed
in place of the seed; it is taken as put there by the operator.

## The plan

1. Done: `Blaze`, `BlazeFeed`, `RawTransaction`, `SafeTransfer`, `ApiCalls`, `HttpClient`
   and their first proofs.
2. Done: `Withdrawal`, `BalancePaging`, `Wallet`, `Codecs`, `KernelTransaction`,
   `Registration`, `BotAuthCache`, `Purse`; the exactness of payments, `NoPanic`, and the
   proofs about keys and selection.
3. Done: the proofs of `Withdrawal`, of the refinement of `BlazeFeed` and of the pure
   operators for inputs of any size.
4. Done: the refinement of `Purse`, the order of the listener's messages, the balance that
   is read page by page, and the codecs for inputs of any size.
5. Left: the safety parts of the other liveness properties (`SignalsAlways` is the first),
   what a step may undo and what it may not; liveness itself stays with TLC.
