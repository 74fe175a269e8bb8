------------------------------- MODULE Blaze -------------------------------
(***************************************************************************)
(* The websocket client of blaze.go: BlazeClient.Loop, its read and write  *)
(* pumps, the calls that wait for an answer (writeMessageAndWait) and the  *)
(* dispatch of incoming frames (parseMessage and the transactions map).    *)
(*                                                                         *)
(* A session is one call of Loop; the program makes them one after the     *)
(* other.  A sender is another goroutine calling one of the Send methods.  *)
(* Either is a thread: what writeMessageAndWait blocks.  The uuid of a     *)
(* request is its index in attempt, whose element stands for the JSON text *)
(* and for the channel resp its hook closes over.                          *)
(*                                                                         *)
(* The network and the server are external: they are what the client may   *)
(* meet, a connection that delivers each direction in order until it       *)
(* breaks and a server that keeps a message until it is marked READ.       *)
(***************************************************************************)
EXTENDS Naturals, Sequences, FiniteSets

CONSTANTS
  MaxLoop,       \* how many times the program calls Loop
  FreshClient,   \* a new client for every Loop, as examples/blaze does, or one for all
  Senders,       \* goroutines that make one Send call each
  Messages,      \* what the server may have for the bot
  Kind,          \* "message", "receipt", or "other" for an action the client ignores
  SyncAck,       \* what the listener's SyncAck answers
  ReadCap, WriteCap,  \* capacities of readBuffer and writeBuffer (102400 each)
  Refusable,     \* the actions the server may refuse with code 403
  Failing,       \* the actions it may answer with another error, retryable
  MaxErrors,     \* how many times it does
  TimeoutHosts   \* the hosts whose dial ends in a timeout

Sessions == 1..MaxLoop
Threads == Sessions \cup Senders
Hosts == {"configured", "default"}
Actions == {"LIST_PENDING_MESSAGES", "ACKNOWLEDGE_MESSAGE_RECEIPT",
            "CREATE_MESSAGE", "OTHER"}

ASSUME BlazeAssumption ==
  /\ MaxLoop \in Nat \ {0}
  /\ Senders \cap Sessions = {}
  /\ Messages \cap Threads = {}
  /\ Kind \in [Messages -> {"message", "receipt", "other"}]
  /\ {FreshClient, SyncAck} \subseteq BOOLEAN
  /\ ReadCap \in Nat \ {0}
  /\ WriteCap \in Nat \ {0}
  /\ MaxErrors \in Nat
  /\ Refusable \subseteq Actions
  /\ Failing \subseteq Actions
  /\ TimeoutHosts \subseteq Hosts

VARIABLES
  blazeUri,      \* the host the next dial goes to
  \* messageContext, one per client; a client is named by its first session
  transactions,  \* the ids whose hook is in the tmap
  readDone, writeDone,       \* tokens in the two channels of capacity 1
  readBuffer, writeBuffer,   \* frames for the listener, ids to be written
  \* the goroutines
  loop,          \* where each Loop is
  msg,           \* the frame Loop took from readBuffer
  readPump,      \* where each readPump is
  hand,          \* the frame parseMessage is about to push into readBuffer
  writePump,
  call,          \* the writeMessageAndWait each thread is in
  attempt,       \* every request made so far, by id
  \* the network and the server
  conn, up, down,
  listed,        \* the connections that asked for the pending messages
  pushed,        \* what the server pushed on each connection, in order
  status,        \* what the server knows of each message
  executed,      \* the requests the server carried out
  errors,        \* retryable errors answered so far
  \* what the listener saw
  seen,          \* the messages passed to it in each session, in order
  handled        \* the messages it returned nil for

mcVars == <<transactions, readDone, writeDone, readBuffer, writeBuffer>>
serverVars == <<listed, pushed, status, executed, errors>>
listenerVars == <<seen, handled>>
vars == <<blazeUri, mcVars, loop, msg, readPump, hand, writePump, call,
          attempt, conn, up, down, serverVars, listenerVars>>

Client(s) == IF FreshClient THEN s ELSE 1

Codes == {"none", "ok", "error", "forbidden"}
Frame == [id : Nat, action : Actions, arg : Messages \cup Threads, code : Codes]
Attempt == [client : Sessions, action : Actions, arg : Messages \cup Threads,
            resp : Codes]
NoFrame == [id |-> 0, action |-> "OTHER", arg |-> 1, code |-> "none"]
Idle == [st |-> "idle", id |-> 0]

\* The frame that pushes message m: its id is the server's own.  The action of
\* the frame and the Source of its message are one field here: parseMessage
\* tells frames apart by the first, Loop receipts by the second.
PushFrame(m) ==
  [id |-> 0, arg |-> m, code |-> "none",
   action |-> CASE Kind[m] = "message" -> "CREATE_MESSAGE"
                [] Kind[m] = "receipt" -> "ACKNOWLEDGE_MESSAGE_RECEIPT"
                [] OTHER               -> "OTHER"]

\* The frame that answers request id.
AnswerFrame(id, code) ==
  [id |-> id, action |-> attempt[id].action, arg |-> attempt[id].arg, code |-> code]

Init ==
  /\ blazeUri = "configured"
  /\ transactions = [c \in Sessions |-> {}]
  /\ readDone = [c \in Sessions |-> 0]
  /\ writeDone = [c \in Sessions |-> 0]
  /\ readBuffer = [c \in Sessions |-> <<>>]
  /\ writeBuffer = [c \in Sessions |-> <<>>]
  /\ loop = [s \in Sessions |-> "off"]
  /\ msg = [s \in Sessions |-> NoFrame]
  /\ readPump = [s \in Sessions |-> "off"]
  /\ hand = [s \in Sessions |-> NoFrame]
  /\ writePump = [s \in Sessions |-> "off"]
  /\ call = [t \in Threads |-> Idle]
  /\ attempt = <<>>
  /\ conn = [s \in Sessions |-> "none"]
  /\ up = [s \in Sessions |-> <<>>]
  /\ down = [s \in Sessions |-> <<>>]
  /\ listed = {}
  /\ pushed = [s \in Sessions |-> <<>>]
  /\ status \in [Messages -> {"absent", "pending"}]
  /\ executed = {}
  /\ errors = 0
  /\ seen = [s \in Sessions |-> <<>>]
  /\ handled = {}

-----------------------------------------------------------------------------
(* writeMessageAndWait: a fresh id, its hook put in the map, a push into    *)
(* writeBuffer and a wait for the answer, each with a timeout of 3 seconds. *)

Register(t, c, action, arg) ==
  LET id == Len(attempt) + 1
  IN /\ attempt' = Append(attempt, [client |-> c, action |-> action,
                                    arg |-> arg, resp |-> "none"])
     /\ transactions' = [transactions EXCEPT ![c] = @ \cup {id}]
     /\ call' = [call EXCEPT ![t] = [st |-> "enqueue", id |-> id]]

EnqueueRequest(t) ==
  LET c == attempt[call[t].id].client
  IN /\ call[t].st = "enqueue"
     /\ Len(writeBuffer[c]) < WriteCap
     /\ writeBuffer' = [writeBuffer EXCEPT ![c] = Append(@, call[t].id)]
     /\ call' = [call EXCEPT ![t].st = "wait"]
     /\ UNCHANGED <<blazeUri, transactions, readDone, writeDone, readBuffer,
                    loop, msg, readPump, hand, writePump, attempt, conn, up,
                    down, serverVars, listenerVars>>

\* The hook stays in the map when the caller gives up, here and below.
EnqueueTimeout(t) ==
  LET c == attempt[call[t].id].client
  IN /\ call[t].st = "enqueue"
     /\ Len(writeBuffer[c]) = WriteCap
     /\ call' = [call EXCEPT ![t].st = "err"]
     /\ UNCHANGED <<blazeUri, mcVars, loop, msg, readPump, hand, writePump,
                    attempt, conn, up, down, serverVars, listenerVars>>

\* Mutant: the caller that gives up also removes its hook.
WaitTimeoutForgets(t) ==
  /\ call[t].st = "wait"
  /\ attempt[call[t].id].resp = "none"
  /\ call' = [call EXCEPT ![t].st = "err"]
  /\ transactions' = [c \in Sessions |-> transactions[c] \ {call[t].id}]
  /\ UNCHANGED <<blazeUri, readDone, writeDone, readBuffer, writeBuffer, loop,
                 msg, readPump, hand, writePump, attempt, conn, up, down,
                 serverVars, listenerVars>>

\* Mutant: the wait for the answer has no timeout.
WaitTimeoutNever(t) == FALSE

WaitTimeout(t) ==
  /\ call[t].st = "wait"
  /\ attempt[call[t].id].resp = "none"
  /\ call' = [call EXCEPT ![t].st = "err"]
  /\ UNCHANGED <<blazeUri, mcVars, loop, msg, readPump, hand, writePump,
                 attempt, conn, up, down, serverVars, listenerVars>>

\* Mutant: any answer ends the call with nil.
WaitAnswerAny(t) ==
  /\ call[t].st = "wait"
  /\ attempt[call[t].id].resp # "none"
  /\ call' = [call EXCEPT ![t].st = "ok"]
  /\ UNCHANGED <<blazeUri, mcVars, loop, msg, readPump, hand, writePump,
                 attempt, conn, up, down, serverVars, listenerVars>>

\* An answer without an error, or with code 403, ends the call with nil.
WaitAnswer(t) ==
  /\ call[t].st = "wait"
  /\ attempt[call[t].id].resp \in {"ok", "forbidden"}
  /\ call' = [call EXCEPT ![t].st = "ok"]
  /\ UNCHANGED <<blazeUri, mcVars, loop, msg, readPump, hand, writePump,
                 attempt, conn, up, down, serverVars, listenerVars>>

\* Any other error: the same request is made again, under a new id.
WaitRetry(t) ==
  LET a == attempt[call[t].id]
  IN /\ call[t].st = "wait"
     /\ a.resp = "error"
     /\ Register(t, a.client, a.action, a.arg)
     /\ UNCHANGED <<blazeUri, readDone, writeDone, readBuffer, writeBuffer,
                    loop, msg, readPump, hand, writePump, conn, up, down,
                    serverVars, listenerVars>>

\* One of the Send methods, on some client, from a goroutine of its own.  A
\* method that refuses its arguments (a payload that does not marshal, too many
\* buttons) returns before anything of the client changes: no call is made.
Send(x) ==
  /\ call[x].st = "idle"
  /\ \E s \in Sessions : Register(x, Client(s), "CREATE_MESSAGE", x)
  /\ UNCHANGED <<blazeUri, readDone, writeDone, readBuffer, writeBuffer,
                 loop, msg, readPump, hand, writePump, conn, up, down,
                 serverVars, listenerVars>>

-----------------------------------------------------------------------------
(* Loop *)

\* The program calls Loop again once the call before has returned.
Turn(s) == loop[s] = "off" /\ \A r \in 1..(s - 1) : loop[r] = "returned"

\* connectMixinBlaze succeeds, the pumps start and the pending messages are
\* asked for.
LoopConnect(s) ==
  /\ Turn(s)
  /\ blazeUri \notin TimeoutHosts
  /\ conn' = [conn EXCEPT ![s] = "open"]
  /\ writePump' = [writePump EXCEPT ![s] = "run"]
  /\ readPump' = [readPump EXCEPT ![s] = "read"]
  /\ loop' = [loop EXCEPT ![s] = "list"]
  /\ Register(s, Client(s), "LIST_PENDING_MESSAGES", s)
  /\ UNCHANGED <<blazeUri, readDone, writeDone, readBuffer, writeBuffer, msg,
                 hand, up, down, serverVars, listenerVars>>

\* A dial that fails ends Loop; a timeout also resets the host for good.
LoopDialError(s) ==
  /\ Turn(s)
  /\ blazeUri' \in (IF blazeUri \in TimeoutHosts THEN {"default"} ELSE {blazeUri})
  /\ loop' = [loop EXCEPT ![s] = "returned"]
  /\ UNCHANGED <<mcVars, msg, readPump, hand, writePump, call, attempt, conn,
                 up, down, serverVars, listenerVars>>

\* Loop returns: the deferred Close cuts the connection.
Return(s) ==
  /\ loop' = [loop EXCEPT ![s] = "returned"]
  /\ conn' = [conn EXCEPT ![s] = "closed"]

\* The call Loop is in has returned nil: it goes back to its select.
LoopCallOk(s) ==
  /\ loop[s] \in {"list", "ack"}
  /\ call[s].st = "ok"
  /\ loop' = [loop EXCEPT ![s] = "select"]
  /\ call' = [call EXCEPT ![s] = Idle]
  /\ UNCHANGED <<blazeUri, mcVars, msg, readPump, hand, writePump, attempt,
                 conn, up, down, serverVars, listenerVars>>

LoopCallError(s) ==
  /\ loop[s] \in {"list", "ack"}
  /\ call[s].st = "err"
  /\ Return(s)
  /\ UNCHANGED <<blazeUri, mcVars, msg, readPump, hand, writePump, call,
                 attempt, up, down, serverVars, listenerVars>>

LoopReadDone(s) ==
  LET c == Client(s)
  IN /\ loop[s] = "select"
     /\ readDone[c] = 1
     /\ readDone' = [readDone EXCEPT ![c] = 0]
     /\ Return(s)
     /\ UNCHANGED <<blazeUri, transactions, writeDone, readBuffer, writeBuffer,
                    msg, readPump, hand, writePump, call, attempt, up, down,
                    serverVars, listenerVars>>

LoopTake(s) ==
  LET c == Client(s)
  IN /\ loop[s] = "select"
     /\ readBuffer[c] # <<>>
     /\ msg' = [msg EXCEPT ![s] = Head(readBuffer[c])]
     /\ readBuffer' = [readBuffer EXCEPT ![c] = Tail(@)]
     /\ seen' = [seen EXCEPT ![s] = Append(@, Head(readBuffer[c]).arg)]
     /\ loop' = [loop EXCEPT ![s] = "handle"]
     /\ UNCHANGED <<blazeUri, transactions, readDone, writeDone, writeBuffer,
                    readPump, hand, writePump, call, attempt, conn, up, down,
                    serverVars, handled>>

IsReceipt(f) == f.action = "ACKNOWLEDGE_MESSAGE_RECEIPT"

\* OnAckReceipt, or OnMessage of a listener that does not acknowledge.
LoopHandle(s) ==
  /\ loop[s] = "handle"
  /\ IsReceipt(msg[s]) \/ ~SyncAck
  /\ handled' = handled \cup {msg[s].arg}
  /\ loop' = [loop EXCEPT ![s] = "select"]
  /\ UNCHANGED <<blazeUri, mcVars, msg, readPump, hand, writePump, call,
                 attempt, conn, up, down, serverVars, seen>>

\* OnMessage returned nil: the message is acknowledged as READ.
LoopHandleAndAck(s) ==
  /\ loop[s] = "handle"
  /\ ~IsReceipt(msg[s]) /\ SyncAck
  /\ handled' = handled \cup {msg[s].arg}
  /\ loop' = [loop EXCEPT ![s] = "ack"]
  /\ Register(s, Client(s), "ACKNOWLEDGE_MESSAGE_RECEIPT", msg[s].arg)
  /\ UNCHANGED <<blazeUri, readDone, writeDone, readBuffer, writeBuffer, msg,
                 readPump, hand, writePump, conn, up, down, serverVars, seen>>

\* Mutant: the message is acknowledged whatever OnMessage returned.
LoopHandleErrorAcks(s) ==
  /\ loop[s] = "handle"
  /\ loop' = [loop EXCEPT ![s] = "ack"]
  /\ Register(s, Client(s), "ACKNOWLEDGE_MESSAGE_RECEIPT", msg[s].arg)
  /\ UNCHANGED <<blazeUri, readDone, writeDone, readBuffer, writeBuffer, msg,
                 readPump, hand, writePump, conn, up, down, serverVars,
                 listenerVars>>

\* Mutant: an error of the listener is swallowed and Loop goes on.
LoopHandleErrorSwallowed(s) ==
  /\ loop[s] = "handle"
  /\ loop' = [loop EXCEPT ![s] = "select"]
  /\ UNCHANGED <<blazeUri, mcVars, msg, readPump, hand, writePump, call,
                 attempt, conn, up, down, serverVars, listenerVars>>

LoopHandleError(s) ==
  /\ loop[s] = "handle"
  /\ Return(s)
  /\ UNCHANGED <<blazeUri, mcVars, msg, readPump, hand, writePump, call,
                 attempt, up, down, serverVars, listenerVars>>

-----------------------------------------------------------------------------
(* readPump and parseMessage *)

\* The pump returns: its deferred function closes the connection, then sends
\* on writeDone, then on readDone.  What was not read is gone.
EndRead(s) ==
  /\ readPump' = [readPump EXCEPT ![s] = "writeDone"]
  /\ conn' = [conn EXCEPT ![s] = "closed"]
  /\ down' = [down EXCEPT ![s] = <<>>]

\* Mutant: retrieve does not delete the hook.
ReadAnswerKeepsHook(s) ==
  LET f == Head(down[s])
  IN /\ readPump[s] = "read" /\ down[s] # <<>>
     /\ f.id \in transactions[Client(s)]
     /\ attempt' = [attempt EXCEPT ![f.id].resp = f.code]
     /\ down' = [down EXCEPT ![s] = Tail(@)]
     /\ UNCHANGED <<blazeUri, mcVars, loop, msg, readPump, hand, writePump,
                    call, conn, up, serverVars, listenerVars>>

\* retrieve finds the hook and takes it out of the map; the hook fills resp,
\* or would time out on a full one and end the pump.
ReadAnswer(s) ==
  LET c == Client(s)
      f == Head(down[s])
  IN /\ readPump[s] = "read" /\ down[s] # <<>>
     /\ f.id \in transactions[c]
     /\ transactions' = [transactions EXCEPT ![c] = @ \ {f.id}]
     /\ IF attempt[f.id].resp = "none"
        THEN /\ attempt' = [attempt EXCEPT ![f.id].resp = f.code]
             /\ down' = [down EXCEPT ![s] = Tail(@)]
             /\ UNCHANGED <<readPump, conn>>
        ELSE EndRead(s) /\ UNCHANGED attempt
     /\ UNCHANGED <<blazeUri, readDone, writeDone, readBuffer, writeBuffer,
                    loop, msg, hand, writePump, call, up, serverVars,
                    listenerVars>>

ForListener(f) == f.action \in {"CREATE_MESSAGE", "ACKNOWLEDGE_MESSAGE_RECEIPT"}

ReadIgnored(s) ==
  /\ readPump[s] = "read" /\ down[s] # <<>>
  /\ Head(down[s]).id \notin transactions[Client(s)]
  /\ ~ForListener(Head(down[s]))
  /\ down' = [down EXCEPT ![s] = Tail(@)]
  /\ UNCHANGED <<blazeUri, mcVars, loop, msg, readPump, hand, writePump, call,
                 attempt, conn, up, serverVars, listenerVars>>

ReadMessage(s) ==
  /\ readPump[s] = "read" /\ down[s] # <<>>
  /\ Head(down[s]).id \notin transactions[Client(s)]
  /\ ForListener(Head(down[s]))
  /\ hand' = [hand EXCEPT ![s] = Head(down[s])]
  /\ readPump' = [readPump EXCEPT ![s] = "push"]
  /\ down' = [down EXCEPT ![s] = Tail(@)]
  /\ UNCHANGED <<blazeUri, mcVars, loop, msg, writePump, call, attempt, conn,
                 up, serverVars, listenerVars>>

\* Mutant: the buffer has no capacity.
PushMessageUnbounded(s) ==
  LET c == Client(s)
  IN /\ readPump[s] = "push"
     /\ readBuffer' = [readBuffer EXCEPT ![c] = Append(@, hand[s])]
     /\ readPump' = [readPump EXCEPT ![s] = "read"]
     /\ UNCHANGED <<blazeUri, transactions, readDone, writeDone, writeBuffer,
                    loop, msg, hand, writePump, call, attempt, conn, up, down,
                    serverVars, listenerVars>>

PushMessage(s) ==
  LET c == Client(s)
  IN /\ readPump[s] = "push"
     /\ Len(readBuffer[c]) < ReadCap
     /\ readBuffer' = [readBuffer EXCEPT ![c] = Append(@, hand[s])]
     /\ readPump' = [readPump EXCEPT ![s] = "read"]
     /\ UNCHANGED <<blazeUri, transactions, readDone, writeDone, writeBuffer,
                    loop, msg, hand, writePump, call, attempt, conn, up, down,
                    serverVars, listenerVars>>

\* Mutant: the message without room is skipped and the pump reads on.
PushTimeoutSkips(s) ==
  /\ readPump[s] = "push"
  /\ Len(readBuffer[Client(s)]) = ReadCap
  /\ readPump' = [readPump EXCEPT ![s] = "read"]
  /\ UNCHANGED <<blazeUri, mcVars, loop, msg, hand, writePump, call, attempt,
                 conn, up, down, serverVars, listenerVars>>

\* The buffer stayed full for 3 seconds: the whole connection is given up.
PushTimeout(s) ==
  /\ readPump[s] = "push"
  /\ Len(readBuffer[Client(s)]) = ReadCap
  /\ EndRead(s)
  /\ UNCHANGED <<blazeUri, mcVars, loop, msg, hand, writePump, call, attempt,
                 up, serverVars, listenerVars>>

\* NextReader or parseMessage fails: the connection broke or was closed, or, on
\* an open one, the read deadline passed or what came is no gzipped JSON.
ReadError(s) ==
  /\ readPump[s] = "read"
  /\ EndRead(s)
  /\ UNCHANGED <<blazeUri, mcVars, loop, msg, hand, writePump, call, attempt,
                 up, serverVars, listenerVars>>

SignalWriteDone(s) ==
  LET c == Client(s)
  IN /\ readPump[s] = "writeDone"
     /\ writeDone[c] = 0
     /\ writeDone' = [writeDone EXCEPT ![c] = 1]
     /\ readPump' = [readPump EXCEPT ![s] = "readDone"]
     /\ UNCHANGED <<blazeUri, transactions, readDone, readBuffer, writeBuffer,
                    loop, msg, hand, writePump, call, attempt, conn, up, down,
                    serverVars, listenerVars>>

\* Mutant: the deferred function of readPump forgets readDone.
SignalReadDoneForgotten(s) ==
  /\ readPump[s] = "readDone"
  /\ readPump' = [readPump EXCEPT ![s] = "exited"]
  /\ UNCHANGED <<blazeUri, mcVars, loop, msg, hand, writePump, call, attempt,
                 conn, up, down, serverVars, listenerVars>>

SignalReadDone(s) ==
  LET c == Client(s)
  IN /\ readPump[s] = "readDone"
     /\ readDone[c] = 0
     /\ readDone' = [readDone EXCEPT ![c] = 1]
     /\ readPump' = [readPump EXCEPT ![s] = "exited"]
     /\ UNCHANGED <<blazeUri, transactions, writeDone, readBuffer, writeBuffer,
                    loop, msg, hand, writePump, call, attempt, conn, up, down,
                    serverVars, listenerVars>>

-----------------------------------------------------------------------------
(* writePump *)

EndWrite(s) ==
  /\ writePump' = [writePump EXCEPT ![s] = "exited"]
  /\ conn' = [conn EXCEPT ![s] = "closed"]

\* writeGzipToConn returned nil.  On a broken connection the bytes go nowhere.
WriteData(s) ==
  LET c == Client(s)
  IN /\ writePump[s] = "run" /\ writeBuffer[c] # <<>>
     /\ conn[s] \in {"open", "broken"}
     /\ writeBuffer' = [writeBuffer EXCEPT ![c] = Tail(@)]
     /\ up' = [up EXCEPT ![s] =
                 IF conn[s] = "open" THEN Append(@, Head(writeBuffer[c])) ELSE @]
     /\ UNCHANGED <<blazeUri, transactions, readDone, writeDone, readBuffer,
                    loop, msg, readPump, hand, writePump, call, attempt, conn,
                    down, serverVars, listenerVars>>

\* The write failed: the request was taken from the buffer and is lost.
WriteError(s) ==
  LET c == Client(s)
  IN /\ writePump[s] = "run" /\ writeBuffer[c] # <<>>
     /\ conn[s] # "open"
     /\ writeBuffer' = [writeBuffer EXCEPT ![c] = Tail(@)]
     /\ EndWrite(s)
     /\ UNCHANGED <<blazeUri, transactions, readDone, writeDone, readBuffer,
                    loop, msg, readPump, hand, call, attempt, up, down,
                    serverVars, listenerVars>>

\* The ticker's ping failed.  One that succeeds changes nothing here.
PingError(s) ==
  /\ writePump[s] = "run"
  /\ conn[s] # "open"
  /\ EndWrite(s)
  /\ UNCHANGED <<blazeUri, mcVars, loop, msg, readPump, hand, call, attempt,
                 up, down, serverVars, listenerVars>>

WriteDone(s) ==
  LET c == Client(s)
  IN /\ writePump[s] = "run"
     /\ writeDone[c] = 1
     /\ writeDone' = [writeDone EXCEPT ![c] = 0]
     /\ EndWrite(s)
     /\ UNCHANGED <<blazeUri, transactions, readDone, readBuffer, writeBuffer,
                    loop, msg, readPump, hand, call, attempt, up, down,
                    serverVars, listenerVars>>

-----------------------------------------------------------------------------
(* The network and the server, external *)

\* What was on its way to the server is lost; what the client's side already
\* holds may still be read.
Break(s) ==
  /\ conn[s] = "open"
  /\ conn' = [conn EXCEPT ![s] = "broken"]
  /\ up' = [up EXCEPT ![s] = <<>>]
  /\ UNCHANGED <<blazeUri, mcVars, loop, msg, readPump, hand, writePump, call,
                 attempt, down, serverVars, listenerVars>>

\* A frame for a connection nobody reads any more is dropped.
ToClient(s, f) ==
  down' = [down EXCEPT ![s] =
             IF readPump[s] \in {"read", "push"} THEN Append(@, f) ELSE @]

\* The server takes the next request of a connection.  One the client wrote
\* before it closed the connection may still arrive.
ServerTakes(s) ==
  /\ conn[s] \in {"open", "closed"}
  /\ up[s] # <<>>
  /\ up' = [up EXCEPT ![s] = Tail(@)]

ServerExecute(s) ==
  LET id == Head(up[s])
      a == attempt[id]
  IN /\ ServerTakes(s)
     /\ executed' = executed \cup {id}
     /\ listed' = IF a.action = "LIST_PENDING_MESSAGES" THEN listed \cup {s} ELSE listed
     /\ status' = IF a.action = "ACKNOWLEDGE_MESSAGE_RECEIPT"
                  THEN [status EXCEPT ![a.arg] = "read"] ELSE status
     /\ ToClient(s, AnswerFrame(id, "ok"))
     /\ UNCHANGED <<blazeUri, mcVars, loop, msg, readPump, hand, writePump,
                    call, attempt, conn, pushed, errors, listenerVars>>

ServerRefuse(s) ==
  /\ ServerTakes(s)
  /\ \/ /\ attempt[Head(up[s])].action \in Refusable
        /\ ToClient(s, AnswerFrame(Head(up[s]), "forbidden"))
        /\ UNCHANGED errors
     \/ /\ attempt[Head(up[s])].action \in Failing
        /\ errors < MaxErrors
        /\ errors' = errors + 1
        /\ ToClient(s, AnswerFrame(Head(up[s]), "error"))
  /\ UNCHANGED <<blazeUri, mcVars, loop, msg, readPump, hand, writePump, call,
                 attempt, conn, listed, pushed, status, executed, listenerVars>>

ServerReceive(m) ==
  /\ status[m] = "absent"
  /\ status' = [status EXCEPT ![m] = "pending"]
  /\ UNCHANGED <<blazeUri, mcVars, loop, msg, readPump, hand, writePump, call,
                 attempt, conn, up, down, listed, pushed, executed, errors,
                 listenerVars>>

InSeq(m, q) == \E i \in 1..Len(q) : q[i] = m

\* A message that is not read is pushed once on each connection that listed.
ServerPush(s, m) ==
  /\ conn[s] = "open" /\ s \in listed
  /\ status[m] = "pending" /\ ~InSeq(m, pushed[s])
  /\ ToClient(s, PushFrame(m))
  /\ pushed' = [pushed EXCEPT ![s] = Append(@, m)]
  /\ UNCHANGED <<blazeUri, mcVars, loop, msg, readPump, hand, writePump, call,
                 attempt, conn, up, listed, status, executed, errors,
                 listenerVars>>

-----------------------------------------------------------------------------
CallStep(t) == EnqueueRequest(t) \/ EnqueueTimeout(t) \/ WaitTimeout(t)
               \/ WaitAnswer(t) \/ WaitRetry(t)
LoopStep(s) == LoopCallOk(s) \/ LoopCallError(s) \/ LoopReadDone(s) \/ LoopTake(s)
               \/ LoopHandle(s) \/ LoopHandleAndAck(s) \/ LoopHandleError(s)
ReadStep(s) == ReadAnswer(s) \/ ReadIgnored(s) \/ ReadMessage(s) \/ PushMessage(s)
               \/ PushTimeout(s) \/ ReadError(s) \/ SignalWriteDone(s)
               \/ SignalReadDone(s)
WriteStep(s) == WriteData(s) \/ WriteError(s) \/ PingError(s) \/ WriteDone(s)
DialStep(s) == LoopConnect(s) \/ LoopDialError(s)
ServerStep(s) == ServerExecute(s) \/ ServerRefuse(s) \/ \E m \in Messages : ServerPush(s, m)

\* Every Loop and Send call has returned and every pump has ended.  The
\* server may stay as it is for ever.
Finished ==
  /\ \A s \in Sessions : /\ loop[s] = "returned"
                         /\ readPump[s] \in {"off", "exited"}
                         /\ writePump[s] \in {"off", "exited"}
  /\ \A x \in Senders : call[x].st \in {"ok", "err"}
Terminated == Finished /\ UNCHANGED vars

Next ==
  \/ \E t \in Threads : CallStep(t)
  \/ \E x \in Senders : Send(x)
  \/ \E s \in Sessions : \/ DialStep(s) \/ LoopStep(s) \/ ReadStep(s)
                         \/ WriteStep(s) \/ Break(s) \/ ServerStep(s)
  \/ \E m \in Messages : ServerReceive(m)
  \/ Terminated

\* The read pump has something to do: on an open connection with nothing to
\* read it may wait for ever (pongs keep its deadline from passing).
ReadReady(s) == readPump[s] = "read" /\ down[s] = <<>> => conn[s] # "open"

\* The goroutines are scheduled and the timers fire.  Nothing obliges the
\* network to break a connection, a listener to fail, or anybody to call Send.
ClientFairness ==
  /\ \A t \in Threads : WF_vars(CallStep(t))
  /\ \A s \in Sessions : /\ WF_vars(DialStep(s))
                         /\ WF_vars(LoopStep(s))
                         /\ WF_vars(ReadReady(s) /\ ReadStep(s))
                         /\ WF_vars(WriteStep(s))

\* A server reached over an open connection answers and pushes.
ServerFairness ==
  \A s \in Sessions :
    /\ WF_vars(conn[s] = "open" /\ (ServerExecute(s) \/ ServerRefuse(s)))
    /\ WF_vars(\E m \in Messages : ServerPush(s, m))

Spec == Init /\ [][Next]_vars
FairSpec == Spec /\ ClientFairness /\ ServerFairness

-----------------------------------------------------------------------------
(* Properties *)

ClientTypeOK ==
  /\ transactions \in [Sessions -> SUBSET (1..Len(attempt))]
  /\ readDone \in [Sessions -> 0..1]
  /\ writeDone \in [Sessions -> 0..1]
  /\ readBuffer \in [Sessions -> Seq(Frame)]
  /\ writeBuffer \in [Sessions -> Seq(1..Len(attempt))]
  /\ \A c \in Sessions : Len(readBuffer[c]) <= ReadCap /\ Len(writeBuffer[c]) <= WriteCap

GoroutineTypeOK ==
  /\ loop \in [Sessions -> {"off", "list", "select", "handle", "ack", "returned"}]
  /\ msg \in [Sessions -> Frame]
  /\ readPump \in [Sessions -> {"off", "read", "push", "writeDone", "readDone", "exited"}]
  /\ hand \in [Sessions -> Frame]
  /\ writePump \in [Sessions -> {"off", "run", "exited"}]
  /\ attempt \in Seq(Attempt)
  /\ call \in [Threads -> [st : {"idle", "enqueue", "wait", "ok", "err"},
                           id : 0..Len(attempt)]]
  /\ \A t \in Threads : call[t].st # "idle" => call[t].id # 0
  /\ seen \in [Sessions -> Seq(Messages \cup Threads)]
  /\ handled \subseteq Messages \cup Threads

ServerTypeOK ==
  /\ blazeUri \in Hosts
  /\ conn \in [Sessions -> {"none", "open", "broken", "closed"}]
  /\ up \in [Sessions -> Seq(1..Len(attempt))]
  /\ down \in [Sessions -> Seq(Frame)]
  /\ listed \subseteq Sessions
  /\ pushed \in [Sessions -> Seq(Messages)]
  /\ status \in [Messages -> {"absent", "pending", "read"}]
  /\ executed \subseteq 1..Len(attempt)
  /\ errors \in 0..MaxErrors

\* Every variable has its type, every id names a request that was made, and
\* the channels stay within their capacities.
TypeOK == ClientTypeOK /\ GoroutineTypeOK /\ ServerTypeOK

\* A hook in the map belongs to a request of that client that has no answer
\* yet, so the hook's send on resp never blocks and "timeout to hook" never
\* ends a readPump.
HookNeverBlocks ==
  \A c \in Sessions : \A id \in transactions[c] :
    attempt[id].client = c /\ attempt[id].resp = "none"

\* A hook in the map is the one of a call that still waits, or of one that gave
\* up: what was answered, on whichever attempt, leaves nothing behind.
HookHasCaller ==
  \A c \in Sessions : \A id \in transactions[c] :
    \E t \in Threads : call[t].id = id /\ call[t].st \in {"enqueue", "wait", "err"}

\* The answer to a request never reaches the listener as if it were a message,
\* however late it comes: an answer carries the action of its request, so only
\* the hook keeps it out of readBuffer.
AnswersStayOut ==
  \A c \in Sessions : \A i \in 1..Len(readBuffer[c]) : readBuffer[c][i].id = 0

ForBot(m) == Kind[m] # "other"

\* How many of the first n messages of q are for the bot, and whether m is the
\* k-th of them.
ForBotUpTo(q, n) == Cardinality({i \in 1..n : ForBot(q[i])})
IsNthForBot(m, k, q) ==
  \E i \in 1..Len(q) : q[i] = m /\ ForBot(m) /\ ForBotUpTo(q, i) = k

\* What the listener is given on a connection is, in order and without a gap,
\* what the server pushed on it: parseMessage gives the connection up rather
\* than skip a message it has no room for.
FeedIsPrefix ==
  \A s \in Sessions : \A k \in 1..Len(seen[s]) : IsNthForBot(seen[s][k], k, pushed[s])

\* The server only learns that a message is READ after OnMessage returned nil
\* for it: a crash of the handler or of the connection leaves it pending, to
\* be pushed again.
ReadOnlyAfterHandled ==
  \A m \in Messages : status[m] = "read" => m \in handled

\* The client implements the feed of BlazeFeed, on any sequence of connections.
Feed == INSTANCE BlazeFeed WITH Messages <- Messages, status <- status,
                                handled <- handled
ImplementsFeed == Feed!Spec

\* A call that returned nil was carried out by the server under one of its own
\* ids, or was refused with 403: no other answer is taken for it.
NilMeansAnswered ==
  \A t \in Threads : call[t].st = "ok" =>
    \/ call[t].id \in executed
    \/ attempt[call[t].id].resp = "forbidden"

\* Every call returns: a lost request or answer, a full buffer, a dead
\* connection, or a readPump that waits for a Loop that waits for its answer,
\* ends in one of the timeouts (a server that answers with an error for ever
\* would not; MaxErrors bounds it).
CallsReturn ==
  \A t \in Threads : call[t].st \in {"enqueue", "wait"} ~> call[t].st \in {"ok", "err"}

GoroutinesEnded(s) ==
  loop[s] = "returned" /\ readPump[s] = "exited" /\ writePump[s] = "exited"

\* Once a connection is broken or closed, by whichever of the three
\* goroutines, Loop returns and both pumps end: the tokens in writeDone and
\* readDone neither deadlock them nor leave one behind.
DeadConnectionEndsAll ==
  \A s \in Sessions : conn[s] \in {"broken", "closed"} ~> GoroutinesEnded(s)

\* A message the server has for the bot is handled in the end, over as many
\* connections as it takes, unless the program stops calling Loop.
MessageHandled ==
  \A m \in Messages : status[m] = "pending" /\ ForBot(m)
                      ~> m \in handled \/ loop[MaxLoop] = "returned"
=============================================================================
