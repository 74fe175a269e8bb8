---------------------------- MODULE BlazeProofs ----------------------------
(* Theorems about Blaze, for every value of its constants. *)
EXTENDS Blaze, TLAPS

LEMMA ThreadFacts ==
  /\ Sessions \subseteq Threads /\ Senders \subseteq Threads
  /\ 1 \in Sessions
  /\ \A s \in Sessions : Client(s) \in Sessions
BY BlazeAssumption DEF Threads, Sessions, Client

\* A call that began has registered its request.
LEMMA CallFacts ==
  ASSUME TypeOK, NEW t \in Threads, call[t].st # "idle"
  PROVE  /\ call[t].id \in 1..Len(attempt)
         /\ attempt[call[t].id] \in Attempt
         /\ attempt[call[t].id].client \in Sessions
         /\ attempt[call[t].id].action \in Actions
         /\ attempt[call[t].id].arg \in Messages \cup Threads
<1>1. call[t].id \in 1..Len(attempt)
  BY DEF TypeOK, GoroutineTypeOK
<1>2. attempt[call[t].id] \in Attempt
  BY <1>1 DEF TypeOK, GoroutineTypeOK
<1> QED BY <1>1, <1>2 DEF Attempt

\* Replacing an element of a sequence keeps its length and its type.
LEMMA UpdateType ==
  ASSUME NEW S, NEW q \in Seq(S), NEW i \in 1..Len(q), NEW e \in S
  PROVE  /\ [q EXCEPT ![i] = e] \in Seq(S)
         /\ Len([q EXCEPT ![i] = e]) = Len(q)
OBVIOUS

LEMMA SeqWiden ==
  ASSUME NEW S, NEW T, S \subseteq T, NEW q \in Seq(S)
  PROVE  q \in Seq(T)
OBVIOUS

LEMMA HeadTailType ==
  ASSUME NEW S, NEW q \in Seq(S), q # <<>>
  PROVE  /\ Head(q) \in S
         /\ Tail(q) \in Seq(S)
         /\ Len(Tail(q)) = Len(q) - 1
         /\ Len(q) \in Nat
OBVIOUS

LEMMA AppendType ==
  ASSUME NEW S, NEW q \in Seq(S), NEW e \in S
  PROVE  /\ Append(q, e) \in Seq(S)
         /\ Len(Append(q, e)) = Len(q) + 1
         /\ Len(q) \in Nat
OBVIOUS

\* A new request leaves the others as they are.
LEMMA RegisterFacts ==
  ASSUME TypeOK, NEW t \in Threads, NEW c \in Sessions, NEW action \in Actions,
         NEW arg \in Messages \cup Threads, Register(t, c, action, arg)
  PROVE  /\ attempt' \in Seq(Attempt)
         /\ Len(attempt) \in Nat
         /\ Len(attempt') = Len(attempt) + 1
         /\ \A i \in 1..Len(attempt) : attempt'[i] = attempt[i]
         /\ attempt'[Len(attempt) + 1] =
              [client |-> c, action |-> action, arg |-> arg, resp |-> "none"]
<1> DEFINE a == [client |-> c, action |-> action, arg |-> arg, resp |-> "none"]
<1>1. a \in Attempt
  BY DEF Attempt, Codes
<1>2. attempt \in Seq(Attempt) /\ attempt' = Append(attempt, a)
  BY DEF TypeOK, GoroutineTypeOK, Register
<1> QED BY <1>1, <1>2

\* Every id that was valid is still valid after it.
LEMMA RegisterType ==
  ASSUME TypeOK, NEW t \in Threads, NEW c \in Sessions, NEW action \in Actions,
         NEW arg \in Messages \cup Threads, Register(t, c, action, arg),
         UNCHANGED <<readDone, writeDone, readBuffer, writeBuffer, up, executed>>
  PROVE  /\ attempt' \in Seq(Attempt)
         /\ call' \in [Threads -> [st : {"idle", "enqueue", "wait", "ok", "err"},
                                   id : 0..Len(attempt')]]
         /\ \A u \in Threads : call'[u].st # "idle" => call'[u].id # 0
         /\ ClientTypeOK'
         /\ up' \in [Sessions -> Seq(1..Len(attempt'))]
         /\ executed' \subseteq 1..Len(attempt')
<1>1. /\ attempt' \in Seq(Attempt)
      /\ Len(attempt) \in Nat
      /\ Len(attempt') = Len(attempt) + 1
  BY RegisterFacts
<1>2. transactions' \in [Sessions -> SUBSET (1..Len(attempt'))]
  BY <1>1 DEF TypeOK, ClientTypeOK, Register
<1>3. /\ call' \in [Threads -> [st : {"idle", "enqueue", "wait", "ok", "err"},
                                id : 0..Len(attempt')]]
      /\ \A u \in Threads : call'[u].st # "idle" => call'[u].id # 0
  BY <1>1 DEF TypeOK, GoroutineTypeOK, Register
<1>4. 1..Len(attempt) \subseteq 1..Len(attempt')
  BY <1>1
<1>5. \A q \in Seq(1..Len(attempt)) : q \in Seq(1..Len(attempt'))
  BY <1>4, SeqWiden
<1>6. /\ writeBuffer' \in [Sessions -> Seq(1..Len(attempt'))]
      /\ up' \in [Sessions -> Seq(1..Len(attempt'))]
      /\ executed' \subseteq 1..Len(attempt')
  BY <1>4, <1>5 DEF TypeOK, ClientTypeOK, ServerTypeOK
<1>7. /\ readDone' \in [Sessions -> 0..1]
      /\ writeDone' \in [Sessions -> 0..1]
      /\ readBuffer' \in [Sessions -> Seq(Frame)]
      /\ \A d \in Sessions : Len(readBuffer'[d]) <= ReadCap /\ Len(writeBuffer'[d]) <= WriteCap
  BY DEF TypeOK, ClientTypeOK
<1>8. ClientTypeOK'
  BY <1>2, <1>6, <1>7 DEF ClientTypeOK
<1> QED BY <1>1, <1>3, <1>6, <1>8

LEMMA RegisterServerType ==
  ASSUME TypeOK,
         up' \in [Sessions -> Seq(1..Len(attempt'))],
         executed' \subseteq 1..Len(attempt'),
         conn' \in [Sessions -> {"none", "open", "broken", "closed"}],
         blazeUri' = blazeUri, down' = down, listed' = listed, pushed' = pushed,
         status' = status, errors' = errors
  PROVE  ServerTypeOK'
<1>1. /\ blazeUri' \in Hosts
      /\ down' \in [Sessions -> Seq(Frame)]
      /\ listed' \subseteq Sessions
      /\ pushed' \in [Sessions -> Seq(Messages)]
      /\ status' \in [Messages -> {"absent", "pending", "read"}]
      /\ errors' \in 0..MaxErrors
  BY DEF TypeOK, ServerTypeOK
<1> QED BY <1>1 DEF ServerTypeOK

LEMMA ToClientType ==
  ASSUME TypeOK, NEW s \in Sessions, NEW f \in Frame, ToClient(s, f)
  PROVE  down' \in [Sessions -> Seq(Frame)]
BY DEF TypeOK, ServerTypeOK, ToClient

\* The request at the head of a connection, and the frame that answers it.
LEMMA TakenFacts ==
  ASSUME TypeOK, NEW s \in Sessions, ServerTakes(s)
  PROVE  /\ Head(up[s]) \in 1..Len(attempt)
         /\ up' \in [Sessions -> Seq(1..Len(attempt))]
         /\ \A code \in Codes : AnswerFrame(Head(up[s]), code) \in Frame
<1>1. up[s] \in Seq(1..Len(attempt)) /\ up[s] # <<>>
  BY DEF TypeOK, ServerTypeOK, ServerTakes
<1>2. Head(up[s]) \in 1..Len(attempt) /\ Tail(up[s]) \in Seq(1..Len(attempt))
  BY <1>1, HeadTailType
<1>3. attempt[Head(up[s])] \in Attempt
  BY <1>2 DEF TypeOK, GoroutineTypeOK
<1>4. up' \in [Sessions -> Seq(1..Len(attempt))]
  BY <1>2 DEF TypeOK, ServerTypeOK, ServerTakes
<1>5. \A code \in Codes : AnswerFrame(Head(up[s]), code) \in Frame
  BY <1>2, <1>3 DEF AnswerFrame, Frame, Attempt
<1> QED BY <1>2, <1>4, <1>5

LEMMA InitType == Init => TypeOK
BY BlazeAssumption
DEF Init, TypeOK, ClientTypeOK, GoroutineTypeOK, ServerTypeOK, NoFrame, Frame,
    Idle, Actions, Codes, Threads, Sessions, Hosts

LEMMA StepType == TypeOK /\ [Next]_vars => TypeOK'
<1> SUFFICES ASSUME TypeOK, [Next]_vars PROVE TypeOK'
  OBVIOUS
<1> USE DEF mcVars, serverVars, listenerVars
<1>1. ASSUME NEW t \in Threads, EnqueueRequest(t) PROVE TypeOK'
  <2>1. call[t].id \in 1..Len(attempt) /\ attempt[call[t].id].client \in Sessions
    BY <1>1, CallFacts DEF EnqueueRequest
  <2>2. \A c \in Sessions :
        /\ Append(writeBuffer[c], call[t].id) \in Seq(1..Len(attempt))
        /\ Len(Append(writeBuffer[c], call[t].id)) = Len(writeBuffer[c]) + 1
        /\ Len(writeBuffer[c]) \in Nat
    BY <1>1, <2>1, AppendType DEF TypeOK, ClientTypeOK
  <2>3. writeBuffer' \in [Sessions -> Seq(1..Len(attempt))]
    BY <1>1, <2>1, <2>2 DEF TypeOK, EnqueueRequest, ClientTypeOK
  <2>4. \A c \in Sessions : Len(writeBuffer'[c]) <= WriteCap
    <3>1. WriteCap \in Nat
      BY BlazeAssumption
    <3> QED BY <1>1, <2>1, <2>2, <3>1 DEF TypeOK, EnqueueRequest, ClientTypeOK
  <2>5. ClientTypeOK'
    BY <1>1, <2>1, <2>2, <2>3, <2>4, BlazeAssumption DEF TypeOK, ClientTypeOK, EnqueueRequest
  <2>6. GoroutineTypeOK'
    BY <1>1, <2>1, <2>2, <2>3, <2>4 DEF TypeOK, GoroutineTypeOK, EnqueueRequest
  <2>7. ServerTypeOK'
    BY <1>1, <2>1, <2>2, <2>3, <2>4 DEF TypeOK, ServerTypeOK, EnqueueRequest
  <2> QED BY <2>5, <2>6, <2>7 DEF TypeOK
<1>2. ASSUME NEW t \in Threads, EnqueueTimeout(t) PROVE TypeOK'
  <2>1. ClientTypeOK'
    BY <1>2 DEF TypeOK, ClientTypeOK, EnqueueTimeout
  <2>2. GoroutineTypeOK'
    BY <1>2 DEF TypeOK, GoroutineTypeOK, EnqueueTimeout
  <2>3. ServerTypeOK'
    BY <1>2 DEF TypeOK, ServerTypeOK, EnqueueTimeout
  <2> QED BY <2>1, <2>2, <2>3 DEF TypeOK
<1>3. ASSUME NEW t \in Threads, WaitTimeout(t) PROVE TypeOK'
  <2>1. ClientTypeOK'
    BY <1>3 DEF TypeOK, ClientTypeOK, WaitTimeout
  <2>2. GoroutineTypeOK'
    BY <1>3 DEF TypeOK, GoroutineTypeOK, WaitTimeout
  <2>3. ServerTypeOK'
    BY <1>3 DEF TypeOK, ServerTypeOK, WaitTimeout
  <2> QED BY <2>1, <2>2, <2>3 DEF TypeOK
<1>4. ASSUME NEW t \in Threads, WaitAnswer(t) PROVE TypeOK'
  <2>1. ClientTypeOK'
    BY <1>4 DEF TypeOK, ClientTypeOK, WaitAnswer
  <2>2. GoroutineTypeOK'
    BY <1>4 DEF TypeOK, GoroutineTypeOK, WaitAnswer
  <2>3. ServerTypeOK'
    BY <1>4 DEF TypeOK, ServerTypeOK, WaitAnswer
  <2> QED BY <2>1, <2>2, <2>3 DEF TypeOK
<1>5. ASSUME NEW t \in Threads, WaitRetry(t) PROVE TypeOK'
  <2>1. /\ attempt[call[t].id].client \in Sessions
        /\ attempt[call[t].id].action \in Actions
        /\ attempt[call[t].id].arg \in Messages \cup Threads
    BY <1>5, CallFacts DEF WaitRetry
  <2>2. /\ attempt' \in Seq(Attempt)
        /\ call' \in [Threads -> [st : {"idle", "enqueue", "wait", "ok", "err"},
                                  id : 0..Len(attempt')]]
        /\ \A u \in Threads : call'[u].st # "idle" => call'[u].id # 0
        /\ ClientTypeOK'
        /\ up' \in [Sessions -> Seq(1..Len(attempt'))]
        /\ executed' \subseteq 1..Len(attempt')
    BY <1>5, <2>1, RegisterType DEF WaitRetry
  <2>3. ClientTypeOK'
    BY <2>2
  <2>4. GoroutineTypeOK'
    BY <1>5, <2>1, <2>2 DEF TypeOK, GoroutineTypeOK, WaitRetry
  <2>5. /\ conn' \in [Sessions -> {"none", "open", "broken", "closed"}]
        /\ blazeUri' = blazeUri /\ down' = down /\ listed' = listed
        /\ pushed' = pushed /\ status' = status /\ errors' = errors
    BY <1>5 DEF TypeOK, ServerTypeOK, WaitRetry
  <2>6. ServerTypeOK'
    BY <2>2, <2>5, RegisterServerType
  <2> QED BY <2>3, <2>4, <2>6 DEF TypeOK
<1>6. ASSUME NEW x \in Senders, Send(x) PROVE TypeOK'
  <2>1. x \in Threads /\ \A s \in Sessions : Client(s) \in Sessions
    BY <1>6, ThreadFacts
  <2>2. /\ attempt' \in Seq(Attempt)
        /\ call' \in [Threads -> [st : {"idle", "enqueue", "wait", "ok", "err"},
                                  id : 0..Len(attempt')]]
        /\ \A u \in Threads : call'[u].st # "idle" => call'[u].id # 0
        /\ ClientTypeOK'
        /\ up' \in [Sessions -> Seq(1..Len(attempt'))]
        /\ executed' \subseteq 1..Len(attempt')
    BY <1>6, <2>1, RegisterType DEF Send, Actions
  <2>3. ClientTypeOK'
    BY <2>2
  <2>4. GoroutineTypeOK'
    BY <1>6, <2>1, <2>2 DEF TypeOK, GoroutineTypeOK, Send
  <2>5. /\ conn' \in [Sessions -> {"none", "open", "broken", "closed"}]
        /\ blazeUri' = blazeUri /\ down' = down /\ listed' = listed
        /\ pushed' = pushed /\ status' = status /\ errors' = errors
    BY <1>6 DEF TypeOK, ServerTypeOK, Send
  <2>6. ServerTypeOK'
    BY <2>2, <2>5, RegisterServerType
  <2> QED BY <2>3, <2>4, <2>6 DEF TypeOK
<1>7. ASSUME NEW s \in Sessions, LoopConnect(s) PROVE TypeOK'
  <2>1. s \in Threads /\ Client(s) \in Sessions
    BY <1>7, ThreadFacts
  <2>2. /\ attempt' \in Seq(Attempt)
        /\ call' \in [Threads -> [st : {"idle", "enqueue", "wait", "ok", "err"},
                                  id : 0..Len(attempt')]]
        /\ \A u \in Threads : call'[u].st # "idle" => call'[u].id # 0
        /\ ClientTypeOK'
        /\ up' \in [Sessions -> Seq(1..Len(attempt'))]
        /\ executed' \subseteq 1..Len(attempt')
    BY <1>7, <2>1, RegisterType DEF LoopConnect, Actions
  <2>3. ClientTypeOK'
    BY <2>2
  <2>4. GoroutineTypeOK'
    BY <1>7, <2>1, <2>2 DEF TypeOK, GoroutineTypeOK, LoopConnect
  <2>5. /\ conn' \in [Sessions -> {"none", "open", "broken", "closed"}]
        /\ blazeUri' = blazeUri /\ down' = down /\ listed' = listed
        /\ pushed' = pushed /\ status' = status /\ errors' = errors
    BY <1>7 DEF TypeOK, ServerTypeOK, LoopConnect
  <2>6. ServerTypeOK'
    BY <2>2, <2>5, RegisterServerType
  <2> QED BY <2>3, <2>4, <2>6 DEF TypeOK
<1>8. ASSUME NEW s \in Sessions, LoopDialError(s) PROVE TypeOK'
  <2>1. ClientTypeOK'
    BY <1>8 DEF TypeOK, ClientTypeOK, LoopDialError, Turn
  <2>2. GoroutineTypeOK'
    BY <1>8 DEF TypeOK, GoroutineTypeOK, LoopDialError, Turn
  <2>3. ServerTypeOK'
    BY <1>8 DEF TypeOK, ServerTypeOK, LoopDialError, Turn, Hosts
  <2> QED BY <2>1, <2>2, <2>3 DEF TypeOK
<1>9. ASSUME NEW s \in Sessions, LoopCallOk(s) PROVE TypeOK'
  <2>1. ClientTypeOK'
    BY <1>9 DEF TypeOK, ClientTypeOK, LoopCallOk
  <2>2. GoroutineTypeOK'
    BY <1>9, ThreadFacts DEF TypeOK, GoroutineTypeOK, LoopCallOk, Idle
  <2>3. ServerTypeOK'
    BY <1>9 DEF TypeOK, ServerTypeOK, LoopCallOk
  <2> QED BY <2>1, <2>2, <2>3 DEF TypeOK
<1>10. ASSUME NEW s \in Sessions, LoopCallError(s) PROVE TypeOK'
  <2>1. ClientTypeOK'
    BY <1>10 DEF TypeOK, ClientTypeOK, LoopCallError, Return
  <2>2. GoroutineTypeOK'
    BY <1>10 DEF TypeOK, GoroutineTypeOK, LoopCallError, Return
  <2>3. ServerTypeOK'
    BY <1>10 DEF TypeOK, ServerTypeOK, LoopCallError, Return
  <2> QED BY <2>1, <2>2, <2>3 DEF TypeOK
<1>11. ASSUME NEW s \in Sessions, LoopReadDone(s) PROVE TypeOK'
  <2>1. Client(s) \in Sessions
    BY <1>11, ThreadFacts
  <2>2. ClientTypeOK'
    BY <1>11, <2>1 DEF TypeOK, ClientTypeOK, LoopReadDone, Return
  <2>3. GoroutineTypeOK'
    BY <1>11, <2>1 DEF TypeOK, GoroutineTypeOK, LoopReadDone, Return
  <2>4. ServerTypeOK'
    BY <1>11, <2>1 DEF TypeOK, ServerTypeOK, LoopReadDone, Return
  <2> QED BY <2>2, <2>3, <2>4 DEF TypeOK
<1>12. ASSUME NEW s \in Sessions, LoopTake(s) PROVE TypeOK'
  <2>1. Client(s) \in Sessions
    BY <1>12, ThreadFacts
  <2>2. Head(readBuffer[Client(s)]) \in Frame
    BY <1>12, <2>1 DEF TypeOK, LoopTake, ClientTypeOK
  <2>3. /\ Tail(readBuffer[Client(s)]) \in Seq(Frame)
        /\ Len(Tail(readBuffer[Client(s)])) = Len(readBuffer[Client(s)]) - 1
        /\ Len(readBuffer[Client(s)]) \in Nat
    BY <1>12, <2>1, HeadTailType DEF TypeOK, LoopTake, ClientTypeOK
  <2>4. Append(seen[s], Head(readBuffer[Client(s)]).arg) \in Seq(Messages \cup Threads)
    BY <1>12, <2>2, AppendType DEF TypeOK, GoroutineTypeOK, Frame
  <2>5. ClientTypeOK'
    BY <1>12, <2>1, <2>2, <2>3, <2>4, BlazeAssumption DEF TypeOK, ClientTypeOK, LoopTake
  <2>6. GoroutineTypeOK'
    BY <1>12, <2>1, <2>2, <2>3, <2>4 DEF TypeOK, GoroutineTypeOK, LoopTake
  <2>7. ServerTypeOK'
    BY <1>12, <2>1, <2>2, <2>3, <2>4 DEF TypeOK, ServerTypeOK, LoopTake
  <2> QED BY <2>5, <2>6, <2>7 DEF TypeOK
<1>13. ASSUME NEW s \in Sessions, LoopHandle(s) PROVE TypeOK'
  <2>1. ClientTypeOK'
    BY <1>13 DEF TypeOK, ClientTypeOK, LoopHandle
  <2>2. GoroutineTypeOK'
    BY <1>13 DEF TypeOK, GoroutineTypeOK, LoopHandle, Frame
  <2>3. ServerTypeOK'
    BY <1>13 DEF TypeOK, ServerTypeOK, LoopHandle
  <2> QED BY <2>1, <2>2, <2>3 DEF TypeOK
<1>14. ASSUME NEW s \in Sessions, LoopHandleAndAck(s) PROVE TypeOK'
  <2>1. s \in Threads /\ Client(s) \in Sessions /\ msg[s].arg \in Messages \cup Threads
    BY <1>14, ThreadFacts DEF TypeOK, GoroutineTypeOK, Frame
  <2>2. /\ attempt' \in Seq(Attempt)
        /\ call' \in [Threads -> [st : {"idle", "enqueue", "wait", "ok", "err"},
                                  id : 0..Len(attempt')]]
        /\ \A u \in Threads : call'[u].st # "idle" => call'[u].id # 0
        /\ ClientTypeOK'
        /\ up' \in [Sessions -> Seq(1..Len(attempt'))]
        /\ executed' \subseteq 1..Len(attempt')
    BY <1>14, <2>1, RegisterType DEF LoopHandleAndAck, Actions
  <2>3. ClientTypeOK'
    BY <2>2
  <2>4. GoroutineTypeOK'
    BY <1>14, <2>1, <2>2 DEF TypeOK, GoroutineTypeOK, LoopHandleAndAck
  <2>5. /\ conn' \in [Sessions -> {"none", "open", "broken", "closed"}]
        /\ blazeUri' = blazeUri /\ down' = down /\ listed' = listed
        /\ pushed' = pushed /\ status' = status /\ errors' = errors
    BY <1>14 DEF TypeOK, ServerTypeOK, LoopHandleAndAck
  <2>6. ServerTypeOK'
    BY <2>2, <2>5, RegisterServerType
  <2> QED BY <2>3, <2>4, <2>6 DEF TypeOK
<1>15. ASSUME NEW s \in Sessions, LoopHandleError(s) PROVE TypeOK'
  <2>1. ClientTypeOK'
    BY <1>15 DEF TypeOK, ClientTypeOK, LoopHandleError, Return
  <2>2. GoroutineTypeOK'
    BY <1>15 DEF TypeOK, GoroutineTypeOK, LoopHandleError, Return
  <2>3. ServerTypeOK'
    BY <1>15 DEF TypeOK, ServerTypeOK, LoopHandleError, Return
  <2> QED BY <2>1, <2>2, <2>3 DEF TypeOK
<1>16. ASSUME NEW s \in Sessions, ReadAnswer(s) PROVE TypeOK'
  <2>1. Client(s) \in Sessions
    BY <1>16, ThreadFacts
  <2>2. down[s] \in Seq(Frame) /\ down[s] # <<>>
    BY <1>16 DEF TypeOK, ReadAnswer, ServerTypeOK
  <2>3. Head(down[s]) \in Frame /\ Tail(down[s]) \in Seq(Frame)
    BY <1>16, <2>2
  <2>4. Head(down[s]).id \in 1..Len(attempt)
    BY <1>16, <2>1 DEF TypeOK, ReadAnswer, ClientTypeOK
  <2>5. attempt[Head(down[s]).id] \in Attempt
    BY <1>16, <2>4 DEF TypeOK, GoroutineTypeOK
  <2>6. [attempt[Head(down[s]).id] EXCEPT !.resp = Head(down[s]).code] \in Attempt
    BY <1>16, <2>3, <2>5 DEF Attempt, Frame
  <2>7. attempt \in Seq(Attempt)
    BY <1>16 DEF TypeOK, GoroutineTypeOK
  <2>8. LET u == [attempt EXCEPT ![Head(down[s]).id] = [attempt[Head(down[s]).id] EXCEPT !.resp = Head(down[s]).code]]
        IN  u \in Seq(Attempt) /\ Len(u) = Len(attempt)
    BY <1>16, <2>4, <2>6, <2>7, UpdateType
  <2>9. attempt' \in Seq(Attempt) /\ Len(attempt') = Len(attempt)
    BY <1>16, <2>7, <2>8 DEF ReadAnswer
  <2>10. ClientTypeOK'
    BY <1>16, <2>1, <2>4, <2>9 DEF TypeOK, ClientTypeOK, ReadAnswer, EndRead
  <2>11. GoroutineTypeOK'
    BY <1>16, <2>9 DEF TypeOK, GoroutineTypeOK, ReadAnswer, EndRead
  <2>12. ServerTypeOK'
    <3>1. /\ UNCHANGED <<blazeUri, up, listed, pushed, status, executed, errors>>
          /\ conn' = conn \/ conn' = [conn EXCEPT ![s] = "closed"]
      BY <1>16 DEF ReadAnswer, EndRead
    <3>2. \/ down' = [down EXCEPT ![s] = Tail(down[s])]
          \/ down' = [down EXCEPT ![s] = <<>>]
      BY <1>16 DEF ReadAnswer, EndRead
    <3>3. down' \in [Sessions -> Seq(Frame)]
      <4>1. down \in [Sessions -> Seq(Frame)] /\ <<>> \in Seq(Frame)
        BY DEF TypeOK, ServerTypeOK
      <4>2. CASE down' = [down EXCEPT ![s] = Tail(down[s])]
        BY <2>3, <4>1, <4>2
      <4>3. CASE down' = [down EXCEPT ![s] = <<>>]
        BY <4>1, <4>3
      <4> QED BY <3>2, <4>2, <4>3
    <3> QED BY <2>9, <3>1, <3>3 DEF TypeOK, ServerTypeOK
  <2> QED BY <2>10, <2>11, <2>12 DEF TypeOK
<1>17. ASSUME NEW s \in Sessions, ReadIgnored(s) PROVE TypeOK'
  <2>1. ClientTypeOK'
    BY <1>17 DEF TypeOK, ClientTypeOK, ReadIgnored
  <2>2. GoroutineTypeOK'
    BY <1>17 DEF TypeOK, GoroutineTypeOK, ReadIgnored
  <2>3. ServerTypeOK'
    BY <1>17 DEF TypeOK, ServerTypeOK, ReadIgnored
  <2> QED BY <2>1, <2>2, <2>3 DEF TypeOK
<1>18. ASSUME NEW s \in Sessions, ReadMessage(s) PROVE TypeOK'
  <2>1. Head(down[s]) \in Frame
    BY <1>18 DEF TypeOK, ReadMessage, ServerTypeOK
  <2>2. ClientTypeOK'
    BY <1>18, <2>1 DEF TypeOK, ClientTypeOK, ReadMessage
  <2>3. GoroutineTypeOK'
    BY <1>18, <2>1 DEF TypeOK, GoroutineTypeOK, ReadMessage
  <2>4. ServerTypeOK'
    BY <1>18, <2>1 DEF TypeOK, ServerTypeOK, ReadMessage
  <2> QED BY <2>2, <2>3, <2>4 DEF TypeOK
<1>19. ASSUME NEW s \in Sessions, PushMessage(s) PROVE TypeOK'
  <2>1. Client(s) \in Sessions
    BY <1>19, ThreadFacts
  <2>2. /\ Append(readBuffer[Client(s)], hand[s]) \in Seq(Frame)
        /\ Len(Append(readBuffer[Client(s)], hand[s])) = Len(readBuffer[Client(s)]) + 1
        /\ Len(readBuffer[Client(s)]) \in Nat
    BY <1>19, <2>1, AppendType DEF TypeOK, ClientTypeOK, GoroutineTypeOK
  <2>3. ClientTypeOK'
    BY <1>19, <2>1, <2>2, BlazeAssumption DEF TypeOK, ClientTypeOK, PushMessage
  <2>4. GoroutineTypeOK'
    BY <1>19, <2>1, <2>2 DEF TypeOK, GoroutineTypeOK, PushMessage
  <2>5. ServerTypeOK'
    BY <1>19, <2>1, <2>2 DEF TypeOK, ServerTypeOK, PushMessage
  <2> QED BY <2>3, <2>4, <2>5 DEF TypeOK
<1>20. ASSUME NEW s \in Sessions, PushTimeout(s) PROVE TypeOK'
  <2>1. ClientTypeOK'
    BY <1>20 DEF TypeOK, ClientTypeOK, PushTimeout, EndRead
  <2>2. GoroutineTypeOK'
    BY <1>20 DEF TypeOK, GoroutineTypeOK, PushTimeout, EndRead
  <2>3. ServerTypeOK'
    BY <1>20 DEF TypeOK, ServerTypeOK, PushTimeout, EndRead
  <2> QED BY <2>1, <2>2, <2>3 DEF TypeOK
<1>21. ASSUME NEW s \in Sessions, ReadError(s) PROVE TypeOK'
  <2>1. ClientTypeOK'
    BY <1>21 DEF TypeOK, ClientTypeOK, ReadError, EndRead
  <2>2. GoroutineTypeOK'
    BY <1>21 DEF TypeOK, GoroutineTypeOK, ReadError, EndRead
  <2>3. ServerTypeOK'
    BY <1>21 DEF TypeOK, ServerTypeOK, ReadError, EndRead
  <2> QED BY <2>1, <2>2, <2>3 DEF TypeOK
<1>22. ASSUME NEW s \in Sessions, SignalWriteDone(s) PROVE TypeOK'
  <2>1. Client(s) \in Sessions
    BY <1>22, ThreadFacts
  <2>2. ClientTypeOK'
    BY <1>22, <2>1 DEF TypeOK, ClientTypeOK, SignalWriteDone
  <2>3. GoroutineTypeOK'
    BY <1>22, <2>1 DEF TypeOK, GoroutineTypeOK, SignalWriteDone
  <2>4. ServerTypeOK'
    BY <1>22, <2>1 DEF TypeOK, ServerTypeOK, SignalWriteDone
  <2> QED BY <2>2, <2>3, <2>4 DEF TypeOK
<1>23. ASSUME NEW s \in Sessions, SignalReadDone(s) PROVE TypeOK'
  <2>1. Client(s) \in Sessions
    BY <1>23, ThreadFacts
  <2>2. ClientTypeOK'
    BY <1>23, <2>1 DEF TypeOK, ClientTypeOK, SignalReadDone
  <2>3. GoroutineTypeOK'
    BY <1>23, <2>1 DEF TypeOK, GoroutineTypeOK, SignalReadDone
  <2>4. ServerTypeOK'
    BY <1>23, <2>1 DEF TypeOK, ServerTypeOK, SignalReadDone
  <2> QED BY <2>2, <2>3, <2>4 DEF TypeOK
<1>24. ASSUME NEW s \in Sessions, WriteData(s) PROVE TypeOK'
  <2>1. Client(s) \in Sessions
    BY <1>24, ThreadFacts
  <2>2. /\ Head(writeBuffer[Client(s)]) \in 1..Len(attempt)
        /\ Tail(writeBuffer[Client(s)]) \in Seq(1..Len(attempt))
        /\ Len(Tail(writeBuffer[Client(s)])) = Len(writeBuffer[Client(s)]) - 1
        /\ Len(writeBuffer[Client(s)]) \in Nat
    BY <1>24, <2>1, HeadTailType DEF TypeOK, WriteData, ClientTypeOK
  <2>3. Append(up[s], Head(writeBuffer[Client(s)])) \in Seq(1..Len(attempt))
    BY <1>24, <2>2, AppendType DEF TypeOK, ServerTypeOK
  <2>4. ClientTypeOK'
    BY <1>24, <2>1, <2>2, <2>3, BlazeAssumption DEF TypeOK, ClientTypeOK, WriteData
  <2>5. GoroutineTypeOK'
    BY <1>24, <2>1, <2>2, <2>3 DEF TypeOK, GoroutineTypeOK, WriteData
  <2>6. ServerTypeOK'
    BY <1>24, <2>1, <2>2, <2>3 DEF TypeOK, ServerTypeOK, WriteData
  <2> QED BY <2>4, <2>5, <2>6 DEF TypeOK
<1>25. ASSUME NEW s \in Sessions, WriteError(s) PROVE TypeOK'
  <2>1. Client(s) \in Sessions
    BY <1>25, ThreadFacts
  <2>2. /\ Head(writeBuffer[Client(s)]) \in 1..Len(attempt)
        /\ Tail(writeBuffer[Client(s)]) \in Seq(1..Len(attempt))
        /\ Len(Tail(writeBuffer[Client(s)])) = Len(writeBuffer[Client(s)]) - 1
        /\ Len(writeBuffer[Client(s)]) \in Nat
    BY <1>25, <2>1, HeadTailType DEF TypeOK, WriteError, ClientTypeOK
  <2>3. ClientTypeOK'
    BY <1>25, <2>1, <2>2, BlazeAssumption DEF TypeOK, ClientTypeOK, WriteError, EndWrite
  <2>4. GoroutineTypeOK'
    BY <1>25, <2>1, <2>2 DEF TypeOK, GoroutineTypeOK, WriteError, EndWrite
  <2>5. ServerTypeOK'
    BY <1>25, <2>1, <2>2 DEF TypeOK, ServerTypeOK, WriteError, EndWrite
  <2> QED BY <2>3, <2>4, <2>5 DEF TypeOK
<1>26. ASSUME NEW s \in Sessions, PingError(s) PROVE TypeOK'
  <2>1. ClientTypeOK'
    BY <1>26 DEF TypeOK, ClientTypeOK, PingError, EndWrite
  <2>2. GoroutineTypeOK'
    BY <1>26 DEF TypeOK, GoroutineTypeOK, PingError, EndWrite
  <2>3. ServerTypeOK'
    BY <1>26 DEF TypeOK, ServerTypeOK, PingError, EndWrite
  <2> QED BY <2>1, <2>2, <2>3 DEF TypeOK
<1>27. ASSUME NEW s \in Sessions, WriteDone(s) PROVE TypeOK'
  <2>1. Client(s) \in Sessions
    BY <1>27, ThreadFacts
  <2>2. ClientTypeOK'
    BY <1>27, <2>1 DEF TypeOK, ClientTypeOK, WriteDone, EndWrite
  <2>3. GoroutineTypeOK'
    BY <1>27, <2>1 DEF TypeOK, GoroutineTypeOK, WriteDone, EndWrite
  <2>4. ServerTypeOK'
    BY <1>27, <2>1 DEF TypeOK, ServerTypeOK, WriteDone, EndWrite
  <2> QED BY <2>2, <2>3, <2>4 DEF TypeOK
<1>28. ASSUME NEW s \in Sessions, Break(s) PROVE TypeOK'
  <2>1. ClientTypeOK'
    BY <1>28 DEF TypeOK, ClientTypeOK, Break
  <2>2. GoroutineTypeOK'
    BY <1>28 DEF TypeOK, GoroutineTypeOK, Break
  <2>3. ServerTypeOK'
    BY <1>28 DEF TypeOK, ServerTypeOK, Break
  <2> QED BY <2>1, <2>2, <2>3 DEF TypeOK
<1>29. ASSUME NEW s \in Sessions, ServerExecute(s) PROVE TypeOK'
  <2>1. ServerTakes(s)
    BY <1>29 DEF ServerExecute
  <2>2. /\ Head(up[s]) \in 1..Len(attempt)
        /\ up' \in [Sessions -> Seq(1..Len(attempt))]
        /\ \A code \in Codes : AnswerFrame(Head(up[s]), code) \in Frame
    BY <1>29, <2>1, TakenFacts
  <2>3. \E code \in Codes : ToClient(s, AnswerFrame(Head(up[s]), code))
    BY <1>29 DEF ServerExecute, Codes
  <2>4. down' \in [Sessions -> Seq(Frame)]
    BY <1>29, <2>2, <2>3, ToClientType
  <2>5. ClientTypeOK'
    BY <1>29, <2>1, <2>2, <2>3, <2>4 DEF TypeOK, ClientTypeOK, ServerExecute
  <2>6. GoroutineTypeOK'
    BY <1>29, <2>1, <2>2, <2>3, <2>4 DEF TypeOK, GoroutineTypeOK, ServerExecute
  <2>7. ServerTypeOK'
    BY <1>29, <2>1, <2>2, <2>3, <2>4 DEF TypeOK, ServerTypeOK, ServerExecute
  <2> QED BY <2>5, <2>6, <2>7 DEF TypeOK
<1>30. ASSUME NEW s \in Sessions, ServerRefuse(s) PROVE TypeOK'
  <2>1. ServerTakes(s)
    BY <1>30 DEF ServerRefuse
  <2>2. /\ Head(up[s]) \in 1..Len(attempt)
        /\ up' \in [Sessions -> Seq(1..Len(attempt))]
        /\ \A code \in Codes : AnswerFrame(Head(up[s]), code) \in Frame
    BY <1>30, <2>1, TakenFacts
  <2>3. \E code \in Codes : ToClient(s, AnswerFrame(Head(up[s]), code))
    BY <1>30 DEF ServerRefuse, Codes
  <2>4. down' \in [Sessions -> Seq(Frame)]
    BY <1>30, <2>2, <2>3, ToClientType
  <2>5. ClientTypeOK'
    BY <1>30, <2>1, <2>2, <2>3, <2>4 DEF TypeOK, ClientTypeOK, ServerRefuse
  <2>6. GoroutineTypeOK'
    BY <1>30, <2>1, <2>2, <2>3, <2>4 DEF TypeOK, GoroutineTypeOK, ServerRefuse
  <2>7. ServerTypeOK'
    BY <1>30, <2>1, <2>2, <2>3, <2>4, BlazeAssumption DEF TypeOK, ServerTypeOK, ServerRefuse
  <2> QED BY <2>5, <2>6, <2>7 DEF TypeOK
<1>31. ASSUME NEW s \in Sessions, NEW m \in Messages, ServerPush(s, m) PROVE TypeOK'
  <2>1. PushFrame(m) \in Frame
    BY <1>31 DEF PushFrame, Frame, Actions, Codes
  <2>2. down' \in [Sessions -> Seq(Frame)]
    BY <1>31, <2>1, ToClientType DEF ServerPush
  <2>3. Append(pushed[s], m) \in Seq(Messages)
    BY <1>31, AppendType DEF TypeOK, ServerTypeOK
  <2>4. ClientTypeOK'
    BY <1>31, <2>1, <2>2, <2>3 DEF TypeOK, ClientTypeOK, ServerPush
  <2>5. GoroutineTypeOK'
    BY <1>31, <2>1, <2>2, <2>3 DEF TypeOK, GoroutineTypeOK, ServerPush
  <2>6. ServerTypeOK'
    BY <1>31, <2>1, <2>2, <2>3 DEF TypeOK, ServerTypeOK, ServerPush
  <2> QED BY <2>4, <2>5, <2>6 DEF TypeOK
<1>32. ASSUME NEW m \in Messages, ServerReceive(m) PROVE TypeOK'
  <2>1. ClientTypeOK'
    BY <1>32 DEF TypeOK, ClientTypeOK, ServerReceive
  <2>2. GoroutineTypeOK'
    BY <1>32 DEF TypeOK, GoroutineTypeOK, ServerReceive
  <2>3. ServerTypeOK'
    BY <1>32 DEF TypeOK, ServerTypeOK, ServerReceive
  <2> QED BY <2>1, <2>2, <2>3 DEF TypeOK
<1>33. CASE UNCHANGED vars
  BY <1>33 DEF vars, TypeOK, ClientTypeOK, GoroutineTypeOK, ServerTypeOK
<1> QED
  BY <1>1, <1>2, <1>3, <1>4, <1>5, <1>6, <1>7, <1>8, <1>9, <1>10, <1>11,
     <1>12, <1>13, <1>14, <1>15, <1>16, <1>17, <1>18, <1>19, <1>20, <1>21,
     <1>22, <1>23, <1>24, <1>25, <1>26, <1>27, <1>28, <1>29, <1>30, <1>31,
     <1>32, <1>33 DEF Next, CallStep, LoopStep, ReadStep, WriteStep,
     DialStep, ServerStep, Terminated

\* Type correctness, for every number of Loops, senders and messages and every
\* capacity: in particular the two buffers and the two tokens never exceed
\* the capacities NewBlazeClient gives them.
THEOREM TypeCorrect == Spec => []TypeOK
<1>1. Init => TypeOK
  BY InitType
<1>2. TypeOK /\ [Next]_vars => TypeOK'
  BY StepType
<1> QED BY <1>1, <1>2, PTL DEF Spec

-----------------------------------------------------------------------------
(* The hooks and the answers.  Only three kinds of step touch the map of    *)
(* hooks or the requests: one that leaves both alone, a new request, and    *)
(* readPump giving an answer to its hook.                                   *)

LEMMA StepCases ==
  ASSUME TypeOK, [Next]_vars
  PROVE  \/ UNCHANGED <<transactions, attempt>>
         \/ \E t \in Threads, c \in Sessions, action \in Actions,
               arg \in Messages \cup Threads : Register(t, c, action, arg)
         \/ \E s \in Sessions : ReadAnswer(s)
<1> USE DEF mcVars, serverVars, listenerVars
<1>1. ASSUME NEW t \in Threads, CallStep(t), ~WaitRetry(t)
      PROVE  UNCHANGED <<transactions, attempt>>
  BY <1>1 DEF CallStep, EnqueueRequest, EnqueueTimeout, WaitTimeout, WaitAnswer
<1>2. ASSUME NEW t \in Threads, WaitRetry(t)
      PROVE  \E c \in Sessions, action \in Actions, arg \in Messages \cup Threads :
               Register(t, c, action, arg)
  BY <1>2, CallFacts DEF WaitRetry
<1>3. ASSUME NEW x \in Senders, Send(x)
      PROVE  x \in Threads /\ \E c \in Sessions : Register(x, c, "CREATE_MESSAGE", x)
  BY <1>3, ThreadFacts DEF Send
<1>4. ASSUME NEW s \in Sessions, DialStep(s)
      PROVE  \/ UNCHANGED <<transactions, attempt>>
             \/ s \in Threads /\ \E c \in Sessions : Register(s, c, "LIST_PENDING_MESSAGES", s)
  BY <1>4, ThreadFacts DEF DialStep, LoopConnect, LoopDialError
<1>5. ASSUME NEW s \in Sessions, LoopHandleAndAck(s)
      PROVE  /\ s \in Threads /\ msg[s].arg \in Messages \cup Threads
             /\ \E c \in Sessions : Register(s, c, "ACKNOWLEDGE_MESSAGE_RECEIPT", msg[s].arg)
  BY <1>5, ThreadFacts DEF LoopHandleAndAck, TypeOK, GoroutineTypeOK, Frame
<1>6. ASSUME NEW s \in Sessions, LoopStep(s), ~LoopHandleAndAck(s)
      PROVE  UNCHANGED <<transactions, attempt>>
  BY <1>6 DEF LoopStep, LoopCallOk, LoopCallError, LoopReadDone, LoopTake,
              LoopHandle, LoopHandleError
<1>7. ASSUME NEW s \in Sessions, ReadStep(s), ~ReadAnswer(s)
      PROVE  UNCHANGED <<transactions, attempt>>
  BY <1>7 DEF ReadStep, ReadIgnored, ReadMessage, PushMessage, PushTimeout,
              ReadError, SignalWriteDone, SignalReadDone
<1>8. ASSUME NEW s \in Sessions, WriteStep(s) \/ Break(s) \/ ServerStep(s)
      PROVE  UNCHANGED <<transactions, attempt>>
  BY <1>8 DEF WriteStep, WriteData, WriteError, PingError, WriteDone, Break,
              ServerStep, ServerExecute, ServerRefuse, ServerPush
<1>9. ASSUME NEW m \in Messages, ServerReceive(m)
      PROVE  UNCHANGED <<transactions, attempt>>
  BY <1>9 DEF ServerReceive
<1>10. CASE UNCHANGED vars
  BY <1>10 DEF vars
<1>11. {"CREATE_MESSAGE", "LIST_PENDING_MESSAGES", "ACKNOWLEDGE_MESSAGE_RECEIPT"} \subseteq Actions
  BY DEF Actions
<1> QED
  BY <1>1, <1>2, <1>3, <1>4, <1>5, <1>6, <1>7, <1>8, <1>9, <1>10, <1>11
  DEF Next, Terminated, Threads

\* readPump fills the resp of one request that was empty, and changes no other
\* field of it and no other request.
LEMMA AnswerFacts ==
  ASSUME TypeOK, NEW s \in Sessions, ReadAnswer(s)
  PROVE  LET id == Head(down[s]).id IN
         /\ Client(s) \in Sessions
         /\ id \in 1..Len(attempt)
         /\ transactions' = [transactions EXCEPT ![Client(s)] = @ \ {id}]
         /\ Len(attempt') = Len(attempt)
         /\ \A i \in 1..Len(attempt) :
              /\ attempt'[i].client = attempt[i].client
              /\ attempt'[i].action = attempt[i].action
              /\ attempt'[i].arg = attempt[i].arg
              /\ \/ attempt'[i].resp = attempt[i].resp
                 \/ /\ i = id /\ attempt[i].resp = "none"
                    /\ attempt'[i].resp = Head(down[s]).code
<1> DEFINE id == Head(down[s]).id
<1>1. Client(s) \in Sessions
  BY ThreadFacts
<1>2. transactions' = [transactions EXCEPT ![Client(s)] = @ \ {id}] /\ id \in transactions[Client(s)]
  BY DEF ReadAnswer
<1>3. id \in 1..Len(attempt)
  BY <1>1, <1>2 DEF TypeOK, ClientTypeOK
<1>4. attempt \in Seq(Attempt) /\ attempt[id] \in Attempt
  BY <1>3 DEF TypeOK, GoroutineTypeOK
<1>5. CASE attempt' = attempt
  BY <1>1, <1>2, <1>3, <1>5
<1>6. CASE attempt[id].resp = "none" /\ attempt' = [attempt EXCEPT ![id].resp = Head(down[s]).code]
  <2>1. Len(attempt') = Len(attempt)
    BY <1>4, <1>6
  <2>2. \A i \in 1..Len(attempt) : i # id => attempt'[i] = attempt[i]
    BY <1>4, <1>6
  <2>3. attempt'[id] = [attempt[id] EXCEPT !.resp = Head(down[s]).code]
    BY <1>3, <1>4, <1>6
  <2> QED
    BY <1>1, <1>2, <1>3, <1>4, <1>6, <2>1, <2>2, <2>3 DEF Attempt
<1>7. (attempt' = attempt) \/ (attempt[id].resp = "none" /\ attempt' = [attempt EXCEPT ![id].resp = Head(down[s]).code])
  BY DEF ReadAnswer
<1> QED BY <1>5, <1>6, <1>7

LEMMA StepHook == TypeOK /\ HookNeverBlocks /\ [Next]_vars => HookNeverBlocks'
<1> SUFFICES ASSUME TypeOK, HookNeverBlocks, [Next]_vars PROVE HookNeverBlocks'
  OBVIOUS
<1> USE DEF HookNeverBlocks
<1>1. CASE UNCHANGED <<transactions, attempt>>
  BY <1>1
<1>2. ASSUME NEW t \in Threads, NEW c \in Sessions, NEW action \in Actions,
             NEW arg \in Messages \cup Threads, Register(t, c, action, arg)
      PROVE  HookNeverBlocks'
  <2> DEFINE new == Len(attempt) + 1
  <2>1. /\ \A i \in 1..Len(attempt) : attempt'[i] = attempt[i]
        /\ attempt'[new] = [client |-> c, action |-> action, arg |-> arg, resp |-> "none"]
    BY <1>2, RegisterFacts
  <2>2. transactions' = [transactions EXCEPT ![c] = @ \cup {new}]
    BY <1>2 DEF Register
  <2>3. transactions \in [Sessions -> SUBSET (1..Len(attempt))]
    BY DEF TypeOK, ClientTypeOK
  <2> QED BY <2>1, <2>2, <2>3
\* The hook leaves the map of the client whose request it was, and the request
\* is in the map of no other client.
<1>3. ASSUME NEW s \in Sessions, ReadAnswer(s) PROVE HookNeverBlocks'
  <2>1. transactions \in [Sessions -> SUBSET (1..Len(attempt))]
    BY DEF TypeOK, ClientTypeOK
  <2>2. Head(down[s]).id \in transactions[Client(s)]
    BY <1>3 DEF ReadAnswer
  <2> QED BY <1>3, <2>1, <2>2, AnswerFacts
<1> QED BY <1>1, <1>2, <1>3, StepCases

\* No answer ever waits on a full resp: a hook in the map belongs to a request
\* that was not answered, so the timeout in the hook writeMessageAndWait
\* registers never ends a readPump.
THEOREM HooksNeverBlock == Spec => []HookNeverBlocks
<1>1. Init => HookNeverBlocks
  BY DEF Init, HookNeverBlocks
<1>2. TypeOK /\ HookNeverBlocks /\ [Next]_vars => HookNeverBlocks'
  BY StepHook
<1> QED BY <1>1, <1>2, TypeCorrect, PTL DEF Spec

-----------------------------------------------------------------------------
(* READ only after OnMessage.  The invariant says of every acknowledgement   *)
(* ever made, also one that is still on its way or was lost, that the        *)
(* listener had returned nil for its message.                                *)

IsAck(i) == attempt[i].action = "ACKNOWLEDGE_MESSAGE_RECEIPT"

AckInv ==
  /\ \A i \in 1..Len(attempt) : IsAck(i) => attempt[i].arg \in handled
  /\ ReadOnlyAfterHandled

\* Only LoopHandleAndAck makes a new acknowledgement; WaitRetry repeats one.
LEMMA NewRequest ==
  ASSUME TypeOK, NEW t \in Threads, NEW c \in Sessions, NEW action \in Actions,
         NEW arg \in Messages \cup Threads, Register(t, c, action, arg),
         \A i \in 1..Len(attempt) : IsAck(i) => attempt[i].arg \in handled,
         handled \subseteq handled',
         action = "ACKNOWLEDGE_MESSAGE_RECEIPT" => arg \in handled'
  PROVE  \A i \in 1..Len(attempt') : IsAck(i)' => attempt'[i].arg \in handled'
<1>1. /\ Len(attempt) \in Nat
      /\ Len(attempt') = Len(attempt) + 1
      /\ \A i \in 1..Len(attempt) : attempt'[i] = attempt[i]
      /\ attempt'[Len(attempt) + 1] =
           [client |-> c, action |-> action, arg |-> arg, resp |-> "none"]
  BY RegisterFacts
<1> QED BY <1>1 DEF IsAck

LEMMA StepAck == TypeOK /\ AckInv /\ [Next]_vars => AckInv'
<1> SUFFICES ASSUME TypeOK, AckInv, [Next]_vars PROVE AckInv'
  OBVIOUS
<1> USE DEF mcVars, serverVars, listenerVars
<1>1. ASSUME UNCHANGED <<attempt, status>>, handled \subseteq handled' PROVE AckInv'
  BY <1>1 DEF AckInv, IsAck, ReadOnlyAfterHandled
<1>2. ASSUME UNCHANGED status, handled \subseteq handled',
             \A i \in 1..Len(attempt') : IsAck(i)' => attempt'[i].arg \in handled'
      PROVE  AckInv'
  BY <1>2 DEF AckInv, ReadOnlyAfterHandled
<1>3. ASSUME NEW t \in Threads, CallStep(t) PROVE AckInv'
  <2>1. CASE WaitRetry(t)
    <3>1. call[t].st # "idle"
      BY <2>1 DEF WaitRetry
    <3>2. /\ call[t].id \in 1..Len(attempt)
          /\ attempt[call[t].id].client \in Sessions
          /\ attempt[call[t].id].action \in Actions
          /\ attempt[call[t].id].arg \in Messages \cup Threads
      BY <3>1, CallFacts
    <3>3. IsAck(call[t].id) => attempt[call[t].id].arg \in handled
      BY <3>2 DEF AckInv
    <3>4. /\ UNCHANGED <<status, handled>>
          /\ Register(t, attempt[call[t].id].client, attempt[call[t].id].action, attempt[call[t].id].arg)
      BY <2>1 DEF WaitRetry
    <3> QED BY <1>2, <3>2, <3>3, <3>4, NewRequest DEF AckInv, IsAck
  <2>2. CASE ~WaitRetry(t)
    BY <1>1, <1>3, <2>2 DEF CallStep, EnqueueRequest, EnqueueTimeout, WaitTimeout, WaitAnswer
  <2> QED BY <2>1, <2>2
<1>4. ASSUME NEW x \in Senders, Send(x) PROVE AckInv'
  <2>1. /\ x \in Threads /\ UNCHANGED <<status, handled>>
        /\ \E c \in Sessions : Register(x, c, "CREATE_MESSAGE", x)
    BY <1>4, ThreadFacts DEF Send
  <2> QED BY <1>2, <2>1, NewRequest DEF AckInv, Actions
<1>5. ASSUME NEW s \in Sessions, LoopConnect(s) PROVE AckInv'
  <2>1. /\ s \in Threads /\ UNCHANGED <<status, handled>>
        /\ \E c \in Sessions : Register(s, c, "LIST_PENDING_MESSAGES", s)
    BY <1>5, ThreadFacts DEF LoopConnect
  <2> QED BY <1>2, <2>1, NewRequest DEF AckInv, Actions
<1>6. ASSUME NEW s \in Sessions, LoopHandleAndAck(s) PROVE AckInv'
  <2>1. /\ s \in Threads /\ msg[s].arg \in Messages \cup Threads
        /\ UNCHANGED status /\ handled' = handled \cup {msg[s].arg}
        /\ \E c \in Sessions : Register(s, c, "ACKNOWLEDGE_MESSAGE_RECEIPT", msg[s].arg)
    BY <1>6, ThreadFacts DEF LoopHandleAndAck, TypeOK, GoroutineTypeOK, Frame
  <2> QED BY <1>2, <2>1, NewRequest DEF AckInv, Actions
<1>7. ASSUME NEW s \in Sessions, LoopDialError(s) PROVE AckInv'
  BY <1>1, <1>7 DEF LoopDialError
<1>8. ASSUME NEW s \in Sessions, LoopStep(s), ~LoopHandleAndAck(s) PROVE AckInv'
  BY <1>1, <1>8 DEF LoopStep, LoopCallOk, LoopCallError, LoopReadDone, LoopTake,
                    LoopHandle, LoopHandleError
<1>9. ASSUME NEW s \in Sessions, ReadAnswer(s) PROVE AckInv'
  <2>1. UNCHANGED <<status, handled>>
    BY <1>9 DEF ReadAnswer
  <2>2. /\ Len(attempt') = Len(attempt)
        /\ \A i \in 1..Len(attempt) : /\ attempt'[i].action = attempt[i].action
                                      /\ attempt'[i].arg = attempt[i].arg
    BY <1>9, AnswerFacts
  <2> QED BY <1>2, <2>1, <2>2 DEF AckInv, IsAck
<1>10. ASSUME NEW s \in Sessions, ReadStep(s), ~ReadAnswer(s) PROVE AckInv'
  BY <1>1, <1>10 DEF ReadStep, ReadIgnored, ReadMessage, PushMessage, PushTimeout,
                     ReadError, SignalWriteDone, SignalReadDone
<1>11. ASSUME NEW s \in Sessions, WriteStep(s) \/ Break(s) PROVE AckInv'
  BY <1>1, <1>11 DEF WriteStep, WriteData, WriteError, PingError, WriteDone, Break
\* The server marks the message of an acknowledgement it received.
<1>12. ASSUME NEW s \in Sessions, ServerExecute(s) PROVE AckInv'
  <2>1. Head(up[s]) \in 1..Len(attempt)
    BY <1>12, TakenFacts DEF ServerExecute
  <2>2. UNCHANGED <<attempt, handled>>
    BY <1>12 DEF ServerExecute
  <2>3. \/ UNCHANGED status
        \/ IsAck(Head(up[s])) /\ status' = [status EXCEPT ![attempt[Head(up[s])].arg] = "read"]
    BY <1>12 DEF ServerExecute, IsAck
  <2>4. status \in [Messages -> {"absent", "pending", "read"}]
    BY DEF TypeOK, ServerTypeOK
  <2> QED BY <2>1, <2>2, <2>3, <2>4 DEF AckInv, IsAck, ReadOnlyAfterHandled
<1>13. ASSUME NEW s \in Sessions, NEW m \in Messages, ServerPush(s, m) PROVE AckInv'
  BY <1>1, <1>13 DEF ServerPush
<1>14. ASSUME NEW s \in Sessions, ServerRefuse(s) PROVE AckInv'
  BY <1>1, <1>14 DEF ServerRefuse
<1>15. ASSUME NEW m \in Messages, ServerReceive(m) PROVE AckInv'
  <2>1. status \in [Messages -> {"absent", "pending", "read"}]
    BY DEF TypeOK, ServerTypeOK
  <2> QED BY <1>15, <2>1 DEF ServerReceive, AckInv, IsAck, ReadOnlyAfterHandled
<1>16. CASE UNCHANGED vars
  BY <1>1, <1>16 DEF vars
<1> QED
  BY <1>3, <1>4, <1>5, <1>6, <1>7, <1>8, <1>9, <1>10, <1>11, <1>12, <1>13,
     <1>14, <1>15, <1>16
  DEF Next, DialStep, ServerStep, Terminated

\* The server knows a message as READ only after OnMessage returned nil for
\* it, whatever was lost, retried or answered late in between: a message whose
\* handler failed stays pending and comes again.
THEOREM ReadAfterHandled == Spec => []ReadOnlyAfterHandled
<1>1. Init => AckInv
  BY DEF Init, AckInv, ReadOnlyAfterHandled
<1>2. TypeOK /\ AckInv /\ [Next]_vars => AckInv'
  BY StepAck
<1>3. AckInv => ReadOnlyAfterHandled
  BY DEF AckInv
<1> QED BY <1>1, <1>2, <1>3, TypeCorrect, PTL DEF Spec

-----------------------------------------------------------------------------
(* A nil from writeMessageAndWait comes from the server's answer to that    *)
(* very request.  The invariant follows the answer: in flight, in the resp  *)
(* of its request, in the call that ended.                                  *)

FlightInv ==
  \A s \in Sessions : \A i \in 1..Len(down[s]) :
    down[s][i].code = "ok" => down[s][i].id \in executed

RespInv == \A i \in 1..Len(attempt) : attempt[i].resp = "ok" => i \in executed

AnswerInv == FlightInv /\ RespInv /\ NilMeansAnswered

LEMMA ToClientFlight ==
  ASSUME TypeOK, FlightInv, NEW s \in Sessions, NEW f \in Frame, ToClient(s, f),
         executed \subseteq executed', f.code = "ok" => f.id \in executed'
  PROVE  FlightInv'
<1>1. down \in [Sessions -> Seq(Frame)]
  BY DEF TypeOK, ServerTypeOK
<1>2. \A r \in Sessions : down'[r] = down[r] \/ (r = s /\ down'[r] = Append(down[r], f))
  BY <1>1 DEF ToClient
<1>3. SUFFICES ASSUME NEW r \in Sessions, NEW i \in 1..Len(down'[r]), down'[r][i].code = "ok"
               PROVE  down'[r][i].id \in executed'
  BY DEF FlightInv
<1>4. CASE down'[r] = down[r]
  BY <1>3, <1>4 DEF FlightInv
<1>5. CASE down'[r] = Append(down[r], f)
  <2>1. /\ down[r] \in Seq(Frame)
        /\ i \in 1..(Len(down[r]) + 1)
        /\ i \in 1..Len(down[r]) => down'[r][i] = down[r][i]
        /\ i = Len(down[r]) + 1 => down'[r][i] = f
    BY <1>1, <1>3, <1>5
  <2>2. CASE i \in 1..Len(down[r])
    BY <1>3, <2>1, <2>2 DEF FlightInv
  <2>3. CASE i = Len(down[r]) + 1
    BY <1>3, <2>1, <2>3
  <2> QED BY <2>1, <2>2, <2>3
<1> QED BY <1>2, <1>4, <1>5

LEMMA TailFlight ==
  ASSUME TypeOK, FlightInv, NEW s \in Sessions, down[s] # <<>>,
         down' \in {[down EXCEPT ![s] = Tail(@)], [down EXCEPT ![s] = <<>>]},
         executed' = executed
  PROVE  FlightInv'
<1>1. down \in [Sessions -> Seq(Frame)]
  BY DEF TypeOK, ServerTypeOK
<1>2. \A i \in 1..Len(Tail(down[s])) : i + 1 \in 1..Len(down[s]) /\ Tail(down[s])[i] = down[s][i + 1]
  BY <1>1
<1>3. CASE down' = [down EXCEPT ![s] = Tail(@)]
  BY <1>1, <1>2, <1>3 DEF FlightInv
<1>4. CASE down' = [down EXCEPT ![s] = <<>>]
  BY <1>1, <1>4 DEF FlightInv
<1> QED BY <1>3, <1>4

LEMMA StepFlight == TypeOK /\ FlightInv /\ [Next]_vars => FlightInv'
<1> SUFFICES ASSUME TypeOK, FlightInv, [Next]_vars PROVE FlightInv'
  OBVIOUS
<1> USE DEF mcVars, serverVars, listenerVars
<1>1. ASSUME UNCHANGED <<down, executed>> PROVE FlightInv'
  BY <1>1 DEF FlightInv
<1>2. ASSUME NEW t \in Threads, CallStep(t) PROVE FlightInv'
  BY <1>1, <1>2 DEF CallStep, EnqueueRequest, EnqueueTimeout, WaitTimeout, WaitAnswer, WaitRetry
<1>3. ASSUME NEW x \in Senders, Send(x) PROVE FlightInv'
  BY <1>1, <1>3 DEF Send
<1>4. ASSUME NEW s \in Sessions, DialStep(s) PROVE FlightInv'
  BY <1>1, <1>4 DEF DialStep, LoopConnect, LoopDialError
<1>5. ASSUME NEW s \in Sessions, LoopStep(s) PROVE FlightInv'
  BY <1>1, <1>5 DEF LoopStep, LoopCallOk, LoopCallError, LoopReadDone, LoopTake,
                    LoopHandle, LoopHandleAndAck, LoopHandleError
<1>6. ASSUME NEW s \in Sessions, ReadAnswer(s) \/ ReadIgnored(s) \/ ReadMessage(s)
      PROVE  FlightInv'
  BY <1>6, TailFlight DEF ReadAnswer, ReadIgnored, ReadMessage, EndRead
<1>7. ASSUME NEW s \in Sessions, PushTimeout(s) \/ ReadError(s) PROVE FlightInv'
  <2>1. down' = [down EXCEPT ![s] = <<>>] /\ executed' = executed
    BY <1>7 DEF PushTimeout, ReadError, EndRead
  <2>2. down \in [Sessions -> Seq(Frame)]
    BY DEF TypeOK, ServerTypeOK
  <2> QED BY <2>1, <2>2 DEF FlightInv
<1>8. ASSUME NEW s \in Sessions, PushMessage(s) \/ SignalWriteDone(s) \/ SignalReadDone(s)
      PROVE  FlightInv'
  BY <1>1, <1>8 DEF PushMessage, SignalWriteDone, SignalReadDone
<1>9. ASSUME NEW s \in Sessions, WriteStep(s) \/ Break(s) PROVE FlightInv'
  BY <1>1, <1>9 DEF WriteStep, WriteData, WriteError, PingError, WriteDone, Break
<1>10. ASSUME NEW s \in Sessions, ServerExecute(s) PROVE FlightInv'
  <2>1. AnswerFrame(Head(up[s]), "ok") \in Frame
    BY <1>10, TakenFacts DEF ServerExecute, Codes
  <2>2. executed' = executed \cup {Head(up[s])} /\ ToClient(s, AnswerFrame(Head(up[s]), "ok"))
    BY <1>10 DEF ServerExecute
  <2>3. AnswerFrame(Head(up[s]), "ok").id \in executed'
    BY <2>2 DEF AnswerFrame
  <2> QED BY <2>1, <2>2, <2>3, ToClientFlight
<1>11. ASSUME NEW s \in Sessions, ServerRefuse(s) PROVE FlightInv'
  <2>1. PICK code \in {"forbidden", "error"} : ToClient(s, AnswerFrame(Head(up[s]), code))
    BY <1>11 DEF ServerRefuse
  <2>2. AnswerFrame(Head(up[s]), code) \in Frame
    BY <1>11, TakenFacts DEF ServerRefuse, Codes
  <2>3. AnswerFrame(Head(up[s]), code).code # "ok" /\ executed' = executed
    BY <1>11 DEF ServerRefuse, AnswerFrame
  <2> QED BY <2>1, <2>2, <2>3, ToClientFlight
<1>12. ASSUME NEW s \in Sessions, NEW m \in Messages, ServerPush(s, m) PROVE FlightInv'
  <2>1. PushFrame(m) \in Frame /\ PushFrame(m).code # "ok"
    BY DEF PushFrame, Frame, Actions, Codes
  <2>2. ToClient(s, PushFrame(m)) /\ executed' = executed
    BY <1>12 DEF ServerPush
  <2> QED BY <2>1, <2>2, ToClientFlight
<1>13. ASSUME NEW m \in Messages, ServerReceive(m) PROVE FlightInv'
  BY <1>1, <1>13 DEF ServerReceive
<1>14. CASE UNCHANGED vars
  BY <1>1, <1>14 DEF vars
<1> QED
  BY <1>2, <1>3, <1>4, <1>5, <1>6, <1>7, <1>8, <1>9, <1>10, <1>11, <1>12,
     <1>13, <1>14
  DEF Next, ReadStep, ServerStep, Terminated

\* The server never takes back that it carried a request out, and a call only
\* ends with nil in WaitAnswer.
Progress ==
  /\ executed \subseteq executed'
  /\ \A t \in Threads : \/ call'[t] = call[t]
                        \/ call'[t].st # "ok"
                        \/ WaitAnswer(t)

LEMMA StepProgress == TypeOK /\ [Next]_vars => Progress
<1> SUFFICES ASSUME TypeOK, [Next]_vars PROVE Progress
  OBVIOUS
<1> USE DEF mcVars, serverVars, listenerVars
<1>1. call \in [Threads -> [st : {"idle", "enqueue", "wait", "ok", "err"}, id : 0..Len(attempt)]]
  BY DEF TypeOK, GoroutineTypeOK
<1>2. ASSUME NEW t \in Threads, CallStep(t) PROVE Progress
  <2>1. CASE WaitAnswer(t)
    BY <1>1, <2>1 DEF Progress, WaitAnswer
  <2>2. CASE WaitRetry(t)
    BY <1>1, <2>2 DEF Progress, WaitRetry, Register
  <2>3. CASE EnqueueRequest(t) \/ EnqueueTimeout(t) \/ WaitTimeout(t)
    <3>1. executed' = executed
      BY <2>3 DEF EnqueueRequest, EnqueueTimeout, WaitTimeout
    <3>2. \E st \in {"wait", "err"} : call' = [call EXCEPT ![t].st = st]
      BY <2>3 DEF EnqueueRequest, EnqueueTimeout, WaitTimeout
    <3>3. \A u \in Threads : call'[u] = call[u] \/ call'[u].st # "ok"
      BY <1>1, <3>2
    <3> QED BY <3>1, <3>3 DEF Progress
  <2> QED BY <1>2, <2>1, <2>2, <2>3 DEF CallStep
<1>3. ASSUME NEW x \in Senders, Send(x) PROVE Progress
  BY <1>1, <1>3 DEF Progress, Send, Register
<1>4. ASSUME NEW s \in Sessions, DialStep(s) PROVE Progress
  BY <1>1, <1>4 DEF Progress, DialStep, LoopConnect, LoopDialError, Register
<1>5. ASSUME NEW s \in Sessions, LoopStep(s) PROVE Progress
  BY <1>1, <1>5 DEF Progress, LoopStep, LoopCallOk, LoopCallError, LoopReadDone,
                    LoopTake, LoopHandle, LoopHandleAndAck, LoopHandleError,
                    Register, Idle
<1>6. ASSUME UNCHANGED call, executed \subseteq executed' PROVE Progress
  BY <1>6 DEF Progress
<1>7. ASSUME NEW s \in Sessions, ReadStep(s) PROVE Progress
  BY <1>6, <1>7 DEF ReadStep, ReadAnswer, ReadIgnored, ReadMessage, PushMessage,
                    PushTimeout, ReadError, SignalWriteDone, SignalReadDone
<1>8. ASSUME NEW s \in Sessions, WriteStep(s) \/ Break(s) PROVE Progress
  BY <1>6, <1>8 DEF WriteStep, WriteData, WriteError, PingError, WriteDone, Break
<1>9. ASSUME NEW s \in Sessions, ServerStep(s) PROVE Progress
  BY <1>6, <1>9 DEF ServerStep, ServerExecute, ServerRefuse, ServerPush
<1>10. ASSUME NEW m \in Messages, ServerReceive(m) PROVE Progress
  BY <1>6, <1>10 DEF ServerReceive
<1>11. CASE UNCHANGED vars
  BY <1>6, <1>11 DEF vars
<1> QED
  BY <1>2, <1>3, <1>4, <1>5, <1>7, <1>8, <1>9, <1>10, <1>11 DEF Next, Terminated

\* A request that was answered keeps its answer.
LEMMA RespKept ==
  ASSUME TypeOK, [Next]_vars, NEW i \in 1..Len(attempt), attempt[i].resp # "none"
  PROVE  i \in 1..Len(attempt') /\ attempt'[i].resp = attempt[i].resp
<1>1. CASE UNCHANGED <<transactions, attempt>>
  BY <1>1
<1>2. ASSUME NEW t \in Threads, NEW c \in Sessions, NEW action \in Actions,
             NEW arg \in Messages \cup Threads, Register(t, c, action, arg)
      PROVE  i \in 1..Len(attempt') /\ attempt'[i].resp = attempt[i].resp
  <2>1. /\ Len(attempt) \in Nat
        /\ Len(attempt') = Len(attempt) + 1
        /\ attempt'[i] = attempt[i]
    BY <1>2, RegisterFacts
  <2> QED BY <2>1
<1>3. ASSUME NEW s \in Sessions, ReadAnswer(s)
      PROVE  i \in 1..Len(attempt') /\ attempt'[i].resp = attempt[i].resp
  BY <1>3, AnswerFacts
<1> QED BY <1>1, <1>2, <1>3, StepCases

LEMMA StepResp == TypeOK /\ FlightInv /\ RespInv /\ [Next]_vars => RespInv'
<1> SUFFICES ASSUME TypeOK, FlightInv, RespInv, [Next]_vars PROVE RespInv'
  OBVIOUS
<1>1. executed \subseteq executed'
  BY StepProgress DEF Progress
<1>2. CASE UNCHANGED <<transactions, attempt>>
  BY <1>1, <1>2 DEF RespInv
<1>3. ASSUME NEW t \in Threads, NEW c \in Sessions, NEW action \in Actions,
             NEW arg \in Messages \cup Threads, Register(t, c, action, arg)
      PROVE  RespInv'
  <2>1. /\ Len(attempt) \in Nat
        /\ Len(attempt') = Len(attempt) + 1
        /\ \A i \in 1..Len(attempt) : attempt'[i] = attempt[i]
        /\ attempt'[Len(attempt) + 1] =
             [client |-> c, action |-> action, arg |-> arg, resp |-> "none"]
    BY <1>3, RegisterFacts
  <2> QED BY <1>1, <2>1 DEF RespInv
<1>4. ASSUME NEW s \in Sessions, ReadAnswer(s) PROVE RespInv'
  <2>1. Head(down[s]) = down[s][1] /\ 1 \in 1..Len(down[s])
    BY <1>4 DEF ReadAnswer, TypeOK, ServerTypeOK
  <2>2. Head(down[s]).code = "ok" => Head(down[s]).id \in executed
    BY <2>1 DEF FlightInv
  <2> QED BY <1>1, <1>4, <2>2, AnswerFacts DEF RespInv
<1> QED BY <1>2, <1>3, <1>4, StepCases

LEMMA StepNil ==
  TypeOK /\ RespInv /\ NilMeansAnswered /\ [Next]_vars => NilMeansAnswered'
<1> SUFFICES ASSUME TypeOK, RespInv, NilMeansAnswered, [Next]_vars,
                    NEW t \in Threads, call'[t].st = "ok"
             PROVE  call'[t].id \in executed' \/ attempt'[call'[t].id].resp = "forbidden"
  BY DEF NilMeansAnswered
<1>1. executed \subseteq executed'
  BY StepProgress DEF Progress
<1>2. CASE call'[t] = call[t]
  <2>1. call[t].id \in 1..Len(attempt)
    BY <1>2, CallFacts
  <2>2. CASE call[t].id \in executed
    BY <1>1, <1>2, <2>2
  <2>3. CASE attempt[call[t].id].resp = "forbidden"
    BY <1>2, <2>1, <2>3, RespKept
  <2> QED BY <1>2, <2>2, <2>3 DEF NilMeansAnswered
<1>3. CASE WaitAnswer(t)
  <2>1. call[t].id \in 1..Len(attempt)
    BY <1>3, CallFacts DEF WaitAnswer
  <2>2. call'[t].id = call[t].id /\ attempt' = attempt
    BY <1>3 DEF WaitAnswer, TypeOK, GoroutineTypeOK
  <2>3. attempt[call[t].id].resp \in {"ok", "forbidden"}
    BY <1>3 DEF WaitAnswer
  <2> QED BY <1>1, <2>1, <2>2, <2>3 DEF RespInv
<1> QED BY <1>2, <1>3, StepProgress DEF Progress

\* writeMessageAndWait returns nil only for a request of its own that the
\* server carried out, or that it refused with 403: answers to earlier
\* attempts, to other callers and from before a timeout are never mistaken
\* for it.
THEOREM NilIsAnswered == Spec => []NilMeansAnswered
<1>1. Init => AnswerInv
  BY DEF Init, AnswerInv, FlightInv, RespInv, NilMeansAnswered, Idle
<1>2. TypeOK /\ AnswerInv /\ [Next]_vars => AnswerInv'
  BY StepFlight, StepResp, StepNil DEF AnswerInv
<1>3. AnswerInv => NilMeansAnswered
  BY DEF AnswerInv
<1> QED BY <1>1, <1>2, <1>3, TypeCorrect, PTL DEF Spec
=============================================================================
