---------------------------- MODULE BlazeFeedProofs ----------------------------
(***************************************************************************)
(* The websocket client implements the feed of BlazeFeed, for any sessions,*)
(* senders, messages, capacities and errors.  The argument is about where  *)
(* a request is: it waits to be written, is in writeBuffer, on its way to  *)
(* the server, or its answer is on its way back, in one place at a time;   *)
(* and while it is anywhere its hook is in the map.  So an answer always   *)
(* finds its hook, and what finds none was pushed by the server.  With a   *)
(* client of its own for every session, what was pushed is then counted on *)
(* its way to the listener: seen, waiting, in the hand of readPump or in   *)
(* the connection, in the order of the pushes; and the goroutines of a     *)
(* connection end one another.                                             *)
(***************************************************************************)
EXTENDS BlazeProofs, FiniteSetTheorems

Once(q) == \A i, j \in 1..Len(q) : q[i] = q[j] => i = j

HasAnswer(id, q) == \E i \in 1..Len(q) : q[i].id = id
AnswersOnce(q) == \A i, j \in 1..Len(q) : q[i].id = q[j].id /\ q[i].id # 0 => i = j

\* What is left of a queue without its head holds the others, each once.
LEMMA TailOnce ==
  ASSUME NEW S, NEW q \in Seq(S), q # <<>>, Once(q)
  PROVE  /\ Once(Tail(q))
         /\ \A id : InSeq(id, Tail(q)) => InSeq(id, q) /\ id # Head(q)
<1>1. /\ Len(q) \in Nat \ {0} /\ Len(Tail(q)) = Len(q) - 1 /\ Head(q) = q[1]
      /\ \A i \in 1..Len(Tail(q)) : i + 1 \in 2..Len(q) /\ Tail(q)[i] = q[i + 1]
  OBVIOUS
<1> QED BY <1>1 DEF Once, InSeq

\* A request added to a queue that does not hold it is there once.
LEMMA AppendOnce ==
  ASSUME NEW S, NEW q \in Seq(S), NEW e, ~InSeq(e, q), Once(q)
  PROVE  /\ Once(Append(q, e))
         /\ \A id : InSeq(id, Append(q, e)) => InSeq(id, q) \/ id = e
<1>1. /\ Len(q) \in Nat /\ Len(Append(q, e)) = Len(q) + 1
      /\ \A i \in 1..Len(q) : Append(q, e)[i] = q[i]
      /\ Append(q, e)[Len(q) + 1] = e
  OBVIOUS
<1> QED BY <1>1 DEF Once, InSeq

LEMMA TailAnswers ==
  ASSUME NEW q \in Seq(Frame), q # <<>>, AnswersOnce(q)
  PROVE  /\ AnswersOnce(Tail(q))
         /\ \A id \in Nat \ {0} : HasAnswer(id, Tail(q)) => HasAnswer(id, q) /\ id # Head(q).id
<1>1. /\ Len(q) \in Nat \ {0} /\ Len(Tail(q)) = Len(q) - 1 /\ Head(q) = q[1]
      /\ \A i \in 1..Len(Tail(q)) : i + 1 \in 2..Len(q) /\ Tail(q)[i] = q[i + 1]
  OBVIOUS
<1> QED BY <1>1 DEF AnswersOnce, HasAnswer

LEMMA AppendAnswers ==
  ASSUME NEW q \in Seq(Frame), NEW f \in Frame, f.id = 0 \/ ~HasAnswer(f.id, q), AnswersOnce(q)
  PROVE  /\ AnswersOnce(Append(q, f))
         /\ \A id : HasAnswer(id, Append(q, f)) => HasAnswer(id, q) \/ id = f.id
<1>1. /\ Len(q) \in Nat /\ Len(Append(q, f)) = Len(q) + 1
      /\ \A i \in 1..Len(q) : Append(q, f)[i] = q[i]
      /\ Append(q, f)[Len(q) + 1] = f
  OBVIOUS
<1> QED BY <1>1 DEF AnswersOnce, HasAnswer

-----------------------------------------------------------------------------
(* The trip of a request *)

Ids == Nat \ {0}
Stations == {"call", "write", "up", "down"}

\* Request id is at station k of thread or session x.
At(id, k, x) ==
  \/ k = "call" /\ call[x].st = "enqueue" /\ call[x].id = id
  \/ k = "write" /\ x \in Sessions /\ InSeq(id, writeBuffer[x])
  \/ k = "up" /\ x \in Sessions /\ InSeq(id, up[x])
  \/ k = "down" /\ x \in Sessions /\ HasAnswer(id, down[x])

\* Whose map should have the hook of a request at a station.
Keeper(id, k, x) ==
  IF k = "call" THEN attempt[id].client ELSE IF k = "write" THEN x ELSE Client(x)

QueuesInv ==
  \A s \in Sessions : Once(writeBuffer[s]) /\ Once(up[s]) /\ AnswersOnce(down[s])

PlacesInv ==
  \A id \in Ids, k, l \in Stations, x, y \in Threads :
    At(id, k, x) /\ At(id, l, y) => k = l /\ x = y

HooksInv ==
  \A id \in Ids, k \in Stations, x \in Threads : At(id, k, x) => id \in transactions[Keeper(id, k, x)]

TripInv == QueuesInv /\ PlacesInv /\ HooksInv

\* A step that moves request m to station l of y, or away, and nothing else.
Moved(m, l, y) ==
  \A id \in Ids, k \in Stations, x \in Threads :
    At(id, k, x)' => \/ id # m /\ At(id, k, x)
                     \/ id = m /\ k = l /\ x = y

LEMMA Move ==
  ASSUME TripInv, QueuesInv', HooksInv', NEW m, NEW l, NEW y, Moved(m, l, y)
  PROVE  TripInv'
<1>1. PlacesInv'
  BY DEF TripInv, PlacesInv, Moved
<1> QED BY <1>1 DEF TripInv

\* A step that moves nothing, or takes some away, and leaves the hooks alone.
LEMMA Stay ==
  ASSUME TripInv, QueuesInv', transactions' = transactions, attempt' = attempt,
         \A id \in Ids, k \in Stations, x \in Threads : At(id, k, x)' => At(id, k, x)
  PROVE  TripInv'
<1>1. HooksInv'
  BY DEF TripInv, HooksInv, Keeper
<1>2. PlacesInv'
  BY DEF TripInv, PlacesInv
<1> QED BY <1>1, <1>2 DEF TripInv

\* A request that was made is somewhere only if its number is one.
LEMMA AtMade ==
  ASSUME TypeOK, TripInv, NEW id \in Ids, NEW k \in Stations, NEW x \in Threads, At(id, k, x)
  PROVE  /\ id \in 1..Len(attempt) /\ attempt[id].client \in Sessions
         /\ Keeper(id, k, x) \in Sessions
<1>1. CASE k = "call"
  <2>1. call[x].st # "idle" /\ call[x].id = id
    BY <1>1 DEF At
  <2> QED BY <1>1, <2>1, CallFacts DEF Keeper
<1>2. CASE k # "call"
  <2>1. x \in Sessions /\ Keeper(id, k, x) \in Sessions
    BY <1>2, ThreadFacts DEF At, Keeper, Stations
  <2>2. id \in transactions[Keeper(id, k, x)]
    BY DEF TripInv, HooksInv
  <2>3. id \in 1..Len(attempt)
    BY <2>1, <2>2 DEF TypeOK, ClientTypeOK
  <2>4. attempt[id] \in Attempt
    BY <2>3 DEF TypeOK, GoroutineTypeOK
  <2> QED BY <2>1, <2>3, <2>4 DEF Attempt
<1> QED BY <1>1, <1>2

\* A new request waits to be written, with its hook in the map, and is nowhere
\* else.
LEMMA RegisterTrip ==
  ASSUME TypeOK, TripInv, NEW t \in Threads, NEW c \in Sessions, NEW action \in Actions,
         NEW arg \in Messages \cup Threads, Register(t, c, action, arg),
         UNCHANGED <<writeBuffer, up, down>>
  PROVE  TripInv'
<1> DEFINE m == Len(attempt) + 1
<1>1. /\ Len(attempt) \in Nat /\ m \notin 1..Len(attempt)
      /\ \A i \in 1..Len(attempt) : attempt'[i] = attempt[i]
      /\ attempt'[m] = [client |-> c, action |-> action, arg |-> arg, resp |-> "none"]
  BY RegisterFacts
<1>2. /\ transactions' = [transactions EXCEPT ![c] = @ \cup {m}]
      /\ call' = [call EXCEPT ![t] = [st |-> "enqueue", id |-> m]]
  BY DEF Register
<1>3. /\ transactions \in [Sessions -> SUBSET (1..Len(attempt))]
      /\ DOMAIN call = Threads
  BY DEF TypeOK, ClientTypeOK, GoroutineTypeOK
<1> HIDE DEF m
<1>4. ASSUME NEW id \in Ids, NEW k \in Stations, NEW x \in Threads, At(id, k, x)'
      PROVE  (id # m /\ At(id, k, x)) \/ (id = m /\ k = "call" /\ x = t)
  <2>1. CASE k = "call" /\ x = t
    <3>1. id = m
      BY <1>2, <1>3, <1>4, <2>1 DEF At
    <3> QED BY <2>1, <3>1
  <2>2. CASE ~(k = "call" /\ x = t)
    <3>1. At(id, k, x)
      BY <1>2, <1>3, <1>4, <2>2 DEF At
    <3> QED BY <1>1, <3>1, AtMade
  <2> QED BY <2>1, <2>2
<1>5. ASSUME NEW id \in Ids, NEW k \in Stations, NEW x \in Threads, At(id, k, x)'
      PROVE  id \in transactions'[Keeper(id, k, x)']
  <2>1. CASE id # m /\ At(id, k, x)
    <3>1. id \in transactions[Keeper(id, k, x)] /\ Keeper(id, k, x) \in Sessions
      BY <2>1, AtMade DEF TripInv, HooksInv
    <3>2. Keeper(id, k, x)' = Keeper(id, k, x)
      BY <1>1, <2>1, AtMade DEF Keeper
    <3> QED BY <1>2, <1>3, <3>1, <3>2
  <2>2. CASE id = m /\ k = "call" /\ x = t
    <3>1. Keeper(id, k, x)' = c
      BY <1>1, <2>2 DEF Keeper
    <3> QED BY <1>2, <1>3, <2>2, <3>1
  <2> QED BY <1>4, <1>5, <2>1, <2>2
<1>6. QueuesInv' /\ HooksInv'
  BY <1>5 DEF TripInv, QueuesInv, HooksInv
<1>7. Moved(m, "call", t)
  BY <1>4 DEF Moved
<1> QED BY <1>6, <1>7, Move

\* A request goes from its caller into writeBuffer.
LEMMA EnqueueTrip ==
  ASSUME TypeOK, TripInv, NEW t \in Threads, EnqueueRequest(t)
  PROVE  TripInv'
<1> DEFINE m == call[t].id
           c == attempt[m].client
<1>1. /\ call[t].st = "enqueue" /\ UNCHANGED <<up, down, transactions, attempt>>
      /\ writeBuffer' = [writeBuffer EXCEPT ![c] = Append(@, m)]
      /\ call' = [call EXCEPT ![t].st = "wait"]
  BY DEF EnqueueRequest
<1>2. m \in 1..Len(attempt) /\ c \in Sessions /\ Len(attempt) \in Nat
  <2>1. call[t].st # "idle"
    BY <1>1
  <2>2. attempt \in Seq(Attempt)
    BY DEF TypeOK, GoroutineTypeOK
  <2> QED BY <2>1, <2>2, CallFacts
<1>3. m \in Ids /\ "call" \in Stations /\ At(m, "call", t) /\ c \in Threads
  BY <1>1, <1>2, ThreadFacts DEF At, Ids, Stations
<1>4. /\ writeBuffer[c] \in Seq(1..Len(attempt)) /\ DOMAIN writeBuffer = Sessions
      /\ call \in [Threads -> [st : {"idle", "enqueue", "wait", "ok", "err"}, id : 0..Len(attempt)]]
  BY <1>2 DEF TypeOK, ClientTypeOK, GoroutineTypeOK
<1> HIDE DEF m, c
<1>5. ~InSeq(m, writeBuffer[c])
  BY <1>2, <1>3 DEF TripInv, PlacesInv, At, Stations
<1>6. /\ Once(Append(writeBuffer[c], m))
      /\ \A id : InSeq(id, Append(writeBuffer[c], m)) => InSeq(id, writeBuffer[c]) \/ id = m
  BY <1>2, <1>4, <1>5, AppendOnce DEF TripInv, QueuesInv
<1>7. QueuesInv'
  BY <1>1, <1>4, <1>6 DEF TripInv, QueuesInv
<1>8. \A x \in Threads : call'[x].st = "enqueue" => x # t /\ call'[x] = call[x]
  BY <1>1, <1>4
<1>9. ASSUME NEW id \in Ids, NEW k \in Stations, NEW x \in Threads, At(id, k, x)'
      PROVE  (id # m /\ At(id, k, x)) \/ (id = m /\ k = "write" /\ x = c)
  <2>1. (At(id, k, x) /\ ~(k = "call" /\ x = t)) \/ (id = m /\ k = "write" /\ x = c)
    BY <1>1, <1>4, <1>6, <1>8, <1>9 DEF At
  <2>2. At(m, k, x) => k = "call" /\ x = t
    BY <1>3 DEF TripInv, PlacesInv
  <2> QED BY <2>1, <2>2
<1>10. m \in transactions[c]
  BY <1>3 DEF TripInv, HooksInv, Keeper, c
<1>11. ASSUME NEW id \in Ids, NEW k \in Stations, NEW x \in Threads, At(id, k, x)'
       PROVE  id \in transactions'[Keeper(id, k, x)']
  BY <1>1, <1>9, <1>10, <1>11 DEF TripInv, HooksInv, Keeper
<1>12. HooksInv'
  BY <1>11 DEF HooksInv
<1>13. Moved(m, "write", c)
  BY <1>9 DEF Moved
<1> QED BY <1>7, <1>12, <1>13, Move

\* A request that is taken from writeBuffer goes to the server or is lost.
LEMMA WriteTrip ==
  ASSUME TypeOK, TripInv, NEW s \in Sessions, WriteData(s) \/ WriteError(s)
  PROVE  TripInv'
<1> DEFINE c == Client(s)
           m == Head(writeBuffer[c])
<1>1. /\ writeBuffer[c] # <<>> /\ UNCHANGED <<call, down, transactions, attempt>>
      /\ writeBuffer' = [writeBuffer EXCEPT ![c] = Tail(@)]
      /\ up' = up \/ up' = [up EXCEPT ![s] = Append(@, m)]
  <2>1. up = [up EXCEPT ![s] = up[s]]
    BY DEF TypeOK, ServerTypeOK
  <2>2. CASE WriteData(s)
    <3>1. /\ writeBuffer[c] # <<>> /\ UNCHANGED <<call, down, transactions, attempt>>
          /\ writeBuffer' = [writeBuffer EXCEPT ![c] = Tail(@)]
          /\ up' = [up EXCEPT ![s] = IF conn[s] = "open" THEN Append(@, m) ELSE @]
      BY <2>2 DEF WriteData
    <3> QED BY <2>1, <3>1
  <2>3. CASE WriteError(s)
    BY <2>3 DEF WriteError
  <2> QED BY <2>2, <2>3
<1>2. c \in Sessions /\ c \in Threads /\ s \in Threads
  BY ThreadFacts
<1>3. /\ writeBuffer[c] \in Seq(1..Len(attempt)) /\ DOMAIN writeBuffer = Sessions
      /\ up[s] \in Seq(1..Len(attempt)) /\ DOMAIN up = Sessions /\ Len(attempt) \in Nat
  BY <1>2 DEF TypeOK, ClientTypeOK, ServerTypeOK, GoroutineTypeOK
<1>4. m \in 1..Len(attempt) /\ InSeq(m, writeBuffer[c])
  BY <1>1, <1>3 DEF InSeq
<1>5. m \in Ids /\ "write" \in Stations /\ "up" \in Stations /\ At(m, "write", c)
  BY <1>2, <1>3, <1>4 DEF At, Ids, Stations
<1>0. Client(s) = c
  OBVIOUS
<1> HIDE DEF m, c
<1>6. ~InSeq(m, up[s])
  BY <1>2, <1>5 DEF TripInv, PlacesInv, At
<1>7. /\ Once(Tail(writeBuffer[c]))
      /\ \A id : InSeq(id, Tail(writeBuffer[c])) => InSeq(id, writeBuffer[c]) /\ id # m
      /\ Once(Append(up[s], m))
      /\ \A id : InSeq(id, Append(up[s], m)) => InSeq(id, up[s]) \/ id = m
  <2>1. /\ Once(Tail(writeBuffer[c]))
        /\ \A id : InSeq(id, Tail(writeBuffer[c])) => InSeq(id, writeBuffer[c]) /\ id # m
    BY <1>1, <1>2, <1>3, TailOnce DEF TripInv, QueuesInv, m
  <2>2. Once(up[s])
    BY DEF TripInv, QueuesInv
  <2> QED BY <1>3, <1>6, <2>1, <2>2, AppendOnce
<1>8. QueuesInv'
  BY <1>1, <1>3, <1>7 DEF TripInv, QueuesInv
<1>9. ASSUME NEW id \in Ids, NEW k \in Stations, NEW x \in Threads, At(id, k, x)'
      PROVE  (id # m /\ At(id, k, x)) \/ (id = m /\ k = "up" /\ x = s)
  <2>1. At(m, k, x) => k = "write" /\ x = c
    BY <1>2, <1>5 DEF TripInv, PlacesInv
  <2>2. CASE k \in {"call", "down"}
    <3>1. At(id, k, x)
      BY <1>1, <1>9, <2>2 DEF At
    <3> QED BY <2>1, <2>2, <3>1
  <2>3. CASE k = "write"
    <3>1. At(id, k, x) /\ (x = c => id # m)
      BY <1>1, <1>3, <1>7, <1>9, <2>3 DEF At
    <3> QED BY <2>1, <3>1
  <2>4. CASE k = "up"
    <3>1. At(id, k, x) \/ (id = m /\ x = s)
      BY <1>1, <1>3, <1>7, <1>9, <2>4 DEF At
    <3> QED BY <2>1, <2>4, <3>1
  <2> QED BY <2>2, <2>3, <2>4 DEF Stations
<1>10. m \in transactions[c]
  BY <1>2, <1>5 DEF TripInv, HooksInv, Keeper
<1>11. ASSUME NEW id \in Ids, NEW k \in Stations, NEW x \in Threads, At(id, k, x)'
       PROVE  id \in transactions'[Keeper(id, k, x)']
  <2>1. CASE At(id, k, x)
    BY <1>1, <2>1 DEF TripInv, HooksInv, Keeper
  <2>2. CASE id = m /\ k = "up" /\ x = s
    BY <1>0, <1>1, <1>10, <2>2 DEF Keeper
  <2> QED BY <1>9, <1>11, <2>1, <2>2
<1>12. HooksInv'
  BY <1>11 DEF HooksInv
<1>13. Moved(m, "up", s)
  BY <1>9 DEF Moved
<1> QED BY <1>8, <1>12, <1>13, Move

\* A request the server takes is answered, or its answer is dropped.
LEMMA TakenTrip ==
  ASSUME TypeOK, TripInv, NEW s \in Sessions, ServerTakes(s),
         NEW code \in Codes, ToClient(s, AnswerFrame(Head(up[s]), code)),
         UNCHANGED <<writeBuffer, call, transactions, attempt>>
  PROVE  TripInv'
<1> DEFINE m == Head(up[s])
           f == AnswerFrame(m, code)
<1>1. /\ up[s] # <<>> /\ up' = [up EXCEPT ![s] = Tail(@)]
      /\ down' = down \/ down' = [down EXCEPT ![s] = Append(@, f)]
  <2>1. down = [down EXCEPT ![s] = down[s]]
    BY DEF TypeOK, ServerTypeOK
  <2>2. down' = [down EXCEPT ![s] = IF readPump[s] \in {"read", "push"} THEN Append(@, f) ELSE @]
    BY DEF ToClient
  <2>3. up[s] # <<>> /\ up' = [up EXCEPT ![s] = Tail(@)]
    BY DEF ServerTakes
  <2> QED BY <2>1, <2>2, <2>3
<1>2. s \in Threads
  BY ThreadFacts
<1>3. /\ up[s] \in Seq(1..Len(attempt)) /\ DOMAIN up = Sessions /\ Len(attempt) \in Nat
      /\ down[s] \in Seq(Frame) /\ DOMAIN down = Sessions
  BY DEF TypeOK, ServerTypeOK, GoroutineTypeOK
<1>4. m \in 1..Len(attempt) /\ InSeq(m, up[s])
  BY <1>1, <1>3 DEF InSeq
<1>5. m \in Ids /\ "up" \in Stations /\ "down" \in Stations /\ At(m, "up", s)
  BY <1>3, <1>4 DEF At, Ids, Stations
<1>6. f \in Frame /\ f.id = m
  BY TakenFacts DEF AnswerFrame
<1> HIDE DEF f
<1>7. ~HasAnswer(m, down[s])
  BY <1>2, <1>5 DEF TripInv, PlacesInv, At
<1>8. /\ Once(Tail(up[s])) /\ \A id : InSeq(id, Tail(up[s])) => InSeq(id, up[s]) /\ id # m
      /\ AnswersOnce(Append(down[s], f))
      /\ \A id : HasAnswer(id, Append(down[s], f)) => HasAnswer(id, down[s]) \/ id = m
  <2>1. Once(up[s]) /\ AnswersOnce(down[s])
    BY DEF TripInv, QueuesInv
  <2>2. /\ Once(Tail(up[s])) /\ \A id : InSeq(id, Tail(up[s])) => InSeq(id, up[s]) /\ id # m
    BY <1>1, <1>3, <2>1, TailOnce
  <2> QED BY <1>3, <1>6, <1>7, <2>1, <2>2, AppendAnswers
<1> HIDE DEF m
<1>9. QueuesInv'
  BY <1>1, <1>3, <1>8 DEF TripInv, QueuesInv
<1>10. ASSUME NEW id \in Ids, NEW k \in Stations, NEW x \in Threads, At(id, k, x)'
       PROVE  (id # m /\ At(id, k, x)) \/ (id = m /\ k = "down" /\ x = s)
  <2>1. At(m, k, x) => k = "up" /\ x = s
    BY <1>2, <1>5 DEF TripInv, PlacesInv
  <2>2. CASE k \in {"call", "write"}
    <3>1. At(id, k, x)
      BY <1>10, <2>2 DEF At
    <3> QED BY <2>1, <2>2, <3>1
  <2>3. CASE k = "up"
    <3>1. At(id, k, x) /\ (x = s => id # m)
      BY <1>1, <1>3, <1>8, <1>10, <2>3 DEF At
    <3> QED BY <2>1, <3>1
  <2>4. CASE k = "down"
    <3>1. At(id, k, x) \/ (id = m /\ x = s)
      BY <1>1, <1>3, <1>8, <1>10, <2>4 DEF At
    <3> QED BY <2>1, <2>4, <3>1
  <2> QED BY <2>2, <2>3, <2>4 DEF Stations
<1>11. m \in transactions[Client(s)]
  BY <1>2, <1>5 DEF TripInv, HooksInv, Keeper
<1>12. ASSUME NEW id \in Ids, NEW k \in Stations, NEW x \in Threads, At(id, k, x)'
       PROVE  id \in transactions'[Keeper(id, k, x)']
  <2>1. CASE At(id, k, x)
    BY <2>1 DEF TripInv, HooksInv, Keeper
  <2>2. CASE id = m /\ k = "down" /\ x = s
    BY <1>11, <2>2 DEF Keeper
  <2> QED BY <1>10, <1>12, <2>1, <2>2
<1>13. HooksInv'
  BY <1>12 DEF HooksInv
<1>14. Moved(m, "down", s)
  BY <1>10 DEF Moved
<1> QED BY <1>9, <1>13, <1>14, Move

\* A frame that is pushed is no answer.
LEMMA PushTrip ==
  ASSUME TypeOK, TripInv, NEW s \in Sessions, NEW m \in Messages, ToClient(s, PushFrame(m)),
         UNCHANGED <<writeBuffer, call, up, transactions, attempt>>
  PROVE  TripInv'
<1> DEFINE f == PushFrame(m)
<1>1. f \in Frame /\ f.id = 0
  BY DEF PushFrame, Frame, Actions, Codes
<1>2. down[s] \in Seq(Frame) /\ DOMAIN down = Sessions
  BY DEF TypeOK, ServerTypeOK
<1>3. down' = down \/ down' = [down EXCEPT ![s] = Append(@, f)]
  <2>1. down = [down EXCEPT ![s] = down[s]]
    BY DEF TypeOK, ServerTypeOK
  <2>2. down' = [down EXCEPT ![s] = IF readPump[s] \in {"read", "push"} THEN Append(@, f) ELSE @]
    BY DEF ToClient
  <2> QED BY <2>1, <2>2
<1> HIDE DEF f
<1>4. /\ AnswersOnce(Append(down[s], f))
      /\ \A id \in Ids : HasAnswer(id, Append(down[s], f)) => HasAnswer(id, down[s])
  BY <1>1, <1>2, AppendAnswers DEF TripInv, QueuesInv, Ids
<1>5. QueuesInv'
  BY <1>2, <1>3, <1>4 DEF TripInv, QueuesInv
<1>6. \A id \in Ids, k \in Stations, x \in Threads : At(id, k, x)' => At(id, k, x)
  BY <1>2, <1>3, <1>4 DEF At
<1> QED BY <1>5, <1>6, Stay

\* An answer that is read takes its hook out of the map, and is nowhere else.
LEMMA ReadTrip ==
  ASSUME TypeOK, TripInv, NEW s \in Sessions, ReadAnswer(s)
  PROVE  TripInv'
<1> DEFINE m == Head(down[s]).id
<1>0. PICK q \in {Tail(down[s]), <<>>} : down' = [down EXCEPT ![s] = q]
  BY DEF ReadAnswer, EndRead
<1>1. /\ down[s] # <<>>
      /\ m \in transactions[Client(s)] /\ UNCHANGED <<writeBuffer, call, up>>
  BY DEF ReadAnswer
<1>2. /\ transactions' = [transactions EXCEPT ![Client(s)] = @ \ {m}]
      /\ \A i \in 1..Len(attempt) : attempt'[i].client = attempt[i].client
  BY AnswerFacts
<1>3. /\ down[s] \in Seq(Frame) /\ DOMAIN down = Sessions
      /\ transactions \in [Sessions -> SUBSET (1..Len(attempt))]
      /\ Client(s) \in Sessions /\ Len(attempt) \in Nat
  BY ThreadFacts DEF TypeOK, ServerTypeOK, ClientTypeOK, GoroutineTypeOK
<1>4. s \in Threads /\ "down" \in Stations /\ m \in Ids /\ At(m, "down", s)
  <2>1. Head(down[s]) = down[s][1] /\ 1 \in 1..Len(down[s])
    BY <1>1, <1>3
  <2>2. HasAnswer(m, down[s])
    BY <2>1 DEF HasAnswer
  <2> QED BY <1>1, <1>3, <2>2, ThreadFacts DEF At, Ids, Stations
<1>5. /\ AnswersOnce(q)
      /\ \A id \in Ids : HasAnswer(id, q) => HasAnswer(id, down[s]) /\ id # m
  <2>1. CASE q = Tail(down[s])
    BY <1>1, <1>3, <2>1, TailAnswers DEF TripInv, QueuesInv, Ids
  <2>2. CASE q = <<>>
    BY <2>2 DEF AnswersOnce, HasAnswer
  <2> QED BY <2>1, <2>2
<1> HIDE DEF m
<1>6. QueuesInv'
  BY <1>0, <1>1, <1>3, <1>5 DEF TripInv, QueuesInv
<1>7. ASSUME NEW id \in Ids, NEW k \in Stations, NEW x \in Threads, At(id, k, x)'
      PROVE  id # m /\ At(id, k, x)
  <2>1. At(m, k, x) => k = "down" /\ x = s
    BY <1>4 DEF TripInv, PlacesInv
  <2>2. At(id, k, x) /\ (k = "down" /\ x = s => id # m)
    BY <1>0, <1>1, <1>3, <1>5, <1>7 DEF At
  <2> QED BY <2>1, <2>2
<1>8. ASSUME NEW id \in Ids, NEW k \in Stations, NEW x \in Threads, At(id, k, x)'
      PROVE  id \in transactions'[Keeper(id, k, x)']
  <2>1. id # m /\ At(id, k, x)
    BY <1>7, <1>8
  <2>2. id \in transactions[Keeper(id, k, x)] /\ Keeper(id, k, x) \in Sessions
    BY <2>1, AtMade DEF TripInv, HooksInv
  <2>3. Keeper(id, k, x)' = Keeper(id, k, x)
    BY <1>2, <2>1, AtMade DEF Keeper
  <2> QED BY <1>2, <1>3, <2>1, <2>2, <2>3
<1>9. HooksInv' /\ Moved(m, "down", s)
  BY <1>7, <1>8 DEF HooksInv, Moved
<1> QED BY <1>6, <1>9, Move

\* A queue that is emptied, or a frame without a hook that is read, moves no
\* request.
LEMMA DropTrip ==
  ASSUME TypeOK, TripInv, NEW s \in Sessions,
         UNCHANGED <<writeBuffer, call, transactions, attempt>>,
         \/ UNCHANGED up /\ down' = [down EXCEPT ![s] = <<>>]
         \/ UNCHANGED up /\ down[s] # <<>> /\ down' = [down EXCEPT ![s] = Tail(@)]
         \/ UNCHANGED down /\ up' = [up EXCEPT ![s] = <<>>]
  PROVE  TripInv'
<1>1. down[s] \in Seq(Frame) /\ DOMAIN down = Sessions /\ DOMAIN up = Sessions
  BY DEF TypeOK, ServerTypeOK
<1>2. Once(<<>>) /\ AnswersOnce(<<>>) /\ \A id : ~InSeq(id, <<>>) /\ ~HasAnswer(id, <<>>)
  BY DEF Once, AnswersOnce, InSeq, HasAnswer
<1>3. CASE UNCHANGED up /\ down[s] # <<>> /\ down' = [down EXCEPT ![s] = Tail(@)]
  <2>1. /\ AnswersOnce(Tail(down[s]))
        /\ \A id \in Ids : HasAnswer(id, Tail(down[s])) => HasAnswer(id, down[s])
    BY <1>1, <1>3, TailAnswers DEF TripInv, QueuesInv, Ids
  <2>2. QueuesInv'
    BY <1>1, <1>3, <2>1 DEF TripInv, QueuesInv
  <2>3. \A id \in Ids, k \in Stations, x \in Threads : At(id, k, x)' => At(id, k, x)
    BY <1>1, <1>3, <2>1 DEF At
  <2> QED BY <2>2, <2>3, Stay
<1>4. CASE \/ UNCHANGED up /\ down' = [down EXCEPT ![s] = <<>>]
           \/ UNCHANGED down /\ up' = [up EXCEPT ![s] = <<>>]
  <2>1. QueuesInv'
    BY <1>1, <1>2, <1>4 DEF TripInv, QueuesInv
  <2>2. \A id \in Ids, k \in Stations, x \in Threads : At(id, k, x)' => At(id, k, x)
    BY <1>1, <1>2, <1>4 DEF At
  <2> QED BY <2>1, <2>2, Stay
<1> QED BY <1>3, <1>4

\* The other steps move no request; a call may end.
LEMMA RestTrip ==
  ASSUME TypeOK, TripInv, UNCHANGED <<writeBuffer, up, down, transactions, attempt>>,
         \A t \in Threads : call'[t].st = "enqueue" => call'[t] = call[t]
  PROVE  TripInv'
<1>1. QueuesInv'
  BY DEF TripInv, QueuesInv
<1>2. \A id \in Ids, k \in Stations, x \in Threads : At(id, k, x)' => At(id, k, x)
  BY DEF At
<1> QED BY <1>1, <1>2, Stay

LEMMA StepTrip == TypeOK /\ TripInv /\ [Next]_vars => TripInv'
<1> SUFFICES ASSUME TypeOK, TripInv, [Next]_vars PROVE TripInv'
  OBVIOUS
<1> USE DEF mcVars, serverVars, listenerVars
<1>0. call \in [Threads -> [st : {"idle", "enqueue", "wait", "ok", "err"}, id : 0..Len(attempt)]]
  BY DEF TypeOK, GoroutineTypeOK
<1>1. ASSUME NEW t \in Threads, CallStep(t) PROVE TripInv'
  <2>1. CASE EnqueueRequest(t)
    BY <2>1, EnqueueTrip
  <2>2. CASE WaitRetry(t)
    <3>1. /\ attempt[call[t].id].client \in Sessions
          /\ attempt[call[t].id].action \in Actions
          /\ attempt[call[t].id].arg \in Messages \cup Threads
      BY <2>2, CallFacts DEF WaitRetry
    <3>2. /\ Register(t, attempt[call[t].id].client, attempt[call[t].id].action,
                      attempt[call[t].id].arg)
          /\ UNCHANGED <<writeBuffer, up, down>>
      BY <2>2 DEF WaitRetry
    <3> QED BY <3>1, <3>2, RegisterTrip
  <2>3. CASE EnqueueTimeout(t) \/ WaitTimeout(t) \/ WaitAnswer(t)
    <3>1. /\ UNCHANGED <<writeBuffer, up, down, transactions, attempt>>
          /\ \E st \in {"err", "ok"} : call' = [call EXCEPT ![t].st = st]
      BY <2>3 DEF EnqueueTimeout, WaitTimeout, WaitAnswer
    <3>2. \A x \in Threads : call'[x].st = "enqueue" => call'[x] = call[x]
      BY <1>0, <3>1
    <3> QED BY <3>1, <3>2, RestTrip
  <2> QED BY <1>1, <2>1, <2>2, <2>3 DEF CallStep
<1>2. ASSUME NEW x \in Senders, Send(x) PROVE TripInv'
  <2>1. /\ x \in Threads /\ UNCHANGED <<writeBuffer, up, down>>
        /\ \E c \in Sessions : Register(x, c, "CREATE_MESSAGE", x)
    BY <1>2, ThreadFacts DEF Send
  <2> QED BY <2>1, RegisterTrip DEF Actions
<1>3. ASSUME NEW s \in Sessions, LoopConnect(s) PROVE TripInv'
  <2>1. /\ s \in Threads /\ UNCHANGED <<writeBuffer, up, down>>
        /\ Client(s) \in Sessions /\ Register(s, Client(s), "LIST_PENDING_MESSAGES", s)
    BY <1>3, ThreadFacts DEF LoopConnect
  <2> QED BY <2>1, RegisterTrip DEF Actions
<1>4. ASSUME NEW s \in Sessions, LoopHandleAndAck(s) PROVE TripInv'
  <2>1. /\ s \in Threads /\ UNCHANGED <<writeBuffer, up, down>> /\ Client(s) \in Sessions
        /\ msg[s].arg \in Messages \cup Threads
        /\ Register(s, Client(s), "ACKNOWLEDGE_MESSAGE_RECEIPT", msg[s].arg)
    BY <1>4, ThreadFacts DEF LoopHandleAndAck, TypeOK, GoroutineTypeOK, Frame
  <2> QED BY <2>1, RegisterTrip DEF Actions
<1>5. ASSUME UNCHANGED <<writeBuffer, up, down, transactions, attempt, call>> PROVE TripInv'
  BY <1>5, RestTrip
<1>6. ASSUME NEW s \in Sessions, LoopDialError(s) PROVE TripInv'
  BY <1>5, <1>6 DEF LoopDialError
<1>7. ASSUME NEW s \in Sessions, LoopStep(s), ~LoopHandleAndAck(s) PROVE TripInv'
  <2>1. CASE LoopCallOk(s)
    <3>1. /\ UNCHANGED <<writeBuffer, up, down, transactions, attempt>>
          /\ call' = [call EXCEPT ![s] = Idle]
      BY <2>1 DEF LoopCallOk
    <3>2. \A x \in Threads : call'[x].st = "enqueue" => call'[x] = call[x]
      BY <1>0, <3>1 DEF Idle
    <3> QED BY <3>1, <3>2, RestTrip
  <2>2. CASE ~LoopCallOk(s)
    BY <1>5, <1>7, <2>2 DEF LoopStep, LoopCallError, LoopReadDone, LoopTake, LoopHandle,
                            LoopHandleError
  <2> QED BY <2>1, <2>2
<1>8. ASSUME NEW s \in Sessions, ReadStep(s) PROVE TripInv'
  <2>1. CASE ReadAnswer(s)
    BY <2>1, ReadTrip
  <2>2. CASE ReadIgnored(s) \/ ReadMessage(s)
    BY <2>2, DropTrip DEF ReadIgnored, ReadMessage
  <2>3. CASE PushTimeout(s) \/ ReadError(s)
    BY <2>3, DropTrip DEF PushTimeout, ReadError, EndRead
  <2>4. CASE PushMessage(s) \/ SignalWriteDone(s) \/ SignalReadDone(s)
    BY <1>5, <2>4 DEF PushMessage, SignalWriteDone, SignalReadDone
  <2> QED BY <1>8, <2>1, <2>2, <2>3, <2>4 DEF ReadStep
<1>9. ASSUME NEW s \in Sessions, WriteStep(s) \/ Break(s) PROVE TripInv'
  <2>1. CASE WriteData(s) \/ WriteError(s)
    BY <2>1, WriteTrip
  <2>2. CASE PingError(s) \/ WriteDone(s)
    BY <1>5, <2>2 DEF PingError, WriteDone
  <2>3. CASE Break(s)
    BY <2>3, DropTrip DEF Break
  <2> QED BY <1>9, <2>1, <2>2, <2>3 DEF WriteStep
<1>10. ASSUME NEW s \in Sessions, ServerStep(s) PROVE TripInv'
  <2>1. CASE ServerExecute(s) \/ ServerRefuse(s)
    <3>1. /\ ServerTakes(s) /\ UNCHANGED <<writeBuffer, call, transactions, attempt>>
          /\ \E code \in {"ok", "forbidden", "error"} :
               ToClient(s, AnswerFrame(Head(up[s]), code))
      BY <2>1 DEF ServerExecute, ServerRefuse
    <3> QED BY <3>1, TakenTrip DEF Codes
  <2>2. ASSUME NEW m \in Messages, ServerPush(s, m) PROVE TripInv'
    BY <2>2, PushTrip DEF ServerPush
  <2> QED BY <1>10, <2>1, <2>2 DEF ServerStep
<1>11. ASSUME NEW m \in Messages, ServerReceive(m) PROVE TripInv'
  BY <1>5, <1>11 DEF ServerReceive
<1>12. CASE UNCHANGED vars
  BY <1>5, <1>12 DEF vars
<1> QED
  BY <1>1, <1>2, <1>3, <1>4, <1>6, <1>7, <1>8, <1>9, <1>10, <1>11, <1>12
  DEF Next, DialStep, Terminated

-----------------------------------------------------------------------------
(* The frames that reach the listener *)

\* A frame that pushes a message the server has.
Known(m, st) == m \in Messages /\ st[m] # "absent"
Pushed(f, st) == f.id = 0 /\ Known(f.arg, st)

DownInv ==
  \A s \in Sessions : \A i \in 1..Len(down[s]) : down[s][i].id = 0 => Pushed(down[s][i], status)

FeedInv ==
  /\ DownInv
  /\ \A s \in Sessions : readPump[s] = "push" => Pushed(hand[s], status)
  /\ \A c \in Sessions : \A i \in 1..Len(readBuffer[c]) : Pushed(readBuffer[c][i], status)
  /\ \A s \in Sessions : loop[s] = "handle" => Pushed(msg[s], status)
  /\ \A m \in handled : Known(m, status)

\* What the server has once it has for good.
Keeps == \A m : Known(m, status) => Known(m, status')

\* A step that gives the listener's side nothing it did not have.
LEMMA NothingNew ==
  ASSUME FeedInv, Keeps, DownInv',
         \A s \in Sessions : readPump'[s] = "push" => readPump[s] = "push" /\ hand'[s] = hand[s],
         \A s \in Sessions : loop'[s] = "handle" => loop[s] = "handle" /\ msg'[s] = msg[s],
         readBuffer' = readBuffer,
         \A m \in handled' : Known(m, status)
  PROVE  FeedInv'
BY DEF FeedInv, Pushed, Keeps

LEMMA SameDown ==
  ASSUME FeedInv, Keeps, down' = down
  PROVE  DownInv'
BY DEF FeedInv, DownInv, Pushed, Keeps

\* What is left of the frames of a connection, or one frame more.
LEMMA TailDown ==
  ASSUME TypeOK, FeedInv, Keeps, NEW s \in Sessions, down[s] # <<>>,
         down' = [down EXCEPT ![s] = Tail(@)]
  PROVE  DownInv'
<1>1. down \in [Sessions -> Seq(Frame)]
  BY DEF TypeOK, ServerTypeOK
<1>2. \A i \in 1..Len(Tail(down[s])) : i + 1 \in 1..Len(down[s]) /\ Tail(down[s])[i] = down[s][i + 1]
  BY <1>1
<1> QED BY <1>1, <1>2 DEF FeedInv, DownInv, Pushed, Keeps

LEMMA MoreDown ==
  ASSUME TypeOK, FeedInv, Keeps, NEW s \in Sessions, NEW f \in Frame, ToClient(s, f),
         f.id = 0 => Pushed(f, status')
  PROVE  DownInv'
<1>1. down \in [Sessions -> Seq(Frame)]
  BY DEF TypeOK, ServerTypeOK
<1>2. \A r \in Sessions : down'[r] = down[r] \/ (r = s /\ down'[r] = Append(down[r], f))
  BY <1>1 DEF ToClient
<1>3. SUFFICES ASSUME NEW r \in Sessions, NEW i \in 1..Len(down'[r]), down'[r][i].id = 0
               PROVE  Pushed(down'[r][i], status')
  BY DEF DownInv
<1>4. CASE i \in 1..Len(down[r]) /\ down'[r][i] = down[r][i]
  BY <1>3, <1>4 DEF FeedInv, DownInv, Pushed, Keeps
<1>5. CASE down'[r][i] = f
  BY <1>3, <1>5
<1>6. CASE down'[r] = down[r]
  BY <1>3, <1>4, <1>6
<1>7. CASE down'[r] = Append(down[r], f)
  <2>1. /\ down[r] \in Seq(Frame) /\ i \in 1..(Len(down[r]) + 1)
        /\ i \in 1..Len(down[r]) => down'[r][i] = down[r][i]
        /\ i = Len(down[r]) + 1 => down'[r][i] = f
    BY <1>1, <1>3, <1>7
  <2> QED BY <1>4, <1>5, <2>1
<1> QED BY <1>2, <1>6, <1>7

\* A message that is there stays, so what was pushed stays a push of it.
LEMMA StepKeeps == TypeOK /\ AckInv /\ FeedInv /\ [Next]_vars => Keeps
<1> SUFFICES ASSUME TypeOK, AckInv, FeedInv, [Next]_vars, NEW m, Known(m, status) PROVE Known(m, status')
  BY DEF Keeps
<1> USE DEF mcVars, serverVars, listenerVars
<1>1. status \in [Messages -> {"absent", "pending", "read"}]
  BY DEF TypeOK, ServerTypeOK
<1>2. CASE status' = status
  BY <1>2 DEF Known
<1>3. ASSUME NEW x, NEW st \in {"pending", "read"}, status' = [status EXCEPT ![x] = st]
      PROVE  Known(m, status')
  BY <1>1, <1>3 DEF Known
<1>4. ASSUME NEW s \in Sessions, ServerExecute(s) PROVE Known(m, status')
  BY <1>2, <1>3, <1>4 DEF ServerExecute
<1>5. ASSUME NEW s \in Sessions, ServerStep(s), ~ServerExecute(s) PROVE Known(m, status')
  BY <1>2, <1>5 DEF ServerStep, ServerRefuse, ServerPush
<1>6. ASSUME NEW n \in Messages, ServerReceive(n) PROVE Known(m, status')
  BY <1>3, <1>6 DEF ServerReceive
<1>7. ASSUME NEW t \in Threads, CallStep(t) PROVE Known(m, status')
  BY <1>2, <1>7 DEF CallStep, EnqueueRequest, EnqueueTimeout, WaitTimeout, WaitAnswer, WaitRetry
<1>8. ASSUME NEW x \in Senders, Send(x) PROVE Known(m, status')
  BY <1>2, <1>8 DEF Send
<1>9. ASSUME NEW s \in Sessions, DialStep(s) \/ LoopStep(s) PROVE Known(m, status')
  BY <1>2, <1>9 DEF DialStep, LoopConnect, LoopDialError, LoopStep, LoopCallOk, LoopCallError,
                    LoopReadDone, LoopTake, LoopHandle, LoopHandleAndAck, LoopHandleError
<1>10. ASSUME NEW s \in Sessions, ReadStep(s) PROVE Known(m, status')
  BY <1>2, <1>10 DEF ReadStep, ReadAnswer, ReadIgnored, ReadMessage, PushMessage, PushTimeout,
                     ReadError, SignalWriteDone, SignalReadDone
<1>11. ASSUME NEW s \in Sessions, WriteStep(s) \/ Break(s) PROVE Known(m, status')
  BY <1>2, <1>11 DEF WriteStep, WriteData, WriteError, PingError, WriteDone, Break
<1>12. CASE UNCHANGED vars
  BY <1>2, <1>12 DEF vars
<1> QED
  BY <1>4, <1>5, <1>6, <1>7, <1>8, <1>9, <1>10, <1>11, <1>12 DEF Next, Terminated

\* A frame readPump hands on.
IsPush(f) == f.id = 0 /\ ForListener(f)

\* What readPump hands on has no hook, so it is no answer.
LEMMA HandedIsPush ==
  ASSUME TypeOK, TripInv, NEW s \in Sessions, ReadMessage(s)
  PROVE  IsPush(Head(down[s]))
<1>1. down[s] # <<>> /\ Head(down[s]).id \notin transactions[Client(s)] /\ ForListener(Head(down[s]))
  BY DEF ReadMessage
<1>2. down[s] \in Seq(Frame)
  BY DEF TypeOK, ServerTypeOK
<1>3. Head(down[s]) = down[s][1] /\ 1 \in 1..Len(down[s]) /\ Head(down[s]) \in Frame
  BY <1>1, <1>2
<1>4. Head(down[s]).id = 0
  <2> SUFFICES ASSUME Head(down[s]).id # 0 PROVE FALSE
    OBVIOUS
  <2>1. /\ Head(down[s]).id \in Ids /\ "down" \in Stations /\ s \in Threads
        /\ At(Head(down[s]).id, "down", s)
    BY <1>3, ThreadFacts DEF Frame, Ids, Stations, At, HasAnswer
  <2> QED BY <1>1, <2>1 DEF TripInv, HooksInv, Keeper
<1> QED BY <1>1, <1>4 DEF IsPush

\* So the frame in its hand is a push of a message the server has.
LEMMA ReadMessageFeed ==
  ASSUME TypeOK, TripInv, FeedInv, Keeps, NEW s \in Sessions, ReadMessage(s)
  PROVE  FeedInv'
<1>1. /\ down[s] # <<>> /\ Head(down[s]).id \notin transactions[Client(s)]
      /\ hand' = [hand EXCEPT ![s] = Head(down[s])]
      /\ readPump' = [readPump EXCEPT ![s] = "push"]
      /\ down' = [down EXCEPT ![s] = Tail(@)]
      /\ UNCHANGED <<readBuffer, loop, msg, handled>>
  BY DEF ReadMessage, mcVars, listenerVars
<1>2. down[s] \in Seq(Frame) /\ hand \in [Sessions -> Frame] /\ DOMAIN readPump = Sessions
  BY DEF TypeOK, ServerTypeOK, GoroutineTypeOK
<1>3. Head(down[s]) = down[s][1] /\ 1 \in 1..Len(down[s]) /\ Head(down[s]) \in Frame
  BY <1>1, <1>2
<1>4. Head(down[s]).id = 0
  BY HandedIsPush DEF IsPush
<1>5. Pushed(Head(down[s]), status)
  BY <1>3, <1>4 DEF FeedInv, DownInv
<1>6. DownInv'
  BY <1>1, TailDown
<1> QED BY <1>1, <1>2, <1>5, <1>6 DEF FeedInv, Pushed, Keeps

\* It is pushed into readBuffer, and Loop takes it from there.
LEMMA BufferFeed ==
  ASSUME TypeOK, FeedInv, Keeps, NEW s \in Sessions, PushMessage(s) \/ LoopTake(s)
  PROVE  FeedInv'
<1> DEFINE c == Client(s)
<1>1. /\ c \in Sessions /\ readBuffer \in [Sessions -> Seq(Frame)]
      /\ hand[s] \in Frame /\ DOMAIN msg = Sessions
      /\ DOMAIN readPump = Sessions /\ DOMAIN loop = Sessions
  BY ThreadFacts DEF TypeOK, ClientTypeOK, GoroutineTypeOK
<1> HIDE DEF c
<1>2. CASE PushMessage(s)
  <2>1. /\ readPump[s] = "push" /\ readPump' = [readPump EXCEPT ![s] = "read"]
        /\ readBuffer' = [readBuffer EXCEPT ![c] = Append(@, hand[s])]
        /\ UNCHANGED <<down, hand, loop, msg, handled>>
    BY <1>2 DEF PushMessage, listenerVars, c
  <2>2. Pushed(hand[s], status)
    BY <2>1 DEF FeedInv
  <2>3. \A i \in 1..Len(readBuffer'[c]) : readBuffer'[c][i] = hand[s] \/
          (i \in 1..Len(readBuffer[c]) /\ readBuffer'[c][i] = readBuffer[c][i])
    <3>1. /\ readBuffer[c] \in Seq(Frame) /\ readBuffer'[c] = Append(readBuffer[c], hand[s])
      BY <1>1, <2>1
    <3> QED BY <1>1, <3>1
  <2>4. \A d \in Sessions : \A i \in 1..Len(readBuffer'[d]) : Pushed(readBuffer'[d][i], status)
    BY <1>1, <2>1, <2>2, <2>3 DEF FeedInv
  <2>5. DownInv'
    BY <2>1, SameDown
  <2> QED BY <1>1, <2>1, <2>4, <2>5 DEF FeedInv, Pushed, Keeps
<1>3. CASE LoopTake(s)
  <2>1. /\ readBuffer[c] # <<>> /\ msg' = [msg EXCEPT ![s] = Head(readBuffer[c])]
        /\ readBuffer' = [readBuffer EXCEPT ![c] = Tail(@)]
        /\ loop' = [loop EXCEPT ![s] = "handle"]
        /\ UNCHANGED <<down, hand, readPump, handled>>
    BY <1>3 DEF LoopTake, c
  <2>2. readBuffer[c] \in Seq(Frame)
    BY <1>1
  <2>3. /\ Head(readBuffer[c]) = readBuffer[c][1] /\ 1 \in 1..Len(readBuffer[c])
        /\ \A i \in 1..Len(Tail(readBuffer[c])) :
             i + 1 \in 1..Len(readBuffer[c]) /\ Tail(readBuffer[c])[i] = readBuffer[c][i + 1]
    BY <2>1, <2>2
  <2>4. Pushed(Head(readBuffer[c]), status)
    BY <1>1, <2>3 DEF FeedInv
  <2>5. \A d \in Sessions : \A i \in 1..Len(readBuffer'[d]) : Pushed(readBuffer'[d][i], status)
    BY <1>1, <2>1, <2>3 DEF FeedInv
  <2>6. DownInv'
    BY <2>1, SameDown
  <2> QED BY <1>1, <2>1, <2>4, <2>5, <2>6 DEF FeedInv, Pushed, Keeps
<1> QED BY <1>2, <1>3

LEMMA StepFeed == TypeOK /\ AckInv /\ TripInv /\ FeedInv /\ [Next]_vars => FeedInv'
<1> SUFFICES ASSUME TypeOK, AckInv, TripInv, FeedInv, [Next]_vars PROVE FeedInv'
  OBVIOUS
<1> USE DEF mcVars, serverVars, listenerVars
<1>0. Keeps
  BY StepKeeps
<1>1. /\ DOMAIN readPump = Sessions /\ DOMAIN loop = Sessions /\ DOMAIN down = Sessions
      /\ \A m \in handled : Known(m, status)
  BY DEF TypeOK, GoroutineTypeOK, ServerTypeOK, FeedInv
<1>2. ASSUME UNCHANGED <<down, readPump, hand, loop, msg, readBuffer, handled>> PROVE FeedInv'
  BY <1>0, <1>1, <1>2, NothingNew, SameDown
<1>3. ASSUME NEW t \in Threads, CallStep(t) PROVE FeedInv'
  BY <1>2, <1>3 DEF CallStep, EnqueueRequest, EnqueueTimeout, WaitTimeout, WaitAnswer, WaitRetry
<1>4. ASSUME NEW x \in Senders, Send(x) PROVE FeedInv'
  BY <1>2, <1>4 DEF Send
\* Loop goes anywhere but to its handler.
<1>5. ASSUME NEW s \in Sessions,
             DialStep(s) \/ LoopCallOk(s) \/ LoopCallError(s) \/ LoopReadDone(s)
               \/ LoopHandleError(s)
      PROVE  FeedInv'
  <2>1. /\ \E l \in {"list", "returned", "select"} : loop' = [loop EXCEPT ![s] = l]
        /\ readPump' = readPump \/ readPump' = [readPump EXCEPT ![s] = "read"]
        /\ UNCHANGED <<down, hand, msg, readBuffer, handled>>
    BY <1>5 DEF DialStep, LoopConnect, LoopDialError, LoopCallOk, LoopCallError, LoopReadDone,
                LoopHandleError, Return
  <2> QED BY <1>0, <1>1, <2>1, NothingNew, SameDown
<1>6. ASSUME NEW s \in Sessions, LoopHandle(s) \/ LoopHandleAndAck(s) PROVE FeedInv'
  <2>1. /\ loop[s] = "handle" /\ handled' = handled \cup {msg[s].arg}
        /\ \E l \in {"select", "ack"} : loop' = [loop EXCEPT ![s] = l]
        /\ UNCHANGED <<down, hand, msg, readBuffer, readPump>>
    BY <1>6 DEF LoopHandle, LoopHandleAndAck
  <2>2. \A m \in handled' : Known(m, status)
    BY <1>1, <2>1 DEF FeedInv, Pushed
  <2> QED BY <1>0, <1>1, <2>1, <2>2, NothingNew, SameDown
<1>7. ASSUME NEW s \in Sessions, (ReadAnswer(s) /\ ~EndRead(s)) \/ ReadIgnored(s) PROVE FeedInv'
  <2>1. /\ down[s] # <<>> /\ down' = [down EXCEPT ![s] = Tail(@)]
        /\ UNCHANGED <<hand, loop, msg, readBuffer, readPump, handled>>
    BY <1>7 DEF ReadAnswer, ReadIgnored
  <2> QED BY <1>0, <1>1, <2>1, NothingNew, TailDown
<1>8. ASSUME NEW s \in Sessions, PushTimeout(s) \/ ReadError(s) \/ ReadAnswer(s), EndRead(s)
      PROVE  FeedInv'
  <2>1. /\ down' = [down EXCEPT ![s] = <<>>] /\ readPump' = [readPump EXCEPT ![s] = "writeDone"]
        /\ UNCHANGED <<hand, loop, msg, readBuffer, handled>>
    BY <1>8 DEF PushTimeout, ReadError, ReadAnswer, EndRead
  <2>2. DownInv'
    BY <1>0, <1>1, <2>1 DEF FeedInv, DownInv, Pushed, Keeps
  <2> QED BY <1>0, <1>1, <2>1, <2>2, NothingNew
<1>9. ASSUME NEW s \in Sessions, SignalWriteDone(s) \/ SignalReadDone(s) PROVE FeedInv'
  <2>1. /\ \E p \in {"readDone", "exited"} : readPump' = [readPump EXCEPT ![s] = p]
        /\ UNCHANGED <<down, hand, loop, msg, readBuffer, handled>>
    BY <1>9 DEF SignalWriteDone, SignalReadDone
  <2> QED BY <1>0, <1>1, <2>1, NothingNew, SameDown
<1>10. ASSUME NEW s \in Sessions, WriteStep(s) \/ Break(s) PROVE FeedInv'
  BY <1>2, <1>10 DEF WriteStep, WriteData, WriteError, PingError, WriteDone, Break
<1>11. ASSUME NEW s \in Sessions, ServerExecute(s) \/ ServerRefuse(s) PROVE FeedInv'
  <2>1. /\ ServerTakes(s) /\ UNCHANGED <<hand, loop, msg, readBuffer, readPump, handled>>
        /\ \E code \in {"ok", "forbidden", "error"} :
             ToClient(s, AnswerFrame(Head(up[s]), code))
    BY <1>11 DEF ServerExecute, ServerRefuse
  <2>2. PICK code \in Codes : ToClient(s, AnswerFrame(Head(up[s]), code))
    BY <2>1 DEF Codes
  <2>3. /\ AnswerFrame(Head(up[s]), code) \in Frame
        /\ AnswerFrame(Head(up[s]), code).id \in 1..Len(attempt)
    BY <2>1, TakenFacts DEF AnswerFrame
  <2>4. DownInv'
    BY <1>0, <2>2, <2>3, MoreDown
  <2> QED BY <1>0, <1>1, <2>1, <2>4, NothingNew
<1>12. ASSUME NEW s \in Sessions, NEW m \in Messages, ServerPush(s, m) PROVE FeedInv'
  <2>1. /\ status[m] = "pending" /\ ToClient(s, PushFrame(m))
        /\ UNCHANGED <<status, hand, loop, msg, readBuffer, readPump, handled>>
    BY <1>12 DEF ServerPush
  <2>2. PushFrame(m) \in Frame /\ Pushed(PushFrame(m), status')
    BY <2>1 DEF PushFrame, Frame, Actions, Codes, Pushed, Known
  <2>3. DownInv'
    BY <1>0, <2>1, <2>2, MoreDown
  <2> QED BY <1>0, <1>1, <2>1, <2>3, NothingNew
<1>13. ASSUME NEW m \in Messages, ServerReceive(m) PROVE FeedInv'
  BY <1>2, <1>13 DEF ServerReceive
<1>14. CASE UNCHANGED vars
  BY <1>2, <1>14 DEF vars
<1>15. ASSUME NEW s \in Sessions, ReadStep(s) PROVE FeedInv'
  <2>1. CASE ReadAnswer(s)
    BY <1>7, <1>8, <2>1
  <2>2. CASE ReadMessage(s)
    BY <1>0, <2>2, ReadMessageFeed
  <2>3. CASE PushMessage(s)
    BY <1>0, <2>3, BufferFeed
  <2>4. CASE ReadIgnored(s)
    BY <1>7, <2>4
  <2>5. CASE PushTimeout(s) \/ ReadError(s)
    <3>1. EndRead(s)
      BY <2>5 DEF PushTimeout, ReadError
    <3> QED BY <1>8, <2>5, <3>1
  <2>6. CASE SignalWriteDone(s) \/ SignalReadDone(s)
    BY <1>9, <2>6
  <2> QED BY <1>15, <2>1, <2>2, <2>3, <2>4, <2>5, <2>6 DEF ReadStep
<1> QED
  BY <1>0, <1>3, <1>4, <1>5, <1>6, <1>10, <1>11, <1>12, <1>13, <1>14, <1>15, BufferFeed
  DEF Next, LoopStep, ServerStep, Terminated

-----------------------------------------------------------------------------
(* The theorems *)

ListenerInv == TypeOK /\ AckInv /\ TripInv /\ FeedInv

LEMMA ListenerInvHolds == Spec => []ListenerInv
<1>1. Init => TypeOK
  BY InitType
<1>2. Init => AckInv
  BY DEF Init, AckInv, ReadOnlyAfterHandled
<1>3. Init => TripInv
  <2> SUFFICES ASSUME Init PROVE TripInv
    OBVIOUS
  <2>1. \A s \in Sessions : writeBuffer[s] = <<>> /\ up[s] = <<>> /\ down[s] = <<>>
    BY DEF Init
  <2>2. QueuesInv
    BY <2>1 DEF QueuesInv, Once, AnswersOnce
  <2>3. \A id, k, x : x \in Threads => ~At(id, k, x)
    BY <2>1 DEF Init, At, InSeq, HasAnswer, Idle
  <2> QED BY <2>2, <2>3 DEF TripInv, PlacesInv, HooksInv
<1>4. Init => FeedInv
  BY DEF Init, FeedInv, DownInv
<1>5. ListenerInv /\ [Next]_vars => ListenerInv'
  BY StepType, StepAck, StepTrip, StepFeed DEF ListenerInv
<1> QED BY <1>1, <1>2, <1>3, <1>4, <1>5, PTL DEF Spec, ListenerInv

\* The answer to a request never reaches the listener, however late it comes and
\* whichever attempts were made since: writeMessageAndWait leaves its hook in the
\* map when it gives up, and readPump finds it there.
THEOREM AnswersAreKept == Spec => []AnswersStayOut
<1>1. ListenerInv => AnswersStayOut
  BY DEF ListenerInv, FeedInv, Pushed, AnswersStayOut
<1> QED BY <1>1, ListenerInvHolds, PTL

\* The client implements BlazeFeed: whatever is lost, full, late, refused or
\* retried, on any sequence of connections and with any number of senders, the
\* listener handles only messages the server has, and the server learns that one
\* is READ only after it was handled.
THEOREM FeedImplemented == Spec => ImplementsFeed
<1>1. Init => Feed!Init
  BY DEF Init, Feed!Init
<1>2. ListenerInv /\ [Next]_vars => [Feed!Next]_<<status, handled>>
  <2> SUFFICES ASSUME ListenerInv, [Next]_vars PROVE [Feed!Next]_<<status, handled>>
    OBVIOUS
  <2> USE DEF mcVars, serverVars, listenerVars, ListenerInv
  <2>1. status \in [Messages -> {"absent", "pending", "read"}]
    BY DEF TypeOK, ServerTypeOK
  <2>2. ASSUME NEW s \in Sessions, LoopHandle(s) \/ LoopHandleAndAck(s) PROVE Feed!Next
    <3>1. /\ loop[s] = "handle" /\ handled' = handled \cup {msg[s].arg} /\ status' = status
      BY <2>2 DEF LoopHandle, LoopHandleAndAck
    <3>2. msg[s].arg \in Messages /\ status[msg[s].arg] # "absent"
      BY <3>1 DEF FeedInv, Pushed, Known
    <3> QED BY <3>1, <3>2 DEF Feed!Next, Feed!Handle
  <2>3. ASSUME NEW s \in Sessions, ServerExecute(s) PROVE [Feed!Next]_<<status, handled>>
    <3> DEFINE a == attempt[Head(up[s])]
    <3>1. /\ Head(up[s]) \in 1..Len(attempt) /\ handled' = handled
          /\ status' = status \/ (a.action = "ACKNOWLEDGE_MESSAGE_RECEIPT"
                                  /\ status' = [status EXCEPT ![a.arg] = "read"])
      BY <2>3, TakenFacts DEF ServerExecute
    <3>2. CASE status' = status
      BY <3>1, <3>2
    <3>3. CASE /\ a.action = "ACKNOWLEDGE_MESSAGE_RECEIPT"
               /\ status' = [status EXCEPT ![a.arg] = "read"]
      <4>1. a.arg \in handled
        BY <3>1, <3>3 DEF AckInv, IsAck
      <4>2. a.arg \in Messages /\ status[a.arg] # "absent"
        BY <4>1 DEF FeedInv, Known
      <4>3. CASE status[a.arg] = "read"
        BY <2>1, <3>1, <3>3, <4>2, <4>3
      <4>4. CASE status[a.arg] = "pending"
        BY <3>1, <3>3, <4>1, <4>2, <4>4 DEF Feed!Next, Feed!Acknowledge
      <4> QED BY <2>1, <4>2, <4>3, <4>4
    <3> QED BY <3>1, <3>2, <3>3
  <2>4. ASSUME NEW m \in Messages, ServerReceive(m) PROVE Feed!Next
    BY <2>4 DEF ServerReceive, Feed!Next, Feed!Arrive
  <2>5. ASSUME NEW t \in Threads, CallStep(t) PROVE UNCHANGED <<status, handled>>
    BY <2>5 DEF CallStep, EnqueueRequest, EnqueueTimeout, WaitTimeout, WaitAnswer, WaitRetry
  <2>6. ASSUME NEW x \in Senders, Send(x) PROVE UNCHANGED <<status, handled>>
    BY <2>6 DEF Send
  <2>7. ASSUME NEW s \in Sessions,
               \/ DialStep(s) \/ WriteStep(s) \/ Break(s) \/ ReadStep(s)
               \/ LoopStep(s) /\ ~(LoopHandle(s) \/ LoopHandleAndAck(s))
               \/ ServerStep(s) /\ ~ServerExecute(s)
        PROVE  UNCHANGED <<status, handled>>
    <3>1. CASE DialStep(s) \/ WriteStep(s) \/ Break(s)
      BY <3>1 DEF DialStep, LoopConnect, LoopDialError, WriteStep, WriteData, WriteError,
                  PingError, WriteDone, Break
    <3>2. CASE ReadStep(s)
      BY <3>2 DEF ReadStep, ReadAnswer, ReadIgnored, ReadMessage, PushMessage, PushTimeout,
                  ReadError, SignalWriteDone, SignalReadDone
    <3>3. CASE LoopStep(s) /\ ~(LoopHandle(s) \/ LoopHandleAndAck(s))
      BY <3>3 DEF LoopStep, LoopCallOk, LoopCallError, LoopReadDone, LoopTake, LoopHandleError
    <3>4. CASE ServerStep(s) /\ ~ServerExecute(s)
      BY <3>4 DEF ServerStep, ServerRefuse, ServerPush
    <3> QED BY <2>7, <3>1, <3>2, <3>3, <3>4
  <2>8. CASE UNCHANGED vars
    BY <2>8 DEF vars
  <2> QED
    BY <2>2, <2>3, <2>4, <2>5, <2>6, <2>7, <2>8 DEF Next, Terminated
<1> QED BY <1>1, <1>2, ListenerInvHolds, PTL DEF Spec, ImplementsFeed, Feed!Spec, Feed!vars

-----------------------------------------------------------------------------
(* The owner of each hook *)

Owning == {"enqueue", "wait", "err"}
Owns(t, id) == call[t].id = id /\ call[t].st \in Owning
Asks(t) == \E c \in Sessions, action \in Actions, arg \in Messages \cup Threads :
             Register(t, c, action, arg)

\* A Loop that is not in a call has none of its own.
FreeInv == \A s \in Sessions : loop[s] \in {"off", "select", "handle"} => call[s].st = "idle"

\* A call that owns a request without an answer goes on to own it: only one that
\* was answered begins another attempt, and only one that is idle another call.
LEMMA StepOwns ==
  ASSUME TypeOK, FreeInv, [Next]_vars, NEW t \in Threads, NEW id \in Nat,
         Owns(t, id), attempt[id].resp = "none"
  PROVE  Owns(t, id)'
<1> USE DEF mcVars, serverVars, listenerVars
<1>0. call \in [Threads -> [st : {"idle", "enqueue", "wait", "ok", "err"}, id : 0..Len(attempt)]]
  BY DEF TypeOK, GoroutineTypeOK
<1>1. CASE call' = call
  BY <1>1 DEF Owns
<1>2. ASSUME NEW u \in Threads, CallStep(u), ~WaitRetry(u) PROVE Owns(t, id)'
  <2>1. CASE u # t
    BY <1>0, <1>2, <2>1 DEF Owns, CallStep, EnqueueRequest, EnqueueTimeout, WaitTimeout, WaitAnswer
  <2>2. CASE u = t
    BY <1>0, <1>2, <2>2
    DEF Owns, Owning, CallStep, EnqueueRequest, EnqueueTimeout, WaitTimeout, WaitAnswer
  <2> QED BY <2>1, <2>2
<1>3. ASSUME NEW u \in Threads, Asks(u), u # t PROVE Owns(t, id)'
  BY <1>0, <1>3 DEF Asks, Register, Owns
<1>4. ASSUME NEW u \in Threads, WaitRetry(u) PROVE u # t /\ Asks(u)
  BY <1>4, CallFacts DEF Owns, WaitRetry, Asks
<1>5. ASSUME NEW x \in Senders, Send(x) PROVE x \in Threads /\ x # t /\ Asks(x)
  <2>1. x \in Threads /\ "CREATE_MESSAGE" \in Actions /\ x \in Messages \cup Threads
    BY ThreadFacts DEF Actions
  <2> QED BY <1>5, <2>1, ThreadFacts DEF Owns, Owning, Send, Asks
<1>6. ASSUME NEW s \in Sessions, LoopConnect(s) PROVE s \in Threads /\ s # t /\ Asks(s)
  <2>1. s \in Threads /\ "LIST_PENDING_MESSAGES" \in Actions
    BY ThreadFacts DEF Actions
  <2>2. call[s].st = "idle"
    BY <1>6 DEF LoopConnect, Turn, FreeInv
  <2> QED BY <1>6, <2>1, <2>2, ThreadFacts DEF Owns, Owning, LoopConnect, Asks
<1>7. ASSUME NEW s \in Sessions, LoopHandleAndAck(s) PROVE s \in Threads /\ s # t /\ Asks(s)
  <2>1. s \in Threads /\ "ACKNOWLEDGE_MESSAGE_RECEIPT" \in Actions
    BY ThreadFacts DEF Actions
  <2>2. call[s].st = "idle"
    BY <1>7 DEF LoopHandleAndAck, FreeInv
  <2>3. msg[s].arg \in Messages \cup Threads
    BY DEF TypeOK, GoroutineTypeOK, Frame
  <2> QED BY <1>7, <2>1, <2>2, <2>3, ThreadFacts DEF Owns, Owning, LoopHandleAndAck, Asks
<1>8. ASSUME NEW s \in Sessions, LoopCallOk(s) PROVE Owns(t, id)'
  <2>1. s # t /\ call' = [call EXCEPT ![s] = Idle]
    BY <1>8 DEF Owns, Owning, LoopCallOk
  <2> QED BY <1>0, <2>1 DEF Owns
<1>9. ASSUME NEW s \in Sessions, LoopStep(s), ~LoopHandleAndAck(s), ~LoopCallOk(s)
      PROVE  call' = call
  BY <1>9 DEF LoopStep, LoopCallError, LoopReadDone, LoopTake, LoopHandle, LoopHandleError
<1>10. ASSUME NEW s \in Sessions, LoopDialError(s) \/ ReadStep(s) PROVE call' = call
  BY <1>10 DEF LoopDialError, ReadStep, ReadAnswer, ReadIgnored, ReadMessage, PushMessage,
               PushTimeout, ReadError, SignalWriteDone, SignalReadDone
<1>11. ASSUME NEW s \in Sessions, WriteStep(s) \/ Break(s) \/ ServerStep(s) PROVE call' = call
  BY <1>11 DEF WriteStep, WriteData, WriteError, PingError, WriteDone, Break,
               ServerStep, ServerExecute, ServerRefuse, ServerPush
<1>12. ASSUME NEW m \in Messages, ServerReceive(m) PROVE call' = call
  BY <1>12 DEF ServerReceive
<1>13. CASE UNCHANGED vars
  BY <1>1, <1>13 DEF vars
<1> QED
  BY <1>1, <1>2, <1>3, <1>4, <1>5, <1>6, <1>7, <1>8, <1>9, <1>10, <1>11, <1>12, <1>13
  DEF Next, Terminated, DialStep

\* Loop is in its select, or handles a message, only when it is in no call.
LEMMA StepFree == TypeOK /\ FreeInv /\ [Next]_vars => FreeInv'
<1> SUFFICES ASSUME TypeOK, FreeInv, [Next]_vars, NEW s \in Sessions,
                    loop'[s] \in {"off", "select", "handle"}
             PROVE  call'[s].st = "idle"
  BY DEF FreeInv
<1> USE DEF mcVars, serverVars, listenerVars
<1>0. /\ call \in [Threads -> [st : {"idle", "enqueue", "wait", "ok", "err"}, id : 0..Len(attempt)]]
      /\ loop \in [Sessions -> {"off", "list", "select", "handle", "ack", "returned"}]
      /\ s \in Threads
  BY ThreadFacts DEF TypeOK, GoroutineTypeOK
<1>1. CASE call' = call /\ loop' = loop
  BY <1>1 DEF FreeInv
<1>2. ASSUME NEW t \in Threads, CallStep(t) PROVE call'[s].st = "idle"
  <2>1. loop' = loop /\ call[t].st # "idle"
    BY <1>2 DEF CallStep, EnqueueRequest, EnqueueTimeout, WaitTimeout, WaitAnswer, WaitRetry
  <2>2. call[s].st = "idle"
    BY <2>1 DEF FreeInv
  <2>3. call'[s] = call[s]
    BY <1>0, <1>2, <2>1, <2>2
    DEF CallStep, EnqueueRequest, EnqueueTimeout, WaitTimeout, WaitAnswer, WaitRetry, Register
  <2> QED BY <2>2, <2>3
<1>3. ASSUME NEW x \in Senders, Send(x) PROVE call'[s].st = "idle"
  <2>1. x # s /\ loop' = loop
    BY <1>3, BlazeAssumption DEF Send
  <2>2. call'[s] = call[s]
    BY <1>0, <1>3, <2>1 DEF Send, Register
  <2> QED BY <2>1, <2>2 DEF FreeInv
<1>4. ASSUME NEW r \in Sessions, LoopConnect(r) \/ LoopHandleAndAck(r) PROVE call'[s].st = "idle"
  <2>1. r # s /\ loop'[s] = loop[s]
    BY <1>0, <1>4 DEF LoopConnect, LoopHandleAndAck
  <2>2. call'[s] = call[s]
    BY <1>0, <1>4, <2>1 DEF LoopConnect, LoopHandleAndAck, Register
  <2> QED BY <2>1, <2>2 DEF FreeInv
<1>5. ASSUME NEW r \in Sessions, LoopCallOk(r) PROVE call'[s].st = "idle"
  <2>1. CASE r = s
    BY <1>0, <1>5, <2>1 DEF LoopCallOk, Idle
  <2>2. CASE r # s
    BY <1>0, <1>5, <2>2 DEF LoopCallOk, FreeInv
  <2> QED BY <2>1, <2>2
<1>6. ASSUME NEW r \in Sessions,
             LoopCallError(r) \/ LoopReadDone(r) \/ LoopHandleError(r) \/ LoopDialError(r)
      PROVE  call'[s].st = "idle"
  <2>1. call' = call /\ r # s /\ loop'[s] = loop[s]
    BY <1>0, <1>6 DEF LoopCallError, LoopReadDone, LoopHandleError, LoopDialError, Return
  <2> QED BY <2>1 DEF FreeInv
<1>7. ASSUME NEW r \in Sessions, LoopTake(r) \/ LoopHandle(r) PROVE call'[s].st = "idle"
  <2>1. call' = call /\ loop[r] \in {"select", "handle"} /\ (r # s => loop'[s] = loop[s])
    BY <1>0, <1>7 DEF LoopTake, LoopHandle
  <2> QED BY <2>1 DEF FreeInv
<1>8. ASSUME NEW r \in Sessions, ReadStep(r) PROVE call' = call /\ loop' = loop
  BY <1>8 DEF ReadStep, ReadAnswer, ReadIgnored, ReadMessage, PushMessage,
              PushTimeout, ReadError, SignalWriteDone, SignalReadDone
<1>9. ASSUME NEW r \in Sessions, WriteStep(r) \/ Break(r) \/ ServerStep(r)
      PROVE  call' = call /\ loop' = loop
  BY <1>9 DEF WriteStep, WriteData, WriteError, PingError, WriteDone, Break,
              ServerStep, ServerExecute, ServerRefuse, ServerPush
<1>10. ASSUME NEW m \in Messages, ServerReceive(m) PROVE call' = call /\ loop' = loop
  BY <1>10 DEF ServerReceive
<1>11. CASE UNCHANGED vars
  BY <1>1, <1>11 DEF vars
<1> QED
  BY <1>1, <1>2, <1>3, <1>4, <1>5, <1>6, <1>7, <1>8, <1>9, <1>10, <1>11
  DEF Next, Terminated, DialStep, LoopStep

\* A hook in the map belongs to a call that waits for its answer or gave up: what
\* was answered, or made again under another id, leaves no hook behind, with one
\* client for each Loop or one for all.
THEOREM HooksHaveCallers == Spec => []HookHasCaller
<1> DEFINE CallerInv == FreeInv /\ HookHasCaller
<1>1. Init => CallerInv
  BY ThreadFacts DEF Init, FreeInv, HookHasCaller, Idle
<1>2. TypeOK /\ HookNeverBlocks /\ CallerInv /\ [Next]_vars => CallerInv'
  <2> SUFFICES ASSUME TypeOK, HookNeverBlocks, CallerInv, [Next]_vars
               PROVE  HookHasCaller'
    BY StepFree
  <2> SUFFICES ASSUME NEW c \in Sessions, NEW id \in transactions'[c]
               PROVE  \E t \in Threads : Owns(t, id)'
    BY DEF HookHasCaller, Owns, Owning
  <2>1. transactions \in [Sessions -> SUBSET (1..Len(attempt))] /\ Len(attempt) \in Nat
    BY DEF TypeOK, ClientTypeOK, GoroutineTypeOK
  <2>2. ASSUME id \in transactions[c] PROVE \E t \in Threads : Owns(t, id)'
    <3>1. PICK t \in Threads : Owns(t, id)
      BY <2>2 DEF HookHasCaller, Owns, Owning
    <3>2. id \in Nat /\ attempt[id].resp = "none"
      BY <2>1, <2>2 DEF HookNeverBlocks
    <3> QED BY <3>1, <3>2, StepOwns
  <2>3. ASSUME id \notin transactions[c] PROVE \E t \in Threads : Owns(t, id)'
    <3>1. CASE UNCHANGED <<transactions, attempt>>
      BY <2>3, <3>1
    <3>2. ASSUME NEW t \in Threads, NEW d \in Sessions, NEW action \in Actions,
                 NEW arg \in Messages \cup Threads, Register(t, d, action, arg)
          PROVE  Owns(t, id)'
      <4>1. id = Len(attempt) + 1
        BY <2>1, <2>3, <3>2 DEF Register
      <4>2. call' = [call EXCEPT ![t] = [st |-> "enqueue", id |-> Len(attempt) + 1]]
        BY <3>2 DEF Register
      <4>3. call'[t] = [st |-> "enqueue", id |-> Len(attempt) + 1]
        BY <4>2 DEF TypeOK, GoroutineTypeOK
      <4> QED BY <4>1, <4>3 DEF Owns, Owning
    <3>3. ASSUME NEW s \in Sessions, ReadAnswer(s) PROVE FALSE
      BY <2>1, <2>3, <3>3 DEF ReadAnswer
    <3> QED BY <3>1, <3>2, <3>3, StepCases
  <2> QED BY <2>2, <2>3
<1> QED BY <1>1, <1>2, TypeCorrect, HooksNeverBlock, PTL DEF Spec

-----------------------------------------------------------------------------
(* The order of the feed *)

\* How many of the first n frames readPump hands on.
PushesUpTo(d, n) == Cardinality({i \in 1..n : IsPush(d[i])})

\* How many members of S there are up to n.
UpTo(S, n) == Cardinality({i \in 1..n : i \in S})

\* One more is counted if it is a member.
LEMMA UpToStep ==
  ASSUME NEW S, NEW n \in Nat
  PROVE  /\ UpTo(S, n) \in Nat
         /\ UpTo(S, 0) = 0
         /\ UpTo(S, n + 1) = UpTo(S, n) + (IF n + 1 \in S THEN 1 ELSE 0)
<1> DEFINE A == {i \in 1..n : i \in S}
           B == {i \in 1..(n + 1) : i \in S}
<1>1. IsFiniteSet(1..n)
  BY FS_Interval
<1>2. IsFiniteSet(A)
  BY <1>1, FS_Subset
<1>3. Cardinality(A) \in Nat
  BY <1>2, FS_CardinalityType
<1>4. {i \in 1..0 : i \in S} = {}
  OBVIOUS
<1>5. Cardinality({}) = 0
  BY FS_EmptySet
<1>6. CASE n + 1 \in S
  <2>1. B = A \cup {n + 1} /\ n + 1 \notin A
    BY <1>6
  <2> HIDE DEF A, B
  <2>2. Cardinality(A \cup {n + 1}) = Cardinality(A) + 1
    BY <1>2, <2>1, FS_AddElement
  <2> QED BY <1>3, <1>4, <1>5, <1>6, <2>1, <2>2 DEF UpTo, A, B
<1>7. CASE n + 1 \notin S
  <2>1. B = A
    BY <1>7
  <2> QED BY <1>3, <1>4, <1>5, <1>7, <2>1 DEF UpTo
<1> QED BY <1>6, <1>7

\* Counted from the second on.
LEMMA UpToShift ==
  ASSUME NEW S, NEW n \in Nat
  PROVE  UpTo(S, n + 1) = UpTo({i \in Nat : i + 1 \in S}, n) + (IF 1 \in S THEN 1 ELSE 0)
<1> DEFINE T == {i \in Nat : i + 1 \in S}
           A == {i \in 1..n : i \in T}
           B == {i \in 2..(n + 1) : i \in S}
           C == {i \in 1..(n + 1) : i \in S}
           f == [i \in A |-> i + 1]
<1>1. IsFiniteSet(1..n)
  BY FS_Interval
<1>2. IsFiniteSet(A)
  BY <1>1, FS_Subset
<1>3. f \in Bijection(A, B)
  <2>1. \A i \in A : f[i] = i + 1 /\ f[i] \in B
    OBVIOUS
  <2>2. f \in [A -> B] /\ \A i, j \in A : i # j => f[i] # f[j]
    BY <2>1
  <2>3. \A y \in B : y - 1 \in A /\ f[y - 1] = y
    OBVIOUS
  <2> HIDE DEF f, A, B
  <2>4. DOMAIN f = A
    BY <2>2
  <2>5. f \in Injection(A, B)
    BY <2>2, <2>4, Zenon DEF Injection, IsInjective
  <2>6. f \in Surjection(A, B)
    BY <2>2, <2>3, Zenon DEF Surjection
  <2> QED BY <2>5, <2>6, Zenon DEF Bijection
<1>4. IsFiniteSet(B) /\ Cardinality(B) = Cardinality(A)
  <2> HIDE DEF f, A, B
  <2> QED BY <1>2, <1>3, FS_Bijection DEF ExistsBijection
<1>5. Cardinality(A) \in Nat
  BY <1>2, FS_CardinalityType
<1>6. CASE 1 \in S
  <2>1. C = B \cup {1} /\ 1 \notin B
    BY <1>6
  <2> HIDE DEF A, B, C
  <2>2. Cardinality(B \cup {1}) = Cardinality(B) + 1
    BY <1>4, <2>1, FS_AddElement
  <2> QED BY <1>4, <1>5, <1>6, <2>1, <2>2 DEF UpTo, A, C, T
<1>7. CASE 1 \notin S
  <2>1. C = B
    <3>1. \A i \in 1..(n + 1) : i \in 2..(n + 1) \/ i = 1
      OBVIOUS
    <3> QED BY <1>7, <3>1
  <2> QED BY <1>4, <1>5, <1>7, <2>1 DEF UpTo
<1> QED BY <1>6, <1>7

\* The counts of messages and of frames, as a sequence grows or loses its head.
LEMMA ForBotStep ==
  ASSUME NEW q, NEW n \in Nat
  PROVE  /\ ForBotUpTo(q, n) \in Nat
         /\ ForBotUpTo(q, 0) = 0
         /\ ForBotUpTo(q, n + 1) = ForBotUpTo(q, n) + (IF ForBot(q[n + 1]) THEN 1 ELSE 0)
<1> DEFINE S == {i \in Nat : ForBot(q[i])}
<1>1. \A k \in Nat : ForBotUpTo(q, k) = UpTo(S, k)
  <2> SUFFICES ASSUME NEW k \in Nat PROVE ForBotUpTo(q, k) = UpTo(S, k)
    OBVIOUS
  <2>1. {i \in 1..k : ForBot(q[i])} = {i \in 1..k : i \in S}
    OBVIOUS
  <2> QED BY <2>1 DEF ForBotUpTo, UpTo
<1>2. n + 1 \in S <=> ForBot(q[n + 1])
  OBVIOUS
<1> HIDE DEF S
<1> QED BY <1>1, <1>2, UpToStep

\* Sequences that agree up to n have as many up to n.
LEMMA ForBotSame ==
  ASSUME NEW p, NEW q, NEW n \in Nat, \A i \in 1..n : p[i] = q[i]
  PROVE  ForBotUpTo(p, n) = ForBotUpTo(q, n)
<1>1. {i \in 1..n : ForBot(p[i])} = {i \in 1..n : ForBot(q[i])}
  OBVIOUS
<1> QED BY <1>1 DEF ForBotUpTo

LEMMA PushesStep ==
  ASSUME NEW d, NEW n \in Nat
  PROVE  /\ PushesUpTo(d, n) \in Nat
         /\ PushesUpTo(d, 0) = 0
         /\ PushesUpTo(d, n + 1) = PushesUpTo(d, n) + (IF IsPush(d[n + 1]) THEN 1 ELSE 0)
<1> DEFINE S == {i \in Nat : IsPush(d[i])}
<1>1. \A k \in Nat : PushesUpTo(d, k) = UpTo(S, k)
  <2> SUFFICES ASSUME NEW k \in Nat PROVE PushesUpTo(d, k) = UpTo(S, k)
    OBVIOUS
  <2>1. {i \in 1..k : IsPush(d[i])} = {i \in 1..k : i \in S}
    OBVIOUS
  <2> QED BY <2>1 DEF PushesUpTo, UpTo
<1>2. n + 1 \in S <=> IsPush(d[n + 1])
  OBVIOUS
<1> HIDE DEF S
<1> QED BY <1>1, <1>2, UpToStep

LEMMA PushesSame ==
  ASSUME NEW d, NEW e, NEW n \in Nat, \A i \in 1..n : d[i] = e[i]
  PROVE  PushesUpTo(d, n) = PushesUpTo(e, n)
<1>1. {i \in 1..n : IsPush(d[i])} = {i \in 1..n : IsPush(e[i])}
  OBVIOUS
<1> QED BY <1>1 DEF PushesUpTo

LEMMA PushesTail ==
  ASSUME NEW d \in Seq(Frame), d # <<>>, NEW n \in 0..Len(Tail(d))
  PROVE  PushesUpTo(d, n + 1) = PushesUpTo(Tail(d), n) + (IF IsPush(Head(d)) THEN 1 ELSE 0)
<1> DEFINE S == {i \in Nat : IsPush(d[i])}
           T == {i \in Nat : i + 1 \in S}
<1>1. n \in Nat /\ Head(d) = d[1] /\ \A i \in 1..n : Tail(d)[i] = d[i + 1]
  OBVIOUS
<1>2. {i \in 1..(n + 1) : IsPush(d[i])} = {i \in 1..(n + 1) : i \in S}
  OBVIOUS
<1>3. {i \in 1..n : IsPush(Tail(d)[i])} = {i \in 1..n : i \in T}
  BY <1>1
<1>4. 1 \in S <=> IsPush(Head(d))
  BY <1>1
<1> HIDE DEF S
<1>5. UpTo(S, n + 1) = UpTo(T, n) + (IF 1 \in S THEN 1 ELSE 0)
  BY <1>1, UpToShift
<1> HIDE DEF T
<1> QED BY <1>2, <1>3, <1>4, <1>5 DEF PushesUpTo, UpTo

Reading == {"read", "push"}

\* What was given on a connection, waits in readBuffer or is about to be put there.
Given(sn, rb, pump) == Len(sn) + Len(rb) + (IF pump = "push" THEN 1 ELSE 0)

\* Of what was pushed on a connection, what the listener has seen comes first,
\* then what waits in readBuffer, the frame in the hand of readPump and what is
\* on its way, and as long as readPump reads there is nothing else.
Places(q, sn, rb, pump, h, d) ==
  /\ \A k \in 1..Len(sn) : IsNthForBot(sn[k], k, q)
  /\ \A k \in 1..Len(rb) : IsNthForBot(rb[k].arg, Len(sn) + k, q)
  /\ pump = "push" => IsNthForBot(h.arg, Len(sn) + Len(rb) + 1, q)
  /\ pump \in Reading =>
       /\ \A i \in 1..Len(d) :
            IsPush(d[i]) => IsNthForBot(d[i].arg, Given(sn, rb, pump) + PushesUpTo(d, i), q)
       /\ Given(sn, rb, pump) + PushesUpTo(d, Len(d)) = ForBotUpTo(q, Len(q))

Seen == Seq(Messages \cup Threads)

\* The k-th message stays the k-th as more are pushed.
LEMMA NthGrows ==
  ASSUME NEW q \in Seq(Messages), NEW e \in Messages, NEW m, NEW k, IsNthForBot(m, k, q)
  PROVE  IsNthForBot(m, k, Append(q, e))
<1>1. PICK i \in 1..Len(q) : q[i] = m /\ ForBot(m) /\ ForBotUpTo(q, i) = k
  BY DEF IsNthForBot
<1>2. /\ i \in Nat /\ i \in 1..Len(Append(q, e)) /\ Append(q, e)[i] = m
      /\ \A j \in 1..i : q[j] = Append(q, e)[j]
  BY <1>1
<1>3. ForBotUpTo(Append(q, e), i) = ForBotUpTo(q, i)
  BY <1>2, ForBotSame
<1> QED BY <1>1, <1>2, <1>3 DEF IsNthForBot

LEMMA GivenIs ==
  ASSUME NEW sn \in Seen, NEW rb \in Seq(Frame), NEW pump
  PROVE  Given(sn, rb, pump) \in Nat
BY DEF Given, Seen

\* Nothing is anywhere yet.
LEMMA NothingPlaced ==
  ASSUME NEW pump, pump # "push", NEW h
  PROVE  Places(<<>>, <<>>, <<>>, pump, h, <<>>)
<1>1. Len(<<>>) = 0
  OBVIOUS
<1>2. ForBotUpTo(<<>>, 0) = 0 /\ PushesUpTo(<<>>, 0) = 0
  BY ForBotStep, PushesStep
<1>3. Given(<<>>, <<>>, pump) = 0
  BY <1>1 DEF Given
<1> QED BY <1>1, <1>2, <1>3 DEF Places

\* Once readPump reads no more, what is on its way does not matter.
LEMMA EndPlaced ==
  ASSUME NEW q, NEW sn, NEW rb, NEW pump, NEW h, NEW d, Places(q, sn, rb, pump, h, d),
         NEW pump2, pump2 \notin Reading, NEW d2
  PROVE  Places(q, sn, rb, pump2, h, d2)
BY DEF Places, Reading

\* A frame more on its way that pushes nothing.
LEMMA AnswerPlaced ==
  ASSUME NEW q, NEW sn \in Seen, NEW rb \in Seq(Frame), NEW pump, NEW h,
         NEW d \in Seq(Frame), Places(q, sn, rb, pump, h, d),
         NEW f \in Frame, ~IsPush(f)
  PROVE  Places(q, sn, rb, pump, h, Append(d, f))
<1> DEFINE e == Append(d, f)
           g == Given(sn, rb, pump)
<1>1. /\ Len(d) \in Nat /\ Len(e) = Len(d) + 1 /\ e[Len(d) + 1] = f
      /\ \A i \in 1..Len(d) : e[i] = d[i]
  OBVIOUS
<1> HIDE DEF e, g
<1>2. \A i \in 1..Len(d) : i \in Nat /\ PushesUpTo(e, i) = PushesUpTo(d, i)
  <2> SUFFICES ASSUME NEW i \in 1..Len(d) PROVE PushesUpTo(e, i) = PushesUpTo(d, i)
    OBVIOUS
  <2>1. i \in Nat /\ \A j \in 1..i : e[j] = d[j]
    BY <1>1
  <2> QED BY <2>1, PushesSame
<1>3. PushesUpTo(e, Len(d)) = PushesUpTo(d, Len(d)) /\ PushesUpTo(d, Len(d)) \in Nat
  BY <1>1, PushesSame, PushesStep
<1>4. PushesUpTo(e, Len(e)) = PushesUpTo(d, Len(d))
  <2>1. ~IsPush(e[Len(d) + 1])
    BY <1>1
  <2>2. PushesUpTo(e, Len(d) + 1) = PushesUpTo(e, Len(d)) + 0
    BY <1>1, <2>1, PushesStep
  <2> QED BY <1>1, <1>3, <2>2
<1>5. ASSUME NEW i \in 1..Len(e), IsPush(e[i])
      PROVE  i \in 1..Len(d) /\ IsPush(d[i]) /\ e[i] = d[i]
  BY <1>1, <1>5
<1> QED BY <1>2, <1>4, <1>5 DEF Places, e, g

\* A message is pushed: its frame is the last on its way, if it is read at all.
LEMMA PushPlaced ==
  ASSUME NEW q \in Seq(Messages), NEW sn \in Seen, NEW rb \in Seq(Frame), NEW pump, NEW h,
         NEW d \in Seq(Frame), Places(q, sn, rb, pump, h, d),
         NEW m \in Messages,
         NEW d2, pump \in Reading => d2 = Append(d, PushFrame(m))
  PROVE  Places(Append(q, m), sn, rb, pump, h, d2)
<1> DEFINE p == Append(q, m)
           f == PushFrame(m)
           e == Append(d, f)
           g == Given(sn, rb, pump)
<1>1. \A x, k : IsNthForBot(x, k, q) => IsNthForBot(x, k, p)
  BY NthGrows
<1>2. CASE pump \notin Reading
  BY <1>1, <1>2 DEF Places, Reading
<1>3. CASE pump \in Reading
  <2>1. f \in Frame /\ f.arg = m /\ (IsPush(f) <=> ForBot(m))
    BY BlazeAssumption DEF PushFrame, Frame, Actions, Codes, IsPush, ForListener, ForBot
  <2> HIDE DEF f
  <2>2. /\ Len(d) \in Nat /\ Len(e) = Len(d) + 1 /\ e[Len(d) + 1] = f
        /\ \A i \in 1..Len(d) : e[i] = d[i]
    BY <2>1
  <2>3. /\ Len(q) \in Nat /\ Len(p) = Len(q) + 1 /\ p[Len(q) + 1] = m
        /\ \A i \in 1..Len(q) : p[i] = q[i]
    OBVIOUS
  <2> HIDE DEF e, p
  <2>4. \A i \in 1..Len(d) : PushesUpTo(e, i) = PushesUpTo(d, i)
    <3> SUFFICES ASSUME NEW i \in 1..Len(d) PROVE PushesUpTo(e, i) = PushesUpTo(d, i)
      OBVIOUS
    <3>1. i \in Nat /\ \A j \in 1..i : e[j] = d[j]
      BY <2>2
    <3> QED BY <3>1, PushesSame
  <2>5. PushesUpTo(e, Len(d)) = PushesUpTo(d, Len(d)) /\ PushesUpTo(d, Len(d)) \in Nat
    BY <2>2, PushesSame, PushesStep
  <2>6. ForBotUpTo(p, Len(q)) = ForBotUpTo(q, Len(q)) /\ ForBotUpTo(q, Len(q)) \in Nat
    BY <2>3, ForBotSame, ForBotStep
  <2>7. PushesUpTo(e, Len(e)) = PushesUpTo(d, Len(d)) + (IF ForBot(m) THEN 1 ELSE 0)
    BY <2>1, <2>2, <2>5, PushesStep
  <2>8. ForBotUpTo(p, Len(p)) = ForBotUpTo(q, Len(q)) + (IF ForBot(m) THEN 1 ELSE 0)
    BY <2>3, <2>6, ForBotStep
  <2>9. g \in Nat /\ g + PushesUpTo(d, Len(d)) = ForBotUpTo(q, Len(q))
    BY <1>3, GivenIs DEF Places
  <2> HIDE DEF g
  <2>10. g + PushesUpTo(e, Len(e)) = ForBotUpTo(p, Len(p))
    BY <2>5, <2>6, <2>7, <2>8, <2>9
  <2>11. ASSUME NEW i \in 1..Len(e), IsPush(e[i])
         PROVE  IsNthForBot(e[i].arg, g + PushesUpTo(e, i), p)
    <3>1. CASE i \in 1..Len(d)
      <4>1. IsPush(d[i]) /\ e[i] = d[i] /\ PushesUpTo(e, i) = PushesUpTo(d, i)
        BY <2>2, <2>4, <2>11, <3>1
      <4>2. IsNthForBot(d[i].arg, g + PushesUpTo(d, i), q)
        BY <1>3, <3>1, <4>1 DEF Places, g
      <4> QED BY <1>1, <4>1, <4>2
    <3>2. CASE i \notin 1..Len(d)
      <4>1. i = Len(e) /\ e[i] = f
        BY <2>2, <3>2
      <4>2. ForBot(m) /\ Len(p) \in 1..Len(p) /\ p[Len(p)] = m
        BY <2>1, <2>3, <2>11, <4>1
      <4>3. IsNthForBot(m, ForBotUpTo(p, Len(p)), p)
        BY <4>2 DEF IsNthForBot
      <4> QED BY <2>1, <2>10, <4>1, <4>3
    <3> QED BY <3>1, <3>2
  <2>12. d2 = e
    BY <1>3 DEF e, f
  <2> QED BY <1>1, <1>3, <2>10, <2>11, <2>12 DEF Places, g, p
<1> QED BY <1>2, <1>3

\* readPump takes the first frame on its way: an answer, or one it ignores.
LEMMA DropPlaced ==
  ASSUME NEW q, NEW sn \in Seen, NEW rb \in Seq(Frame), NEW h,
         NEW d \in Seq(Frame), d # <<>>, Places(q, sn, rb, "read", h, d), ~IsPush(Head(d))
  PROVE  Places(q, sn, rb, "read", h, Tail(d))
<1> DEFINE e == Tail(d)
           g == Given(sn, rb, "read")
<1>1. /\ Len(e) \in Nat /\ Len(d) = Len(e) + 1
      /\ \A i \in 1..Len(e) : i + 1 \in 1..Len(d) /\ e[i] = d[i + 1]
  OBVIOUS
<1>2. \A i \in 0..Len(e) : i \in Nat /\ PushesUpTo(d, i + 1) = PushesUpTo(e, i)
  <2> SUFFICES ASSUME NEW i \in 0..Len(e) PROVE PushesUpTo(d, i + 1) = PushesUpTo(e, i)
    OBVIOUS
  <2>1. PushesUpTo(d, i + 1) = PushesUpTo(Tail(d), i) + 0
    BY PushesTail
  <2>2. PushesUpTo(Tail(d), i) \in Nat
    BY PushesStep
  <2> QED BY <2>1, <2>2
<1> HIDE DEF e
<1>3. PushesUpTo(d, Len(d)) = PushesUpTo(e, Len(e))
  BY <1>1, <1>2
<1>4. ASSUME NEW i \in 1..Len(e), IsPush(e[i])
      PROVE  IsNthForBot(e[i].arg, g + PushesUpTo(e, i), q)
  <2>1. i + 1 \in 1..Len(d) /\ e[i] = d[i + 1] /\ PushesUpTo(d, i + 1) = PushesUpTo(e, i)
    BY <1>1, <1>2
  <2> QED BY <1>4, <2>1 DEF Places, Reading
<1> QED BY <1>3, <1>4 DEF Places, Reading, e

\* It takes one in its hand.
LEMMA HandPlaced ==
  ASSUME NEW q, NEW sn \in Seen, NEW rb \in Seq(Frame), NEW h,
         NEW d \in Seq(Frame), d # <<>>, Places(q, sn, rb, "read", h, d), IsPush(Head(d))
  PROVE  Places(q, sn, rb, "push", Head(d), Tail(d))
<1> DEFINE e == Tail(d)
           g == Given(sn, rb, "read")
<1>1. /\ Len(e) \in Nat /\ Len(d) = Len(e) + 1 /\ Head(d) = d[1] /\ 1 \in 1..Len(d)
      /\ \A i \in 1..Len(e) : i + 1 \in 1..Len(d) /\ e[i] = d[i + 1]
  OBVIOUS
<1>2. \A i \in 0..Len(e) : PushesUpTo(e, i) \in Nat /\ PushesUpTo(d, i + 1) = PushesUpTo(e, i) + 1
  BY PushesTail, PushesStep
<1>3. g = Len(sn) + Len(rb) /\ g \in Nat /\ Given(sn, rb, "push") = g + 1
  BY DEF Given, Seen
<1>4. PushesUpTo(d, 1) = 1
  <2>1. IsPush(d[0 + 1]) /\ 0 \in Nat
    BY <1>1
  <2>2. PushesUpTo(d, 0 + 1) = PushesUpTo(d, 0) + 1 /\ PushesUpTo(d, 0) = 0
    BY <2>1, PushesStep
  <2> QED BY <2>2
<1> HIDE DEF e
<1>5. IsNthForBot(Head(d).arg, Len(sn) + Len(rb) + 1, q)
  <2>1. IsNthForBot(d[1].arg, g + PushesUpTo(d, 1), q)
    BY <1>1 DEF Places, Reading
  <2> QED BY <1>1, <1>3, <1>4, <2>1
<1>6. Given(sn, rb, "push") + PushesUpTo(e, Len(e)) = ForBotUpTo(q, Len(q))
  <2>1. g + PushesUpTo(d, Len(d)) = ForBotUpTo(q, Len(q))
    BY DEF Places, Reading
  <2>2. PushesUpTo(e, Len(e)) \in Nat /\ PushesUpTo(d, Len(d)) = PushesUpTo(e, Len(e)) + 1
    BY <1>1, <1>2
  <2> HIDE DEF g
  <2> QED BY <1>3, <2>1, <2>2
<1>7. ASSUME NEW i \in 1..Len(e), IsPush(e[i])
      PROVE  IsNthForBot(e[i].arg, Given(sn, rb, "push") + PushesUpTo(e, i), q)
  <2>1. /\ i + 1 \in 1..Len(d) /\ e[i] = d[i + 1] /\ PushesUpTo(e, i) \in Nat
        /\ PushesUpTo(d, i + 1) = PushesUpTo(e, i) + 1
    BY <1>1, <1>2
  <2>2. IsNthForBot(d[i + 1].arg, g + PushesUpTo(d, i + 1), q)
    BY <1>7, <2>1 DEF Places, Reading
  <2>3. g + PushesUpTo(d, i + 1) = Given(sn, rb, "push") + PushesUpTo(e, i)
    <3> HIDE DEF g
    <3> QED BY <1>3, <2>1
  <2> QED BY <2>1, <2>2, <2>3
<1> QED BY <1>5, <1>6, <1>7 DEF Places, e

\* What it has in its hand it puts into readBuffer.
LEMMA BufferPlaced ==
  ASSUME NEW q, NEW sn \in Seen, NEW rb \in Seq(Frame), NEW h \in Frame, NEW d,
         Places(q, sn, rb, "push", h, d)
  PROVE  Places(q, sn, Append(rb, h), "read", h, d)
<1> DEFINE r == Append(rb, h)
<1>1. /\ Len(rb) \in Nat /\ Len(sn) \in Nat /\ Len(r) = Len(rb) + 1 /\ r[Len(rb) + 1] = h
      /\ \A i \in 1..Len(rb) : r[i] = rb[i]
  BY DEF Seen
<1> HIDE DEF r
<1>2. Given(sn, r, "read") = Given(sn, rb, "push")
  BY <1>1 DEF Given
<1>3. ASSUME NEW k \in 1..Len(r) PROVE IsNthForBot(r[k].arg, Len(sn) + k, q)
  <2>1. CASE k \in 1..Len(rb)
    BY <1>1, <2>1 DEF Places
  <2>2. CASE k = Len(rb) + 1
    <3>1. IsNthForBot(h.arg, Len(sn) + Len(rb) + 1, q)
      BY DEF Places
    <3>2. Len(sn) + k = Len(sn) + Len(rb) + 1
      BY <1>1, <2>2
    <3> QED BY <1>1, <2>2, <3>1, <3>2
  <2> QED BY <1>1, <2>1, <2>2
<1> QED BY <1>2, <1>3 DEF Places, Reading, r

\* Loop takes it from there and the listener sees it.
LEMMA SeenPlaced ==
  ASSUME NEW q, NEW sn \in Seen, NEW rb \in Seq(Frame), rb # <<>>, NEW pump, NEW h, NEW d,
         Places(q, sn, rb, pump, h, d)
  PROVE  Places(q, Append(sn, Head(rb).arg), Tail(rb), pump, h, d)
<1> DEFINE p == Append(sn, Head(rb).arg)
           r == Tail(rb)
<1>1. /\ Len(sn) \in Nat /\ Len(p) = Len(sn) + 1 /\ p[Len(sn) + 1] = Head(rb).arg
      /\ \A i \in 1..Len(sn) : p[i] = sn[i]
  BY DEF Frame, Seen
<1>2. /\ Len(r) \in Nat /\ Len(rb) = Len(r) + 1 /\ Head(rb) = rb[1] /\ 1 \in 1..Len(rb)
      /\ \A i \in 1..Len(r) : i + 1 \in 1..Len(rb) /\ r[i] = rb[i + 1]
  OBVIOUS
<1> HIDE DEF p, r
<1>3. Len(p) + Len(r) = Len(sn) + Len(rb) /\ Given(p, r, pump) = Given(sn, rb, pump)
  BY <1>1, <1>2 DEF Given
<1>4. ASSUME NEW k \in 1..Len(p) PROVE IsNthForBot(p[k], k, q)
  <2>1. CASE k \in 1..Len(sn)
    BY <1>1, <2>1 DEF Places
  <2>2. CASE k = Len(sn) + 1
    BY <1>1, <1>2, <2>2 DEF Places
  <2> QED BY <1>1, <2>1, <2>2
<1>5. ASSUME NEW k \in 1..Len(r) PROVE IsNthForBot(r[k].arg, Len(p) + k, q)
  <2>1. IsNthForBot(rb[k + 1].arg, Len(sn) + (k + 1), q)
    BY <1>2 DEF Places
  <2>2. Len(p) + k = Len(sn) + (k + 1)
    BY <1>1
  <2> QED BY <1>2, <2>1, <2>2
<1> QED BY <1>3, <1>4, <1>5 DEF Places, p, r

Placed(s) == Places(pushed[s], seen[s], readBuffer[s], readPump[s], hand[s], down[s])

\* A session Loop was not called for has nothing.
Unused(s) ==
  /\ conn[s] = "none" /\ readPump[s] = "off" /\ writePump[s] = "off"
  /\ pushed[s] = <<>> /\ seen[s] = <<>> /\ readBuffer[s] = <<>> /\ down[s] = <<>>

OrderInv == \A s \in Sessions : Placed(s) /\ (loop[s] = "off" => Unused(s))

Touched(s) == <<pushed[s], seen[s], readBuffer[s], readPump[s], hand[s], down[s]>>

\* With a client of its own, nobody else touches what a session that is unused has.
LEMMA StepUnused ==
  ASSUME FreshClient, TypeOK, OrderInv, [Next]_vars, NEW s \in Sessions, loop'[s] = "off"
  PROVE  Unused(s)'
<1> DEFINE Same == /\ Touched(s)' = Touched(s) /\ loop'[s] = loop[s]
                   /\ conn'[s] = conn[s] /\ writePump'[s] = writePump[s]
<1> USE DEF mcVars, serverVars, listenerVars
<1>0. /\ DOMAIN readPump = Sessions /\ DOMAIN loop = Sessions /\ DOMAIN hand = Sessions
      /\ DOMAIN writePump = Sessions /\ DOMAIN conn = Sessions /\ DOMAIN pushed = Sessions
      /\ DOMAIN seen = Sessions /\ DOMAIN down = Sessions /\ DOMAIN readBuffer = Sessions
      /\ \A r \in Sessions : Client(r) = r
  BY DEF TypeOK, ClientTypeOK, GoroutineTypeOK, ServerTypeOK, Client
<1>1. SUFFICES loop[s] = "off" /\ (loop[s] = "off" => Same)
  BY DEF OrderInv, Unused, Touched
<1>2. ASSUME UNCHANGED <<pushed, seen, readBuffer, readPump, hand, down, loop, conn, writePump>>
      PROVE  loop[s] = "off" /\ Same
  BY <1>2 DEF Touched
<1>3. ASSUME NEW t \in Threads, CallStep(t) PROVE loop[s] = "off" /\ Same
  BY <1>2, <1>3 DEF CallStep, EnqueueRequest, EnqueueTimeout, WaitTimeout, WaitAnswer, WaitRetry
<1>4. ASSUME NEW x \in Senders, Send(x) PROVE loop[s] = "off" /\ Same
  BY <1>2, <1>4 DEF Send
<1>5. ASSUME NEW r \in Sessions, DialStep(r) PROVE loop[s] = "off" /\ Same
  BY <1>0, <1>5 DEF DialStep, LoopConnect, LoopDialError, Touched
<1>6. ASSUME NEW r \in Sessions, LoopStep(r) PROVE loop[s] = "off" /\ Same
  <2>1. CASE LoopTake(r)
    BY <1>0, <2>1 DEF LoopTake, Touched
  <2>2. CASE ~LoopTake(r)
    BY <1>0, <1>6, <2>2 DEF LoopStep, LoopCallOk, LoopCallError, LoopReadDone, LoopHandle,
                            LoopHandleAndAck, LoopHandleError, Return, Touched
  <2> QED BY <2>1, <2>2
<1>7. ASSUME NEW r \in Sessions, ReadStep(r) PROVE loop[s] = "off" /\ Same
  <2>1. loop' = loop /\ writePump' = writePump
    BY <1>7 DEF ReadStep, ReadAnswer, ReadIgnored, ReadMessage, PushMessage, PushTimeout,
                ReadError, SignalWriteDone, SignalReadDone
  <2>2. readPump[r] # "off"
    BY <1>7 DEF ReadStep, ReadAnswer, ReadIgnored, ReadMessage, PushMessage, PushTimeout,
                ReadError, SignalWriteDone, SignalReadDone
  <2>3. loop[s] = "off" /\ r # s
    BY <2>1, <2>2 DEF OrderInv, Unused
  <2>4. CASE ReadAnswer(r) \/ ReadIgnored(r) \/ ReadMessage(r)
    BY <1>0, <2>3, <2>4 DEF ReadAnswer, EndRead, ReadIgnored, ReadMessage, Touched
  <2>5. CASE PushMessage(r) \/ PushTimeout(r) \/ ReadError(r) \/ SignalWriteDone(r) \/ SignalReadDone(r)
    BY <1>0, <2>3, <2>5 DEF PushMessage, PushTimeout, ReadError, EndRead, SignalWriteDone,
                            SignalReadDone, Touched
  <2> QED BY <1>7, <2>4, <2>5 DEF ReadStep
<1>8. ASSUME NEW r \in Sessions, WriteStep(r) \/ Break(r) PROVE loop[s] = "off" /\ Same
  <2>1. UNCHANGED <<pushed, seen, readBuffer, readPump, hand, down, loop>>
    BY <1>8 DEF WriteStep, WriteData, WriteError, PingError, WriteDone, Break
  <2>2. writePump[r] = "run" \/ conn[r] = "open"
    BY <1>8 DEF WriteStep, WriteData, WriteError, PingError, WriteDone, Break
  <2>3. loop[s] = "off" /\ r # s
    BY <2>1, <2>2 DEF OrderInv, Unused
  <2>4. conn'[s] = conn[s] /\ writePump'[s] = writePump[s]
    BY <1>0, <1>8, <2>3 DEF WriteStep, WriteData, WriteError, PingError, WriteDone, Break, EndWrite
  <2> QED BY <2>1, <2>3, <2>4 DEF Touched
<1>9. ASSUME NEW r \in Sessions, ServerStep(r) PROVE loop[s] = "off" /\ Same
  <2>1. UNCHANGED <<seen, readBuffer, readPump, hand, loop, conn, writePump>>
    BY <1>9 DEF ServerStep, ServerExecute, ServerRefuse, ServerPush
  <2>2. conn[r] # "none"
    BY <1>9 DEF ServerStep, ServerExecute, ServerRefuse, ServerPush, ServerTakes
  <2>3. loop[s] = "off" /\ r # s
    BY <2>1, <2>2 DEF OrderInv, Unused
  <2>4. pushed'[s] = pushed[s] /\ down'[s] = down[s]
    BY <1>0, <1>9, <2>3 DEF ServerStep, ServerExecute, ServerRefuse, ServerPush, ToClient
  <2> QED BY <2>1, <2>3, <2>4 DEF Touched
<1>10. ASSUME NEW m \in Messages, ServerReceive(m) PROVE loop[s] = "off" /\ Same
  BY <1>2, <1>10 DEF ServerReceive
<1>11. CASE UNCHANGED vars
  BY <1>2, <1>11 DEF vars
<1> QED
  BY <1>3, <1>4, <1>5, <1>6, <1>7, <1>8, <1>9, <1>10, <1>11 DEF Next, Terminated

\* Every step keeps what was pushed on a connection in its places.
LEMMA StepPlaced ==
  ASSUME FreshClient, TypeOK, TripInv, OrderInv, [Next]_vars, NEW s \in Sessions
  PROVE  Placed(s)'
<1> USE DEF mcVars, serverVars, listenerVars
<1>0. /\ DOMAIN readPump = Sessions /\ DOMAIN hand = Sessions /\ DOMAIN pushed = Sessions
      /\ DOMAIN seen = Sessions /\ DOMAIN down = Sessions /\ DOMAIN readBuffer = Sessions
      /\ \A r \in Sessions : Client(r) = r
  BY DEF TypeOK, ClientTypeOK, GoroutineTypeOK, ServerTypeOK, Client
<1>1. /\ pushed[s] \in Seq(Messages) /\ seen[s] \in Seen /\ readBuffer[s] \in Seq(Frame)
      /\ hand[s] \in Frame /\ down[s] \in Seq(Frame)
      /\ readPump[s] \in {"off", "read", "push", "writeDone", "readDone", "exited"}
  BY DEF TypeOK, ClientTypeOK, GoroutineTypeOK, ServerTypeOK, Seen
<1>2. Placed(s)
  BY DEF OrderInv
<1>3. ASSUME Touched(s)' = Touched(s) PROVE Placed(s)'
  BY <1>2, <1>3 DEF Touched, Placed
<1>4. ASSUME UNCHANGED <<pushed, seen, readBuffer, readPump, hand, down>> PROVE Placed(s)'
  BY <1>3, <1>4 DEF Touched
<1>5. ASSUME UNCHANGED <<pushed, seen, readBuffer, hand>>,
             NEW p \in {"writeDone", "readDone", "exited"}, readPump'[s] = p
      PROVE  Placed(s)'
  BY <1>2, <1>5, EndPlaced DEF Placed, Reading
<1>6. ASSUME NEW t \in Threads, CallStep(t) PROVE Placed(s)'
  BY <1>4, <1>6 DEF CallStep, EnqueueRequest, EnqueueTimeout, WaitTimeout, WaitAnswer, WaitRetry
<1>7. ASSUME NEW x \in Senders, Send(x) PROVE Placed(s)'
  BY <1>4, <1>7 DEF Send
<1>8. ASSUME NEW r \in Sessions, LoopConnect(r) PROVE Placed(s)'
  <2>1. /\ UNCHANGED <<pushed, seen, readBuffer, hand, down>>
        /\ loop[r] = "off" /\ readPump' = [readPump EXCEPT ![r] = "read"]
    BY <1>8 DEF LoopConnect, Turn
  <2>2. CASE r # s
    BY <1>0, <1>3, <2>1, <2>2 DEF Touched
  <2>3. CASE r = s
    <3>1. /\ pushed'[s] = <<>> /\ seen'[s] = <<>> /\ readBuffer'[s] = <<>> /\ down'[s] = <<>>
          /\ readPump'[s] = "read"
      BY <1>0, <2>1, <2>3 DEF OrderInv, Unused
    <3> QED BY <3>1, NothingPlaced DEF Placed
  <2> QED BY <2>2, <2>3
<1>9. ASSUME NEW r \in Sessions, LoopDialError(r) PROVE Placed(s)'
  BY <1>4, <1>9 DEF LoopDialError
<1>10. ASSUME NEW r \in Sessions, LoopStep(r), ~LoopTake(r) PROVE Placed(s)'
  BY <1>4, <1>10 DEF LoopStep, LoopCallOk, LoopCallError, LoopReadDone, LoopHandle,
                     LoopHandleAndAck, LoopHandleError
<1>11. ASSUME NEW r \in Sessions, LoopTake(r) PROVE Placed(s)'
  <2>1. /\ UNCHANGED <<pushed, readPump, hand, down>> /\ readBuffer[r] # <<>>
        /\ readBuffer' = [readBuffer EXCEPT ![r] = Tail(@)]
        /\ seen' = [seen EXCEPT ![r] = Append(@, Head(readBuffer[r]).arg)]
    BY <1>0, <1>11 DEF LoopTake
  <2>2. CASE r # s
    BY <1>0, <1>3, <2>1, <2>2 DEF Touched
  <2>3. CASE r = s
    <3>1. /\ readBuffer'[s] = Tail(readBuffer[s])
          /\ seen'[s] = Append(seen[s], Head(readBuffer[s]).arg)
      BY <1>0, <2>1, <2>3
    <3> QED BY <1>1, <1>2, <2>1, <2>3, <3>1, SeenPlaced DEF Placed
  <2> QED BY <2>2, <2>3
<1>12. ASSUME NEW r \in Sessions, ReadStep(r), r # s PROVE Placed(s)'
  <2>1. UNCHANGED <<pushed, seen>>
    BY <1>12 DEF ReadStep, ReadAnswer, ReadIgnored, ReadMessage, PushMessage, PushTimeout,
                 ReadError, SignalWriteDone, SignalReadDone
  <2>2. CASE ReadAnswer(r) \/ ReadIgnored(r) \/ ReadMessage(r)
    BY <1>0, <1>3, <1>12, <2>1, <2>2 DEF ReadAnswer, EndRead, ReadIgnored, ReadMessage, Touched
  <2>3. CASE PushMessage(r) \/ PushTimeout(r) \/ ReadError(r) \/ SignalWriteDone(r) \/ SignalReadDone(r)
    BY <1>0, <1>3, <1>12, <2>1, <2>3
    DEF PushMessage, PushTimeout, ReadError, EndRead, SignalWriteDone, SignalReadDone, Touched
  <2> QED BY <1>12, <2>2, <2>3 DEF ReadStep
<1>13. CASE ReadAnswer(s) \/ ReadIgnored(s)
  <2>1. /\ UNCHANGED <<pushed, seen, readBuffer, hand>>
        /\ readPump[s] = "read" /\ down[s] # <<>>
        /\ \/ readPump'[s] = "read" /\ down'[s] = Tail(down[s])
           \/ readPump'[s] = "writeDone"
        /\ Head(down[s]).id \in transactions[Client(s)] \/ ~ForListener(Head(down[s]))
    BY <1>0, <1>13 DEF ReadAnswer, EndRead, ReadIgnored
  <2>2. ~IsPush(Head(down[s]))
    BY <2>1, ThreadFacts DEF IsPush, TypeOK, ClientTypeOK
  <2>3. CASE readPump'[s] = "writeDone"
    BY <1>5, <2>1, <2>3
  <2>4. CASE readPump'[s] = "read"
    BY <1>1, <1>2, <2>1, <2>2, <2>4, DropPlaced DEF Placed
  <2> QED BY <2>1, <2>3, <2>4
<1>14. CASE ReadMessage(s)
  <2>1. /\ UNCHANGED <<pushed, seen, readBuffer>>
        /\ readPump[s] = "read" /\ down[s] # <<>> /\ down'[s] = Tail(down[s])
        /\ readPump'[s] = "push" /\ hand'[s] = Head(down[s])
    BY <1>0, <1>14 DEF ReadMessage
  <2>2. IsPush(Head(down[s]))
    BY <1>14, HandedIsPush
  <2> QED BY <1>1, <1>2, <2>1, <2>2, HandPlaced DEF Placed
<1>15. CASE PushMessage(s)
  <2>1. /\ UNCHANGED <<pushed, seen, hand, down>>
        /\ readPump[s] = "push" /\ readPump'[s] = "read"
        /\ readBuffer'[s] = Append(readBuffer[s], hand[s])
    BY <1>0, <1>15 DEF PushMessage
  <2> QED BY <1>1, <1>2, <2>1, BufferPlaced DEF Placed
<1>16. CASE PushTimeout(s) \/ ReadError(s) \/ SignalWriteDone(s) \/ SignalReadDone(s)
  <2>1. /\ UNCHANGED <<pushed, seen, readBuffer, hand>>
        /\ readPump'[s] \in {"writeDone", "readDone", "exited"}
    BY <1>0, <1>16 DEF PushTimeout, ReadError, EndRead, SignalWriteDone, SignalReadDone
  <2> QED BY <1>5, <2>1
<1>17. ASSUME NEW r \in Sessions, WriteStep(r) \/ Break(r) PROVE Placed(s)'
  BY <1>4, <1>17 DEF WriteStep, WriteData, WriteError, PingError, WriteDone, Break
<1>18. ASSUME NEW r \in Sessions, ServerExecute(r) \/ ServerRefuse(r) PROVE Placed(s)'
  <2>1. /\ ServerTakes(r) /\ UNCHANGED <<pushed, seen, readBuffer, hand, readPump>>
        /\ \E code \in {"ok", "forbidden", "error"} : ToClient(r, AnswerFrame(Head(up[r]), code))
    BY <1>18 DEF ServerExecute, ServerRefuse
  <2>2. PICK code \in Codes : ToClient(r, AnswerFrame(Head(up[r]), code))
    BY <2>1 DEF Codes
  <2> DEFINE f == AnswerFrame(Head(up[r]), code)
  <2>3. f \in Frame /\ f.id \in 1..Len(attempt)
    BY <2>1, TakenFacts DEF AnswerFrame
  <2>4. ~IsPush(f)
    BY <2>3 DEF IsPush
  <2>5. ToClient(r, f)
    BY <2>2
  <2> HIDE DEF f
  <2>6. down'[s] = down[s] \/ down'[s] = Append(down[s], f)
    BY <1>0, <2>5 DEF ToClient
  <2>7. CASE down'[s] = down[s]
    BY <1>3, <2>1, <2>7 DEF Touched
  <2>8. CASE down'[s] = Append(down[s], f)
    BY <1>1, <1>2, <2>1, <2>3, <2>4, <2>8, AnswerPlaced DEF Placed
  <2> QED BY <2>6, <2>7, <2>8
<1>19. ASSUME NEW r \in Sessions, NEW m \in Messages, ServerPush(r, m) PROVE Placed(s)'
  <2>1. /\ UNCHANGED <<seen, readBuffer, hand, readPump>> /\ ToClient(r, PushFrame(m))
        /\ pushed' = [pushed EXCEPT ![r] = Append(@, m)]
    BY <1>19 DEF ServerPush
  <2>2. CASE r # s
    BY <1>0, <1>3, <2>1, <2>2 DEF ToClient, Touched
  <2>3. CASE r = s
    <3>1. /\ pushed'[s] = Append(pushed[s], m)
          /\ readPump[s] \in Reading => down'[s] = Append(down[s], PushFrame(m))
      BY <1>0, <2>1, <2>3 DEF ToClient, Reading
    <3> QED BY <1>1, <1>2, <2>1, <3>1, PushPlaced DEF Placed
  <2> QED BY <2>2, <2>3
<1>20. ASSUME NEW m \in Messages, ServerReceive(m) PROVE Placed(s)'
  BY <1>4, <1>20 DEF ServerReceive
<1>21. CASE UNCHANGED vars
  BY <1>4, <1>21 DEF vars
<1> QED
  BY <1>6, <1>7, <1>8, <1>9, <1>10, <1>11, <1>12, <1>13, <1>14, <1>15, <1>16, <1>17, <1>18,
     <1>19, <1>20, <1>21
  DEF Next, Terminated, DialStep, ReadStep, ServerStep

LEMMA OrderInvHolds ==
  ASSUME FreshClient
  PROVE  Spec => []OrderInv
<1>1. Init => OrderInv
  <2> SUFFICES ASSUME Init, NEW s \in Sessions PROVE Placed(s) /\ Unused(s)
    BY DEF OrderInv
  <2>1. Unused(s) /\ readPump[s] # "push"
    BY DEF Init, Unused
  <2> QED BY <2>1, NothingPlaced DEF Unused, Placed
<1>2. ListenerInv /\ OrderInv /\ [Next]_vars => OrderInv'
  BY StepUnused, StepPlaced DEF ListenerInv, OrderInv
<1> QED BY <1>1, <1>2, ListenerInvHolds, PTL DEF Spec

\* parseMessage and the select of Loop: with a client for each Loop, what the
\* listener is given on a connection is what the server pushed on it for the bot,
\* in order and without a gap, whatever is answered in between, however small
\* readBuffer is and whenever the connection ends.
THEOREM FeedInOrder == FreshClient /\ Spec => []FeedIsPrefix
<1> SUFFICES ASSUME FreshClient PROVE Spec => []FeedIsPrefix
  OBVIOUS
<1>1. OrderInv => FeedIsPrefix
  BY DEF OrderInv, Placed, Places, FeedIsPrefix
<1> QED BY <1>1, OrderInvHolds, PTL

-----------------------------------------------------------------------------
(* How the goroutines of a connection end each other *)

\* readPump, writePump and Loop: readPump never blocks on the channels of its
\* deferred function; when it has ended, writePump and Loop have ended too or find
\* their token; and nobody has ended while the connection is open, on which the
\* others would wait.
SignalsKept ==
  \A s \in Sessions :
    LET c == Client(s)
    IN /\ readPump[s] = "writeDone" => writeDone[c] = 0
       /\ readPump[s] = "readDone" => readDone[c] = 0
       /\ readPump[s] = "exited" => /\ writePump[s] = "exited" \/ writeDone[c] = 1
                                    /\ loop[s] = "returned" \/ readDone[c] = 1
       /\ conn[s] = "open" => /\ loop[s] # "returned" /\ writePump[s] = "run"
                              /\ readPump[s] \in {"read", "push"}

\* A token is there only after its signal, and until it is taken.
Told(s) ==
  /\ readPump[s] \notin {"readDone", "exited"} => writeDone[s] = 0
  /\ readPump[s] # "exited" => readDone[s] = 0
  /\ readPump[s] \in {"readDone", "exited"} => writePump[s] = "exited" \/ writeDone[s] = 1
  /\ readPump[s] = "exited" => loop[s] = "returned" \/ readDone[s] = 1
  /\ conn[s] = "open" => /\ loop[s] # "returned" /\ writePump[s] = "run"
                         /\ readPump[s] \in {"read", "push"}

Ending(s) == <<readPump[s], writePump[s], loop[s], conn[s], readDone[s], writeDone[s]>>

\* With a client of its own, a session's tokens are its own.
LEMMA StepTold ==
  ASSUME FreshClient, TypeOK, OrderInv, [Next]_vars, NEW s \in Sessions, Told(s)
  PROVE  Told(s)'
<1> USE DEF mcVars, serverVars, listenerVars
<1>0. /\ DOMAIN readPump = Sessions /\ DOMAIN loop = Sessions /\ DOMAIN writePump = Sessions
      /\ DOMAIN conn = Sessions /\ DOMAIN readDone = Sessions /\ DOMAIN writeDone = Sessions
      /\ \A r \in Sessions : Client(r) = r
  BY DEF TypeOK, ClientTypeOK, GoroutineTypeOK, ServerTypeOK, Client
<1>1. ASSUME Ending(s)' = Ending(s) PROVE Told(s)'
  BY <1>1 DEF Ending, Told
<1>2. ASSUME UNCHANGED <<readPump, writePump, loop, conn, readDone, writeDone>> PROVE Told(s)'
  BY <1>1, <1>2 DEF Ending
<1>3. ASSUME NEW t \in Threads, CallStep(t) PROVE Told(s)'
  BY <1>2, <1>3 DEF CallStep, EnqueueRequest, EnqueueTimeout, WaitTimeout, WaitAnswer, WaitRetry
<1>4. ASSUME NEW x \in Senders, Send(x) PROVE Told(s)'
  BY <1>2, <1>4 DEF Send
<1>5. ASSUME NEW r \in Sessions, DialStep(r) PROVE Told(s)'
  <2>1. loop[r] = "off"
    BY <1>5 DEF DialStep, LoopConnect, LoopDialError, Turn
  <2>2. conn[r] = "none" /\ readPump[r] = "off"
    BY <2>1 DEF OrderInv, Unused
  <2>3. CASE LoopConnect(r)
    BY <1>0, <2>2, <2>3 DEF LoopConnect, Told
  <2>4. CASE LoopDialError(r)
    BY <1>0, <2>2, <2>4 DEF LoopDialError, Told
  <2> QED BY <1>5, <2>3, <2>4 DEF DialStep
<1>6. ASSUME NEW r \in Sessions, LoopStep(r) PROVE Told(s)'
  <2>1. loop[r] # "off"
    BY <1>6 DEF LoopStep, LoopCallOk, LoopCallError, LoopReadDone, LoopTake, LoopHandle,
                LoopHandleAndAck, LoopHandleError
  <2>2. CASE LoopTake(r) \/ LoopHandle(r) \/ LoopHandleAndAck(r) \/ LoopCallOk(r)
    BY <1>0, <2>2 DEF LoopTake, LoopHandle, LoopHandleAndAck, LoopCallOk, Told
  <2>3. CASE LoopReadDone(r)
    BY <1>0, <2>3 DEF LoopReadDone, Return, Told
  <2>4. CASE LoopCallError(r) \/ LoopHandleError(r)
    BY <1>0, <2>4 DEF LoopCallError, LoopHandleError, Return, Told
  <2> QED BY <1>6, <2>2, <2>3, <2>4 DEF LoopStep
<1>7. ASSUME NEW r \in Sessions, ReadStep(r) PROVE Told(s)'
  <2>1. CASE ReadAnswer(r) \/ ReadIgnored(r) \/ ReadMessage(r)
    BY <1>0, <2>1 DEF ReadAnswer, EndRead, ReadIgnored, ReadMessage, Told
  <2>2. CASE PushMessage(r) \/ PushTimeout(r) \/ ReadError(r)
    BY <1>0, <2>2 DEF PushMessage, PushTimeout, ReadError, EndRead, Told
  <2>3. CASE SignalWriteDone(r) \/ SignalReadDone(r)
    BY <1>0, <2>3 DEF SignalWriteDone, SignalReadDone, Told
  <2> QED BY <1>7, <2>1, <2>2, <2>3 DEF ReadStep
<1>8. ASSUME NEW r \in Sessions, WriteStep(r) \/ Break(r) PROVE Told(s)'
  BY <1>0, <1>8 DEF WriteStep, WriteData, WriteError, PingError, WriteDone, EndWrite, Break, Told
<1>9. ASSUME NEW r \in Sessions, ServerStep(r) PROVE Told(s)'
  BY <1>2, <1>9 DEF ServerStep, ServerExecute, ServerRefuse, ServerPush
<1>10. ASSUME NEW m \in Messages, ServerReceive(m) PROVE Told(s)'
  BY <1>2, <1>10 DEF ServerReceive
<1>11. CASE UNCHANGED vars
  BY <1>2, <1>11 DEF vars
<1> QED
  BY <1>3, <1>4, <1>5, <1>6, <1>7, <1>8, <1>9, <1>10, <1>11 DEF Next, Terminated

\* With a client for each Loop, the goroutines of a connection end one another:
\* the tokens of readDone and writeDone neither block readPump nor get lost,
\* whichever of the three ends first and for whatever reason.
THEOREM SignalsAlways == FreshClient /\ Spec => []SignalsKept
<1> SUFFICES ASSUME FreshClient PROVE Spec => []SignalsKept
  OBVIOUS
<1> DEFINE ToldInv == \A s \in Sessions : Told(s)
<1>1. Init => ToldInv
  BY DEF Init, Told
<1>2. ListenerInv /\ OrderInv /\ ToldInv /\ [Next]_vars => ToldInv'
  BY StepTold DEF ListenerInv
<1>3. ToldInv => SignalsKept
  BY DEF Told, SignalsKept, Client
<1> QED BY <1>1, <1>2, <1>3, ListenerInvHolds, OrderInvHolds, PTL DEF Spec
=============================================================================
