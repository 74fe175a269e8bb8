--------------------------- MODULE CredentialsProofs ---------------------------
(***************************************************************************)
(* The keys of a bot, for any users, goroutines, peers and bounds: the     *)
(* types of BotAuthCache, PeerAccepts, and KeysLoggedFirst of Registration.*)
(***************************************************************************)
EXTENDS Registration, BotAuthCache, TLAPS

-----------------------------------------------------------------------------
(* BotAuthCache: types *)

BotKeys == [own : 0..MaxRotations, peer : Peers, session : 0..MaxRotations] \cup {NoKey}

\* The bot's own types: a session counts rotations, the cache holds keys.
LEMMA BotInitType == BotInit => BotTypeOK
  BY BotAuthAssumption DEF BotInit, BotTypeOK, NoCache, Never

LEMMA BotStepType == BotTypeOK /\ [BotNext]_botVars => BotTypeOK'
<1> SUFFICES ASSUME BotTypeOK, [BotNext]_botVars PROVE BotTypeOK'
  OBVIOUS
<1> USE BotAuthAssumption DEF BotTypeOK
<1>1. ASSUME NEW g \in Goroutines, NEW p \in Peers, Hit(g, p) PROVE BotTypeOK'
  BY <1>1 DEF Hit, SharedKeyName
<1>2. ASSUME NEW g \in Goroutines, NEW p \in Peers, Miss(g, p) PROVE BotTypeOK'
  BY <1>2 DEF Miss
<1>3. ASSUME NEW g \in Goroutines, Fetch(g) PROVE BotTypeOK'
  BY <1>3 DEF Fetch, Key
<1>4. ASSUME NEW g \in Goroutines, FetchFails(g) PROVE BotTypeOK'
  BY <1>4 DEF FetchFails
<1>5. ASSUME NEW g \in Goroutines, Put(g) PROVE BotTypeOK'
  BY <1>5 DEF Put, SharedKeyName
<1>6. ASSUME NEW g \in Goroutines, Again(g) PROVE BotTypeOK'
  BY <1>6 DEF Again
<1>7. ASSUME NEW p \in Peers, Rotate(p) PROVE BotTypeOK'
  BY <1>7 DEF Rotate
<1>8. CASE Restart
  BY <1>8 DEF Restart, NoCache
<1>9. CASE UNCHANGED botVars
  BY <1>9 DEF botVars
<1> QED BY <1>1, <1>2, <1>3, <1>4, <1>5, <1>6, <1>7, <1>8, <1>9 DEF BotNext

\* Every variable of BotAuthCache has its type.
THEOREM BotTypesHold == BotSpec => []BotTypeOK
  BY BotInitType, BotStepType, PTL DEF BotSpec

-----------------------------------------------------------------------------
(* BotAuthCache: PeerAccepts *)

\* A key is of the peer, and of sessions no older than those its first key was
\* made with and no newer than those there are.
Between(k, p) ==
  /\ first[p] # Never
  /\ k.peer = p
  /\ first[p][1] <= k.own /\ k.own <= own
  /\ first[p][2] <= k.session /\ k.session <= session[p]

\* The strengthening of PeerAccepts: what is cached and what a goroutine holds
\* are such keys, and the first sessions are not newer than those there are.
KeysBetween ==
  /\ \A p \in Peers : cache[p] # NoKey => Between(cache[p], p)
  /\ \A g \in Goroutines : pc[g] \in {"put", "signed"} => Between(shared[g], target[g])
  /\ \A p \in Peers : first[p] # Never => first[p][1] <= own /\ first[p][2] <= session[p]

LEMMA KeysBetweenInit == BotInit => KeysBetween
  BY DEF BotInit, KeysBetween, NoCache

\* The types of single elements.
LEMMA BotElements ==
  ASSUME BotTypeOK
  PROVE  /\ own \in Int
         /\ \A p \in Peers : session[p] \in Int /\ cache[p] \in BotKeys
         /\ \A p \in Peers : first[p] # Never => first[p][1] \in Int /\ first[p][2] \in Int
         /\ \A g \in Goroutines : shared[g] \in BotKeys /\ target[g] \in Peers
  BY BotAuthAssumption DEF BotTypeOK, BotKeys, Never

LEMMA KeyElements ==
  \A k \in BotKeys : k.own \in Int /\ k.session \in Int
  BY BotAuthAssumption DEF BotKeys, NoKey

\* A step that leaves the first sessions alone and makes no session younger
\* keeps a key between.
LEMMA BetweenKept ==
  ASSUME NEW p \in Peers, NEW k \in BotKeys, BotTypeOK, BotTypeOK', Between(k, p),
         first'[p] = first[p], own <= own', session[p] <= session'[p]
  PROVE  Between(k, p)'
<1>1. first[p][1] \in Int /\ first[p][2] \in Int
  BY BotElements DEF Between
<1>2. own \in Int /\ own' \in Int /\ session[p] \in Int /\ session'[p] \in Int
  BY BotElements, BotAuthAssumption DEF BotTypeOK
<1> QED BY <1>1, <1>2, KeyElements DEF Between

LEMMA KeysBetweenStep ==
  BotTypeOK /\ BotTypeOK' /\ KeysBetween /\ [BotNext]_botVars => KeysBetween'
<1> SUFFICES ASSUME BotTypeOK, BotTypeOK', KeysBetween, [BotNext]_botVars PROVE KeysBetween'
  OBVIOUS
<1>0. \A p \in Peers : session[p] <= session[p] /\ own <= own
  BY BotElements
<1>1. ASSUME NEW g \in Goroutines, NEW q \in Peers, Hit(g, q) PROVE KeysBetween'
  <2>1. /\ UNCHANGED <<session, own, cache, first>>
        /\ cache[q] # NoKey /\ cache[q] \in BotKeys
    BY <1>1, BotElements DEF Hit, SharedKeyName
  <2>2. \A h \in Goroutines \ {g} :
          pc'[h] = pc[h] /\ shared'[h] = shared[h] /\ target'[h] = target[h]
    BY <1>1 DEF Hit, BotTypeOK
  <2>3. shared'[g] = cache[q] /\ target'[g] = q
    BY <1>1 DEF Hit, SharedKeyName, BotTypeOK
  <2> QED BY <2>1, <2>2, <2>3 DEF KeysBetween, Between
<1>2. ASSUME NEW g \in Goroutines, NEW q \in Peers, Miss(g, q) PROVE KeysBetween'
  <2>1. UNCHANGED <<session, own, cache, shared, first>> /\ pc'[g] = "fetch"
    BY <1>2 DEF Miss, BotTypeOK
  <2>2. \A h \in Goroutines \ {g} : pc'[h] = pc[h] /\ target'[h] = target[h]
    BY <1>2 DEF Miss, BotTypeOK
  <2> QED BY <2>1, <2>2 DEF KeysBetween, Between
<1>3. ASSUME NEW g \in Goroutines, Fetch(g) PROVE KeysBetween'
  <2> DEFINE p == target[g]
  <2>1. p \in Peers /\ UNCHANGED <<session, own, cache, target>>
    BY <1>3, BotElements DEF Fetch
  <2>2. \A q \in Peers : first[q] # Never => first'[q] = first[q]
    BY <1>3 DEF Fetch, BotTypeOK
  <2>3. shared'[g] = Key(own, p, session[p])
    BY <1>3 DEF Fetch, BotTypeOK
  <2>4. \A h \in Goroutines \ {g} : pc'[h] = pc[h] /\ shared'[h] = shared[h]
    BY <1>3 DEF Fetch, BotTypeOK
  <2>5. \A q \in Peers \ {p} : first'[q] = first[q]
    BY <1>3 DEF Fetch, BotTypeOK
  <2>6. first[p] = Never => first'[p] = <<own, session[p]>>
    BY <1>3, <2>1 DEF Fetch, BotTypeOK
  <2>7. first'[p] # Never
    BY <2>1, <2>2, <2>6, BotAuthAssumption DEF BotTypeOK, Never
  <2>8. \A q \in Peers : first'[q] # Never => first'[q][1] <= own /\ first'[q][2] <= session[q]
    BY <2>1, <2>2, <2>5, <2>6, BotElements DEF KeysBetween
  <2>9. Between(shared[g], target[g])'
    BY <2>1, <2>3, <2>7, <2>8, BotElements DEF Between, Key
  <2>10. \A q \in Peers, k \in BotKeys : Between(k, q) => Between(k, q)'
    BY <2>1, <2>2 DEF Between
  <2> QED BY <2>1, <2>4, <2>8, <2>9, <2>10, BotElements DEF KeysBetween
<1>4. ASSUME NEW g \in Goroutines, FetchFails(g) PROVE KeysBetween'
  <2>1. UNCHANGED <<session, own, cache, target, shared, first>> /\ pc'[g] = "idle"
    BY <1>4 DEF FetchFails, BotTypeOK
  <2>2. \A h \in Goroutines \ {g} : pc'[h] = pc[h]
    BY <1>4 DEF FetchFails, BotTypeOK
  <2> QED BY <2>1, <2>2 DEF KeysBetween, Between
<1>5. ASSUME NEW g \in Goroutines, Put(g) PROVE KeysBetween'
  <2>1. UNCHANGED <<session, own, target, shared, first>> /\ pc[g] = "put"
    BY <1>5 DEF Put
  <2>2. \A h \in Goroutines : pc'[h] \in {"put", "signed"} => pc[h] \in {"put", "signed"}
    BY <1>5, <2>1 DEF Put, BotTypeOK
  <2>3. \A q \in Peers : cache'[q] = cache[q] \/ (q = target[g] /\ cache'[q] = shared[g])
    BY <1>5 DEF Put, SharedKeyName, BotTypeOK
  <2>4. Between(shared[g], target[g])
    BY <2>1 DEF KeysBetween
  <2> QED BY <2>1, <2>2, <2>3, <2>4 DEF KeysBetween, Between
<1>6. ASSUME NEW g \in Goroutines, Again(g) PROVE KeysBetween'
  <2>1. UNCHANGED <<session, own, cache, target, first>> /\ pc'[g] = "idle"
    BY <1>6 DEF Again, BotTypeOK
  <2>2. \A h \in Goroutines \ {g} : pc'[h] = pc[h] /\ shared'[h] = shared[h]
    BY <1>6 DEF Again, BotTypeOK
  <2> QED BY <2>1, <2>2 DEF KeysBetween, Between
<1>7. ASSUME NEW q \in Peers, Rotate(q) PROVE KeysBetween'
  <2>1. UNCHANGED <<own, cache, pc, target, shared, first>>
    BY <1>7 DEF Rotate
  <2>2. \A p \in Peers : session[p] <= session'[p]
    BY <1>7, BotElements DEF Rotate, BotTypeOK
  <2>3. \A p \in Peers, k \in BotKeys : Between(k, p) => Between(k, p)'
    BY <1>0, <2>1, <2>2, BetweenKept
  <2>4. \A p \in Peers : session'[p] \in Int
    BY BotAuthAssumption DEF BotTypeOK
  <2> QED BY <2>1, <2>2, <2>3, <2>4, BotElements DEF KeysBetween
<1>8. CASE Restart
  <2>1. own <= own' /\ own' \in Int /\ session' = session
    BY <1>8, BotElements, BotAuthAssumption DEF Restart, BotTypeOK
  <2>2. \A h \in Goroutines : pc'[h] = "idle"
    BY <1>8 DEF Restart
  <2>3. CASE persistent
    <3>1. UNCHANGED <<cache, first>>
      BY <1>8, <2>3 DEF Restart
    <3>2. \A p \in Peers, k \in BotKeys : Between(k, p) => Between(k, p)'
      BY <1>0, <2>1, <3>1, BetweenKept
    <3> QED BY <2>1, <2>2, <3>1, <3>2, BotElements DEF KeysBetween
  <2>4. CASE ~persistent
    <3>1. \A p \in Peers : cache'[p] = NoKey /\ first'[p] = Never
      BY <1>8, <2>4 DEF Restart, NoCache
    <3> QED BY <2>2, <3>1 DEF KeysBetween
  <2> QED BY <2>3, <2>4
<1>9. CASE UNCHANGED botVars
  BY <1>9 DEF botVars, KeysBetween, Between
<1> QED BY <1>1, <1>2, <1>3, <1>4, <1>5, <1>6, <1>7, <1>8, <1>9 DEF BotNext

LEMMA BetweenAccepts == BotTypeOK /\ KeysBetween => PeerAccepts
<1> SUFFICES ASSUME BotTypeOK, KeysBetween, NEW g \in Goroutines, pc[g] = "signed"
             PROVE  /\ shared[g].peer = target[g]
                    /\ first[target[g]] = <<own, session[target[g]]>>
                         => shared[g] = Key(own, target[g], session[target[g]])
  BY DEF PeerAccepts
<1>1. Between(shared[g], target[g]) /\ shared[g] \in BotKeys /\ target[g] \in Peers
  BY BotElements DEF KeysBetween
<1>2. \A k \in BotKeys : k = [own |-> k.own, peer |-> k.peer, session |-> k.session]
  BY DEF BotKeys, NoKey
<1>3. /\ own \in Int /\ session[target[g]] \in Int
      /\ shared[g].own \in Int /\ shared[g].session \in Int
  BY <1>1, BotElements, KeyElements
<1>4. ASSUME first[target[g]] = <<own, session[target[g]]>>
      PROVE  shared[g].own = own /\ shared[g].session = session[target[g]]
  BY <1>1, <1>3, <1>4 DEF Between
<1> QED BY <1>1, <1>2, <1>4 DEF Between, Key

\* The peer accepts what it is sent unless a session was rotated after the
\* first key was derived, however many goroutines share the cache.
THEOREM AcceptedByPeers == BotSpec => []PeerAccepts
<1>1. BotInit => BotTypeOK /\ KeysBetween
  BY BotInitType, KeysBetweenInit
<1>2. BotTypeOK /\ KeysBetween /\ [BotNext]_botVars => (BotTypeOK /\ KeysBetween)'
  BY BotStepType, KeysBetweenStep
<1> QED BY <1>1, <1>2, BetweenAccepts, PTL DEF BotSpec

-----------------------------------------------------------------------------
(* Registration: KeysLoggedFirst *)

\* The strengthening of KeysLoggedFirst: the key of a running command and of a
\* call that may still arrive have been logged as well.
RegInv ==
  /\ pin \in [Users -> seeds \cup {None}]
  /\ safe \in [Users -> seeds \cup {None}]
  /\ \A u \in Users : safe[u] \in {None, pin[u]}
  /\ at # "idle" => key \in seeds
  /\ \A c \in late : c.key \in seeds
  /\ \A ks \in keystores : ks[1] \in created /\ ks[2] \in seeds

LEMMA RegInitInv == RegInit => RegInv
  BY DEF RegInit, RegInv

\* What the server takes keeps the PINs and registrations those of logged keys.
LEMMA ServerKeepsKeys ==
  ASSUME RegInv, NEW u, NEW k \in seeds, SetPin(u, k) \/ SetSafe(u, k)
  PROVE  /\ pin' \in [Users -> seeds \cup {None}]
         /\ safe' \in [Users -> seeds \cup {None}]
         /\ \A v \in Users : safe'[v] \in {None, pin'[v]}
         /\ created' = created
<1>1. CASE SetPin(u, k)
  <2>1. safe' = safe /\ created' = created
    BY <1>1 DEF SetPin
  <2>2. CASE u \in Users /\ pin[u] = None
    BY <1>1, <2>1, <2>2 DEF SetPin, TakesPin, RegInv
  <2>3. CASE u \notin Users \/ pin[u] # None
    <3>1. pin' = pin
      BY <1>1, <2>3 DEF SetPin, TakesPin, RegInv
    <3> QED BY <2>1, <3>1 DEF RegInv
  <2> QED BY <2>2, <2>3
<1>2. CASE SetSafe(u, k)
  <2>1. pin' = pin /\ created' = created
    BY <1>2 DEF SetSafe
  <2>2. CASE u \in Users /\ TakesSafe(u, k)
    BY <1>2, <2>1, <2>2 DEF SetSafe, TakesSafe, RegInv
  <2>3. CASE u \notin Users \/ ~TakesSafe(u, k)
    <3>1. safe' = safe
      BY <1>2, <2>3 DEF SetSafe, RegInv
    <3> QED BY <2>1, <3>1 DEF RegInv
  <2> QED BY <2>2, <2>3
<1> QED BY <1>1, <1>2

LEMMA CommandKeepsInv == RegInv /\ Commands => RegInv'
<1> SUFFICES ASSUME RegInv, Commands PROVE RegInv'
  OBVIOUS
<1>1. ASSUME NEW k \in Keys, Create(k) PROVE RegInv'
  BY <1>1 DEF Create, Start, Fresh, RegInv, serverVars
<1>2. ASSUME NEW k \in Keys, NEW u \in Users, Migrate(u, k) PROVE RegInv'
  BY <1>2 DEF Migrate, Start, Fresh, RegInv, serverVars
<1>3. ASSUME NEW k \in Keys, NEW u \in Users, Register(u, k) PROVE RegInv'
  BY <1>3 DEF Register, Start, RegInv, serverVars
<1>4. ASSUME NEW k \in Keys, NEW u \in Users, UpdatePin(u, k) PROVE RegInv'
  BY <1>4 DEF UpdatePin, Start, RegInv, serverVars
<1>5. ASSUME NEW k \in Keys, NEW u \in Users, RegisterBare(u, k) PROVE RegInv'
  BY <1>5 DEF RegisterBare, Start, RegInv, serverVars
<1> QED BY <1>1, <1>2, <1>3, <1>4, <1>5 DEF Commands

LEMMA AnswerKeepsInv == RegInv /\ Answers => RegInv'
<1> SUFFICES ASSUME RegInv, Answers PROVE RegInv'
  OBVIOUS
<1>1. ASSUME NEW u \in Users, UserCreated(u) PROVE RegInv'
  BY <1>1 DEF UserCreated, RegInv
<1>2. CASE UserRefused
  BY <1>2 DEF UserRefused, RegInv, serverVars
<1>3. CASE PinUpdated
  BY <1>3, ServerKeepsKeys DEF PinUpdated, RegInv
<1>4. CASE SafeRegistered
  BY <1>4, ServerKeepsKeys DEF SafeRegistered, RegInv
<1> QED BY <1>1, <1>2, <1>3, <1>4 DEF Answers

LEMMA RegStepInv == RegInv /\ [RegNext]_regVars => RegInv'
<1> SUFFICES ASSUME RegInv, [RegNext]_regVars PROVE RegInv'
  OBVIOUS
<1>1. CASE CallLost
  BY <1>1 DEF CallLost, RegInv, serverVars
<1>2. CASE AnswerNotSeen
  <2>1. key \in seeds /\ at' = "idle" /\ UNCHANGED <<seeds, keystores, late>>
    BY <1>2 DEF AnswerNotSeen, RegInv
  <2>2. CASE SetPin(user, key) \/ SetSafe(user, key)
    BY <2>1, <2>2, ServerKeepsKeys DEF RegInv
  <2>3. CASE \E u \in Users \ created : created' = created \cup {u} /\ UNCHANGED <<pin, safe>>
    BY <2>1, <2>3 DEF RegInv
  <2> QED BY <1>2, <2>2, <2>3 DEF AnswerNotSeen
<1>3. ASSUME NEW c \in late, CallArrives(c) PROVE RegInv'
  <2>1. c.key \in seeds /\ UNCHANGED <<at, key, seeds, keystores>> /\ late' \subseteq late
    BY <1>3 DEF CallArrives, RegInv, commandVars
  <2>2. CASE SetPin(c.user, c.key) \/ SetSafe(c.user, c.key)
    BY <2>1, <2>2, ServerKeepsKeys DEF RegInv
  <2>3. CASE \E u \in Users \ created : created' = created \cup {u} /\ UNCHANGED <<pin, safe>>
    BY <2>1, <2>3 DEF RegInv
  <2> QED BY <1>3, <2>2, <2>3 DEF CallArrives
<1>4. CASE UNCHANGED regVars
  BY <1>4 DEF regVars, commandVars, serverVars, RegInv
<1> QED BY <1>1, <1>2, <1>3, <1>4, CommandKeepsInv, AnswerKeepsInv DEF RegNext

\* Whatever is lost, late or crashes, the server has no key that was not logged.
THEOREM LoggedBeforeSent == RegSpec => []KeysLoggedFirst
<1>1. RegInv => KeysLoggedFirst
  BY DEF RegInv, KeysLoggedFirst
<1> QED BY <1>1, RegInitInv, RegStepInv, PTL DEF RegSpec
=============================================================================
