----------------------------- MODULE BotAuthCache -----------------------------
(***************************************************************************)
(* SignRequest of botauth.go: a bot signs its requests to another bot with *)
(* a key both can derive, from its own session key and the public key of   *)
(* the other's session.  The key is cached by the id of the other bot, for *)
(* as long as the cache lives; nothing deletes it.  The sessions of the    *)
(* other bots, which may be rotated at any time, and the cache when it is  *)
(* not the library's map, are external.                                    *)
(***************************************************************************)
EXTENDS Integers

CONSTANTS
  Goroutines,
  Peers,
  MaxRotations   \* how often sessions are rotated, the bot's own included

ASSUME BotAuthAssumption == MaxRotations \in Nat

VARIABLES
  session,       \* the session each peer has, as the count of its rotations
  own,           \* the same of the bot, which has another after a restart
  cache,         \* the shared key under each name, NoKey when there is none
  pc, target,    \* where each goroutine is, and the peer it signs for
  shared,        \* the shared key it has derived or found
  persistent,    \* the cache outlives the process: it is not NewMapCache's
  first          \* both sessions when the peer's first key was derived

botVars == <<session, own, cache, pc, target, shared, persistent, first>>

NoKey == [own |-> -1, peer |-> "nobody", session |-> -1]
Key(o, p, s) == [own |-> o, peer |-> p, session |-> s]
Never == <<-1, -1>>

\* Mutant: all peers share one name.
SharedKeyNameOne(p) == CHOOSE q \in Peers : TRUE

\* The name a shared key is put under; the platform has one of its own.
SharedKeyName(p) == p

NoCache == [n \in Peers |-> NoKey]

BotInit ==
  /\ session = [p \in Peers |-> 0]
  /\ own = 0
  /\ cache = NoCache
  /\ pc = [g \in Goroutines |-> "idle"]
  /\ target \in [Goroutines -> Peers]
  /\ shared = [g \in Goroutines |-> NoKey]
  /\ persistent \in BOOLEAN
  /\ first = [p \in Peers |-> Never]

\* SignRequest begins with getSharedKey: a key in the cache is used.
Hit(g, p) ==
  /\ pc[g] = "idle"
  /\ cache[SharedKeyName(p)] # NoKey
  /\ shared' = [shared EXCEPT ![g] = cache[SharedKeyName(p)]]
  /\ target' = [target EXCEPT ![g] = p]
  /\ pc' = [pc EXCEPT ![g] = "signed"]
  /\ UNCHANGED <<session, own, cache, first, persistent>>

\* Nothing there, too short a value, or an error of the cache.
Miss(g, p) ==
  /\ pc[g] = "idle"
  /\ cache[SharedKeyName(p)] = NoKey \/ persistent
  /\ target' = [target EXCEPT ![g] = p]
  /\ pc' = [pc EXCEPT ![g] = "fetch"]
  /\ UNCHANGED <<session, own, cache, shared, first, persistent>>

\* FetchUserSession answers: the key is derived from the last session in the
\* answer.
Fetch(g) ==
  LET p == target[g]
  IN /\ pc[g] = "fetch"
     /\ shared' = [shared EXCEPT ![g] = Key(own, p, session[p])]
     /\ first' = IF first[p] = Never THEN [first EXCEPT ![p] = <<own, session[p]>>] ELSE first
     /\ pc' = [pc EXCEPT ![g] = "put"]
     /\ UNCHANGED <<session, own, cache, target, persistent>>

\* It fails, or answers with no session: SignRequest returns an error.
FetchFails(g) ==
  /\ pc[g] = "fetch"
  /\ pc' = [pc EXCEPT ![g] = "idle"]
  /\ UNCHANGED <<session, own, cache, target, shared, first, persistent>>

\* The key is put into the cache; an error of that is only logged.
Put(g) ==
  /\ pc[g] = "put"
  /\ \/ cache' = [cache EXCEPT ![SharedKeyName(target[g])] = shared[g]]
     \/ persistent /\ UNCHANGED cache
  /\ pc' = [pc EXCEPT ![g] = "signed"]
  /\ UNCHANGED <<session, own, target, shared, first, persistent>>

\* The request has been sent; the goroutine may make another.
Again(g) ==
  /\ pc[g] = "signed"
  /\ pc' = [pc EXCEPT ![g] = "idle"]
  /\ shared' = [shared EXCEPT ![g] = NoKey]
  /\ UNCHANGED <<session, own, cache, target, first, persistent>>

\* Another bot's session is rotated: nobody tells this one.
Rotate(p) ==
  /\ session[p] < MaxRotations
  /\ session' = [session EXCEPT ![p] = @ + 1]
  /\ UNCHANGED <<own, cache, pc, target, shared, first, persistent>>

\* The process starts again, with the session it had or a new one in its
\* keystore, and with the map of NewMapCache empty.
Restart ==
  /\ own' \in own..MaxRotations
  /\ pc' = [g \in Goroutines |-> "idle"]
  /\ shared' = [g \in Goroutines |-> NoKey]
  /\ IF persistent THEN UNCHANGED <<cache, first>>
     ELSE cache' = NoCache /\ first' = [p \in Peers |-> Never]
  /\ UNCHANGED <<session, target, persistent>>

BotNext ==
  \/ \E g \in Goroutines :
       \/ \E p \in Peers : Hit(g, p) \/ Miss(g, p)
       \/ Fetch(g) \/ FetchFails(g) \/ Put(g) \/ Again(g)
  \/ \E p \in Peers : Rotate(p)
  \/ Restart

BotSpec == BotInit /\ [][BotNext]_botVars

-----------------------------------------------------------------------------
(* Properties *)

BotTypeOK ==
  LET Held == [own : 0..MaxRotations, peer : Peers, session : 0..MaxRotations] \cup {NoKey}
  IN /\ session \in [Peers -> 0..MaxRotations] /\ own \in 0..MaxRotations
     /\ cache \in [Peers -> Held]
     /\ pc \in [Goroutines -> {"idle", "fetch", "put", "signed"}]
     /\ target \in [Goroutines -> Peers] /\ shared \in [Goroutines -> Held]
     /\ persistent \in BOOLEAN
     /\ first \in [Peers -> ((0..MaxRotations) \X (0..MaxRotations)) \cup {Never}]

\* A request is signed with a key of the peer it is for, and the peer accepts
\* it unless a session was rotated after the first key for this peer was
\* derived: goroutines that miss at once, fetch in one order and put in another
\* leave no key behind that is staler than that, and a restart with an empty
\* cache begins anew.  After a rotation the key may be stale for as long as the
\* cache lives.
PeerAccepts ==
  \A g \in Goroutines : pc[g] = "signed" =>
    LET p == target[g]
    IN /\ shared[g].peer = p
       /\ first[p] = <<own, session[p]>> => shared[g] = Key(own, p, session[p])
=============================================================================
