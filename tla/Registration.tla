----------------------------- MODULE Registration -----------------------------
(***************************************************************************)
(* How a user gets its PIN and is registered in the safe: the commands     *)
(* create_register_safe_bare_user, update_pin, register_safe_bare_user,    *)
(* migrate and register of cli/, and the calls of safe_user.go, user.go    *)
(* and pin.go they make, one at a time.  The operator who runs them knows  *)
(* what they logged, nothing more.  The server is external: it takes a PIN *)
(* from a user that has none, and a registration signed with that PIN.     *)
(* A call may be lost, its answer may be, and a call whose caller has      *)
(* given up may still arrive.                                              *)
(***************************************************************************)
EXTENDS Integers, FiniteSets

CONSTANTS
  Users,       \* the ids the server gives
  Legacy,      \* those with a keystore from the dashboard and no PIN
  Keys,        \* spend keys, in the order ed25519.GenerateKey makes them
  MaxFaults    \* how many calls and answers are lost and processes crash

ASSUME RegistrationAssumption ==
  /\ Legacy \subseteq Users
  /\ Keys \subseteq Nat \ {0} /\ MaxFaults \in Nat

VARIABLES
  at,          \* the call the running command is at, "idle" without one
  command, user, key,   \* its name, the user and the spend key it works with
  seeds,       \* the seeds that were logged
  keystores,   \* the keystores the operator has, as <<user, key>>
  created, pin, safe,   \* the server's users, their PINs and registrations
  late,        \* calls that may still arrive
  mishaps      \* faults so far

commandVars == <<at, command, user, key>>
serverVars == <<created, pin, safe>>
regVars == <<commandVars, seeds, keystores, serverVars, late, mishaps>>

None == 0
Nobody == "nobody"

RegInit ==
  /\ at = "idle" /\ command = "none" /\ user = Nobody /\ key = None
  /\ seeds = {} /\ keystores = {}
  /\ created = Legacy
  /\ pin = [u \in Users |-> None] /\ safe = [u \in Users |-> None]
  /\ late = {} /\ mishaps = 0

\* The users the operator can log in as.
Known == Legacy \cup {ks[1] : ks \in keystores}

-----------------------------------------------------------------------------
(* The server, external *)

\* UpdatePin with the empty old PIN.
TakesPin(u) == pin[u] = None
\* A registration proves that the PIN's key is the caller's.
TakesSafe(u, k) == pin[u] = k /\ safe[u] = None

SetPin(u, k) ==
  /\ pin' = IF TakesPin(u) THEN [pin EXCEPT ![u] = k] ELSE pin
  /\ UNCHANGED <<created, safe>>

SetSafe(u, k) ==
  /\ safe' = IF TakesSafe(u, k) THEN [safe EXCEPT ![u] = k] ELSE safe
  /\ UNCHANGED <<created, pin>>

-----------------------------------------------------------------------------
(* The commands, each up to its first call *)

Start(name, step, u, k) ==
  /\ at = "idle"
  /\ at' = step /\ command' = name /\ user' = u /\ key' = k
  /\ UNCHANGED <<keystores, serverVars, late, mishaps>>

Fresh(k) == k \in Keys \ seeds

\* Mutant: the seed is logged when the command has succeeded.
CreateLogsLater(k) ==
  Users # created /\ Fresh(k) /\ Start("create", "user", Nobody, k) /\ UNCHANGED seeds

\* create_register_safe_bare_user logs the seeds before anything else, one that
\* it makes and one that it is given.  Users is a bound: the server has an id for
\* every creation.
Create(k) ==
  /\ Users # created
  /\ Fresh(k) \/ k \in seeds
  /\ Start("create", "user", Nobody, k)
  /\ seeds' = seeds \cup {k}

\* Mutant: only the public key of it is logged.
MigrateLogsNothing(u, k) ==
  Fresh(k) /\ Start("migrate", "pin", u, k) /\ u \in Legacy /\ UNCHANGED seeds

\* migrate logs its seed as well, then sets it as the PIN.
Migrate(u, k) ==
  /\ Fresh(k) /\ Start("migrate", "pin", u, k)
  /\ u \in Legacy
  /\ seeds' = seeds \cup {k}

\* update_pin and register_safe_bare_user overwrite the keystore's spend key by
\* the seed they are given: one that was logged, for all the operator has.
UpdatePin(u, k) ==
  /\ u \in Known /\ k \in seeds
  /\ Start("update_pin", "pin", u, k)
  /\ UNCHANGED seeds

RegisterBare(u, k) ==
  /\ u \in Known /\ k \in seeds
  /\ Start("register_safe_bare_user", "safe", u, k)
  /\ UNCHANGED seeds

\* register asks first whether the user has a safe.  RegisterSafe panics unless
\* the keystore's spend key is the private key of the seed it is given: the
\* operator puts it there, for one of the seeds that were logged.
Register(u, k) ==
  /\ u \in Known /\ k \in seeds
  /\ safe[u] = None
  /\ Start("register", "safe", u, k)
  /\ UNCHANGED seeds

-----------------------------------------------------------------------------
(* The calls *)

\* CreateUser answers with an id, and the keystore is logged.
UserCreated(u) ==
  /\ at = "user" /\ u \in Users \ created
  /\ created' = created \cup {u}
  /\ keystores' = keystores \cup {<<u, key>>}
  /\ user' = u /\ at' = "pin"
  /\ UNCHANGED <<command, key, seeds, pin, safe, late, mishaps>>

\* CreateUser is refused.
UserRefused ==
  /\ at = "user" /\ Users = created
  /\ at' = "idle"
  /\ UNCHANGED <<command, user, key, seeds, keystores, serverVars, late, mishaps>>

\* UpdatePin: RegisterSafeWithSetupPin goes on when it is accepted, and returns
\* the error when it is not.
PinUpdated ==
  /\ at = "pin"
  /\ SetPin(user, key)
  /\ at' = IF command = "create" /\ TakesPin(user) THEN "safe" ELSE "idle"
  /\ UNCHANGED <<command, user, key, seeds, keystores, late, mishaps>>

\* RegisterSafeBareUser and RegisterSafe.
SafeRegistered ==
  /\ at = "safe"
  /\ SetSafe(user, key)
  /\ at' = "idle"
  /\ UNCHANGED <<command, user, key, seeds, keystores, late, mishaps>>

-----------------------------------------------------------------------------
(* Faults *)

Mishap == mishaps < MaxFaults /\ mishaps' = mishaps + 1

\* The call has not arrived when the command ends, with an error or because its
\* process died; it may yet.
CallLost ==
  /\ at # "idle" /\ Mishap
  /\ late' = late \cup {[call |-> at, user |-> user, key |-> key]}
  /\ at' = "idle"
  /\ UNCHANGED <<command, user, key, seeds, keystores, serverVars>>

\* The call is carried out and the command does not learn of it: a user may
\* have been created whose id nobody knows.
AnswerNotSeen ==
  /\ at # "idle" /\ Mishap
  /\ \/ at = "pin" /\ SetPin(user, key)
     \/ at = "safe" /\ SetSafe(user, key)
     \/ at = "user" /\ \E u \in Users \ created : created' = created \cup {u}
        /\ UNCHANGED <<pin, safe>>
  /\ at' = "idle"
  /\ UNCHANGED <<command, user, key, seeds, keystores, late>>

CallArrives(c) ==
  /\ c \in late /\ late' = late \ {c}
  /\ \/ c.call = "pin" /\ SetPin(c.user, c.key)
     \/ c.call = "safe" /\ SetSafe(c.user, c.key)
     \/ c.call = "user" /\ \E u \in Users \ created : created' = created \cup {u}
        /\ UNCHANGED <<pin, safe>>
  /\ UNCHANGED <<commandVars, seeds, keystores, mishaps>>

-----------------------------------------------------------------------------
Commands ==
  \E k \in Keys :
    \/ Create(k)
    \/ \E u \in Users : Migrate(u, k) \/ UpdatePin(u, k) \/ RegisterBare(u, k) \/ Register(u, k)

\* What the operator can do about a user's PIN, and about its registration once
\* the right seed is tried.
StepOne(u) == \E k \in Keys : Migrate(u, k) \/ UpdatePin(u, k)
StepTwo(u) == Register(u, pin[u]) \/ RegisterBare(u, pin[u])

Answers == (\E u \in Users : UserCreated(u)) \/ UserRefused \/ PinUpdated \/ SafeRegistered

RegNext ==
  \/ Commands \/ Answers
  \/ CallLost \/ AnswerNotSeen
  \/ \E c \in late : CallArrives(c)

RegSpec == RegInit /\ [][RegNext]_regVars

-----------------------------------------------------------------------------
(* Properties *)

\* The server's keys are keys the operator has: whatever crashed or was lost,
\* a PIN, a registration and a keystore are of a seed that was logged, and a
\* user is registered only with its PIN's key.
KeysLoggedFirst ==
  /\ \A u \in Users : /\ pin[u] \in seeds \cup {None}
                      /\ safe[u] \in {None, pin[u]}
  /\ \A ks \in keystores : ks[1] \in created /\ ks[2] \in seeds

\* Every user the operator can log in as is registered in the end, whichever
\* call of its creation failed, if the operator keeps running the commands of
\* the two steps: making both at once again would fail at the first for ever.
RecoveryRegisters == \A u \in Users : (u \in Known) ~> (safe[u] # None)
=============================================================================
