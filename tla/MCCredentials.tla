----------------------------- MODULE MCCredentials -----------------------------
(* The keys of a bot: its registration, and the keys it shares with other *)
(* bots.  They have no state in common, so a behaviour runs one of them.  *)
EXTENDS Registration, BotAuthCache

VARIABLE part

vars == <<regVars, botVars, part>>

Init == RegInit /\ BotInit /\ part \in {"registration", "sharedKeys"}

Registers(A) == part = "registration" /\ A /\ UNCHANGED <<botVars, part>>

Next ==
  \/ Registers(RegNext)
  \/ part = "sharedKeys" /\ BotNext /\ UNCHANGED <<regVars, part>>

Spec == Init /\ [][Next]_vars

\* A command that runs gets its answers or its timeouts.  The operator keeps
\* running the commands of the two steps for every user, and tries every seed.
Fairness ==
  /\ WF_vars(Registers(Answers))
  /\ \A u \in Users : SF_vars(Registers(StepOne(u))) /\ SF_vars(Registers(StepTwo(u)))

FairSpec == Spec /\ Fairness

\* RecoveryRegisters, of the behaviours in which the commands are run.
RecoversInTheEnd == part = "registration" => RecoveryRegisters
=============================================================================
