------------------------------ MODULE MCBlaze ------------------------------
(***************************************************************************)
(* Small instances of Blaze for TLC: the values of Kind, and a server      *)
(* that has its backlog from the start and pushes it in order.             *)
(***************************************************************************)
EXTENDS Blaze

CONSTANTS m1, m2, m3, x1

AllMessages == [m \in Messages |-> "message"]
WithReceipt == [m \in Messages |-> IF m = m2 THEN "receipt" ELSE "message"]
WithOther == [m \in Messages |-> IF m = m2 THEN "other" ELSE "message"]

\* The bounds of the run blaze_calls: the server has every message when the
\* program starts (Backlog) and pushes m1 first and m3 last (PushedInOrder, an
\* action constraint), so that three messages, a sender and a retry fit in a
\* graph whose liveness can be checked.  The constraint drops only pushes, which
\* no fairness of BacklogSpec asks for: the server may fall silent at any point.
Backlog == Init /\ \A m \in Messages : status[m] = "pending"
BacklogSpec == Backlog /\ [][Next]_vars /\ ClientFairness
PushedInOrder ==
  \A s \in Sessions : pushed'[s] = SubSeq(<<m1, m2, m3>>, 1, Len(pushed'[s]))
=============================================================================
