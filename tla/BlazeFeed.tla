----------------------------- MODULE BlazeFeed -----------------------------
(***************************************************************************)
(* What the websocket client promises about incoming messages, whatever    *)
(* connections, pumps and buffers are between the server and the listener: *)
(* only a message the server has is handled, and it becomes READ only      *)
(* after it was handled.  A message may be handled again as long as the    *)
(* server does not know it as READ: delivery is at least once.             *)
(***************************************************************************)
CONSTANT Messages

VARIABLES status, handled

vars == <<status, handled>>

Init ==
  /\ status \in [Messages -> {"absent", "pending"}]
  /\ handled = {}

Arrive(m) ==
  /\ status[m] = "absent"
  /\ status' = [status EXCEPT ![m] = "pending"]
  /\ UNCHANGED handled

Handle(m) ==
  /\ status[m] # "absent"
  /\ handled' = handled \cup {m}
  /\ UNCHANGED status

Acknowledge(m) ==
  /\ status[m] = "pending" /\ m \in handled
  /\ status' = [status EXCEPT ![m] = "read"]
  /\ UNCHANGED handled

Next == \E m \in Messages : Arrive(m) \/ Handle(m) \/ Acknowledge(m)

Spec == Init /\ [][Next]_vars
=============================================================================
