SPECIFICATION FairSpec
CONSTANTS
  Users = {"u1", "u2"}
  Legacy = {"u1"}
  Keys = {1, 2}
  MaxFaults = 1
  Goroutines = {g1, g2}
  Peers = {p1, p2}
  MaxRotations = 1
INVARIANTS KeysLoggedFirst PeerAccepts
PROPERTY RecoversInTheEnd
\* The operator has nothing left to do once everybody is registered.
CHECK_DEADLOCK FALSE
