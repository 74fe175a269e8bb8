--------------------------- MODULE MCSafeTransfer ---------------------------
(* The wallets and payments SafeTransfer is checked with. *)
EXTENDS SafeTransfer, TLC

CONSTANTS w1, w2, p1, p2

\* One worker for each of two payments.
OneEach == w1 :> p1 @@ w2 :> p2
Both == p1 :> 2 @@ p2 :> 3
AllRetry == [w \in Workers |-> "retryable"]
AllUntil == [w \in Workers |-> "untilSufficient"]
SmallOutputs == <<1, 2, 3>>
Short == <<1>>
=============================================================================
