------------------------------ MODULE MCWallet ------------------------------
(* The wallet of two assets that Wallet is checked with. *)
EXTENDS Wallet

CONSTANT w1

Three == [w \in Workers |-> 3]
OneOrTwo == [w \in Workers |-> {1, 2}]
Out(l, n) == [asset |-> l, amount |-> n]
\* Either output of each asset will do, should the other be spent; a fee of both
\* has change.
Mixed == <<Out("asset", 3), Out("fee", 2), Out("asset", 4), Out("fee", 2)>>
=============================================================================
