---------------------------- MODULE MCHttpClient ----------------------------
(* Two goroutines: one makes every call there is, the other a SimpleRequest. *)
EXTENDS HttpClient, TLC

CONSTANTS t1, t2

Simple == {c \in FiatCalls : c.auth = "api_key"}
EveryCall == (t1 :> Table) @@ (t2 :> Simple)
PayAndRead == (t1 :> {SendRawTransaction}) @@ (t2 :> Simple)
=============================================================================
