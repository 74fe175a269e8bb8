----------------------------- MODULE CallErrors -----------------------------
(***************************************************************************)
(* The errors of the library as its callers tell them apart: by the code   *)
(* of an Error or by the text CheckRetryableError looks for.               *)
(*                                                                         *)
(*   "timeout"       the client gave up the request, told as it is         *)
(*   "io"            the connection broke, told as it is                   *)
(*   "internal"      code 500, Internal Server Error                       *)
(*   "bad_data"      code 10002, an answer that could not be decoded       *)
(*   "decode"        the same, told as json's own error                    *)
(*   "unsigned"      no token could be made, told as it is                 *)
(*   "insufficient"  the wallet is short of outputs                        *)
(*   "locked"        an input is locked by, or spent by, another           *)
(*   "unauthorized", "forbidden", "not_found", "invalid"  other codes      *)
(***************************************************************************)

\* The codes a server refuses with, apart from failing itself.
Codes == {"insufficient", "locked", "unauthorized", "forbidden", "not_found", "invalid"}

CallError == Codes \cup {"timeout", "io", "internal", "bad_data", "decode", "unsigned"}

\* Mutant: the text of a wrapped error is not looked for.
CheckRetryableErrorUnwrapped(e) == e \in {"timeout", "insufficient", "locked"}

\* The errors CheckRetryableError knows by their text.
CheckRetryableError(e) == e \in {"timeout", "internal", "insufficient", "locked"}
=============================================================================
