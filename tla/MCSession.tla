----------------------------- MODULE MCSession -----------------------------
(* Small instances of Session for TLC. *)
EXTENDS Session

CONSTANTS a, b

MCKind == <<"sliding", "global">>
(* Short prompts, and long ones whose chunks resume behind a wrapped ring,   *)
(* diverge late, or are extended by an earlier reply.                       *)
MCRequests ==
  [prompt : {<<a>>, <<a, a>>, <<b, a>>, <<a, a, b>>, <<a, a, a, a>>,
             <<a, a, b, a, a>>, <<a, a, a, a, b>>},
   max    : {1, 2}]

(* Few prompts: the errors already multiply what the stores may hold.       *)
MCRequestsFaults ==
  [prompt : {<<a>>, <<b, a>>, <<a, a, b>>}, max : {2}]

(* One prompt of two chunks: the second may fail behind the first.          *)
MCRequestsPoisoned ==
  [prompt : {<<a, a, b>>}, max : {2}]

(* Replies long enough to decode past the end of the global stores.         *)
MCRequestsLong ==
  [prompt : {<<a>>, <<a, a, a>>}, max : {5}]
=============================================================================
