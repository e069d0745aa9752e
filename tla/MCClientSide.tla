---------------------------- MODULE MCClientSide ----------------------------
(***************************************************************************)
(* What a client meets, for TLC: one request of any kind, or one of two    *)
(* kinds of program.  Patient: two clients that share two handlers, one    *)
(* call after the other, two topics of a token each, one of which the      *)
(* server presubscribed.  Hasty: one client and topic, calls that overlap  *)
(* and requests that fail.                                                 *)
(***************************************************************************)
EXTENDS ClientSide, TLC

MCTokenOf == "a" :> "first" @@ "b" :> "second"

MCPrograms ==
  {[clients |-> {1, 2}, topics |-> {"a", "b"}, overlap |-> FALSE, fails |-> FALSE,
    wrappers |-> 3, requests |-> 1],
   [clients |-> {1}, topics |-> {"a"}, overlap |-> TRUE, fails |-> TRUE,
    wrappers |-> 3, requests |-> 3]}
=============================================================================
