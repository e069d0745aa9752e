----------------------------- MODULE ClientSide -----------------------------
(***************************************************************************)
(* What a client meets: a request of its own to the http transport, and    *)
(* the subscriptions of the clients of one program.  They share no state:  *)
(* a behaviour is about one part, and the other stays as it begins.        *)
(***************************************************************************)
EXTENDS HttpRequest, ClientSubs

VARIABLE part

AnyProgram == CHOOSE p \in Programs : TRUE

ClientInit ==
  /\ part \in {"request", "subscriptions"}
  /\ Init /\ SubsInit
  /\ part # "request" => kind = "other"
  /\ part # "subscriptions" => program = AnyProgram

ClientNext ==
  /\ UNCHANGED part
  /\ \/ part = "request" /\ Next /\ UNCHANGED subs_vars
     \/ part = "subscriptions" /\ SubsNext /\ UNCHANGED vars

ClientSpec ==
  /\ ClientInit
  /\ [][ClientNext]_<<part, vars, subs_vars>>
  /\ Progress
=============================================================================
