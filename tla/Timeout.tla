------------------------------ MODULE Timeout ------------------------------
(***************************************************************************)
(* timeout_publish_streams and timeout_message_streams (timeout.js): one   *)
(* timer for a publication, cleared by its callback, and one timer for     *)
(* each client a message goes to, cleared when that client's stream has    *)
(* finished.  The clients of a message share its stream.                   *)
(*                                                                         *)
(* An operator named Bug... is a plausible mistake in the definition that  *)
(* follows it; the specification does not use it.                          *)
(***************************************************************************)
EXTENDS Naturals, FiniteSets

CONSTANTS
  Pubs,    \* publications of a client
  Clients  \* clients one message goes to

VARIABLES
  pub,     \* each publication: "new", "running", "errored", "answered"
  timer,   \* its timer: "none", "set", "cleared", "fired"
  copy,    \* each client's copy: "new", "piped", "finished", "gone"
  clock,   \* its timer
  stream   \* the message: "open" or "errored"

vars == <<pub, timer, copy, clock, stream>>

Init ==
  /\ pub = [p \in Pubs |-> "new"] /\ timer = [p \in Pubs |-> "none"]
  /\ copy = [c \in Clients |-> "new"] /\ clock = [c \in Clients |-> "none"]
  /\ stream = "open"

---------------------------------------------------------------------------
Publish(p) ==
  /\ pub[p] = "new"
  /\ pub' = [pub EXCEPT ![p] = "running"]
  /\ timer' = [timer EXCEPT ![p] = "set"]
  /\ UNCHANGED <<copy, clock, stream>>

BugOnTimer(p) == UNCHANGED pub

(* The timer puts an error on the stream of the publication, also when     *)
(* that has failed already.                                                *)
OnTimer(p) == pub' = [pub EXCEPT ![p] = IF @ = "running" THEN "errored" ELSE @]

PublishTimeout(p) ==
  /\ timer[p] = "set"
  /\ timer' = [timer EXCEPT ![p] = "fired"]
  /\ OnTimer(p)
  /\ UNCHANGED <<copy, clock, stream>>

Clear(p) == timer' = [timer EXCEPT ![p] = IF @ = "set" THEN "cleared" ELSE @]

(* The callback: the data was stored, or there was an error.  A client     *)
(* that stops sending brings about neither.                                *)
Answer(p) ==
  /\ pub[p] \in {"running", "errored"}
  /\ pub' = [pub EXCEPT ![p] = "answered"]
  /\ Clear(p)
  /\ UNCHANGED <<copy, clock, stream>>

---------------------------------------------------------------------------
(* The message comes to the pipeline of a client and is piped to it.       *)
Deliver(c) ==
  /\ copy[c] = "new" /\ stream = "open"
  /\ copy' = [copy EXCEPT ![c] = "piped"]
  /\ clock' = [clock EXCEPT ![c] = "set"]
  /\ UNCHANGED <<pub, timer, stream>>

BugOnFinish(c) == clock' = [d \in Clients |-> IF clock[d] = "set" THEN "cleared" ELSE clock[d]]
BugOnFinishNot(c) == UNCHANGED clock
OnFinish(c) == clock' = [clock EXCEPT ![c] = IF @ = "set" THEN "cleared" ELSE @]

(* The client has read its copy. *)
Finish(c) ==
  /\ copy[c] = "piped" /\ stream # "errored"
  /\ copy' = [copy EXCEPT ![c] = "finished"]
  /\ OnFinish(c)
  /\ UNCHANGED <<pub, timer, stream>>

(* The client goes: its stream closes without having finished.             *)
Leave(c) ==
  /\ copy[c] = "piped"
  /\ copy' = [copy EXCEPT ![c] = "gone"]
  /\ UNCHANGED <<pub, timer, clock, stream>>

MessageTimeout(c) ==
  /\ clock[c] = "set"
  /\ clock' = [clock EXCEPT ![c] = "fired"]
  /\ stream' = "errored"
  /\ UNCHANGED <<pub, timer, copy>>

Next ==
  \/ \E p \in Pubs : Publish(p) \/ PublishTimeout(p) \/ Answer(p)
  \/ \E c \in Clients : Deliver(c) \/ Finish(c) \/ Leave(c) \/ MessageTimeout(c)

Spec == Init /\ [][Next]_vars

(* Timers fire, and mqlobber answers for a stream that had an error.       *)
Fairness ==
  /\ \A p \in Pubs :
       WF_vars(PublishTimeout(p)) /\ WF_vars(pub[p] = "errored" /\ Answer(p))
  /\ \A c \in Clients : WF_vars(MessageTimeout(c))

FairSpec == Spec /\ Fairness

---------------------------------------------------------------------------
(* Values of the right kind. *)
TypeOK ==
  /\ pub \in [Pubs -> {"new", "running", "errored", "answered"}]
  /\ timer \in [Pubs -> {"none", "set", "cleared", "fired"}]
  /\ copy \in [Clients -> {"new", "piped", "finished", "gone"}]
  /\ clock \in [Clients -> {"none", "set", "cleared", "fired"}]
  /\ stream \in {"open", "errored"}

(* A publication that was answered has no timer left that would put an     *)
(* error on a stream used by nobody, nor has a client that has finished.   *)
NoTimerLeft ==
  /\ \A p \in Pubs :
       /\ pub[p] = "answered" => timer[p] # "set"
       /\ pub[p] = "running" => timer[p] = "set"
  /\ \A c \in Clients : copy[c] = "finished" => clock[c] # "set"

(* A publication is answered in the end, also when its client stops        *)
(* sending.                                                                *)
PublicationsAnswered == \A p \in Pubs : pub[p] = "running" ~> pub[p] = "answered"

(* A copy is not left half read for ever: the client reads it or goes, or  *)
(* the stream gets an error, also when another client finished long ago.   *)
CopiesEnd ==
  \A c \in Clients :
    copy[c] = "piped" ~> copy[c] # "piped" \/ stream = "errored"

(* The stream gets an error only for a client that has not finished.       *)
ErrorOnlyForLate ==
  [][stream' = "errored" /\ stream = "open" =>
       \E c \in Clients : clock[c] = "set" /\ copy[c] # "finished"]_vars

(* What a timer may do to a stream. *)
FlowControlled == [](TypeOK /\ NoTimerLeft) /\ ErrorOnlyForLate
=============================================================================
