------------------------------ MODULE Pipeline ------------------------------
(***************************************************************************)
(* pipeline (server.js): handlers of an event, called one after the other, *)
(* each when the one before calls next, and mqlobber's default handler     *)
(* after the last.  The extensions of a connection attach handlers while   *)
(* events may already be on their way, held by a handler that waits.       *)
(*                                                                         *)
(* An operator named Bug... is a plausible mistake in the definition that  *)
(* follows it; the specification does not use it.                          *)
(***************************************************************************)
EXTENDS Naturals, Sequences

CONSTANTS
  Events,      \* emissions of the event
  MaxHandlers  \* bound on the handlers ever attached

ASSUME PipelineAssumption == MaxHandlers \in Nat

Idle == "idle"
Held == "held"       \* with a handler that has not called next yet
Dropped == "dropped" \* by a handler that never will
Handled == "handled" \* by the default handler

VARIABLES
  handlers, \* number of handlers attached, in this order
  visited,  \* the handlers each event went through, by place in the list
  position, \* i of the next function that each event was last given away with
  status,   \* where each event is
  runs      \* runs of the default handler for each event

vars == <<handlers, visited, position, status, runs>>

Init ==
  /\ handlers = 0
  /\ visited = [e \in Events |-> <<>>]
  /\ position = [e \in Events |-> 0]
  /\ status = [e \in Events |-> Idle]
  /\ runs = [e \in Events |-> 0]

Attach ==
  /\ handlers < MaxHandlers
  /\ handlers' = handlers + 1
  /\ UNCHANGED <<visited, position, status, runs>>

BugAtEnd(i) == i + 1 = handlers
AtEnd(i) == i = handlers

(* What next(i) does when it is called, with the handlers there are by     *)
(* then: the handler at i, counted from 0 in the code, gets the event and  *)
(* next(i + 1); after the last one the default handler has it.             *)
Call(e, i) ==
  \/ /\ AtEnd(i)
     /\ status' = [status EXCEPT ![e] = Handled]
     /\ runs' = [runs EXCEPT ![e] = @ + 1]
     /\ UNCHANGED <<visited, position>>
  \/ /\ ~AtEnd(i)
     /\ status' = [status EXCEPT ![e] = Held]
     /\ visited' = [visited EXCEPT ![e] = Append(@, i + 1)]
     /\ position' = [position EXCEPT ![e] = i + 1]
     /\ UNCHANGED runs

(* Without a handler no listener is there, and mqlobber calls its own.     *)
Emit(e) ==
  /\ status[e] = Idle
  /\ Call(e, 0)
  /\ UNCHANGED handlers

(* The handler that has the event calls its next, now or later. *)
CallNext(e) ==
  /\ status[e] = Held
  /\ Call(e, position[e])
  /\ UNCHANGED handlers

(* The handler refuses the event. *)
Drop(e) ==
  /\ status[e] = Held
  /\ status' = [status EXCEPT ![e] = Dropped]
  /\ UNCHANGED <<handlers, visited, position, runs>>

Next == Attach \/ \E e \in Events : Emit(e) \/ CallNext(e) \/ Drop(e)

Spec == Init /\ [][Next]_vars

---------------------------------------------------------------------------
(* Values of the right kind; what was dropped is not handled as well.      *)
TypeOK ==
  /\ handlers \in 0..MaxHandlers
  /\ \A e \in Events :
       /\ status[e] \in {Idle, Held, Dropped, Handled}
       /\ Len(visited[e]) <= handlers /\ position[e] \in 0..handlers
       /\ runs[e] = IF status[e] = Handled THEN 1 ELSE 0

(* The default handler takes an event only after every handler there is    *)
(* by then, in the order they were attached, none twice and none passed    *)
(* over, those included that were attached while the event was held.       *)
DefaultLast ==
  [][\A e \in Events : status'[e] = Handled /\ status[e] # Handled =>
       visited[e] = [i \in 1..handlers |-> i]]_vars
=============================================================================
