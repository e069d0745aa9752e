----------------------- MODULE LimitActivePublications -----------------------
(***************************************************************************)
(* limit_active_publications: one count shared by all connections, raised  *)
(* when a publication is passed on and lowered by the first call of its    *)
(* callback, which the stages behind may call more than once, and at once. *)
(*                                                                         *)
(* An operator named Bug... is a plausible mistake in the definition that  *)
(* follows it; the specification does not use it.                          *)
(***************************************************************************)
EXTENDS Integers, FiniteSets

CONSTANTS
  Publications,    \* publications clients may make, on any connection
  MaxPublications  \* config.max_publications

\* Assumed by who instantiates this module.
PublicationsAssumption ==
  /\ IsFiniteSet(Publications)
  /\ MaxPublications \in Nat

VARIABLES
  count,  \* count
  state,  \* of each publication: new, refused, active, called (back), twice
  loose   \* publications that were passed on and whose decrement is armed

vars == <<count, state, loose>>

Init ==
  /\ count = 0
  /\ state = [p \in Publications |-> "new"]
  /\ loose = {}

Active == {p \in Publications : state[p] = "active"}

BugFull == count > MaxPublications
BugFullEarly == count + 1 >= MaxPublications
Full == count >= MaxPublications

(* publish_requested *)
Refuse(p) ==
  /\ state[p] = "new" /\ Full
  /\ state' = [state EXCEPT ![p] = "refused"]
  /\ UNCHANGED <<count, loose>>

Publish(p) ==
  /\ state[p] = "new" /\ ~Full
  /\ count' = count + 1
  /\ loose' = loose \union {p}
  /\ state' = [state EXCEPT ![p] = "active"]

(* A stage behind answers within the call, an error for instance. *)
PublishAnswered(p) ==
  /\ state[p] = "new" /\ ~Full
  /\ state' = [state EXCEPT ![p] = "called"]
  /\ UNCHANGED <<count, loose>>

(* cb2: the first call decrements and disarms, any other only passes on.   *)
BugCb2(p) ==
  /\ state[p] \in {"active", "called"}
  /\ state' = [state EXCEPT ![p] = IF @ = "active" THEN "called" ELSE "twice"]
  /\ count' = count - 1
  /\ loose' = loose \ {p}

Cb2(p) ==
  /\ state[p] \in {"active", "called"}
  /\ state' = [state EXCEPT ![p] = IF @ = "active" THEN "called" ELSE "twice"]
  /\ count' = IF p \in loose THEN count - 1 ELSE count
  /\ loose' = loose \ {p}

Next == \E p \in Publications :
          Refuse(p) \/ Publish(p) \/ PublishAnswered(p) \/ Cb2(p)

Spec == Init /\ [][Next]_vars

---------------------------------------------------------------------------
TypeOK ==
  /\ count \in Nat
  /\ state \in [Publications -> {"new", "refused", "active", "called", "twice"}]
  /\ loose \subseteq Publications

(* The count is the number of publications that are not called back yet,   *)
(* also when a callback is called twice, and never exceeds the limit.      *)
CountExact ==
  /\ count = Cardinality(Active)
  /\ count <= MaxPublications

(* A publication is refused only while as many as allowed are under way.   *)
RefusedAtLimit ==
  \A p \in Publications : state[p] = "new" /\ state'[p] = "refused"
    => Cardinality(Active) >= MaxPublications

OnlyLimitRefuses == [][RefusedAtLimit]_vars

(* The count is exact whatever calls the callbacks, and within the limit.  *)
PublicationsCounted == TypeOK /\ CountExact
=============================================================================
