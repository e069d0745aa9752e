---------------------- MODULE LimitActiveSubscriptions ----------------------
(***************************************************************************)
(* limit_active_subscriptions: one count shared by all connections, moved  *)
(* by what the callbacks of subscribe and unsubscribe report.  A request   *)
(* is tested when it arrives, takes effect some time later, and is         *)
(* reported later still (another stage of the pipeline may postpone it),   *)
(* or with an error and no number, after which the count is not a number   *)
(* and refuses nothing any more.                                           *)
(*                                                                         *)
(* An operator named Bug... is a plausible mistake in the definition that  *)
(* follows it; the specification does not use it.                          *)
(***************************************************************************)
EXTENDS Integers, FiniteSets

CONSTANTS
  Conns,            \* connections clients may make
  Topics,
  Requests,         \* requests that may be under way at the same time
  MaxSubscriptions, \* config.max_subscriptions
  Presubscribed,    \* payload.subscribe of each connection's tokens
  nothing           \* no topic, no connection

\* Assumed by who instantiates this module.
LimitAssumption ==
  /\ IsFiniteSet(Conns) /\ IsFiniteSet(Topics)
  /\ IsFiniteSet(Requests) /\ Requests # {}
  /\ MaxSubscriptions \in Nat
  /\ Presubscribed \in [Conns -> SUBSET Topics]

VARIABLES
  count,   \* count, while it is a number
  nan,     \* count is NaN
  status,  \* of each connection: new, open, closed
  subs,    \* mqserver.subs of each connection
  request, \* of each request: what it is and how far it got
  refused  \* the last step refused a subscription

vars == <<count, nan, status, subs, request, refused>>

Kinds == {"subscribe", "unsubscribe", "unsubscribe_all"}
Idle == [stage |-> "idle", kind |-> "subscribe", conn |-> nothing,
         topic |-> nothing, moved |-> {}]

Init ==
  /\ count = 0 /\ nan = FALSE
  /\ status = [c \in Conns |-> "new"]
  /\ subs = [c \in Conns |-> {}]
  /\ request = [r \in Requests |-> Idle]
  /\ refused = FALSE

(* A client connects: its tokens' subscriptions are made before the        *)
(* extension sees the connection.                                          *)
Connect(c) ==
  /\ status[c] = "new"
  /\ status' = [status EXCEPT ![c] = "open"]
  /\ subs' = [subs EXCEPT ![c] = Presubscribed[c]]
  /\ refused' = FALSE
  /\ UNCHANGED <<count, nan, request>>

Ask(r, kind, c, t) ==
  request' = [request EXCEPT ![r] = [stage |-> "asked", kind |-> kind,
                                     conn |-> c, topic |-> t, moved |-> {}]]

BugRefuses(c, t) == ~nan /\ count > MaxSubscriptions /\ t \notin subs[c]
(* NaN >= config.max_subscriptions is false. *)
Refuses(c, t) == ~nan /\ count >= MaxSubscriptions /\ t \notin subs[c]

(* subscribe_requested *)
Subscribe(r, c, t) ==
  /\ status[c] = "open" /\ request[r] = Idle
  /\ refused' = Refuses(c, t)
  /\ IF Refuses(c, t) THEN UNCHANGED request ELSE Ask(r, "subscribe", c, t)
  /\ UNCHANGED <<count, nan, status, subs>>

(* unsubscribe_requested *)
Unsubscribe(r, c, t) ==
  /\ status[c] = "open" /\ request[r] = Idle
  /\ Ask(r, "unsubscribe", c, t)
  /\ refused' = FALSE
  /\ UNCHANGED <<count, nan, status, subs>>

(* unsubscribe_all_requested *)
UnsubscribeAll(r, c) ==
  /\ status[c] = "open" /\ request[r] = Idle
  /\ Ask(r, "unsubscribe_all", c, nothing)
  /\ refused' = FALSE
  /\ UNCHANGED <<count, nan, status, subs>>

(* What the server's own handler does with subs: moved are the topics      *)
(* subscribed or unsubscribed; the callback hears how many, n.  A closed   *)
(* connection has none any more.                                           *)
Target(q) ==
  CASE q.kind = "subscribe" -> subs[q.conn] \union {q.topic}
    [] q.kind = "unsubscribe" -> subs[q.conn] \ {q.topic}
    [] OTHER -> {}

Perform(r) ==
  LET q == request[r]
      target == IF status[q.conn] = "closed" THEN {} ELSE Target(q)
  IN /\ q.stage = "asked"
     /\ subs' = [subs EXCEPT ![q.conn] = target]
     /\ request' = [request EXCEPT ![r].stage = "performed",
           ![r].moved = (target \ subs[q.conn]) \union (subs[q.conn] \ target)]
     /\ refused' = FALSE
     /\ UNCHANGED <<count, nan, status>>

(* The callback, with the number of topics moved. *)
BugMove(q) == IF q.kind = "subscribe" THEN 1 ELSE -Cardinality(q.moved)
BugMoveAsked(q) == IF q.kind = "subscribe" THEN Cardinality(q.moved) ELSE -1
Move(q) == IF q.kind = "subscribe" THEN Cardinality(q.moved) ELSE -Cardinality(q.moved)

Report(r) ==
  /\ request[r].stage = "performed"
  /\ count' = count + Move(request[r])
  /\ request' = [request EXCEPT ![r] = Idle]
  /\ refused' = FALSE
  /\ UNCHANGED <<nan, status, subs>>

(* The callback with an error and no n, of a handler further down that     *)
(* refuses the request or of the server's own: count += undefined.         *)
Fail(r) ==
  /\ request[r].stage = "asked"
  /\ nan' = TRUE
  /\ request' = [request EXCEPT ![r] = Idle]
  /\ refused' = FALSE
  /\ UNCHANGED <<count, status, subs>>

(* A connection closes: its subscriptions go with it, the extension hears  *)
(* nothing.                                                                *)
ConnClosed(c) ==
  /\ status[c] = "open"
  /\ status' = [status EXCEPT ![c] = "closed"]
  /\ subs' = [subs EXCEPT ![c] = {}]
  /\ refused' = FALSE
  /\ UNCHANGED <<count, nan, request>>

Next ==
  \/ \E c \in Conns : Connect(c) \/ ConnClosed(c)
  \/ \E r \in Requests, c \in Conns, t \in Topics :
       Subscribe(r, c, t) \/ Unsubscribe(r, c, t)
  \/ \E r \in Requests, c \in Conns : UnsubscribeAll(r, c)
  \/ \E r \in Requests : Perform(r) \/ Report(r) \/ Fail(r)

Spec == Init /\ [][Next]_vars

---------------------------------------------------------------------------
TypeOK ==
  /\ count \in Int /\ nan \in BOOLEAN
  /\ status \in [Conns -> {"new", "open", "closed"}]
  /\ subs \in [Conns -> SUBSET Topics]
  /\ \A r \in Requests :
       /\ request[r].stage \in {"idle", "asked", "performed"}
       /\ request[r].kind \in Kinds
  /\ refused \in BOOLEAN

Subscribed == {s \in Conns \X Topics : s[2] \in subs[s[1]]}

(* What requests of some kinds moved and have not reported yet. *)
Unreported(kinds) ==
  {m \in Requests \X Topics :
     /\ request[m[1]].stage = "performed" /\ request[m[1]].kind \in kinds
     /\ m[2] \in request[m[1]].moved}

Made == Unreported({"subscribe"})
Removed == Unreported({"unsubscribe", "unsubscribe_all"})

NoneClosed == \A c \in Conns : status[c] # "closed"

(* Where tokens subscribe to nothing and no connection has closed, the     *)
(* count plus what has been performed and not yet reported is the number   *)
(* of subscriptions, whatever the order and repetition of the requests.    *)
CountExact ==
  NoneClosed =>
    Cardinality(Subscribed) = count + Cardinality(Made) - Cardinality(Removed)

(* Connections that close leave the count too high, never too low: no      *)
(* subscription escapes it.                                                *)
CountCovers ==
  Cardinality(Subscribed) <= count + Cardinality(Made) - Cardinality(Removed)

(* What the limit is worth with requests under way: it is exceeded by less *)
(* than the number of requests that were under way together.               *)
ExcessBounded ==
  Cardinality(Subscribed) <= MaxSubscriptions + Cardinality(Requests) - 1

(* Tokens that subscribe to nothing: what they do, the extension misses.   *)
NoPresubscriptions == \A c \in Conns : Presubscribed[c] = {}

(* The count follows the subscriptions while no connection has closed,     *)
(* whatever is asked twice or overtaken; none ever escapes it; and the     *)
(* limit is exceeded by less than the requests that were under way.  All   *)
(* this until the first request that fails without a number: after it      *)
(* there is no limit.                                                      *)
SubscriptionsCounted ==
  NoPresubscriptions => TypeOK /\ (nan \/ (CountExact /\ CountCovers /\ ExcessBounded))

(* A subscription is refused ("already reached") only when the             *)
(* subscriptions there are, or were until an unsubscription that is not    *)
(* reported yet, have reached the limit; unless some connection has closed *)
(* and left the count too high.                                            *)
RefusedOnlyAtLimit ==
  NoneClosed /\ refused => Cardinality(Subscribed) + Cardinality(Removed) >= MaxSubscriptions

OnlyLimitRefuses == [](NoPresubscriptions => RefusedOnlyAtLimit)
=============================================================================
