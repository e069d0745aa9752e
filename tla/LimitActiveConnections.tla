----------------------- MODULE LimitActiveConnections -----------------------
(***************************************************************************)
(* limit_active_connections: one count, raised at the start of every       *)
(* authorization and lowered by the onclose the transport gives with it.   *)
(* Most transports report the close of the connection itself; http reports *)
(* the close of the socket, which carries one request after another.       *)
(*                                                                         *)
(* An operator named Bug... is a plausible mistake in the definition that  *)
(* follows it; the specification does not use it.                          *)
(***************************************************************************)
EXTENDS Integers, FiniteSets

CONSTANTS
  Conns,           \* connections clients may make; for http, requests
  Sockets,
  SocketMaps,      \* what onclose may watch for each connection
  MaxConnections   \* config.max_connections

\* Assumed by who instantiates this module.
ConnectionsAssumption ==
  /\ IsFiniteSet(Conns)
  /\ SocketMaps \subseteq [Conns -> Sockets]
  /\ MaxConnections \in Nat

VARIABLES
  socket,   \* the socket of each connection
  count,    \* count
  state,    \* of each connection: new, open, cancelled (and not closed), ended
  watched,  \* connections whose onclose listener has not been called
  gone      \* sockets that have closed

vars == <<socket, count, state, watched, gone>>

Init ==
  /\ socket \in SocketMaps
  /\ count = 0
  /\ state = [c \in Conns |-> "new"]
  /\ watched = {}
  /\ gone = {}

Live == {c \in Conns : state[c] \in {"open", "cancelled"}}
Sharing(c) == {d \in Conns : socket[d] = socket[c]}

(* A socket carries its requests one after the other. *)
Idle(c) == socket[c] \notin gone /\ Sharing(c) \intersect Live = {}

(* authz_start *)
BugExceeds == count > MaxConnections
Exceeds == count + 1 > MaxConnections

AuthzStart(c) ==
  /\ state[c] = "new" /\ Idle(c)
  /\ count' = count + 1
  /\ watched' = watched \union {c}
  /\ state' = [state EXCEPT ![c] = IF Exceeds THEN "cancelled" ELSE "open"]
  /\ UNCHANGED gone

(* A request ends and its socket stays open for the next one.              *)
End(c) ==
  /\ c \in Live /\ Cardinality(Sharing(c)) > 1
  /\ state' = [state EXCEPT ![c] = "ended"]
  /\ UNCHANGED <<count, watched, gone>>

(* onclose: every listener of the socket lowers the count.                 *)
BugOnClose(s) ==
  /\ s \notin gone /\ \E c \in watched : socket[c] = s
  /\ gone' = gone \union {s}
  /\ count' = count - 1
  /\ watched' = {c \in watched : socket[c] # s}
  /\ state' = [c \in Conns |->
       IF c \in Live /\ socket[c] = s THEN "ended" ELSE state[c]]

BugOnCloseRefused(s) ==
  /\ s \notin gone /\ \E c \in watched : socket[c] = s
  /\ gone' = gone \union {s}
  /\ count' = count - Cardinality({c \in watched : socket[c] = s /\ state[c] # "cancelled"})
  /\ watched' = {c \in watched : socket[c] # s}
  /\ state' = [c \in Conns |->
       IF c \in Live /\ socket[c] = s THEN "ended" ELSE state[c]]

OnClose(s) ==
  /\ s \notin gone /\ \E c \in watched : socket[c] = s
  /\ gone' = gone \union {s}
  /\ count' = count - Cardinality({c \in watched : socket[c] = s})
  /\ watched' = {c \in watched : socket[c] # s}
  /\ state' = [c \in Conns |->
       IF c \in Live /\ socket[c] = s THEN "ended" ELSE state[c]]

Next ==
  /\ UNCHANGED socket
  /\ \/ \E c \in Conns : AuthzStart(c) \/ End(c)
     \/ \E s \in Sockets : OnClose(s)

Spec == Init /\ [][Next]_vars

---------------------------------------------------------------------------
TypeOK ==
  /\ count \in Nat
  /\ state \in [Conns -> {"new", "open", "cancelled", "ended"}]
  /\ watched \subseteq Conns
  /\ gone \subseteq Sockets

(* No more connections are served than the limit allows.                   *)
WithinLimit == Cardinality({c \in Conns : state[c] = "open"}) <= MaxConnections

(* Nothing that is live escapes the count, and when all sockets have       *)
(* closed nothing is left in it.                                           *)
CountCovers ==
  /\ Cardinality(Live) <= count
  /\ watched = {} => count = 0

(* Where connections have sockets of their own, one is cancelled           *)
(* ("connection limit exceeded") only when, with it, more than the allowed *)
(* number are live: "max_connections - Maximum number of active            *)
(* connections."                                                           *)
OwnSockets == \A c, d \in Conns : socket[c] = socket[d] => c = d

CancelledAboveLimit ==
  \A c \in Conns : OwnSockets /\ state[c] = "new" /\ state'[c] = "cancelled"
    => Cardinality(Live') > MaxConnections

OnlyLimitRefuses == [][CancelledAboveLimit]_vars

(* No more are served than allowed, with sockets of their own and with     *)
(* requests that share one; nothing live escapes the count, and nothing is *)
(* left in it when all have closed.                                        *)
ConnectionsCounted == TypeOK /\ WithinLimit /\ CountCovers
=============================================================================
