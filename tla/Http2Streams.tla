---------------------------- MODULE Http2Streams ----------------------------
(***************************************************************************)
(* The http2 and http2-duplex transports: sessions of clients, the streams *)
(* on them, how many are counted against maxConnections, and the close of  *)
(* the transport.  A stream emits 'aborted' before 'close' when its peer   *)
(* goes in the middle; both end up in on_close.                            *)
(*                                                                         *)
(* An operator named Bug... is a plausible mistake in the definition that  *)
(* follows it; the specification does not use it.                          *)
(***************************************************************************)
EXTENDS Integers, FiniteSets

CONSTANTS
  Sessions,       \* sessions clients may open
  Streams,        \* streams clients may make on them
  SessionOf,      \* the session of each stream
  MaxConnections  \* server.maxConnections

\* Assumed by who instantiates this module.
Http2Assumption ==
  /\ IsFiniteSet(Streams)
  /\ SessionOf \in [Streams -> Sessions]
  /\ MaxConnections \in Nat \ {0}

VARIABLES
  awaits,      \* http2-duplex: the duplex is made after an await
  num_streams, \* num_streams
  transport,   \* up, closed
  session,     \* new, known (on_session saw it), gone
  stage,       \* of a stream: new, refused, authorizing, making, connected, over
  open,        \* streams that are open
  events,      \* 'aborted' and 'close' a stream has still to emit
  counting,    \* streams whose on_close will lower num_streams (~called)
  watched,     \* connected streams whose on_close will tell the server
  told         \* how often the server was told of the close of a connection

vars == <<num_streams, transport, session, stage, open, events, counting,
          watched, told>>

Init ==
  /\ awaits \in BOOLEAN
  /\ num_streams = 0
  /\ transport = "up"
  /\ session = [x \in Sessions |-> "new"]
  /\ stage = [s \in Streams |-> "new"]
  /\ open = {}
  /\ events = [s \in Streams |-> {}]
  /\ counting = {} /\ watched = {}
  /\ told = [s \in Streams |-> 0]

(* A client opens a session; after the close of the transport its server   *)
(* destroys those that were still coming.                                  *)
OnSession(x) ==
  /\ session[x] = "new"
  /\ session' = [session EXCEPT ![x] = IF transport = "up" THEN "known" ELSE "gone"]
  /\ UNCHANGED <<num_streams, transport, stage, open, events, counting, watched, told>>

BugFull == num_streams > MaxConnections
Full == num_streams >= MaxConnections

Arrives(s) ==
  /\ transport = "up" /\ session[SessionOf[s]] = "known"
  /\ stage[s] = "new"

(* A stream of another path or method, or above the limit, is answered and *)
(* ended by respond.                                                       *)
Refused(s) ==
  /\ Arrives(s)
  /\ stage' = [stage EXCEPT ![s] = "refused"]
  /\ open' = open \union {s}
  /\ UNCHANGED <<num_streams, transport, session, events, counting, watched, told>>

OnStream(s) ==
  /\ Arrives(s) /\ ~Full
  /\ num_streams' = num_streams + 1
  /\ counting' = counting \union {s}
  /\ stage' = [stage EXCEPT ![s] = "authorizing"]
  /\ open' = open \union {s}
  /\ UNCHANGED <<transport, session, events, watched, told>>

(* authorize called back with an error, or the server gave up: the stream  *)
(* is answered; respond throws when the stream has closed.                 *)
NotAuthorized(s) ==
  /\ stage[s] = "authorizing"
  /\ stage' = [stage EXCEPT ![s] = "over"]
  /\ UNCHANGED <<num_streams, transport, session, open, events, counting, watched, told>>

(* authorize called back with handshakes.  The connection is handed over   *)
(* if the stream is open: respond throws otherwise, and nothing follows.   *)
HandOver(s) ==
  IF s \in open
    THEN /\ stage' = [stage EXCEPT ![s] = "connected"]
         /\ watched' = watched \union {s}
    ELSE /\ stage' = [stage EXCEPT ![s] = "over"]
         /\ UNCHANGED watched

BugAuthorized(s) ==
  /\ stage[s] = "authorizing"
  /\ stage' = [stage EXCEPT ![s] = "connected"]
  /\ watched' = watched \union {s}
  /\ UNCHANGED <<num_streams, transport, session, open, events, counting, told>>

Authorized(s) ==
  /\ stage[s] = "authorizing"
  /\ IF awaits THEN stage' = [stage EXCEPT ![s] = "making"] /\ UNCHANGED watched
     ELSE HandOver(s)
  /\ UNCHANGED <<num_streams, transport, session, open, events, counting, told>>

Made(s) ==
  /\ stage[s] = "making"
  /\ HandOver(s)
  /\ UNCHANGED <<num_streams, transport, session, open, events, counting, told>>

(* A stream stops being open: the client resets or ends it, the server     *)
(* closes or destroys it, or its session goes.                             *)
Fall(S) ==
  /\ open' = open \ S
  /\ \E aborted \in SUBSET (S \intersect open) :
       events' = [s \in Streams |->
         IF s \notin S \intersect open THEN events[s]
         ELSE IF s \in aborted THEN {"aborted", "close"} ELSE {"close"}]

StreamFalls(s) ==
  /\ s \in open
  /\ Fall({s})
  /\ UNCHANGED <<num_streams, transport, session, stage, counting, watched, told>>

OfSession(x) == {s \in Streams : SessionOf[s] = x}

SessionFalls(x) ==
  /\ session[x] = "known"
  /\ session' = [session EXCEPT ![x] = "gone"]
  /\ Fall(OfSession(x))
  /\ UNCHANGED <<num_streams, transport, stage, counting, watched, told>>

BugEmitAborted(s, e) ==
  /\ e \in events[s] /\ (e = "close" => "aborted" \notin events[s])
  /\ events' = [events EXCEPT ![s] = @ \ {e}]
  /\ num_streams' = IF s \in counting THEN num_streams - 1 ELSE num_streams
  /\ counting' = counting \ {s}
  /\ UNCHANGED <<told, watched, transport, session, stage, open>>

(* on_close: the first of the two events counts, the other does not. *)
Emit(s, e) ==
  /\ e \in events[s] /\ (e = "close" => "aborted" \notin events[s])
  /\ events' = [events EXCEPT ![s] = @ \ {e}]
  /\ num_streams' = IF s \in counting THEN num_streams - 1 ELSE num_streams
  /\ counting' = counting \ {s}
  /\ told' = IF s \in watched THEN [told EXCEPT ![s] = @ + 1] ELSE told
  /\ watched' = watched \ {s}
  /\ UNCHANGED <<transport, session, stage, open>>

(* close: no listener hears of new streams, every known session goes.      *)
BugClose ==
  /\ transport = "up"
  /\ transport' = "closed"
  /\ UNCHANGED <<session, open, events>>
  /\ UNCHANGED <<num_streams, stage, counting, watched, told>>

Close ==
  /\ transport = "up"
  /\ transport' = "closed"
  /\ session' = [x \in Sessions |-> IF session[x] = "known" THEN "gone" ELSE session[x]]
  /\ Fall(open)
  /\ UNCHANGED <<num_streams, stage, counting, watched, told>>

Next ==
  \/ \E x \in Sessions : OnSession(x) \/ SessionFalls(x)
  \/ \E s \in Streams :
       \/ Refused(s) \/ OnStream(s) \/ NotAuthorized(s) \/ Authorized(s) \/ Made(s)
       \/ StreamFalls(s) \/ Emit(s, "aborted") \/ Emit(s, "close")
  \/ Close

Spec == Init /\ [][Next /\ UNCHANGED awaits]_<<vars, awaits>>

(* Events are delivered, and the server answers what it authorizes. *)
Fairness ==
  \A s \in Streams :
    /\ WF_vars(Emit(s, "aborted")) /\ WF_vars(Emit(s, "close"))
    /\ WF_vars(NotAuthorized(s) \/ Authorized(s)) /\ WF_vars(Made(s))

FairSpec == Spec /\ Fairness

---------------------------------------------------------------------------
TypeOK ==
  /\ num_streams \in Nat
  /\ transport \in {"up", "closed"}
  /\ session \in [Sessions -> {"new", "known", "gone"}]
  /\ stage \in [Streams ->
       {"new", "refused", "authorizing", "making", "connected", "over"}]
  /\ open \subseteq Streams
  /\ events \in [Streams -> SUBSET {"aborted", "close"}]
  /\ counting \subseteq Streams /\ watched \subseteq Streams
  /\ told \in [Streams -> Nat]

(* num_streams is the number of streams taken on whose end was not heard   *)
(* of, whichever event told it first, and it never exceeds the limit.      *)
CountExact ==
  /\ num_streams = Cardinality(counting)
  /\ num_streams <= MaxConnections
  /\ \A s \in Streams : s \in open /\ stage[s] \notin {"new", "refused"}
       => s \in counting

(* The server hears of the close of a connection once, and no connection   *)
(* it still watches has lost its stream for good.                          *)
Http2ServerToldOnce ==
  \A s \in Streams :
    /\ told[s] <= 1
    /\ s \in watched => s \in open \/ events[s] # {}
    /\ stage[s] = "connected" /\ s \notin watched => told[s] = 1

(* A closed transport has no open stream, and none is taken on any more.   *)
ClosedMeansSilent == transport = "closed" => open = {}

(* num_streams of http2 and http2-duplex is the number of live streams and *)
(* within the limit, whichever event tells of the end of a stream first;   *)
(* and after the close of the transport no stream of it is open.           *)
Http2CountExact == TypeOK /\ CountExact /\ ClosedMeansSilent

(* What was counted when the transport closed is given back. *)
CountReturns == transport = "closed" ~> num_streams = 0 /\ watched = {}
=============================================================================
