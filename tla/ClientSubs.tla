----------------------------- MODULE ClientSubs -----------------------------
(***************************************************************************)
(* subscribe and unsubscribe of a client (client.js): a handler of the     *)
(* user is wrapped, one wrapper for each client and topic, and the         *)
(* wrappers are what the mqlobber client underneath knows.  Clients of one *)
(* program may share a handler; the maps of its wrappers hang on the       *)
(* handler itself.  A wrapper is a number, given out in turn, so that one  *)
(* that was forgotten is not taken for its successor.                      *)
(*                                                                         *)
(* An operator named Bug... is a plausible mistake in the definition that  *)
(* follows it; the specification does not use it.                          *)
(***************************************************************************)
EXTENDS Naturals, Sequences, FiniteSets

CONSTANTS
  Clients, Handlers, Topics,
  TokenOf,       \* of each topic: the token whose prefix it has
  Presubscribed, \* topics the server subscribed each client to
  Programs       \* what the user's program may be like

\* A program: the clients and the topics that it uses; whether it calls again
\* before an earlier call is answered, and the server may answer with an error;
\* and bounds on the wrappers it ever makes and a client's requests under way.
ASSUME ClientAssumption ==
  /\ DOMAIN TokenOf = Topics
  /\ Presubscribed \subseteq Topics
  /\ 0 \notin Clients
  /\ Programs \subseteq
       [clients : SUBSET Clients, topics : SUBSET Topics, overlap : BOOLEAN,
        fails : BOOLEAN, wrappers : Nat, requests : Nat]

None == 0
Idle == "idle"
Tokens == {TokenOf[t] : t \in Topics}

VARIABLES
  program,   \* the program this is
  handler,   \* handler2.handler of each wrapper made so far
  centro,    \* handler._centro_subs: the wrapper of a handler, client and topic
  subs,      \* this.subs: the topics a client knows, each with its wrappers
  requests,  \* requests of each client to the server
  server,    \* topics the server has each client subscribed to
  sweep,     \* the token a client is unsubscribing from as a whole
  wanted,    \* what the user's calls ask for: handlers, by client and topic
  overtaken, \* handlers whose subscription was under way when the user
             \* unsubscribed from its topic or token as a whole
  called     \* the last message: its client and topic, and the handlers called

calls == <<wanted, overtaken>>
subs_vars == <<program, handler, centro, subs, requests, server, sweep, calls, called>>

Wrappers == 1..program.wrappers
NoHandlers == {}

NoMessage == [client |-> None, topic |-> None, handlers |-> {}]

SubsInit ==
  /\ program \in Programs
  /\ handler = <<>>
  /\ centro = [h \in Handlers |-> [c \in Clients |-> [t \in Topics |-> None]]]
  /\ subs = [c \in Clients |-> [t \in Presubscribed |-> NoHandlers]]
  /\ requests = [c \in Clients |-> {}]
  /\ server = [c \in Clients |-> Presubscribed]
  /\ sweep = [c \in Clients |-> Idle]
  /\ wanted = [c \in Clients |-> [t \in Topics |-> {}]]
  /\ overtaken = [c \in Clients |-> [t \in Topics |-> {}]]
  /\ called = NoMessage

Known(c) == DOMAIN subs[c]
With(f, t, S) == [u \in DOMAIN f \union {t} |-> IF u = t THEN S ELSE f[u]]
Without(f, t) == [u \in DOMAIN f \ {t} |-> f[u]]

Ask(op, t, ws, swept) == [op |-> op, topic |-> t, wrappers |-> ws, swept |-> swept]

Send(c, r) ==
  /\ Cardinality(requests[c]) < program.requests
  /\ requests' = [requests EXCEPT ![c] = @ \union {r}]

(* The user's program may make a call. *)
MayCall(c) ==
  /\ program.overlap \/ (requests[c] = {} /\ sweep[c] = Idle)
  /\ called' = NoMessage

(* A call for one handler settles what the user wants of it. *)
Want(c, t, h) ==
  /\ wanted' = [wanted EXCEPT ![c][t] = @ \union {h}]
  /\ overtaken' = [overtaken EXCEPT ![c][t] = @ \ {h}]

Dismiss(c, t, h) ==
  /\ wanted' = [wanted EXCEPT ![c][t] = @ \ {h}]
  /\ overtaken' = [overtaken EXCEPT ![c][t] = @ \ {h}]

(* Wrappers, and their handlers, whose subscription is not answered yet. *)
Underway(c, t) ==
  UNION {r.wrappers : r \in {q \in requests[c] : q.op = "subscribe" /\ q.topic = t}}

InFlight(c, t) == {handler[w] : w \in Underway(c, t)}

(* A call for topics as a whole: nothing of them is wanted any more. *)
DismissAll(c, ts) ==
  /\ wanted' = [wanted EXCEPT ![c] = [t \in Topics |-> IF t \in ts THEN {} ELSE @[t]]]
  /\ overtaken' = [overtaken EXCEPT ![c] = [t \in Topics |->
       IF t \in ts THEN (wanted[c][t] \union @[t]) \intersect InFlight(c, t) ELSE @[t]]]

OfToken(n) == {t \in Topics : TokenOf[t] = n}

---------------------------------------------------------------------------
(* subscribe *)

BugWrap(c, t, h) ==
  /\ Len(handler) < program.wrappers
  /\ handler' = Append(handler, h)
  /\ centro' = [centro EXCEPT ![h][c] = [u \in Topics |-> Len(handler) + 1]]

(* The wrapper of the handler is found or made. *)
Wrap(c, t, h) ==
  \/ centro[h][c][t] # None /\ UNCHANGED <<handler, centro>>
  \/ /\ centro[h][c][t] = None
     /\ Len(handler) < program.wrappers
     /\ handler' = Append(handler, h)
     /\ centro' = [centro EXCEPT ![h][c][t] = Len(handler) + 1]

(* The server is asked for a topic the client does not know yet; a known   *)
(* topic gets one more wrapper at once.                                    *)
Subscribe(c, t, h) ==
  /\ MayCall(c)
  /\ Wrap(c, t, h)
  /\ Want(c, t, h)
  /\ \/ /\ t \in Known(c)
        /\ subs' = [subs EXCEPT ![c][t] = @ \union {centro'[h][c][t]}]
        /\ UNCHANGED requests
     \/ /\ t \notin Known(c)
        /\ Send(c, Ask("subscribe", t, {centro'[h][c][t]}, FALSE))
        /\ UNCHANGED subs
  /\ UNCHANGED <<server, sweep>>

---------------------------------------------------------------------------
(* unsubscribe *)

BugForget(c, t, hs) ==
  [h \in Handlers |-> IF h \in hs THEN [d \in Clients |-> [centro[h][d] EXCEPT ![t] = None]]
                      ELSE centro[h]]

(* unsub: the wrappers of the handlers are forgotten at once. *)
Forget(c, t, hs) ==
  [h \in Handlers |-> IF h \in hs THEN [centro[h] EXCEPT ![c][t] = None] ELSE centro[h]]

HandlersOf(c, t) == IF t \in Known(c) THEN {handler[w] : w \in subs[c][t]} ELSE {}

(* The client's topics when wrappers have gone from one of them. *)
Dropped(c, t, ws) ==
  IF t \notin Known(c) THEN subs[c]
  ELSE IF subs[c][t] \subseteq ws THEN Without(subs[c], t)
  ELSE With(subs[c], t, subs[c][t] \ ws)

(* Wrappers leave a topic; the server is told when they are the last.      *)
Leave(c, t, last, ws, swept) ==
  \/ /\ last
     /\ Send(c, Ask("unsubscribe", t, ws, swept))
     /\ UNCHANGED subs
  \/ /\ ~last
     /\ subs' = [subs EXCEPT ![c] = Dropped(c, t, ws)]
     /\ UNCHANGED requests

BugLeaving(w) == {None}
(* What the mqlobber client is given: the wrapper, not the user's handler. *)
Leaving(w) == {w}

(* One handler leaves a topic. *)
Unsubscribe(c, t, h) ==
  LET w == centro[h][c][t]
  IN /\ MayCall(c)
     /\ centro' = Forget(c, t, {h})
     /\ Dismiss(c, t, h)
     /\ Leave(c, t, t \in Known(c) /\ subs[c][t] = {w}, Leaving(w), FALSE)
     /\ UNCHANGED <<handler, server, sweep>>

(* All handlers the client knows for a topic; one that is still being      *)
(* subscribed is not among them.                                           *)
UnsubscribeTopic(c, t) ==
  /\ MayCall(c)
  /\ centro' = Forget(c, t, HandlersOf(c, t))
  /\ DismissAll(c, {t})
  /\ Leave(c, t, t \in Known(c), Wrappers, FALSE)
  /\ UNCHANGED <<handler, server, sweep>>

(* All topics of a token: they are visited in the live map, each when the  *)
(* one before is answered.                                                 *)
UnsubscribeToken(c, n) ==
  /\ MayCall(c) /\ sweep[c] = Idle
  /\ sweep' = [sweep EXCEPT ![c] = n]
  /\ UNCHANGED <<handler, centro, subs, requests, server, calls>>

Swept(c, t) == TokenOf[t] = sweep[c]

Awaited(c) == \E r \in requests[c] : r.swept

SweepTopic(c, t) ==
  /\ sweep[c] # Idle /\ ~Awaited(c)
  /\ t \in Known(c) /\ Swept(c, t)
  /\ centro' = Forget(c, t, HandlersOf(c, t))
  /\ DismissAll(c, {t} \intersect OfToken(sweep[c]))
  /\ Leave(c, t, TRUE, Wrappers, TRUE)
  /\ called' = NoMessage
  /\ UNCHANGED <<handler, server, sweep>>

SweepEnds(c) ==
  /\ sweep[c] # Idle /\ ~Awaited(c)
  /\ \A t \in Known(c) : ~Swept(c, t)
  /\ sweep' = [sweep EXCEPT ![c] = Idle]
  /\ DismissAll(c, OfToken(sweep[c]))
  /\ called' = NoMessage
  /\ UNCHANGED <<handler, centro, subs, requests, server>>

---------------------------------------------------------------------------
(* The server answers a request. *)
Answer(c, r) ==
  /\ requests' = [requests EXCEPT ![c] = @ \ {r}]
  /\ \/ /\ r.op = "subscribe"
        /\ server' = [server EXCEPT ![c] = @ \union {r.topic}]
        /\ subs' = [subs EXCEPT ![c] = With(@, r.topic,
             r.wrappers \union IF r.topic \in Known(c) THEN @[r.topic] ELSE {})]
     \/ /\ r.op = "unsubscribe"
        /\ server' = [server EXCEPT ![c] = @ \ {r.topic}]
        /\ subs' = [subs EXCEPT ![c] = Dropped(c, r.topic, r.wrappers)]
  /\ called' = NoMessage
  /\ UNCHANGED <<handler, centro, sweep, calls>>

(* An error ends a sweep; the wrapper of a subscription that failed stays. *)
AnswerError(c, r) ==
  /\ program.fails
  /\ requests' = [requests EXCEPT ![c] = @ \ {r}]
  /\ sweep' = [sweep EXCEPT ![c] = IF r.swept THEN Idle ELSE @]
  /\ called' = NoMessage
  /\ UNCHANGED <<handler, centro, subs, server, calls>>

BugLive(c, t, w) == TRUE
Live(c, t, w) == centro[handler[w]][c][t] = w

(* A message calls wrappers of its topic, all of them or a single one, and *)
(* a wrapper calls its handler if it is still the one in the map.          *)
Deliver(c, t) ==
  /\ t \in Known(c)
  /\ \E ws \in {subs[c][t]} \union {{w} : w \in subs[c][t]} :
       called' = [client |-> c, topic |-> t,
                  handlers |-> {handler[w] : w \in {v \in ws : Live(c, t, v)}}]
  /\ UNCHANGED <<handler, centro, subs, requests, server, sweep, calls>>

SubsNext ==
  /\ UNCHANGED program
  /\ \E c \in program.clients :
       \/ \E t \in program.topics, h \in Handlers : Subscribe(c, t, h) \/ Unsubscribe(c, t, h)
       \/ \E t \in program.topics : UnsubscribeTopic(c, t)
       \/ \E n \in {TokenOf[t] : t \in program.topics} : UnsubscribeToken(c, n)
       \/ \E t \in Topics : SweepTopic(c, t) \/ Deliver(c, t)
       \/ SweepEnds(c)
       \/ \E r \in requests[c] : Answer(c, r) \/ AnswerError(c, r)

SubsSpec == SubsInit /\ [][SubsNext]_subs_vars

---------------------------------------------------------------------------
(* Values of the right kind, and a server that has what was asked of it.   *)
SubsTypeOK ==
  /\ Len(handler) <= program.wrappers
  /\ \A h \in Handlers, c \in Clients, t \in Topics :
       centro[h][c][t] \in 0..Len(handler)
  /\ \A c \in Clients :
       /\ Known(c) \subseteq Topics /\ server[c] \subseteq Topics
       /\ \A t \in Known(c) : subs[c][t] \subseteq 1..Len(handler)
       /\ sweep[c] \in Tokens \union {Idle}

(* A message calls only handlers the user's calls ask for: none that was   *)
(* unsubscribed, not even before the server has heard of it.  The one      *)
(* exception is a handler whose subscription was under way when its topic  *)
(* or token was unsubscribed from as a whole: the client does not know it  *)
(* by then.                                                                *)
CalledOnlyWanted ==
  called.client # None =>
    called.handlers \subseteq wanted[called.client][called.topic]
                              \union overtaken[called.client][called.topic]

(* A wrapper found in the maps of a handler wraps that handler, and no two *)
(* places have the same wrapper.                                           *)
WrapperUnique ==
  \A h, g \in Handlers, c, d \in Clients, t, u \in Topics :
    centro[h][c][t] # None =>
      /\ handler[centro[h][c][t]] = h
      /\ centro[h][c][t] = centro[g][d][u] => <<h, c, t>> = <<g, d, u>>

(* When nothing is under way, a client that makes one call after the other *)
(* gets the messages for the handlers it subscribed, and for those only:   *)
(* whatever other clients, topics and tokens the handlers are shared with. *)
Settled(c) == requests[c] = {} /\ sweep[c] = Idle

WantedDelivered ==
  \A c \in Clients : Settled(c) => \A t \in Topics :
    /\ wanted[c][t] # {} => t \in Known(c) /\ t \in server[c]
    /\ t \in Known(c) =>
         wanted[c][t] = {handler[w] : w \in {v \in subs[c][t] : Live(c, t, v)}}

(* A client that makes one call after the other keeps no forgotten         *)
(* wrapper: such a one would swallow a message meant for a single handler. *)
NoStaleWrapper ==
  \A c \in Clients : Settled(c) =>
    \A t \in Known(c) : \A w \in subs[c][t] : Live(c, t, w)

(* The maps of a client and of the handlers agree: a wrapper is in one     *)
(* place of them, and after a program that makes one call after the other, *)
(* and whose calls succeed, they hold what the user wants and no more.     *)
MapsAgree ==
  /\ SubsTypeOK /\ WrapperUnique
  /\ ~program.overlap /\ ~program.fails => WantedDelivered /\ NoStaleWrapper
=============================================================================
