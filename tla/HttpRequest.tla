----------------------------- MODULE HttpRequest -----------------------------
(***************************************************************************)
(* One request to the http transport, from its arrival to the end of its   *)
(* response and of the in-memory connection made for it.  The server's     *)
(* authorization and the server itself, the client at the other end of the *)
(* socket, the mqlobber client on the in-memory connection and a timer act *)
(* on it in any order; most of them end up in done.                        *)
(*                                                                         *)
(* An operator named Bug... is a plausible mistake in the definition that  *)
(* follows it; the specification does not use it.                          *)
(***************************************************************************)
EXTENDS Naturals

CONSTANTS
  Kinds,          \* what clients ask for: "publish", "subscribe", "other" (404, 405)
  NTopics,        \* how many topics a subscription names
  DestroyAfterEnd \* destroy_after_end_delay >= 0

ASSUME HttpAssumption ==
  /\ Kinds \subseteq {"publish", "subscribe", "other"}
  /\ NTopics \in Nat \ {0}
  /\ DestroyAfterEnd \in BOOLEAN

NoCode == 0

VARIABLES
  kind,      \* what this client asks for
  stage,     \* new, authorizing, starting, publishing, subscribing, streaming, over
  topics,    \* topics subscribed to
  closed,    \* closed
  head,      \* headers_written: the status written by writeHead
  implicit,  \* the head was sent by a write before writeHead
  code,      \* the status end_response was called with
  ends,      \* number of calls of res.end
  sse,       \* sse_interval is running
  watching,  \* done listens to the response ('prefinish', 'close')
  kill,      \* the timeout of end_response: none, armed, cleared
  socket,    \* of the client: open, gone
  news,      \* events of a gone socket not delivered yet: "req", "res"
  body,      \* of the request: flowing, ended
  left,      \* none, open, destroyed, closed
  ticks,     \* left.destroy is scheduled
  attended   \* the client was still there when its request was authorized

response == <<closed, head, implicit, code, ends, sse, kill>>
pair == <<left, ticks>>
client == <<socket, news, body>>
vars == <<kind, stage, topics, response, watching, client, pair, attended>>

Init ==
  /\ kind \in Kinds
  /\ stage = "new" /\ topics = 0
  /\ closed = FALSE /\ head = NoCode /\ implicit = FALSE
  /\ code = NoCode /\ ends = 0
  /\ sse = FALSE /\ watching = FALSE /\ kill = "none"
  /\ socket = "open" /\ news = {} /\ body = "flowing"
  /\ left = "none" /\ ticks = FALSE /\ attended = FALSE

(* end_response: the response ends ('prefinish' is emitted within).  After *)
(* a 503 the connection is destroyed when the response is out, or after a  *)
(* while.                                                                  *)
EndResponse(c) ==
  /\ ends' = ends + 1
  /\ closed' = TRUE
  /\ code' = c
  /\ kill' = IF c = 503 /\ DestroyAfterEnd THEN "armed" ELSE kill

(* done(c, ...): only_headers where the response goes on after them.       *)
Scheduled(only_headers) ==
  ticks' = (ticks \/ (left # "none" /\ (closed \/ ~only_headers)))

(* The status that has data of its own is not 200: done sets a header for  *)
(* it.                                                                     *)
HasData(c) == c # 200

(* Nothing can be set once a write has sent a head by itself: setHeader    *)
(* throws, and done gives up.                                              *)
Throws(c) == head = NoCode /\ implicit /\ HasData(c)

(* The head is written, unless one is; writeHead throws after such a write *)
(* and the response is ended.                                              *)
Succeeds == ~closed /\ head = NoCode /\ ~implicit

BugDone(c, only_headers) ==
  /\ sse' = FALSE
  /\ Scheduled(only_headers)
  /\ head' = IF head = NoCode /\ ~implicit THEN c ELSE head
  /\ IF ~Throws(c) /\ (head # NoCode \/ implicit \/ ~only_headers)
       THEN EndResponse(c)
       ELSE UNCHANGED <<ends, closed, code, kill>>
  /\ UNCHANGED implicit

BugDoneLeft(c, only_headers) ==
  /\ sse' = FALSE
  /\ ticks' = (ticks \/ (left # "none" /\ ~closed /\ ~only_headers))
  /\ head' = IF Succeeds THEN c ELSE head
  /\ IF ~closed /\ ~Throws(c) /\ (head # NoCode \/ implicit \/ ~only_headers)
       THEN EndResponse(c)
       ELSE UNCHANGED <<ends, closed, code, kill>>
  /\ UNCHANGED implicit

Done(c, only_headers) ==
  /\ sse' = FALSE
  /\ Scheduled(only_headers)
  /\ head' = IF Succeeds THEN c ELSE head
  /\ IF ~closed /\ ~Throws(c) /\ (head # NoCode \/ implicit \/ ~only_headers)
       THEN EndResponse(c)
       ELSE UNCHANGED <<ends, closed, code, kill>>
  /\ UNCHANGED implicit

Still == UNCHANGED <<kind, topics, watching, client, left, attended>>

---------------------------------------------------------------------------
(* The request arrives.  A path or method that is not served is answered   *)
(* at once; cors may answer a preflight request by itself.                 *)
NotServed(c) ==
  /\ stage = "new" /\ kind = "other"
  /\ stage' = "over"
  /\ Done(c, FALSE)
  /\ Still

Preflight ==
  /\ stage = "new" /\ kind = "other"
  /\ stage' = "over" /\ ends' = 1
  /\ UNCHANGED <<closed, head, implicit, code, sse, kill, ticks>>
  /\ Still

Request ==
  /\ stage = "new" /\ kind # "other"
  /\ stage' = "authorizing"
  /\ UNCHANGED <<response, ticks>>
  /\ Still

(* The server destroys what it is authorizing: it forgets the request and  *)
(* does not call back.                                                     *)
AuthorizeDestroyed ==
  /\ stage = "authorizing"
  /\ stage' = "over"
  /\ Done(503, FALSE)
  /\ Still

Rejected ==
  /\ stage = "authorizing"
  /\ stage' = "over"
  /\ Done(401, FALSE)
  /\ Still

(* Authorized: the in-memory connection is made and handed to the server,  *)
(* and from now on errors of the request and the response reach it.        *)
Authorized ==
  /\ stage = "authorizing"
  /\ stage' = "starting"
  /\ left' = "open" /\ attended' = (socket = "open")
  /\ UNCHANGED <<kind, topics, watching, client, response, ticks>>

(* The mqlobber client is ready: the request is valid, or not.             *)
Ready ==
  /\ stage = "starting" /\ left = "open"
  /\ stage' = IF kind = "publish" THEN "publishing" ELSE "subscribing"
  /\ UNCHANGED <<response, ticks>>
  /\ Still

Invalid ==
  /\ stage = "starting" /\ left = "open"
  /\ stage' = "over"
  /\ Done(400, FALSE)
  /\ Still

(* The mqlobber client fails, before or after it is ready. *)
ClientError ==
  /\ left = "open" /\ stage \in {"starting", "publishing", "subscribing", "streaming"}
  /\ stage' = "over"
  /\ Done(500, FALSE)
  /\ Still

---------------------------------------------------------------------------
(* Publish: the body is piped into the message, which is acknowledged when *)
(* its end has reached the server.                                         *)
BodyEnd ==
  /\ socket = "open" /\ body = "flowing"
  /\ body' = "ended"
  /\ UNCHANGED <<kind, stage, topics, response, watching, socket, news, pair, attended>>

Published ==
  /\ stage = "publishing" /\ body = "ended" /\ left = "open"
  /\ stage' = "over"
  /\ Done(200, FALSE)
  /\ Still

PublishError ==
  /\ stage = "publishing"
  /\ stage' = "over"
  /\ Done(500, FALSE)
  /\ Still

(* Subscribe: one topic after the other, then the head of the stream.      *)
BugSubscribedLast ==
  /\ stage = "subscribing" /\ left = "open" /\ topics < NTopics
  /\ topics' = topics + 1
  /\ UNCHANGED <<kind, stage, response, watching, client, pair, attended>>

Subscribed ==
  /\ stage = "subscribing" /\ left = "open" /\ topics + 1 < NTopics
  /\ topics' = topics + 1
  /\ UNCHANGED <<kind, stage, response, watching, client, pair, attended>>

BugSubscribedAll ==
  /\ stage = "subscribing" /\ left = "open" /\ topics + 1 = NTopics
  /\ topics' = NTopics
  /\ stage' = "streaming"
  /\ ticks' = ticks
  /\ IF closed THEN UNCHANGED <<head, ends, closed, code, kill>>
     ELSE /\ head' = 200
          /\ UNCHANGED <<ends, closed, code, kill>>
  /\ sse' = TRUE /\ watching' = TRUE
  /\ UNCHANGED <<kind, client, left, attended, implicit>>

SubscribedAll ==
  /\ stage = "subscribing" /\ left = "open" /\ topics + 1 = NTopics
  /\ topics' = NTopics
  /\ stage' = IF Succeeds THEN "streaming" ELSE "over"
  /\ IF Succeeds
       THEN /\ head' = 200 /\ sse' = TRUE /\ watching' = TRUE
            /\ UNCHANGED <<closed, implicit, code, ends, kill, ticks>>
       ELSE /\ Done(200, TRUE)
            /\ UNCHANGED watching
  /\ UNCHANGED <<kind, client, left, attended>>

SubscribeError ==
  /\ stage = "subscribing"
  /\ stage' = "over"
  /\ Done(500, FALSE)
  /\ Still

(* A message on a topic that is subscribed to, also while others are not   *)
(* yet: events are written, and with the first of them a head if none was. *)
(* What is written after the end of the response is an error of the        *)
(* response, which the mqlobber client reports.                            *)
Message ==
  /\ left = "open" /\ topics > 0
  /\ IF ends > 0
       THEN Done(500, FALSE)
       ELSE /\ implicit' = (implicit \/ head = NoCode)
            /\ UNCHANGED <<closed, head, code, ends, sse, kill, ticks>>
  /\ UNCHANGED stage
  /\ Still

---------------------------------------------------------------------------
(* The socket closes: because the client goes, after the response, or      *)
(* because the transport destroys it.  The request fails when its body or  *)
(* response is not complete, and the response closes, in either order.     *)
SocketClose ==
  /\ socket = "open" /\ stage # "new"
  /\ socket' = "gone"
  /\ news' \in {{"res", "req"}} \union IF ends = 0 THEN {} ELSE {{"res"}}
  /\ UNCHANGED <<kind, stage, topics, response, watching, body, pair, attended>>

(* 'error' of the request: a warning, and once left exists an error of the *)
(* pair, which the mqlobber client reports.                                *)
RequestError ==
  /\ "req" \in news
  /\ news' = news \ {"req"}
  /\ IF left = "open" THEN Done(500, FALSE) ELSE UNCHANGED <<response, ticks>>
  /\ UNCHANGED <<kind, stage, topics, watching, socket, body, left, attended>>

(* 'close' of the response: onclose, cleanup of the timeout, and done where *)
(* events are being written.                                               *)
BugResponseClose ==
  /\ "res" \in news
  /\ news' = news \ {"res"}
  /\ closed' = TRUE
  /\ UNCHANGED <<head, implicit, code, ends, sse, kill, ticks>>
  /\ UNCHANGED <<kind, stage, topics, watching, socket, body, left, attended>>

ResponseClose ==
  /\ "res" \in news
  /\ news' = news \ {"res"}
  /\ closed' = TRUE
  /\ kill' = IF kill = "armed" THEN "cleared" ELSE kill
  /\ IF watching
       THEN sse' = FALSE /\ ticks' = TRUE
       ELSE UNCHANGED <<sse, ticks>>
  /\ UNCHANGED <<head, implicit, code, ends>>
  /\ UNCHANGED <<kind, stage, topics, watching, socket, body, left, attended>>

(* The timeout of end_response, or the end of the response's data. *)
Kill ==
  /\ kill = "armed"
  /\ kill' = "cleared"
  /\ socket' = "gone"
  /\ news' \in IF socket = "gone" THEN {news} ELSE {{"res"}, {"res", "req"}}
  /\ UNCHANGED <<kind, stage, topics, closed, head, implicit, code, ends, sse,
                 watching, body, pair, attended>>

---------------------------------------------------------------------------
(* The tick that destroys left. *)
Tick ==
  /\ ticks
  /\ ticks' = FALSE
  /\ left' = IF left = "open" THEN "destroyed" ELSE left
  /\ UNCHANGED <<kind, stage, topics, response, watching, client, attended>>

(* left has closed: its right side is destroyed, and done.                 *)
LeftClose ==
  /\ left = "destroyed"
  /\ left' = "closed"
  /\ Done(503, FALSE)
  /\ UNCHANGED <<kind, stage, topics, watching, client, attended>>

(* The server destroys the connection: the right side and, with it or a    *)
(* second later, left; and done.                                           *)
ServerDestroy ==
  /\ left = "open"
  /\ left' \in {"open", "destroyed"}
  /\ Done(503, FALSE)
  /\ UNCHANGED <<kind, stage, topics, watching, client, attended>>

Next ==
  \/ \E c \in {404, 405} : NotServed(c)
  \/ Preflight \/ Request \/ AuthorizeDestroyed \/ Rejected \/ Authorized
  \/ Ready \/ Invalid \/ ClientError
  \/ BodyEnd \/ Published \/ PublishError
  \/ Subscribed \/ SubscribedAll \/ SubscribeError \/ Message
  \/ SocketClose \/ RequestError \/ ResponseClose \/ Kill
  \/ Tick \/ LeftClose \/ ServerDestroy

Spec == Init /\ [][Next]_vars

(* What the event loop and the server owe: ticks and events are delivered, *)
(* timers fire, an authorization is answered, the mqlobber client gets     *)
(* ready or fails, publications and subscriptions are acknowledged.        *)
Progress ==
  /\ WF_vars(Request)
  /\ WF_vars(AuthorizeDestroyed \/ Rejected \/ Authorized)
  /\ WF_vars(stage = "starting" /\ (Ready \/ Invalid \/ ClientError))
  /\ WF_vars(Published) /\ WF_vars(left # "open" /\ PublishError)
  /\ WF_vars(Subscribed) /\ WF_vars(SubscribedAll) /\ WF_vars(left # "open" /\ SubscribeError)
  /\ WF_vars(RequestError) /\ WF_vars(ResponseClose) /\ WF_vars(Kill)
  /\ WF_vars(Tick) /\ WF_vars(LeftClose)

FairSpec == Spec /\ Progress

---------------------------------------------------------------------------
Stages == {"new", "authorizing", "starting", "publishing", "subscribing",
           "streaming", "over"}
Codes == {NoCode, 200, 400, 401, 404, 405, 500, 503}

TypeOK ==
  /\ kind \in Kinds
  /\ stage \in Stages
  /\ topics \in 0..NTopics
  /\ {closed, implicit, sse, watching, ticks, attended} \subseteq BOOLEAN
  /\ {head, code} \subseteq Codes
  /\ ends \in Nat
  /\ kill \in {"none", "armed", "cleared"}
  /\ socket \in {"open", "gone"}
  /\ news \subseteq {"req", "res"}
  /\ body \in {"flowing", "ended"}
  /\ left \in {"none", "open", "destroyed", "closed"}

(* Whoever calls done, and in whatever order, the response ends at most    *)
(* once, and after it has ended nothing holds it open.                     *)
EndedOnce == ends <= 1 /\ (ends = 1 /\ kind # "other" => closed)

(* The interval of keep-alive comments runs only while the response is     *)
(* open and its connection not closed: it never writes to a dead response. *)
(* The timeout that destroys the socket after a 503 is cancelled by the    *)
(* close of the response: it never fires at a socket that has gone.        *)
TimersOnlyWhileOpen ==
  /\ sse => ~closed /\ left # "closed" /\ stage # "over"
  /\ kill = "armed" => closed /\ ~(socket = "gone" /\ news = {})

(* Events are written to an event stream only: the head that announces it  *)
(* comes first ("Messages you've subscribed to are delivered using         *)
(* server-sent events", http.js 28).                                       *)
EventsAfterHead == ~implicit

(* An ended request, answered or abandoned, does not keep its in-memory    *)
(* connection ("when a connection drops, the server forgets all about it").*)
ConnectionReleased == closed /\ left = "open" ~> left = "closed"

(* So it is where the client was there when it was authorized and no event *)
(* has gone out before the head of the stream.                             *)
PatientReleased ==
  attended /\ ~implicit /\ closed /\ left = "open" ~> left = "closed"

(* A subscription request whose client stays is answered, by the start of  *)
(* a stream or by the end of the response; unless an event has gone out    *)
(* before the head, after which done cannot answer.                        *)
Answered ==
  kind = "subscribe" ~>
    stage = "streaming" \/ ends > 0 \/ socket = "gone" \/ implicit
=============================================================================
