------------------------------- MODULE Limits -------------------------------
(***************************************************************************)
(* What a client is allowed: the access policy its tokens make, the limits *)
(* on what is active on the server and those on what a connection          *)
(* publishes.  They share no state: a behaviour is about one part, and the *)
(* others stay as they begin.                                              *)
(***************************************************************************)
EXTENDS AccessPolicy

CONSTANTS
  Publications, MaxPublications,
  Conns, SubTopics, Requests, MaxSubscriptions, Presubscribed, nothing,
  Callers, Sockets, SocketMaps, MaxConnections,
  Pubs, MaxMessages, MaxData, MaxChunk, MaxReceived, CloseConn

VARIABLES
  part,
  count, state, loose,
  s_count, nan, status, subs, request, refused,
  socket, c_count, c_state, watched, gone,
  messages, d_count, d_status, passed, destroyed

access_vars == vars
pubs_vars == <<count, state, loose>>
subs_vars == <<s_count, nan, status, subs, request, refused>>
conns_vars == <<socket, c_count, c_state, watched, gone>>
conn_vars == <<messages, d_count, d_status, passed, destroyed>>

ActivePubs == INSTANCE LimitActivePublications
ActiveSubs == INSTANCE LimitActiveSubscriptions WITH Topics <- SubTopics, count <- s_count
ActiveConns == INSTANCE LimitActiveConnections WITH
  Conns <- Callers, count <- c_count, state <- c_state
PerConn == INSTANCE LimitConn WITH count <- d_count, status <- d_status

ASSUME LimitsAssumption ==
  /\ ActivePubs!PublicationsAssumption /\ ActiveSubs!LimitAssumption
  /\ ActiveConns!ConnectionsAssumption /\ PerConn!LimitConnAssumption

AnyPresented == CHOOSE hs \in Presented : TRUE
AnySockets == CHOOSE map \in SocketMaps : TRUE

LimitsInit ==
  /\ part \in {"policy", "publications", "subscriptions", "connections", "connection"}
  /\ Init /\ ActivePubs!Init /\ ActiveSubs!Init /\ ActiveConns!Init /\ PerConn!Init
  /\ part # "policy" => handshakes = AnyPresented
  /\ part # "connections" => socket = AnySockets

LimitsNext ==
  /\ UNCHANGED part
  /\ part # "policy" => UNCHANGED access_vars
  /\ part # "publications" => UNCHANGED pubs_vars
  /\ part # "subscriptions" => UNCHANGED subs_vars
  /\ part # "connections" => UNCHANGED conns_vars
  /\ part # "connection" => UNCHANGED conn_vars
  /\ \/ part = "policy" /\ Next
     \/ part = "publications" /\ ActivePubs!Next
     \/ part = "subscriptions" /\ ActiveSubs!Next
     \/ part = "connections" /\ ActiveConns!Next
     \/ part = "connection" /\ PerConn!Next

limits_vars == <<part, access_vars, pubs_vars, subs_vars, conns_vars, conn_vars>>

LimitsSpec == LimitsInit /\ [][LimitsNext]_limits_vars

---------------------------------------------------------------------------
(* limit_active_publications: the count is that of the publications under  *)
(* way, also when a callback is called twice, and within the limit.        *)
PublicationsCounted == ActivePubs!PublicationsCounted

(* limit_active_subscriptions: while no connection has closed, the count   *)
(* follows the subscriptions, whatever is asked twice or overtaken; none   *)
(* ever escapes it; and the limit is exceeded by less than the number of   *)
(* requests that were under way together.  Until a request fails without a *)
(* number: after it the count is NaN and there is no limit.                *)
SubscriptionsCounted == ActiveSubs!SubscriptionsCounted

(* limit_active_connections: no more are served than allowed, with sockets *)
(* of their own and with requests that share one; nothing live escapes the *)
(* count, and nothing is left in it when all have closed.                  *)
ConnectionsCounted == ActiveConns!ConnectionsCounted

(* Only the limit refuses: a publication, a subscription while no          *)
(* connection has closed, and a connection that has a socket of its own.   *)
OnlyLimitRefuses ==
  /\ ActivePubs!OnlyLimitRefuses /\ ActiveSubs!OnlyLimitRefuses
  /\ ActiveConns!OnlyLimitRefuses

(* limit_conn: what passes of a connection's publications and of their     *)
(* data is within the limits, however the chunks are interleaved, and once *)
(* the client has sent too much nothing passes any more.                   *)
PublishedWithinLimits == PerConn!PublishedWithinLimits
=============================================================================
