---------------------------- MODULE Connections ----------------------------
(***************************************************************************)
(* The life of client connections in a CentroServer that is up: the        *)
(* authorization of a connection (transport_authorize), its registration   *)
(* and handshakes (transport_connected), the two things that end it from   *)
(* the server's side (a public key whose revision changes, a token that    *)
(* expires), its close, and the orderly close of the server (close and the *)
(* path of _close on which nothing fails; ServerLifecycle has the others). *)
(*                                                                         *)
(* The server is one JavaScript thread: an action is what runs between two *)
(* returns to the event loop, and everything a callback waits for is an    *)
(* action of its own.                                                      *)
(*                                                                         *)
(* An operator named Bug... is a plausible mistake in the definition that  *)
(* follows it; the specification does not use it.                          *)
(*                                                                         *)
(* A handshake is the result of verifying one token: the URI of the public *)
(* key that verified it and that key's revision.  A "conn" of the source   *)
(* (server.js 563-577), one per handshake, is the pair <<c, k>> of the     *)
(* connection and the handshake's position.                                *)
(***************************************************************************)
EXTENDS Naturals, Sequences, FiniteSets

CONSTANTS
  Conns,        \* the connections clients may make
  Uris,         \* the URIs of the public keys in the keystore
  MaxTokens,    \* config.max_tokens
  MaxRev,       \* bound: the last revision a public key reaches
  Expiring,     \* the URIs whose tokens carry an exp claim
  Presence      \* the URIs whose tokens carry a presence claim

ASSUME ConnectionsAssumption ==
  /\ MaxTokens \in Nat \ {0}
  /\ MaxRev \in Nat \ {0}
  /\ Expiring \subseteq Uris
  /\ Presence \subseteq Uris

Revs == 1..MaxRev
Handshakes == [uri : Uris, rev : Revs]
Changes == [uri : Uris, rev : Revs]

(* Where a connection is:                                                  *)
(*   idle        not made yet                                              *)
(*   authz       waiting for the client's tokens                           *)
(*   verify      tokens being verified one after the other                 *)
(*   authorized  verified, not yet handed over by the transport            *)
(*   reading     process_handshake waits for get_pub_key_by_uri            *)
(*   read        the key was read, its callback has not run yet            *)
(*   serving     the MQlobberServer exists, no client handshake yet        *)
(*   connected   the client's handshake was accepted                       *)
(*   stopped     no callback of the server is left that moves it           *)
Phases == {"idle", "authz", "verify", "authorized", "reading", "read",
           "serving", "connected", "stopped"}

VARIABLES
  \* the keystore and its notifications
  rev,          \* revision of each public key in the database
  changes,      \* change events not delivered yet, in no particular order
  \* the server object
  closing,      \* _closing
  swept,        \* cont of close_transports has run
  transports_closed, \* closed in cont: every transport has closed
  server_closed,     \* _closed
  empty_once,   \* once('empty', check) is registered
  close_events, \* how many times 'close' was emitted
  pending,      \* _pending_authz_destroys
  connids,      \* the connections in _connids
  connections,  \* _connections: for each URI its set of conns
  \* each connection
  pc,
  stream,       \* "open", "closing" (destroyed by the server) or "closed"
  tokens,       \* number of tokens presented
  handshakes,   \* the handshakes verified so far
  idx,          \* position of the handshake being processed, 0 before the first
  got,          \* revision that get_pub_key_by_uri read, 0 if none
  hs_conns,     \* positions of the handshakes in hs_conns
  timers,       \* positions of the handshakes with a pending expiry timer
  presence,     \* URIs of the handshakes in the presence map
  \* the subscribers to presence messages
  online        \* <<c, u>> announced and not yet taken back

keyVars == <<rev, changes>>
closeVars == <<closing, swept, transports_closed, server_closed, empty_once,
               close_events>>
regVars == <<connids, connections, hs_conns, timers, presence, online>>
authVars == <<tokens, handshakes>>
vars == <<keyVars, closeVars, pending, regVars, pc, stream, authVars, idx, got>>

Init ==
  /\ rev = [u \in Uris |-> 1]
  /\ changes = {}
  /\ closing = FALSE
  /\ swept = FALSE
  /\ transports_closed = FALSE
  /\ server_closed = FALSE
  /\ empty_once = FALSE
  /\ close_events = 0
  /\ pending = {}
  /\ connids = {}
  /\ connections = [u \in Uris |-> {}]
  /\ pc = [c \in Conns |-> "idle"]
  /\ stream = [c \in Conns |-> "open"]
  /\ tokens = [c \in Conns |-> 0]
  /\ handshakes = [c \in Conns |-> <<>>]
  /\ idx = [c \in Conns |-> 0]
  /\ got = [c \in Conns |-> 0]
  /\ hs_conns = [c \in Conns |-> {}]
  /\ timers = [c \in Conns |-> {}]
  /\ presence = [c \in Conns |-> {}]
  /\ online = {}

-----------------------------------------------------------------------------
(* Helpers                                                                 *)

UriOf(c, k) == handshakes[c][k].uri
RevOf(c, k) == handshakes[c][k].rev

BugDestroyServing(S) ==
  [c \in Conns |-> IF c \in S /\ stream[c] = "open" /\ pc[c] \notin {"reading", "read"}
                     THEN "closing" ELSE stream[c]]
\* Streams after dstroy was called on each connection of S: it destroys a
\* stream once, and not one that is closed.
Dstroyed(S) == [c \in Conns |-> IF c \in S /\ stream[c] = "open"
                                THEN "closing" ELSE stream[c]]

BugNeverClosed(c) == FALSE
\* closed: conn_closed of the connection has run (it is registered when asked).
IsClosed(c) == stream[c] = "closed"

BugCheckEarly(remaining, all_closed) ==
  IF all_closed \/ remaining = {}
    THEN server_closed' = TRUE /\ close_events' = close_events + 1
    ELSE UNCHANGED <<server_closed, close_events>>
\* check, called with _connids as it is after the step.
Check(remaining, all_closed) ==
  IF all_closed /\ remaining = {}
    THEN server_closed' = TRUE /\ close_events' = close_events + 1
    ELSE UNCHANGED <<server_closed, close_events>>

-----------------------------------------------------------------------------
(* Authorization: transport_authorize                                      *)

\* A client connects: the transport asks for authorization.
TransportAuthorize(c) ==
  /\ pc[c] = "idle"
  /\ pc' = [pc EXCEPT ![c] = "authz"]
  /\ pending' = pending \cup {c}
  /\ UNCHANGED <<keyVars, closeVars, regVars, stream, authVars, idx, got>>

BugStayPending(c) == pending
\* _pending_authz_destroys.delete(destroy) returns whether it was there.
Unpended(c) == pending \ {c}

\* cb(err): unless close has taken the connection out of the set, the
\* transport is told and gets rid of it.
Reject(c) ==
  /\ pc' = [pc EXCEPT ![c] = "stopped"]
  /\ pending' = Unpended(c)
  /\ stream' = Dstroyed({c} \cap pending)
  /\ UNCHANGED <<keyVars, closeVars, regVars, authVars, idx, got>>

\* got_tokens with an error: the stream ended before a frame, the frame was
\* bad, or an extension cancelled.
GotTokensError(c) ==
  /\ pc[c] = "authz"
  /\ Reject(c)

\* No tokens, or more than config.max_tokens.
BadCount(n) == n = 0 \/ n > MaxTokens

\* got_tokens with n tokens.
GotTokens(c, n) ==
  /\ pc[c] = "authz"
  /\ IF BadCount(n)
       THEN Reject(c)
       ELSE /\ pc' = [pc EXCEPT ![c] = "verify"]
            /\ tokens' = [tokens EXCEPT ![c] = n]
            /\ UNCHANGED <<keyVars, closeVars, pending, regVars, stream,
                           handshakes, idx, got>>

\* authz.authorize verifies the next token against the key of URI u as the
\* database has it now.
VerifyToken(c, u) ==
  /\ pc[c] = "verify"
  /\ Len(handshakes[c]) < tokens[c]
  /\ handshakes' = [handshakes EXCEPT ![c] = Append(@, [uri |-> u, rev |-> rev[u]])]
  /\ UNCHANGED <<keyVars, closeVars, pending, regVars, pc, stream, tokens, idx, got>>

\* A token is too long, or authz.authorize fails it.
VerifyError(c) ==
  /\ pc[c] = "verify"
  /\ Len(handshakes[c]) < tokens[c]
  /\ Reject(c)

DuplicateUri(c) ==
  \E j, k \in 1..tokens[c] : j # k /\ UriOf(c, j) = UriOf(c, k)

\* All tokens are verified: the transport is told only if close has not
\* taken the connection out of _pending_authz_destroys.
AuthzEnd(c) ==
  /\ pc[c] = "verify"
  /\ Len(handshakes[c]) = tokens[c]
  /\ IF DuplicateUri(c)
       THEN Reject(c)
       ELSE /\ pc' = [pc EXCEPT ![c] = IF c \in pending THEN "authorized"
                                                       ELSE "stopped"]
            /\ pending' = Unpended(c)
            /\ UNCHANGED <<keyVars, closeVars, regVars, stream, authVars, idx, got>>

-----------------------------------------------------------------------------
(* Registration and handshakes: transport_connected                        *)

BugOneConnPerUri(c, k) ==
  /\ presence' = [presence EXCEPT ![c] = @ \cup ({UriOf(c, k)} \cap Presence)]
  /\ hs_conns' = [hs_conns EXCEPT ![c] = @ \cup {k}]
  /\ timers' = [timers EXCEPT ![c] = IF UriOf(c, k) \in Expiring THEN @ \cup {k} ELSE @]
  /\ connections' = [connections EXCEPT ![UriOf(c, k)] = {<<c, k>>}]
  /\ idx' = [idx EXCEPT ![c] = k]
  /\ pc' = [pc EXCEPT ![c] = "reading"]
BugOneTimer(c, k) ==
  /\ presence' = [presence EXCEPT ![c] = @ \cup ({UriOf(c, k)} \cap Presence)]
  /\ hs_conns' = [hs_conns EXCEPT ![c] = @ \cup {k}]
  /\ timers' = [timers EXCEPT ![c] = {j \in {k} : UriOf(c, j) \in Expiring}]
  /\ connections' = [connections EXCEPT ![UriOf(c, k)] = @ \cup {<<c, k>>}]
  /\ idx' = [idx EXCEPT ![c] = k]
  /\ pc' = [pc EXCEPT ![c] = "reading"]
\* process_handshake of the k-th handshake of a connection that is not
\* closed: the conn is in hs_conns and in the index before the key is read.
ProcessHandshake(c, k) ==
  LET u == UriOf(c, k) IN
  /\ presence' = [presence EXCEPT ![c] = @ \cup ({u} \cap Presence)]
  /\ hs_conns' = [hs_conns EXCEPT ![c] = @ \cup {k}]
  /\ timers' = [timers EXCEPT ![c] = IF u \in Expiring THEN @ \cup {k} ELSE @]
  /\ connections' = [connections EXCEPT ![u] = @ \cup {<<c, k>>}]
  /\ idx' = [idx EXCEPT ![c] = k]
  /\ pc' = [pc EXCEPT ![c] = "reading"]

Stop(c) ==
  /\ pc' = [pc EXCEPT ![c] = "stopped"]
  /\ UNCHANGED <<connections, hs_conns, timers, presence, idx>>

BugAcceptAlways == FALSE
\* A server that is closing destroys a new connection without registering it.
Refusing == closing

\* The transport hands the connection over.  If the stream closed in the
\* meantime onclose runs conn_closed at once, which takes the connection out
\* of _connids again, and the first handshake fails on it.
TransportConnected(c) ==
  /\ pc[c] = "authorized"
  /\ CASE Refusing ->
            Stop(c) /\ stream' = Dstroyed({c}) /\ UNCHANGED connids
       [] ~Refusing /\ IsClosed(c) ->
            Stop(c) /\ UNCHANGED <<stream, connids>>
       [] OTHER ->
            /\ connids' = connids \cup {c}
            /\ ProcessHandshake(c, 1)
            /\ UNCHANGED stream
  /\ UNCHANGED <<keyVars, closeVars, pending, online, authVars, got>>

\* The keystore reads the key that get_pub_key_by_uri asked for.
ReadPubKey(c) ==
  /\ pc[c] = "reading"
  /\ pc' = [pc EXCEPT ![c] = "read"]
  /\ got' = [got EXCEPT ![c] = rev[UriOf(c, idx[c])]]
  /\ UNCHANGED <<keyVars, closeVars, pending, regVars, stream, authVars, idx>>

BugRevisionIgnored(c) == TRUE
\* The key's revision is the one the token was verified with.
RevisionUnchanged(c) == got[c] = RevOf(c, idx[c])

\* got_pub_key.  On an error or another revision processed_handshakes
\* destroys the connection.  Otherwise the next handshake is processed in the
\* same step, and after the last one processed_handshakes creates the
\* MQlobberServer; both give up on a closed connection.
GotPubKey(c, err) ==
  /\ pc[c] = "read"
  /\ got' = [got EXCEPT ![c] = 0]
  /\ CASE err \/ ~RevisionUnchanged(c) ->
            Stop(c) /\ stream' = Dstroyed({c})
       [] ~err /\ RevisionUnchanged(c) /\ IsClosed(c) ->
            Stop(c) /\ UNCHANGED stream
       [] ~err /\ RevisionUnchanged(c) /\ ~IsClosed(c) /\ idx[c] < Len(handshakes[c]) ->
            ProcessHandshake(c, idx[c] + 1) /\ UNCHANGED stream
       [] OTHER ->
            /\ pc' = [pc EXCEPT ![c] = "serving"]
            /\ UNCHANGED <<stream, connections, hs_conns, timers, presence, idx>>
  /\ UNCHANGED <<keyVars, closeVars, pending, connids, online, authVars>>

\* The client's handshake: another version destroys the connection, otherwise
\* 'connect' is emitted and the presence messages are published.
ClientHandshake(c, version_ok) ==
  /\ pc[c] = "serving"
  /\ stream[c] # "closed"
  /\ IF version_ok
       THEN /\ pc' = [pc EXCEPT ![c] = "connected"]
            /\ online' = online \cup ({c} \X presence[c])
            /\ UNCHANGED stream
       ELSE /\ pc' = [pc EXCEPT ![c] = "stopped"]
            /\ stream' = Dstroyed({c})
            /\ UNCHANGED online
  /\ UNCHANGED <<keyVars, closeVars, pending, connids, connections, hs_conns,
                 timers, presence, authVars, idx, got>>

-----------------------------------------------------------------------------
(* What ends a connection                                                  *)

\* Somebody stores another public key for u (outside the server).
AddPubKey(u) ==
  /\ rev[u] < MaxRev
  /\ rev' = [rev EXCEPT ![u] = @ + 1]
  /\ changes' = changes \cup {[uri |-> u, rev |-> rev[u] + 1]}
  /\ UNCHANGED <<closeVars, pending, regVars, pc, stream, authVars, idx, got>>

BugOnlyServing(e) ==
  {x \in connections[e.uri] : RevOf(x[1], x[2]) # e.rev /\ pc[x[1]] = "connected"}
\* The conns that a change event to revision e.rev makes the server destroy.
Outdated(e) == {x \in connections[e.uri] : RevOf(x[1], x[2]) # e.rev}

\* change: the keystore, which is closed before the transports are, reports
\* that the key of a URI has another revision.
KeyChange(e) ==
  /\ e \in changes
  /\ ~swept
  /\ changes' = changes \ {e}
  /\ stream' = Dstroyed({x[1] : x \in Outdated(e)})
  /\ UNCHANGED <<rev, closeVars, pending, regVars, pc, authVars, idx, got>>

\* The expiry timer of the k-th handshake fires.
Expire(c, k) ==
  /\ k \in timers[c]
  /\ timers' = [timers EXCEPT ![c] = @ \ {k}]
  /\ stream' = Dstroyed({c})
  /\ UNCHANGED <<keyVars, closeVars, pending, connids, connections, hs_conns,
                 presence, online, pc, authVars, idx, got>>

BugLastOnly(c) ==
  [u \in Uris |-> {x \in connections[u] : x # <<c, idx[c]>>}]
\* The index without the conns of connection c.
Unindexed(c) ==
  [u \in Uris |-> {x \in connections[u] : ~(x[1] = c /\ x[2] \in hs_conns[c])}]

BugWithdrawLast(c) == {c} \X (presence[c] \cap {UriOf(c, idx[c])})
\* The presence that conn_closed takes back: that of every handshake.
Withdrawn(c) == {c} \X presence[c]

\* conn_closed: clear the timers, leave the index and the list of
\* connections, publish the disconnect messages, and tell _close when this
\* was the last connection.
ConnClosed(c) ==
  /\ timers' = [timers EXCEPT ![c] = {}]
  /\ connections' = Unindexed(c)
  /\ hs_conns' = [hs_conns EXCEPT ![c] = {}]
  /\ connids' = connids \ {c}
  /\ online' = online \ Withdrawn(c)
  /\ empty_once' = (empty_once /\ connids' # {})
  /\ IF empty_once /\ connids' = {}
       THEN Check(connids', transports_closed)
       ELSE UNCHANGED <<server_closed, close_events>>
  /\ UNCHANGED presence

\* The stream closes, because the client left or the server destroyed it.
StreamClose(c) ==
  /\ pc[c] # "idle"
  /\ stream[c] # "closed"
  /\ stream' = [stream EXCEPT ![c] = "closed"]
  /\ IF c \in connids
       THEN ConnClosed(c)
       ELSE UNCHANGED <<regVars, empty_once, server_closed, close_events>>
  /\ UNCHANGED <<keyVars, closing, swept, transports_closed, pending, pc,
                 authVars, idx, got>>

-----------------------------------------------------------------------------
(* Closing the server                                                      *)

\* close on a server that is ready.
Close ==
  /\ ~closing
  /\ closing' = TRUE
  /\ UNCHANGED <<keyVars, swept, transports_closed, server_closed, empty_once,
                 close_events, pending, regVars, pc, stream, authVars, idx, got>>

BugSweepPending == pending
\* What _close destroys: the connections being authorized and those in _connids.
SweepTargets == pending \cup connids

\* The fsq has stopped and the keystore is closed: close_transports and cont
\* destroy everything there is and start closing the transports.
CloseTransports ==
  /\ closing
  /\ ~swept
  /\ swept' = TRUE
  /\ empty_once' = TRUE
  /\ pending' = {}
  /\ stream' = Dstroyed(SweepTargets)
  /\ UNCHANGED <<keyVars, closing, transports_closed, server_closed, close_events,
                 regVars, pc, authVars, idx, got>>

\* Every transport has closed: cont2.
TransportsClosed ==
  /\ swept
  /\ ~transports_closed
  /\ transports_closed' = TRUE
  /\ Check(connids, TRUE)
  /\ UNCHANGED <<keyVars, closing, swept, empty_once, pending, regVars, pc,
                 stream, authVars, idx, got>>

-----------------------------------------------------------------------------
Next ==
  \/ \E c \in Conns : \/ TransportAuthorize(c)
                      \/ GotTokensError(c)
                      \/ \E n \in 0..MaxTokens + 1 : GotTokens(c, n)
                      \/ \E u \in Uris : VerifyToken(c, u)
                      \/ VerifyError(c)
                      \/ AuthzEnd(c)
                      \/ TransportConnected(c)
                      \/ ReadPubKey(c)
                      \/ \E err \in BOOLEAN : GotPubKey(c, err)
                      \/ \E ok \in BOOLEAN : ClientHandshake(c, ok)
                      \/ \E k \in timers[c] : Expire(c, k)
                      \/ StreamClose(c)
  \/ \E u \in Uris : AddPubKey(u)
  \/ \E e \in changes : KeyChange(e)
  \/ Close
  \/ CloseTransports
  \/ TransportsClosed

Spec == Init /\ [][Next]_vars

(* What the code's scheduling guarantees: the keystore answers every       *)
(* request and delivers every change while it is open, timers fire, a      *)
(* destroyed stream closes, the fsq and the keystore close when asked, and *)
(* the transports do once their connections have.  Nothing is assumed of   *)
(* clients, of whoever stores keys, and of who may call close.             *)
Fairness ==
  /\ \A c \in Conns :
       /\ WF_vars(ReadPubKey(c))
       /\ WF_vars(\E err \in BOOLEAN : GotPubKey(c, err))
       /\ WF_vars(stream[c] = "closing" /\ StreamClose(c))
       /\ \A k \in 1..MaxTokens : WF_vars(Expire(c, k))
  /\ \A e \in Changes : WF_vars(KeyChange(e))
  /\ WF_vars(CloseTransports)
  /\ WF_vars(/\ \A c \in Conns : c \notin connids /\ stream[c] # "closing"
             /\ TransportsClosed)

FairSpec == Spec /\ Fairness

-----------------------------------------------------------------------------
(* Properties                                                              *)

\* Types of the variables (the fields of CentroServer and the closures of
\* transport_authorize and transport_connected); a client that presents more
\* than max_tokens tokens gets no further.
TypeOK ==
  /\ rev \in [Uris -> Revs]
  /\ changes \subseteq Changes
  /\ closing \in BOOLEAN
  /\ swept \in BOOLEAN
  /\ transports_closed \in BOOLEAN
  /\ server_closed \in BOOLEAN
  /\ empty_once \in BOOLEAN
  /\ close_events \in Nat
  /\ pending \subseteq Conns
  /\ connids \subseteq Conns
  /\ connections \in [Uris -> SUBSET (Conns \X (1..MaxTokens))]
  /\ pc \in [Conns -> Phases]
  /\ stream \in [Conns -> {"open", "closing", "closed"}]
  /\ tokens \in [Conns -> 0..MaxTokens]
  /\ handshakes \in [Conns -> Seq(Handshakes)]
  /\ \A c \in Conns : Len(handshakes[c]) <= tokens[c]
  /\ idx \in [Conns -> 0..MaxTokens]
  /\ \A c \in Conns : idx[c] <= Len(handshakes[c])
  /\ got \in [Conns -> 0..MaxRev]
  /\ hs_conns \in [Conns -> SUBSET (1..MaxTokens)]
  /\ timers \in [Conns -> SUBSET (1..MaxTokens)]
  /\ presence \in [Conns -> SUBSET Uris]
  /\ online \subseteq Conns \X Uris

\* The index by URI that change events use holds exactly the handshakes
\* processed so far of the connections that have not closed, although several
\* callbacks of one connection and its close come in any order: no conn of a
\* closed connection stays in it and none of a live one is missing
\* (server.js 463-488 and 563-587).
IndexExact ==
  /\ \A u \in Uris : connections[u] =
       {x \in Conns \X (1..MaxTokens) : /\ x[1] \in connids
                                       /\ x[2] \in 1..idx[x[1]]
                                       /\ UriOf(x[1], x[2]) = u}
  /\ \A c \in Conns : hs_conns[c] = IF c \in connids THEN 1..idx[c] ELSE {}

\* A connection that closed leaves nothing behind that could fire or be found
\* later: it is in no list of the server, whatever was in progress when it
\* closed (server.js 459-488, 532-535).
NothingLeftOfClosed ==
  \A c \in Conns : stream[c] = "closed" => /\ c \notin connids
                                          /\ timers[c] = {}
                                          /\ hs_conns[c] = {}

\* Every processed handshake of a connection that is not being destroyed is
\* current, or the notification that will destroy it is still to come, or the
\* key read that is in progress will see the change: the server misses no
\* change between verifying a token and watching its URI (server.js 196-213,
\* 576-604).
RevocationNotMissed ==
  \A c \in connids : \A k \in 1..idx[c] :
    stream[c] = "open" =>
      \/ RevOf(c, k) = rev[UriOf(c, k)]
      \/ \E e \in changes : e.uri = UriOf(c, k) /\ e.rev # RevOf(c, k)
      \/ k = idx[c] /\ pc[c] = "reading"
      \/ k = idx[c] /\ pc[c] = "read" /\ got[c] # RevOf(c, k)

\* A token with an exp claim always has its timer running while the
\* connection lives, and the timer of each of several tokens is kept
\* (server.js 449-457, 569-574).
ExpiryArmed ==
  \A c \in connids : \A k \in 1..idx[c] :
    stream[c] = "open" /\ UriOf(c, k) \in Expiring => k \in timers[c]

\* Once _close has gone over the connections none is left open, also those
\* that were being authorized and those that arrive later
\* (server.js 385-388, 423-426, 1029-1041, 1088-1092).
SweptAllDestroyed ==
  swept => \A c \in connids : stream[c] # "open"

\* _pending_authz_destroys is exactly the connections being authorized,
\* except those that close has destroyed: none is out of reach of close, none
\* stays after its authorization ended (server.js 271-274, 368).
PendingExact ==
  /\ \A c \in pending : pc[c] \in {"authz", "verify"}
  /\ \A c \in Conns : pc[c] \in {"authz", "verify"} /\ c \notin pending =>
       stream[c] # "open"

\* Whoever follows the presence messages sees online only connections that
\* are: each announced presence is taken back when the connection closes
\* (server.js 492-520, 807-835).
OnlineAreConnected ==
  \A x \in online : x[1] \in connids /\ x[2] \in presence[x[1]]

\* 'close' is emitted, and the callback of close called, only when the
\* transports have closed and no connection is left, and no connection enters
\* afterwards; the two callers of check do not both emit it
\* (server.js 1052-1086).
ClosedMeansEmpty ==
  /\ server_closed => transports_closed /\ connids = {}
  /\ close_events = IF server_closed THEN 1 ELSE 0

\* What the phase of a connection says about the rest of its state: it is in
\* _connids from the call of transport_connected until it closes.
PhaseFacts(c) ==
  /\ pc[c] \in {"idle", "authz"} => tokens[c] = 0
  /\ pc[c] = "verify" => tokens[c] >= 1
  /\ pc[c] = "authorized" => tokens[c] >= 1 /\ Len(handshakes[c]) = tokens[c]
  /\ pc[c] \in {"idle", "authz", "verify", "authorized"} => c \notin connids /\ idx[c] = 0
  /\ pc[c] \in {"reading", "read"} => idx[c] >= 1
  /\ pc[c] \in {"reading", "read", "serving"} /\ stream[c] # "closed" => c \in connids
  /\ c \in connids => stream[c] # "closed" /\ idx[c] >= 1
  /\ c \notin connids => timers[c] = {}

\* No handshake is newer than the key that verified it.
NotNewer ==
  \A c \in Conns : \A k \in 1..Len(handshakes[c]) : RevOf(c, k) <= rev[UriOf(c, k)]

CloseOrder == (swept => closing) /\ (transports_closed => swept)

\* The inductive invariant: every safety property above follows from it.
IInv ==
  /\ TypeOK
  /\ \A c \in Conns : PhaseFacts(c)
  /\ NotNewer
  /\ CloseOrder
  /\ IndexExact
  /\ NothingLeftOfClosed
  /\ RevocationNotMissed
  /\ ExpiryArmed
  /\ SweptAllDestroyed
  /\ PendingExact
  /\ OnlineAreConnected
  /\ ClosedMeansEmpty

\* A connection authorized with a key that has since been replaced does not
\* stay: whatever the order of the replacement, the key reads and the change
\* events, it is destroyed or leaves (server.js 196-213, 589-604).
RevocationEnforced ==
  \A c \in Conns : \A k \in 1..MaxTokens :
    (c \in connids /\ k <= idx[c] /\ RevOf(c, k) # rev[UriOf(c, k)])
      ~> (c \notin connids)

\* A connection with an expiring token ends (server.js 449-457).
ExpiryEnforced ==
  \A c \in Conns : (\E k \in timers[c] : TRUE) ~> (c \notin connids)

\* A server asked to close does close, whatever its connections are doing:
\* the last connection to leave is noticed through 'empty', listened to once,
\* or the transports' close comes last (server.js 1047-1092).
CloseCompletes == closing ~> server_closed
=============================================================================
