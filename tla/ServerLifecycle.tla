--------------------------- MODULE ServerLifecycle ---------------------------
(***************************************************************************)
(* A CentroServer from its construction to its close, with what can fail   *)
(* on the way: config.authorize, the start of a transport, the close of    *)
(* the keystore or of a transport.  Calls of close may come at any time    *)
(* and more than once.                                                     *)
(*                                                                         *)
(* Connections appear as members of _connids only: Connections has their   *)
(* own life.  An operator named Bug... is a plausible mistake in the       *)
(* definition that follows it; the specification does not use it.          *)
(***************************************************************************)
EXTENDS Naturals, FiniteSets

CONSTANTS
  Conns,        \* connections clients may make
  Callers,      \* those who call close, once each
  NTransports,  \* number of configured transports
  InMem,        \* transports that hand over connections after their close too
  FaultCases,   \* what may fail: one of these sets of faults, see below
  Continues,    \* the callers that call the continuation they get with an error
  nobody        \* no caller

(* authorize        config.authorize reports an error                      *)
(* start            a transport, or its own authorize, reports an error    *)
(* listen           a transport's server emits 'error' and never listens   *)
(* close_authz      the keystore reports an error when closed              *)
(* close_transport  a transport reports an error when closed               *)
FaultKinds == {"authorize", "start", "listen", "close_authz", "close_transport"}

Transports == 1..NTransports

ASSUME LifecycleAssumption ==
  /\ NTransports \in Nat \ {0}
  /\ InMem \subseteq Transports
  /\ FaultCases \subseteq SUBSET FaultKinds
  /\ Continues \subseteq Callers
  /\ nobody \notin Callers

(* What a transport is doing: it has not been started, its start or its    *)
(* close has not called back, it accepts connections, it failed to start,  *)
(* it has closed (with or without an error).                               *)
TransportStates == {"idle", "starting", "up", "failed", "closing", "closed"}

VARIABLES
  faults,       \* what may fail in this behaviour
  phase,        \* startup: authorizing, starting, started (a tick before up), up, dead
  status,       \* of each transport
  start_err,    \* err of transports_started
  ready,        \* _ready
  ready_events, \* 'ready' was emitted
  closing,      \* _closing
  close_cb,     \* _close_cb
  server_closed,\* _closed
  close_events, \* how many times 'close' was emitted
  stage,        \* of _close: none, stopping, authz_err, transports, transports_err, wait
  owner,        \* cb of _close
  waiters,      \* callers that wait for 'close'
  empty_once,   \* once('empty', check) is registered
  connids,      \* _connids
  doomed,       \* the connections dstroy was called on
  asked,        \* callers that have called close
  calls         \* how often each caller's callback was called

startVars == <<faults, phase, status, start_err, ready, ready_events>>
closeVars == <<closing, close_cb, server_closed, close_events, stage, owner,
               waiters, empty_once, calls>>
vars == <<startVars, closeVars, connids, doomed, asked>>

Init ==
  /\ faults \in FaultCases
  /\ phase = "authorizing"
  /\ status = [t \in Transports |-> "idle"]
  /\ start_err = FALSE
  /\ ready = FALSE
  /\ ready_events = 0
  /\ closing = FALSE
  /\ close_cb = nobody
  /\ server_closed = FALSE
  /\ close_events = 0
  /\ stage = "none"
  /\ owner = nobody
  /\ waiters = {}
  /\ empty_once = FALSE
  /\ connids = {}
  /\ doomed = {}
  /\ asked = {}
  /\ calls = [k \in Callers |-> 0]

Called(S) == [k \in Callers |-> IF k \in S THEN calls[k] + 1 ELSE calls[k]]

-----------------------------------------------------------------------------
(* Starting                                                                *)

\* config.authorize calls back.  On an error nothing else is started; on
\* success the first transport is.
Authorize(err) ==
  /\ phase = "authorizing"
  /\ err => "authorize" \in faults
  /\ IF err THEN phase' = "dead" /\ UNCHANGED status
            ELSE phase' = "starting" /\ status' = [status EXCEPT ![1] = "starting"]
  /\ UNCHANGED <<faults, start_err, ready, ready_events, closeVars, connids, doomed, asked>>

\* transport_ready without an error: the next transport is started, or after
\* the last transports_started is called.
TransportReady(t) ==
  /\ status[t] = "starting"
  /\ IF t < NTransports
       THEN /\ status' = [status EXCEPT ![t] = "up", ![t + 1] = "starting"]
            /\ UNCHANGED phase
       ELSE /\ status' = [status EXCEPT ![t] = "up"]
            /\ phase' = "started"
  /\ UNCHANGED <<faults, start_err, ready, ready_events, closeVars, connids, doomed, asked>>

\* An error from the transport or from its own authorize ends the start of
\* transports.
TransportError(t) ==
  /\ "start" \in faults
  /\ status[t] = "starting"
  /\ status' = [status EXCEPT ![t] = "failed"]
  /\ start_err' = TRUE
  /\ phase' = "started"
  /\ UNCHANGED <<faults, ready, ready_events, closeVars, connids, doomed, asked>>

\* The transport's server emits 'error' before it listens: the server passes
\* the event on, and transport_ready is never called.
ListenError(t) ==
  /\ "listen" \in faults
  /\ status[t] = "starting"
  /\ status' = [status EXCEPT ![t] = "failed"]
  /\ UNCHANGED <<faults, phase, start_err, ready, ready_events, closeVars, connids,
                 doomed, asked>>

\* _close(cb): the fsq and then the keystore are asked to close.
BeginClose(cb) == stage' = "stopping" /\ owner' = cb

\* A caller, or no one.
Only(k) == {k} \ {nobody}

BugIgnoreError(cb) == cb # nobody
BugForgetEarlyClose(cb) == start_err
\* The tick after transports_started closes the server if close was called
\* meanwhile or a transport failed.
MustClose(cb) == cb # nobody \/ start_err

\* That tick.  An 'error' event is emitted first when a transport failed, and
\* its listener may call close: k is that caller, if any.
Started(k) ==
  /\ phase = "started"
  /\ k # nobody => start_err /\ k \notin asked
  /\ phase' = "up"
  /\ ready' = ~start_err
  /\ LET first == k # nobody /\ ~closing
         cb == IF first THEN k ELSE close_cb IN
     /\ closing' = (closing \/ k # nobody)
     /\ asked' = asked \cup Only(k)
     /\ waiters' = waiters \cup (IF closing THEN Only(k) ELSE {})
     /\ close_cb' = nobody
     /\ IF MustClose(cb) THEN BeginClose(cb) /\ UNCHANGED ready_events
                         ELSE UNCHANGED <<stage, owner>> /\ ready_events' = 1
  /\ UNCHANGED <<faults, status, start_err, server_closed, close_events, empty_once,
                 calls, connids, doomed>>

-----------------------------------------------------------------------------
(* Closing                                                                 *)

\* check: once the transports have closed and no connection is left, 'close'
\* is emitted, which calls those that wait for it, and then cb is called.
Check(remaining, all_closed) ==
  IF all_closed /\ remaining = {}
    THEN /\ server_closed' = TRUE
         /\ close_events' = close_events + 1
         /\ calls' = Called(waiters \cup Only(owner))
         /\ waiters' = {}
    ELSE UNCHANGED <<server_closed, close_events, calls, waiters>>

\* close(cb) of caller k.
Close(k) ==
  /\ k \notin asked
  /\ asked' = asked \cup {k}
  /\ closing' = TRUE
  /\ CASE closing /\ server_closed ->
            calls' = Called({k}) /\ UNCHANGED <<waiters, close_cb, stage, owner>>
       [] closing /\ ~server_closed ->
            waiters' = waiters \cup {k} /\ UNCHANGED <<calls, close_cb, stage, owner>>
       [] ~closing /\ ready ->
            BeginClose(k) /\ UNCHANGED <<calls, waiters, close_cb>>
       [] OTHER ->
            close_cb' = k /\ UNCHANGED <<calls, waiters, stage, owner>>
  /\ UNCHANGED <<startVars, server_closed, close_events, empty_once, connids, doomed>>

BugSweepNone == {}
\* cont destroys every connection there is.
SweepTargets == connids

\* cont: the transports are asked to close, the connections destroyed.  A
\* transport that failed to start has no operations to close.
Cont ==
  /\ stage' = "transports"
  /\ status' = [t \in Transports |-> IF status[t] = "up" THEN "closing" ELSE status[t]]
  /\ empty_once' = TRUE
  /\ doomed' = doomed \cup SweepTargets

\* The keystore has closed: with an error, cb gets it and the continuation.
AuthzClosed(err) ==
  /\ stage = "stopping"
  /\ err => "close_authz" \in faults
  /\ IF err THEN /\ stage' = "authz_err"
                 /\ calls' = Called(Only(owner))
                 /\ UNCHANGED <<status, empty_once, doomed>>
            ELSE Cont /\ UNCHANGED calls
  /\ UNCHANGED <<faults, phase, start_err, ready, ready_events, closing, close_cb,
                 server_closed, close_events, owner, waiters, connids, asked>>

\* The caller continues, passing its callback again.
ContinueAuthz ==
  /\ stage = "authz_err"
  /\ owner \in Continues
  /\ Cont
  /\ UNCHANGED <<faults, phase, start_err, ready, ready_events, closing, close_cb,
                 server_closed, close_events, owner, waiters, calls, connids, asked>>

\* async.each has seen every transport close.
AllClosed(S) == \A t \in Transports : S[t] # "closing"

\* A transport has closed; after the last one cont2 runs.
TransportClosed(t) ==
  /\ status[t] = "closing"
  /\ status' = [status EXCEPT ![t] = "closed"]
  /\ IF stage = "transports" /\ AllClosed(status')
       THEN stage' = "wait" /\ Check(connids, TRUE)
       ELSE UNCHANGED <<stage, server_closed, close_events, calls, waiters>>
  /\ UNCHANGED <<faults, phase, start_err, ready, ready_events, closing, close_cb, owner,
                 empty_once, connids, doomed, asked>>

\* No transport ever came up: async.each ends at once.
NothingToClose ==
  /\ stage = "transports"
  /\ \A t \in Transports : status[t] \in {"idle", "failed"}
  /\ stage' = "wait"
  /\ Check(connids, TRUE)
  /\ UNCHANGED <<startVars, closing, close_cb, owner, empty_once, connids, doomed, asked>>

\* A transport closes with an error: async.each passes the first one on at
\* once, and cb gets it and the continuation.
TransportCloseError(t) ==
  /\ "close_transport" \in faults
  /\ status[t] = "closing"
  /\ status' = [status EXCEPT ![t] = "closed"]
  /\ IF stage = "transports"
       THEN stage' = "transports_err" /\ calls' = Called(Only(owner))
       ELSE UNCHANGED <<stage, calls>>
  /\ UNCHANGED <<faults, phase, start_err, ready, ready_events, closing, close_cb,
                 server_closed, close_events, owner, waiters, empty_once,
                 connids, doomed, asked>>

\* The caller continues: cont2.
ContinueTransports ==
  /\ stage = "transports_err"
  /\ owner \in Continues
  /\ stage' = "wait"
  /\ Check(connids, TRUE)
  /\ UNCHANGED <<startVars, closing, close_cb, owner, empty_once, connids, doomed, asked>>

-----------------------------------------------------------------------------
(* Connections                                                             *)

BugAcceptAlways == TRUE
\* transport_connected registers a connection unless close was called.
Accepting == ~closing

\* A transport hands over a connection, also before the server is ready.
Connect(c) ==
  /\ c \notin connids
  /\ \E t \in Transports : status[t] = "up" \/ (status[t] \in {"closing", "closed"} /\ t \in InMem)
  /\ Accepting
  /\ connids' = connids \cup {c}
  /\ UNCHANGED <<startVars, closeVars, doomed, asked>>

\* conn_closed of the connection; 'empty' after the last one.
Disconnect(c) ==
  /\ c \in connids
  /\ connids' = connids \ {c}
  /\ doomed' = doomed \ {c}
  /\ empty_once' = (empty_once /\ connids' # {})
  /\ IF empty_once /\ connids' = {}
       THEN Check(connids', stage = "wait")
       ELSE UNCHANGED <<server_closed, close_events, calls, waiters>>
  /\ UNCHANGED <<startVars, closing, close_cb, stage, owner, asked>>

-----------------------------------------------------------------------------
Next ==
  \/ \E err \in BOOLEAN : Authorize(err) \/ AuthzClosed(err)
  \/ \E t \in Transports : \/ TransportReady(t)
                           \/ TransportError(t)
                           \/ ListenError(t)
                           \/ TransportClosed(t)
                           \/ TransportCloseError(t)
  \/ \E k \in Callers \cup {nobody} : Started(k)
  \/ \E k \in Callers : Close(k)
  \/ ContinueAuthz
  \/ NothingToClose
  \/ ContinueTransports
  \/ \E c \in Conns : Connect(c) \/ Disconnect(c)

Spec == Init /\ [][Next]_vars

(* authorize, the start and the close of transports and of the keystore    *)
(* call back, ticks are run and a destroyed connection closes.  Clients and *)
(* who calls close are free; but those in Continues, who do call the       *)
(* continuation they get with an error, get to it (closeCallback, server.js *)
(* 1250-1258, does not even name it: a caller need not be among them).     *)
Fairness ==
  /\ WF_vars(\E err \in BOOLEAN : Authorize(err))
  /\ \A t \in Transports :
       /\ WF_vars(TransportReady(t) \/ TransportError(t) \/ ListenError(t))
       /\ WF_vars(TransportClosed(t) \/ TransportCloseError(t))
  /\ WF_vars(\E k \in Callers \cup {nobody} : Started(k))
  /\ WF_vars(\E err \in BOOLEAN : AuthzClosed(err))
  /\ WF_vars(ContinueAuthz)
  /\ WF_vars(NothingToClose)
  /\ WF_vars(ContinueTransports)
  /\ \A c \in Conns : WF_vars(c \in doomed /\ Disconnect(c))

FairSpec == Spec /\ Fairness

-----------------------------------------------------------------------------
(* Properties                                                              *)

\* Types of the variables (the fields of CentroServer and the closure of
\* _close).
TypeOK ==
  /\ phase \in {"authorizing", "starting", "started", "up", "dead"}
  /\ status \in [Transports -> TransportStates]
  /\ start_err \in BOOLEAN /\ ready \in BOOLEAN /\ ready_events \in 0..1
  /\ closing \in BOOLEAN /\ server_closed \in BOOLEAN /\ empty_once \in BOOLEAN
  /\ close_cb \in Callers \cup {nobody} /\ owner \in Callers \cup {nobody}
  /\ close_events \in Nat
  /\ stage \in {"none", "stopping", "authz_err", "transports", "transports_err", "wait"}
  /\ waiters \subseteq Callers /\ asked \subseteq Callers
  /\ connids \subseteq Conns /\ doomed \subseteq connids
  /\ calls \in [Callers -> Nat]

\* The server counts as closed only when no transport is up, and, unless it
\* closed because its start failed, when no connection is registered, then and
\* afterwards; and 'close' is emitted once although both the transports and the
\* last connection run check (server.js 1052-1086, 423-426).
ClosedMeansStopped ==
  /\ server_closed => \A t \in Transports : status[t] # "up"
  /\ ~start_err =>
       /\ server_closed => connids = {}
       /\ close_events = IF server_closed THEN 1 ELSE 0

\* The callback of close is called once, when the server has been closed
\* (server.js 1125), for the first caller and for later ones, unless the close
\* of the keystore or of a transport fails: the first caller then gets the error
\* and the continuation before.
CalledMeansClosed ==
  faults \intersect {"close_authz", "close_transport"} = {} =>
    \A k \in Callers : calls[k] <= 1 /\ (calls[k] = 1 => server_closed)

\* A server that was asked to close while it was starting never says it is
\* ready (server.js 992-999).
NoReadyAfterClose == [][ready_events' # ready_events => ~closing]_vars

\* Every call of close is answered when the server has closed (server.js 1125).
CloseCalledBack == \A k \in Callers : k \in asked ~> calls[k] >= 1

\* The keystore or a transport failed to close, the first caller got the error,
\* and did not call the continuation, or there is no such caller: the close
\* stops there, and those who called close later wait on.
Abandoned == stage \in {"authz_err", "transports_err"} /\ owner \notin Continues

\* They are where the server did start, also when its parts fail to close,
\* unless the close was abandoned.
StartedCloseCalledBack ==
  faults \intersect {"authorize", "start", "listen"} = {} =>
    \A k \in Callers : k \in asked ~> calls[k] >= 1 \/ Abandoned

\* A call that comes before the server is ready is answered also when the
\* start fails, and also when it comes from a listener of the 'error' event
\* of that failure (server.js 990-997, 1143-1148), unless the close was
\* abandoned.
EarlyCloseCalledBack ==
  \A k \in Callers :
    (k \in asked /\ (phase = "started" \/ (stage = "stopping" /\ owner # nobody)))
      ~> calls[k] >= 1 \/ Abandoned

\* What holds of the code of the answers to close: all of them where the
\* server did start, and the early ones where it did not; but after a part
\* that fails to close they are in the hands of the first caller.
CloseAnswered == StartedCloseCalledBack /\ EarlyCloseCalledBack

\* A failed start closes the transports that did start (server.js 992-997),
\* unless the keystore fails to close and nobody calls the continuation.
FailedStartCloses ==
  start_err ~> \/ \A t \in Transports : status[t] \in {"idle", "failed", "closed"}
               \/ stage = "authz_err" /\ owner \notin Continues

\* After 'close' a connection that a transport still hands over is destroyed,
\* not registered (test/connect-after-close.js 10).
NoConnectionAfterClose == server_closed => connids = {}
=============================================================================
