# A TLA+ verification of centro

Centro is a messaging server in JavaScript: clients present JWTs over one of
several transports, the server checks them against a keystore, gives each client
an `MQlobberServer` on a shared message queue with the access control of its
tokens, and takes the connection away again when a token expires or a public key
is replaced. This directory models that program from its source (`src/lib`),
checks the models with TLC and proves their safety properties with TLAPS.

The repository is JavaScript on one thread. An action of a model is therefore
what runs between two returns to the event loop; what is asynchronous in the
source (a keystore read, a timer, `process.nextTick`, the close of a stream) is
an action of its own, and every order of such actions is a behaviour.

## 1. Inventory

| part (source) | state it keeps | operations | what is hard | modelled by |
|---|---|---|---|---|
| **Connections** (`server.js` 186-213, 259-842) | `_pending_authz_destroys`, `_connids`, `_connections` (index by URI); for each connection `hs_conns`, timers, `presence`, `closed`, `destroyed` | `transport_authorize`, `got_tokens`, `transport_connected`, `process_handshake`, `got_pub_key`, `processed_handshakes`, `change`, expiry, `conn_closed` | key changes against key reads against closes; several tokens per connection; the server closing meanwhile | `Connections` |
| **Server lifecycle** (`server.js` 88-232, 844-1149) | `_ready`, `_closing`, `_closed`, `_close_cb`, the closure of `_close` | start of the transports, `transports_started`, `_close`, its two continuations, `close` | close during the start, failures of either, several callers, `'empty'` against the close of the transports | `ServerLifecycle` |
| **Access policy** (`server.js` 540-764) | per connection: merged topics and blocks, presence, ack prefixes | aggregation over tokens, ack republish, presubscriptions, presence | merging several tokens of several issuers | `AccessPolicy` (partly) |
| **Helpers** (`server.js` 22-106, 1162-1237) | timers, frame parser, pipelines | `schedule`, `read_frame`, `pipeline`, `attach_extension` | long timers; the endings of a frame race; handlers attached meanwhile | `Schedule`, `ReadFrame`, `Pipeline` |
| **Limits** (`limit_active.js`, `limit_conn.js`) | shared and per-connection counters | subscribe, publish, authorize, close; stages of a pipeline | counters at their limit, requests under way | `LimitActive...`, `LimitConn` |
| **Flow** (`backoff.js`, `full.js`, `timeout.js`) | flags on `mqserver`, timers, held responses | filters, `'drain'`, `'removed'`, timeouts | flags read late, timers against answers | `Backoff`, `Full`, `Timeout` |
| **In-mem transport** (`in-mem.js`) | a pair of streams | write, read, end, destroy, errors | back-pressure, ends and destruction from both sides | `InMemDuplex`, `Channel` |
| **HTTP transport** (`http.js`) | the closure of a request | authorize, publish, subscribe, `done` | five actors call `done` | `HttpRequest` |
| **HTTP/2 transports** (`http2.js`, `http2-duplex.js`) | sessions, `num_streams` | session, stream, close | two events tell of one end | `Http2Streams` |
| **Client** (`client.js`) | handler maps behind subscribe and unsubscribe | `subscribe`, `unsubscribe` | handlers shared by topics, tokens and clients | `ClientSubs` (partly) |
| **TCP, Primus** | the listening server | listen, close | covered as any transport in `ServerLifecycle` | - |
| **Topic patterns, schemas** (`pattern.js`, `server_config.js`) | none | matching, validation data | none | - |

Interactions: a transport calls `authorize` (= `transport_authorize`) with a
stream and later `connected` (= `transport_connected`); the server calls the
transport's `destroy`, and learns of the end of the stream through `onclose`.
The keystore answers `get_pub_key_by_uri` and emits `change`. `_close` stops the
fsq, closes the keystore, then destroys what is in `_pending_authz_destroys` and
`_connids` and closes the transports; the last `conn_closed` emits `'empty'`.
`http` makes a pair of `in-mem` for every request and starts a client on its
left side. Extensions hang on the events `authz_start`, `pre_connect`, `ready`,
`transport_ready`, and put themselves into the pipelines of an `mqserver`.

The hazards, each at its line and with the properties that would catch it, are
listed in `PROJECT.json`.

## 2. Modules

| module | role |
|---|---|
| `Connections`, `ConnectionsProofs`, `MCConnections` | the life of connections in a server that is up |
| `ServerLifecycle`, `ServerLifecycleProofs`, `MCServerLifecycle` | construction, start and close of a server, with failures |
| `Channel` | what a pair of connected streams promises (the abstract specification) |
| `InMemDuplex` | the in-memory pair, which implements `Channel` |
| `Http2Streams` | sessions and streams of the HTTP/2 transports |
| `Transports`, `TransportsProofs`, `MCTransports` | `InMemDuplex` and `Http2Streams` together, proofs about them, instances for TLC |
| `HttpRequest`, `HttpRequestProofs` | one request to the HTTP transport |
| `ClientSubs`, `ClientSubsProofs` | subscribe and unsubscribe of clients |
| `ClientSide`, `MCClientSide` | `HttpRequest` and `ClientSubs` together, instances for TLC |
| `LimitActivePublications`, `LimitActiveSubscriptions`, `LimitActiveConnections`, `LimitConn` | the limit extensions |
| `AccessPolicy`, `AccessPolicyProofs` | what several tokens let a client do |
| `Limits`, `LimitsProofs`, `MCLimits` | the limits and the policy together, proofs about the limits, instances for TLC |
| `Pipeline` | handlers of an event |
| `ReadFrame` | the first frame of a connection |
| `Schedule` | chains of timers |
| `Timeout`, `Backoff`, `Full` | the extensions of these names |
| `Flow`, `FlowProofs`, `MCFlow` | the last six together, proofs about them, instances for TLC |

Operators named `Bug...` are plausible mistakes in the definition they precede;
the specifications never use them. `PROJECT.json` says which property each of
them breaks, and which lines each definition models.

### Connections

Variables carry the names of the source where it has one: `pending` is
`_pending_authz_destroys`, `connids` the keys of `_connids`, `connections` is
`_connections`, `closing`, `server_closed` are `_closing` and `_closed`; `swept`,
`transports_closed` and `empty_once` stand for how far `_close` has come (`cont`
has run; its variable `closed`; the `once('empty', check)`). The `conn` objects
of the source, one per handshake, are pairs `<<c, k>>`. `pc[c]` says which
callback a connection waits for.

| action | source (`server.js`) |
|---|---|
| `TransportAuthorize`, `GotTokens`, `GotTokensError`, `VerifyToken`, `VerifyError`, `AuthzEnd` | `transport_authorize` 236-388 |
| `TransportConnected` | `transport_connected` 391-441 and the first `process_handshake` |
| `ReadPubKey`, `GotPubKey` | 530-620: the keystore reads, the callback compares and goes on to the next handshake or to `processed_handshakes` |
| `ClientHandshake` | 783-836 |
| `AddPubKey` (external), `KeyChange` | the keystore; `change` 196-213 |
| `Expire` | `make_destroy` 449-457 |
| `StreamClose` | `conn_closed` 459-526 |
| `Close`, `CloseTransports`, `TransportsClosed` | 1017-1149, the path on which nothing fails |

* *A key read is two steps*, the read in the keystore and the callback, and a
  key change may come before, between or after them. Change events are a set
  without order: later ones may overtake earlier ones. This allows more than
  the keystore does, and the properties hold anyway.
* *The transport may wait* between the end of the authorization and
  `connected` (the phase `authorized`); Primus does (`primus.js` 51-63). A
  stream may close in this gap, and the server may be closed.
* *A destroyed stream closes later* (`stream[c] = "closing"`): in between, the
  connection still takes handshakes, changes and timers, as in the source,
  where `closed` is set by `conn_closed` alone. Closing a stream whose
  `onclose` is not registered yet is seen when it is (`IsClosed`).
* *Two tokens of one key are refused* by `got_tokens` (`DuplicateUri`), so a
  connection has at most one conn per URI; presence is keyed by the hash of the
  issuer, and the model takes one issuer per URI.
* The keystore is closed before the transports are, so `KeyChange` is enabled
  only before the sweep. `rev` is bounded by `MaxRev`; the proofs hold for every
  bound.

### ServerLifecycle

`phase` and `status` follow `async.mapSeries` over the transports; `stage`,
`owner`, `empty_once` follow one execution of `_close`; `close_cb`, `waiters` and
`calls` say where each caller's callback is: stored in `_close_cb`, registered
on `'close'`, held by `_close`, or called. `FaultCases` are the sets of faults a
behaviour may meet. `Started` is the tick after `transports_started`, in which a
listener of `'error'` may call `close` before `_close_cb` is examined. When the
close of the keystore or of a transport fails, the callback gets the error and a
continuation, which the documentation of `close` does not mention; callers in
`Continues` call it, and after the callback of another one the close stops
(`Abandoned`). Transports in `InMem` hand over
connections after their close, as `in-mem` does (its `close` does nothing).
Connections only join and leave `_connids` here.

### Transports

`InMemDuplex` follows `in-mem.js`: `held` is the callback `_cb` that the other
side's `_write` left, `ticks` the `process.nextTick` of a callback, `crossing` an
error on its way to the other side's listeners, `waiting` the timer of
`destroy_wait`. Node's `Writable` and `Readable` are modelled by their contract
(one `_write` at a time; `_read` below the mark, once until a push; `_final` when
all is written; nothing is half open). `Channel` knows only what was sent, read
and ended on each side and whether the pair broke; `IsChannel` is the refinement.

`HttpRequest` is the closure of one request: `head` and `ends` are what
`headers_written` and `res.end` did, `closed` and `sse` its variables, `left` the
in-memory connection, `Done` the function `done` that all actors end up in.
`Authorized`, `Ready`, `Published` and the like are the callbacks of the server
and of the mqlobber client; `SocketClose` is the client's, and the events it
causes come in either order. An abort is an `'error'` of the request, as in the
Node versions since 16. A message may come as soon as one topic is subscribed to;
written before the head, it makes Node send a head by itself (`implicit`). After that
nothing can be set: `setHeader` throws, `done` gives up and the response is not ended
(`Throws`), or, for a 200 without data, `writeHead` throws and the response is ended.
`attended` says that the client was still there when its request was authorized.

`Http2Streams` is both HTTP/2 transports: `counting` are the streams whose
`on_close` has not been called, `awaits` that the duplex is made after an `await`.

### Client and extensions

`ClientSubs`: `centro` is `handler._centro_subs`, `subs` is `this.subs`, a wrapper
is a number given out in turn, `requests` are the calls to the server under way,
`sweep` the `unsubscribe` of all topics of a token, which visits the live map.
`wanted` and `overtaken` follow the user's calls and never the maps: `wanted` is what
the calls ask for, `overtaken` the handlers whose `subscribe` was not answered yet when
their topic or token was unsubscribed from as a whole.
`program`, chosen in the initial state, is what the program that uses the clients
is like: how many clients and topics it has, whether its calls overlap, and whether
the server may refuse.

`LimitActiveSubscriptions` splits a request into the test, its effect on the
server and its callback (`limit_active.js` 26, 35); `moved` are the topics that the
server's handler added or removed, of which the callback hears the number `n`; a
request may fail without one (`Fail`), and the count is not a number any more (`nan`).
`LimitActivePublications` has `loose` for the `decrement` that has not been used up; `LimitActiveConnections`
watches sockets, which for HTTP carry several requests. `LimitConn` has both
limits of a connection, which cut it off in the middle of a chunk; `passed` is what
all its publications together have passed on. `AccessPolicy`
takes topics as equal or different (wildcards are mqlobber's) and `Replace` for
what `${self}` becomes; a token's claim replaces that of an earlier one with the same
issuer. In `Pipeline`, `position` is the index that the `next` function given away
with an event has captured, `visited` what the event went through. `Backoff` and `Full` have the filter of fsq, which asks
again about a message it may not deliver yet, and the lazy filter, which reads a
flag when the handler's turn comes; `mode` is `skip_message` or `delay_message`. `Timeout` has a clock that a `finish` clears
and one that an answer clears. In `Schedule` the clock may jump ahead; in
`ReadFrame` the stream comes in any pieces and may end, close or fail at any time;
`body` is the length that its header gives.

## 3. What the runs check

| run | instance | question |
|---|---|---|
| `connections_pair` | 2 clients, 1 token each, 1 URI, 3 revisions | do the server's lists stay exact (`IInv`), does a close reach everybody and complete |
| `connections_tokens` | 1 client, 2 tokens, 2 URIs, 2 revisions each, one expires | index, revocation, expiry, presence with several handshakes; what a closed connection leaves behind |
| `lifecycle` | 2 transports (one in-mem), 2 callers, one of whom ignores the continuation, 2 clients; no faults, faults of the start, of the close, or of both | is a server closed once, and everybody called back |
| `transports` | an in-memory pair with 2 chunks each way and a mark of 1, or with errors; 2 sessions with 3 streams under a limit of 2, with and without an `await` | is the pair a channel, is `num_streams` right |
| `client_side` | an HTTP request of each kind with 2 topics, and a client that goes at any time; 2 clients, 2 handlers, 2 topics of 2 tokens, one call after the other; 1 client with 3 overlapping requests that may fail | does `done` end a request once and leave nothing, is the right handler called |
| `limits` | 4 publications under a limit of 2; 2 requests on 2 connections and topics, which may fail; 4 connections on 4 or 2 sockets; 3 publications under `limit_conn`; every pair of tokens of 2 issuers that differ in their rights, up to 3 that differ in their claims | does a count equal what there is, who decides what a client may do |
| `flow` | 2 events and 4 handlers; a frame of 4 bytes in 9, or too large; times up to 11 with delays of 3; 2 publications and copies; carriers and muxes of 2 connections with room for 2 | is what is held released, to the right place and once |
| `lifecycle_unanswered_close`, `lifecycle_listen_failure`, `lifecycle_connect_after_close`, `http_request_early_abort`, `http_request_early_events` | the fault or request in question | violations, see section 6 |

Several parts in one run. `ClientSide`, `Transports`, `Limits` and `Flow` hold
components that do not share state. A behaviour of theirs is a behaviour of one of them, chosen by the
variable `part` in the initial state; the others stay as they begin. Properties of a
component therefore hold of all its behaviours, and trivially of the others. What
several instances of a component would differ in is chosen in the initial state too,
and stays: the tokens (`handshakes`), the sockets (`socket`), what a program does
(`program`), the length of a frame (`body`), the mode of an extension (`mode`),
`awaits`, and how much a side of the in-memory pair does (`most`). The `MC...` modules
only give values to constants. The assumptions on the constants are stated in the
modules (`...Assumption`), and TLC evaluates them.

Bounds. Two clients meet in the shared lists, in `'empty'` and in the sweep, the
only places where connections affect each other; two tokens are the least that
have a "next handshake" with an earlier one registered; three revisions let one
change event be outdated by another while a token carries either. Two transports
are the least with a started one and a failed one, two callers the least with a
second caller. A mark of one chunk makes every write wait for its reader, and two
chunks are the least with an order; the proofs of section 4 are for every mark. A
limit of two with one request more than that has a request refused while others
are under way. Nine bytes hold a frame and bytes after it, in any pieces. A time
of eleven is more than three times the longest delay, so that a chain has four
timers. Three tokens are the least with a first, a last and one between.

No run uses symmetry.

Deadlock is not checked: a server that has closed and whose clients have left
does nothing more, a request that is over stays so, and clients need not come.

### Fairness

Assumed everywhere: callbacks of the event loop come (`process.nextTick`, timers,
the close of a destroyed stream, events of sockets and responses). Beyond that:

* `Connections`, `ServerLifecycle`: the keystore answers every read and delivers
  every change while it is open; the fsq, the keystore and, once their connections
  are gone, the transports call back when closed or started. Nothing is assumed of
  clients (they need not send tokens or a handshake or ever leave), of those who
  store keys or of those who call `close`, except that callers in `Continues` call the
  continuation they are given; `Lifecycle.cfg` has one caller who does and one who does
  not.
* `HttpRequest` (`Progress`): a request is taken up, an authorization is answered, the mqlobber client gets ready or
  fails, a publication whose body has ended and a subscription are acknowledged or,
  when their connection is gone, fail. Nothing of the client of the request.
* `InMemDuplex`: Node calls `_write`, `_read` and `_final`, and users read what is
  there; nobody need write, end or destroy.
* `Http2Streams`: what is authorized is answered; nobody need open or leave.
* `Backoff`, `Full`: clients read what they are sent and streams end; fsq comes
  back to a message that the filter holds.
* `Timeout`: timers fire; nothing of the server's answer or of the client.
* `ReadFrame`: Node delivers what has arrived and the end; the peer need not send.
* `Schedule`: the clock goes on, timers fire.

Fairness of a part of a packed run is stated on that part's own variables and, where
its action could be taken from the initial state of a part that stays, with `part`
in its guard: it demands nothing of a part that stays as it begins.

## 4. What is proved

Every safety property that a passing run checks, invariants and action properties, is
a theorem:

| module | about | theorems |
|---|---|---|
| `ConnectionsProofs` | `Connections` | `Invariance` and every safety property |
| `ServerLifecycleProofs` | `ServerLifecycle` | `LifecycleInvariance`, types, `ClosedMeansStopped`, `CalledMeansClosed`, `NoReadyAfterClose` |
| `HttpRequestProofs` | `HttpRequest` | `RequestInvariance`, `EndedOnce`, `TimersOnlyWhileOpen` |
| `TransportsProofs` | `InMemDuplex`, `Http2Streams` | `IInv`, `BackPressure`, `OneCallback`, `IsChannel` (the refinement), `Http2CountExact`, `Http2ServerToldOnce` |
| `ClientSubsProofs` | `ClientSubs` | `CalledOnlyWanted`, `MapsAgree` |
| `AccessPolicyProofs` | `AccessPolicy` | `RightsKept`, `ClaimsKept` |
| `LimitsProofs` | the four limits | `PublicationsCounted`, `SubscriptionsCounted`, `ConnectionsCounted`, `OnlyLimitRefuses`, `PublishedWithinLimits` |
| `FlowProofs` | `Pipeline`, `ReadFrame`, `Schedule`, `Timeout`, `Backoff`, `Full` | `DefaultLast`, `FrameKept`, `ExpiryOnTime`, `FlowControlled` |

All hold for every value of the constants that satisfies the module's assumption
(`ConnectionsAssumption`, `LifecycleAssumption`, `LimitsAssumption` and so on), which
say no more than that numbers are natural numbers, sets sets of the right things
(finite, where something is counted) and `nobody` no caller. No theorem has a
hypothesis of its own: the definitions that the runs check are the ones that are
proved. Where the code keeps a property only under a condition, the condition is in
the property: `NoPresubscriptions` (tokens subscribe to nothing) in what is said about
the count of subscriptions and their refusal, `nan` (a request has failed without a
number) in what is said about the count, `OwnSockets` (a socket for each
connection) in `CancelledAboveLimit` (section 7). The bounds of `Schedule`
(`MaxTime`), `ReadFrame` (`Total`), `ClientSubs` (`Programs`), `InMemDuplex` (`Uses`)
and the like are constants, so the theorems hold for each of them.

*Modules of several components.* `TransportsProofs`, `LimitsProofs` and `FlowProofs`
prove each component correct by itself: lemmas such as `FrameCorrect` are about the
specification of one instance, `Frame!Spec`. `EachTransport`, `EachLimit` and
`EachPart` say that a behaviour of the module is one of every component, and the
theorems follow. TLAPS takes `Cardinality` and `IsFiniteSet` as an instance sees them
for operators of their own; lemmas such as `ActivePubsSets` say, from the
definitions, that they are those of `FiniteSets`.

*Connections.* The safety properties are not inductive one by one.
`RevocationNotMissed` says what protects a handshake: its revision is current, or a
change event that names another one is on its way, or it is the handshake whose key
is being read and the read will differ. That the event reaches the connection needs
the index to be exact (`IndexExact`); that a newer revision has an event with a
*different* one needs that no handshake is newer than its key (`NotNewer`); that the
handshake being read is the last one registered, and is registered at all, is
`PhaseFacts`. `SweptAllDestroyed` needs `CloseOrder` (a sweep follows `_closing`, so
later connections are refused) and, with `ClosedMeansEmpty`, that a connection
registers only while the server is not closing. `IInv` is the conjunction; the run
`connections_pair` checks it too. The proof has a lemma per action (`...Step`),
lemmas for what an action leaves alone (`...Kept`), `DstroyedFacts` and
`UnindexedExact` for the two helpers that the argument rests on, and `NextStep` that
combines them.

*ServerLifecycle.* `ClosedMeansStopped` needs the order in which a start and a close
go on: transports start one at a time and those after the current one are untouched
(`StartInOrder`); a close runs only on a server whose start is over, from the end of
its transports on none of them is up, and `'close'` comes at its end
(`CloseInOrder`). `CalledMeansClosed` needs to know who owns a close (`Owned`: who
is stored in `_close_cb` or waits in `_close` has set `_closing`, and without an
owner the start has failed) and that only those who called are answered, none of
them waiting for a server that has closed (`Answers`).

*InMemDuplex.* Back-pressure is inductive only with the fact that a side at its mark
holds the other's callback, and this only if there is exactly one callback for each
`_write` (`OneCallback`). The refinement rests on `InTransit` (what was read, what is
buffered and what is still to be written are together what was sent, in order; it
can be lost only by a side that is destroyed) and `EndLast` (an end is pushed after
all was written). `ReadNext` and `EndComplete` derive from these the guards of
`Channel!Read` and `Channel!ReadEnd`, `Hidden` and `Destroys` the other steps, and
`StepChannel` combines them.

*HttpRequest.* What most actors do ends in `done`, so the proof has one lemma for
what a call of it does (`DoneStep`, from `DoneEffect` and `Besides`) and a step for
each action. The timeout after a 503 is not armed on a socket that is gone for good
because the close of the response is still to be heard (`CloseHeard`); the interval
runs only where `done` listens for that close and the stream has its head
(`Streaming`); a request that is not served has no connection, so no second call of
`done` reaches it (`Unserved`).

*Http2Streams.* A stream that is open has emitted nothing yet, one that has not
arrived is not counted, and only connections are watched (`TakenOnce`). `FallStep`
is what every end of streams, by a session or by the transport, does.

*ClientSubs.* A message calls the handlers of live wrappers that the client has for its
topic. `CalledOnlyWanted` is inductive only together with what answers will bring:
`Answerable` says that the handler of every live wrapper which the client has for a
topic, or which is in a request under way (`Within`), is one that the calls ask for or
that was overtaken (`Asked`). A call for a topic as a whole takes what the client has
out of the maps, and what then is live is under way, hence `overtaken`. `WrapperUnique`
gives each wrapper one place. All this holds whatever overlaps or fails. `MapsAgree`
is about a program that makes one call after the other, and needs to know what is under way in between (`Orderly`): at most one
request (`Lone`), whose topic has its live wrappers in the request or is about to
lose all (`Awaiting`), while every other topic of the client holds its live wrappers
and no more (`Agreed`).

*AccessPolicy.* The invariant says what both maps of claims hold of the tokens
processed so far: for each prefix the last claim among them (`ClaimsOf`,
`StandsAmong`); that access control and the client were given what is made of all of
them (`Given`); and what has been published (`Announced`). When all are processed, the
last claim so far is the last of all (`AllStand`), which gives `ClaimsKept`. `Isolation` and
`OrderIrrelevant` then are facts about `PolicyOf`: merging is a union of what each
token says, so a restriction to an issuer's tokens keeps the topics with its prefix,
and reversing keeps the union; the single flag is a disjunction.

*Limits.* Publications: the armed decrements are those of the active publications.
Subscriptions: what follows is kept as long as the count is a number (`Counted`), while
what is known of the requests themselves is kept for ever (`Sound`). `CountExact` and `CountCovers` are kept because what a request moves
enters `Made` or `Removed` as it enters or leaves the subscriptions, and leaves them
as the count moves. `ExcessBounded` is not inductive: a request that is tested but
not performed counts too. `Bounded` takes the subscriptions together with those
asked for; when a request is accepted the count is below the limit, and all that is
not in the count belongs to other requests, at most one subscription each
(`Sound`). Connections: the count is the number of listeners that have not been
called, and whatever is live has one. `LimitConn`: what passed was counted, and a
publication fails only once more than the limit was counted, so none passes after.

*Pipeline.* What was visited by an event is `1..n` with `n` the index that its `next`
has captured (`Passed`); the default handler has it when this is the number of handlers.

*ReadFrame.* A byte is its position, and the invariant (`BytesHeld`) says that what
the buffer and the stream hold runs up to the last byte that came, and, until
something was called back, from the first. The loop that goes on after an error may
call back again, but only after a first result, which `authz_ended` keeps
(`ResultCounts`).

*Schedule.* The timer that calls `f` is set only when the time has come, and the
number the holder knows is that of the timer set last. `WakesSeldom` needs that as
long as the timer that is set ends before the time asked for, every timer so far
has waited `MaxDelay`; then one more may be shorter, and one calls `f`.

*Timeout, Backoff, Full.* A timer that is set belongs to something under way. A
connection whose flag stands, or with a response held, has its carrier at its mark
(`Carrier`), and a message that is given has been handed to no connection it is
still to be handed to (`Handed`). The flag of `full` follows by itself.

Only model-checked: liveness (`RevocationEnforced`, `ExpiryEnforced`,
`CloseCompletes`, `CloseAnswered`, `FailedStartCloses`, `PatientReleased`, `Answered`,
`TransportsSettle`, `TimersEnd`, `HeldReleased`), which needs fairness and is out of
the prover's reach, and the five violations of section 6.

## 5. Properties

Each is stated in words above its definition. Those of a module of several components
are conjunctions, one for each question, of the properties stated in the components:
`PublicationsCounted`, `SubscriptionsCounted`, `ConnectionsCounted`,
`OnlyLimitRefuses`, `PublishedWithinLimits` (`Limits`); `FrameKept`, `ExpiryOnTime`,
`TimersEnd`, `FlowControlled`, `HeldReleased` (`Flow`); `Http2CountExact`,
`Http2ServerToldOnce`, `TransportsSettle` (`Transports`). `ExpiryOnTime` bounds
the timers of a chain by a product (`WakesSeldom`), as all of them but two wait as
long as a timer can. `CloseAnswered` of
`ServerLifecycle` joins what early and started closes are owed.

Where a property says less than one would like, the reason is in section 6 or 7:
`CalledMeansClosed` is about closes that do not fail (a failing one passes its error
with the continuation, before the server has closed), and `CloseAnswered` about closes
that the first caller does not abandon; `PatientReleased` is about clients that were
there when they were authorized, and, like `Answered`, about requests none of whose
events went out before the head; `SubscriptionsCounted` holds until a request fails
without a number, and its `CountExact` until a connection closes; `CalledOnlyWanted`
excepts handlers that are `overtaken`; `SubscriptionsAgree` is about topics without
`${self}`.

## 6. Findings

* **A close after a failed start is never answered** (`server.js` 990-997,
  1143-1148). The failed start closes the server without setting `_closing`;
  `close(cb)` then stores `cb` in `_close_cb`, which nobody reads any more. In the
  counterexample of `lifecycle_unanswered_close` the server has closed and
  emitted `'close'` and the caller still waits.
* **A transport that fails to listen leaves the start, and every close,
  hanging** (`tcp.js` 60-88, `server.js` 988-997): `'error'` is emitted, `ready`
  is never called, so `transports_started` never runs. `lifecycle_listen_failure`.
* **Connections are registered after `'close'`** when the close was that of a
  failed start, since `transport_connected` looks at `_closing` only
  (`server.js` 423). The test `connect-after-close.js` covers a close by
  `close`. `lifecycle_connect_after_close`. The same behaviour goes on: such a
  connection's close emits `'empty'`, whose listener from the close is still
  there, and `'close'` is emitted a second time.
* **A request whose client goes during the authorization leaves its in-memory
  connection open** (`http.js` 354-376): the callback of `authorize` does not look
  at `closed`, and the events that would call `done` are over.
  `http_request_early_abort`.
* **Events may go out before the head that announces them** (`http.js` 440, 515-530):
  the handler of the messages writes as soon as the first of several topics is
  subscribed to, and the head with `text/event-stream` is written when all are. Node
  then sends a head of its own. Afterwards `writeHead` throws and the response is
  ended (289-295), while `left` stays open, as `done` was told to write headers only;
  or, if the request fails, `setHeader` throws (269), the outer `catch` returns
  (296-300) and the response is never ended. `http_request_early_events`.

## 7. Observations

Behaviour that the models keep, that no document of the repository rules out and
that a maintainer may want to know:

* `limit_active_subscriptions` tests when a request arrives and adds when it is
  answered (`limit_active.js` 26, 35): requests under way together exceed the limit,
  by less than their number (`ExcessBounded`).
* It never subtracts for a connection that closes with subscriptions, so the count
  stays too high, and the subscriptions that tokens make (`server.js` 713) are not
  counted, while unsubscribing from them is: `CountCovers` holds for connections
  without such subscriptions.
* `limit_active_connections` on HTTP counts requests and subtracts when their socket
  closes (`limit_active.js` 119, `http.js` 335-342): requests of a socket that is
  kept alive stay in the count. The limit is kept, but a connection may be cancelled
  below it.
* When the keystore or a transport fails to close, the first caller gets the error and
  a continuation (`server.js` 1021-1025, 1095-1098, 1250-1258), but the documentation
  of `close` knows the error only (1125). If that caller ignores the continuation, the
  server never closes, and later callers, who wait for `'close'`, are never called
  back.
* A request that fails with an error and no number makes the count of
  `limit_active_subscriptions` `NaN` (`limit_active.js` 33-36, 42-45, 51-54): the sum is
  taken whatever the error is. No limit applies any more, to any connection.
* `unsubscribe(topic)`, and that of a token, take what the client knows of the topic; a
  handler whose `subscribe` is still under way is not among it (`client.js` 307-316),
  and is subscribed when the answer comes.
* A presence claim replaces one of an earlier token with the same issuer
  (`server.js` 560); tokens of two keys can have one issuer.
* A client replaces nothing in the subscriptions it is sent, the server replaces
  `${self}` (`client.js` 169, `server.js` 713): they disagree on such topics.
* Calls of a client that overlap may leave a wrapper that is no longer its handler's;
  it calls nobody, and a message meant for a single handler that is given to it is
  lost. `NoStaleWrapper` holds for clients that make one call after the other.
* `read_frame` may call back twice (an error, and another frame or the end);
  `authz_ended` makes the second harmless (`HandledOnce`).
* `disallow_single` in one issuer's token holds for the topics of all.
* `full` may be emitted by the mux after the streams have gone; the flag then stays
  until another stream ends, and delays messages for everybody (`MessagesLeave`).
* A change event of an older revision that is delivered late destroys a connection
  whose token is current (`server.js` 206).

## 8. Not modelled

* **Libraries**: mqlobber, qlobber-fsq, mqlobber-access-control, authorize-jwt,
  bpmux, Node's streams appear only through what `src/lib` relies on. In particular:
  topics match by equality; the chained filters of `backoff` and `full` share wu's
  one-shot iterator in a way that depends on how often qlobber-fsq iterates, and each
  is modelled alone.
* **Throttle, `close_conn_on_error`, `limit_transport`, `filter`,
  `timeout_http_publish_requests`**:
  wrappers that hand an option to a library and keep no state.
* **TCP and Primus**: what the server relies on is in `Connections` and
  `ServerLifecycle`; the rest is option handling and I/O.
* **Client**: `publish` adds a prefix; `separate_auth` and `stream_auth` send the
  tokens whose reception `ReadFrame` and `Connections` model; `'finished'` exceptions
  of the mqlobber client that end an `unsubscribe` early are left out.
* **Access policy**: `disallow_multi` is merged as `disallow_single` and left out.
* **HTTP**: `onclose` called at once for a socket that is dead already
  (`http.js` 337-340); `LimitActiveConnections` hears of a close later instead.
* **HTTP/2**: for a stream that has gone during the `await`, `HandOver` supposes that
  the library throws and `connected` is not called, while the code may call `connected`,
  whose `onclose` then finds the stream closed (`http2-duplex.js` 38-40, 152-169); a
  `respond` on such a stream throws out of the callback of `authorize`
  (`http2.js` 155-188), which `NotAuthoriz` takes as a plain end.
* **Authorization**: the schema validation of tokens and the test for too many
  privileged ones (`server.js` 341-353) end as `VerifyError` does and have no case of
  their own.
* **Server**: transports with an `authorize` of their own have keystores of their own
  whose change events go to the one index by URI (`server.js` 914); a transport's
  `destroy` that throws (411). Both belong to configurations of which nothing in
  the repository says what should hold.
* **Server and client configuration, topic patterns, entry points**: JSON schemas,
  a regular expression and re-exports, with no behaviour over time.

## 9. Plan

Done: all modules of section 2 and the proofs of section 4. Next, in this order:

1. An abstract specification of `Connections` (live connections whose keys were
   current when they joined, and a server that stops) and the proof that
   `Connections` implements it.
2. `Connections` and `ServerLifecycle` composed, with failing closes.
