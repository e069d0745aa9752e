------------------------------ MODULE Backoff ------------------------------
(***************************************************************************)
(* The backoff extension (backoff.js): while a connection's carrier is     *)
(* over its high-water mark, between a 'backoff' and the next 'drain',     *)
(* responses to its client are held back and messages for it are skipped,  *)
(* or delayed with everybody else's copy.                                  *)
(*                                                                         *)
(* An operator named Bug... is a plausible mistake in the definition that  *)
(* follows it; the specification does not use it.                          *)
(***************************************************************************)
EXTENDS Naturals, FiniteSets

CONSTANTS
  Conns, Messages,
  Mark,        \* high-water mark of a carrier, in writes
  MaxRequests  \* bound on the requests of a client

\* Assumed by who instantiates this module.
BackoffAssumption == {Mark, MaxRequests} \subseteq Nat \ {0}

VARIABLES
  mode,     \* "skip": config.skip_message; "delay": config.delay_message
  open,     \* connections that are open
  asked,    \* requests each client made, each of them answered by the server
  held,     \* responses that wait for 'drain'
  backlog,  \* writes in the carrier of each connection
  over,     \* 'backoff' was emitted, and 'drain' not since
  flag,     \* mqserver.centro_server_extension_backoff
  stage,    \* of a message: "new", "given" to fsq's handlers
  todo,     \* connections a message that is given has still to be handed to
  reached,  \* connections each message was handed to
  skipped   \* connections each message was dropped for

vars == <<open, asked, held, backlog, over, flag, stage, todo, reached, skipped>>
conns == <<open, asked, held, backlog, over, flag>>
messages == <<stage, todo, reached, skipped>>

Init ==
  /\ mode \in {"skip", "delay"}
  /\ open = Conns
  /\ asked = [c \in Conns |-> 0] /\ held = asked /\ backlog = asked
  /\ over = [c \in Conns |-> FALSE] /\ flag = over
  /\ stage = [m \in Messages |-> "new"]
  /\ todo = [m \in Messages |-> {}] /\ reached = todo /\ skipped = todo

(* n writes of handshakes, one after the other: 'backoff' is emitted by    *)
(* each that finds the carrier full, and sets the flag.                    *)
Written(c, from, n, o, f) ==
  LET full == n > 0 /\ from + n >= Mark
  IN /\ backlog' = [backlog EXCEPT ![c] = from + n]
     /\ over' = [over EXCEPT ![c] = o \/ full]
     /\ flag' = [flag EXCEPT ![c] = f \/ full]

(* A response: delay_response looks at the flag when the server answers.   *)
Respond(c) ==
  /\ c \in open /\ asked[c] < MaxRequests
  /\ asked' = [asked EXCEPT ![c] = @ + 1]
  /\ \/ /\ flag[c]
        /\ held' = [held EXCEPT ![c] = @ + 1]
        /\ UNCHANGED <<backlog, over, flag>>
     \/ /\ ~flag[c]
        /\ Written(c, backlog[c], 1, over[c], flag[c])
        /\ UNCHANGED held
  /\ UNCHANGED <<open, messages>>

(* The data of a stream: no event tells when it fills the carrier. *)
Data(c) ==
  /\ c \in open /\ backlog[c] < Mark
  /\ backlog' = [backlog EXCEPT ![c] = @ + 1]
  /\ UNCHANGED <<open, asked, held, over, flag, messages>>

BugReplay(c) ==
  /\ held' = [held EXCEPT ![c] = 0]
  /\ backlog' = [backlog EXCEPT ![c] = held[c]]
  /\ over' = [over EXCEPT ![c] = held[c] >= Mark]
  /\ flag' = [flag EXCEPT ![c] = FALSE]

BugReplayOne(c) ==
  /\ held' = [held EXCEPT ![c] = IF @ = 0 THEN 0 ELSE @ - 1]
  /\ Written(c, 0, IF held[c] = 0 THEN 0 ELSE 1, FALSE, FALSE)

BugReplayKeep(c) ==
  /\ held' = [held EXCEPT ![c] = 0]
  /\ Written(c, 0, held[c], FALSE, flag[c])

(* 'drain': the listener that clears the flag runs first, then those of    *)
(* the responses held, all of them, whatever 'backoff' they bring about.   *)
Replay(c) ==
  /\ held' = [held EXCEPT ![c] = 0]
  /\ Written(c, 0, held[c], FALSE, FALSE)

(* The carrier empties; it emits 'drain' if it was full. *)
Flush(c) ==
  /\ c \in open /\ backlog[c] > 0
  /\ \/ backlog[c] >= Mark /\ Replay(c)
     \/ /\ backlog[c] < Mark
        /\ backlog' = [backlog EXCEPT ![c] = 0]
        /\ UNCHANGED <<held, over, flag>>
  /\ UNCHANGED <<open, asked, messages>>

(* A connection closes: its handler leaves fsq, what is held is forgotten. *)
Close(c) ==
  /\ c \in open
  /\ open' = open \ {c}
  /\ held' = [held EXCEPT ![c] = 0]
  /\ todo' = [m \in Messages |-> todo[m] \ {c}]
  /\ UNCHANGED <<asked, backlog, over, flag, stage, reached, skipped>>

---------------------------------------------------------------------------
Delaying == mode = "delay" /\ \E c \in open : flag[c]

(* fsq asks the filter about a message; a message that is not ready is     *)
(* asked about again.                                                      *)
Filter(m) ==
  /\ stage[m] = "new" /\ ~Delaying
  /\ stage' = [stage EXCEPT ![m] = "given"]
  /\ todo' = [todo EXCEPT ![m] = open]
  /\ UNCHANGED <<conns, reached, skipped>>

BugSkips(m, c) == mode = "skip" /\ \E d \in open : flag[d]

(* wu's filter is lazy: it looks at the flag as fsq comes to the handler.  *)
Skips(m, c) == mode = "skip" /\ flag[c]

(* fsq hands the message to the next handler; mqlobber writes a handshake. *)
Give(m, c) ==
  /\ c \in todo[m]
  /\ todo' = [todo EXCEPT ![m] = @ \ {c}]
  /\ \/ /\ Skips(m, c)
        /\ skipped' = [skipped EXCEPT ![m] = @ \union {c}]
        /\ UNCHANGED <<conns, reached>>
     \/ /\ ~Skips(m, c)
        /\ reached' = [reached EXCEPT ![m] = @ \union {c}]
        /\ Written(c, backlog[c], 1, over[c], flag[c])
        /\ UNCHANGED <<open, asked, held, skipped>>
  /\ UNCHANGED stage

Next ==
  \/ \E c \in Conns : Respond(c) \/ Data(c) \/ Flush(c) \/ Close(c)
  \/ \E m \in Messages : Filter(m) \/ \E c \in Conns : Give(m, c)

Spec == Init /\ [][Next /\ UNCHANGED mode]_<<vars, mode>>

(* Clients read what they are sent, and fsq comes back to its messages.    *)
Delivery ==
  /\ \A c \in Conns : WF_vars(Flush(c))
  /\ \A m \in Messages, c \in Conns : WF_vars(Give(m, c))

FairSpec == Spec /\ Delivery /\ \A m \in Messages : WF_vars(Filter(m))

---------------------------------------------------------------------------
(* Values of the right kind; a response is held only behind a request, and *)
(* only while a 'drain' that will release it is to come.                   *)
TypeOK ==
  /\ open \subseteq Conns
  /\ \A c \in Conns :
       /\ backlog[c] \in Nat /\ asked[c] \in 0..MaxRequests
       /\ held[c] \in 0..asked[c]
       /\ c \in open /\ held[c] > 0 => backlog[c] >= Mark
  /\ \A m \in Messages : reached[m] \intersect skipped[m] = {}

(* The flag stands exactly between a 'backoff' and the 'drain' after it,   *)
(* also when the responses released by that 'drain' fill the carrier again.*)
FlagFollows == \A c \in Conns : flag[c] = over[c]

(* A message is kept from a connection only by that connection's own       *)
(* 'backoff', as it is at that moment.                                     *)
SkippedWhenOver ==
  [][\A m \in Messages : \A c \in skipped'[m] \ skipped[m] : over[c]]_vars

(* What the flag of a connection is, and what it keeps from it.            *)
FlowControlled == [](TypeOK /\ FlagFollows) /\ SkippedWhenOver

(* Every response that is held is sent in the end, unless the connection   *)
(* closes.                                                                 *)
ResponsesReleased == \A c \in Conns : held[c] > 0 ~> held[c] = 0

(* Every message reaches every connection that stays open and that it is   *)
(* not skipped for: a connection that is full delays the others, no longer.*)
MessagesArrive ==
  \A m \in Messages : \A c \in Conns :
    <>(c \in reached[m] \union skipped[m] \/ c \notin open)
=============================================================================
