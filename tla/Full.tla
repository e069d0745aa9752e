-------------------------------- MODULE Full --------------------------------
(***************************************************************************)
(* The full extension (full.js): while a connection has as many streams as *)
(* its mux may have, between 'full' and the next 'removed', messages for   *)
(* it are skipped, or delayed with everybody else's copy.                  *)
(*                                                                         *)
(* The mux (bpmux) says 'full' in a later turn of the loop than the one in *)
(* which it becomes full, and at once when a stream too many is tried.     *)
(*                                                                         *)
(* An operator named Bug... is a plausible mistake in the definition that  *)
(* follows it; the specification does not use it.                          *)
(***************************************************************************)
EXTENDS Naturals, FiniteSets

CONSTANTS
  Conns, Messages,
  MaxOpen,    \* mux's max_open
  MaxStreams  \* bound on the streams a client ever opens

\* Assumed by who instantiates this module.
FullAssumption == {MaxOpen, MaxStreams} \subseteq Nat \ {0}

VARIABLES
  mode,    \* "skip": config.skip_message; "delay": config.delay_message
  opened,  \* streams each client has opened so far
  streams, \* streams open on the mux of each connection
  late,    \* 'full' events of the mux that are still to be emitted
  flag,    \* mqserver.centro_server_extension_full
  missed,  \* connections each message was dropped for
  reached  \* connections each message was handed to

vars == <<opened, streams, late, flag, missed, reached>>

Init ==
  /\ mode \in {"skip", "delay"}
  /\ opened = [c \in Conns |-> 0] /\ streams = opened /\ late = opened
  /\ flag = [c \in Conns |-> FALSE]
  /\ missed = [m \in Messages |-> {}] /\ reached = missed

AtLimit(c) == streams[c] = MaxOpen

(* One more stream: the mux is full with the last of them. *)
Added(c) ==
  /\ streams' = [streams EXCEPT ![c] = @ + 1]
  /\ late' = [late EXCEPT ![c] = IF streams'[c] = MaxOpen THEN @ + 1 ELSE @]

(* The client opens a stream, for a request or a publication. *)
Open(c) ==
  /\ opened[c] < MaxStreams
  /\ opened' = [opened EXCEPT ![c] = @ + 1]
  /\ \/ ~AtLimit(c) /\ Added(c) /\ UNCHANGED flag
     \/ AtLimit(c) /\ flag' = [flag EXCEPT ![c] = TRUE] /\ UNCHANGED <<streams, late>>
  /\ UNCHANGED <<missed, reached>>

BugOnFull(c) == flag' = [flag EXCEPT ![c] = ~AtLimit(c)]
OnFull(c) == flag' = [flag EXCEPT ![c] = TRUE]

LateFull(c) ==
  /\ late[c] > 0
  /\ late' = [late EXCEPT ![c] = @ - 1]
  /\ OnFull(c)
  /\ UNCHANGED <<opened, streams, missed, reached>>

BugOnRemoved(c) == UNCHANGED flag
OnRemoved(c) == flag' = [flag EXCEPT ![c] = FALSE]

(* A stream has ended on both sides. *)
Removed(c) ==
  /\ streams[c] > 0
  /\ streams' = [streams EXCEPT ![c] = @ - 1]
  /\ OnRemoved(c)
  /\ UNCHANGED <<opened, late, missed, reached>>

Waits(m) == reached[m] = {} /\ missed[m] = {}

BugReady(m) == \A c \in Conns : flag[c]

(* What the filter answers fsq, which asks again about a message delayed.  *)
Ready(m) == mode = "delay" => \A c \in Conns : ~flag[c]

Skipped == {c \in Conns : mode = "skip" /\ flag[c]}

(* A message is handed out, a stream to each connection.  A mux that is    *)
(* full already refuses the stream and says 'full'.                        *)
Message(m) ==
  /\ Waits(m) /\ Ready(m)
  /\ missed' = [missed EXCEPT ![m] = Skipped \union {c \in Conns : AtLimit(c)}]
  /\ reached' = [reached EXCEPT ![m] = Conns \ missed'[m]]
  /\ streams' = [c \in Conns |-> streams[c] + IF c \in reached'[m] THEN 1 ELSE 0]
  /\ late' = [c \in Conns |->
       late[c] + IF c \in reached'[m] /\ streams'[c] = MaxOpen THEN 1 ELSE 0]
  /\ flag' = [c \in Conns |-> flag[c] \/ (c \notin Skipped /\ AtLimit(c))]
  /\ UNCHANGED opened

Next ==
  \/ \E c \in Conns : Open(c) \/ LateFull(c) \/ Removed(c)
  \/ \E m \in Messages : Message(m)

Spec == Init /\ [][Next /\ UNCHANGED mode]_<<vars, mode>>

(* Streams end, turns of the loop come, fsq asks again.                    *)
Delivery == \A c \in Conns : WF_vars(Removed(c)) /\ WF_vars(LateFull(c))

FairSpec == Spec /\ Delivery /\ \A m \in Messages : WF_vars(Message(m))

---------------------------------------------------------------------------
(* Values of the right kind; no mux has more streams than it may.          *)
TypeOK ==
  /\ \A c \in Conns :
       /\ streams[c] \in 0..MaxOpen
       /\ late[c] \in Nat /\ flag[c] \in BOOLEAN
  /\ \A m \in Messages : reached[m] \intersect missed[m] = {}

(* A connection that is full has its flag once its mux has said so: no     *)
(* earlier 'removed' can take away a 'full' that came after it.            *)
FullKnown == \A c \in Conns : AtLimit(c) /\ late[c] = 0 => flag[c]

(* What the flag of a connection is. *)
FlowControlled == [](TypeOK /\ FullKnown)

(* A message is handed out in the end, unless some connection was left     *)
(* with its flag and without a stream: a 'full' emitted late, after the    *)
(* streams had gone, which only another stream's 'removed' would clear.    *)
MessagesLeave ==
  \A m \in Messages :
    Waits(m) ~> ~Waits(m) \/ \E c \in Conns : flag[c] /\ streams[c] = 0

(* With streams open, the flag is cleared by the first that ends.          *)
FlagClears ==
  \A c \in Conns : flag[c] /\ streams[c] > 0 ~> ~flag[c]
=============================================================================
