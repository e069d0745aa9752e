-------------------------------- MODULE Flow --------------------------------
(***************************************************************************)
(* What is under way on a connection: the handlers an event goes through,  *)
(* its first frame, the timers of its tokens, the timeouts of streams, and *)
(* the flow control of the backoff and full extensions.  They share no     *)
(* state: a behaviour is about one part, and the others stay as they begin.*)
(***************************************************************************)
EXTENDS Pipeline

CONSTANTS
  HeaderSize, BodySizes, MaxSize, Total, Sync,
  MaxDelay, MaxTime,
  Pubs, Clients,
  Conns, Messages, Mark, MaxRequests, MaxOpen, MaxStreams

VARIABLES
  part,
  body, sent, f_stream, f_state, listening, looping, buffer, frameLength, results, handled,
  now, t, due, last, handle, number, fired, cancelled,
  pub, timer, copy, clock, t_stream,
  mode, open, asked, held, backlog, over, b_flag, stage, todo, b_reached, skipped,
  opened, streams, late, f_flag, missed, f_reached

frame_vars ==
  <<sent, f_stream, f_state, listening, looping, buffer, frameLength, results, handled>>
schedule_vars == <<now, t, due, last, handle, number, fired, cancelled>>
timeout_vars == <<pub, timer, copy, clock, t_stream>>
backoff_vars ==
  <<open, asked, held, backlog, over, b_flag, stage, todo, b_reached, skipped>>
full_vars == <<opened, streams, late, f_flag, missed, f_reached>>

Frame == INSTANCE ReadFrame WITH stream <- f_stream, state <- f_state
Expiry == INSTANCE Schedule
Streams == INSTANCE Timeout WITH stream <- t_stream
Backpressure == INSTANCE Backoff WITH flag <- b_flag, reached <- b_reached
MuxLimit == INSTANCE Full WITH flag <- f_flag, reached <- f_reached

ASSUME FlowAssumption ==
  /\ Frame!ReadFrameAssumption /\ Expiry!ScheduleAssumption
  /\ Backpressure!BackoffAssumption /\ MuxLimit!FullAssumption

AnyBody == CHOOSE n \in BodySizes : TRUE

FlowInit ==
  /\ part \in {"pipeline", "frame", "schedule", "timeout", "backoff", "full"}
  /\ Init /\ Frame!Init /\ Expiry!Init /\ Streams!Init /\ Backpressure!Init /\ MuxLimit!Init
  /\ part # "frame" => body = AnyBody
  /\ part # "schedule" => now = 0 /\ t = 0
  /\ part \notin {"backoff", "full"} => mode = "skip"

FlowNext ==
  /\ UNCHANGED <<part, body, mode>>
  /\ part # "pipeline" => UNCHANGED vars
  /\ part # "frame" => UNCHANGED frame_vars
  /\ part # "schedule" => UNCHANGED schedule_vars
  /\ part # "timeout" => UNCHANGED timeout_vars
  /\ part # "backoff" => UNCHANGED backoff_vars
  /\ part # "full" => UNCHANGED full_vars
  /\ \/ part = "pipeline" /\ Next
     \/ part = "frame" /\ Frame!Next
     \/ part = "schedule" /\ Expiry!Next
     \/ part = "timeout" /\ Streams!Next
     \/ part = "backoff" /\ Backpressure!Next
     \/ part = "full" /\ MuxLimit!Next

flow_vars ==
  <<part, body, mode, vars, frame_vars, schedule_vars, timeout_vars, backoff_vars, full_vars>>

\* The fairness of each part, which requires nothing of one that stays as it
\* begins.
FlowFairness ==
  /\ WF_frame_vars(part = "frame" /\ Frame!Read)
  /\ WF_frame_vars(Frame!OnEnd) /\ WF_frame_vars(Frame!ReadNull)
  /\ WF_schedule_vars(part = "schedule" /\ Expiry!Ask)
  /\ WF_schedule_vars(part = "schedule" /\ Expiry!Tick)
  /\ WF_schedule_vars(Expiry!Fire)
  /\ Streams!Fairness
  /\ Backpressure!Delivery
  /\ \A m \in Messages : WF_backoff_vars(part = "backoff" /\ Backpressure!Filter(m))
  /\ MuxLimit!Delivery
  /\ \A m \in Messages : WF_full_vars(part = "full" /\ MuxLimit!Message(m))

FlowSpec == FlowInit /\ [][FlowNext]_flow_vars /\ FlowFairness

---------------------------------------------------------------------------
(* read_frame: the authorization hears of one result, even when the loop   *)
(* goes on after an error; a frame that counts is the one that was sent,   *)
(* and the next reader gets exactly the bytes after it.                    *)
FrameKept == Frame!FrameKept

(* schedule: f is never called before its time, nor after the timer that   *)
(* is known was cleared, and the chain wakes no more often than it needs.  *)
ExpiryOnTime == Expiry!ExpiryOnTime

(* What a timer or an end is there for comes about: the authorization is   *)
(* told of a frame, an error or the end, f is called unless its timer is   *)
(* cleared, a publication is answered and no copy of a message stays half  *)
(* read for ever.                                                          *)
TimersEnd ==
  /\ Frame!Told
  /\ (part = "schedule" => Expiry!Fires)
  /\ Streams!PublicationsAnswered /\ Streams!CopiesEnd

(* backoff and full: a connection has its flag while it is full, as far as *)
(* its mux has said so, and only its own backoff keeps a message from it.  *)
(* timeout: a stream gets an error only for a client that is late.         *)
FlowControlled ==
  Backpressure!FlowControlled /\ MuxLimit!FlowControlled /\ Streams!FlowControlled

(* backoff and full: a response that is held goes out or its connection    *)
(* closes; a message that waits for one connection reaches the others and, *)
(* if it stays, that one; and a mux with streams clears its flag.          *)
HeldReleased ==
  /\ Backpressure!ResponsesReleased
  /\ (part = "backoff" => Backpressure!MessagesArrive)
  /\ MuxLimit!FlagClears
  /\ (part = "full" => MuxLimit!MessagesLeave)
=============================================================================
