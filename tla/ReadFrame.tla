----------------------------- MODULE ReadFrame -----------------------------
(***************************************************************************)
(* read_frame (server.js): the first frame of a connection holds its       *)
(* tokens, and what comes after it belongs to whoever reads the stream     *)
(* next.  A byte is its position in what the peer sends, so that a slice   *)
(* in the wrong place shows; of the frame only its length matters.         *)
(*                                                                         *)
(* An operator named Bug... is a plausible mistake in the definition that  *)
(* follows it; the specification does not use it.                          *)
(***************************************************************************)
EXTENDS Integers, Sequences

CONSTANTS
  HeaderSize, \* in_stream.opts.lengthSize
  BodySizes,  \* the lengths the header may give
  MaxSize,    \* config.maxSize
  Total,      \* bytes the peer ever sends
  Sync        \* a read of the stream may bring more data in the same call

\* Assumed by who instantiates this module.
ReadFrameAssumption ==
  /\ HeaderSize \in Nat \ {0}
  /\ BodySizes \subseteq Nat /\ {MaxSize, Total} \subseteq Nat
  /\ Sync \in BOOLEAN

VARIABLES
  body,        \* the length the header gives, chosen in the initial state
  sent,        \* bytes that have arrived
  stream,      \* bytes the stream holds, first to be read first
  state,       \* of the stream: "open", "ending", "ended", "closed"
  listening,   \* read_frame has its listeners on the stream
  looping,     \* onread is in its loop
  buffer,      \* in_stream.buffer
  frameLength, \* in_stream.frameLength: -1 until a header has been read
  results,     \* what read_frame called back with, in turn
  handled      \* what the authorization took notice of: got_tokens

vars == <<sent, stream, state, listening, looping, buffer, frameLength, results, handled>>

Init ==
  /\ body \in BodySizes
  /\ sent = 0 /\ stream = <<>> /\ state = "open"
  /\ listening = TRUE /\ looping = FALSE
  /\ buffer = <<>> /\ frameLength = -1
  /\ results = <<>> /\ handled = <<>>

NoBytes == <<>>
Error(what) == [error |-> what, bytes |-> NoBytes]
Frame(bytes) == [error |-> "none", bytes |-> bytes]

BugGotTokens(r) == handled' = Append(handled, r)

(* got_tokens: only the first result counts (authz_ended).                 *)
GotTokens(r) == handled' = IF handled = <<>> THEN <<r>> ELSE handled

CallBack(r) ==
  /\ results' = Append(results, r)
  /\ GotTokens(r)

---------------------------------------------------------------------------
(* The peer sends, ends the stream, or the connection closes.              *)
Arrive ==
  /\ state = "open" /\ sent < Total
  /\ looping => Sync
  /\ \E n \in 1..(Total - sent) :
       /\ sent' = sent + n
       /\ stream' = stream \o [i \in 1..n |-> sent + i]
  /\ UNCHANGED <<state, listening, looping, buffer, frameLength, results, handled>>

Finish ==
  /\ state = "open" /\ ~looping
  /\ state' = "ending"
  /\ UNCHANGED <<sent, stream, listening, looping, buffer, frameLength, results, handled>>

(* end(), for whichever of 'end' and 'close' comes first.                  *)
Ended ==
  \/ /\ listening
     /\ listening' = FALSE
     /\ CallBack(Error("ended before frame"))
  \/ /\ ~listening
     /\ UNCHANGED <<listening, results, handled>>

(* 'end' is emitted once all bytes have been read.                         *)
OnEnd ==
  /\ state = "ending" /\ stream = <<>> /\ ~looping
  /\ state' = "ended"
  /\ Ended
  /\ UNCHANGED <<sent, stream, looping, buffer, frameLength>>

OnClose ==
  /\ state # "closed" /\ ~looping
  /\ state' = "closed"
  /\ stream' = <<>>
  /\ Ended
  /\ UNCHANGED <<sent, looping, buffer, frameLength>>

---------------------------------------------------------------------------
BugRest(old, data) == data

(* What was read and is not decoded: the bytes kept from before, and these.*)
Rest(old, data) == old \o data

FrameEnd == HeaderSize + body

(* The decoder (frame-stream): a frame, an error, or more bytes wanted.  A *)
(* header that was refused counts as read when decoding goes on.           *)
TooLarge(chunk) ==
  frameLength < 0 /\ Len(chunk) >= HeaderSize /\ MaxSize > 0 /\ body > MaxSize

Complete(chunk) == ~TooLarge(chunk) /\ Len(chunk) >= FrameEnd

Wanting(chunk) == ~TooLarge(chunk) /\ Len(chunk) < FrameEnd

Decoded(chunk) ==
  frameLength' = IF Len(chunk) < HeaderSize THEN frameLength ELSE body

(* onread: one turn of its loop. *)
ReadFrameOut(chunk, data) ==
  /\ Complete(chunk)
  /\ listening' = FALSE /\ looping' = FALSE
  /\ buffer' = <<>> /\ frameLength' = -1
  /\ LET rest == Rest(buffer, data)
     IN stream' = SubSeq(rest, FrameEnd + 1, Len(rest))
  /\ CallBack(Frame(SubSeq(chunk, HeaderSize + 1, FrameEnd)))

(* After an error the loop goes on with whatever can still be read.        *)
ReadError(chunk) ==
  /\ TooLarge(chunk)
  /\ listening' = FALSE /\ looping' = TRUE
  /\ stream' = <<>> /\ buffer' = <<>>
  /\ Decoded(chunk)
  /\ CallBack(Error("too large"))

BugReadMore(chunk) ==
  /\ Wanting(chunk)
  /\ looping' = TRUE
  /\ stream' = <<>> /\ buffer' = stream
  /\ Decoded(chunk)
  /\ UNCHANGED <<listening, results, handled>>

ReadMore(chunk) ==
  /\ Wanting(chunk)
  /\ looping' = TRUE
  /\ stream' = <<>> /\ buffer' = chunk
  /\ Decoded(chunk)
  /\ UNCHANGED <<listening, results, handled>>

Read ==
  /\ listening \/ looping
  /\ stream # <<>>
  /\ LET chunk == buffer \o stream
     IN ReadFrameOut(chunk, stream) \/ ReadError(chunk) \/ ReadMore(chunk)
  /\ UNCHANGED <<sent, state>>

(* There is nothing more to read in this turn.                             *)
ReadNull ==
  /\ looping /\ stream = <<>>
  /\ looping' = FALSE
  /\ UNCHANGED <<sent, stream, state, listening, buffer, frameLength, results, handled>>

Next == Arrive \/ Finish \/ OnEnd \/ OnClose \/ Read \/ ReadNull

Spec == Init /\ [][Next /\ UNCHANGED body]_<<vars, body>>

(* The loop of the program runs.  The peer need not do anything.           *)
Fairness == WF_vars(OnEnd) /\ WF_vars(Read) /\ WF_vars(ReadNull)

FairSpec == Spec /\ Fairness

---------------------------------------------------------------------------
Bytes == [i \in 1..Total |-> i]

(* Values of the right kind; the stream holds bytes as they were sent.     *)
TypeOK ==
  /\ sent \in 0..Total
  /\ Len(buffer) + Len(stream) <= sent
  /\ \A i \in DOMAIN stream : stream[i] = sent - Len(stream) + i
  /\ state \in {"open", "ending", "ended", "closed"}

(* Authorization hears of one result, even when the loop that goes on      *)
(* after an error finds something it takes for a frame.                    *)
HandledOnce == Len(handled) <= 1

(* A frame that counts is the one the peer sent, whatever pieces it came   *)
(* in.                                                                     *)
FrameRight ==
  \A i \in DOMAIN handled : handled[i].error = "none" =>
    handled[i].bytes = SubSeq(Bytes, HeaderSize + 1, FrameEnd)

(* After a frame that counts, the next reader gets the bytes that follow   *)
(* it: none is lost and none is seen twice.                                *)
RestKept ==
  handled # <<>> /\ handled[1].error = "none" /\ state # "closed" =>
    stream = SubSeq(Bytes, FrameEnd + 1, sent)

(* What the authorization and the next reader get of the stream.           *)
FrameKept == TypeOK /\ HandledOnce /\ FrameRight /\ RestKept

(* The authorization is told something in the end when the stream ends or  *)
(* closes and when a whole frame, or a header that is refused, is there.   *)
Told ==
  /\ state \in {"ending", "closed"} ~> handled # <<>>
  /\ sent >= FrameEnd ~> handled # <<>>
=============================================================================
