----------------------------- MODULE FlowProofs -----------------------------
(***************************************************************************)
(* Proofs about what is under way on a connection: the handlers an event   *)
(* goes through, the first frame, the timers of tokens and of streams, and *)
(* the flow control of the backoff and full extensions, for all sizes,     *)
(* times and limits.                                                       *)
(*                                                                         *)
(* Each part is proved correct by itself; the specification that holds     *)
(* them all implies the one of each.                                       *)
(***************************************************************************)
EXTENDS Flow, SequenceTheorems, TLAPS

(* An event that has not been emitted has gone through nothing, and an      *)
(* event has gone through the handlers 1, 2, ... up to some number of them, *)
(* which are all attached; the next function of the last of them counts     *)
(* from there.                                                              *)
Passed(e) ==
  /\ visited[e] \in Seq(Nat)
  /\ Len(visited[e]) <= handlers
  /\ \A i \in 1..Len(visited[e]) : visited[e][i] = i
  /\ position[e] = Len(visited[e])
  /\ status[e] = Idle => visited[e] = <<>>

PipelineIInv ==
  /\ handlers \in Nat
  /\ visited \in [Events -> Seq(Nat)]
  /\ position \in [Events -> Nat]
  /\ status \in [Events -> {Idle, Held, Dropped, Handled}]
  /\ \A e \in Events : Passed(e)

(* A handler further down the list is attached when the list has not ended. *)
LEMMA CallStep ==
  ASSUME PipelineIInv, NEW e \in Events, Call(e, position[e]), handlers' = handlers
  PROVE  PipelineIInv'
<1> USE DEF PipelineIInv
<1>1. CASE AtEnd(position[e])
  <2>1. visited' = visited /\ position' = position /\ status' = [status EXCEPT ![e] = Handled]
    BY <1>1 DEF Call
  <2>2. ASSUME NEW d \in Events PROVE Passed(d)'
    BY <2>1 DEF Passed, Idle, Handled
  <2> QED
    BY <2>1, <2>2 DEF Handled
<1>2. CASE ~AtEnd(position[e])
  <2> DEFINE n == Len(visited[e])
  <2>1. /\ status' = [status EXCEPT ![e] = Held]
        /\ visited' = [visited EXCEPT ![e] = Append(@, n + 1)]
        /\ position' = [position EXCEPT ![e] = n + 1]
    BY <1>2 DEF Call, Passed
  <2>2. Passed(e) /\ n \in Nat /\ n + 1 <= handlers
    BY <1>2 DEF Passed, AtEnd
  <2>3. visited'[e] = Append(visited[e], n + 1)
    BY <2>1
  <2>4. /\ visited'[e] \in Seq(Nat)
        /\ Len(visited'[e]) = n + 1
        /\ \A i \in 1..Len(visited'[e]) : visited'[e][i] = i
    <3>1. visited[e] \in Seq(Nat) /\ \A i \in 1..n : visited[e][i] = i
      BY <2>2 DEF Passed
    <3> QED
      BY <2>2, <2>3, <3>1
  <2>5. ASSUME NEW d \in Events PROVE Passed(d)'
    <3>1. CASE d = e
      BY <2>1, <2>2, <2>4, <3>1 DEF Passed, Idle, Held
    <3>2. CASE d # e
      BY <2>1, <3>2 DEF Passed
    <3> QED
      BY <3>1, <3>2
  <2>6. visited' \in [Events -> Seq(Nat)] /\ position' \in [Events -> Nat]
    BY <2>1, <2>2
  <2> QED
    BY <2>1, <2>5, <2>6 DEF Held
<1> QED
  BY <1>1, <1>2

(* Emission calls next(0), where an event that is idle has its place. *)
LEMMA EmitCalls ==
  ASSUME PipelineIInv, NEW e \in Events, Emit(e)
  PROVE  Call(e, position[e]) /\ handlers' = handlers
<1>1. position[e] = 0
  BY DEF Emit, PipelineIInv, Passed
<1> QED
  BY <1>1 DEF Emit

(* The invariant holds initially. *)
LEMMA PipelineInit == Init => PipelineIInv
  BY PipelineAssumption DEF Init, PipelineIInv, Passed, Idle

(* Every step keeps the invariant. *)
LEMMA PipelineNext == PipelineIInv /\ [Next]_vars => PipelineIInv'
<1> SUFFICES ASSUME PipelineIInv, [Next]_vars PROVE PipelineIInv'
  OBVIOUS
<1>1. CASE Attach
  BY <1>1 DEF Attach, PipelineIInv, Passed
<1>2. ASSUME NEW e \in Events, Emit(e) PROVE PipelineIInv'
  BY <1>2, EmitCalls, CallStep
<1>3. ASSUME NEW e \in Events, CallNext(e) PROVE PipelineIInv'
  BY <1>3, CallStep DEF CallNext
<1>4. ASSUME NEW e \in Events, Drop(e) PROVE PipelineIInv'
  BY <1>4 DEF Drop, PipelineIInv, Passed, Idle, Held, Dropped
<1>5. CASE UNCHANGED vars
  BY <1>5 DEF vars, PipelineIInv, Passed
<1> QED
  BY <1>1, <1>2, <1>3, <1>4, <1>5 DEF Next

(* The inductive invariant of a pipeline. *)
LEMMA PipelineInvariance == Spec => []PipelineIInv
  BY PipelineInit, PipelineNext, PTL DEF Spec

(* The default handler of mqlobber takes an event after all handlers there  *)
(* are by then, in their order (server.js 1166-1194).                       *)
LEMMA PipelineDefaultLast == Spec => DefaultLast
<1>1. PipelineIInv /\ [Next]_vars =>
        [\A e \in Events : status'[e] = Handled /\ status[e] # Handled =>
           visited[e] = [i \in 1..handlers |-> i]]_vars
  <2> SUFFICES ASSUME PipelineIInv, [Next]_vars, NEW e \in Events,
                      status'[e] = Handled, status[e] # Handled
               PROVE  visited[e] = [i \in 1..handlers |-> i]
    OBVIOUS
  <2>1. ASSUME NEW d \in Events, Call(d, position[d])
        PROVE  visited[e] = [i \in 1..handlers |-> i]
    <3>1. CASE AtEnd(position[d])
      <4>1. d = e
        BY <2>1, <3>1 DEF Call, PipelineIInv
      <4>2. Passed(e) /\ Len(visited[e]) = handlers
        BY <3>1, <4>1 DEF PipelineIInv, Passed, AtEnd
      <4> QED
        BY <4>2 DEF Passed
    <3>2. CASE ~AtEnd(position[d])
      BY <2>1, <3>2 DEF Call, PipelineIInv, Held, Handled
    <3> QED
      BY <3>1, <3>2
  <2>2. ASSUME NEW d \in Events, Emit(d) PROVE visited[e] = [i \in 1..handlers |-> i]
    BY <2>1, <2>2, EmitCalls
  <2>3. ASSUME NEW d \in Events, CallNext(d) PROVE visited[e] = [i \in 1..handlers |-> i]
    BY <2>1, <2>3 DEF CallNext
  <2>4. ASSUME NEW d \in Events, Drop(d) PROVE visited[e] = [i \in 1..handlers |-> i]
    BY <2>4 DEF Drop, PipelineIInv, Dropped, Handled
  <2>5. status' # status
    OBVIOUS
  <2> QED
    BY <2>2, <2>3, <2>4, <2>5 DEF Next, Attach, vars
<1> QED
  BY <1>1, PipelineInvariance, PTL DEF Spec, DefaultLast

---------------------------------------------------------------------------
\* The bytes of s follow each other, after the first n.
Run(s, n) == \A i \in 1..Len(s) : s[i] = n + i

(* What is in the buffer and in the stream ends with the last byte that     *)
(* came, and while nothing was called back nothing of it is missing.        *)
BytesHeld ==
  /\ sent \in 0..Total
  /\ buffer \in Seq(Nat) /\ f_stream \in Seq(Nat)
  /\ Len(buffer) + Len(f_stream) <= sent
  /\ Run(f_stream, sent - Len(f_stream))
  /\ listening \/ looping =>
       /\ f_state # "closed"
       /\ Run(buffer, sent - Len(f_stream) - Len(buffer))
  /\ listening => Len(buffer) + Len(f_stream) = sent

FrameCounts == handled # <<>> /\ handled[1].error = "none"

\* What was called back first counts, and a frame ends the reading.
ResultCounts ==
  /\ listening => handled = <<>>
  /\ ~listening => \E r : handled = <<r>>
  /\ FrameCounts =>
       /\ ~looping
       /\ handled[1].bytes = SubSeq(Frame!Bytes, HeaderSize + 1, Frame!FrameEnd)
       /\ Frame!FrameEnd <= sent
       /\ f_state # "closed" => Len(f_stream) = sent - Frame!FrameEnd

FrameIInv ==
  /\ body \in Nat
  /\ listening \in BOOLEAN /\ looping \in BOOLEAN
  /\ f_state \in {"open", "ending", "ended", "closed"}
  /\ BytesHeld /\ ResultCounts

(* SubSeqProperties for sequences of numbers. *)
LEMMA SliceOfNumbers ==
  ASSUME NEW s, NEW k \in Int, NEW b \in Int, \A i \in k..b : s[i] \in Nat
  PROVE  /\ SubSeq(s, k, b) \in Seq(Nat)
         /\ Len(SubSeq(s, k, b)) = IF k <= b THEN b - k + 1 ELSE 0
         /\ \A i \in 1..(b - k + 1) : SubSeq(s, k, b)[i] = s[k + i - 1]
BY SubSeqProperties

(* The bytes after some of a run, and the bytes of a run that starts with   *)
(* the first.                                                               *)
LEMMA RunOfBytes ==
  ASSUME NEW s \in Seq(Nat), NEW m \in Nat, NEW n \in Nat, n <= Total, Total \in Nat,
         m + Len(s) = n, Run(s, m)
  PROVE  s = SubSeq(Frame!Bytes, m + 1, n)
<1>1. Len(s) \in Nat /\ Total \in Int
  BY LenProperties
<1>2. \A i \in (m + 1)..n : i \in 1..Total /\ i \in Nat
  BY <1>1
<1>3. \A i \in (m + 1)..n : Frame!Bytes[i] = i /\ Frame!Bytes[i] \in Nat
  BY <1>2 DEF Frame!Bytes
<1>4. /\ SubSeq(Frame!Bytes, m + 1, n) \in Seq(Nat)
      /\ Len(SubSeq(Frame!Bytes, m + 1, n)) = IF m + 1 <= n THEN n - (m + 1) + 1 ELSE 0
      /\ \A i \in 1..(n - (m + 1) + 1) : SubSeq(Frame!Bytes, m + 1, n)[i] = Frame!Bytes[m + 1 + i - 1]
  BY <1>3, SliceOfNumbers
<1>5. Len(SubSeq(Frame!Bytes, m + 1, n)) = Len(s)
  BY <1>1, <1>4
<1>6. \A i \in 1..Len(s) : SubSeq(Frame!Bytes, m + 1, n)[i] = s[i]
  <2> TAKE i \in 1..Len(s)
  <2>1. m + i \in (m + 1)..n /\ i \in 1..(n - (m + 1) + 1) /\ m + 1 + i - 1 = m + i
    BY <1>1
  <2> QED
    BY <1>3, <1>4, <2>1 DEF Run
<1> QED
  BY <1>4, <1>5, <1>6, SeqEqual

(* A slice of a run is a run. *)
LEMMA SliceOfRun ==
  ASSUME NEW s \in Seq(Nat), NEW n \in Nat, NEW a \in Nat, NEW b \in Nat,
         Run(s, n), b <= Len(s), a <= b
  PROVE  /\ SubSeq(s, a + 1, b) \in Seq(Nat) /\ Len(SubSeq(s, a + 1, b)) = b - a
         /\ Run(SubSeq(s, a + 1, b), n + a)
<1>1. \A i \in (a + 1)..b : s[i] \in Nat
  BY LenProperties
<1>2. /\ SubSeq(s, a + 1, b) \in Seq(Nat) /\ Len(SubSeq(s, a + 1, b)) = b - a
      /\ \A i \in 1..(b - a) : SubSeq(s, a + 1, b)[i] = s[a + i]
  <2>1. PICK k \in Int : k = a + 1
    OBVIOUS
  <2>2. \A i \in k..b : s[i] \in Nat
    BY <1>1, <2>1
  <2>3. /\ SubSeq(s, k, b) \in Seq(Nat)
        /\ Len(SubSeq(s, k, b)) = IF k <= b THEN b - k + 1 ELSE 0
        /\ \A i \in 1..(b - k + 1) : SubSeq(s, k, b)[i] = s[k + i - 1]
    BY <2>2, SliceOfNumbers
  <2>4. b - k + 1 = b - a /\ (k > b => b - a = 0) /\ \A i \in 1..(b - a) : k + i - 1 = a + i
    BY <2>1
  <2> QED
    BY <2>1, <2>3, <2>4
<1>3. \A i \in 1..(b - a) : a + i \in 1..Len(s)
  BY LenProperties
<1> QED
  BY <1>2, <1>3 DEF Run

(* Two runs one after the other. *)
LEMMA RunsConcat ==
  ASSUME NEW s \in Seq(Nat), NEW u \in Seq(Nat), NEW n \in Nat,
         Run(s, n), Run(u, n + Len(s))
  PROVE  s \o u \in Seq(Nat) /\ Len(s \o u) = Len(s) + Len(u) /\ Run(s \o u, n)
BY ConcatProperties, LenProperties DEF Run

LEMMA EmptyRun ==
  /\ <<>> \in Seq(Nat) /\ Len(<<>>) = 0 /\ \A n : Run(<<>>, n)
<1>1. <<>> \in Seq(Nat) /\ Len(<<>>) = 0
  BY EmptySeq
<1> QED
  BY <1>1 DEF Run

(* The invariant holds initially. *)
LEMMA FrameInit == Frame!ReadFrameAssumption /\ Frame!Init => FrameIInv
<1> SUFFICES ASSUME Frame!ReadFrameAssumption, Frame!Init PROVE FrameIInv
  OBVIOUS
<1>1. /\ sent = 0 /\ f_stream = <<>> /\ buffer = <<>> /\ f_state = "open"
      /\ listening = TRUE /\ looping = FALSE /\ handled = <<>>
  BY DEF Frame!Init
<1>2. Len(f_stream) = 0 /\ Len(buffer) = 0 /\ sent \in 0..Total
  BY <1>1, EmptyRun DEF Frame!ReadFrameAssumption
<1>3. BytesHeld
  BY <1>1, <1>2, EmptyRun DEF BytesHeld
<1>4. ResultCounts
  BY <1>1 DEF ResultCounts, FrameCounts
<1>5. body \in Nat
  BY DEF Frame!Init, Frame!ReadFrameAssumption
<1> QED
  BY <1>1, <1>3, <1>4, <1>5 DEF FrameIInv

(* Bytes that arrive follow those in the stream. *)
LEMMA ArriveStep ==
  ASSUME Frame!ReadFrameAssumption, FrameIInv, Frame!Arrive, UNCHANGED body
  PROVE  FrameIInv'
<1>1. PICK n \in 1..(Total - sent) :
        /\ sent' = sent + n
        /\ f_stream' = f_stream \o [i \in 1..n |-> sent + i]
  BY DEF Frame!Arrive
<1> DEFINE new == [i \in 1..n |-> sent + i]
<1>2. n \in Nat /\ sent \in Nat /\ Total \in Nat /\ sent' \in 0..Total
  BY <1>1 DEF FrameIInv, BytesHeld, Frame!ReadFrameAssumption
<1>3. new \in Seq(Nat) /\ Len(new) = n /\ Run(new, sent)
  BY <1>2 DEF Run
<1>4. f_stream' = f_stream \o new
  BY <1>1
<1> HIDE DEF new
<1>5. /\ Len(f_stream) \in Nat /\ Len(buffer) \in Nat /\ Len(buffer) + Len(f_stream) <= sent
      /\ f_stream \in Seq(Nat) /\ Run(f_stream, sent - Len(f_stream))
  BY LenProperties DEF FrameIInv, BytesHeld
<1>6. PICK k \in Nat : k = sent - Len(f_stream) /\ k + Len(f_stream) = sent
  BY <1>2, <1>5
<1>7. f_stream' \in Seq(Nat) /\ Len(f_stream') = Len(f_stream) + n /\ Run(f_stream', k)
  BY <1>2, <1>3, <1>4, <1>5, <1>6, RunsConcat
<1>8. /\ sent' - Len(f_stream') = k
      /\ sent' - Len(f_stream') - Len(buffer) = sent - Len(f_stream) - Len(buffer)
      /\ Len(buffer) + Len(f_stream') <= sent'
      /\ Len(buffer) + Len(f_stream) = sent => Len(buffer) + Len(f_stream') = sent'
  <2>1. PICK a \in Nat, b \in Nat : a = Len(f_stream) /\ b = Len(buffer)
    BY <1>5
  <2>2. Len(f_stream') = a + n /\ k + a = sent /\ b + a <= sent
    BY <1>5, <1>6, <1>7, <2>1
  <2>3. /\ sent + n - (a + n) = k /\ sent + n - (a + n) - b = sent - a - b
        /\ b + (a + n) <= sent + n
        /\ b + a = sent => b + (a + n) = sent + n
    BY <1>2, <2>2
  <2> QED
    BY <1>1, <2>1, <2>2, <2>3
<1>9. UNCHANGED <<f_state, listening, looping, buffer, handled>> /\ f_state = "open"
  BY DEF Frame!Arrive
<1>10. BytesHeld'
  <2>1. buffer' \in Seq(Nat) /\ buffer' = buffer
    BY <1>9 DEF FrameIInv, BytesHeld
  <2>2. listening \/ looping => Run(buffer, sent' - Len(f_stream') - Len(buffer))
    BY <1>8 DEF FrameIInv, BytesHeld
  <2>3. listening => Len(buffer) + Len(f_stream') = sent'
    BY <1>8 DEF FrameIInv, BytesHeld
  <2> QED
    BY <1>2, <1>7, <1>8, <1>9, <2>1, <2>2, <2>3 DEF BytesHeld, Run
<1>11. ResultCounts'
  <2>1. FrameCounts => Len(f_stream') = sent' - Frame!FrameEnd /\ Frame!FrameEnd <= sent'
    <3> SUFFICES ASSUME FrameCounts
                 PROVE  Len(f_stream') = sent' - Frame!FrameEnd /\ Frame!FrameEnd <= sent'
      OBVIOUS
    <3>1. Frame!FrameEnd \in Int
      BY DEF Frame!FrameEnd, Frame!ReadFrameAssumption, FrameIInv
    <3>2. Len(f_stream) = sent - Frame!FrameEnd /\ Frame!FrameEnd <= sent
      BY <1>9 DEF FrameIInv, ResultCounts
    <3> QED
      <4>1. Len(f_stream) + n = sent + n - Frame!FrameEnd /\ Frame!FrameEnd <= sent + n
        BY <1>2, <1>5, <3>1, <3>2
      <4>2. sent' = sent + n /\ Len(f_stream') = Len(f_stream) + n
        BY <1>1, <1>7
      <4> QED
        BY <1>2, <1>5, <3>1, <4>1, <4>2
  <2> QED
    BY <1>9, <2>1 DEF FrameIInv, ResultCounts, FrameCounts, Frame!Bytes, Frame!FrameEnd
<1> QED
  BY <1>9, <1>10, <1>11 DEF FrameIInv

(* The end of the stream, and its close, are told to who listens. *)
LEMMA EndedStep ==
  ASSUME FrameIInv, Frame!Ended, UNCHANGED body, ~looping, looping' = looping, sent' = sent,
         f_state' # "closed" => f_state # "closed" /\ f_stream' = f_stream
  PROVE  listening' = FALSE /\ ResultCounts'
<1>1. CASE listening
  <2>1. listening' = FALSE /\ handled' = <<Frame!Error("ended before frame")>>
    BY <1>1 DEF FrameIInv, ResultCounts, Frame!Ended, Frame!CallBack, Frame!GotTokens
  <2>2. handled'[1].error # "none"
    BY <2>1 DEF Frame!Error
  <2> QED
    BY <2>1, <2>2 DEF ResultCounts, FrameCounts
<1>2. CASE ~listening
  <2>1. listening' = FALSE /\ handled' = handled
    BY <1>2 DEF FrameIInv, Frame!Ended
  <2> QED
    BY <1>2, <2>1 DEF FrameIInv, ResultCounts, FrameCounts, Frame!Bytes, Frame!FrameEnd
<1> QED
  BY <1>1, <1>2

LEMMA OnEndStep ==
  ASSUME FrameIInv, Frame!OnEnd, UNCHANGED body
  PROVE  FrameIInv'
<1>1. /\ ~looping /\ looping' = looping /\ UNCHANGED <<sent, f_stream, buffer>> /\ f_state = "ending"
      /\ f_state' = "ended" /\ Frame!Ended
  BY DEF Frame!OnEnd
<1>2. listening' = FALSE /\ ResultCounts'
  BY <1>1, EndedStep
<1>3. BytesHeld'
  BY <1>1, <1>2 DEF FrameIInv, BytesHeld, Run
<1> QED
  BY <1>1, <1>2, <1>3 DEF FrameIInv

LEMMA OnCloseStep ==
  ASSUME FrameIInv, Frame!OnClose, UNCHANGED body
  PROVE  FrameIInv'
<1>1. /\ ~looping /\ looping' = looping /\ UNCHANGED <<sent, buffer>> /\ f_stream' = <<>>
      /\ f_state' = "closed" /\ Frame!Ended
  BY DEF Frame!OnClose
<1>2. listening' = FALSE /\ ResultCounts'
  BY <1>1, EndedStep
<1>3. BytesHeld'
  <2>1. /\ sent' \in 0..Total /\ sent' \in Nat /\ buffer' \in Seq(Nat)
        /\ Len(buffer') <= sent' /\ Len(buffer') \in Nat
    BY <1>1, LenProperties DEF FrameIInv, BytesHeld
  <2>2. /\ f_stream' \in Seq(Nat) /\ Len(f_stream') = 0 /\ \A n : Run(f_stream', n)
    BY <1>1, EmptyRun
  <2>3. Len(buffer') + Len(f_stream') <= sent' /\ Run(f_stream', sent' - Len(f_stream'))
    BY <2>1, <2>2
  <2> QED
    BY <1>1, <1>2, <2>1, <2>2, <2>3 DEF BytesHeld, Run
<1> QED
  BY <1>1, <1>2, <1>3 DEF FrameIInv

(* What a turn of the loop reads is a run that ends with the last byte.     *)
LEMMA ChunkRun ==
  ASSUME FrameIInv, listening \/ looping
  PROVE  LET chunk == buffer \o f_stream
         IN /\ chunk \in Seq(Nat) /\ Len(chunk) = Len(buffer) + Len(f_stream)
            /\ Len(chunk) <= sent /\ sent - Len(chunk) \in Nat
            /\ Run(chunk, sent - Len(chunk))
<1>1. /\ buffer \in Seq(Nat) /\ f_stream \in Seq(Nat) /\ sent \in Nat
      /\ Len(buffer) \in Nat /\ Len(f_stream) \in Nat /\ Len(buffer) + Len(f_stream) <= sent
      /\ Run(f_stream, sent - Len(f_stream)) /\ Run(buffer, sent - Len(f_stream) - Len(buffer))
  BY LenProperties DEF FrameIInv, BytesHeld
<1>2. PICK n \in Nat : n = sent - Len(f_stream) - Len(buffer)
  <2>1. sent - Len(f_stream) - Len(buffer) \in Nat
    BY <1>1
  <2> QED
    BY <2>1
<1>3. n + Len(buffer) = sent - Len(f_stream)
  BY <1>1, <1>2
<1>4. Run(f_stream, n + Len(buffer)) /\ Run(buffer, n)
  BY <1>1, <1>2, <1>3
<1>5. LET chunk == buffer \o f_stream
      IN chunk \in Seq(Nat) /\ Len(chunk) = Len(buffer) + Len(f_stream) /\ Run(chunk, n)
  BY <1>1, <1>2, <1>4, RunsConcat
<1>6. sent - (Len(buffer) + Len(f_stream)) = n
  BY <1>1, <1>2
<1> QED
  BY <1>1, <1>2, <1>5, <1>6

(* A frame is the bytes after the header, and the stream keeps the rest.    *)
LEMMA ReadFrameOutStep ==
  ASSUME Frame!ReadFrameAssumption, FrameIInv, listening \/ looping,
         UNCHANGED <<sent, f_state, body>>,
         Frame!ReadFrameOut(buffer \o f_stream, f_stream)
  PROVE  FrameIInv'
<1> DEFINE chunk == buffer \o f_stream
<1>1. /\ HeaderSize \in Nat /\ body \in Nat /\ Frame!FrameEnd \in Nat /\ HeaderSize <= Frame!FrameEnd
      /\ sent \in 0..Total /\ Total \in Nat
  BY DEF Frame!ReadFrameAssumption, Frame!FrameEnd, FrameIInv, BytesHeld
<1>2. /\ listening' = FALSE /\ looping' = FALSE /\ buffer' = <<>>
      /\ f_stream' = SubSeq(chunk, Frame!FrameEnd + 1, Len(chunk))
      /\ Len(chunk) >= Frame!FrameEnd
      /\ Frame!CallBack(Frame!Frame(SubSeq(chunk, HeaderSize + 1, Frame!FrameEnd)))
  BY DEF Frame!ReadFrameOut, Frame!Rest, Frame!Complete
<1>3. /\ chunk \in Seq(Nat) /\ Len(chunk) \in Nat /\ Len(chunk) <= sent
      /\ Len(chunk) = Len(buffer) + Len(f_stream)
      /\ sent - Len(chunk) \in Nat /\ Run(chunk, sent - Len(chunk))
  BY ChunkRun, LenProperties
<1> HIDE DEF chunk
<1>4. /\ f_stream' \in Seq(Nat) /\ Len(f_stream') = Len(chunk) - Frame!FrameEnd
      /\ Run(f_stream', sent - Len(chunk) + Frame!FrameEnd)
  <2>1. Frame!FrameEnd <= Len(chunk) /\ Len(chunk) <= Len(chunk)
    BY <1>1, <1>2, <1>3
  <2> QED
    <3>1. PICK k \in Nat : k = sent - Len(chunk)
      BY <1>3
    <3>2. /\ SubSeq(chunk, Frame!FrameEnd + 1, Len(chunk)) \in Seq(Nat)
          /\ Len(SubSeq(chunk, Frame!FrameEnd + 1, Len(chunk))) = Len(chunk) - Frame!FrameEnd
          /\ Run(SubSeq(chunk, Frame!FrameEnd + 1, Len(chunk)), k + Frame!FrameEnd)
      BY <1>1, <1>3, <2>1, <3>1, SliceOfRun
    <3> QED
      BY <1>2, <3>1, <3>2
<1>5. sent - Len(f_stream') = sent - Len(chunk) + Frame!FrameEnd
  BY <1>1, <1>3, <1>4
<1>6. Len(buffer') = 0 /\ buffer' \in Seq(Nat)
  BY <1>2, EmptySeq
<1>7. BytesHeld'
  <2>1. Len(buffer') + Len(f_stream') <= sent'
    BY <1>1, <1>3, <1>4, <1>6
  <2>2. Run(f_stream', sent' - Len(f_stream'))
    BY <1>4, <1>5
  <2> QED
    BY <1>1, <1>2, <1>4, <1>6, <2>1, <2>2 DEF BytesHeld, Run
<1>8. ResultCounts'
  <2>1. CASE listening
    <3>1. Len(chunk) = sent /\ handled = <<>>
      BY <1>3, <2>1 DEF FrameIInv, BytesHeld, ResultCounts
    <3>2. handled' = <<Frame!Frame(SubSeq(chunk, HeaderSize + 1, Frame!FrameEnd))>>
      BY <1>2, <3>1 DEF Frame!CallBack, Frame!GotTokens
    <3>3. /\ SubSeq(chunk, HeaderSize + 1, Frame!FrameEnd) \in Seq(Nat)
          /\ Len(SubSeq(chunk, HeaderSize + 1, Frame!FrameEnd)) = Frame!FrameEnd - HeaderSize
          /\ Run(SubSeq(chunk, HeaderSize + 1, Frame!FrameEnd), HeaderSize)
      <4>1. Run(chunk, 0) /\ 0 + HeaderSize = HeaderSize /\ Frame!FrameEnd <= Len(chunk)
        BY <1>1, <1>2, <1>3, <3>1
      <4> QED
        BY <1>1, <1>3, <4>1, SliceOfRun
    <3>4. HeaderSize + (Frame!FrameEnd - HeaderSize) = Frame!FrameEnd /\ Frame!FrameEnd <= Total
      BY <1>1, <1>2, <3>1
    <3>5. SubSeq(chunk, HeaderSize + 1, Frame!FrameEnd) = SubSeq(Frame!Bytes, HeaderSize + 1, Frame!FrameEnd)
      BY <1>1, <3>3, <3>4, RunOfBytes
    <3>6. handled'[1].bytes = SubSeq(Frame!Bytes, HeaderSize + 1, Frame!FrameEnd)
      BY <3>2, <3>5 DEF Frame!Frame
    <3>7. Frame!FrameEnd <= sent' /\ Len(f_stream') = sent' - Frame!FrameEnd
      BY <1>1, <1>2, <1>4, <3>1
    <3> QED
      BY <1>2, <3>2, <3>6, <3>7 DEF ResultCounts, FrameCounts, Frame!Bytes, Frame!FrameEnd
  <2>2. CASE ~listening
    <3>1. handled' = handled
      BY <1>2, <2>2 DEF FrameIInv, ResultCounts, Frame!CallBack, Frame!GotTokens
    <3>2. ~FrameCounts
      BY <2>2 DEF FrameIInv, ResultCounts
    <3> QED
      BY <1>2, <2>2, <3>1, <3>2 DEF FrameIInv, ResultCounts, FrameCounts
  <2> QED
    BY <2>1, <2>2
<1> QED
  BY <1>2, <1>7, <1>8 DEF FrameIInv

(* An error leaves nothing of what was read. *)
LEMMA ReadErrorStep ==
  ASSUME FrameIInv, listening \/ looping, UNCHANGED <<sent, f_state, body>>,
         Frame!ReadError(buffer \o f_stream)
  PROVE  FrameIInv'
<1>1. /\ listening' = FALSE /\ looping' = TRUE /\ f_stream' = <<>> /\ buffer' = <<>>
      /\ Frame!CallBack(Frame!Error("too large"))
  BY DEF Frame!ReadError
<1>2. /\ Len(f_stream') = 0 /\ f_stream' \in Seq(Nat) /\ Len(buffer') = 0 /\ buffer' \in Seq(Nat)
      /\ \A n : Run(f_stream', n) /\ Run(buffer', n)
  BY <1>1, EmptyRun
<1>3. sent' \in 0..Total /\ sent' \in Nat /\ f_state' # "closed"
  BY DEF FrameIInv, BytesHeld
<1>4. BytesHeld'
  <2>1. Len(buffer') + Len(f_stream') <= sent'
    BY <1>2, <1>3
  <2> QED
    BY <1>1, <1>2, <1>3, <2>1 DEF BytesHeld
<1>5. ResultCounts'
  <2>1. CASE listening
    <3>1. handled' = <<Frame!Error("too large")>>
      BY <1>1, <2>1 DEF FrameIInv, ResultCounts, Frame!CallBack, Frame!GotTokens
    <3>2. handled'[1].error # "none"
      BY <3>1 DEF Frame!Error
    <3> QED
      BY <1>1, <3>1, <3>2 DEF ResultCounts, FrameCounts
  <2>2. CASE ~listening
    <3>1. handled # <<>> /\ ~FrameCounts
      BY <2>2 DEF FrameIInv, ResultCounts
    <3>2. handled' = handled
      BY <1>1, <3>1 DEF Frame!CallBack, Frame!GotTokens
    <3> QED
      BY <1>1, <2>2, <3>1, <3>2 DEF FrameIInv, ResultCounts, FrameCounts
  <2> QED
    BY <2>1, <2>2
<1> QED
  BY <1>1, <1>4, <1>5 DEF FrameIInv

(* What is not decoded is kept in the buffer. *)
LEMMA ReadMoreStep ==
  ASSUME FrameIInv, listening \/ looping, UNCHANGED <<sent, f_state, body>>,
         Frame!ReadMore(buffer \o f_stream)
  PROVE  FrameIInv'
<1>1. /\ looping' = TRUE /\ f_stream' = <<>> /\ buffer' = buffer \o f_stream
      /\ UNCHANGED <<listening, handled>>
  BY DEF Frame!ReadMore
<1>2. /\ buffer' \in Seq(Nat) /\ Len(buffer') = Len(buffer) + Len(f_stream)
      /\ Len(buffer') <= sent /\ Len(buffer') \in Nat
      /\ Run(buffer', sent - Len(buffer'))
  BY <1>1, ChunkRun, LenProperties
<1>3. Len(f_stream') = 0 /\ f_stream' \in Seq(Nat)
  BY <1>1, EmptySeq
<1>4. sent' - Len(f_stream') - Len(buffer') = sent - Len(buffer')
  BY <1>2, <1>3 DEF FrameIInv, BytesHeld
<1>5. BytesHeld'
  BY <1>1, <1>2, <1>3, <1>4 DEF FrameIInv, BytesHeld, Run
<1>6. ResultCounts'
  BY <1>1 DEF FrameIInv, ResultCounts, FrameCounts
<1> QED
  BY <1>1, <1>5, <1>6 DEF FrameIInv

(* Every step keeps the invariant. *)
LEMMA FrameNext ==
  ASSUME Frame!ReadFrameAssumption
  PROVE  FrameIInv /\ [Frame!Next /\ UNCHANGED body]_<<Frame!vars, body>> => FrameIInv'
<1> SUFFICES ASSUME FrameIInv, [Frame!Next]_Frame!vars, UNCHANGED body PROVE FrameIInv'
  OBVIOUS
<1>1. CASE Frame!Arrive
  BY <1>1, ArriveStep
<1>2. CASE Frame!Finish
  BY <1>2 DEF Frame!Finish, FrameIInv, BytesHeld, ResultCounts, FrameCounts, Run,
              Frame!Bytes, Frame!FrameEnd
<1>3. CASE Frame!OnEnd
  BY <1>3, OnEndStep
<1>4. CASE Frame!OnClose
  BY <1>4, OnCloseStep
<1>5. CASE Frame!Read
  BY <1>5, ReadFrameOutStep, ReadErrorStep, ReadMoreStep DEF Frame!Read
<1>6. CASE Frame!ReadNull
  BY <1>6 DEF Frame!ReadNull, FrameIInv, BytesHeld, ResultCounts, FrameCounts, Run
<1>7. CASE UNCHANGED Frame!vars
  BY <1>7 DEF Frame!vars, FrameIInv, BytesHeld, ResultCounts, FrameCounts, Run,
              Frame!Bytes, Frame!FrameEnd
<1> QED
  BY <1>1, <1>2, <1>3, <1>4, <1>5, <1>6, <1>7 DEF Frame!Next

(* read_frame: one result counts, a frame that counts is the one that was   *)
(* sent, and the next reader gets exactly what follows it.                  *)
LEMMA FrameCorrect == ASSUME Frame!ReadFrameAssumption PROVE Frame!Spec => []Frame!FrameKept
<1>1. Frame!Init => FrameIInv
  BY FrameInit
<1>2. FrameIInv => Frame!FrameKept
  <2> SUFFICES ASSUME FrameIInv PROVE Frame!FrameKept
    OBVIOUS
  <2>1. /\ Len(f_stream) \in Nat /\ Len(buffer) \in Nat /\ DOMAIN f_stream = 1..Len(f_stream)
        /\ f_stream \in Seq(Nat) /\ sent \in 0..Total /\ Total \in Nat /\ Frame!FrameEnd \in Nat
    BY LenProperties DEF FrameIInv, BytesHeld, Frame!ReadFrameAssumption, Frame!FrameEnd
  <2>2. Frame!TypeOK
    BY <2>1 DEF Frame!TypeOK, FrameIInv, BytesHeld, Run
  <2>3. Frame!HandledOnce /\ Frame!FrameRight
    <3>1. CASE handled = <<>>
      BY <3>1 DEF Frame!HandledOnce, Frame!FrameRight
    <3>2. CASE handled # <<>>
      <4>1. PICK r : handled = <<r>>
        BY <3>2 DEF FrameIInv, ResultCounts
      <4>2. Len(handled) = 1 /\ DOMAIN handled = {1}
        BY <4>1
      <4> QED
        BY <3>2, <4>2 DEF Frame!HandledOnce, Frame!FrameRight, FrameIInv, ResultCounts,
                          FrameCounts
    <3> QED
      BY <3>1, <3>2
  <2>4. Frame!RestKept
    <3> SUFFICES ASSUME handled # <<>>, handled[1].error = "none", f_state # "closed"
                 PROVE  f_stream = SubSeq(Frame!Bytes, Frame!FrameEnd + 1, sent)
      BY DEF Frame!RestKept
    <3>1. Len(f_stream) = sent - Frame!FrameEnd /\ Run(f_stream, sent - Len(f_stream))
      BY DEF FrameIInv, BytesHeld, ResultCounts, FrameCounts
    <3>2. Frame!FrameEnd + Len(f_stream) = sent /\ sent - Len(f_stream) = Frame!FrameEnd
      BY <2>1, <3>1
    <3> QED
      BY <2>1, <3>1, <3>2, RunOfBytes
  <2> QED
    BY <2>2, <2>3, <2>4 DEF Frame!FrameKept
<1> QED
  BY <1>1, <1>2, FrameNext, PTL DEF Frame!Spec

---------------------------------------------------------------------------
(* The timer that calls f is set only when its time has come, whoever may   *)
(* cancel knows the timer that is set, and the timers that end before the   *)
(* time asked for have all waited as long as a timer can.                   *)
ScheduleIInv ==
  /\ Expiry!TypeOK
  /\ handle = number
  /\ number = 0 => due = 0 /\ ~last
  /\ last => now >= t
  /\ fired => now >= t
  /\ due < t => number * MaxDelay <= due
  /\ ~last => (number - 1) * MaxDelay <= MaxTime
  /\ Expiry!WakesSeldom

(* One timer more takes its longest delay more. *)
LEMMA OneTimerMore ==
  ASSUME Expiry!ScheduleAssumption, NEW n \in Nat
  PROVE  /\ n * MaxDelay \in Int /\ (n - 1) * MaxDelay \in Int
         /\ (n + 1) * MaxDelay = n * MaxDelay + MaxDelay
         /\ n * MaxDelay = (n - 1) * MaxDelay + MaxDelay
         /\ (n - 1) * MaxDelay = (n - 2) * MaxDelay + MaxDelay
BY DEF Expiry!ScheduleAssumption

(* The invariant holds initially. *)
LEMMA ScheduleInit == Expiry!ScheduleAssumption /\ Expiry!Init => ScheduleIInv
<1> SUFFICES ASSUME Expiry!ScheduleAssumption, Expiry!Init PROVE ScheduleIInv
  OBVIOUS
<1>1. MaxDelay \in Nat /\ MaxTime \in Nat /\ MaxDelay > 0
  BY DEF Expiry!ScheduleAssumption
<1>2. /\ handle = number /\ number = 0 /\ due = 0 /\ {now, t} \subseteq 0..MaxTime
      /\ due \in 0..(MaxTime + MaxDelay) /\ number \in Nat /\ handle \in Expiry!Nothing..number
  BY <1>1 DEF Expiry!Init, Expiry!Nothing
<1>3. last = FALSE /\ fired = FALSE /\ {last, fired, cancelled} \subseteq BOOLEAN
  BY DEF Expiry!Init
<1>4. 0 * MaxDelay = 0 /\ (0 - 1) * MaxDelay <= MaxTime /\ (0 - 2) * MaxDelay <= MaxTime
  BY <1>1
<1> QED
  BY <1>2, <1>3, <1>4 DEF ScheduleIInv, Expiry!TypeOK, Expiry!WakesSeldom

(* One timer more, and update is told of it. *)
LEMMA ChainStep ==
  ASSUME Expiry!ScheduleAssumption, ScheduleIInv, Expiry!Chain, ~last, due <= now,
         UNCHANGED <<now, t, fired, cancelled>>
  PROVE  ScheduleIInv'
<1>1. /\ MaxDelay \in Nat /\ MaxTime \in Nat /\ MaxDelay > 0
      /\ now \in 0..MaxTime /\ t \in 0..MaxTime /\ number \in Nat /\ due \in Nat
      /\ (number - 1) * MaxDelay <= MaxTime
      /\ due < t => number * MaxDelay <= due
      /\ {fired, cancelled} \subseteq BOOLEAN
  BY DEF Expiry!ScheduleAssumption, ScheduleIInv, Expiry!TypeOK
<1>2. /\ number' = number + 1 /\ handle' = number' /\ number' - 1 = number
      /\ number' # 0
  BY <1>1 DEF Expiry!Chain, Expiry!SetTimeout, Expiry!Update
<1>5. fired' => now' >= t'
  BY DEF ScheduleIInv
<1>3. CASE t > now
  <2>1. ~(t <= now)
    BY <1>1, <1>3
  <2>2. last' = FALSE
    BY <1>3, <2>1, Zenon DEF Expiry!Chain, Expiry!SetTimeout
  <2>3. due' = now + Expiry!Smaller(t - now, MaxDelay)
    BY <1>1, <1>3, <2>1 DEF Expiry!Chain, Expiry!SetTimeout, Expiry!Delay, Expiry!Smaller
  <2>4. due' \in 0..(MaxTime + MaxDelay) /\ (due' < t => due' = now + MaxDelay)
    BY <1>1, <1>3, <2>3 DEF Expiry!Smaller
  <2>5. number * MaxDelay <= now /\ number * MaxDelay <= MaxTime
    BY <1>1, <1>3, OneTimerMore
  <2>6. due' < t => number' * MaxDelay <= due'
    BY <1>1, <1>2, <2>4, <2>5, OneTimerMore
  <2>7. (number' - 1) * MaxDelay <= MaxTime /\ (number' - 2) * MaxDelay <= MaxTime
    <3>1. number' - 2 = number - 1
      BY <1>1, <1>2
    <3> QED
      BY <1>1, <1>2, <2>5, <3>1
  <2>8. Expiry!TypeOK'
    <3>1. /\ {now, t}' \subseteq 0..MaxTime /\ due' \in 0..(MaxTime + MaxDelay)
          /\ number' \in Nat /\ handle' \in Expiry!Nothing..number'
      BY <1>1, <1>2, <2>4 DEF Expiry!Nothing
    <3> QED
      BY <1>1, <2>2, <3>1, Zenon DEF Expiry!TypeOK
  <2> QED
    BY <1>2, <1>5, <2>2, <2>6, <2>7, <2>8 DEF ScheduleIInv, Expiry!WakesSeldom
<1>4. CASE t <= now
  <2>1. ~(t > now)
    BY <1>1, <1>4
  <2>2. last' = TRUE
    BY <1>4, <2>1, Zenon DEF Expiry!Chain, Expiry!SetTimeout
  <2>3. due' = now
    BY <1>1, <1>4, <2>1 DEF Expiry!Chain, Expiry!SetTimeout
  <2>4. number' - 2 = number - 1
    BY <1>1, <1>2
  <2>5. ~(due' < t')
    BY <1>1, <1>4, <2>3
  <2>6. Expiry!TypeOK'
    <3>1. /\ {now, t}' \subseteq 0..MaxTime /\ due' \in 0..(MaxTime + MaxDelay)
          /\ number' \in Nat /\ handle' \in Expiry!Nothing..number'
      BY <1>1, <1>2, <2>3 DEF Expiry!Nothing
    <3> QED
      BY <1>1, <2>2, <3>1, Zenon DEF Expiry!TypeOK
  <2>7. now' >= t' /\ Expiry!WakesSeldom'
    BY <1>1, <1>4, <2>4 DEF Expiry!WakesSeldom
  <2> QED
    BY <1>2, <1>5, <2>2, <2>5, <2>6, <2>7, Zenon DEF ScheduleIInv
<1> QED
  BY <1>1, <1>3, <1>4

(* Every step keeps the invariant. *)
LEMMA ScheduleNext ==
  ASSUME Expiry!ScheduleAssumption
  PROVE  ScheduleIInv /\ [Expiry!Next]_Expiry!vars => ScheduleIInv'
<1> SUFFICES ASSUME ScheduleIInv, [Expiry!Next]_Expiry!vars PROVE ScheduleIInv'
  OBVIOUS
<1>1. CASE Expiry!Ask
  <2>1. Expiry!Chain /\ ~last /\ due <= now /\ UNCHANGED <<now, t, fired, cancelled>>
    BY <1>1 DEF Expiry!Ask, ScheduleIInv, Expiry!TypeOK
  <2> QED
    BY <2>1, ChainStep
<1>2. CASE Expiry!Fire
  <2>1. CASE last
    BY <1>2, <2>1 DEF Expiry!Fire, Expiry!OnTimer, ScheduleIInv, Expiry!TypeOK,
                      Expiry!WakesSeldom
  <2>2. CASE ~last
    <3>1. Expiry!Chain /\ due <= now /\ UNCHANGED <<now, t, fired, cancelled>>
      BY <1>2, <2>2 DEF Expiry!Fire, Expiry!OnTimer, ScheduleIInv, Expiry!TypeOK
    <3> QED
      BY <2>2, <3>1, ChainStep
  <2> QED
    BY <2>1, <2>2
<1>3. CASE Expiry!Cancel
  BY <1>3 DEF Expiry!Cancel, ScheduleIInv, Expiry!TypeOK, Expiry!WakesSeldom
<1>4. CASE Expiry!Tick
  BY <1>4 DEF Expiry!Tick, ScheduleIInv, Expiry!TypeOK, Expiry!ScheduleAssumption,
              Expiry!WakesSeldom
<1>5. CASE UNCHANGED Expiry!vars
  BY <1>5 DEF Expiry!vars, ScheduleIInv, Expiry!TypeOK, Expiry!WakesSeldom
<1> QED
  BY <1>1, <1>2, <1>3, <1>4, <1>5 DEF Expiry!Next

(* schedule: a token does not expire before its exp, however far away that  *)
(* is; clearTimeout of the handle that update was told last ends the chain; *)
(* and the chain is no longer than its time needs.                          *)
LEMMA ScheduleCorrect ==
  ASSUME Expiry!ScheduleAssumption
  PROVE  Expiry!Spec => Expiry!ExpiryOnTime
<1>1. Expiry!Init => ScheduleIInv
  BY ScheduleInit
<1>2. ScheduleIInv /\ [Expiry!Next]_Expiry!vars => ScheduleIInv'
  BY ScheduleNext
<1>3. ScheduleIInv => Expiry!TypeOK /\ Expiry!NotEarly /\ Expiry!WakesSeldom
  BY DEF ScheduleIInv, Expiry!NotEarly
<1>4. ScheduleIInv /\ [Expiry!Next]_Expiry!vars => [fired' # fired => ~cancelled]_Expiry!vars
  <2> SUFFICES ASSUME ScheduleIInv, [Expiry!Next]_Expiry!vars, fired' # fired
               PROVE ~cancelled
    OBVIOUS
  <2>1. Expiry!Fire
    BY DEF Expiry!Next, Expiry!Ask, Expiry!Cancel, Expiry!Tick, Expiry!vars
  <2> QED
    BY <2>1 DEF Expiry!Fire, Expiry!Pending, ScheduleIInv
<1> QED
  BY <1>1, <1>2, <1>3, <1>4, PTL DEF Expiry!Spec, Expiry!CancelHolds, Expiry!ExpiryOnTime

---------------------------------------------------------------------------
(* A publication that had an error has had its timer fire. *)
TimeoutIInv ==
  /\ Streams!TypeOK /\ Streams!NoTimerLeft
  /\ \A p \in Pubs : pub[p] = "errored" => timer[p] = "fired"

(* Every step keeps the invariant. *)
LEMMA TimeoutNext == TimeoutIInv /\ [Streams!Next]_Streams!vars => TimeoutIInv'
<1> SUFFICES ASSUME TimeoutIInv, [Streams!Next]_Streams!vars PROVE TimeoutIInv'
  OBVIOUS
<1> USE DEF TimeoutIInv, Streams!TypeOK, Streams!NoTimerLeft
<1>1. ASSUME NEW p \in Pubs, Streams!Publish(p) PROVE TimeoutIInv'
  BY <1>1 DEF Streams!Publish
<1>2. ASSUME NEW p \in Pubs, Streams!PublishTimeout(p) PROVE TimeoutIInv'
  BY <1>2 DEF Streams!PublishTimeout, Streams!OnTimer
<1>3. ASSUME NEW p \in Pubs, Streams!Answer(p) PROVE TimeoutIInv'
  BY <1>3 DEF Streams!Answer, Streams!Clear
<1>4. ASSUME NEW c \in Clients, Streams!Deliver(c) PROVE TimeoutIInv'
  BY <1>4 DEF Streams!Deliver
<1>5. ASSUME NEW c \in Clients, Streams!Finish(c) PROVE TimeoutIInv'
  BY <1>5 DEF Streams!Finish, Streams!OnFinish
<1>6. ASSUME NEW c \in Clients, Streams!Leave(c) PROVE TimeoutIInv'
  BY <1>6 DEF Streams!Leave
<1>7. ASSUME NEW c \in Clients, Streams!MessageTimeout(c) PROVE TimeoutIInv'
  BY <1>7 DEF Streams!MessageTimeout
<1>8. CASE UNCHANGED Streams!vars
  BY <1>8 DEF Streams!vars
<1> QED
  BY <1>1, <1>2, <1>3, <1>4, <1>5, <1>6, <1>7, <1>8 DEF Streams!Next

(* timeout: a publication that was answered has no timer left, and only a   *)
(* client that has not read its copy puts an error on the message's stream. *)
LEMMA TimeoutsOnlyForLate == Streams!Spec => Streams!FlowControlled
<1>1. Streams!Init => TimeoutIInv
  BY DEF Streams!Init, TimeoutIInv, Streams!TypeOK, Streams!NoTimerLeft
<1>2. TimeoutIInv => Streams!TypeOK /\ Streams!NoTimerLeft
  BY DEF TimeoutIInv
<1>3. TimeoutIInv /\ [Streams!Next]_Streams!vars =>
        [t_stream' = "errored" /\ t_stream = "open" =>
           \E c \in Clients : clock[c] = "set" /\ copy[c] # "finished"]_Streams!vars
  <2> SUFFICES ASSUME TimeoutIInv, Streams!Next, t_stream' # t_stream
               PROVE  \E c \in Clients : clock[c] = "set" /\ copy[c] # "finished"
    OBVIOUS
  <2>1. PICK c \in Clients : Streams!MessageTimeout(c)
    BY DEF Streams!Next, Streams!Publish, Streams!PublishTimeout, Streams!Answer,
           Streams!Deliver, Streams!Finish, Streams!Leave
  <2> QED
    BY <2>1 DEF Streams!MessageTimeout, TimeoutIInv, Streams!TypeOK, Streams!NoTimerLeft
<1> QED
  BY <1>1, <1>2, <1>3, TimeoutNext, PTL DEF Streams!Spec, Streams!ErrorOnlyForLate,
     Streams!FlowControlled

---------------------------------------------------------------------------
(* The flag of an open connection stands only while its carrier is over its *)
(* mark, so that a 'drain' is to come for whatever is held back; and a      *)
(* message is handed only once to the connections that were open.           *)
Carrier ==
  /\ asked \in [Conns -> 0..MaxRequests]
  /\ held \in [Conns -> Nat] /\ backlog \in [Conns -> Nat]
  /\ over \in [Conns -> BOOLEAN] /\ b_flag = over
  /\ \A c \in Conns : held[c] <= asked[c]
  /\ \A c \in open : b_flag[c] \/ held[c] > 0 => backlog[c] >= Mark

Handed ==
  /\ stage \in [Messages -> {"new", "given"}]
  /\ todo \in [Messages -> SUBSET open]
  /\ b_reached \in [Messages -> SUBSET Conns] /\ skipped \in [Messages -> SUBSET Conns]
  /\ \A m \in Messages :
       /\ stage[m] = "new" => todo[m] \union b_reached[m] \union skipped[m] = {}
       /\ todo[m] \intersect (b_reached[m] \union skipped[m]) = {}
       /\ b_reached[m] \intersect skipped[m] = {}

BackoffIInv == open \subseteq Conns /\ Carrier /\ Handed

(* Writes that leave the carrier over its mark set the flag. *)
LEMMA WrittenStep ==
  ASSUME Backpressure!BackoffAssumption, BackoffIInv, NEW c \in Conns, NEW from \in Nat,
         NEW n \in Nat,
         NEW b \in BOOLEAN, Backpressure!Written(c, from, n, b, b), b => from >= Mark,
         c \in open => held'[c] = 0 \/ from + n >= Mark,
         held'[c] <= asked'[c],
         held' \in [Conns -> Nat], \A d \in Conns \ {c} : held'[d] = held[d],
         asked' \in [Conns -> 0..MaxRequests], \A d \in Conns : asked'[d] >= asked[d],
         UNCHANGED open
  PROVE  Carrier'
<1>1. Mark \in Nat /\ MaxRequests \in Nat
  BY DEF Backpressure!BackoffAssumption
<1>2. /\ backlog' = [backlog EXCEPT ![c] = from + n]
      /\ over' = [over EXCEPT ![c] = b \/ (n > 0 /\ from + n >= Mark)]
      /\ b_flag' = [b_flag EXCEPT ![c] = b \/ (n > 0 /\ from + n >= Mark)]
  BY DEF Backpressure!Written
<1>3. b_flag' = over' /\ over' \in [Conns -> BOOLEAN]
  BY <1>2 DEF BackoffIInv, Carrier
<1>4. backlog' \in [Conns -> Nat] /\ backlog'[c] = from + n
  BY <1>2 DEF BackoffIInv, Carrier
<1>5. b_flag'[c] => from + n >= Mark
  BY <1>1, <1>2 DEF BackoffIInv, Carrier
<1>6. \A d \in Conns \ {c} : b_flag'[d] = b_flag[d] /\ backlog'[d] = backlog[d]
  BY <1>2 DEF BackoffIInv, Carrier
<1>7. ASSUME NEW d \in open', b_flag'[d] \/ held'[d] > 0 PROVE backlog'[d] >= Mark
  <2>1. CASE d = c
    BY <1>4, <1>5, <1>7, <2>1 DEF BackoffIInv
  <2>2. CASE d # c
    BY <1>6, <1>7, <2>2 DEF BackoffIInv, Carrier
  <2> QED
    BY <2>1, <2>2
<1>8. \A d \in Conns : held'[d] <= asked'[d]
  BY <1>1 DEF BackoffIInv, Carrier
<1> QED
  BY <1>3, <1>4, <1>7, <1>8 DEF Carrier

LEMMA HandedStays ==
  ASSUME BackoffIInv, UNCHANGED <<open, Backpressure!messages>>
  PROVE  open' \subseteq Conns /\ Handed'
BY DEF BackoffIInv, Handed, Backpressure!messages

(* A response goes out, or is held behind the flag. *)
LEMMA RespondStep ==
  ASSUME Backpressure!BackoffAssumption, BackoffIInv, NEW c \in Conns,
         Backpressure!Respond(c)
  PROVE  BackoffIInv'
<1>1. /\ c \in open /\ asked[c] < MaxRequests /\ asked' = [asked EXCEPT ![c] = @ + 1]
      /\ UNCHANGED <<open, Backpressure!messages>>
  BY DEF Backpressure!Respond
<1>2. /\ asked' \in [Conns -> 0..MaxRequests] /\ asked'[c] = asked[c] + 1
      /\ \A d \in Conns : asked'[d] >= asked[d]
  BY <1>1 DEF BackoffIInv, Carrier, Backpressure!BackoffAssumption
<1>3. CASE b_flag[c] /\ held' = [held EXCEPT ![c] = @ + 1] /\ UNCHANGED <<backlog, over, b_flag>>
  <2>1. held' \in [Conns -> Nat] /\ \A d \in Conns : held'[d] <= asked'[d]
    BY <1>1, <1>2, <1>3 DEF BackoffIInv, Carrier, Backpressure!BackoffAssumption
  <2>2. \A d \in open' : b_flag'[d] \/ held'[d] > 0 => backlog'[d] >= Mark
    BY <1>1, <1>3 DEF BackoffIInv, Carrier
  <2>3. Carrier'
    BY <1>2, <1>3, <2>1, <2>2 DEF BackoffIInv, Carrier
  <2> QED
    BY <1>1, <2>3, HandedStays DEF BackoffIInv
<1>4. CASE ~b_flag[c] /\ Backpressure!Written(c, backlog[c], 1, over[c], b_flag[c]) /\ UNCHANGED held
  <2>1. over[c] = FALSE /\ b_flag[c] = FALSE
    BY <1>4 DEF BackoffIInv, Carrier
  <2>2. Backpressure!Written(c, backlog[c], 1, FALSE, FALSE)
    BY <1>4, <2>1
  <2>3. /\ backlog[c] \in Nat /\ held' \in [Conns -> Nat] /\ held'[c] <= asked'[c]
        /\ held'[c] = 0 \/ backlog[c] + 1 >= Mark
    BY <1>1, <1>2, <1>4 DEF BackoffIInv, Carrier, Backpressure!BackoffAssumption
  <2>4. Carrier'
    BY <1>1, <1>2, <1>4, <2>2, <2>3, WrittenStep
  <2> QED
    BY <1>1, <2>4, HandedStays DEF BackoffIInv
<1> QED
  BY <1>3, <1>4 DEF Backpressure!Respond

(* The carrier empties, and what was held is written. *)
LEMMA FlushStep ==
  ASSUME Backpressure!BackoffAssumption, BackoffIInv, NEW c \in Conns, Backpressure!Flush(c)
  PROVE  BackoffIInv'
<1>1. c \in open /\ UNCHANGED <<open, asked, Backpressure!messages>>
  BY DEF Backpressure!Flush
<1>2. /\ asked' \in [Conns -> 0..MaxRequests] /\ \A d \in Conns : asked'[d] >= asked[d]
  BY <1>1 DEF BackoffIInv, Carrier, Backpressure!BackoffAssumption
<1>3. CASE Backpressure!Replay(c)
  <2>1. held' = [held EXCEPT ![c] = 0] /\ Backpressure!Written(c, 0, held[c], FALSE, FALSE)
    BY <1>3 DEF Backpressure!Replay
  <2>2. /\ held[c] \in Nat /\ held' \in [Conns -> Nat] /\ held'[c] = 0 /\ held'[c] <= asked'[c]
        /\ \A d \in Conns \ {c} : held'[d] = held[d]
    BY <1>1, <1>2, <2>1 DEF BackoffIInv, Carrier, Backpressure!BackoffAssumption
  <2>3. Carrier'
    BY <1>1, <1>2, <2>1, <2>2, WrittenStep
  <2> QED
    BY <1>1, <2>3, HandedStays DEF BackoffIInv
<1>4. CASE backlog[c] < Mark /\ backlog' = [backlog EXCEPT ![c] = 0]
           /\ UNCHANGED <<held, over, b_flag>>
  <2>1. ~b_flag[c] /\ ~(held[c] > 0) /\ backlog' \in [Conns -> Nat]
    BY <1>1, <1>4 DEF BackoffIInv, Carrier, Backpressure!BackoffAssumption
  <2>2. Carrier'
    BY <1>1, <1>4, <2>1 DEF BackoffIInv, Carrier
  <2> QED
    BY <1>1, <2>2, HandedStays DEF BackoffIInv
<1> QED
  BY <1>3, <1>4 DEF Backpressure!Flush

(* A message is handed to a connection, or dropped for it. *)
LEMMA GiveStep ==
  ASSUME Backpressure!BackoffAssumption, BackoffIInv, NEW m \in Messages, NEW c \in Conns,
         Backpressure!Give(m, c)
  PROVE  BackoffIInv'
<1>1. c \in todo[m] /\ todo' = [todo EXCEPT ![m] = @ \ {c}] /\ UNCHANGED stage
  BY DEF Backpressure!Give
<1>4. /\ c \in Conns /\ c \notin b_reached[m] \union skipped[m] /\ stage[m] # "new"
      /\ todo' \in [Messages -> SUBSET open]
      /\ \A n \in Messages : todo'[n] \subseteq todo[n] /\ c \notin todo'[m]
  BY <1>1 DEF BackoffIInv, Handed
<1>2. CASE Backpressure!Skips(m, c) /\ skipped' = [skipped EXCEPT ![m] = @ \union {c}]
           /\ UNCHANGED <<Backpressure!conns, b_reached>>
  <2>1. Handed'
    BY <1>1, <1>2, <1>4 DEF BackoffIInv, Handed, Backpressure!conns
  <2> QED
    BY <1>2, <2>1 DEF BackoffIInv, Carrier, Backpressure!conns
<1>3. CASE b_reached' = [b_reached EXCEPT ![m] = @ \union {c}]
           /\ Backpressure!Written(c, backlog[c], 1, over[c], b_flag[c])
           /\ UNCHANGED <<open, asked, held, skipped>>
  <2>1. Handed'
    BY <1>1, <1>3, <1>4 DEF BackoffIInv, Handed
  <2>2. PICK b \in BOOLEAN : b = b_flag[c] /\ b = over[c]
    BY DEF BackoffIInv, Carrier
  <2>3. Backpressure!Written(c, backlog[c], 1, b, b)
    BY <1>3, <2>2
  <2>4. c \in open
    BY <1>1 DEF BackoffIInv, Handed
  <2>5. /\ backlog[c] \in Nat /\ held' \in [Conns -> Nat] /\ held'[c] <= asked'[c]
        /\ held'[c] = 0 \/ backlog[c] + 1 >= Mark
        /\ b => backlog[c] >= Mark
    BY <1>3, <2>2, <2>4 DEF BackoffIInv, Carrier, Backpressure!BackoffAssumption
  <2>6. /\ asked' \in [Conns -> 0..MaxRequests] /\ \A d \in Conns : asked'[d] >= asked[d]
    BY <1>3 DEF BackoffIInv, Carrier, Backpressure!BackoffAssumption
  <2>7. Carrier'
    BY <1>3, <2>3, <2>5, <2>6, WrittenStep
  <2> QED
    BY <1>3, <2>1, <2>7 DEF BackoffIInv
<1> QED
  BY <1>2, <1>3 DEF Backpressure!Give

(* Every step keeps the invariant. *)
LEMMA BackoffNext ==
  ASSUME Backpressure!BackoffAssumption
  PROVE  BackoffIInv /\ [Backpressure!Next]_Backpressure!vars => BackoffIInv'
<1> SUFFICES ASSUME BackoffIInv, [Backpressure!Next]_Backpressure!vars PROVE BackoffIInv'
  OBVIOUS
<1>1. ASSUME NEW c \in Conns, Backpressure!Respond(c) PROVE BackoffIInv'
  BY <1>1, RespondStep
<1>2. ASSUME NEW c \in Conns, Backpressure!Data(c) PROVE BackoffIInv'
  <2>1. Carrier'
    BY <1>2 DEF Backpressure!Data, BackoffIInv, Carrier, Backpressure!BackoffAssumption
  <2> QED
    BY <1>2, <2>1, HandedStays DEF Backpressure!Data, BackoffIInv
<1>3. ASSUME NEW c \in Conns, Backpressure!Flush(c) PROVE BackoffIInv'
  BY <1>3, FlushStep
<1>4. ASSUME NEW c \in Conns, Backpressure!Close(c) PROVE BackoffIInv'
  <2>1. Carrier'
    BY <1>4 DEF Backpressure!Close, BackoffIInv, Carrier, Backpressure!BackoffAssumption
  <2>2. Handed'
    BY <1>4 DEF Backpressure!Close, BackoffIInv, Handed
  <2> QED
    BY <1>4, <2>1, <2>2 DEF Backpressure!Close, BackoffIInv
<1>5. ASSUME NEW m \in Messages, Backpressure!Filter(m) PROVE BackoffIInv'
  <2>1. Handed'
    BY <1>5 DEF Backpressure!Filter, BackoffIInv, Handed, Backpressure!conns
  <2> QED
    BY <1>5, <2>1 DEF Backpressure!Filter, BackoffIInv, Carrier, Backpressure!conns
<1>6. ASSUME NEW m \in Messages, NEW c \in Conns, Backpressure!Give(m, c) PROVE BackoffIInv'
  BY <1>6, GiveStep
<1>7. CASE UNCHANGED Backpressure!vars
  BY <1>7 DEF Backpressure!vars, BackoffIInv, Carrier, Handed
<1> QED
  BY <1>1, <1>2, <1>3, <1>4, <1>5, <1>6, <1>7 DEF Backpressure!Next

(* backoff: the flag follows the carrier, what is held waits for a 'drain'  *)
(* that is to come, and a message is kept only from a connection that is    *)
(* over its mark.                                                           *)
LEMMA BackoffFlag ==
  ASSUME Backpressure!BackoffAssumption
  PROVE  Backpressure!Spec => Backpressure!FlowControlled
<1>1. Backpressure!Init => BackoffIInv
  BY DEF Backpressure!Init, BackoffIInv, Carrier, Handed, Backpressure!BackoffAssumption
<1>2. BackoffIInv => Backpressure!TypeOK /\ Backpressure!FlagFollows
  BY DEF BackoffIInv, Carrier, Handed, Backpressure!TypeOK, Backpressure!FlagFollows,
         Backpressure!BackoffAssumption
<1>3. BackoffIInv /\ [Backpressure!Next]_Backpressure!vars =>
        [\A m \in Messages : \A c \in skipped'[m] \ skipped[m] : over[c]]_Backpressure!vars
  <2> SUFFICES ASSUME BackoffIInv, Backpressure!Next, NEW m \in Messages,
                      NEW c \in skipped'[m] \ skipped[m]
               PROVE  over[c]
    OBVIOUS
  <2>1. PICK n \in Messages, d \in Conns : Backpressure!Give(n, d)
    BY DEF Backpressure!Next, Backpressure!Respond, Backpressure!Data,
           Backpressure!Flush, Backpressure!Close, Backpressure!Filter,
           Backpressure!messages
  <2>2. Backpressure!Skips(n, d) /\ skipped' = [skipped EXCEPT ![n] = @ \union {d}]
    BY <2>1 DEF Backpressure!Give
  <2>3. c = d
    BY <2>2 DEF BackoffIInv, Handed
  <2> QED
    BY <2>2, <2>3 DEF Backpressure!Skips, BackoffIInv, Carrier
<1>4. [Backpressure!Next /\ UNCHANGED mode]_<<Backpressure!vars, mode>> => [Backpressure!Next]_Backpressure!vars
  OBVIOUS
<1> QED
  BY <1>1, <1>2, <1>3, <1>4, BackoffNext, PTL DEF Backpressure!Spec,
     Backpressure!SkippedWhenOver, Backpressure!FlowControlled

---------------------------------------------------------------------------
FullIInv ==
  /\ streams \in [Conns -> 0..MaxOpen]
  /\ late \in [Conns -> Nat]
  /\ f_flag \in [Conns -> BOOLEAN]
  /\ \A m \in Messages : f_reached[m] \intersect missed[m] = {}
  /\ f_reached \in [Messages -> SUBSET Conns]
  /\ missed \in [Messages -> SUBSET Conns]
  /\ MuxLimit!FullKnown

(* One more stream on one mux. *)
LEMMA AddedStep ==
  ASSUME MuxLimit!FullAssumption, FullIInv, NEW c \in Conns, ~MuxLimit!AtLimit(c),
         MuxLimit!Added(c),
         UNCHANGED <<f_flag, missed, f_reached>>
  PROVE  FullIInv'
<1>1. MaxOpen \in Nat /\ streams[c] + 1 \in 0..MaxOpen
  BY DEF MuxLimit!FullAssumption, FullIInv, MuxLimit!AtLimit
<1>2. streams' \in [Conns -> 0..MaxOpen] /\ streams'[c] = streams[c] + 1
  BY <1>1 DEF MuxLimit!Added, FullIInv
<1>3. late' = [late EXCEPT ![c] = IF streams'[c] = MaxOpen THEN @ + 1 ELSE @]
  BY DEF MuxLimit!Added
<1>4. late' \in [Conns -> Nat] /\ (streams'[c] = MaxOpen => late'[c] # 0)
  BY <1>1, <1>3 DEF FullIInv
<1>5. \A d \in Conns : d # c => streams'[d] = streams[d] /\ late'[d] = late[d]
  BY <1>3 DEF MuxLimit!Added, FullIInv
<1>6. MuxLimit!FullKnown'
  BY <1>4, <1>5 DEF FullIInv, MuxLimit!FullKnown, MuxLimit!AtLimit
<1> QED
  BY <1>2, <1>4, <1>6 DEF FullIInv

(* A message handed out: a mux with the last of its streams will say so,    *)
(* one that refuses the stream has said so.                                 *)
LEMMA MessageStep ==
  ASSUME MuxLimit!FullAssumption, FullIInv, NEW m \in Messages, MuxLimit!Message(m)
  PROVE  FullIInv'
<1>1. /\ missed' = [missed EXCEPT ![m] = MuxLimit!Skipped \union {c \in Conns : MuxLimit!AtLimit(c)}]
      /\ f_reached' = [f_reached EXCEPT ![m] = Conns \ missed'[m]]
  BY DEF MuxLimit!Message
<1>2. /\ missed' \in [Messages -> SUBSET Conns] /\ f_reached' \in [Messages -> SUBSET Conns]
      /\ \A n \in Messages : f_reached'[n] \intersect missed'[n] = {}
      /\ \A c \in Conns : MuxLimit!AtLimit(c) => c \notin f_reached'[m]
  BY <1>1 DEF FullIInv, MuxLimit!Skipped
<1>3. PICK r : r = f_reached'[m]
  OBVIOUS
<1>4. streams' = [c \in Conns |-> streams[c] + IF c \in r THEN 1 ELSE 0]
  BY <1>3 DEF MuxLimit!Message
<1>5. ASSUME NEW c \in Conns
      PROVE  /\ streams'[c] \in 0..MaxOpen
             /\ c \notin r => streams'[c] = streams[c]
  BY <1>2, <1>3, <1>4 DEF FullIInv, MuxLimit!AtLimit, MuxLimit!FullAssumption
<1>6. late' = [c \in Conns |-> late[c] + IF c \in r /\ streams'[c] = MaxOpen THEN 1 ELSE 0]
  BY <1>3 DEF MuxLimit!Message
<1>7. ASSUME NEW c \in Conns
      PROVE  /\ late'[c] \in Nat
             /\ c \in r /\ streams'[c] = MaxOpen => late'[c] # 0
             /\ late'[c] = 0 => late[c] = 0
  BY <1>6 DEF FullIInv
<1>8. f_flag' \in [Conns -> BOOLEAN] /\ \A c \in Conns : f_flag[c] => f_flag'[c]
  BY DEF MuxLimit!Message, FullIInv
<1>9. MuxLimit!FullKnown'
  BY <1>5, <1>7, <1>8 DEF FullIInv, MuxLimit!FullKnown, MuxLimit!AtLimit
<1> QED
  BY <1>2, <1>4, <1>5, <1>6, <1>7, <1>8, <1>9 DEF FullIInv

(* Every step keeps the invariant. *)
LEMMA FullNext ==
  ASSUME MuxLimit!FullAssumption
  PROVE  FullIInv /\ [MuxLimit!Next]_MuxLimit!vars => FullIInv'
<1> SUFFICES ASSUME FullIInv, [MuxLimit!Next]_MuxLimit!vars PROVE FullIInv'
  OBVIOUS
<1>1. ASSUME NEW c \in Conns, MuxLimit!Open(c) PROVE FullIInv'
  <2>1. CASE ~MuxLimit!AtLimit(c) /\ MuxLimit!Added(c) /\ UNCHANGED f_flag
    BY <1>1, <2>1, AddedStep DEF MuxLimit!Open
  <2>2. CASE MuxLimit!AtLimit(c) /\ f_flag' = [f_flag EXCEPT ![c] = TRUE] /\ UNCHANGED <<streams, late>>
    BY <1>1, <2>2 DEF MuxLimit!Open, FullIInv, MuxLimit!FullKnown, MuxLimit!AtLimit
  <2> QED
    BY <1>1, <2>1, <2>2 DEF MuxLimit!Open
<1>2. ASSUME NEW c \in Conns, MuxLimit!LateFull(c) PROVE FullIInv'
  BY <1>2 DEF MuxLimit!LateFull, MuxLimit!OnFull, FullIInv, MuxLimit!FullKnown,
              MuxLimit!AtLimit
<1>3. ASSUME NEW c \in Conns, MuxLimit!Removed(c) PROVE FullIInv'
  BY <1>3 DEF MuxLimit!Removed, MuxLimit!OnRemoved, FullIInv, MuxLimit!FullKnown,
              MuxLimit!AtLimit, MuxLimit!FullAssumption
<1>4. ASSUME NEW m \in Messages, MuxLimit!Message(m) PROVE FullIInv'
  BY <1>4, MessageStep
<1>5. CASE UNCHANGED MuxLimit!vars
  BY <1>5 DEF MuxLimit!vars, FullIInv, MuxLimit!FullKnown, MuxLimit!AtLimit
<1> QED
  BY <1>1, <1>2, <1>3, <1>4, <1>5 DEF MuxLimit!Next

(* full: a connection that is full has its flag once its mux has said so,   *)
(* whatever 'removed' came before.                                          *)
LEMMA FullFlag ==
  ASSUME MuxLimit!FullAssumption
  PROVE  MuxLimit!Spec => MuxLimit!FlowControlled
<1>1. MuxLimit!Init => FullIInv
  BY DEF MuxLimit!Init, FullIInv, MuxLimit!FullKnown, MuxLimit!AtLimit,
         MuxLimit!FullAssumption
<1>2. FullIInv => MuxLimit!TypeOK /\ MuxLimit!FullKnown
  BY DEF FullIInv, MuxLimit!TypeOK
<1>3. [MuxLimit!Next /\ UNCHANGED mode]_<<MuxLimit!vars, mode>> => [MuxLimit!Next]_MuxLimit!vars
  OBVIOUS
<1> QED
  BY <1>1, <1>2, <1>3, FullNext, PTL DEF MuxLimit!Spec, MuxLimit!FlowControlled

---------------------------------------------------------------------------
(* A behaviour of all is one of each. *)
LEMMA EachPart ==
  FlowSpec => /\ Spec /\ Frame!Spec /\ Expiry!Spec /\ Streams!Spec
              /\ Backpressure!Spec /\ MuxLimit!Spec
<1>1. FlowInit => /\ Init /\ Frame!Init /\ Expiry!Init /\ Streams!Init
                  /\ Backpressure!Init /\ MuxLimit!Init
  BY DEF FlowInit
<1>2. [FlowNext]_flow_vars => [Next]_vars
  BY DEF FlowNext, flow_vars, vars
<1>3. [FlowNext]_flow_vars => [Frame!Next /\ UNCHANGED body]_<<Frame!vars, body>>
  BY DEF FlowNext, flow_vars, frame_vars, Frame!vars
<1>4. [FlowNext]_flow_vars => [Expiry!Next]_Expiry!vars
  BY DEF FlowNext, flow_vars, schedule_vars, Expiry!vars
<1>5. [FlowNext]_flow_vars => [Streams!Next]_Streams!vars
  BY DEF FlowNext, flow_vars, timeout_vars, Streams!vars
<1>6. [FlowNext]_flow_vars =>
        [Backpressure!Next /\ UNCHANGED mode]_<<Backpressure!vars, mode>>
  BY DEF FlowNext, flow_vars, backoff_vars, Backpressure!vars
<1>7. [FlowNext]_flow_vars => [MuxLimit!Next /\ UNCHANGED mode]_<<MuxLimit!vars, mode>>
  BY DEF FlowNext, flow_vars, full_vars, MuxLimit!vars
<1> QED
  BY <1>1, <1>2, <1>3, <1>4, <1>5, <1>6, <1>7, PTL
     DEF FlowSpec, Spec, Frame!Spec, Expiry!Spec, Streams!Spec, Backpressure!Spec,
         MuxLimit!Spec

(* pipeline: the default handler takes an event only after every handler   *)
(* there is by then, in the order they were attached, whatever is attached *)
(* while the event is held.                                                *)
THEOREM DefaultHandlerLast == FlowSpec => DefaultLast
BY EachPart, PipelineDefaultLast, PTL

(* read_frame: one result counts, a frame that counts is the one that was  *)
(* sent, and the next reader gets exactly what follows it.                 *)
THEOREM FirstFrame == FlowSpec => []FrameKept
BY FlowAssumption, EachPart, FrameCorrect, PTL DEF FrameKept

(* schedule: f is not called before its time nor after its timer was       *)
(* cleared, and the chain wakes no more often than the longest timer makes *)
(* it.                                                                     *)
THEOREM TimerOnTime == FlowSpec => ExpiryOnTime
BY FlowAssumption, EachPart, ScheduleCorrect, PTL DEF ExpiryOnTime

(* backoff, full and timeout: the flag of a connection follows its carrier *)
(* and its mux, what is held waits for a 'drain' that is to come, only a   *)
(* connection's own backoff keeps a message from it, and only a client     *)
(* that is late puts an error on a stream.                                 *)
THEOREM FlowIsControlled == FlowSpec => FlowControlled
BY FlowAssumption, EachPart, BackoffFlag, FullFlag, TimeoutsOnlyForLate, PTL
   DEF FlowControlled
=============================================================================
