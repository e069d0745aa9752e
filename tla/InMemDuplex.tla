----------------------------- MODULE InMemDuplex -----------------------------
(***************************************************************************)
(* The pair of streams of the in-mem transport (which http uses too): the  *)
(* client's LeftDuplex and the server's RightDuplex.  A write pushes its   *)
(* chunk to the other side and calls back when that has room for more: in  *)
(* a tick, or when it asks for more.  The Writable and the Readable half   *)
(* of a side are Node's and modelled by their contract: one _write at a    *)
(* time, _read when the buffer is below its mark and not asked already.    *)
(*                                                                         *)
(* An operator named Bug... is a plausible mistake in the definition that  *)
(* follows it; the specification does not use it.                          *)
(***************************************************************************)
EXTENDS Integers, Sequences

CONSTANTS
  Mark,  \* highWaterMark, in chunks
  Uses   \* bounds on the chunks a side writes and the errors it raises

ASSUME InMemAssumption ==
  /\ Mark \in Nat \ {0}
  /\ Uses \subseteq [chunks : Nat, errors : Nat]

Sides == {"left", "right"}
Other == [s \in Sides |-> IF s = "left" THEN "right" ELSE "left"]

VARIABLES
  most,     \* the bounds of this behaviour
  sent,     \* how many chunks each side has written
  out,      \* chunks of a side that were not passed to its _write yet
  writing,  \* sides with a _write that has not called back
  ticks,    \* callbacks of a side's _write that are scheduled
  held,     \* sides that hold a callback of the other: _cb
  buf,      \* what was pushed to a side and not read
  asked,    \* sides whose _read was called since the last push
  got,      \* what a side has read
  fin,      \* the writing half: open, ending (end was called), final (_final ran)
  eof,      \* the reading half: open, pushed (the end), end ('end' was emitted)
  life,     \* of a side: up, destroyed, closed
  waiting,  \* the timer of destroy_wait is running
  raised,   \* errors emitted on a side by its user
  crossing, \* errors of the other side on their way to a side
  heard     \* errors of the other side emitted on a side

flow == <<sent, out, writing, ticks, held, buf, asked, got, fin, eof>>
ends == <<life, waiting>>
errors == <<raised, crossing, heard>>
vars == <<flow, ends, errors>>

Init ==
  /\ most \in Uses
  /\ sent = [s \in Sides |-> 0]
  /\ out = [s \in Sides |-> <<>>]
  /\ writing = {} /\ held = {} /\ asked = {}
  /\ ticks = [s \in Sides |-> 0]
  /\ buf = [s \in Sides |-> <<>>]
  /\ got = [s \in Sides |-> <<>>]
  /\ fin = [s \in Sides |-> "open"]
  /\ eof = [s \in Sides |-> "open"]
  /\ life = [s \in Sides |-> "up"]
  /\ waiting = FALSE
  /\ raised = [s \in Sides |-> 0]
  /\ crossing = [s \in Sides |-> 0]
  /\ heard = [s \in Sides |-> 0]

Up(s) == life[s] = "up"

---------------------------------------------------------------------------
(* The user of a side writes a chunk, or ends. *)
Write(s) ==
  /\ Up(s) /\ fin[s] = "open" /\ sent[s] < most.chunks
  /\ sent' = [sent EXCEPT ![s] = @ + 1]
  /\ out' = [out EXCEPT ![s] = Append(@, sent[s] + 1)]
  /\ UNCHANGED <<writing, ticks, held, buf, asked, got, fin, eof, ends, errors>>

End(s) ==
  /\ Up(s) /\ fin[s] = "open"
  /\ fin' = [fin EXCEPT ![s] = "ending"]
  /\ UNCHANGED <<sent, out, writing, ticks, held, buf, asked, got, eof, ends, errors>>

(* _write: push to the other side; what is pushed to a destroyed stream is *)
(* lost.  The callback waits where the push asked to stop.                 *)
Pushed(s) == IF Up(Other[s]) THEN Append(buf[Other[s]], Head(out[s])) ELSE buf[Other[s]]

BugWriteCall(s) ==
  /\ Up(s) /\ s \notin writing /\ out[s] # <<>>
  /\ writing' = writing \union {s}
  /\ out' = [out EXCEPT ![s] = Tail(@)]
  /\ buf' = [buf EXCEPT ![Other[s]] = Pushed(s)]
  /\ asked' = asked \ {Other[s]}
  /\ IF Len(Pushed(s)) < Mark
       THEN ticks' = [ticks EXCEPT ![s] = @ + 1] /\ UNCHANGED held
       ELSE held' = held \union {s} /\ UNCHANGED ticks
  /\ UNCHANGED <<sent, got, fin, eof, ends, errors>>

BugWriteNoWait(s) ==
  /\ Up(s) /\ s \notin writing /\ out[s] # <<>>
  /\ writing' = writing \union {s}
  /\ out' = [out EXCEPT ![s] = Tail(@)]
  /\ buf' = [buf EXCEPT ![Other[s]] = Pushed(s)]
  /\ asked' = asked \ {Other[s]}
  /\ ticks' = [ticks EXCEPT ![s] = @ + 1]
  /\ UNCHANGED <<held, sent, got, fin, eof, ends, errors>>

WriteCall(s) ==
  /\ Up(s) /\ s \notin writing /\ out[s] # <<>>
  /\ writing' = writing \union {s}
  /\ out' = [out EXCEPT ![s] = Tail(@)]
  /\ buf' = [buf EXCEPT ![Other[s]] = Pushed(s)]
  /\ asked' = asked \ {Other[s]}
  /\ IF Len(Pushed(s)) < Mark
       THEN ticks' = [ticks EXCEPT ![s] = @ + 1] /\ UNCHANGED held
       ELSE held' = held \union {Other[s]} /\ UNCHANGED ticks
  /\ UNCHANGED <<sent, got, fin, eof, ends, errors>>

(* The callback of _write. *)
WriteBack(s) ==
  /\ ticks[s] > 0
  /\ ticks' = [ticks EXCEPT ![s] = @ - 1]
  /\ writing' = writing \ {s}
  /\ UNCHANGED <<sent, out, held, buf, asked, got, fin, eof, ends, errors>>

(* _read: a held callback is called in a tick. *)
BugReadCall(s) ==
  /\ Up(s) /\ s \notin asked /\ Len(buf[s]) < Mark /\ eof[s] = "open"
  /\ asked' = asked \union {s}
  /\ IF s \in held
       THEN ticks' = [ticks EXCEPT ![Other[s]] = @ + 1]
       ELSE UNCHANGED ticks
  /\ UNCHANGED <<held, sent, out, writing, buf, got, fin, eof, ends, errors>>

ReadCall(s) ==
  /\ Up(s) /\ s \notin asked /\ Len(buf[s]) < Mark /\ eof[s] = "open"
  /\ asked' = asked \union {s}
  /\ IF s \in held
       THEN /\ held' = held \ {s}
            /\ ticks' = [ticks EXCEPT ![Other[s]] = @ + 1]
       ELSE UNCHANGED <<held, ticks>>
  /\ UNCHANGED <<sent, out, writing, buf, got, fin, eof, ends, errors>>

(* The user of a side reads a chunk. *)
Read(s) ==
  /\ Up(s) /\ buf[s] # <<>>
  /\ got' = [got EXCEPT ![s] = Append(@, Head(buf[s]))]
  /\ buf' = [buf EXCEPT ![s] = Tail(@)]
  /\ UNCHANGED <<sent, out, writing, ticks, held, asked, fin, eof, ends, errors>>

(* _final, when everything was passed to _write and called back. *)
BugFinal(s) ==
  /\ Up(s) /\ fin[s] = "ending"
  /\ fin' = [fin EXCEPT ![s] = "final"]
  /\ eof' = [eof EXCEPT ![Other[s]] = IF Up(Other[s]) THEN "pushed" ELSE @]
  /\ UNCHANGED <<sent, out, writing, ticks, held, buf, asked, got, ends, errors>>

Final(s) ==
  /\ Up(s) /\ fin[s] = "ending" /\ out[s] = <<>> /\ s \notin writing
  /\ fin' = [fin EXCEPT ![s] = "final"]
  /\ eof' = [eof EXCEPT ![Other[s]] = IF Up(Other[s]) THEN "pushed" ELSE @]
  /\ UNCHANGED <<sent, out, writing, ticks, held, buf, asked, got, ends, errors>>

(* 'end': nothing is half open, the side ends too; and the transport       *)
(* destroys the right side.                                                *)
EndRead(s) ==
  /\ Up(s) /\ eof[s] = "pushed" /\ buf[s] = <<>>
  /\ eof' = [eof EXCEPT ![s] = "end"]
  /\ fin' = [fin EXCEPT ![s] = IF @ = "open" THEN "ending" ELSE @]
  /\ waiting' = (waiting \/ s = "right")
  /\ UNCHANGED <<sent, out, writing, ticks, held, buf, asked, got, life, errors>>

---------------------------------------------------------------------------
Destroyed(S) == [s \in Sides |-> IF s \in S /\ Up(s) THEN "destroyed" ELSE life[s]]

(* The client destroys its side, or autoDestroy does when both halves are  *)
(* done.                                                                   *)
DestroyLeft ==
  /\ Up("left")
  /\ life' = Destroyed({"left"})
  /\ UNCHANGED <<flow, waiting, errors>>

(* destroy of the right side: both sides, at once or after destroy_wait.   *)
DestroyRight(now) ==
  /\ Up("right")
  /\ IF now THEN life' = Destroyed(Sides) /\ UNCHANGED waiting
            ELSE waiting' = TRUE /\ UNCHANGED life
  /\ UNCHANGED <<flow, errors>>

WaitEnds ==
  /\ waiting
  /\ waiting' = FALSE
  /\ life' = Destroyed(Sides)
  /\ UNCHANGED <<flow, errors>>

(* 'close': that of the left side destroys the right one at once. *)
BugClose(s) ==
  /\ life[s] = "destroyed"
  /\ life' = [life EXCEPT ![s] = "closed"]
  /\ UNCHANGED <<flow, waiting, errors>>

Close(s) ==
  /\ life[s] = "destroyed"
  /\ life' = [Destroyed(IF s = "left" THEN Sides ELSE {}) EXCEPT ![s] = "closed"]
  /\ UNCHANGED <<flow, waiting, errors>>

(* 'error' on one side reaches the listeners of the other in a tick, and   *)
(* does not come back.                                                     *)
Raise(s) ==
  /\ Up(s) /\ raised[s] < most.errors
  /\ raised' = [raised EXCEPT ![s] = @ + 1]
  /\ crossing' = [crossing EXCEPT ![Other[s]] = @ + 1]
  /\ UNCHANGED <<flow, ends, heard>>

BugHear(s) ==
  /\ crossing[s] > 0 /\ heard[s] <= most.errors
  /\ crossing' = [crossing EXCEPT ![s] = @ - 1, ![Other[s]] = @ + 1]
  /\ heard' = [heard EXCEPT ![s] = @ + 1]
  /\ UNCHANGED <<flow, ends, raised>>

Hear(s) ==
  /\ crossing[s] > 0
  /\ crossing' = [crossing EXCEPT ![s] = @ - 1]
  /\ heard' = [heard EXCEPT ![s] = @ + 1]
  /\ UNCHANGED <<flow, ends, raised>>

Next ==
  \/ \E s \in Sides :
       \/ Write(s) \/ End(s) \/ WriteCall(s) \/ WriteBack(s) \/ ReadCall(s)
       \/ Read(s) \/ Final(s) \/ EndRead(s) \/ Close(s) \/ Raise(s) \/ Hear(s)
  \/ DestroyLeft \/ DestroyRight(TRUE) \/ DestroyRight(FALSE) \/ WaitEnds

Spec == Init /\ [][Next /\ UNCHANGED most]_<<vars, most>>

(* Ticks, timers and events are delivered, Node calls _write, _read and    *)
(* _final, and users read what is there.                                   *)
Delivery ==
  /\ \A s \in Sides :
       /\ WF_vars(WriteCall(s)) /\ WF_vars(WriteBack(s))
       /\ WF_vars(Read(s)) /\ WF_vars(Final(s)) /\ WF_vars(EndRead(s))
       /\ WF_vars(Close(s))
  /\ WF_vars(WaitEnds)

FairSpec == Spec /\ Delivery /\ \A s \in Sides : WF_vars(ReadCall(s))

---------------------------------------------------------------------------
TypeOK ==
  /\ sent \in [Sides -> Nat]
  /\ out \in [Sides -> Seq(Nat)]
  /\ writing \subseteq Sides /\ held \subseteq Sides /\ asked \subseteq Sides
  /\ ticks \in [Sides -> Nat]
  /\ buf \in [Sides -> Seq(Nat)]
  /\ got \in [Sides -> Seq(Nat)]
  /\ fin \in [Sides -> {"open", "ending", "final"}]
  /\ eof \in [Sides -> {"open", "pushed", "end"}]
  /\ life \in [Sides -> {"up", "destroyed", "closed"}]
  /\ waiting \in BOOLEAN
  /\ raised \in [Sides -> Nat] /\ crossing \in [Sides -> Nat] /\ heard \in [Sides -> Nat]

(* Every _write that has not called back has one callback on its way, at   *)
(* the other side or in a tick: none is lost and none is called twice.     *)
OneCallback ==
  \A s \in Sides :
    ticks[s] + (IF Other[s] \in held THEN 1 ELSE 0) = IF s \in writing THEN 1 ELSE 0

(* Back-pressure: a side never holds more than its mark for its reader.    *)
BackPressure == \A s \in Sides : Len(buf[s]) <= Mark

(* Errors cross once and do not come back. *)
ErrorsCrossOnce ==
  \A s \in Sides : heard[s] + crossing[s] = raised[Other[s]]

(* What is on its way to a side that is up is what it has not read yet,    *)
(* complete and in order.                                                  *)
InTransitTo(s) ==
  LET o == Other[s]
      read == Len(got[s])
      pushed == Len(buf[s])
  IN /\ read + pushed + Len(out[o]) = sent[o]
     /\ \A i \in 1..pushed : buf[s][i] = read + i
     /\ \A i \in 1..Len(out[o]) : out[o][i] = read + pushed + i

InTransit == \A s \in Sides : Up(s) => InTransitTo(s)

(* The end comes last: after everything was passed to _write, and read.    *)
EndLastOf(s) ==
  /\ fin[s] = "final" => out[s] = <<>>
  /\ eof[s] # "open" => fin[Other[s]] = "final"
  /\ Up(s) /\ eof[s] = "end" => buf[s] = <<>>

EndLast == \A s \in Sides : EndLastOf(s)

(* The inductive invariant: all of these, and a side that has reached its  *)
(* mark holds the callback of the last push.                               *)
IInv ==
  /\ TypeOK /\ OneCallback /\ BackPressure /\ ErrorsCrossOnce
  /\ InTransit /\ EndLast
  /\ \A s \in Sides : Len(buf[s]) = Mark => s \in held

(* What a side writes is read, unless a side is destroyed: no write waits  *)
(* for ever.                                                               *)
AllArrives ==
  \A s \in Sides : \A n \in UNION {1..use.chunks : use \in Uses} :
    sent[s] = n ~> Len(got[Other[s]]) >= n \/ ~Up("left") \/ ~Up("right")

(* A pair does not stay half destroyed. *)
BothClose == ~Up("left") \/ ~Up("right") ~> \A s \in Sides : life[s] = "closed"

(* The pair keeps the promises of a channel. *)
Chan == INSTANCE Channel WITH
  ended <- {s \in Sides : fin[s] # "open"},
  eof <- {s \in Sides : eof[s] = "end"},
  broken <- {s \in Sides : ~Up(s)}

IsChannel == Chan!Spec
=============================================================================
