------------------------------ MODULE Schedule ------------------------------
(***************************************************************************)
(* schedule (server.js): a timer for a time further away than setTimeout   *)
(* can wait is a chain of timers; update is told of each, so that whoever  *)
(* cancels has the one that is set.  Used for the expiry of tokens.        *)
(*                                                                         *)
(* The clock is Date's: it may jump ahead, and a timer may fire late.      *)
(*                                                                         *)
(* An operator named Bug... is a plausible mistake in the definition that  *)
(* follows it; the specification does not use it.                          *)
(***************************************************************************)
EXTENDS Integers

CONSTANTS
  MaxDelay, \* max_settimeout
  MaxTime   \* bound on the clock

\* Assumed by who instantiates this module.
ScheduleAssumption == {MaxDelay, MaxTime} \subseteq Nat \ {0}

Nothing == 0 \* no timer: the timers that are set are numbered from 1

VARIABLES
  now,       \* the clock
  t,         \* the time asked for
  due,       \* when the timer that is set fires, at the earliest
  last,      \* its callback is f, not another schedule
  handle,    \* the timer whose number update was told last
  number,    \* timers set so far
  fired,     \* f was called
  cancelled  \* the holder cleared the timer it knows

vars == <<now, t, due, last, handle, number, fired, cancelled>>

Smaller(a, b) == IF a < b THEN a ELSE b

(* setTimeout: a delay that does not fit becomes the shortest there is.    *)
SetTimeout(delay, f) ==
  /\ due' = now + (IF delay > MaxDelay THEN 1 ELSE delay)
  /\ last' = f
  /\ number' = number + 1

BugDelay == t - now

(* How long the next timer of the chain waits. *)
Delay == Smaller(t - now, MaxDelay)

BugUpdate == handle' = IF handle = Nothing THEN number' ELSE handle
Update == handle' = number'

Chain ==
  /\ \/ t > now /\ SetTimeout(Delay, FALSE)
     \/ t <= now /\ SetTimeout(0, TRUE)
  /\ Update

Init ==
  /\ now \in 0..MaxTime /\ t \in 0..MaxTime
  /\ due = 0 /\ last = FALSE
  /\ handle = Nothing /\ number = 0
  /\ fired = FALSE /\ cancelled = FALSE

Ask ==
  /\ number = 0
  /\ Chain
  /\ UNCHANGED <<now, t, fired, cancelled>>

(* The timer that is set has not been cleared. *)
Pending == number > 0 /\ ~fired /\ (cancelled => handle # number)

BugOnTimer ==
  /\ fired' = TRUE
  /\ UNCHANGED <<due, last, number, handle>>

BugOnTimerOnce ==
  /\ fired' = last
  /\ UNCHANGED <<due, last, number, handle>>

OnTimer ==
  \/ last /\ fired' = TRUE /\ UNCHANGED <<due, last, number, handle>>
  \/ ~last /\ Chain /\ UNCHANGED fired

Fire ==
  /\ Pending /\ now >= due
  /\ OnTimer
  /\ UNCHANGED <<now, t, cancelled>>

(* The connection goes: the timer it knows of is cleared. *)
Cancel ==
  /\ number > 0 /\ ~cancelled
  /\ cancelled' = TRUE
  /\ UNCHANGED <<now, t, due, last, handle, number, fired>>

Tick ==
  /\ now < MaxTime
  /\ now' \in (now + 1)..MaxTime
  /\ UNCHANGED <<t, due, last, handle, number, fired, cancelled>>

Next == Ask \/ Fire \/ Cancel \/ Tick

Spec == Init /\ [][Next]_vars

(* Somebody asks, the clock goes on, and timers fire. *)
FairSpec == Spec /\ WF_vars(Ask) /\ WF_vars(Fire) /\ WF_vars(Tick)

---------------------------------------------------------------------------
TypeOK ==
  /\ {now, t} \subseteq 0..MaxTime
  /\ due \in 0..(MaxTime + MaxDelay) /\ number \in Nat /\ handle \in Nothing..number
  /\ {last, fired, cancelled} \subseteq BOOLEAN

(* f is never called before its time. *)
NotEarly == fired => now >= t

(* f is not called after the holder cleared the timer it was told of,      *)
(* however many timers the chain had set before.                           *)
CancelHolds == [][fired' # fired => ~cancelled]_vars

(* The chain wakes seldom: all its timers but two wait as long as a timer  *)
(* can.                                                                    *)
WakesSeldom == (number - 2) * MaxDelay <= MaxTime

(* When f is called, and what it takes. *)
ExpiryOnTime == [](TypeOK /\ NotEarly /\ WakesSeldom) /\ CancelHolds

(* f is called in the end unless the timer is cleared.                     *)
Fires == <>(fired \/ cancelled)
=============================================================================
