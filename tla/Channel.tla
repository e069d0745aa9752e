------------------------------- MODULE Channel -------------------------------
(***************************************************************************)
(* What a pair of connected streams promises its two users: what one       *)
(* writes the other reads, in order, once, and complete before the end;    *)
(* until the pair is broken.  Chunk n of a side is the number n.           *)
(***************************************************************************)
EXTENDS Naturals, Sequences

CONSTANTS Sides, Other

\* Assumed by who instantiates this module.
ChannelAssumption == Other \in [Sides -> Sides]

VARIABLES
  sent,     \* how many chunks each side has written
  got,      \* the chunks each side has read
  ended,    \* sides that have ended what they write
  eof,      \* sides that have read the end of what the other wrote
  broken    \* sides for which the pair is broken

vars == <<sent, got, ended, eof, broken>>

Init ==
  /\ sent = [s \in Sides |-> 0]
  /\ got = [s \in Sides |-> <<>>]
  /\ ended = {} /\ eof = {} /\ broken = {}

Write(s) ==
  /\ s \notin ended \union broken
  /\ sent' = [sent EXCEPT ![s] = @ + 1]
  /\ UNCHANGED <<got, ended, eof, broken>>

End(s) ==
  /\ s \notin ended \union broken
  /\ ended' = ended \union {s}
  /\ UNCHANGED <<sent, got, eof, broken>>

(* The next chunk, and no other. *)
Read(s) ==
  /\ s \notin eof \union broken
  /\ Len(got[s]) < sent[Other[s]]
  /\ got' = [got EXCEPT ![s] = Append(@, Len(@) + 1)]
  /\ UNCHANGED <<sent, ended, eof, broken>>

(* The end comes after everything, and is answered by an end. *)
ReadEnd(s) ==
  /\ s \notin eof \union broken
  /\ Other[s] \in ended
  /\ Len(got[s]) = sent[Other[s]]
  /\ eof' = eof \union {s}
  /\ ended' = ended \union {s}
  /\ UNCHANGED <<sent, got, broken>>

(* One side goes first, or both together. *)
Break ==
  /\ \E B \in SUBSET Sides : B # {} /\ broken' = broken \union B
  /\ UNCHANGED <<sent, got, ended, eof>>

Next == \/ \E s \in Sides : Write(s) \/ End(s) \/ Read(s) \/ ReadEnd(s)
        \/ Break

Spec == Init /\ [][Next]_vars
=============================================================================
