----------------------------- MODULE LimitConn -----------------------------
(***************************************************************************)
(* limit_conn_published_messages and limit_conn_published_data             *)
(* (limit_conn.js) of one connection, attached in this order.  The         *)
(* publications of a client run side by side and share both counters.      *)
(*                                                                         *)
(* An operator named Bug... is a plausible mistake in the definition that  *)
(* follows it; the specification does not use it.                          *)
(***************************************************************************)
EXTENDS Naturals, FiniteSets

CONSTANTS
  Pubs,
  MaxMessages, \* config.max_conn_published_messages
  MaxData,     \* config.max_conn_published_data_length
  MaxChunk,    \* bound on the length of a chunk
  MaxReceived, \* bound on the data a client ever sends
  CloseConn    \* config.close_conn

\* Assumed by who instantiates this module.
LimitConnAssumption ==
  /\ IsFiniteSet(Pubs)
  /\ {MaxMessages, MaxData, MaxChunk, MaxReceived} \subseteq Nat
  /\ CloseConn \in BOOLEAN

VARIABLES
  messages,  \* count of limit_conn_published_messages
  count,     \* count of limit_conn_published_data
  status,    \* of each publication
  passed,    \* bytes the publications passed on
  destroyed  \* info.destroy was called

vars == <<messages, count, status, passed, destroyed>>

Init ==
  /\ messages = 0 /\ count = 0
  /\ status = [p \in Pubs |-> "new"]
  /\ passed = 0
  /\ destroyed = FALSE

To(p, s) == status' = [status EXCEPT ![p] = s]
Refuse(p, s) == To(p, s) /\ destroyed' = (destroyed \/ CloseConn)

BugTooMany(n) == n > MaxMessages + 1
TooMany(n) == n > MaxMessages

(* A publication begins; requests go on until the destroy has its effect.  *)
Request(p) ==
  /\ status[p] = "new"
  /\ messages' = messages + 1
  /\ \/ TooMany(messages') /\ Refuse(p, "refused")
     \/ ~TooMany(messages') /\ To(p, "passing") /\ UNCHANGED destroyed
  /\ UNCHANGED <<count, passed>>

BugCounted(n) == count' = n
BugCountedPassed(n) == count' = IF count + n > MaxData THEN count ELSE count + n
Counted(n) == count' = count + n

(* t._transform: a chunk counts before it is looked at. *)
Chunk(p) ==
  /\ status[p] = "passing"
  /\ \E n \in 1..MaxChunk :
       /\ count + n <= MaxReceived
       /\ Counted(n)
       /\ \/ /\ count + n > MaxData
             /\ Refuse(p, "failed")
             /\ UNCHANGED passed
          \/ /\ count + n <= MaxData
             /\ passed' = passed + n
             /\ UNCHANGED <<status, destroyed>>
  /\ UNCHANGED messages

End(p) ==
  /\ status[p] = "passing"
  /\ To(p, "done")
  /\ UNCHANGED <<messages, count, passed, destroyed>>

Next == \E p \in Pubs : Request(p) \/ Chunk(p) \/ End(p)

Spec == Init /\ [][Next]_vars

---------------------------------------------------------------------------
(* Values of the right kind; a destroy only where one was configured, and  *)
(* then with every publication that was refused or failed.                 *)
TypeOK ==
  /\ messages = Cardinality({p \in Pubs : status[p] # "new"})
  /\ count \in 0..MaxReceived
  /\ destroyed = (CloseConn /\ \E p \in Pubs : status[p] \in {"refused", "failed"})

(* No more than the limit passes, however the chunks of the publications   *)
(* are interleaved.                                                        *)
DataWithinLimit == passed <= MaxData

(* No more publications than the limit pass. *)
MessagesWithinLimit ==
  Cardinality({p \in Pubs : status[p] \in {"passing", "failed", "done"}}) <= MaxMessages

(* Once the client has sent too much nothing passes any more, not even a   *)
(* publication that is small enough.                                       *)
CutOffForGood ==
  [][(\E p \in Pubs : status[p] = "failed") => passed' = passed]_vars

(* What passes of a connection's publications and of their data is within  *)
(* the limits, and once the client has sent too much nothing passes.       *)
PublishedWithinLimits ==
  /\ [](TypeOK /\ DataWithinLimit /\ MessagesWithinLimit)
  /\ CutOffForGood
=============================================================================
