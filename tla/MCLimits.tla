------------------------------ MODULE MCLimits ------------------------------
(***************************************************************************)
(* What a client is allowed, for TLC.                                      *)
(***************************************************************************)
EXTENDS Limits

\* Two issuers and topics, one of which contains ${self}: pairs of tokens that
\* differ in what they let the client publish, subscribe to and receive, and in
\* what they presubscribe; up to three that differ in their claims.
SelfInX(t) == IF t = "x" THEN "x of this connection" ELSE t

MCPublish ==
  [iss : {"A", "B"}, allow : SUBSET {"x", "y"}, disallow : SUBSET {"x"},
   block : SUBSET {"x"}, disallow_single : BOOLEAN, subscribe : SUBSET {"y"},
   subscribe_allow : {{}}, subscribe_disallow : {{}},
   presence : {NoClaim}, ack : {NoClaim}]

MCSubscribe ==
  [iss : {"A", "B"}, allow : {{}}, disallow : {{}}, block : SUBSET {"x"},
   disallow_single : {FALSE}, subscribe : {{}},
   subscribe_allow : SUBSET {"x", "y"}, subscribe_disallow : SUBSET {"x"},
   presence : {NoClaim}, ack : {NoClaim}]

MCRights == MCPublish \union MCSubscribe

MCClaims ==
  [iss : {"A", "B"}, allow : {{"x"}}, disallow : {{}}, block : {{}},
   disallow_single : {FALSE}, subscribe : {{}},
   subscribe_allow : {{}}, subscribe_disallow : {{}},
   presence : {"here", "there", NoClaim}, ack : {"got", "had", NoClaim}]

MCTokens == MCRights \union MCClaims
MCPresented ==
  UNION {[1..n -> MCRights] : n \in 1..2} \union UNION {[1..n -> MCClaims] : n \in 1..3}

\* Two connections and topics, two requests under way.
MCPresubscribed == [c \in Conns |-> {}]

\* Four connections with a socket each, or three requests on one socket.
MCSocketMaps ==
  {[c \in Callers |-> c], [c \in Callers |-> IF c = "c4" THEN "c4" ELSE "c1"]}
=============================================================================
