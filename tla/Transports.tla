----------------------------- MODULE Transports -----------------------------
(***************************************************************************)
(* The transports: the pair of in-memory streams, and the streams of http2 *)
(* and of http2-duplex.  They share no state: a behaviour is about one     *)
(* part, and the other stays as it begins.                                 *)
(***************************************************************************)
EXTENDS InMemDuplex

CONSTANTS Sessions, Streams, SessionOf, MaxConnections

VARIABLES
  part,
  awaits, num_streams, transport, session, stage, open, events, counting, watched, told

http2_vars ==
  <<num_streams, transport, session, stage, open, events, counting, watched, told>>

Http2 == INSTANCE Http2Streams

ASSUME TransportsAssumption == Chan!ChannelAssumption /\ Http2!Http2Assumption

AnyUse == CHOOSE use \in Uses : TRUE

TransportsInit ==
  /\ part \in {"in_mem", "http2"}
  /\ Init /\ Http2!Init
  /\ part # "in_mem" => most = AnyUse
  /\ part # "http2" => ~awaits

TransportsNext ==
  /\ UNCHANGED <<part, most, awaits>>
  /\ \/ part = "in_mem" /\ Next /\ UNCHANGED http2_vars
     \/ part = "http2" /\ Http2!Next /\ UNCHANGED vars

TransportsFairness ==
  /\ Delivery /\ \A s \in Sides : WF_vars(part = "in_mem" /\ ReadCall(s))
  /\ Http2!Fairness

TransportsSpec ==
  /\ TransportsInit
  /\ [][TransportsNext]_<<part, most, awaits, vars, http2_vars>>
  /\ TransportsFairness

---------------------------------------------------------------------------
(* num_streams of http2 and http2-duplex is the number of live streams and *)
(* within the limit, whichever event tells of the end of a stream first;   *)
(* and after the close of the transport no stream of it is open.           *)
Http2CountExact == Http2!Http2CountExact

(* The server hears of the close of each http2 connection once, and of     *)
(* each that it was given, also when the duplex is made after an await.    *)
Http2ServerToldOnce == Http2!Http2ServerToldOnce

(* In the end every chunk is read or the pair is broken, a broken pair has *)
(* closed on both sides, and the count of a closed http2 transport is back *)
(* at nothing.                                                             *)
TransportsSettle == AllArrives /\ BothClose /\ Http2!CountReturns
=============================================================================
