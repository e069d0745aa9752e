---------------------------- MODULE MCTransports ----------------------------
(***************************************************************************)
(* The transports for TLC: a pair of in-memory streams, and two sessions   *)
(* of http2, one with two streams and one with one.                        *)
(***************************************************************************)
EXTENDS Transports, TLC

\* Two chunks each way, or an error.
MCUses == {[chunks |-> 2, errors |-> 0], [chunks |-> 0, errors |-> 1]}

MCSessionOf == "s1" :> "x1" @@ "s2" :> "x1" @@ "s3" :> "x2"
=============================================================================
