--------------------------- MODULE MCConnections ---------------------------
(***************************************************************************)
(* Small instances of Connections for TLC: two clients with one token each *)
(* (interleavings of connections), one client with two tokens              *)
(* (interleavings inside a connection).                                    *)
(***************************************************************************)
EXTENDS Connections

CONSTANTS c1, c2, u1, u2

OneConn == {c1}
TwoConns == {c1, c2}
OneUri == {u1}
TwoUris == {u1, u2}
NoUris == {}
=============================================================================
