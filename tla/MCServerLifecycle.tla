------------------------- MODULE MCServerLifecycle -------------------------
(* Two transports, one of them in-mem, two clients and two callers of close, *)
(* one of whom knows the continuation that an error comes with.              *)
EXTENDS ServerLifecycle

CONSTANTS c1, c2, k1, k2

MCConns == {c1, c2}
MCCallers == {k1, k2}
MCContinues == {k1}
MCInMem == {1}
StartFaults == {"authorize", "start", "listen"}
CloseFaults == {"close_authz", "close_transport"}
MCFaultCases == {{}, StartFaults, CloseFaults, {"start"} \union CloseFaults}
StartFault == {{"start"}}
ListenFault == {{"listen"}}
=============================================================================
