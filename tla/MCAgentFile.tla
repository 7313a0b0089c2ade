----------------------------- MODULE MCAgentFile -----------------------------
(* Two requests of one server and one of its successor (or of a server on    *)
(* the same directory, where Shared).                                        *)
EXTENDS AgentFile

CONSTANTS p1, p2, u1, u2, u3

MCUpdates == {u1, u2, u3}
MCHome == [u \in MCUpdates |-> IF u = u3 THEN p2 ELSE p1]
=============================================================================
