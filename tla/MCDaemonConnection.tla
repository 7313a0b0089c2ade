------------------------- MODULE MCDaemonConnection -------------------------
(* Two losses with a gap each take four events, a snapshot nobody asked for  *)
(* takes the place of the last of them.                                      *)
EXTENDS DaemonConnection

Few == seq + extra <= MaxSequence
=============================================================================
