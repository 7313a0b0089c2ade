----------------------------- MODULE MCWaiting ------------------------------
(***************************************************************************)
(* One run for the two modules in which somebody waits and a timer bounds  *)
(* the wait: the daemon's socket client and the locked file writer.  They  *)
(* share no state: an initial state chooses the part that moves.  No fair  *)
(* action of the other is enabled in its initial state.                    *)
(***************************************************************************)
EXTENDS MCAgentFile, DaemonSocket, FiniteSets

CONSTANTS m1, m2, r1

VARIABLE part

MCVars == <<fileVars, socketVars, part>>

MCInit == part \in {"file", "socket"} /\ FileInit /\ SocketInit

MCNext ==
  /\ UNCHANGED part
  /\ \/ part = "file" /\ FileNext /\ UNCHANGED socketVars
     \/ part = "socket" /\ SocketNext /\ UNCHANGED fileVars

MCSpec == MCInit /\ [][MCNext]_MCVars /\ FileFairness /\ SocketFairness

(* Of updates of one process, and of mutating commands, whichever is used    *)
(* first has the first name, so that of states which differ in names only    *)
(* one is explored.                                                          *)
InOrder ==
  /\ pc[u2] # "idle" => pc[u1] # "idle"
  /\ verdict[m2] # "none" => verdict[m1] # "none"

(* Few things at once: three commands and one fault, or two of each; three   *)
(* updates over a crash and a recycled pid, or two over two of these each.   *)
Few ==
  /\ Cardinality({c \in Commands : verdict[c] # "none"}) + faults <= 4
  /\ Cardinality({u \in Updates : pc[u] # "idle"}) + Cardinality(recycled)
       + Cardinality({p \in Processes : process[p] = "dead"}) <= 5
=============================================================================
