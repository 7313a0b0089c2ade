--------------------------- MODULE CommandOutcome ---------------------------
(***************************************************************************)
(* What the daemon client promises about one command sent at most once     *)
(* (web/server/src/daemon-socket-client.ts): an answer means the command   *)
(* ran, a plain failure of a mutating command means it did not run and     *)
(* never will, and whatever lies between is reported as unknown.           *)
(***************************************************************************)
CONSTANTS
  Commands,        \* the requests made over the client's life
  Mutating         \* those that change something at the daemon

VARIABLES
  executed,        \* commands the daemon has run
  verdict          \* what the caller's promise has settled to

Open     == {"none", "waiting"}
Verdicts == Open \union {"answered", "failed", "unknown"}

Init ==
  /\ executed = {}
  /\ verdict = [c \in Commands |-> "none"]

(* A command runs at most once, and not after the caller was told that it    *)
(* failed.                                                                   *)
Execute(c) ==
  /\ c \notin executed
  /\ verdict[c] # "none"
  /\ c \in Mutating => verdict[c] # "failed"
  /\ executed' = executed \union {c}
  /\ UNCHANGED verdict

Send(c) ==
  /\ verdict[c] = "none"
  /\ verdict' = [verdict EXCEPT ![c] = "waiting"]
  /\ UNCHANGED executed

(* The callers that are told something at once: one about an answer, any     *)
(* number about a broken connection.                                         *)
Settle(cs) ==
  /\ \A c \in cs : verdict[c] \in Open
  /\ \E told \in [cs -> {"answered", "failed", "unknown"}] :
       /\ \A c \in cs : told[c] = "answered" => c \in executed
       /\ \A c \in cs \intersect Mutating : told[c] = "failed" => verdict[c] = "none"
       /\ verdict' = [c \in Commands |-> IF c \in cs THEN told[c] ELSE verdict[c]]
  /\ UNCHANGED executed

Next ==
  \/ \E c \in Commands : Execute(c) \/ Send(c)
  \/ \E cs \in SUBSET Commands : Settle(cs)

Spec == Init /\ [][Next]_<<executed, verdict>>
=============================================================================
