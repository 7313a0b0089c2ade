--------------------------------- MODULE MCSession ---------------------------------
(***************************************************************************)
(* One run for the four modules about a session that is used: the stream   *)
(* of a child, the swap of its worker, the turns, and the transcript of a  *)
(* run.  They share no state: an initial state chooses the part that       *)
(* moves, and the states of the run are those of the four modules, side by *)
(* side.                                                                   *)
(***************************************************************************)
EXTENDS ChildStream, WorkerSwap, Turn, MCRunTranscript

VARIABLE part

MCVars == <<childVars, swapVars, turnVars, runVars, part>>

(* What does not move has one initial state.                                *)
Still ==
  /\ part # "swap" => \A p \in Prompts : prompt[p].wants = "plain"
  /\ part # "turn" => shown = NoSession
  /\ part # "run" => ~run.streams /\ ~run.announces

MCInit ==
  /\ part \in {"child", "swap", "turn", "run"}
  /\ ChildInit /\ TurnInit /\ SwapInit /\ RunInit
  /\ Still

MCNext ==
  /\ UNCHANGED part
  /\ \/ part = "child" /\ ChildNext /\ UNCHANGED <<swapVars, turnVars, runVars>>
     \/ part = "swap" /\ SwapNext /\ UNCHANGED <<childVars, turnVars, runVars>>
     \/ part = "turn" /\ TurnNext /\ UNCHANGED <<childVars, swapVars, runVars>>
     \/ part = "run" /\ RunNext /\ UNCHANGED <<childVars, swapVars, turnVars>>

MCSpec == MCInit /\ [][MCNext]_MCVars

MCTypeOK ==
  \/ part = "child" /\ ChildTypeOK
  \/ part = "swap" /\ SwapTypeOK
  \/ part = "turn" /\ TurnTypeOK
  \/ part = "run" /\ RunTypeOK

(* Prompts, messages and sessions are numbers: whichever is used first has   *)
(* the lowest, so that of states which differ in names only one is explored. *)
FirstOf(S, all) == \A x \in S, y \in all : y < x => y \in S

InOrder ==
  /\ FirstOf({p \in Prompts : prompt[p].at # "unsent"}, Prompts)
  /\ FirstOf(known, Sessions)
  /\ \A i, j \in DOMAIN submitted : i < j => submitted[i] < submitted[j]
  /\ FirstOf(Range(submitted), Messages)

Counted(condition) == IF condition THEN 1 ELSE 0

(* Few things at once: both panels and one event, or one panel and both      *)
(* events; all three prompts and one of a fork, a failed swap and a          *)
(* deletion, or two prompts and two of these; all three messages and one     *)
(* disturbance, or two of each.                                              *)
Few ==
  /\ Cardinality({v \in Viewers : viewer[v].at # "away"}) + emitted <= 3
  /\ Cardinality({p \in Prompts : prompt[p].at # "unsent"})
       + forks + swapFaults + Counted(deletion # "no") <= 4
  /\ Len(submitted) + Disturbed <= 4
=============================================================================
