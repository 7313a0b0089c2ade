------------------------------ MODULE WorkerSwap ------------------------------
(***************************************************************************)
(* Prompts of one session and the worker that runs them.  The prompt text  *)
(* of OpenUI is fixed when a worker is created, so a prompt that asks for  *)
(* another one has the worker replaced: the bridge queues a transition     *)
(* (web/server/src/prime-bridge.ts), and the wrapper around the session's  *)
(* connection kills the worker and reopens the session in a new one        *)
(* (daemon-runtime.ts).  A fork swaps the worker as well, and a deletion   *)
(* ends it.                                                                *)
(*                                                                         *)
(* The worker is external: it runs what was sent to it, all of it in one   *)
(* turn, and answers wait_for_idle when nothing it was sent is left.  Two  *)
(* states of OpenUI stand for all; what a prompt says is left out.         *)
(***************************************************************************)
EXTENDS Naturals, SequencesExt

CONSTANTS
  Prompts,          \* POSTs of prompts
  MaxForks,         \* bound: forks
  MaxSwapFaults     \* bound: steps of a swap that fail

ASSUME WorkerSwapAssumption == {MaxForks, MaxSwapFaults} \subseteq Nat

VARIABLES
  prompt,           \* each POST: where it is and what it wants
  openUI,           \* session.openUIPrompt of the bridge
  isStreaming,      \* session.isStreaming of the bridge
  transitions,      \* #openUIPromptTransitions of the session: the chain
  operations,       \* the wrapper's reconfigureTail: the chain
  connected,        \* the wrapper's current connection is open
  subscribed,       \* the bridge's listeners are on it
  wrapperPrompt,    \* openUIPrompt of the wrapper
  worker,           \* the worker of the current connection
  disposed,         \* the wrapper was told to dispose
  deletion,         \* where deleteSession is
  awaited,          \* transitions it waits for
  forkAsked,        \* forkSession of the bridge has found the session idle
  forks, swapFaults,\* so far
  killed,           \* history: prompts whose turn a swap killed
  during,           \* history: prompts sent beside a fork or a deletion
  loose             \* history: a deletion met a fork or a later prompt

bridgeState == <<prompt, openUI, isStreaming, transitions>>
wrapperState == <<operations, connected, subscribed, wrapperPrompt, worker>>
endState == <<disposed, deletion, awaited>>
counts == <<forkAsked, forks, swapFaults>>
swapHistory == <<killed, during, loose>>
swapVars == <<bridgeState, wrapperState, endState, counts, swapHistory>>

States  == {"plain", "openUI"}
NoWorker == [alive |-> FALSE, prompt |-> "plain", turn |-> {}, run |-> "none"]
NewWorker(text) == [alive |-> TRUE, prompt |-> text, turn |-> {}, run |-> "none"]

Transition(p)    == [prompt |-> p, started |-> FALSE]
Reconfigure(to)  == [kind |-> "reconfigure", to |-> to, at |-> "queued"]
Fork             == [kind |-> "fork", to |-> "plain", at |-> "queued"]

(* The bridge has listeners: a deletion takes them off.                      *)
Listening == deletion = "no"

Forking == forkAsked \/ \E i \in DOMAIN operations : operations[i].kind = "fork"

------------------------------------------------------------------------------
(* prompt() of the bridge                                                    *)

(* Mutant: only a prompt that changes the state waits for transitions.       *)
NeedsOnlyChange(p, state) == prompt[p].wants # state

(* A prompt that finds transitions queued goes behind them, whatever it      *)
(* wants: the state they leave is not known yet.                             *)
NeedsTransition(p, state) == prompt[p].wants # state \/ transitions # <<>>

(* promptAndWait on the worker w of an open connection.                      *)
SentTo(w, p, path) ==
  /\ worker' = [w EXCEPT !.turn = @ \union {p}]
  /\ prompt' = [prompt EXCEPT ![p].at = "sent", ![p].path = path, ![p].under = w.prompt]

Admitted(p, path) ==
  IF connected /\ worker.alive
  THEN SentTo(worker, p, path)
  ELSE /\ prompt' = [prompt EXCEPT ![p].at = "answered", ![p].path = path]
       /\ UNCHANGED worker

(* A prompt for an idle session first gets the worker it asks for; one for a *)
(* running turn is sent into it, and asks afterwards.                        *)
Send(p) ==
  /\ prompt[p].at = "unsent" /\ deletion # "gone"
  /\ during' = IF Forking \/ deletion # "no" THEN during \union {p} ELSE during
  /\ loose' = (loose \/ deletion # "no")
  /\ \/ /\ ~isStreaming /\ NeedsTransition(p, openUI)
        /\ transitions' = Append(transitions, Transition(p))
        /\ prompt' = [prompt EXCEPT ![p].at = "transition", ![p].path = "behind"]
        /\ UNCHANGED worker
     \/ /\ ~isStreaming /\ ~NeedsTransition(p, openUI)
        /\ Admitted(p, "direct")
        /\ UNCHANGED transitions
     \/ /\ isStreaming
        /\ Admitted(p, IF NeedsTransition(p, openUI) THEN "before" ELSE "joined")
        /\ UNCHANGED transitions
  /\ UNCHANGED <<openUI, isStreaming, operations, connected, subscribed, wrapperPrompt,
                 endState, counts, killed>>

(* The answer of promptAndWait, also a failure: a prompt that was sent into  *)
(* a running turn asks for its transition now.                               *)
Answered(p) ==
  /\ prompt[p].at = "answered"
  /\ \/ /\ prompt[p].path = "before"
        /\ prompt' = [prompt EXCEPT ![p].at = "transition"]
        /\ transitions' = Append(transitions, Transition(p))
     \/ /\ prompt[p].path # "before"
        /\ prompt' = [prompt EXCEPT ![p].at = "over"]
        /\ UNCHANGED transitions
  /\ UNCHANGED <<openUI, isStreaming, wrapperState, endState, counts, swapHistory>>

(* #setOpenUIPromptState, first part: nothing to do, or the wrapper is asked. *)
StartTransition ==
  /\ transitions # <<>> /\ ~Head(transitions).started
  /\ prompt[Head(transitions).prompt].wants # openUI
  /\ transitions' = [transitions EXCEPT ![1].started = TRUE]
  /\ operations' = Append(operations, Reconfigure(prompt[Head(transitions).prompt].wants))
  /\ UNCHANGED <<prompt, openUI, isStreaming, connected, subscribed, wrapperPrompt,
                 worker, endState, counts, swapHistory>>

SkipTransition ==
  /\ transitions # <<>> /\ ~Head(transitions).started
  /\ prompt[Head(transitions).prompt].wants = openUI
  /\ transitions' = Tail(transitions)
  /\ awaited' = IF awaited > 0 THEN awaited - 1 ELSE 0
  /\ LET p == Head(transitions).prompt
     IN  IF prompt[p].path = "behind" THEN Admitted(p, "behind")
         ELSE prompt' = [prompt EXCEPT ![p].at = "over"] /\ UNCHANGED worker
  /\ UNCHANGED <<openUI, isStreaming, operations, connected, subscribed, wrapperPrompt,
                 disposed, deletion, counts, swapHistory>>

------------------------------------------------------------------------------
(* The worker                                                                *)

(* The events of a run reach the bridge when its listeners are on: a run is  *)
(* streaming from agent_start or turn_start to turn_end or agent_end, and    *)
(* has pauses between its turns.                                             *)
Runs(run) ==
  /\ worker' = [worker EXCEPT !.run = run]
  /\ isStreaming' = IF subscribed THEN run = "turn" ELSE isStreaming
  /\ UNCHANGED <<prompt, openUI, transitions, operations, connected, subscribed,
                 wrapperPrompt, endState, counts, swapHistory>>

TurnStarts == worker.turn # {} /\ worker.run # "turn" /\ Runs("turn")

TurnPauses == worker.run = "turn" /\ Runs("pause")

(* Who waits in promptAndWait is answered.                                   *)
Unblocked(turn) ==
  [p \in Prompts |-> IF p \in turn /\ prompt[p].at = "sent"
                     THEN [prompt[p] EXCEPT !.at = "answered"] ELSE prompt[p]]

TurnEnds ==
  /\ worker.run # "none"
  /\ worker' = [worker EXCEPT !.turn = {}, !.run = "none"]
  /\ isStreaming' = (isStreaming /\ ~subscribed)
  /\ prompt' = Unblocked(worker.turn)
  /\ UNCHANGED <<openUI, transitions, operations, connected, subscribed, wrapperPrompt,
                 endState, counts, swapHistory>>

------------------------------------------------------------------------------
(* The wrapper                                                               *)

Running(kind, at) ==
  /\ operations # <<>>
  /\ Head(operations).kind = kind /\ Head(operations).at = at

Advanced(at) == [operations EXCEPT ![1].at = at]

(* An operation ends: the transition that asked for it ends with it.         *)
OperationEnds(done) ==
  /\ operations' = Tail(operations)
  /\ IF Head(operations).kind = "reconfigure"
     THEN /\ transitions' = Tail(transitions)
          /\ awaited' = IF awaited > 0 THEN awaited - 1 ELSE 0
          /\ openUI' = IF done THEN Head(operations).to ELSE openUI
     ELSE UNCHANGED <<transitions, awaited, openUI>>

(* A failed operation: the prompt that waits for it is rejected.             *)
Fails ==
  /\ OperationEnds(FALSE)
  /\ prompt' = IF Head(operations).kind = "reconfigure"
               THEN [prompt EXCEPT ![Head(transitions).prompt].at = "over"] ELSE prompt

(* waitForIdle; after a failed operation nothing answers on the connection.  *)
Begin ==
  /\ operations # <<>> /\ Head(operations).at = "queued"
  /\ \/ /\ connected /\ worker.alive /\ ~disposed
        /\ operations' = Advanced("waiting")
        /\ subscribed' = (subscribed /\ Head(operations).kind # "fork")
        /\ UNCHANGED <<prompt, transitions, awaited, openUI>>
     \/ /\ disposed \/ ~connected \/ ~worker.alive
        /\ Fails
        /\ UNCHANGED subscribed
  /\ UNCHANGED <<isStreaming, connected, wrapperPrompt, worker, disposed, deletion, counts,
                 swapHistory>>

IdleAnswered == worker.alive /\ worker.turn = {}

WorkerIdle ==
  /\ operations # <<>> /\ Head(operations).at = "waiting"
  /\ \/ IdleAnswered /\ operations' = Advanced("idle") /\ UNCHANGED <<prompt, transitions,
                                                             awaited, openUI, subscribed>>
     \/ /\ ~worker.alive
        /\ Fails
        /\ subscribed' = (subscribed \/ (Head(operations).kind = "fork" /\ Listening))
  /\ UNCHANGED <<isStreaming, connected, wrapperPrompt, worker, disposed, deletion, counts,
                 swapHistory>>

(* Mutant: the listeners stay off after a fork that was cancelled.           *)
ResubscribedNever == FALSE

(* forkToNewSession puts the listeners back when nothing was forked.         *)
Resubscribed == Listening

ForkRefused ==
  /\ Running("fork", "idle")
  /\ operations' = Tail(operations)
  /\ subscribed' = Resubscribed
  /\ UNCHANGED <<bridgeState, connected, wrapperPrompt, worker, endState, counts,
                 swapHistory>>

(* current.dispose(), after getState, or after the worker holds the fork:    *)
(* whoever still waits for an answer on the connection gets none.            *)
DisposeCurrent ==
  /\ operations # <<>> /\ Head(operations).at = "idle"
  /\ operations' = Advanced("disposed")
  /\ connected' = FALSE
  /\ subscribed' = FALSE
  /\ prompt' = Unblocked(worker.turn)
  /\ UNCHANGED <<openUI, isStreaming, transitions, wrapperPrompt, worker, endState, counts,
                 swapHistory>>

(* killDaemonSession: the turn of a prompt that came in between is lost.     *)
KillWorker ==
  /\ operations # <<>> /\ Head(operations).at = "disposed"
  /\ operations' = Advanced("killed")
  /\ killed' = killed \union worker.turn
  /\ worker' = NoWorker
  /\ UNCHANGED <<bridgeState, connected, subscribed, wrapperPrompt,
                 endState, counts, during, loose>>

(* Mutant: a fork reopens the session as it was first opened.                *)
FirstPrompt == "plain"

(* The prompt text the session had when it was forked.                       *)
RestoredPrompt == wrapperPrompt

(* adopt: the session in a new worker, with the listeners on it.  The prompt *)
(* behind the transition goes on before the next transition starts.          *)
Adopt ==
  /\ operations # <<>> /\ Head(operations).at = "killed"
  /\ LET fork == Head(operations).kind = "fork"
         text == IF fork THEN RestoredPrompt ELSE Head(operations).to
     IN  /\ wrapperPrompt' = text
         /\ IF fork
            THEN worker' = NewWorker(text) /\ UNCHANGED prompt
            ELSE LET p == Head(transitions).prompt
                 IN  IF prompt[p].path = "behind" THEN SentTo(NewWorker(text), p, "behind")
                     ELSE /\ worker' = NewWorker(text)
                          /\ prompt' = [prompt EXCEPT ![p].at = "over"]
  /\ connected' = TRUE
  /\ subscribed' = Listening
  /\ OperationEnds(TRUE)
  /\ UNCHANGED <<isStreaming, disposed, deletion, counts, swapHistory>>

(* The kill or the reopening fails, with the old connection gone.            *)
SwapFails ==
  /\ operations # <<>> /\ Head(operations).at \in {"disposed", "killed"}
  /\ swapFaults < MaxSwapFaults
  /\ swapFaults' = swapFaults + 1
  /\ Fails
  /\ UNCHANGED <<isStreaming, connected, subscribed, wrapperPrompt, worker, disposed,
                 deletion, forkAsked, forks, swapHistory>>

(* forkSession: it waits for idle and reads the tree before it asks the      *)
(* wrapper, unless the entry is not one to fork at.                          *)
AskFork ==
  /\ forks < MaxForks /\ deletion # "gone" /\ ~forkAsked
  /\ connected /\ IdleAnswered
  /\ forks' = forks + 1
  /\ forkAsked' = TRUE
  /\ during' = during \union {p \in Prompts : prompt[p].at = "transition"}
  /\ loose' = (loose \/ deletion # "no")
  /\ UNCHANGED <<bridgeState, wrapperState, endState, swapFaults, killed>>

RequestFork ==
  /\ forkAsked
  /\ forkAsked' = FALSE
  /\ operations' \in {operations, Append(operations, Fork)}
  /\ UNCHANGED <<bridgeState, connected, subscribed, wrapperPrompt, worker, endState,
                 forks, swapFaults, swapHistory>>

------------------------------------------------------------------------------
(* deleteSession                                                             *)

(* Mutant: a deletion does not wait for the transitions.                     *)
AwaitedNone == 0

AwaitedTransitions == Len(transitions)

(* The listeners are taken off, the turn is aborted: a prompt in it that has *)
(* yet to ask for its transition asks after the deletion counted them.       *)
AsksLater(p) ==
  prompt[p].at = "answered" \/ (prompt[p].at = "sent" /\ prompt[p].path = "before")

DeleteBegins ==
  /\ deletion = "no"
  /\ deletion' = "awaiting"
  /\ awaited' = AwaitedTransitions
  /\ loose' = (loose \/ Forking \/ \E p \in Prompts : AsksLater(p))
  /\ subscribed' = FALSE
  /\ worker' = [worker EXCEPT !.turn = {}, !.run = "none"]
  /\ prompt' = Unblocked(worker.turn)
  /\ UNCHANGED <<openUI, isStreaming, transitions, operations, connected, wrapperPrompt,
                 disposed, counts, killed, during>>

(* terminate: it fails when no connection answers getState.                  *)
Terminate ==
  /\ deletion = "awaiting" /\ awaited = 0
  /\ IF connected /\ worker.alive
     THEN /\ worker' = NoWorker
          /\ prompt' = Unblocked(worker.turn)
          /\ deletion' = "terminated"
     ELSE deletion' = "failing" /\ UNCHANGED <<worker, prompt>>
  /\ UNCHANGED <<openUI, isStreaming, transitions, operations, connected, subscribed,
                 wrapperPrompt, disposed, awaited, counts, swapHistory>>

(* The file is deleted; the wrapper is told to dispose, and waits.           *)
DisposeBegins ==
  /\ deletion \in {"terminated", "failing"} /\ ~disposed
  /\ disposed' = TRUE
  /\ UNCHANGED <<bridgeState, wrapperState, deletion, awaited, counts, swapHistory>>

(* Mutant: the wrapper disposes without waiting for its operations.          *)
TailIgnored == TRUE

TailSettled == operations = <<>>

DisposeEnds ==
  /\ disposed /\ deletion # "gone"
  /\ TailSettled
  /\ deletion' = "gone"
  /\ connected' = FALSE
  /\ subscribed' = FALSE
  /\ UNCHANGED <<bridgeState, operations, wrapperPrompt, worker, disposed, awaited, counts,
                 swapHistory>>

------------------------------------------------------------------------------
SwapInit ==
  /\ prompt \in [Prompts -> [at : {"unsent"}, wants : States, path : {"none"},
                             under : {"none"}]]
  /\ openUI = "plain" /\ isStreaming = FALSE /\ transitions = <<>>
  /\ operations = <<>> /\ connected = TRUE /\ subscribed = TRUE
  /\ wrapperPrompt = "plain" /\ worker = NewWorker("plain")
  /\ disposed = FALSE /\ deletion = "no" /\ awaited = 0
  /\ forkAsked = FALSE /\ forks = 0 /\ swapFaults = 0
  /\ killed = {} /\ during = {} /\ loose = FALSE

SwapNext ==
  \/ \E p \in Prompts : Send(p) \/ Answered(p)
  \/ StartTransition \/ SkipTransition \/ TurnStarts \/ TurnPauses \/ TurnEnds
  \/ Begin \/ WorkerIdle \/ ForkRefused \/ DisposeCurrent \/ KillWorker \/ Adopt
  \/ SwapFails \/ AskFork \/ RequestFork
  \/ DeleteBegins \/ Terminate \/ DisposeBegins \/ DisposeEnds

SwapSpec == SwapInit /\ [][SwapNext]_swapVars

------------------------------------------------------------------------------
(* Properties                                                                *)

SwapTypeOK ==
  /\ \A p \in Prompts :
       prompt[p].at \in {"unsent", "transition", "sent", "answered", "over"}
  /\ openUI \in States /\ wrapperPrompt \in States
  /\ {isStreaming, connected, subscribed, disposed, loose} \subseteq BOOLEAN
  /\ worker.turn \subseteq Prompts /\ worker.run \in {"none", "turn", "pause"}
  /\ \A i \in DOMAIN transitions : prompt[transitions[i].prompt].at = "transition"
  /\ deletion \in {"no", "awaiting", "terminated", "failing", "gone"}
  /\ awaited \in 0 .. Len(transitions)

(* "Commit the prompt state before admitting the next prompt" (prime-bridge  *)
(* .ts:1206): however prompts, transitions and forks interleave, a prompt is *)
(* sent to a worker made for what it asks, unless a turn was running then    *)
(* and its transition has to come after it.                                  *)
PromptRunsAsAsked ==
  \A p \in Prompts :
    prompt[p].under # "none" /\ prompt[p].path # "before"
      => prompt[p].under = prompt[p].wants

(* A worker is replaced between turns: no prompt's turn is killed by a swap, *)
(* as long as none was sent beside a fork, which prompts do not wait for and *)
(* which hides the end of such a turn from the bridge.                       *)
NoTurnKilled == killed # {} => during # {}

(* When no swap is under way, the bridge's listeners are on the connection   *)
(* that serves the session, also after a fork that failed or was cancelled,  *)
(* and it knows whether a turn runs, unless one began beside a fork.         *)
ListenersFollow ==
  operations = <<>> /\ deletion = "no" /\ connected =>
    subscribed /\ (during = {} => isStreaming = (worker.run = "turn"))

(* A deletion leaves nothing behind: no open connection, and, when it        *)
(* terminated the worker with no fork or prompt beside it, no worker.        *)
NothingLeftBehind ==
  deletion = "gone" =>
    /\ ~connected
    /\ ~loose => (~worker.alive \/ swapFaults > 0)
=============================================================================
