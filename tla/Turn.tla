--------------------------------- MODULE Turn ---------------------------------
(***************************************************************************)
(* Sending messages: the composer of the browser (web/app/src/components/  *)
(* chat/use-pi-chat-messaging.ts, use-pi-chat.ts), the POST that carries a *)
(* message and streams its turn (web/server/src/handlers/chat.ts), and the *)
(* turns of the sessions.                                                  *)
(*                                                                         *)
(* A message either starts a turn of its own, and its POST feeds the view, *)
(* or is queued behind a turn that runs.  The runtime of a session is      *)
(* external: it takes a prompt into the turn that runs, or starts one.  Of *)
(* what is on the screen, kept are the session it belongs to and the       *)
(* bubbles shown before the runtime has the message.  A continuation of a  *)
(* promise is an action, so it may come later here than it does.           *)
(***************************************************************************)
EXTENDS Naturals, SequencesExt

CONSTANTS
  Messages,         \* what the user sends
  Sessions,         \* chat sessions
  NoSession,        \* none is selected yet
  MaxDisturbances   \* bound: presses of stop, changes of the session, requests
                    \* and streams that fail, all together

ASSUME TurnAssumption ==
  /\ NoSession \notin Sessions
  /\ MaxDisturbances \in Nat

VARIABLES
  message,          \* each message: its send, as far as it got
  wire,             \* frames on the way to the browser, for each POST
  post,             \* the POST in the server
  accepted,         \* messages the runtime has, in the order it got them
  turn,             \* per session: the prompts of its turn
  known,            \* sessions that exist
  shown,            \* sessionMetadataRef: the selected session
  status,           \* the composer's status
  screen,           \* whose transcript is shown, and the optimistic bubbles
  admissions,       \* streamAdmissionsRef: turns whose start was not seen
  asking,           \* who waits for sessionCreatePromiseRef, the asker first
  pending,          \* pendingSendControllerRef
  controller,       \* streamControllersRef
  recovery,         \* the message whose recovery is current
  navigation,       \* the latest request for another session
  submitted,        \* history: the messages in the order the user sent them
  adopted,          \* history: a created session replaced the selected one
  disowned,         \* history: a turn went on when stop had dropped its admission
  stops, navigations, turnFaults

serverVars == <<wire, post, accepted, turn>>
viewVars   == <<shown, status, screen>>
ownVars    == <<asking, pending, controller, recovery>>
countVars  == <<stops, navigations, turnFaults>>
turnVars   == <<message, serverVars, known, viewVars, admissions, ownVars, navigation,
                submitted, adopted, disowned, countVars>>

Unsent == [at |-> "unsent", kind |-> "none", session |-> NoSession, on |-> {},
           started |-> FALSE, done |-> FALSE, aborted |-> FALSE, end |-> "none"]

(* streamIsVisible                                                           *)
SameSession(m) == message[m].session = shown

Busy == status \in {"submitted", "streaming"}

AdmissionsOf(s) == {a \in admissions : message[a].session = s}

Disturbed == stops + navigations + turnFaults
Fault     == Disturbed < MaxDisturbances /\ turnFaults' = turnFaults + 1

------------------------------------------------------------------------------
(* How a send ends                                                           *)

(* The finally of sendMessage.  Queued messages that wait for an admission   *)
(* which is rejected are rejected with it.                                   *)
Rejected(gone) == {q \in Messages : message[q].at = "waiting" /\ message[q].on \cap gone # {}}

Over(m, end) ==
  [Unsent EXCEPT !.at = "over", !.kind = message[m].kind, !.session = message[m].session,
                 !.end = end]

(* A response the browser gave up: the server takes its listener off.        *)
GivenUp(ms) ==
  /\ wire' = [m \in Messages |-> IF m \in ms THEN <<>> ELSE wire[m]]
  /\ post' = [m \in Messages |-> IF m \in ms /\ post[m] = "open" THEN "closed" ELSE post[m]]

Released(gone) ==
  /\ admissions' = admissions \ gone
  /\ pending' = pending \ gone
  /\ controller' = [s \in Sessions |-> controller[s] \ gone]

(* The sends `ends` are over, each with its end; `lost` bubbles are removed. *)
Finish(ends, lost) ==
  LET over     == DOMAIN ends
      rejected == Rejected(over) \ over
  IN  /\ message' = [q \in Messages |->
                       CASE q \in over -> Over(q, ends[q])
                         [] q \in rejected -> Over(q, "told")
                         [] OTHER -> message[q]]
      /\ Released(over)
      /\ screen' = [screen EXCEPT !.bubbles = @ \ (lost \union rejected)]

(* Mutant: a turn that failed before it was admitted keeps its bubble.       *)
KeepsItsBubble(m) == IF message[m].started THEN {m} ELSE {}

(* The bubbles that go with a failed send.                                   *)
Withdrawn(m) == {m}

(* The catch of sendMessage: an error of a turn that is not shown is only    *)
(* seen in the list of sessions.                                             *)
Fail(m) ==
  LET hidden == message[m].session # NoSession /\ ~SameSession(m)
  IN  /\ Finish([q \in {m} |-> IF hidden THEN "hidden" ELSE "told"], Withdrawn(m))
      /\ status' = IF hidden THEN status ELSE "error"

------------------------------------------------------------------------------
(* Sending                                                                   *)

Queues == Busy \/ AdmissionsOf(shown) # {}

StartTurn(m) ==
  /\ status' = "submitted"
  /\ screen' = [screen EXCEPT !.bubbles = @ \union {m}]
  /\ admissions' = admissions \union {m}
  /\ pending' = {m}
  /\ IF shown = NoSession
     THEN /\ asking' = Append(asking, m)
          /\ message' = [message EXCEPT ![m].at = "creating", ![m].kind = "main"]
          /\ UNCHANGED <<controller, post>>
     ELSE /\ message' = [message EXCEPT ![m].at = "posting", ![m].kind = "main",
                                        ![m].session = shown]
          /\ controller' = [controller EXCEPT ![shown] = {m}]
          /\ post' = [post EXCEPT ![m] = "sent"]
          /\ UNCHANGED asking

(* enqueueDuringStream, up to the promise of the submission before.          *)
Enqueue(m) ==
  /\ IF shown = NoSession
     THEN /\ asking' = Append(asking, m)
          /\ message' = [message EXCEPT ![m].at = "creating", ![m].kind = "queued"]
          /\ UNCHANGED screen
     ELSE /\ message' = [message EXCEPT ![m].at = "chained", ![m].kind = "queued",
                                        ![m].session = shown]
          /\ screen' = [screen EXCEPT !.bubbles = @ \union {m}]
          /\ UNCHANGED asking
  /\ UNCHANGED <<status, admissions, pending, controller, post>>

Submit(m) ==
  /\ message[m].at = "unsent"
  /\ submitted' = Append(submitted, m)
  /\ IF Queues THEN Enqueue(m) ELSE StartTurn(m)
  /\ UNCHANGED <<wire, accepted, turn, known, shown, recovery, navigation, adopted,
                 disowned, countVars>>

(* ensureSession: the new session is selected, and those who asked go on;    *)
(* of the turns among them, the last keeps the controller of the session.    *)
Asking(kind) == {m \in Range(asking) : message[m].kind = kind /\ ~message[m].aborted}
AskingLast ==
  {m \in Asking("main") :
     \A i, j \in DOMAIN asking : asking[i] = m /\ asking[j] \in Asking("main") => j <= i}
StoppedAsking == {m \in Range(asking) : message[m].aborted}

SessionCreated ==
  /\ asking # <<>> /\ ~message[Head(asking)].aborted
  /\ \E s \in Sessions \ known :
       /\ known' = known \union {s}
       /\ shown' = s
       /\ message' = [m \in Messages |->
            CASE m \in Asking("main")   -> [message[m] EXCEPT !.at = "posting", !.session = s]
              [] m \in Asking("queued") -> [message[m] EXCEPT !.at = "chained", !.session = s]
              [] m \in StoppedAsking    -> Over(m, "stopped")
              [] OTHER                  -> message[m]]
       /\ controller' = [controller EXCEPT ![s] = AskingLast]
  /\ post' = [m \in Messages |-> IF m \in Asking("main") THEN "sent" ELSE post[m]]
  /\ screen' = [screen EXCEPT !.bubbles = (@ \union Asking("queued")) \ StoppedAsking]
  /\ adopted' = (adopted \/ shown # NoSession)
  /\ asking' = <<>>
  /\ admissions' = admissions \ StoppedAsking
  /\ pending' = pending \ StoppedAsking
  /\ UNCHANGED <<wire, accepted, turn, status, recovery, navigation, submitted,
                 disowned, countVars>>

(* The request was aborted, or it failed: all who waited for it fail.        *)
CreationFails ==
  /\ asking # <<>>
  /\ IF message[Head(asking)].aborted THEN UNCHANGED turnFaults ELSE Fault
  /\ Finish([m \in Range(asking) |-> IF message[m].aborted THEN "stopped" ELSE "told"],
            Range(asking))
  /\ status' = IF Asking("main") # {} THEN "error" ELSE status
  /\ asking' = <<>>
  /\ UNCHANGED <<serverVars, known, shown, recovery, navigation, submitted, adopted,
                 disowned, stops, navigations>>

(* Mutant: a queued message does not wait for the one queued before it.      *)
AlwaysItsTurn(m) == TRUE

(* The acceptance of every message queued before has settled.                *)
ItsTurn(m) ==
  \A i, j \in DOMAIN submitted :
    i < j /\ submitted[j] = m /\ message[submitted[i]].kind = "queued" =>
      message[submitted[i]].at \in {"admitted", "over"}

(* It waits for the start of the turn it was queued behind.                  *)
PostQueued(m) ==
  /\ message[m].at = "chained" /\ ItsTurn(m)
  /\ IF AdmissionsOf(message[m].session) = {}
     THEN /\ message' = [message EXCEPT ![m].at = "posting"]
          /\ post' = [post EXCEPT ![m] = "sent"]
     ELSE /\ \E a \in AdmissionsOf(message[m].session) :
               message' = [message EXCEPT ![m].at = "waiting", ![m].on = {a}]
          /\ UNCHANGED post
  /\ UNCHANGED <<wire, accepted, turn, known, viewVars, admissions, ownVars,
                 navigation, submitted, adopted, disowned, countVars>>

------------------------------------------------------------------------------
(* The server                                                                *)

Open(s) == {m \in Messages : post[m] = "open" /\ message[m].session = s}

(* What the reader of a POST acts on: of a queued message, not the start or  *)
(* the terminal frame; of a turn, not the queue.                             *)
ActedOn(m) == IF message[m].kind = "main" THEN {"start", "done", "end", "error", "refused"}
              ELSE {"queue", "end", "error", "refused"}

(* The wires w with the frame f written to the POSTs of ms.  What is written *)
(* to a POST whose browser has gone is not kept.                             *)
Written(w, ms, f) ==
  [m \in Messages |-> IF m \in ms /\ message[m].at # "over" /\ f \in ActedOn(m)
                      THEN Append(w[m], f) ELSE w[m]]

(* handleChatPost: the listener, the start frame and the prompt, at once.    *)
OpenPost(m) ==
  LET s == message[m].session
      begun == Written(wire, {m}, "start")
  IN  /\ post[m] = "sent"
      /\ post' = [post EXCEPT ![m] = "open"]
      /\ accepted' = Append(accepted, m)
      /\ turn' = [turn EXCEPT ![s] = @ \union {m}]
      /\ wire' = IF turn[s] = {} THEN begun ELSE Written(begun, Open(s) \union {m}, "queue")
      /\ UNCHANGED <<message, known, viewVars, admissions, ownVars, navigation,
                     submitted, adopted, disowned, countVars>>

Refuse(m) ==
  /\ post[m] = "sent" /\ Fault
  /\ post' = [post EXCEPT ![m] = "closed"]
  /\ wire' = Written(wire, {m}, "refused")
  /\ UNCHANGED <<message, accepted, turn, known, viewVars, admissions, ownVars,
                 navigation, submitted, adopted, disowned, stops, navigations>>

(* agent_end: every POST of the session gets the terminal frame and ends.    *)
AgentEnds(s) ==
  /\ turn[s] # {}
  /\ turn' = [turn EXCEPT ![s] = {}]
  /\ wire' = Written(Written(wire, Open(s), "done"), Open(s), "end")
  /\ post' = [m \in Messages |-> IF m \in Open(s) THEN "closed" ELSE post[m]]
  /\ UNCHANGED <<message, accepted, known, viewVars, admissions, ownVars,
                 navigation, submitted, adopted, disowned, countVars>>

(* The prompt is rejected, or the response ends without a terminal frame.    *)
PromptFails(m) ==
  /\ post[m] = "open" /\ Fault
  /\ post' = [post EXCEPT ![m] = "closed"]
  /\ \/ wire' = Written(wire, {m}, "error") /\ turn' = [turn EXCEPT ![message[m].session] = @ \ {m}]
     \/ wire' = Written(wire, {m}, "end") /\ UNCHANGED turn
  /\ UNCHANGED <<message, accepted, known, viewVars, admissions, ownVars,
                 navigation, submitted, adopted, disowned, stops, navigations>>

------------------------------------------------------------------------------
(* The stream of a turn                                                      *)

Reads(m, kind) == message[m].kind = kind /\ message[m].at \in {"posting", "admitted"}

(* Mutant: the start of a turn that is not shown is ignored.                 *)
AdmittedWhenShown(m) == IF SameSession(m) THEN AdmissionsOf(message[m].session) ELSE {}

(* Whose admission a start frame resolves.                                   *)
AdmittedBy(m) == AdmissionsOf(message[m].session)

(* The start of m settles the admissions a: who waited for them goes on.     *)
Settle(m, a) ==
  LET waited == {q \in Messages : message[q].at = "waiting" /\ message[q].on \cap a # {}}
  IN  /\ admissions' = admissions \ a
      /\ message' = [q \in Messages |->
           CASE q = m -> [message[q] EXCEPT !.started = TRUE]
             [] q \in waited -> [message[q] EXCEPT !.at = "posting", !.on = {}]
             [] OTHER -> message[q]]
      /\ post' = [q \in Messages |-> IF q \in waited THEN "sent" ELSE post[q]]
      /\ status' = IF SameSession(m) THEN "streaming" ELSE status
      /\ UNCHANGED <<screen, pending, controller>>

ReadStart(m) ==
  \/ AdmittedBy(m) = {} /\ Settle(m, {})
  \/ \E a \in AdmittedBy(m) : Settle(m, {a})

(* handleStreamEvent, and the end of streamMessage.                          *)
ReadTurn(m) ==
  /\ Reads(m, "main") /\ wire[m] # <<>>
  /\ wire' = [wire EXCEPT ![m] = Tail(@)]
  /\ \/ Head(wire[m]) = "start" /\ ReadStart(m)
     \/ /\ Head(wire[m]) = "done"
        /\ message' = [message EXCEPT ![m].done = TRUE]
        /\ status' = IF SameSession(m) THEN "ready" ELSE status
        /\ UNCHANGED <<screen, admissions, pending, controller, post>>
     \/ /\ Head(wire[m]) = "end"
        /\ message' = [message EXCEPT ![m].at = "reconciling"]
        /\ UNCHANGED <<status, screen, admissions, pending, controller, post>>
     \/ Head(wire[m]) \in {"error", "refused"} /\ Fail(m) /\ UNCHANGED post
  /\ UNCHANGED <<accepted, turn, known, shown, asking, recovery, navigation,
                 submitted, adopted, disowned, countVars>>

(* The stream of a queued message says when it was admitted.                 *)
ReadQueued(m) ==
  /\ Reads(m, "queued") /\ wire[m] # <<>>
  /\ wire' = [wire EXCEPT ![m] = Tail(@)]
  /\ \/ /\ Head(wire[m]) = "queue"
        /\ message' = [message EXCEPT ![m].at = "admitted"]
        /\ UNCHANGED screen
     \/ /\ Head(wire[m]) = "end"
        /\ message' = [message EXCEPT ![m] = Over(m, "answered")]
        /\ UNCHANGED screen
     \/ /\ Head(wire[m]) \in {"error", "refused"}
        /\ message' = [message EXCEPT ![m] = Over(m, "told")]
        /\ screen' = [screen EXCEPT !.bubbles = @ \ {m}]
  /\ UNCHANGED <<post, accepted, turn, known, shown, status, admissions, ownVars,
                 navigation, submitted, adopted, disowned, countVars>>

(* The connection of a POST breaks.                                          *)
Break(m) ==
  /\ message[m].at \in {"posting", "admitted"} /\ Fault
  /\ GivenUp({m})
  /\ IF message[m].kind = "main" THEN Fail(m)
     ELSE /\ message' = [message EXCEPT ![m] = Over(m, "told")]
          /\ screen' = [screen EXCEPT !.bubbles = @ \ {m}]
          /\ UNCHANGED <<status, admissions, pending, controller>>
  /\ UNCHANGED <<accepted, turn, known, shown, asking, recovery, navigation,
                 submitted, adopted, disowned, stops, navigations>>

(* reconcileSession: the list of sessions may be one asked for earlier, and  *)
(* an empty transcript does not replace what is shown.                       *)
Loaded(s, empty) == IF empty THEN screen ELSE [of |-> s, bubbles |-> {}]

(* Mutant: the transcript is shown whichever session is selected by now.     *)
ShownAnyway(m) == TRUE

StillShown(m) == SameSession(m)

(* The bubble of a send that was aborted meanwhile goes in the end.          *)
Reconcile(m) ==
  /\ message[m].at = "reconciling"
  /\ \E running, empty \in BOOLEAN :
       /\ status' = IF SameSession(m) /\ (message[m].done \/ ~running) THEN "ready" ELSE status
       /\ LET after == IF StillShown(m) THEN Loaded(message[m].session, empty) ELSE screen
          IN  screen' = [after EXCEPT !.bubbles = @ \ {q \in {m} : message[m].aborted}]
  /\ message' = [message EXCEPT ![m] = Over(m, "answered")]
  /\ Released({m})
  /\ UNCHANGED <<serverVars, known, shown, asking, recovery, navigation, submitted,
                 adopted, disowned, countVars>>

------------------------------------------------------------------------------
(* recoverInvalidStream                                                      *)

(* A frame that is no event: the POST is given up, the bubble is kept.       *)
Invalid(m) ==
  /\ Reads(m, "main") /\ wire[m] # <<>> /\ Head(wire[m]) # "refused" /\ Fault
  /\ GivenUp({m})
  /\ IF SameSession(m)
     THEN LET rejected == Rejected({m})
          IN  /\ message' = [q \in Messages |->
                   CASE q = m -> [message[q] EXCEPT !.at = "recovering"]
                     [] q \in rejected -> Over(q, "told")
                     [] OTHER -> message[q]]
              /\ screen' = [screen EXCEPT !.bubbles = @ \ rejected]
              /\ admissions' = admissions \ {m}
              /\ recovery' = {m}
              /\ UNCHANGED <<pending, controller>>
     ELSE Finish([q \in {m} |-> "hidden"], {}) /\ UNCHANGED recovery
  /\ UNCHANGED <<accepted, turn, known, shown, status, asking, navigation,
                 submitted, adopted, disowned, stops, navigations>>

Current(m) == recovery = {m} /\ SameSession(m)

(* One round: the transcript and the list of sessions.                       *)
Poll(m) ==
  /\ message[m].at = "recovering" /\ Current(m)
  /\ \/ /\ status' = "streaming"
        /\ UNCHANGED <<message, screen, admissions, pending, controller, recovery, turnFaults>>
     \/ /\ \E empty \in BOOLEAN : screen' = Loaded(shown, empty)
        /\ status' = "ready"
        /\ message' = [message EXCEPT ![m] = Over(m, "answered")]
        /\ recovery' = {}
        /\ Released({m})
        /\ UNCHANGED turnFaults
     \/ /\ Fault                    \* three in a row, or the session is not listed
        /\ status' = "error"
        /\ message' = [message EXCEPT ![m] = Over(m, "told")]
        /\ recovery' = {}
        /\ Released({m})
        /\ UNCHANGED screen
  /\ UNCHANGED <<serverVars, known, shown, asking, navigation, submitted, adopted,
                 disowned, stops, navigations>>

(* The round ends after the recovery was cancelled.                          *)
Abandon(m) ==
  /\ message[m].at = "recovering" /\ ~Current(m)
  /\ message' = [message EXCEPT ![m] = Over(m, "answered")]
  /\ recovery' = recovery \ {m}
  /\ Released({m})
  /\ UNCHANGED <<serverVars, known, viewVars, asking, navigation, submitted,
                 adopted, disowned, countVars>>

------------------------------------------------------------------------------
(* The user stops or goes elsewhere                                          *)

(* stop(): the POST of the selected session and the latest send are aborted. *)
Aborted == pending \union (IF shown = NoSession THEN {} ELSE controller[shown])

StopSends ==
  LET cut      == {m \in Aborted : message[m].at = "posting"}
      dropped  == AdmissionsOf(shown) \union cut
      rejected == Rejected(dropped)
  IN  /\ message' = [m \in Messages |->
           CASE m \in cut -> Over(m, "stopped")
             [] m \in rejected -> Over(m, "told")
             [] m \in Aborted \ (cut \union rejected) -> [message[m] EXCEPT !.aborted = TRUE]
             [] OTHER -> message[m]]
      /\ screen' = [screen EXCEPT !.bubbles = @ \ (cut \union rejected)]
      /\ admissions' = admissions \ dropped
      /\ GivenUp(cut)
      /\ controller' = [s \in Sessions |-> IF s = shown THEN {} ELSE controller[s] \ cut]
      /\ pending' = {}

Stop ==
  /\ Disturbed < MaxDisturbances /\ stops' = stops + 1
  /\ StopSends
  /\ disowned' = (disowned \/ ~(AdmissionsOf(shown) \subseteq Aborted))
  /\ recovery' = {}
  /\ status' = "ready"
  /\ UNCHANGED <<accepted, turn, known, shown, asking, navigation, submitted,
                 adopted, navigations, turnFaults>>

(* resumeSession, startNewSession and switchProject without a session.       *)
Navigate ==
  /\ Disturbed < MaxDisturbances /\ navigations' = navigations + 1
  /\ recovery' = {}
  /\ \/ /\ \E s \in known : navigation' = {s}
        /\ UNCHANGED <<shown, status, screen>>
     \/ /\ navigation' = {NoSession}
        /\ status' = "ready"
        /\ UNCHANGED <<shown, screen>>
     \/ /\ shown' = NoSession
        /\ screen' = [of |-> NoSession, bubbles |-> {}]
        /\ status' = "ready"
        /\ UNCHANGED navigation
  /\ UNCHANGED <<message, serverVars, known, admissions, asking, pending,
                 controller, submitted, adopted, disowned, stops, turnFaults>>

(* The answer to the latest request.                                         *)
Arrive ==
  /\ navigation # {}
  /\ navigation' = {}
  /\ \/ \E s \in navigation \cap Sessions :
          /\ shown' = s
          /\ screen' = [of |-> s, bubbles |-> {}]
          /\ status' = IF controller[s] # {} THEN "streaming" ELSE "ready"
          /\ UNCHANGED known
     \/ /\ navigation = {NoSession}
        /\ \E s \in Sessions \ known :
             /\ known' = known \union {s}
             /\ shown' = s
             /\ screen' = [of |-> s, bubbles |-> {}]
        /\ UNCHANGED status
  /\ UNCHANGED <<message, serverVars, admissions, ownVars, submitted, adopted,
                 disowned, countVars>>

------------------------------------------------------------------------------
TurnInit ==
  /\ message = [m \in Messages |-> Unsent]
  /\ wire = [m \in Messages |-> <<>>] /\ post = [m \in Messages |-> "none"]
  /\ accepted = <<>> /\ turn = [s \in Sessions |-> {}]
  /\ shown \in Sessions \union {NoSession}
  /\ known = IF shown = NoSession THEN {} ELSE {shown}
  /\ status = "ready" /\ screen = [of |-> shown, bubbles |-> {}]
  /\ admissions = {} /\ asking = <<>> /\ pending = {}
  /\ controller = [s \in Sessions |-> {}] /\ recovery = {} /\ navigation = {}
  /\ submitted = <<>> /\ adopted = FALSE /\ disowned = FALSE
  /\ stops = 0 /\ navigations = 0 /\ turnFaults = 0

TurnNext ==
  \/ \E m \in Messages :
       \/ Submit(m) \/ PostQueued(m) \/ OpenPost(m) \/ Refuse(m) \/ PromptFails(m)
       \/ ReadTurn(m) \/ ReadQueued(m) \/ Break(m) \/ Reconcile(m)
       \/ Invalid(m) \/ Poll(m) \/ Abandon(m)
  \/ SessionCreated \/ CreationFails
  \/ \E s \in Sessions : AgentEnds(s)
  \/ Stop \/ Navigate \/ Arrive

TurnSpec == TurnInit /\ [][TurnNext]_turnVars

------------------------------------------------------------------------------
(* Properties                                                                *)

TurnTypeOK ==
  /\ \A m \in Messages :
       /\ message[m].at \in {"unsent", "creating", "chained", "waiting", "posting",
                             "admitted", "reconciling", "recovering", "over"}
       /\ message[m].end \in {"none", "answered", "told", "hidden", "stopped"}
       /\ message[m].at = "over" <=> message[m].end # "none"
       /\ post[m] \in {"none", "sent", "open", "closed"}
  /\ status \in {"ready", "submitted", "streaming", "error"}
  /\ shown \in known \union {NoSession} /\ known \subseteq Sessions
  /\ screen.bubbles \subseteq Range(submitted)
  /\ Cardinality(pending) <= 1 /\ \A s \in Sessions : Cardinality(controller[s]) <= 1

Got(m) == m \in Range(accepted)

Before(seq, m, n) == \E i, j \in DOMAIN seq : i < j /\ seq[i] = m /\ seq[j] = n

(* A message queued during a turn reaches the runtime after the message that *)
(* turn was sent with, and after those queued before it, unless the user was *)
(* told that one of them failed, or stopped it.  Stop in the view of a new   *)
(* chat ends this: it settles the admission of a turn that still waits for   *)
(* its session, and aborts the latest send, which may be another turn.       *)
QueuedInOrder ==
  disowned \/
    \A m, n \in Range(accepted) :
      message[n].kind = "queued" /\ message[m].session = message[n].session
        /\ Before(submitted, m, n) /\ message[m].end \in {"none", "answered"}
      => Before(accepted, m, n)

(* A send that is over without an error said the truth: the runtime has the  *)
(* message.  And what stays on the screen of any send that is over, too.     *)
NothingVanishes ==
  \A m \in Messages :
    message[m].at = "over" /\ (message[m].end = "answered" \/ m \in screen.bubbles) => Got(m)

(* Nobody waits for an admission that no one is left to settle, and one is   *)
(* settled by the start of its turn whichever session is shown.              *)
AdmissionsHeld ==
  /\ \A a \in admissions : message[a].at \in {"creating", "posting"} /\ ~message[a].started
  /\ \A m \in Messages : message[m].at = "waiting" => message[m].on \subseteq admissions

(* The screen shows the messages of the session that is selected, unless one *)
(* created for an earlier message replaced it.                               *)
ScreenBelongs ==
  adopted \/ /\ screen.of \in {shown, NoSession}
             /\ \A m \in screen.bubbles : message[m].session = shown

Owned ==
  \E m \in Messages :
    /\ message[m].kind = "main" /\ message[m].session = shown
    /\ \/ message[m].at \in {"creating", "posting", "reconciling"}
       \/ message[m].at = "recovering" /\ m \in recovery

(* "Instead of leaving the browser in a permanent streaming state"           *)
(* (handlers/chat.ts:322): while the composer says a turn runs, there is a   *)
(* stream or a recovery that will say it has ended.                          *)
StatusOwned == Busy => Owned
=============================================================================
