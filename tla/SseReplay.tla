------------------------------ MODULE SseReplay ------------------------------
(***************************************************************************)
(* The out-of-turn event channel of one chat session, end to end: the      *)
(* bridge pushes every frame into the session's ring buffer and runs the   *)
(* SSE connections' listeners (prime-bridge.ts, handlers/chat-events.ts),  *)
(* the frames travel over a connection that may break at any point, and    *)
(* the browser keeps a cursor, reconnects with it and rehydrates when it   *)
(* is told to (use-pi-chat-events.ts).                                     *)
(*                                                                         *)
(* A frame is a question frame of one tool call, the agent_settled frame   *)
(* that ends a run, or any other, plain, frame.  The transcript of a run   *)
(* reaches a tab that does not hold the run's own POST stream with the     *)
(* session it loads when the run has settled: most plain frames it lets    *)
(* pass.  The frames one flush writes are one message of the wire, which   *)
(* the browser consumes in sequence order, one at a time.                  *)
(***************************************************************************)
EXTENDS RingBuffer, FiniteSets

CONSTANTS
  Clients,         \* browser tabs showing the session
  Questions,       \* tool calls that ask the user something
  MaxSequence,     \* bound: frames published in one generation
  MaxGeneration,   \* bound: the last generation a buffer gets
  MaxFaults,       \* bound: connections that break and loads that fail
  MaxUnread,       \* bound: unread messages beyond which nothing is published
  MaxLoads         \* bound: answered loads a tab has not applied yet

ASSUME SseReplayAssumption ==
  /\ {"plain", "settled"} \intersect Questions = {}
  /\ MaxSequence \in Nat
  /\ MaxGeneration \in Nat /\ MaxGeneration > 1
  /\ MaxFaults \in Nat
  /\ MaxUnread \in Nat
  /\ MaxLoads \in Nat

VARIABLES
  buffer,     \* the session's ring buffer in the bridge
  log,        \* history: every frame of the current generation
  question,   \* the pending-dialog registry: state of each question
  conn,       \* server side of each tab's SSE connection
  wire,       \* messages written to the connection and not yet read
  tab,        \* the browser's cursor, its status and its open POST stream
  asked,      \* session loads a tab has requested, by purpose
  loaded,     \* session loads the server has answered
  applied,    \* history: question frames of this generation a tab has applied;
              \* it grows: what a later load overwrites is HydrationNeverRewinds
  shown,      \* history: a tab has shown the session as of that many frames
  skipped,    \* history: a resync frame has told a tab that it skipped so many
  behind,     \* history: tabs that knew an older generation, not rehydrated since
  missed,     \* history: tabs that let a notice to load pass while they were busy,
              \* no load having been answered since
  stranded,   \* history: tabs whose load failed, or whose turn was over without
              \* one although they had missed a notice; none answered since
  faults      \* connections broken and loads failed so far

bridge  == <<buffer, log, question>>
history == <<applied, shown, skipped, behind, missed, stranded>>
vars == <<bridge, conn, wire, tab, asked, loaded, history, faults>>

NoGeneration    == 0       \* no stream generation known
FirstGeneration == 2       \* 1 is the generation of an earlier server process
Generations     == 1 .. MaxGeneration
Events          == {"plain", "settled"} \union Questions
Entry           == [seq : Nat \ {0}, event : Events]
LoadPurposes    == {"hydrate", "reconcile"}
Snapshot        == [purpose : LoadPurposes, generation : Generations, upto : Nat]

Message ==
  [type : {"connected"}, generation : Generations, cursorReset : BOOLEAN]
    \union [type : {"frames"}, generation : Generations, entries : SUBSET Entry]
    \union [type : {"resync"}, id : Nat]

NoConnection == [live |-> FALSE, cursor |-> 0, generation |-> FirstGeneration]

Pending == {q \in Questions : question[q] = "pending"}

------------------------------------------------------------------------------
(* The bridge and the SSE handler                                            *)

(* Mutant: the replay filter of a first connection is never applied.         *)
ReplayedToEveryone(event, firstTime) == TRUE

(* A tab that connects for the first time is spared questions that are over. *)
ShouldReplay(event, firstTime) == firstTime => event \notin Questions \ Pending

(* Mutant: an overflow moves the cursor but writes no resync frame.          *)
FlushSilentOverflow(b, cursor, firstTime) ==
  LET entries == {e \in ReplaySince(b, cursor) : ShouldReplay(e.event, firstTime)}
  IN  [cursor |-> LatestSequence(b),
       messages |-> IF entries = {} THEN <<>>
                    ELSE <<[type |-> "frames", generation |-> b.generation,
                            entries |-> entries]>>]

(* flush(): what a connection at `cursor` writes, and its cursor afterwards. *)
Flush(b, cursor, firstTime) ==
  IF Overflowed(b, cursor)
  THEN [cursor |-> LatestSequence(b),
        messages |-> <<[type |-> "resync", id |-> LatestSequence(b)]>>]
  ELSE LET replayed == ReplaySince(b, cursor)
           entries  == {e \in replayed : ShouldReplay(e.event, firstTime)}
       IN  [cursor |-> IF replayed = {} THEN cursor ELSE LatestSequence(b),
            messages |-> IF entries = {} THEN <<>>
                         ELSE <<[type |-> "frames", generation |-> b.generation,
                                 entries |-> entries]>>]

(* #dispatch: push the frame, then run every live connection's listener.     *)
Dispatch(event) ==
  LET pushed == Push(buffer, event)
      out(c) == Flush(pushed, conn[c].cursor, FALSE)
  IN  /\ buffer.nextSeq <= MaxSequence
      /\ \A c \in Clients : Len(wire[c]) <= MaxUnread
      /\ buffer' = pushed
      /\ log' = Append(log, event)
      /\ conn' = [c \in Clients |-> IF conn[c].live
                                    THEN [conn[c] EXCEPT !.cursor = out(c).cursor]
                                    ELSE conn[c]]
      /\ wire' = [c \in Clients |-> IF conn[c].live
                                    THEN wire[c] \o out(c).messages
                                    ELSE wire[c]]
      /\ UNCHANGED <<tab, asked, loaded, history, faults>>

(* An event of the agent; the last one of a run is agent_settled.            *)
Publish ==
  /\ \E event \in {"plain", "settled"} : Dispatch(event)
  /\ UNCHANGED question

(* PendingDialogRegistry: open emits the question, an answer emits nothing,  *)
(* a cancellation deletes the dialog and emits the closing frame.            *)
Ask(q) ==
  /\ question[q] = "unasked"
  /\ question' = [question EXCEPT ![q] = "pending"]
  /\ Dispatch(q)

Answer(q) ==
  /\ question[q] = "pending"
  /\ question' = [question EXCEPT ![q] = "closed"]
  /\ UNCHANGED <<buffer, log, conn, wire, tab, asked, loaded, history, faults>>

Cancel(q) ==
  /\ question[q] = "pending"
  /\ question' = [question EXCEPT ![q] = "closed"]
  /\ Dispatch(q)

(* openSessionStream: where a tab's requested cursor lets the stream resume. *)
StreamSource(b, generation, requested) ==
  LET matches     == generation \in {NoGeneration, b.generation}
      canResume   == /\ matches /\ requested > 0
                     /\ requested <= LatestSequence(b)
                     /\ ~Overflowed(b, requested)
      cursorReset == (generation # NoGeneration \/ requested > 0) /\ ~canResume
  IN  [cursorReset |-> cursorReset,
       replayFrom  |-> IF canResume THEN requested
                       ELSE IF cursorReset THEN LatestSequence(b) ELSE 0]

(* A tab's (re)connection: the request carries the stored cursor; the        *)
(* handler resolves it, registers the listener, writes the bootstrap and     *)
(* flushes, all before anything else runs.                                   *)
Connect(c) ==
  LET source == StreamSource(buffer, tab[c].streamGeneration, tab[c].lastEventId)
      out    == Flush(buffer, source.replayFrom,
                      source.replayFrom = 0 /\ ~source.cursorReset)
      hello  == <<[type |-> "connected", generation |-> buffer.generation,
                   cursorReset |-> source.cursorReset]>>
      reset  == IF source.cursorReset
                THEN <<[type |-> "resync", id |-> source.replayFrom]>>
                ELSE <<>>
  IN  /\ ~conn[c].live
      /\ conn' = [conn EXCEPT ![c] = [live |-> TRUE, cursor |-> out.cursor,
                                      generation |-> buffer.generation]]
      /\ wire' = [wire EXCEPT ![c] = hello \o reset \o out.messages]
      /\ UNCHANGED <<bridge, tab, asked, loaded, history, faults>>

(* The connection breaks, as the browser sees it: what it has not read by    *)
(* then is lost.                                                             *)
Drop(c) ==
  /\ conn[c].live
  /\ faults < MaxFaults
  /\ faults' = faults + 1
  /\ conn' = [conn EXCEPT ![c] = NoConnection]
  /\ wire' = [wire EXCEPT ![c] = <<>>]
  /\ UNCHANGED <<bridge, tab, asked, loaded, history>>

(* A new buffer starts a new generation: no frame of it is known yet, and a  *)
(* tab that knew an older one has to be told.                                *)
NewBuffer ==
  /\ buffer.generation < MaxGeneration
  /\ buffer' = EmptyBuffer(buffer.generation + 1)
  /\ log' = <<>>
  /\ applied' = [c \in Clients |-> {}]
  /\ shown' = [c \in Clients |-> 0]
  /\ skipped' = [c \in Clients |-> 0]
  /\ behind' = behind \union {c \in Clients : tab[c].streamGeneration # NoGeneration}

(* The server process restarts: connections, dialogs and buffer are gone.    *)
Restart ==
  /\ NewBuffer
  /\ conn' = [c \in Clients |-> NoConnection]
  /\ wire' = [c \in Clients |-> <<>>]
  /\ question' = [q \in Questions |-> IF question[q] = "pending" THEN "closed"
                                      ELSE question[q]]
  /\ UNCHANGED <<tab, asked, loaded, missed, stranded, faults>>

(* A session deletion that fails still faults the ring buffer; the session is *)
(* resumed under the same id while its SSE connections stay open.  (The      *)
(* dialogs it cancels first are Cancel steps.)                               *)
FailedDeletion ==
  /\ NewBuffer
  /\ UNCHANGED <<question, conn, wire, tab, asked, loaded, missed, stranded, faults>>

------------------------------------------------------------------------------
(* The browser                                                               *)

ReadConnected(c) ==
  LET m == Head(wire[c])
  IN  /\ wire[c] # <<>> /\ m.type = "connected"
      /\ wire' = [wire EXCEPT ![c] = Tail(@)]
      /\ tab' = [tab EXCEPT ![c].streamGeneration = m.generation,
                            ![c].lastEventId = IF m.cursorReset THEN 0 ELSE @]
      /\ UNCHANGED <<bridge, conn, asked, loaded, history, faults>>

(* The cursor is stored only while no turn is in flight.                     *)
PersistCursor(c, id) ==
  IF tab[c].busy THEN tab ELSE [tab EXCEPT ![c].lastEventId = id]

(* An agent_settled frame, from the agent or as a resync frame: the session  *)
(* is loaded again, unless a turn is in flight.                              *)
LoadWhenIdle(c) ==
  IF tab[c].busy
  THEN missed' = missed \union {c} /\ UNCHANGED asked
  ELSE asked' = [asked EXCEPT ![c] = @ \union {"hydrate"}] /\ UNCHANGED missed

(* Question frames are applied, in a turn or not; agent_settled asks for a   *)
(* load; what else there is moves nothing but the cursor.                    *)
ReadFrame(c) ==
  LET m == Head(wire[c])
  IN  /\ wire[c] # <<>> /\ m.type = "frames"
      /\ \E e \in m.entries :
           LET rest == m.entries \ {e}
           IN  /\ \A other \in rest : e.seq <= other.seq
               /\ wire' = [wire EXCEPT ![c] =
                             IF rest = {} THEN Tail(@)
                             ELSE <<[m EXCEPT !.entries = rest]>> \o Tail(@)]
               /\ applied' = [applied EXCEPT ![c] =
                    IF m.generation = buffer.generation /\ e.event \in Questions
                    THEN @ \union {e.seq} ELSE @]
               /\ IF e.event = "settled" THEN LoadWhenIdle(c)
                  ELSE UNCHANGED <<asked, missed>>
               /\ tab' = PersistCursor(c, e.seq)
      /\ UNCHANGED <<bridge, conn, loaded, shown, skipped, behind, stranded, faults>>

(* What a resync frame stands for is skipped.                                *)
SkipTo(c, id) ==
  /\ tab' = IF id > 0 THEN PersistCursor(c, id) ELSE tab
  /\ skipped' = [skipped EXCEPT ![c] =
       IF conn[c].generation = buffer.generation /\ id > @ THEN id ELSE @]

(* Mutant: a resync frame moves the cursor but loads nothing.                *)
ReadResyncIgnored(c) ==
  LET m == Head(wire[c])
  IN  /\ wire[c] # <<>> /\ m.type = "resync"
      /\ wire' = [wire EXCEPT ![c] = Tail(@)]
      /\ SkipTo(c, m.id)
      /\ UNCHANGED <<bridge, conn, asked, loaded, applied, shown, behind, missed,
                     stranded, faults>>

ReadResync(c) ==
  LET m == Head(wire[c])
  IN  /\ wire[c] # <<>> /\ m.type = "resync"
      /\ wire' = [wire EXCEPT ![c] = Tail(@)]
      /\ SkipTo(c, m.id)
      /\ LoadWhenIdle(c)
      /\ UNCHANGED <<bridge, conn, loaded, applied, shown, behind, stranded, faults>>

(* The user's turn runs over its own POST stream.                            *)
StartTurn(c) ==
  /\ ~tab[c].busy /\ ~tab[c].posting
  /\ tab' = [tab EXCEPT ![c].busy = TRUE, ![c].posting = TRUE]
  /\ UNCHANGED <<bridge, conn, wire, asked, loaded, history, faults>>

(* Mutant: a turn that has ended is not reconciled with the session.         *)
EndTurnUnreconciled(c) ==
  /\ tab[c].posting
  /\ \E done \in BOOLEAN :
       tab' = [tab EXCEPT ![c].busy = IF done THEN FALSE ELSE @, ![c].posting = FALSE]
  /\ UNCHANGED <<bridge, conn, wire, asked, loaded, history, faults>>

(* The POST stream closes, and the tab reconciles with the session.  Its     *)
(* `done` has made the tab ready by then; without one the load will.         *)
EndTurn(c) ==
  /\ tab[c].posting
  /\ \E done \in BOOLEAN :
       tab' = [tab EXCEPT ![c].busy = IF done THEN FALSE ELSE @, ![c].posting = FALSE]
  /\ asked' = [asked EXCEPT ![c] = @ \union {"reconcile"}]
  /\ UNCHANGED <<bridge, conn, wire, loaded, history, faults>>

(* History: a tab without a turn that missed a notice and awaits no answer.  *)
Strand(c, over) ==
  stranded' = IF over /\ c \in missed /\ asked[c] = {} THEN stranded \union {c}
              ELSE stranded

(* Stop, or a POST that fails: the turn is over without a load.              *)
CutTurn(c) ==
  /\ tab[c].busy \/ tab[c].posting
  /\ tab' = [tab EXCEPT ![c].busy = FALSE, ![c].posting = FALSE]
  /\ Strand(c, TRUE)
  /\ UNCHANGED <<bridge, conn, wire, asked, loaded, applied, shown, skipped, behind,
                 missed, faults>>

(* loadSession: the server answers with the session as it is now.            *)
ServeLoad(c) ==
  \E p \in asked[c] :
    /\ Cardinality(loaded[c]) < MaxLoads
    /\ asked' = [asked EXCEPT ![c] = @ \ {p}]
    /\ loaded' = [loaded EXCEPT ![c] = @ \union
         {[purpose |-> p, generation |-> buffer.generation, upto |-> Len(log)]}]
    /\ missed' = missed \ {c}
    /\ stranded' = stranded \ {c}
    /\ UNCHANGED <<bridge, conn, wire, tab, applied, shown, skipped, behind, faults>>

(* A reconciliation leaves the tab ready, answered or not.                   *)
Settling(c, p) ==
  IF p = "reconcile" THEN [tab EXCEPT ![c].busy = FALSE] ELSE tab

(* Both callers swallow a load that fails.                                   *)
FailLoad(c) ==
  \E p \in asked[c] :
    /\ faults < MaxFaults
    /\ faults' = faults + 1
    /\ asked' = [asked EXCEPT ![c] = @ \ {p}]
    /\ tab' = Settling(c, p)
    /\ stranded' = stranded \union {c}
    /\ UNCHANGED <<bridge, conn, wire, loaded, applied, shown, skipped, behind,
                   missed>>

(* A load for a notice that arrives while a turn is in flight is discarded.  *)
Discarded(c, s) == s.purpose = "hydrate" /\ tab[c].busy

ApplyLoad(c, s) ==
  LET current == ~Discarded(c, s) /\ s.generation = buffer.generation
  IN  /\ s \in loaded[c]
      /\ loaded' = [loaded EXCEPT ![c] = @ \ {s}]
      /\ shown' = [shown EXCEPT ![c] = IF current /\ s.upto > @ THEN s.upto ELSE @]
      /\ behind' = IF current THEN behind \ {c} ELSE behind
      /\ missed' = IF Discarded(c, s) THEN missed \union {c} ELSE missed
      /\ tab' = Settling(c, s.purpose)
      /\ Strand(c, s.purpose = "reconcile" /\ ~tab[c].posting)
      /\ UNCHANGED <<bridge, conn, wire, asked, applied, skipped, faults>>

------------------------------------------------------------------------------
Init ==
  /\ buffer = EmptyBuffer(FirstGeneration)
  /\ log = <<>>
  /\ question = [q \in Questions |-> "unasked"]
  /\ conn = [c \in Clients |-> NoConnection]
  /\ wire = [c \in Clients |-> <<>>]
  /\ tab \in [Clients ->
       {[streamGeneration |-> NoGeneration, lastEventId |-> 0, busy |-> FALSE,
         posting |-> FALSE],
        [streamGeneration |-> 1, lastEventId |-> 1, busy |-> FALSE,
         posting |-> FALSE]}]
  /\ asked = [c \in Clients |-> {}]
  /\ loaded = [c \in Clients |-> {}]
  /\ applied = [c \in Clients |-> {}]
  /\ shown = [c \in Clients |-> 0]
  /\ skipped = [c \in Clients |-> 0]
  /\ behind = {c \in Clients : tab[c].streamGeneration # NoGeneration}
  /\ missed = {}
  /\ stranded = {}
  /\ faults = 0

Bridge == Publish \/ (\E q \in Questions : Ask(q) \/ Answer(q) \/ Cancel(q))

Browser(c) ==
  \/ ReadConnected(c) \/ ReadFrame(c) \/ ReadResync(c)
  \/ StartTurn(c) \/ EndTurn(c) \/ CutTurn(c)
  \/ ServeLoad(c) \/ FailLoad(c)
  \/ \E s \in loaded[c] : ApplyLoad(c, s)

Next ==
  \/ Bridge
  \/ Restart
  \/ FailedDeletion
  \/ \E c \in Clients : Connect(c) \/ Drop(c) \/ Browser(c)

(* A broken EventSource is always reopened, written bytes arrive, requests   *)
(* are answered and turns end; nothing obliges frames or faults.             *)
Fairness ==
  \A c \in Clients :
    /\ WF_vars(Connect(c))
    /\ WF_vars(ReadConnected(c) \/ ReadFrame(c) \/ ReadResync(c))
    /\ WF_vars(EndTurn(c) \/ CutTurn(c))
    /\ WF_vars(ServeLoad(c))
    /\ WF_vars(\E s \in loaded[c] : ApplyLoad(c, s))

Spec == Init /\ [][Next]_vars
FairSpec == Spec /\ Fairness

------------------------------------------------------------------------------
(* Properties                                                                *)

(* Every variable keeps its type; the buffer is always the newest frames of  *)
(* its generation without a hole (ring-buffer.ts push).                      *)
TypeOK ==
  /\ IsBuffer(buffer, Generations, Events)
  /\ log \in Seq(Events)
  /\ question \in [Questions -> {"unasked", "pending", "closed"}]
  /\ conn \in [Clients -> [live : BOOLEAN, cursor : Nat, generation : Generations]]
  /\ wire \in [Clients -> Seq(Message)]
  /\ tab \in [Clients -> [streamGeneration : Generations \union {NoGeneration},
                          lastEventId : Nat, busy : BOOLEAN, posting : BOOLEAN]]
  /\ asked \in [Clients -> SUBSET LoadPurposes]
  /\ loaded \in [Clients -> SUBSET Snapshot]
  /\ applied \in [Clients -> SUBSET (Nat \ {0})]
  /\ shown \in [Clients -> Nat]
  /\ skipped \in [Clients -> Nat]
  /\ behind \subseteq Clients
  /\ missed \subseteq Clients
  /\ stranded \subseteq Clients
  /\ faults \in Nat

(* The frames a tab must know: the question frames of pending questions, and *)
(* every other frame once the run it belongs to has settled.                 *)
Relevant(n) == log[n] \notin Questions \ Pending

(* The transcript of a session loaded at frame k holds what frame n tells:   *)
(* the run of frame n had settled by then.                                   *)
Committed(n, k) == \E m \in DOMAIN log : n <= m /\ m <= k /\ log[m] = "settled"

Owed(n) == IF log[n] \in Questions THEN Relevant(n) ELSE Committed(n, Len(log))

(* A question that a resync frame stood for is not asked again: the tab has  *)
(* been told that frames are missing, and the transcript does not ask.       *)
Known(c, n) ==
  IF log[n] \in Questions THEN n \in applied[c] \/ n <= skipped[c]
  ELSE Committed(n, shown[c])

(* A connection opened on the buffer that is there now.                      *)
Attached(c) == conn[c].live /\ conn[c].generation = buffer.generation

(* The tab has read everything written to it, nothing is in flight, and no   *)
(* load it needed was failed, or given up with a turn that was cut short.    *)
Settled(c) ==
  /\ conn[c].live /\ wire[c] = <<>>
  /\ ~tab[c].busy /\ ~tab[c].posting
  /\ asked[c] = {} /\ loaded[c] = {}
  /\ c \notin stranded

Complete(c) ==
  /\ c \notin behind
  /\ \A n \in DOMAIN log : Owed(n) => Known(c, n)

(* adapter-contract "Ordering and replay guarantees": across evictions,      *)
(* reconnects, restarts and turns, a tab whose connection is up to date has  *)
(* shown every run that has settled and every question that is pending.      *)
NoSilentLoss ==
  \A c \in Clients : Attached(c) /\ Settled(c) => Complete(c)

(* The same of every settled connection, whichever generation it was opened  *)
(* on: "A cursor only applies to the stream generation from which it was     *)
(* obtained" (adapter-contract.md).  The connection's own cursor in          *)
(* chat-events.ts carries no generation.                                     *)
CursorBoundToGeneration ==
  \A c \in Clients : Settled(c) => \A n \in DOMAIN log : Owed(n) => Known(c, n)

(* Frames are read in sequence order and never twice: every frame still on   *)
(* the wire of an attached connection is newer than the tab's cursor into    *)
(* that stream and than the frames before it.                                *)
InOrderOnce ==
  \A c \in Clients : Attached(c) =>
    LET framesAt(i) == IF wire[c][i].type = "frames" THEN wire[c][i].entries ELSE {}
    IN  \A i \in DOMAIN wire[c] : \A e \in framesAt(i) :
          /\ tab[c].streamGeneration = buffer.generation => e.seq > tab[c].lastEventId
          /\ \A j \in 1 .. i - 1 : \A f \in framesAt(j) : f.seq < e.seq

(* A first connection never shows a question that was over when it opened:   *)
(* no step appends the frame of a closed question to a fresh connection that *)
(* resumes nothing (sse-replay.ts).                                          *)
NoClosedQuestionOnFirstConnect ==
  [][\A c \in Clients :
       (conn'[c].live /\ ~conn[c].live /\ tab[c].streamGeneration = NoGeneration) =>
         \A i \in DOMAIN wire'[c] : wire'[c][i].type = "frames" =>
           \A e \in wire'[c][i].entries : e.event \notin Questions \ Pending]_vars

(* A session load is applied only while no newer question is on the screen:  *)
(* the browser "rehydrates the session before continuing" (adapter-contract).*)
HydrationNeverRewinds ==
  [][\A c \in Clients : \A s \in loaded[c] :
       ApplyLoad(c, s) /\ ~Discarded(c, s) /\ s.generation = buffer.generation
         => applied[c] \subseteq 1 .. s.upto]_vars

(* A settled run and a pending question reach every tab in the end, unless   *)
(* its load fails or is given up with a turn that was cut short, the stream  *)
(* moves to another generation, or the connection outlived its generation.   *)
EventuallyCovered ==
  \A c \in Clients : \A n \in 1 .. MaxSequence :
    (n \in DOMAIN log /\ Owed(n)) ~>
      \/ n \in DOMAIN log => (Owed(n) => Known(c, n))
      \/ c \in stranded
      \/ conn[c].live /\ ~Attached(c)
=============================================================================
