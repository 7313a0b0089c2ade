# Formal models of Fleet

TLA+ models of the parts of Fleet (`fleet-prime-agent`) in which order, failure and timing decide
whether the program is right, the TLC configurations that check them on small instances, and
machine-checked proofs (TLAPS) of what matters most. Paths are relative to `src/`; `server/` stands
for `web/server/src/` and `chat/` for `web/app/src/components/chat/`.

    tlc -workers 2 -config SseReplay.cfg SseReplay      # any run: module and cfg as in "Runs"
    tlapm SseReplayProofs.tla                           # about seven minutes from nothing
    tlapm AgentFileProofs.tla                           # half a minute
    tlapm SessionRegistryProofs.tla                     # a minute and a half
    tlapm DaemonSocketProofs.tla                        # two minutes
    tlapm DaemonConnectionProofs.tla                    # eight minutes
    tlapm TurnProofs.tla                                # eleven minutes
    tlapm RunTranscriptProofs.tla                       # eleven minutes
    tlapm ChildStreamProofs.tla                         # a quarter of an hour

## 1. The system

Fleet is a web front end for the Prime Agent runtime. A **browser** (`web/app`) talks HTTP to an
**adapter server** (`web/server`), which talks to the **daemon** (external, Rust) over a Unix socket,
JSON lines, protocol 7.

    browser tab ── POST /api/chat, NDJSON: the submitted turn ──┐
                ── GET /api/chat/events, SSE: everything else ──┤
                ── GET /api/chat/session: the transcript ───────┤
                                                     PrimeBridge (one per server process)
                                     sessions, ring buffers, dialogs, sidecars, child streams
                                                                │ one connection per session
                                      FleetDaemonAgentConnection + gap tracker
                                                                │ DaemonSocketClient
                                                  Unix socket ──┴── Prime Agent daemon

| component | state | operations | interacts through |
|---|---|---|---|
| replay buffer, `server/ring-buffer.ts` | entries, next sequence, generation | push, replaySince, clear | calls from the bridge |
| SSE stream, `server/handlers/chat-events.ts`, `sse-replay.ts` | live cursor, question filter, listener | connect, flush, abort | bridge listener; bytes to the browser |
| browser event channel, `chat/use-pi-chat-events.ts` | cursor and generation (session storage), recovery flags | handle a frame, resync, reconnect | SSE, loadSession |
| browser turn, `chat/use-pi-chat-messaging.ts`, `chat/use-pi-chat.ts` | turn status, optimistic messages, admissions, controllers | send, queue, stop, reconcile, recover, navigate | POST stream (`server/handlers/chat.ts`) |
| event mapper, `server/event-mapper.ts`, and its reader `chat/chat-stream-state.ts` | the run so far; the bubble's parts | map an event, seed, reset; fold a frame, merge `done` | bridge; frames to the browser |
| child panel, `web/app/src/components/chat/use-subagent-chat.ts` | transcript, cursor | load, connect, follow | SSE of a child, kept by the bridge |
| pending dialogs, `server/pending-dialogs.ts` | map of open questions, one timer each | open, answer, cancel | frames through the bridge |
| bridge, `server/prime-bridge.ts` | sessions, buffers, caches, presentation chains, child streams, navigation queue | dispatch, resume, create, delete, prompt, abort, queue edits, tree, fork, resync after a gap | everything |
| daemon socket, `server/daemon-socket-client.ts` | socket, decode buffer, pending requests, unknown outcomes | connect, reconnect, request, close, data | socket |
| session connection, `server/fleet-daemon-connection.ts` | snapshot and its freshness, cursor, snapshot frames, recovery | frames, recovery, reads, dispose | socket client; events to the bridge |
| gap tracker, `server/daemon-sequence-gap.ts` | a position per session | observe | the connection's frames |
| daemon runtime, `server/daemon-runtime.ts` | worker, prompt configuration, reconfigure chain | reconfigure, terminate, fork, catalog | socket client |
| file writers, `server/agent-file-writer.ts` and its users | lock file, temporary file | locked read-merge-write | file system, other processes |
| sidecars, `server/managed-*.ts`, `prime-agent-presentation.ts` | per-session files | write, copy, delete | bridge |
| caches, `server/coalescing-refresh-queue.ts`, `model-catalog-cache.ts`, `completion/` | in-flight runs, timestamps | refresh, invalidate | bridge, handlers |
| project registry, `server/project-registry.ts` | one JSON file, write chain | assign, list | bridge, handlers |

What is hard here: the server is one event loop, so a handler is atomic up to its next `await`, and
everything checked before an `await` may be false after it; the daemon, its socket, the server and
the tabs fail and restart independently; every channel is either bounded in memory (the replay
buffer) or may lose events (the daemon), so each layer has a cursor, a way to notice that it missed
something, and a resynchronisation; and state announced by one channel is loaded through another.

What makes each part right:

* *replay*: a tab that has settled shows every run that has, and every pending question, or was told
  that frames were skipped; it gets frames in order and once, and no questions that are over;
* *socket client*: a caller always hears something, and never "failed" of a command that ran or may
  yet run; the daemon's record of a command is released, and not too early;
* *connection*: events are mapped in order and once, on top of the snapshot they follow; a lost event
  is noticed and leads to a reset; a dead socket is recovered or the session is closed;
* *registry*: one connection speaks for a session, nothing dead stays registered, details are saved in
  order and go with the transcript;
* *child streams*: the stream of a child is open while somebody views it and no longer, and a panel
  lacks nothing but the message in flight when its screen was read, whatever was held back, evicted or
  read twice;
* *worker*: a prompt runs in a worker made for what it asks, a turn is not killed by the swap of its
  worker, and a deletion leaves no worker behind;
* *turn*: what was sent is with the runtime or the user is told, queued messages keep their order,
  the screen is of the session that is selected, and the status settles;
* *transcript*: the bubble of a run that is over shows the whole run, however its provider streamed, and
  whatever words its messages share;
* *files*: one writer at a time, no update is lost, a lock left behind is reclaimed and no other.

Every hazard, with its line and the properties that would catch it, is in `PROJECT.json`.

## 2. Modules

| module | models | mainly |
|---|---|---|
| `RingBuffer` | the replay buffer as a value and its operators | `ring-buffer.ts` |
| `SseReplay`, `MCSseReplay` | the event channel of one session, bridge to tab | `prime-bridge.ts` (dispatch, openSessionStream, deleteSession), `chat-events.ts`, `sse-replay.ts`, `pending-dialogs.ts`, `use-pi-chat-events.ts` |
| `SseReplayProofs` | the theorems about it | |
| `CommandOutcome` | abstract specification: what the socket client promises about a command | `daemon-socket-client.ts:51-81` |
| `DaemonSocket` | the socket client, with the daemon as environment; implements `CommandOutcome` | `daemon-socket-client.ts` |
| `DaemonSocketProofs` | the theorems about it, that it implements `CommandOutcome` among them | |
| `DaemonConnection` | one attached session, its gap tracker and the bridge's resync, with the daemon as environment | `fleet-daemon-connection.ts`, `daemon-sequence-gap.ts`, `prime-bridge.ts:487-522` |
| `DaemonConnectionProofs` | the theorems about it | |
| `SessionRegistry`, `MCSessionRegistry` | one session created, resumed and deleted by overlapping requests, and its presentation writes | `prime-bridge.ts:359-654`, `1102-1164` |
| `SessionRegistryProofs` | the theorems about it | |
| `AgentFile`, `MCAgentFile` | locked updates of one of Prime Agent's JSON files by servers that crash and restart | `agent-file-writer.ts` |
| `AgentFileProofs` | the theorems about it | |
| `ChildStream` | the live stream of a child agent, from the child to its panels | `prime-bridge.ts:768-1087`, `chat-events.ts`, `use-subagent-chat.ts` |
| `ChildStreamProofs` | the theorems about it | |
| `WorkerSwap` | prompts of a session beside the replacement of its worker, forks and the deletion | `prime-bridge.ts` (prompt, transitions, forkSession, deleteSession), `daemon-runtime.ts:520-800` |
| `Turn` | messages sent, queued, stopped and recovered over several sessions | `use-pi-chat-messaging.ts`, `use-pi-chat.ts`, `handlers/chat.ts` |
| `TurnProofs` | the theorems about it and about `WorkerSwap` | |
| `RunTranscript` | from what the runtime says to the bubble on the screen | `event-mapper.ts`, `chat-stream-state.ts` |
| `RunTranscriptProofs` | the theorems about it | |
| `MCSession` | instance of `ChildStream`, `WorkerSwap`, `Turn` and `RunTranscript`, side by side | |
| `MCDaemonConnection` | instance of `DaemonConnection` | |
| `MCWaiting` | instance of `DaemonSocket` and `AgentFile`, side by side | |
| `MCRunTranscript` | instance of `RunTranscript`: the words of its texts | |

Definitions named `…Unbounded`, `…Ignored` and the like, with a comment that begins "Mutant", are
plausible bugs of the definition that follows them. Nothing uses them; `PROJECT.json` names, for
every property of a passing run, the one with which TLC finds it violated.

### SseReplay

The bridge pushes a frame and runs every connection's listener in one synchronous call (`Dispatch`).
A connection resolves the tab's stored cursor and generation (`StreamSource`), writes `connected`, a
resync when the cursor cannot be resumed, and what the buffer has (`Connect`, `Flush`). The tab reads
one message at a time (`ReadConnected`, `ReadFrame`, `ReadResync`), stores its cursor only while no
turn is in flight (`PersistCursor`), and loads the session when it is told to and when a turn ends
(`ServeLoad`, `ApplyLoad`; `FailLoad` for the `catch` that swallows the error). Faults: the connection
breaks and unread bytes are lost (`Drop`), the server restarts (`Restart`), a deletion fails after it
has dropped the buffer (`FailedDeletion`).

A frame is a question of one tool call, the `"settled"` frame (`agent_settled`) that ends a run, or
`"plain"`: anything else. What a tab does with each is what `use-pi-chat-events.ts:273-437` does: a
question frame is applied, in a turn or not; a settled frame, like a resync frame, makes an idle tab
load the session (`LoadWhenIdle`) and is dropped by one with a turn in flight (`missed`, a history
variable); a plain frame moves nothing but the cursor, for the text, the calls and the `done` of a run that the
tab did not post fall through there. The transcript of such a run comes with the load that its settled
frame asks for.

A turn (`StartTurn`) is `busy` until its status is ready again and `posting` until its stream has
ended. `EndTurn` is the success path (`use-pi-chat-messaging.ts:614-655`): it asks for the
reconciling load; a `done` frame had set the status to ready before (`281-284`), without one the tab
stays busy until the load is applied or has failed (`Settling`). `CutTurn` is Stop and the failed POST
(`656-691`): ready, or an error, and no load. A hydrating load that arrives while a turn is in flight is
discarded (`Discarded`), one that reconciles never is.

History variables: `log` (the frames of this generation), `applied` (the questions a tab was
shown), `shown` (the newest frame that a load it applied was answered after), `skipped` (the newest frame
that a resync stood for), `behind` (tabs that knew an older generation and have not loaded since),
`missed` (tabs that dropped a settled or resync frame, or the load for one, in a turn) and `stranded`:
tabs that nothing will repair before the next run settles, because their load failed, or because the
turn in which they missed the notice was cut short. `Known` says what a tab need not be told any more:
a frame of a settled run that a load has shown, a question that was applied or skipped.
Nothing is claimed of the frames of a run that goes on: an idle tab does not show them.

### DaemonSocket and CommandOutcome

A command is sent at most once per request id; its `verdict` is what its promise has settled to.
`Fail` settles everything at once; `RequestTimesOut` is the timer; `ReadResponse` has the three cases
of `#onLine` (waiting caller, remembered unknown outcome, nobody). Every failure of the socket loses
what is on it, may cut a line in the middle (`garbled` is the decode buffer), and leaves commands
the daemon has already taken running. Acknowledgements are messages on the same socket. `Selected`, the members of a sequence that are in a set, is a
recursive function here and in `DaemonConnection`, because the proofs need to know what it returns.
`RecordsAccounted` says of every record the daemon holds why it may: its answer is awaited or
remembered, its acknowledgement is on its way or was lost, or it fell to the limit of the map.

`CommandOutcome` says, in four actions, what the callers rely on: an answer is of a command that ran;
a plain failure of a mutating command means it did not and will not run; anything between is
"unknown". `DaemonSocket` implements it: `Outcome == INSTANCE CommandOutcome WITH executed <- executed,
verdict <- verdict`, and `OutcomeSpec`, a property of the run, is `Outcome!Spec`: whatever the
sockets, timers, records and acknowledgements do, it is a step of that specification or none.

### DaemonConnection

The event loop is explicit. `ReadFrame` handles one frame of a chunk, `inChunk` says that another
follows, and the microtasks those frames queued (`jobs`) run only when the chunk is done and before
any timer, close event or new chunk (`Idle`). Continuations take different numbers of turns of the
microtask queue, so the jobs run in any order, which over-approximates the code.

* frames: `OnEvent` is the dedupe, the cursor and the tracker; `ReadSnapshotFrame` has foreign,
  attach and replacement snapshots and their eviction; `held`/`shared` model the one array that
  `collectSnapshotMessages` was given and whether it is still the connection's;
* recovery: `phase` is where `#recoveryPromise` is: reconnecting, reattaching, collecting;
  `Recovered` is the end of it: the snapshot is the new `Baseline`, and the frames that were held back
  are `Delivered` to it through `#onFrame`;
* resync: `GapNoticed`, `StartRound`, `SnapshotRead`, `Resync`, `ReadFailed` are `resyncAfterGap` and
  `getInitialSnapshot`, cut at their awaits.

The daemon part follows `daemon-sequence-gap.ts:9-22`, which documents the daemon's sequence rule:
updates are parked and merged, other events flush them, a closing turn drops them, events may be
lost; and `fleet-daemon-connection.ts`, which shows what a reattach may be answered with. A
replacement snapshot is written before events emitted after it. These definitions are marked external
in `PROJECT.json`.

### SessionRegistry

One session, with one id and one transcript, and any number of requests. A request is where its
`pc` says, and each place is an `await` of the code: between two of them it runs alone. `listing`,
`reading`, `connecting` and `registering` are the awaits of `resumeSessionById`,
`resumeSessionByPath` and `#registerConnection` (whose eight awaits nobody can tell apart from
outside, and are one); `draining` to `cleaning` are those of `deleteSession`, `cataloguing` is its
detour for a transcript that cannot be resumed. Failures of the daemon, of the project registry and
of the file system are actions of their own: `OpenFails`, `DeletionFails`, `CatalogFails`,
`CleaningFails`. A request opens at most one connection, so connections are named after requests.
What the daemon does when a session is opened twice is not in this repository; here it agrees.

`writes` are the calls of `#persistPresentation`, each a promise with the one it was chained after
and the generation it saw; a settled one is replaced by one constant, because nothing of it matters
any more. An entry leaves `#presentationWrites` in the step in which its promise settles, where the
code needs another microtask. Presentations change with events of the daemon, artifacts, and at the end of a
metadata refresh, which looked the session up before its own awaits and may come after its deletion:
`PresentationChanges` is therefore possible whenever a first write has been asked for.

Two history variables say what the properties except:

* `late`: writes asked for after a deletion had begun. They carry the generation that the deletion
  itself has set, so nothing stops them while the session is registered: one that is under way when
  the session is forgotten may end after its sidecar has been removed, and bring it back.
* `raced`: a session was opened while another request was opening or deleting it. The lookup of
  `resumeSessionByPath` (L599-603) is before its awaits and is not repeated after them: two resumes
  can both connect, both subscribe, and every event is then handled twice; a resume that ends after a
  deletion has begun registers a connection that the deletion then forgets by session id.

### AgentFile

A step is one file-system call, because that is what other processes interleave with. Within one
process the event loop is kept: `Synchronous` are the places of `acquireLock` between two awaits, and
`Turn` lets a request move only when no other request of its process is at one. `CreateLock` and
`StampLock` are two steps, so an empty lock file can be seen. A lock file is named by the update that
made it; `stamped` are those that hold a pid. `ReadHolder`, `Judge`, `Reclaim` are the handling of an
existing lock, `Expire` its deadline. Processes are launched, crash between any two calls, and their
pids may be taken by another program (`Recycle`).

An update adds a member of its own, which is how a lost one shows. The temporary file has a unique
name and takes the place of the file in one `rename`, so both are one step (`Replace`): that a reader
sees whole files is built in here, not checked. The daemon rewrites the file without the lock, as the
header of the source says; `overwritten` records what that costs. `Shared` says whether servers may
run at the same time on one directory.

### ChildStream

What happens in the child is a number of events; a transcript is the set of events it shows. An event is
a message, the end of a turn (`turn_end`, `agent_end`) or a session that was replaced or rebuilt
(`session_replaced`, `session_resynced`), whose frame makes a panel forget its cursor and load again.
What is read (`getMessages`, the JSONL file) is the committed transcript, without the message in flight
(`prime-bridge.ts:401-403`): read after n events it shows `Committed(n)`, what belongs to turns that had
ended, and lacks `InFlight(n)`, although the frames up to n are counted as read: the replay starts
behind them. `base` is the n of what a panel's screen was last replaced by.

`stream` is the entry of `#rlmChildStreams` or its initialization (`phase`), `frames` its buffer, and a
`viewer` is one panel with its request, connection and screen. `Watch`, `Register` are
`#initializeRlmChildStream` cut at its awaits, `RegisterFails` its failure; `Refresh` is one run of
the refresh chain: the messages are read (`ServeRead` is the moment the daemon reads them), the
snapshot is dispatched, and the last run of the chain releases the events held back meanwhile
(`Drained`). `LookUp`, `Join` are `openRlmChildStream` of a request that finds a stream, finds it being
initialized, or finds none. `Answer` is the request's bootstrap, `ReadMessage` the panel. A stream's
last reference closes it (`Becomes`), and a stream may be opened again (`MaxStreams`). Faults: reads
that fail, connections that break, panels that leave.

`ChildViewComplete` says what is left of completeness: a panel that has read everything lacks nothing but
what was in flight when its screen was read, and nothing of a turn that has ended, because the read at
the end of the turn brings it, unless that read failed.

### WorkerSwap

`transitions` is the chain of `#openUIPromptTransitions`, `operations` the wrapper's
`reconfigureTail`: two queues in two files, each with its own idea of what is running. A prompt is sent
before, after or without a transition (`Send`), a transition starts, is skipped or fails
(`StartTransition`, `SkipTransition`, `Fails`), and an operation goes through `Begin`, `WorkerIdle`,
`DisposeCurrent`, `KillWorker`, `Adopt`, each an await of `createReconfigurableConnection`. `AskFork`,
`RequestFork` and `ForkRefused` are the fork; `DeleteBegins`, `Terminate`, `DisposeBegins`,
`DisposeEnds` the deletion. The worker is external: it runs what it was sent, in one turn, with
pauses (a question), and is idle when nothing is left.

Three history variables say what the properties except, and each is a thing the code leaves open:
`killed` and `during`: prompts do not wait for a fork, so one sent beside it may be killed with its
worker, and when its `agent_end` falls into the suspension of the listeners, `isStreaming` stays true;
`loose`: a deletion waits for the transitions it finds and for nothing after, so a fork, or a prompt
sent later, may leave a worker. A swap that fails half-way leaves the session without a connection
(and, when the kill fails, an old worker nobody is connected to), and later operations fail at once;
`ListenersFollow` is about connected sessions.

### Turn

`message` has where each send is: creating its session, chained behind another queued send, waiting
for admissions, posting, admitted, reconciling, recovering, over and how. `Submit` decides between a
turn of its own (`StartTurn`) and the queue (`Enqueue`); `PostQueued` is what follows a queued
message's wait; `OpenPost`, `Refuse`, `AgentEnds`, `PromptFails` are the server's POST handler and the
runtime; `ReadStart`, `ReadTurn`, `ReadQueued`, `Break`, `Invalid` the reader of the NDJSON;
`Reconcile`, `Poll`, `Abandon` what follows a stream; `Stop`, `Navigate`, `Arrive` the user. `Fail` is the
`catch` and `finally` of a send, with everything they release. Of the transcript only its session and
the optimistic bubbles are kept.

A session that is created is given to all who asked for it (`Asking`): of several turns among them the
last keeps the session's controller (`AskingLast`), and those that were stopped meanwhile end
(`StoppedAsking`). A start frame settles one admission of its session, if there is one (`Settle`).

Two history variables say what the properties except. `adopted`: a session created for a message
replaces whatever the user has selected meanwhile (`use-pi-chat-messaging.ts:425-429`). `disowned`: stop
settles the admissions of the view (`use-pi-chat.ts:406`), but aborts only the controller of the selected
session and the latest pending send. In the view of a new chat the two may differ: a turn waits for its
session, the user sends another message in another session, comes back and stops; the second send is
aborted, the first goes on, and a message queued behind it no longer waits for it. Things a reader may find surprising
and the properties do not deny: after a stop the second of two queued messages is still posted; a
message sent when the turn has just ended may overtake a queued one; the reconciliation of an earlier turn
can set "ready" under a new one (`637-654`); a turn that fails while another session is shown is not
told; stop aborts the latest pending send, whichever session it is of.

### RunTranscript

The runtime says messages of blocks: text, thinking, tool calls; `run.streams` and `run.announces`
choose how a provider reports them (deltas or not, starts and ends or not, indexes that begin anew with
each message). `mapper` is `EventMapperState`, and each of its operators returns the new state and
the frames, as `event-mapper.ts` does; `bubble` is what `chat-stream-state.ts` has folded from them
(`Folded`, `Merged`). `Resync` in the middle of a run resets and seeds the mapper. `upset` says that a
resync or a failed message made one of them start over, which is repaired when the transcript is
loaded and not before. A thinking block with neither start nor end is taken not to be sent.

A text is a sequence of words, and `Word` gives the word of each text block: two messages may say the same,
or one begin as another ended. `FinalText` (`event-mapper.ts:683-690`) guesses by comparison whether
a final text was streamed; `echoed` records that a message that was not streamed met a run that ends
with it or that it begins with. Then no text is missing from the bubble, but it may be shown once for
twice (`RunTexts`); otherwise `DoneShowsTheRun` claims every text, once and in order.

## 3. Runs

All configurations set `CHECK_DEADLOCK FALSE`: the counters are bounded and the terminal states
(client closed, session closed, everything sent) are states in which the system rightly stops.

| run | checks | instance | states |
|---|---|---|---|
| `SseReplay` | `TypeOK`, `NoSilentLoss`, `InOrderOnce`, `NoClosedQuestionOnFirstConnect`, `EventuallyCovered` | capacity 1, 2 frames a generation, 2 live generations beside the one of an earlier process, 1 fault, 1 question, 1 tab | 410 k |
| `SseGeneration` | `CursorBoundToGeneration`, violated | capacity 1 | |
| `SseHydration` | `HydrationNeverRewinds`, violated | capacity 1 | |
| `Waiting` | of `DaemonSocket`: `SocketTypeOK`, `RecordsOutliveDoubt`, `RecordsAccounted`, `GreetingUnderstood`, `OutcomeSpec`, `EveryRequestSettles`; of `AgentFile`: `FileTypeOK`, `OneWriter`, `NoLostUpdate`, `OnlyStaleReclaimed`, `EveryUpdateSettles` | 2 mutating commands and a read, 1 remembered outcome, 2 faults; 2 servers, one after the other, 2 updates and 1, and the daemon | 167 k |
| `DaemonConnection` | `TypeOK`, `InOrderOnce`, `NoSilentLoss`, `DeadSocketNoticed`, `BuffersReleased`, `LossIsTold` | 4 events, or 3 and an unasked snapshot; 2 lost, 2 frames on the way, 1 socket failure | 1.04 M |
| `DaemonResyncFresh` | `ResyncIsFresh`, violated | 4 events, 2 lost, no failure | |
| `DaemonRecovery` | `RecoverySurvives`, violated | 1 event, 1 socket failure | |
| `SessionRegistry` | `TypeOK`, `DeletionLeavesNothing`, `OnlyRegisteredSpeaks`, `RegistrationIsLive`, `WritesInOrder`, `FailedDeletionKeeps` | a creation, a resume, 2 deletions, 1 further presentation, a session file or none | 2.3 M |
| `AgentFileShared` | `OnlyStaleReclaimed`, violated | the updates of `Waiting`, the servers may overlap | |
| `RunTexts` | `TextsPreserved`, violated | 3 blocks, two of them with the same text | |
| `Session` | `MCTypeOK`; of `ChildStream`: `StreamHeldByViewers`, `ChildViewComplete`; of `WorkerSwap`: `PromptRunsAsAsked`, `NoTurnKilled`, `ListenersFollow`, `NothingLeftBehind`; of `Turn`: `QueuedInOrder`, `NothingVanishes`, `AdmissionsHeld`, `ScreenBelongs`; of `RunTranscript`: `DoneShowsTheRun` | see below | 919 k |
| `TurnStatus` | `StatusOwned`, violated | 2 messages, 2 sessions, 1 disturbance | |

Why these bounds reach the interesting cases.
*SseReplay*: with capacity 1 and two frames, a cursor can be in range, exactly at the edge, and evicted;
a tab may start with a cursor of an earlier process (generation 1) whose sequence is in range of the
new stream, which is the case the generation exists for; a second change of generation happens under
a live connection. Tabs do not influence each other (a connection has its own cursor), so one is
enough for TLC. Two frames are a run and its end, or a question and its closing frame. `Few` of
`MCSseReplay` lets three of the frames of a generation, the new generation, the fault and the question
come together, not more; without it, and without the liveness property, which is what the time goes
to, a run of 2.18 M states agrees. By the theorems the safety properties hold for all values.
*Waiting*: like `MCSession` below, `MCWaiting` lets an initial state choose which of its two modules moves;
the fairness of both is assumed, which asks nothing of the one at rest, none of whose fair actions
is enabled.
*DaemonSocket* in it: two mutating commands with one place for unknown outcomes overflow the map; two faults
give a failure, a reconnection and a second failure or a failed write.
*AgentFile* in it: the two updates of the first server contend under one event loop; the third meets what
a crash left: a lock with a dead pid, an empty lock, a pid that somebody else has. Each process is
launched once and each update called once; the daemon writes again only when its entry is gone,
which leaves it free to overwrite at any moment. `InOrder` names updates of one server and mutating
commands in the order of their use; `Few` leaves out a second fault with all three commands, and a
second crash and recycled pid with all three updates. Each module was also checked alone without them:
148 k states for `DaemonSocket`, 162 k for `AgentFile`; both agree. The theorems hold for any number of each.
*DaemonConnection*: one loss, a failure and a snapshot let a gap, a recovery and a replacement
overlap; the second gap, and with it the follow-up round of a resync, needs four events. The
constraint of `MCDaemonConnection` lets the unasked snapshot take the place of one of them; a run
without it (6 M states) agrees.
*SessionRegistry*: two deletions and a resume give every overlap of two requests of each kind but two
resumes, which `raced` excepts; each opens a connection of its own and writes once, and the further
presentation adds the write that outlives its connection: up to five writes in one chain. The
theorems hold for any number of each. Safety only: nothing is assumed fair.
*Session*: the four modules share no state, so `MCSession` lets an initial state choose the one that
moves; its states are theirs, side by side, and nothing about their composition is claimed.
*ChildStream* there has 2 panels, a buffer of one frame (so a second frame evicts the first), 2
events, 2 streams one after the other, 1 fault. *WorkerSwap*: 3 prompts (one running, one in
transition, one behind it), 1 fork, 1 failed step, 1 deletion. *Turn*: 3 messages, 2 sessions, 2
disturbances (a stop, a change of session, a failed request or stream). *RunTranscript*: 3 blocks in
one to three messages, 1 resync; the words are 1, 1, 2, so that a text may repeat the one before, begin
with what the run ends with, or differ. Prompts, messages and sessions are numbers used in their order
(`InOrder`, which loses nothing: states that differ in names only are the same), and `Few` bounds how
much happens at once: both panels and one event or one panel and both events; prompts, forks, failed
steps and the deletion together at most four; messages and disturbances together at most four. Each part
was also checked alone without `Few`: 0.6 M states for `ChildStream` (with one fault), 0.9 M for `WorkerSwap`, 0.6 M
for `Turn`, 1.8 M for `RunTranscript` with four blocks; all agree. Safety only: nothing is assumed
fair.

### Fairness

* `SseReplay` (`FairSpec`): the browser always reopens a broken connection (`onerror` re-arms a timer,
  retries never stop), written bytes are read, requests are answered, turns end, by themselves or cut
  short (`EndTurn` or `CutTurn`). Nothing obliges frames, faults or questions. Faults are bounded, so a connection that breaks for ever is excluded.
* `DaemonSocket` (`SocketFairness`): the request timers fire (`setTimeout` in `request`). The daemon, the socket and
  the callers owe nothing: `EveryRequestSettles` needs the timers only.
* `DaemonConnection`: the event loop runs (`ReadFrame`, `RunJob`) and the timers fire (60 s for
  reconnecting, 30 s for a request and for a snapshot stream). The daemon owes nothing.
* `AgentFile` (`FileFairness`): a process that does not die goes on with an update it has begun, and the
  deadline of `acquireLock` passes. Servers need not be launched, and the daemon owes nothing.

### What the violated properties show

* `CursorBoundToGeneration`: the server's live cursor is a number without a generation. After a
  deletion that fails, the session gets a new buffer under connections that are still open, and a
  connection swallows as many frames of the new generation as its cursor says.
  `NoSilentLoss` is stated for connections opened on the buffer that is there now.
* `HydrationNeverRewinds`: the load a resync or a settled frame asks for is applied when it arrives,
  over question frames that were applied after the server answered it.
* `ResyncIsFresh`: `getInitialSnapshot` marks its snapshot fresh although an event arrived while it
  was read; the follow-up resync for a second gap then announces a snapshot without the lost event.
* `RecoverySurvives`: a reattach whose answer and snapshot stream come in one chunk loses the frames
  to the eviction that follows the end frame; the session is closed after 30 seconds.
* `OnlyStaleReclaimed`, with two servers on one agent directory: a lock file is created empty and
  gets its pid in a second call; a server that reads it in between finds no pid, takes the owner for
  dead and removes the lock of a live one (`agent-file-writer.ts:95-96`, `133`). With one server the
  two calls cannot be interrupted, and the property holds: run `Waiting`, and the theorem.

* `StatusOwned`: `startNewSession` sets the status to ready and then waits for `createSession`
  (`use-pi-chat.ts:560-562`). A message sent meanwhile starts its turn in the session still selected
  and sets "submitted"; when the new session arrives it is selected, the status is not touched, and
  the turn, hidden now, does not touch it either. The composer of an idle session then says that a
  turn runs until the user stops it or leaves.

* `TextsPreserved`: two messages of a run that were not streamed and say the same are shown as one,
  because the second is taken for a text that was (`event-mapper.ts:688`).

`NoSilentLoss` of `DaemonConnection` and `LossIsTold` leave out the losses in `abandoned`: when a
resync's reads fail on a live socket, `resyncAfterGap` returns and forgets a follow-up that was asked
for (`prime-bridge.ts:505`). They are stated for a loss followed by an event that is not a merged
update, the only one the tracker can tell from batching.

## 4. Proofs

`SseReplayProofs` proves, for every set of tabs and questions, every capacity and every bound,
from the assumptions named in `RingBuffer` and `SseReplay` (the capacity is at least 1; `"plain"` is
not a question; the bounds are naturals):

* `TypeCorrect`: `Spec => []TypeOK`, where `TypeOK` includes that the buffer holds the newest frames
  without a hole;
* `DeliveryInOrder`: `Spec => []InOrderOnce`;
* `NothingLostSilently`: `Spec => []NoSilentLoss`;
* `OverQuestionsSpared`: `Spec => NoClosedQuestionOnFirstConnect`, an action property.

The invariants are not inductive, so all but the first follow from one that is, `IInv` (lemmas
`InitInvariant`, `StepInvariant`, `Invariant`). Its parts say how the places that hold a sequence
number hang together. `History`: the log and the buffer agree. For every tab, `ClientInv`:
`Handshake` (the first message on the wire of a connection names its generation, and a tab that knows no stream
has no cursor, which is why the replay it is given is a first one and is filtered), `Ordered` (the
wire of an attached connection is in sequence order, newer than the tab's cursor, a resync before
the frames it does not stand for, and the connection's cursor is the last frame published), `Genuine`
(a frame on the wire is the one of its number in the log), `CursorPromise` (everything up to the tab's
own cursor is safe), `Told` (a tab that is `behind` is or will be told to load) and, the part that
carries `NoSilentLoss`, `Covered`: every published frame is safe, on the tab's wire, or stood for by
a resync on it. A question is `Safe` when it is over, was applied or is known to be skipped, a settled
frame when a load answered after it was applied or awaits it, or the tab is `Recovering`: a load is
asked for, a notice was missed, or the tab is stranded; plain frames are safe, because the settled frame
that follows speaks for them. `Repairs` says that a tab that missed a notice is still in the turn that
will ask for the load, awaits it, or is stranded. Each action moves a frame from one of these to another,
and a settled tab has only the first left. The proof has one
step per action, and under it one per conjunct the action disturbs; what the operators on buffers
return is in lemmas of its own.

`AgentFileProofs` proves, for any number of servers, updates and crashes, from
`AgentFileAssumption` and `~Shared` (at most one server runs at a time on a directory, which is how
the server is run; the violated run shows the assumption is needed):

* `TypeCorrect`: `FileSpec => []FileTypeOK`;
* `MutualExclusion`: `FileSpec => []OneWriter`;
* `NothingLost`: `FileSpec => []NoLostUpdate`;
* `StaleReclaimed`: `FileSpec => OnlyStaleReclaimed`, an action property.

The invariant there is `FileTypeOK`, `Servers` (one runs, and requests under way are its own), `Turns`
(one request inside a synchronous stretch), `Locks` (an owner's lock file is at the path, and
what was read of a lock is still so while it is judged and reclaimed: `Reclaim` removes by path, so
this is what makes it safe) and `Contents` (whoever is about to rewrite the file has read everything
in it that the daemon has not destroyed).

`SessionRegistryProofs` proves, for any number of requests and of writes, from
`SessionRegistryAssumption` (creations are not resumes or deletions), all six properties of the run:
`TypeCorrect`, `NothingLeft` (`DeletionLeavesNothing`), `OneConnectionSpeaks`
(`OnlyRegisteredSpeaks`), `RegisteredIsLive` (`RegistrationIsLive`), `SidecarInOrder`
(`WritesInOrder`) and `FailureKeeps` (`FailedDeletionKeeps`). Its invariant has these parts: `Files`
(the transcript is created once and deleted for good), `Lives` (a connection is cut off only by
deletions that hold it and are past the point of return), `Alone` (without a race, who opens the
session is alone and who deletes it holds the registered one), `Chained` (the writes that have not
settled are the last ones, each linked to the one before, so that only the first of them can run),
`Leaving` and `Waiting` (while a session without a transcript is still registered a deletion is past
its waiting, and what it has not waited for is `late`), `Orphaned` (so is a write that is made when
the session has gone). Without `Leaving`, a second deletion that has found the transcript gone and
cleans up through the catalog could meet a write the first one did not wait for.

`DaemonSocketProofs` proves, for any number of commands and of faults and any limit of remembered
outcomes, all its safety properties: `TypeCorrect`, `RecordsKept` (`RecordsOutliveDoubt`),
`RecordsReleased` (`RecordsAccounted`), `GreetingHeard` (`GreetingUnderstood`), and `Implementation`
(`OutcomeSpec`): the initial states are initial states of `CommandOutcome` and every step is a step of it
or a stutter. The invariant has `Sockets` (a failed client has no socket; only it may have the
beginning of a line in its buffer, which `Reconnect` clears: hence the greeting), `Waiters` (the map
of pending requests and the verdicts agree) and `Ledger`, which follows a command through the places
it can be: `Sent` (on the wire or run, once), `Answers`, `Released` (nothing is acknowledged while its
outcome is in doubt) and `Settled` (what was settled is remembered, forgotten for lack of room,
acknowledged, or its record is gone).

The second half of `TurnProofs` proves of `WorkerSwap`, for any number of prompts, forks and failed
steps, `SwapTypeCorrect` (`SwapTypeOK`) and the four properties of the run: `SentToItsWorker`
(`PromptRunsAsAsked`), `TurnsSurviveSwaps` (`NoTurnKilled`), `BridgeListens` (`ListenersFollow`) and
`DeletionLeavesNothing` (`NothingLeftBehind`). What makes its invariant, `SwapIInv`, is how the two
chains hang together, `Chains`: only the first transition has begun, and then it is the one
reconfiguration in the wrapper's chain. `Committed` says that the worker at hand was made for the prompt
text the bridge knows, `SwapStages` and `Listeners` what there is of a connection, a worker and
listeners at each stage of an operation, `Undisturbed` that while nothing was sent beside a fork or a
deletion no swap meets a turn, `Awaits` and `Ending` that what a deletion waits for is all there is.

`DaemonConnectionProofs` proves, for any number of events, losses, snapshots and socket failures,
`TypeCorrect`, `AppliedInOrder` (`InOrderOnce`), `LossIsNoticed` (`NoSilentLoss`), `DeathIsNoticed`
(`DeadSocketNoticed`) and `FramesReleased` (`BuffersReleased`). Its invariant needs what a daemon writes,
`Order` (a replacement snapshot has the events written before it, the end of a stream is its last
frame, one reattach is answered) and `Reattaching` (one answer is on the way or being dealt with);
from these, `Replacements` (what is handled before the end of a replacement is not newer) makes
`Cursor` (what was mapped rises from the baseline to the cursor) survive a replacement, `Losses`
(a lost event that the tracker has passed is covered, or a job or a recovery will cover it) gives
`NoSilentLoss`, and `Buffered` (every frame that is kept has its end still to come, or is about to be
applied) gives `BuffersReleased`. That `Delivered` and `Selected` do what their recursion suggests is
proved over the natural numbers with the set of the counterexamples, whose least member is ruled out.

The first half of `TurnProofs` proves of `Turn`, for any number of messages, sessions and disturbances,
`TypeCorrect` (`TurnTypeOK`) and the four properties of the run: `AdmissionsAwaited` (`AdmissionsHeld`),
`NothingLost` (`NothingVanishes`), `ScreenOwned` (`ScreenBelongs`) and `QueuedWaitTheirTurn`
(`QueuedInOrder`). The first invariant, `IInv`, says of each send what its stage tells about it
(`Staged`), that the POST of a turn is told of its start before anything else (`StartFirst`) and hears
nothing but a refusal of what the runtime has not got (`Heard`); that a session waits for the start of
one turn at most (`Admitting`), that whoever waits, waits for such a turn (`Waiters`), and whose the
bubbles are (`Bubbles`). The order of queued messages needs a second one, `OInv`, on top: a turn that
has not started is waited for (`Awaited`), who waits comes after everything queued before it (`Marked`),
and a queued message is posted only when the runtime has all that was sent before it (`Ordered`).
Posting after a wait is right because the turn that started is the only one of its session that had not;
posting at once, because then there is none.

`ChildStreamProofs` proves, for any number of panels, events, streams and faults and any capacity of
the buffer, from `CapacityAssumption` and `ChildStreamAssumption`, `ChildTypes` (`ChildTypeOK`) and
`ViewersHoldTheStream` (`StreamHeldByViewers`). Of its
invariant, `Held` counts the references by the places of the panels, which needs that during an
initialization somebody waits for it. `Lags` says where everything is that a screen lacks. Behind
the stream: events that are held back have a read or a run of the chain to come that releases them
(`Awaiting`), and the snapshot together with the frames retained after it shows everything that is not
held back (`SnapshotFollowed`, `RetainedFollowed`). Behind each panel, `PanelSound`: a cursor that the
buffer can resume stands for what the panel shows (`CursorSound`), the inbox is in order
(`InboxInOrder`, `ClosingIsLast`), and either a resync is on the way (`Resyncs`) or what the panel shows
and its inbox together are everything that is not held back (`Complete`). The end of the child
reaches whoever follows, unless the last read failed (`EndFollowed`). The lemmas under it say what the
handler, the refresh and the release of the events do to a channel, and that what is written after a
cursor is a window of the buffer; that of `Drained`, which runs over a sequence of any length, is
proved with the set of the counterexamples, as above.

`RunTranscriptProofs` proves, for any number of blocks and resyncs, `RunTypes` (`RunTypeOK`) and
`DoneShowsAlways` (`DoneShowsTheRun`). The property speaks of the end of a run, so its invariant,
`RInv`, is what mapper and bubble agree on before. `Sound` survives resyncs and failed messages: an
index the mapper gave to an episode is below the next it gives (`MapperSound`), a call has one tool in
the mapper and one part, with its name, in the bubble (`Keyed`), because whatever runs was learned by
its start or seeded (`run.running` is within `mapper.starts`). `Calm` holds until something starts over.
`TextKept`: every text spoken is within the mapper's, and unless one was `echoed`, what was said is the
mapper's text, or that followed by the message that is still being sent, which is why `FinalText` says
nothing twice. `CallsKept`: every call that ended is among the tools
of the run, as it ended. `ThoughtsShown`: every thought is told by one index of the bubble, and the
bubble has all episodes the mapper knows. `EpisodesActive` and `MessageThoughts`: what is active is
still streaming in the bubble, and is of the message that is sent. The end of a run (`RunEndsKeeps`) is
the longest step. `LastBubbleIs` says that merging `done` over the bubble of a calm state keeps one part
of each thing (`Keyed` again): `done`'s where it has one, the streamed one, completed, where it has not;
`LastTexts`, `LastThoughts` and `LastCalls` draw the three conclusions. What the recursive functions
`Shown`, `Building` and `Weaving` return is proved with `SetInduction`, which speaks of a set of numbers
where the library's principle has an operator. `RInv` was checked with TLC too, on runs of four blocks with a
resync (1.8 million states).

What proving showed about the models. In `RunTranscript`, the fold over a fold in which the blocks of
the last message became parts, and the one that merged `done`, had no value a prover could compute; they
are one operator for each kind of block, and the loop over `done`'s parts between which the others are
carried. Two corners were not the code's: an error in a bubble is matched by no error of `done`, and a
run that is aborted leaves calls that are never executed (`RunEnds`). `Selected` and the history of a
recovery were folds whose value no prover can compute, and are recursive functions now, as is `Drained`
in `ChildStream`; what its streams replay was a filtered sequence and is now the window of the buffer
that it always is (`Replayed`). In `Turn`, three corners of `SessionCreated` and `Reconcile` were not
the code's: of several turns that wait for one session the last keeps its controller, a send that was
stopped while it waited is over when the session comes, and the bubble of an aborted send goes when it
ends. `QueuedInOrder` was false beyond the bounds of the run: the invariant could not be kept through
`Stop` in the view of a new chat, and a simulation with four messages confirms the execution that
`disowned` now records. In `DaemonSocket`, what `RecordsAccounted` said of commands that were sent and
lost was too weak to be kept, and it now lists the reasons for a record.

Only model-checked: liveness (`EventuallyCovered`, `EveryRequestSettles`, `LossIsTold`,
`EveryUpdateSettles`): the prover has no rules for fairness; and `ChildViewComplete`. Every other
invariant and every action property of a passing run is proved; `MCTypeOK` only says which of the four proved type invariants is of the part
that moves. Out of the prover's reach altogether: ENABLED, liveness under fairness, and the library's
theorems of induction, which take an operator; what a recursive function computes is proved, as above,
with a set of counterexamples or with `SetInduction`. No module here declares a recursive operator.

## 5. Not modelled

* *event channel*: the browser's recovery mode (what a recovery reads is in `Turn`), presentation, RLM,
  reasoning, state and queue frames, which are applied when they come and are in every load. One POST is
  under way at a time, and a load that finds no messages, which a reconciliation does not show
  (`use-pi-chat-messaging.ts:193`), is not distinguished. The `agent_settled` of a session that was replaced or rebuilt is handled as that
  of a run. What the code leaves open and the properties except: a turn cut short by Stop or a failed
  POST, or a load that fails, may leave a tab that missed a notice without what it missed until the next
  run settles; a question that a resync passed over is not asked again. What they do not
  speak of: a run that goes on when the POST stream ends without `done` keeps the tab busy until the load
  comes; the reconciliation of one turn may set the status to ready in the next;
* *resync of a session*: `refreshCacheAfterRebuild` writes `isStreaming` after an await of its own
  (`prime-bridge.ts:435-443`), beside what `WorkerSwap` says of it;
* *session connection*: `session_binding` and generations, `session_closed`, the first attach, `dispose`,
  and several listeners. A rebinding forgets the tracker's position, so a loss around it goes
  unnoticed (`daemon-sequence-gap.ts:82`);
* *socket client*: a write that throws rejects a read with the unknown-outcome error too
  (`daemon-socket-client.ts:292`): more careful than need be, and left as it is in the model;
* *registry*: renaming, projects (`assignSession`, project filters), the queue and the navigation of a
  live session, plan sidecars and attachments;
* *child streams*: a panel that closes while its request is being answered, the deletion of the
  parent, posting to a child. Of a turn that goes on, messages that have ended are committed too, and
  are in what is read; the model counts a turn's events as committed when it ends, which is the least a
  read may show. A panel that is refreshed in the middle of a message replaces the screens of all panels
  by the committed transcript: until the read at the end of the turn the message is missing there, and
  nothing is claimed of it before;
* *worker*: turns the agent begins by itself, transient sessions, the catalog;
* *turn*: deletion in the browser, sessions that are forbidden or unknown, session commands, POSTs to a
  child, edits of the queue. The SSE frames of the same turn are in `SseReplay`, which has turns only
  as the time in which notices are dropped, and the load at their end;
* *transcript*: the presentation, user messages, images, payloads and what a tool returns, compaction
  and the other events that become one frame each;
* *caches*: `coalescing-refresh-queue.ts:23` (a request between the end of the loop and `finally` is
  recorded and not run) and `completion/prompt-index.ts:370` (a build that is not recorded may run beside
  another). They are helpers of completion and of lists of models: the next request repairs what is
  stale;
* *left out for good*: HTTP validation, providers and settings, workspace files, the project
  registry (one chain of writes, a simpler form of `SessionRegistry` and `AgentFile`), the user
  interface, the launcher and the release scripts. They have little state of their own, or consist of
  I/O, tables and markup, and they are most of the repository's lines: the models cover the code that
  has a protocol, a small part of the whole.

## 6. Plan

Modelled and checked: every component with a protocol of its own, as far as the previous section
says. Proved: everything the passing runs check, but for liveness and `ChildViewComplete`, which is
next: beside `IInv` it needs that a panel, once the last refresh has succeeded, has read, or will read,
messages as new as the last turn's. What else is left to model is in the
section above; of it, rebindings of a session (`session_binding`, and the gap tracker's positions
across them) and the browser's recovery mode have most to say about what is already proved.
