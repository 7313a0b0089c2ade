----------------------------- MODULE ChildStream -----------------------------
(***************************************************************************)
(* The live stream of one child agent, end to end: the bridge watches the  *)
(* child's session, keeps one stream for all its viewers                   *)
(* (web/server/src/prime-bridge.ts), the SSE handler writes it             *)
(* (handlers/chat-events.ts), and a browser panel loads the transcript,    *)
(* connects and follows (use-subagent-chat.ts).                            *)
(*                                                                         *)
(* What happens in the child is a number of events.  A transcript is the   *)
(* set of events it shows.  Messages that are read are the committed ones: *)
(* a snapshot made of them when n events had happened stands for 1 .. n    *)
(* and shows what belongs to turns that had ended; the message in flight   *)
(* is not in it.  An answer of the daemon comes after the events before    *)
(* it, on the same socket, so events reach the watcher as they happen and  *)
(* only answers are awaited.                                               *)
(***************************************************************************)
EXTENDS RingBuffer, SequencesExt

CONSTANTS
  Viewers,          \* browser panels that may show the child
  MaxEvents,        \* bound: events of the child
  MaxStreams,       \* bound: streams opened for it, one after the other
  MaxFrames,        \* bound: frames beyond which no panel asks for a refresh
  MaxChildFaults    \* bound: reads that fail, connections that break, panels left

ASSUME ChildStreamAssumption ==
  {MaxEvents, MaxStreams, MaxFrames, MaxChildFaults} \subseteq Nat

VARIABLES
  emitted,          \* events the child's session has had
  turns,            \* those that ended a turn
  ended,            \* it was closed
  stream,           \* the entry of #rlmChildStreams, or its initialization
  frames,           \* its ring buffer
  viewer,           \* each panel: its screen, its cursor and its connection
  finalReadFailed,  \* history: the refresh that follows the end failed
  childFaults       \* faults so far

childVars == <<emitted, turns, ended, stream, frames, viewer, finalReadFailed, childFaults>>

NotRead == 0 - 1

NoStream == [phase |-> "none", refs |-> 0, upto |-> 0, terminal |-> FALSE,
             replayFrom |-> 0, buffering |-> FALSE, held |-> <<>>, chain |-> 0,
             read |-> NotRead, failed |-> FALSE]

Away == [at |-> "away", running |-> FALSE, generation |-> 0, lastEventId |-> 0,
         ahead |-> 0, inbox |-> <<>>, have |-> {}, base |-> 0]

Happening(n, kind)       == [n |-> n, kind |-> kind]
Told(n)                  == [type |-> "event", n |-> n]
SessionReset(n)          == [type |-> "reset", n |-> n]
Failure                  == [type |-> "error"]
ChildSnapshot(upto, end) == [type |-> "session_snapshot", upto |-> upto, terminal |-> end]
Numbered(seq, frame)     == [id |-> seq, frame |-> frame]
Hello(generation, reset) == [type |-> "connected", generation |-> generation, reset |-> reset]
ResyncRequired           == [type |-> "resync"]

(* What messages show that were read after so many events, and what they     *)
(* lack: what happened since the last turn ended.  (A message of a turn that *)
(* goes on may be committed too: at least these are.)                        *)
Committed(upto) == {n \in 1 .. upto : \E t \in turns : n <= t /\ t <= upto}
InFlight(upto)  == (1 .. upto) \ Committed(upto)

Following == {v \in Viewers : viewer[v].at = "open"}
Waiting   == {v \in Viewers : viewer[v].at = "waiting"}
Holders   == {v \in Viewers : viewer[v].at \in {"joined", "refreshing", "ready", "open"}}

------------------------------------------------------------------------------
(* The stream                                                                *)

(* What a step does to the stream, as a record: the entry, the ring buffer   *)
(* and what was dispatched to the connections that follow it.                *)
Channel == [stream |-> stream, frames |-> frames, out |-> <<>>]

Dispatched(c, frame) ==
  [c EXCEPT !.frames = Push(@, frame),
            !.out = Append(@, Numbered(c.frames.nextSeq, frame))]

RefreshQueued(c) ==
  [c EXCEPT !.stream.buffering = TRUE, !.stream.chain = @ + 1]

(* What an event dispatches itself; a close without a reason is no frame,    *)
(* and a session that was replaced or rebuilt is told as such.               *)
Announced(c, e) ==
  LET marked == [c EXCEPT !.stream.terminal = @ \/ e.kind \in {"closed", "failed"}]
  IN  CASE e.kind = "closed" -> marked
        [] e.kind = "failed" -> Dispatched(marked, Failure)
        [] e.kind = "reset"  -> Dispatched(marked, SessionReset(e.n))
        [] OTHER             -> Dispatched(marked, Told(e.n))

(* Mutant: only the end of a turn queues a snapshot.                         *)
HandledQuietly(c, e) ==
  IF e.kind = "turn_end" THEN RefreshQueued(Announced(c, e)) ELSE Announced(c, e)

(* #handleRlmChildEvent                                                      *)
Handled(c, e) ==
  IF e.kind = "message" THEN Announced(c, e) ELSE RefreshQueued(Announced(c, e))

(* The events that were held back go through the handler in their order; one *)
(* that queues a refresh does not hold back those after it.                  *)
Drained(c) ==
  LET held == c.stream.held
      through[i \in 0 .. Len(held)] ==
        IF i = 0 THEN [c EXCEPT !.stream.buffering = FALSE, !.stream.held = <<>>]
        ELSE Handled(through[i - 1], held[i])
  IN  through[Len(held)]

(* Mutant: what was held back during the refreshes is forgotten.             *)
RefreshedForgetting(c) ==
  IF c.stream.chain > 1 THEN [c EXCEPT !.stream.chain = @ - 1, !.stream.read = NotRead]
  ELSE [c EXCEPT !.stream.chain = 0, !.stream.read = NotRead,
                 !.stream.buffering = FALSE, !.stream.held = <<>>]

(* The end of one refresh of the chain; the last one releases the events.    *)
Refreshed(c) ==
  LET rest == [c EXCEPT !.stream.chain = @ - 1, !.stream.read = NotRead]
  IN  IF rest.stream.chain = 0 THEN Drained(rest) ELSE rest

Snapshotted(c) ==
  LET upto == c.stream.read
      told == Dispatched([c EXCEPT !.stream.upto = upto, !.stream.failed = FALSE],
                         ChildSnapshot(upto, c.stream.terminal))
  IN  [told EXCEPT !.stream.replayFrom = LatestSequence(told.frames)]

(* `gone` connections release the stream; the last one closes it, and its    *)
(* ring buffer goes with it.                                                 *)
Becomes(c, gone) ==
  IF c.stream.refs > Cardinality(gone)
  THEN /\ stream' = [c.stream EXCEPT !.refs = @ - Cardinality(gone)]
       /\ frames' = c.frames
  ELSE /\ stream' = NoStream
       /\ frames' = EmptyBuffer(frames.generation + 1)

Ends(entry) ==
  entry.frame.type = "session_snapshot" /\ entry.frame.terminal

(* Every connection that follows writes what is dispatched, and closes after *)
(* a terminal snapshot.  A panel whose refresh is over goes on.              *)
Publish(c, finished) ==
  LET closes == \E i \in DOMAIN c.out : Ends(c.out[i])
      ahead(v) == viewer[v].ahead - finished
  IN  /\ viewer' = [v \in Viewers |->
           CASE viewer[v].at = "open" ->
                  [viewer[v] EXCEPT !.inbox = @ \o c.out,
                                    !.at = IF closes THEN "closing" ELSE @]
             [] viewer[v].at = "refreshing" ->
                  [viewer[v] EXCEPT !.ahead = ahead(v),
                                    !.at = IF ahead(v) = 0 THEN "ready" ELSE @]
             [] OTHER -> viewer[v]]
      /\ IF c.stream.phase = "open"
         THEN Becomes(c, IF closes THEN Following ELSE {})
         ELSE stream' = c.stream /\ frames' = c.frames

------------------------------------------------------------------------------
(* The child                                                                 *)

(* The watcher's listener: before the stream is registered, and while it     *)
(* refreshes, events are held back.                                          *)
Deliver(e) ==
  IF stream.phase = "open" /\ ~stream.buffering
  THEN Publish(Handled(Channel, e), 0)
  ELSE /\ stream' = IF stream.phase = "subscribed" \/ stream.buffering
                    THEN [stream EXCEPT !.held = Append(@, e)] ELSE stream
       /\ UNCHANGED <<frames, viewer>>

Emit(kind) ==
  /\ ~ended /\ emitted < MaxEvents
  /\ emitted' = emitted + 1
  /\ turns' = IF kind = "turn_end" THEN turns \union {emitted'} ELSE turns
  /\ Deliver(Happening(emitted', kind))
  /\ UNCHANGED <<ended, finalReadFailed, childFaults>>

(* With a reason the close is an error frame, without one it is no frame.    *)
End(kind) ==
  /\ ~ended
  /\ ended' = TRUE
  /\ Deliver(Happening(0, kind))
  /\ UNCHANGED <<emitted, turns, finalReadFailed, childFaults>>

(* The daemon answers getMessages with the messages committed by now; what   *)
(* it answers waits for the event loop.                                      *)
ServeRead ==
  /\ stream.phase = "subscribed" \/ stream.chain > 0
  /\ stream.read = NotRead
  /\ stream' = [stream EXCEPT !.read = emitted]
  /\ UNCHANGED <<emitted, turns, ended, frames, viewer, finalReadFailed, childFaults>>

------------------------------------------------------------------------------
(* The bridge                                                                *)

(* #initializeRlmChildStream: a child that has ended cannot be watched; the  *)
(* request is answered with 404 and the panel tries again.                   *)
Refused(v) ==
  IF viewer[v].at = "waiting" THEN [viewer[v] EXCEPT !.at = "broken"] ELSE viewer[v]

Watch ==
  /\ stream.phase = "watching"
  /\ \/ /\ ~ended
        /\ stream' = [stream EXCEPT !.phase = "subscribed"]
        /\ UNCHANGED viewer
     \/ /\ ended
        /\ stream' = NoStream
        /\ viewer' = [v \in Viewers |-> Refused(v)]
  /\ UNCHANGED <<emitted, turns, ended, frames, finalReadFailed, childFaults>>

(* Mutant: those who wait for an initialization are not counted.             *)
JoinersUncounted == 1

Joiners == Cardinality(Waiting)

(* The stream is registered with the messages read and the events since; the *)
(* requests that waited for it each add their reference.                     *)
Register ==
  /\ stream.phase = "subscribed" /\ stream.read # NotRead
  /\ LET c == Drained([Channel EXCEPT !.stream.phase = "open", !.stream.refs = Joiners,
                                      !.stream.upto = stream.read,
                                      !.stream.read = NotRead])
     IN  stream' = c.stream /\ frames' = c.frames
  /\ viewer' = [v \in Viewers |-> IF v \in Waiting THEN [viewer[v] EXCEPT !.at = "joined"]
                                  ELSE viewer[v]]
  /\ UNCHANGED <<emitted, turns, ended, finalReadFailed, childFaults>>

RegisterFails ==
  /\ stream.phase = "subscribed" /\ childFaults < MaxChildFaults
  /\ childFaults' = childFaults + 1
  /\ stream' = NoStream
  /\ viewer' = [v \in Viewers |-> Refused(v)]
  /\ UNCHANGED <<emitted, turns, ended, frames, finalReadFailed>>

(* #refreshRlmChildSnapshot, the first of the chain.                         *)
Refresh ==
  /\ stream.phase = "open" /\ stream.chain > 0 /\ stream.read # NotRead
  /\ Publish(Refreshed(Snapshotted(Channel)), 1)
  /\ UNCHANGED <<emitted, turns, ended, finalReadFailed, childFaults>>

RefreshFails ==
  /\ stream.phase = "open" /\ stream.chain > 0 /\ childFaults < MaxChildFaults
  /\ childFaults' = childFaults + 1
  /\ Publish(Refreshed([Channel EXCEPT !.stream.failed = TRUE]), 1)
  /\ finalReadFailed' = (finalReadFailed \/ stream.terminal)
  /\ UNCHANGED <<emitted, turns, ended>>

------------------------------------------------------------------------------
(* A panel's request                                                         *)

(* A screen that is replaced by messages that were read.                     *)
Reading(panel, upto) == [panel EXCEPT !.have = Committed(upto), !.base = upto]

(* The panel loads the transcript, or reconnects with the screen it has; the *)
(* bridge reads the child's status from the list of sessions.                *)
Ask(v) ==
  /\ viewer[v].at \in {"away", "broken"}
  /\ LET panel == IF viewer[v].at = "away" THEN Reading(viewer[v], emitted) ELSE viewer[v]
     IN  viewer' = [viewer EXCEPT ![v] = [panel EXCEPT !.running = ~ended, !.at = "listed"]]
  /\ UNCHANGED <<emitted, turns, ended, stream, frames, finalReadFailed, childFaults>>

(* #publicRlmChildStream: may the cursor be resumed?                         *)
Requested(v) == viewer[v].generation # 0 \/ viewer[v].lastEventId > 0

Resumable(v) ==
  /\ viewer[v].generation = frames.generation
  /\ viewer[v].lastEventId > 0
  /\ ~Overflowed(frames, viewer[v].lastEventId)

(* Mutant: the snapshot is sent without the frames since it was made.        *)
ReplayFromLatest(v, resumable) ==
  IF resumable THEN viewer[v].lastEventId ELSE LatestSequence(frames)

ReplayFrom(v, resumable) ==
  IF resumable THEN viewer[v].lastEventId
  ELSE IF stream.terminal THEN LatestSequence(frames) ELSE stream.replayFrom

(* What replaySince returns, in the order in which it is written: the        *)
(* numbers only grow, so the entries after a cursor are the newest ones.     *)
Replayed(b, from) ==
  LET since == {i \in DOMAIN b.entries : b.entries[i].seq > from}
  IN  SubSeq(b.entries, Len(b.entries) - Cardinality(since) + 1, Len(b.entries))

(* The answer and createSseResponse: the bootstrap, and the first flush.     *)
Bootstrap(v, resumable) ==
  LET from     == ReplayFrom(v, resumable)
      hello    == <<Hello(frames.generation, Requested(v) /\ ~resumable)>>
      snapshot == IF resumable /\ ~stream.terminal THEN <<>>
                  ELSE <<ChildSnapshot(stream.upto, stream.terminal)>>
      since    == Replayed(frames, from)
      flushed  == IF stream.terminal THEN <<>>
                  ELSE IF Overflowed(frames, from) THEN <<ResyncRequired>>
                  ELSE [i \in DOMAIN since |-> Numbered(since[i].seq, since[i].event)]
  IN  viewer' = [viewer EXCEPT
        ![v].at = IF stream.terminal THEN "closing" ELSE "open",
        ![v].inbox = hello \o snapshot \o flushed]

(* `entry` is the stream with this request counted.                          *)
Answer(v, entry) ==
  LET needsRefresh == Requested(v) /\ ~Resumable(v) /\ ~stream.terminal
      refreshing   == RefreshQueued([Channel EXCEPT !.stream = entry])
  IN  \/ /\ needsRefresh /\ frames.nextSeq + stream.chain <= MaxFrames
         /\ stream' = refreshing.stream
         /\ viewer' = [viewer EXCEPT ![v].at = "refreshing",
                                     ![v].ahead = refreshing.stream.chain]
         /\ UNCHANGED frames
      \/ /\ ~needsRefresh
         /\ Bootstrap(v, Resumable(v))
         /\ Becomes([Channel EXCEPT !.stream = entry], IF stream.terminal THEN {v} ELSE {})

(* openRlmChildStream, once the child was found.                             *)
LookUp(v) ==
  /\ viewer[v].at = "listed"
  /\ \/ /\ stream.phase = "open"
        /\ Answer(v, [stream EXCEPT !.refs = @ + 1])
     \/ /\ stream.phase # "open" /\ ~viewer[v].running
        /\ viewer' = [viewer EXCEPT ![v].at = "closing",
                        ![v].inbox = <<Hello(MaxStreams + 1, Requested(v)),
                                       ChildSnapshot(emitted, TRUE)>>]
        /\ UNCHANGED <<stream, frames>>
     \/ /\ stream.phase \in {"watching", "subscribed"} /\ viewer[v].running
        /\ viewer' = [viewer EXCEPT ![v].at = "waiting"]
        /\ UNCHANGED <<stream, frames>>
     \/ /\ stream.phase = "none" /\ viewer[v].running
        /\ frames.generation <= MaxStreams
        /\ stream' = [NoStream EXCEPT !.phase = "watching"]
        /\ viewer' = [viewer EXCEPT ![v].at = "waiting"]
        /\ UNCHANGED frames
  /\ UNCHANGED <<emitted, turns, ended, finalReadFailed, childFaults>>

Join(v) ==
  /\ \/ viewer[v].at = "joined" /\ Answer(v, stream)
     \/ /\ viewer[v].at = "ready"
        /\ Bootstrap(v, FALSE)
        /\ Becomes(Channel, IF stream.terminal THEN {v} ELSE {})
  /\ UNCHANGED <<emitted, turns, ended, finalReadFailed, childFaults>>

------------------------------------------------------------------------------
(* A panel's connection                                                      *)

Disconnected(v, panel) ==
  /\ viewer' = [viewer EXCEPT ![v] = [panel EXCEPT !.inbox = <<>>]]
  /\ IF viewer[v].at = "open" THEN Becomes(Channel, {v}) ELSE UNCHANGED <<stream, frames>>

(* source.onmessage in the panel.  A reset makes it start over with what it  *)
(* loads, like a resync.                                                     *)
ReadNumbered(v, entry) ==
  LET f == entry.frame
      panel == [viewer[v] EXCEPT !.inbox = Tail(@), !.lastEventId = entry.id]
      shown == CASE f.type = "session_snapshot" -> Reading(panel, f.upto)
                 [] f.type = "event" -> [panel EXCEPT !.have = @ \union {f.n}]
                 [] OTHER -> panel
  IN  CASE f.type = "error" \/ Ends(entry) -> Disconnected(v, [shown EXCEPT !.at = "over"])
        [] f.type = "reset" ->
             Disconnected(v, [panel EXCEPT !.lastEventId = 0, !.at = "away"])
        [] OTHER -> /\ viewer' = [viewer EXCEPT ![v] = shown]
                    /\ UNCHANGED <<stream, frames>>

ReadBootstrap(v, m) ==
  LET panel == [viewer[v] EXCEPT !.inbox = Tail(@)]
      known == m.type = "connected" /\ ~m.reset /\ viewer[v].generation = m.generation
  IN  \/ /\ m.type = "connected"
         /\ viewer' = [viewer EXCEPT ![v] =
              [panel EXCEPT !.generation = m.generation,
                            !.lastEventId = IF known THEN @ ELSE 0]]
         /\ UNCHANGED <<stream, frames>>
      \/ /\ m.type = "session_snapshot" /\ ~m.terminal
         /\ viewer' = [viewer EXCEPT ![v] = Reading(panel, m.upto)]
         /\ UNCHANGED <<stream, frames>>
      \/ /\ m.type = "session_snapshot" /\ m.terminal
         /\ Disconnected(v, [Reading(panel, m.upto) EXCEPT !.at = "over"])
      \/ /\ m.type = "resync"
         /\ Disconnected(v, [panel EXCEPT !.lastEventId = 0, !.at = "away"])

ReadMessage(v) ==
  /\ viewer[v].at \in {"open", "closing"} /\ viewer[v].inbox # <<>>
  /\ LET m == Head(viewer[v].inbox)
     IN  IF "frame" \in DOMAIN m THEN ReadNumbered(v, m) ELSE ReadBootstrap(v, m)
  /\ UNCHANGED <<emitted, turns, ended, finalReadFailed, childFaults>>

(* The connection breaks: the panel keeps its screen and reconnects.         *)
ConnectionBreaks(v) ==
  /\ viewer[v].at \in {"open", "closing"} /\ childFaults < MaxChildFaults
  /\ childFaults' = childFaults + 1
  /\ Disconnected(v, [viewer[v] EXCEPT !.at = "broken"])
  /\ UNCHANGED <<emitted, turns, ended, finalReadFailed>>

(* The panel is closed, or its effect runs again: it starts over, with the   *)
(* cursor it has stored.                                                     *)
Leave(v) ==
  /\ viewer[v].at \in {"open", "closing", "over"} /\ childFaults < MaxChildFaults
  /\ childFaults' = childFaults + 1
  /\ Disconnected(v, [viewer[v] EXCEPT !.at = "away", !.have = {}, !.base = 0])
  /\ UNCHANGED <<emitted, turns, ended, finalReadFailed>>

------------------------------------------------------------------------------
ChildInit ==
  /\ emitted = 0 /\ turns = {} /\ ended = FALSE
  /\ stream = NoStream /\ frames = EmptyBuffer(1)
  /\ viewer = [v \in Viewers |-> Away]
  /\ finalReadFailed = FALSE /\ childFaults = 0

ChildNext ==
  \/ \E kind \in {"message", "turn_end", "reset"} : Emit(kind)
  \/ \E kind \in {"closed", "failed"} : End(kind)
  \/ ServeRead \/ Watch \/ Register \/ RegisterFails \/ Refresh \/ RefreshFails
  \/ \E v \in Viewers :
       Ask(v) \/ LookUp(v) \/ Join(v) \/ ReadMessage(v) \/ ConnectionBreaks(v) \/ Leave(v)

ChildSpec == ChildInit /\ [][ChildNext]_childVars

------------------------------------------------------------------------------
(* Properties                                                                *)

ChildFrame ==
  [type : {"event", "reset"}, n : 1 .. MaxEvents] \union [type : {"error"}]
    \union [type : {"session_snapshot"}, upto : 0 .. MaxEvents, terminal : BOOLEAN]

ChildTypeOK ==
  /\ emitted \in 0 .. MaxEvents /\ turns \subseteq 1 .. emitted /\ ended \in BOOLEAN
  /\ stream.phase \in {"none", "watching", "subscribed", "open"}
  /\ stream.read \in {NotRead} \union 0 .. emitted
  /\ stream.upto \in 0 .. emitted
  /\ stream.buffering = (stream.chain > 0)
  /\ stream.replayFrom <= LatestSequence(frames)
  /\ IsBuffer(frames, 1 .. MaxStreams + 1, ChildFrame)
  /\ \A v \in Viewers : viewer[v].have \subseteq 1 .. emitted /\ viewer[v].base \in 0 .. emitted
  /\ childFaults \in 0 .. MaxChildFaults

(* Every request and every connection that uses a stream holds a reference   *)
(* to it, whether it found the stream, waited for its initialization or      *)
(* opened it: the stream is never closed under one, and not kept for none.   *)
StreamHeldByViewers ==
  /\ stream.phase = "open" => stream.refs = Cardinality(Holders) /\ Holders # {}
  /\ stream.phase # "open" => Holders = {}

(* Nothing the panel waits for is under way.                                 *)
CaughtUp(v) ==
  /\ viewer[v].at = "open" /\ viewer[v].inbox = <<>>
  /\ ~stream.buffering

(* Whatever was held back by an initialization or a refresh, evicted or      *)
(* resumed: a panel that has read what was written to it lacks nothing but   *)
(* what was in flight when the messages it shows were read, and of that      *)
(* nothing from a turn that has ended, unless the refresh at the end of the  *)
(* turn failed.  It does not go on following a child that has ended, unless  *)
(* the messages could not be read once more (prime-bridge.ts:829).           *)
ChildViewComplete ==
  \A v \in Viewers : CaughtUp(v) =>
    /\ (1 .. emitted) \subseteq viewer[v].have \union InFlight(viewer[v].base)
    /\ ~stream.failed => Committed(emitted) \subseteq viewer[v].have
    /\ ended => finalReadFailed
=============================================================================
