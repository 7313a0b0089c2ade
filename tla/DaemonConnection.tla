--------------------------- MODULE DaemonConnection ---------------------------
(***************************************************************************)
(* One attached session (web/server/src/fleet-daemon-connection.ts), the   *)
(* tracker that notices lost events (daemon-sequence-gap.ts) and the       *)
(* resynchronisation the bridge starts on a gap (prime-bridge.ts).         *)
(*                                                                         *)
(* The client is one thread: frames of a chunk are handled one after the   *)
(* other, then the microtasks they queued run, and only then the next      *)
(* chunk, timer or close event.  A continuation may need several turns of  *)
(* the microtask queue, so the queued jobs run in any order.  The daemon   *)
(* is external.  Nothing after the terminal `closed` event is modelled.    *)
(***************************************************************************)
EXTENDS Naturals, SequencesExt

CONSTANTS
  MaxSequence,     \* bound: session events
  MaxLost,         \* bound: events the daemon loses
  MaxWire,         \* bound: frames on the way
  MaxFaults,       \* bound: socket failures
  MaxSnapshots,    \* bound: snapshots nobody asked for
  Unasked          \* their purposes: "replacement", or "foreign" for one of a
                   \* session that a child watcher follows on the same socket

ASSUME DaemonConnectionAssumption ==
  /\ {MaxSequence, MaxLost, MaxWire, MaxFaults, MaxSnapshots} \subseteq Nat
  /\ Unasked \subseteq {"replacement", "foreign"}

VARIABLES
  seq,            \* daemon: last sequence consumed
  parked,         \* daemon: newest parked message_update, 0 when none
  lost,           \* daemon: events it lost
  outbox,         \* daemon: frames of a snapshot stream not written yet
  streams,        \* daemon: identity of the last snapshot stream
  link,           \* the socket is up
  wire,           \* frames written and not read
  inChunk,        \* the next frame belongs to the chunk being handled
  jobs,           \* queued microtasks
  closed,         \* why the terminal `closed` event was emitted, or "no"
  phase,          \* where #recoveryPromise is
  recoveryFrames, \* #recoveryFrames
  buffer,         \* #snapshotFrames
  held,           \* the array collectSnapshotMessages was given
  shared,         \* `held` is still the array #snapshotFrames
  waitingFor,     \* the snapshot stream it waits for
  cursor,         \* #lastEventCursor
  position,       \* the tracker's position of this session
  upto,           \* last event #snapshot contains
  fresh,          \* #snapshotFresh
  awaiting,       \* answers getInitialSnapshot waits for
  read,           \* last event the messages it has read contain
  inFlight,       \* bridge: resyncInFlight
  pending,        \* bridge: resyncPending
  wanted,         \* position when the running resync asked for its snapshot
  stale,          \* history: a resync's snapshot lacked a loss noticed before it
  base,           \* history: last event in the last snapshot it announced
  mapped,         \* history: events given to the event mapper since
  told,           \* history: daemon sequence when a reset was last emitted
  abandoned,      \* history: losses a failed resync gave up on
  faults, extra   \* socket failures and unasked snapshots so far

daemon   == <<seq, parked, lost, outbox, streams>>
recovery == <<phase, recoveryFrames, held, shared, waitingFor>>
snapshot == <<upto, fresh, awaiting, read>>
bridge   == <<inFlight, pending, wanted, stale>>
history  == <<base, mapped, told, abandoned>>
vars == <<daemon, link, wire, inChunk, jobs, closed, recovery, buffer, cursor, position,
          snapshot, bridge, history, faults, extra>>

Event(n, kind)        == [type |-> "event", n |-> n, kind |-> kind]
Begin(id, purpose)    == [type |-> "begin", id |-> id, purpose |-> purpose]
End(id, purpose, n)   == [type |-> "end", id |-> id, purpose |-> purpose, n |-> n]
Reattached(id, n)     == [type |-> "reattached", id |-> id, n |-> n]
Messages(n)           == [type |-> "messages", n |-> n]
Rest                  == [type |-> "rest"]

SnapshotJob(do, f)    == [do |-> do, n |-> f.n, id |-> f.id]
Job(do)               == [do |-> do]
Members(s)            == {s[i] : i \in DOMAIN s}

(* The members of s that are in T, in their order.                           *)
Selected(s, T) ==
  LET kept[n \in 0 .. Len(s)] ==
        IF n = 0 THEN <<>>
        ELSE IF s[n] \in T THEN Append(kept[n - 1], s[n]) ELSE kept[n - 1]
  IN  kept[Len(s)]

Idle                  == ~inChunk /\ jobs = <<>> /\ closed = "no"

------------------------------------------------------------------------------
(* The daemon                                                                *)

client == <<inChunk, jobs, closed, recovery, buffer, cursor, position, snapshot, bridge,
            history, faults>>

Room == Len(wire) < MaxWire
Written(frames) == IF link THEN wire \o frames ELSE wire
Parked == IF parked = 0 THEN <<>> ELSE <<Event(parked, "update")>>
Replacing == \E f \in Members(outbox) : f.purpose = "replacement"

(* A message_update waits to be merged with later ones.                      *)
ParkUpdate ==
  /\ seq < MaxSequence
  /\ seq' = seq + 1
  /\ parked' = seq'
  /\ UNCHANGED <<lost, outbox, streams, link, wire, extra, client>>

FlushUpdates ==
  /\ parked # 0 /\ ~Replacing
  /\ parked' = 0
  /\ wire' = Written(Parked)
  /\ UNCHANGED <<seq, lost, outbox, streams, link, extra, client>>

(* A turn that closes drops the parked updates.                              *)
DropUpdates ==
  /\ parked # 0
  /\ parked' = 0
  /\ UNCHANGED <<seq, lost, outbox, streams, link, wire, extra, client>>

(* Every other event flushes them and goes out directly.                     *)
EmitEvent ==
  /\ seq < MaxSequence /\ ~Replacing
  /\ seq' = seq + 1
  /\ parked' = 0
  /\ wire' = Written(Parked \o <<Event(seq', "direct")>>)
  /\ UNCHANGED <<lost, outbox, streams, link, extra, client>>

LoseEvent ==
  /\ seq < MaxSequence /\ parked = 0
  /\ Cardinality(lost) < MaxLost
  /\ seq' = seq + 1
  /\ lost' = lost \union {seq'}
  /\ UNCHANGED <<parked, outbox, streams, link, wire, extra, client>>

(* The events after the cursor that the request named.                       *)
Replay ==
  LET since == [i \in 1 .. seq - cursor |-> Event(cursor + i, "direct")]
  IN  Selected(since, {f \in Members(since) : f.n \notin lost})

(* The answer to reattach: with the messages, or with the name of a stream.  *)
(* The daemon may replay events as well.                                     *)
AnswerReattach ==
  /\ link /\ phase = "reattaching" /\ outbox = <<>>
  /\ \A f \in Members(wire) : f.type # "reattached"
  /\ \A job \in Members(jobs) : job.do # "reattached"
  /\ streams' = streams + 1
  /\ \/ /\ \E replay \in {<<>>, Replay} :
             wire' = Append(wire, Reattached(0, seq)) \o replay
        /\ UNCHANGED outbox
     \/ /\ wire' = Append(wire, Reattached(streams', seq))
        /\ outbox' = <<Begin(streams', "attach"), End(streams', "attach", seq)>>
  /\ UNCHANGED <<seq, parked, lost, link, extra, client>>

StreamSnapshot(purpose) ==
  /\ link /\ extra < MaxSnapshots
  /\ extra' = extra + 1
  /\ streams' = streams + 1
  /\ \/ /\ purpose = "replacement" /\ outbox = <<>>
        /\ outbox' = <<Begin(streams', purpose), End(streams', purpose, seq)>>
        /\ UNCHANGED wire
     \/ /\ purpose = "foreign"
        /\ wire' = wire \o <<Begin(streams', purpose), End(streams', purpose, seq)>>
        /\ UNCHANGED outbox
  /\ UNCHANGED <<seq, parked, lost, link, client>>

WriteStream ==
  /\ link /\ outbox # <<>>
  /\ wire' = Append(wire, Head(outbox))
  /\ outbox' = Tail(outbox)
  /\ UNCHANGED <<seq, parked, lost, streams, link, extra, client>>

AnswerRead ==
  /\ link
  /\ \E answer \in {Messages(seq), Rest} :
       /\ answer.type \in awaiting
       /\ \A f \in Members(wire) : f.type # answer.type
       /\ wire' = Append(wire, answer)
  /\ UNCHANGED <<daemon, link, extra, client>>

------------------------------------------------------------------------------
(* Frames                                                                    *)

(* Mutant: a single missing event is no gap.                                 *)
GapOfTwo(c, f) == f.n > c.position + 2 /\ f.kind # "update"

(* The tracker's observe(): a jump that lands on an update is batching.      *)
Gap(c, f) == f.n > c.position + 1 /\ f.kind # "update"
Observed(c, f) == IF f.n > c.position THEN f.n ELSE c.position

(* Mutant: what the snapshot has is applied again.                           *)
SeenNever(c, f) == FALSE

Seen(c, f) == f.n <= c.cursor

(* What the events of this session go through, as a record: the tracker, the *)
(* cursor, the freshness of the snapshot, the mapper and the microtasks.     *)
Channel == [position |-> position, cursor |-> cursor, fresh |-> fresh,
            mapped |-> mapped, jobs |-> jobs]

(* Mutant: the cursor names the next event.                                  *)
CursorIsNext(c, f) ==
  [position |-> Observed(c, f),
   cursor   |-> IF Seen(c, f) THEN c.cursor ELSE f.n + 1,
   fresh    |-> c.fresh /\ Seen(c, f),
   mapped   |-> IF Seen(c, f) THEN c.mapped ELSE Append(c.mapped, f),
   jobs     |-> IF Gap(c, f) THEN Append(c.jobs, Job("gap")) ELSE c.jobs]

(* #onFrame, an event outside a recovery.                                    *)
OnEvent(c, f) ==
  [position |-> Observed(c, f),
   cursor   |-> IF Seen(c, f) THEN c.cursor ELSE f.n,
   fresh    |-> c.fresh /\ Seen(c, f),
   mapped   |-> IF Seen(c, f) THEN c.mapped ELSE Append(c.mapped, f),
   jobs     |-> IF Gap(c, f) THEN Append(c.jobs, Job("gap")) ELSE c.jobs]

Becomes(c) ==
  /\ position' = c.position
  /\ cursor' = c.cursor
  /\ fresh' = c.fresh
  /\ mapped' = c.mapped
  /\ jobs' = c.jobs

ReadEvent(f) ==
  IF phase = "none"
  THEN Becomes(OnEvent(Channel, f)) /\ UNCHANGED recoveryFrames
  ELSE /\ recoveryFrames' = Append(recoveryFrames, f)
       /\ UNCHANGED <<position, jobs, cursor, fresh, mapped>>

(* Mutant: only replacements are released.                                   *)
EvictedLate(id) == buffer

(* #evictSnapshotFrames makes a new array: the one that was handed to        *)
(* collectSnapshotMessages keeps what it had and grows no more.              *)
Evicted(id) == Selected(buffer, {g \in Members(buffer) : g.id # id})

Push(f) ==
  /\ buffer' = Append(buffer, f)
  /\ held' = IF shared THEN Append(held, f) ELSE held
  /\ UNCHANGED shared

(* #onFrame and #applyReplacementSnapshot, a snapshot frame: only a whole    *)
(* replacement is applied, by a microtask.                                   *)
ReadSnapshotFrame(f) ==
  LET begun == \E g \in Members(buffer) : g.type = "begin" /\ g.id = f.id
  IN  /\ \/ /\ f.type = "begin" /\ f.purpose # "foreign"
            /\ Push(f)
            /\ UNCHANGED <<position, jobs>>
         \/ /\ f.type = "begin" /\ f.purpose = "foreign"
            /\ UNCHANGED <<buffer, held, shared, position, jobs>>
         \/ /\ f.type = "end" /\ f.purpose = "foreign"
            /\ buffer' = Evicted(f.id)
            /\ shared' = FALSE
            /\ UNCHANGED <<held, position, jobs>>
         \/ /\ f.type = "end" /\ f.purpose = "attach"
            /\ buffer' = Evicted(f.id)
            /\ held' = IF shared THEN Append(held, f) ELSE held
            /\ shared' = FALSE
            /\ position' = f.n
            /\ jobs' = IF phase = "collecting" /\ waitingFor = f.id
                       THEN Append(jobs, SnapshotJob("collected", f)) ELSE jobs
         \/ /\ f.type = "end" /\ f.purpose = "replacement" /\ ~begun
            /\ buffer' = Evicted(f.id)
            /\ shared' = FALSE
            /\ position' = f.n
            /\ UNCHANGED <<held, jobs>>
         \/ /\ f.type = "end" /\ f.purpose = "replacement" /\ begun
            /\ Push(f)
            /\ position' = f.n
            /\ jobs' = Append(jobs, SnapshotJob("replaced", f))

ReadAnswer(f) ==
  /\ awaiting' = awaiting \ {f.type}
  /\ read' = IF f.type = "messages" THEN f.n ELSE read
  /\ jobs' = IF awaiting = {f.type} THEN Append(jobs, Job("read")) ELSE jobs

(* One frame of a chunk; whether another follows is up to the socket.        *)
ReadFrame ==
  /\ closed = "no" /\ link /\ wire # <<>>
  /\ inChunk \/ jobs = <<>>
  /\ wire' = Tail(wire)
  /\ inChunk' \in IF Tail(wire) = <<>> THEN {FALSE} ELSE BOOLEAN
  /\ LET f == Head(wire)
     IN  \/ /\ f.type = "event"
            /\ ReadEvent(f)
            /\ UNCHANGED <<buffer, held, shared, awaiting, read>>
         \/ /\ f.type \in {"begin", "end"}
            /\ ReadSnapshotFrame(f)
            /\ UNCHANGED <<recoveryFrames, cursor, fresh, mapped, awaiting, read>>
         \/ /\ f.type = "reattached"
            /\ jobs' = Append(jobs, SnapshotJob("reattached", f))
            /\ UNCHANGED <<recoveryFrames, cursor, position, fresh, mapped, buffer, held,
                           shared, awaiting, read>>
         \/ /\ f.type \in {"messages", "rest"}
            /\ ReadAnswer(f)
            /\ UNCHANGED <<recoveryFrames, cursor, position, fresh, mapped, buffer, held,
                           shared>>
  /\ UNCHANGED <<daemon, link, closed, phase, waitingFor, upto, bridge, base, told,
                 abandoned, faults, extra>>

------------------------------------------------------------------------------
(* Microtasks                                                                *)

(* getInitialSnapshot at the start of a round of the bridge's resync: the    *)
(* snapshot at hand when it is fresh, three requests otherwise.              *)
StartRound(rest) ==
  /\ inFlight' = TRUE
  /\ pending' = FALSE
  /\ wanted' = position
  /\ IF fresh
     THEN jobs' = Append(rest, [do |-> "resync", n |-> upto]) /\ UNCHANGED awaiting
     ELSE jobs' = rest /\ awaiting' = {"messages", "rest"}

(* onSequenceGap's listener in the bridge: one resync at a time.             *)
GapNoticed(rest) ==
  /\ IF inFlight
     THEN /\ pending' = TRUE
          /\ jobs' = rest
          /\ UNCHANGED <<inFlight, wanted, awaiting>>
     ELSE StartRound(rest)
  /\ UNCHANGED <<closed, recovery, buffer, cursor, position, upto, fresh, read, stale,
                 history>>

(* getInitialSnapshot with all its answers.                                  *)
SnapshotRead(rest) ==
  /\ upto' = read
  /\ read' = 0
  /\ fresh' = TRUE
  /\ jobs' = Append(rest, [do |-> "resync", n |-> read])
  /\ UNCHANGED <<closed, recovery, buffer, cursor, position, awaiting, bridge, history>>

(* The bridge emits the reset, and goes round again for the gaps since.      *)
Resync(n, rest) ==
  /\ told' = seq
  /\ stale' = (stale \/ \E l \in lost : n < l /\ l <= wanted)
  /\ IF pending
     THEN StartRound(rest)
     ELSE /\ inFlight' = FALSE
          /\ wanted' = 0
          /\ jobs' = rest
          /\ UNCHANGED <<pending, awaiting>>
  /\ UNCHANGED <<closed, recovery, buffer, cursor, position, upto, fresh, read, base,
                 mapped, abandoned>>

(* A request of getInitialSnapshot failed: the resync is given up, and with  *)
(* it a follow-up that was asked for.                                        *)
ReadFailed(rest) ==
  /\ inFlight' = FALSE
  /\ wanted' = 0
  /\ read' = 0
  /\ abandoned' = IF link THEN abandoned \union {n \in lost : n <= position} ELSE abandoned
  /\ jobs' = rest
  /\ UNCHANGED <<closed, recovery, buffer, cursor, position, upto, fresh, awaiting, pending,
                 stale, base, mapped, told>>

(* #onFrame for each of the frames.  The channel after i of them is the only *)
(* member of a set, so that TLC evaluates it once.                           *)
Delivered(c, frames) ==
  LET through[i \in 0 .. Len(frames)] ==
        IF i = 0 THEN {c} ELSE {OnEvent(b, frames[i]) : b \in through[i - 1]}
  IN  CHOOSE d \in through[Len(frames)] : TRUE

(* The channel after a snapshot that has the events up to n.                 *)
Baseline(n, rest) ==
  [position |-> n, cursor |-> n, fresh |-> TRUE, mapped |-> <<>>, jobs |-> rest]

(* The end of a recovery: the snapshot is the new baseline, and the events   *)
(* that were held back follow it.                                            *)
Recovered(n, rest) ==
  /\ upto' = n
  /\ told' = seq
  /\ phase' = "none"
  /\ base' = n
  /\ Becomes(Delivered(Baseline(n, rest), recoveryFrames))
  /\ recoveryFrames' = <<>>
  /\ buffer' = <<>>
  /\ held' = <<>> /\ shared' = FALSE /\ waitingFor' = 0
  /\ UNCHANGED <<closed, awaiting, read, bridge, abandoned>>

(* The recovery after the answer to reattach; id is 0 when the messages came *)
(* with it.                                                                  *)
ReattachAnswered(job, rest) ==
  \/ /\ job.id = 0
     /\ Recovered(job.n, rest)
  \/ /\ job.id # 0
     /\ phase' = "collecting"
     /\ waitingFor' = job.id
     /\ held' = buffer /\ shared' = TRUE
     /\ jobs' = rest
     /\ UNCHANGED <<closed, recoveryFrames, buffer, cursor, position, snapshot, bridge,
                    history>>

Complete(frames, id) ==
  \A type \in {"begin", "end"} : \E f \in Members(frames) : f.type = type /\ f.id = id

(* collectSnapshotMessages, once the end of the stream was seen.             *)
Collected(job, rest) ==
  \/ /\ Complete(held, job.id)
     /\ Recovered(job.n, rest)
  \/ /\ ~Complete(held, job.id)
     /\ closed' = "snapshot"
     /\ jobs' = rest
     /\ UNCHANGED <<recovery, buffer, cursor, position, snapshot, bridge, history>>

Replaced(job, rest) ==
  /\ upto' = job.n
  /\ cursor' = job.n
  /\ fresh' = TRUE
  /\ told' = seq
  /\ base' = job.n
  /\ mapped' = <<>>
  /\ buffer' = Evicted(job.id)
  /\ shared' = FALSE
  /\ jobs' = rest
  /\ UNCHANGED <<closed, phase, recoveryFrames, held, waitingFor, position, awaiting,
                 read, bridge, abandoned>>

RunJob ==
  /\ closed = "no" /\ ~inChunk
  /\ \E i \in DOMAIN jobs :
       LET job == jobs[i]
           rest == RemoveAt(jobs, i)
       IN  \/ job.do = "gap" /\ GapNoticed(rest)
           \/ job.do = "read" /\ SnapshotRead(rest)
           \/ job.do = "readFailed" /\ ReadFailed(rest)
           \/ job.do = "resync" /\ Resync(job.n, rest)
           \/ job.do = "reattached" /\ ReattachAnswered(job, rest)
           \/ job.do = "collected" /\ Collected(job, rest)
           \/ job.do = "replaced" /\ Replaced(job, rest)
  /\ UNCHANGED <<daemon, link, wire, inChunk, faults, extra>>

------------------------------------------------------------------------------
(* The socket and the timers                                                 *)

(* Mutant: a close during a resync does not start a recovery.                *)
CloseIgnoredByResync ==
  phase' = IF phase = "none" /\ ~inFlight THEN "reconnecting" ELSE phase

(* #onClose                                                                  *)
OnClose == phase' = IF phase = "none" THEN "reconnecting" ELSE phase

(* Requests that wait are rejected; a recovery that is under way ignores the *)
(* close, and fails by itself.                                               *)
SocketFails ==
  /\ Idle /\ link /\ faults < MaxFaults
  /\ faults' = faults + 1
  /\ link' = FALSE
  /\ wire' = <<>> /\ outbox' = <<>>
  /\ OnClose
  /\ closed' = IF phase = "reattaching" THEN "socket" ELSE "no"
  /\ awaiting' = {}
  /\ jobs' = IF awaiting # {} THEN <<Job("readFailed")>> ELSE <<>>
  /\ UNCHANGED <<seq, parked, lost, streams, inChunk, recoveryFrames, held, shared,
                 waitingFor, buffer, cursor, position, upto, fresh, read, bridge,
                 history, extra>>

Reconnect ==
  /\ Idle /\ phase = "reconnecting"
  /\ link' = TRUE
  /\ phase' = "reattaching"
  /\ UNCHANGED <<daemon, wire, inChunk, jobs, closed, recoveryFrames, held, shared,
                 waitingFor, buffer, cursor, position, snapshot, bridge, history, faults,
                 extra>>

Terminate(why) ==
  /\ closed' = why
  /\ UNCHANGED <<daemon, link, wire, inChunk, jobs, recovery, buffer, cursor, position,
                 snapshot, bridge, history, faults, extra>>

(* The minute for reconnecting is over.                                      *)
GiveUp == Idle /\ phase = "reconnecting" /\ Terminate("deadline")

(* The daemon refuses, or does not answer in time.                           *)
ReattachFails == Idle /\ phase = "reattaching" /\ Terminate("refused")

Outstanding(id) ==
  \E f \in Members(wire) \union Members(outbox) : f.type = "end" /\ f.id = id

(* The half minute for the stream is over, whether or not the daemon wrote   *)
(* all of it.                                                                *)
CollectTimesOut ==
  /\ Idle /\ phase = "collecting"
  /\ Terminate(IF ~link THEN "socket"
               ELSE IF Outstanding(waitingFor) THEN "timeout" ELSE "snapshot")

(* Mutant: requests without a timer.                                         *)
ReadNeverTimesOut == FALSE

(* An answer that comes after the timer is nobody's any more.                *)
ReadTimesOut ==
  /\ Idle /\ awaiting # {}
  /\ awaiting' = {}
  /\ wire' = Selected(wire, {f \in Members(wire) : f.type \notin {"messages", "rest"}})
  /\ jobs' = <<Job("readFailed")>>
  /\ UNCHANGED <<daemon, link, inChunk, closed, recovery, buffer, cursor, position, upto,
                 fresh, read, bridge, history, faults, extra>>

------------------------------------------------------------------------------
(* Attached, with nothing emitted yet.                                       *)
Init ==
  /\ seq = 0 /\ parked = 0 /\ lost = {} /\ outbox = <<>> /\ streams = 0
  /\ link = TRUE /\ wire = <<>> /\ inChunk = FALSE /\ jobs = <<>>
  /\ closed = "no" /\ phase = "none" /\ recoveryFrames = <<>>
  /\ buffer = <<>> /\ held = <<>> /\ shared = FALSE /\ waitingFor = 0
  /\ cursor = 0 /\ position = 0
  /\ upto = 0 /\ fresh = TRUE /\ awaiting = {} /\ read = 0
  /\ inFlight = FALSE /\ pending = FALSE /\ wanted = 0
  /\ stale = FALSE
  /\ base = 0 /\ mapped = <<>> /\ told = 0 /\ abandoned = {}
  /\ faults = 0 /\ extra = 0

Daemon ==
  /\ closed = "no" /\ Room
  /\ \/ ParkUpdate \/ FlushUpdates \/ DropUpdates \/ EmitEvent \/ LoseEvent
     \/ AnswerReattach \/ WriteStream \/ AnswerRead
     \/ \E purpose \in Unasked : StreamSnapshot(purpose)

Timers == GiveUp \/ ReattachFails \/ CollectTimesOut \/ ReadTimesOut

Next == Daemon \/ ReadFrame \/ RunJob \/ SocketFails \/ Reconnect \/ Timers

(* The event loop runs and the timers fire.  Nothing obliges the daemon.     *)
Fairness ==
  /\ WF_vars(ReadFrame) /\ WF_vars(RunJob)
  /\ WF_vars(GiveUp) /\ WF_vars(ReattachFails)
  /\ WF_vars(CollectTimesOut) /\ WF_vars(ReadTimesOut)

Spec == Init /\ [][Next]_vars /\ Fairness

------------------------------------------------------------------------------
(* Properties                                                                *)

Sequence == 0..MaxSequence

EventFrame == [type : {"event"}, n : Sequence \ {0}, kind : {"direct", "update"}]

TypeOK ==
  /\ seq \in Sequence /\ parked \in 0..seq /\ lost \subseteq 1..seq
  /\ streams \in Nat /\ link \in BOOLEAN /\ inChunk \in BOOLEAN
  /\ closed \in {"no", "socket", "deadline", "refused", "timeout", "snapshot"}
  /\ phase \in {"none", "reconnecting", "reattaching", "collecting"}
  /\ recoveryFrames \in Seq(EventFrame) /\ mapped \in Seq(EventFrame)
  /\ shared \in BOOLEAN /\ waitingFor \in 0..streams
  /\ cursor \in 0..seq /\ position \in 0..seq /\ upto \in 0..seq
  /\ fresh \in BOOLEAN /\ awaiting \subseteq {"messages", "rest"} /\ read \in 0..seq
  /\ inFlight \in BOOLEAN /\ pending \in BOOLEAN /\ wanted \in 0..seq
  /\ stale \in BOOLEAN
  /\ base \in 0..seq /\ told \in 0..seq /\ abandoned \subseteq lost
  /\ faults \in 0..MaxFaults /\ extra \in 0..MaxSnapshots

(* However a recovery, the frames it holds back, replays and replacements    *)
(* move the cursor, no event reaches the event mapper that the snapshot      *)
(* announced last already has, and none twice or out of order.               *)
InOrderOnce ==
  \A i \in DOMAIN mapped :
    mapped[i].n > IF i = 1 THEN base ELSE mapped[i - 1].n

(* An event the daemon lost, after which an event went out directly, is      *)
(* noticed: a reset was emitted since, or a resync, recovery or replacement  *)
(* that will emit one is under way.  Except when a resync's requests fail    *)
(* on a live socket, which gives it up.                                      *)
Exposed(n) ==
  \E i \in DOMAIN mapped :
    /\ mapped[i].n > n /\ mapped[i].kind = "direct"
    /\ \A j \in DOMAIN mapped : mapped[j].n > n => mapped[j].n >= mapped[i].n

NoSilentLoss ==
  closed = "no" =>
    \A n \in lost \ abandoned :
      Exposed(n) => \/ told >= n
                    \/ inFlight \/ phase # "none"
                    \/ \E job \in Members(jobs) : job.do \in {"gap", "replaced"}

(* A session whose socket died is being recovered, or was closed: it never   *)
(* waits on a dead socket for ever.                                          *)
DeadSocketNoticed == closed = "no" /\ ~link => phase # "none"

(* The frames of a snapshot are released when it has been dealt with,        *)
(* whatever its purpose (fleet-daemon-connection.ts:511).                    *)
BuffersReleased ==
  Idle /\ wire = <<>> /\ outbox = <<>> /\ phase = "none" => buffer = <<>>

(* A resync after a gap is made from a fresh snapshot, one that has the      *)
(* events whose loss was noticed before the resync began (prime-bridge.ts    *)
(* :487, "fetch a fresh snapshot and resync").                               *)
ResyncIsFresh == ~stale

(* A session survives a recovery that the daemon answers in full: neither a  *)
(* snapshot of another session on the same socket nor the way the stream     *)
(* falls into chunks ends it (fleet-daemon-connection.ts:465,                *)
(* "those must never enter this session's buffer").                          *)
RecoverySurvives == closed # "snapshot"

(* A loss that was noticed is told in the end: recoveries and resyncs come   *)
(* to an end, with a reset or with the end of the session.                   *)
LossIsTold ==
  []<>(closed # "no" \/ \A n \in lost \ abandoned : Exposed(n) => told >= n)
=============================================================================
