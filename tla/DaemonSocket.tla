----------------------------- MODULE DaemonSocket -----------------------------
(***************************************************************************)
(* The JSONL client of the daemon's socket                                 *)
(* (web/server/src/daemon-socket-client.ts): requests matched to responses *)
(* by id, request timers, a socket that fails at any point and is          *)
(* reopened, and the acknowledgements that let the daemon drop the record  *)
(* of a mutating command.  The daemon is external: it runs a command when  *)
(* it takes it from the socket, answers later, keeps a record of every     *)
(* mutating one, and may answer again from the record.                     *)
(***************************************************************************)
EXTENDS Naturals, Sequences

CONSTANTS
  Commands,        \* requests made over the client's life
  Mutating,        \* those that are not READ_ONLY_DAEMON_COMMANDS
  OutcomeLimit,    \* unknown outcomes remembered (256 in the code)
  MaxFaults        \* bound: failures of the socket, of a connect or a write

ASSUME DaemonSocketAssumption ==
  /\ Mutating \subseteq Commands
  /\ OutcomeLimit \in Nat \ {0}
  /\ MaxFaults \in Nat

VARIABLES
  link,         \* #socket, #connectPromise and #connected
  closedError,  \* #closedError is set
  permanent,    \* #permanentlyClosed
  hello,        \* #hello is set
  garbled,      \* #buffer holds the beginning of a dead socket's line
  waiter,       \* the caller of waitForHello
  verdict,      \* what each request's promise has settled to
  pending,      \* #pending, in insertion order
  unknown,      \* #unacknowledgedOutcomes, oldest first
  toDaemon,     \* lines written and not yet taken by the daemon
  toFleet,      \* frames the daemon wrote and the client has not read
  executed,     \* daemon: commands it has run
  owed,         \* daemon: commands it has not answered yet
  records,      \* daemon: mutating commands whose result it keeps
  forgotten,    \* history: outcomes pushed out of `unknown`
  ackLost,      \* history: commands whose acknowledgement was lost
  faults        \* failures so far

client == <<link, closedError, permanent, hello, garbled, waiter>>
daemon == <<executed, owed, records>>
socketVars == <<client, verdict, pending, unknown, toDaemon, toFleet, daemon,
          forgotten, ackLost, faults>>

Request == [type : {"command", "ack"}, of : Commands]
Frame   == [type : {"response"}, of : Commands] \union [type : {"hello"}]

Members(s) == {s[i] : i \in DOMAIN s}

(* The members of s that are in T, in their order.                           *)
Selected(s, T) ==
  LET kept[n \in 0 .. Len(s)] ==
        IF n = 0 THEN <<>>
        ELSE IF s[n] \in T THEN Append(kept[n - 1], s[n]) ELSE kept[n - 1]
  IN  kept[Len(s)]

Without(s, c) == Selected(s, Members(s) \ {c})
Acks == {m.of : m \in {n \in Members(toDaemon) : n.type = "ack"}}

(* Mutant: every unknown outcome is remembered for ever.                     *)
Unbounded(s) == s

(* #rememberUnknownOutcome keeps the newest outcomes.                        *)
Bounded(s) ==
  IF Len(s) > OutcomeLimit THEN SubSeq(s, Len(s) - OutcomeLimit + 1, Len(s)) ELSE s

Remember(cs) ==
  LET kept == Bounded(unknown \o cs)
  IN  /\ unknown' = kept
      /\ forgotten' = forgotten \union (Members(unknown \o cs) \ Members(kept))

Rejected(c) == IF c \in Mutating THEN "unknown" ELSE "failed"

(* Mutant: the pending requests are dropped but their callers not told.      *)
FailSilently ==
  /\ closedError' = TRUE
  /\ waiter' = IF waiter = "waiting" THEN "failed" ELSE waiter
  /\ Remember(Selected(pending, Mutating))
  /\ pending' = <<>>
  /\ UNCHANGED verdict

(* #fail: the first failure settles every caller; a later one changes nothing. *)
Fail ==
  IF closedError
  THEN UNCHANGED <<closedError, waiter, verdict, pending, unknown, forgotten>>
  ELSE /\ closedError' = TRUE
       /\ waiter' = IF waiter = "waiting" THEN "failed" ELSE waiter
       /\ verdict' = [c \in Commands |-> IF c \in Members(pending) THEN Rejected(c)
                                         ELSE verdict[c]]
       /\ Remember(Selected(pending, Mutating))
       /\ pending' = <<>>

(* What was on the socket is gone, and with it the acknowledgements; a line  *)
(* may have been cut in the middle.  What the daemon still reads of a dead   *)
(* socket it reads before this step: nothing the client does depends on it.  *)
LoseSocket ==
  /\ link' = "none"
  /\ toDaemon' = <<>>
  /\ toFleet' = <<>>
  /\ ackLost' = ackLost \union Acks
  /\ garbled' \in {garbled, garbled \/ toFleet # <<>>}

------------------------------------------------------------------------------
(* The client                                                                *)

Connect ==
  /\ ~permanent /\ link = "none" /\ ~closedError
  /\ link' = "connecting"
  /\ UNCHANGED <<closedError, permanent, hello, garbled, waiter, verdict, pending,
                 unknown, toDaemon, toFleet, daemon, forgotten, ackLost, faults>>

(* Mutant: the decode buffer of the dead socket is kept.                     *)
ReconnectKeepsBuffer ==
  /\ ~permanent /\ link = "none"
  /\ link' = "connecting"
  /\ hello' = FALSE
  /\ closedError' = FALSE
  /\ UNCHANGED <<garbled, permanent, waiter, verdict, pending, unknown, toDaemon,
                 toFleet, daemon, forgotten, ackLost, faults>>

(* reconnect(): with no socket and no attempt, forget the old one and open.  *)
Reconnect ==
  /\ ~permanent /\ link = "none"
  /\ link' = "connecting"
  /\ garbled' = FALSE
  /\ hello' = FALSE
  /\ closedError' = FALSE
  /\ UNCHANGED <<permanent, waiter, verdict, pending, unknown, toDaemon, toFleet,
                 daemon, forgotten, ackLost, faults>>

(* The socket opens and the daemon greets on it.                             *)
Opened ==
  /\ link = "connecting"
  /\ link' = "open"
  /\ toFleet' = <<[type |-> "hello"]>>
  /\ UNCHANGED <<closedError, permanent, hello, garbled, waiter, verdict, pending,
                 unknown, toDaemon, daemon, forgotten, ackLost, faults>>

(* The connect timer, an error event or a close event.                       *)
SocketFails ==
  /\ link \in {"connecting", "open"}
  /\ faults < MaxFaults
  /\ faults' = faults + 1
  /\ Fail
  /\ LoseSocket
  /\ UNCHANGED <<permanent, hello, daemon>>

(* close(): for good.                                                        *)
Close ==
  /\ ~permanent
  /\ permanent' = TRUE
  /\ Fail
  /\ LoseSocket
  /\ UNCHANGED <<hello, daemon, faults>>

WaitForHello ==
  /\ waiter # "waiting"
  /\ waiter' = IF hello THEN "greeted" ELSE IF closedError THEN "failed" ELSE "waiting"
  /\ UNCHANGED <<link, closedError, permanent, hello, garbled, verdict, pending,
                 unknown, toDaemon, toFleet, daemon, forgotten, ackLost, faults>>

HelloTimesOut ==
  /\ waiter = "waiting"
  /\ waiter' = "failed"
  /\ UNCHANGED <<link, closedError, permanent, hello, garbled, verdict, pending,
                 unknown, toDaemon, toFleet, daemon, forgotten, ackLost, faults>>

(* request(): refused without a socket, otherwise registered and written; a  *)
(* socket that is still connecting takes the line too.                       *)
SendRequest(c) ==
  /\ verdict[c] = "none"
  /\ \/ /\ link = "none" \/ closedError
        /\ verdict' = [verdict EXCEPT ![c] = "failed"]
        /\ UNCHANGED <<pending, toDaemon>>
     \/ /\ link # "none" /\ ~closedError
        /\ verdict' = [verdict EXCEPT ![c] = "waiting"]
        /\ pending' = Append(pending, c)
        /\ toDaemon' = Append(toDaemon, [type |-> "command", of |-> c])
  /\ UNCHANGED <<client, unknown, toFleet, daemon, forgotten, ackLost, faults>>

(* The write throws: nothing was sent, and the caller is told "unknown".     *)
WriteFails(c) ==
  /\ verdict[c] = "none" /\ link # "none" /\ ~closedError
  /\ faults < MaxFaults
  /\ faults' = faults + 1
  /\ verdict' = [verdict EXCEPT ![c] = "unknown"]
  /\ IF c \in Mutating THEN Remember(<<c>>) ELSE UNCHANGED <<unknown, forgotten>>
  /\ UNCHANGED <<client, pending, toDaemon, toFleet, daemon, ackLost>>

(* Mutant: a request that timed out is reported as a plain failure.          *)
TimesOutAsFailure(c) ==
  /\ c \in Members(pending)
  /\ pending' = Without(pending, c)
  /\ verdict' = [verdict EXCEPT ![c] = "failed"]
  /\ UNCHANGED <<client, unknown, toDaemon, toFleet, daemon, forgotten, ackLost, faults>>

(* Mutant: the client acknowledges when it gives up waiting.                 *)
TimesOutAcknowledging(c) ==
  /\ c \in Members(pending)
  /\ pending' = Without(pending, c)
  /\ verdict' = [verdict EXCEPT ![c] = Rejected(c)]
  /\ IF c \in Mutating THEN Remember(<<c>>) ELSE UNCHANGED <<unknown, forgotten>>
  /\ toDaemon' = Append(toDaemon, [type |-> "ack", of |-> c])
  /\ UNCHANGED <<client, toFleet, daemon, ackLost, faults>>

RequestTimesOut(c) ==
  /\ c \in Members(pending)
  /\ pending' = Without(pending, c)
  /\ verdict' = [verdict EXCEPT ![c] = Rejected(c)]
  /\ IF c \in Mutating THEN Remember(<<c>>) ELSE UNCHANGED <<unknown, forgotten>>
  /\ UNCHANGED <<client, toDaemon, toFleet, daemon, ackLost, faults>>

(* Mutant: a response nobody waits for any more is never acknowledged.       *)
ReadLateIgnored(c) ==
  /\ unknown' = Without(unknown, c)
  /\ UNCHANGED toDaemon

(* #onLine, a response: to the waiting caller, or late for a caller that was *)
(* told "unknown", or to the listeners.  The first two are acknowledged.     *)
ReadLate(c) ==
  /\ unknown' = Without(unknown, c)
  /\ toDaemon' = Append(toDaemon, [type |-> "ack", of |-> c])

ReadResponse(c) ==
  \/ /\ c \in Members(pending)
     /\ pending' = Without(pending, c)
     /\ verdict' = [verdict EXCEPT ![c] = "answered"]
     /\ toDaemon' = IF c \in Mutating THEN Append(toDaemon, [type |-> "ack", of |-> c])
                    ELSE toDaemon
     /\ UNCHANGED unknown
  \/ /\ c \notin Members(pending) /\ c \in Members(unknown)
     /\ ReadLate(c)
     /\ UNCHANGED <<pending, verdict>>
  \/ /\ c \notin Members(pending) /\ c \notin Members(unknown)
     /\ UNCHANGED <<pending, verdict, unknown, toDaemon>>

(* #onData: a line that follows a dead socket's beginning cannot be parsed   *)
(* and is dropped.                                                           *)
ReadFrame ==
  /\ link = "open" /\ toFleet # <<>>
  /\ toFleet' = Tail(toFleet)
  /\ garbled' = FALSE
  /\ LET frame == Head(toFleet)
     IN  \/ /\ garbled
            /\ UNCHANGED <<hello, waiter, pending, verdict, unknown, toDaemon>>
         \/ /\ ~garbled /\ frame.type = "hello"
            /\ hello' = TRUE
            /\ waiter' = IF waiter = "waiting" THEN "greeted" ELSE waiter
            /\ UNCHANGED <<pending, verdict, unknown, toDaemon>>
         \/ /\ ~garbled /\ frame.type = "response"
            /\ ReadResponse(frame.of)
            /\ UNCHANGED <<hello, waiter>>
  /\ UNCHANGED <<link, closedError, permanent, daemon, forgotten, ackLost, faults>>

------------------------------------------------------------------------------
(* The daemon                                                                *)

DaemonTakes ==
  /\ link = "open" /\ toDaemon # <<>>
  /\ toDaemon' = Tail(toDaemon)
  /\ LET m == Head(toDaemon)
     IN  \/ /\ m.type = "command"
            /\ executed' = executed \union {m.of}
            /\ owed' = owed \union {m.of}
            /\ records' = IF m.of \in Mutating THEN records \union {m.of} ELSE records
         \/ /\ m.type = "ack"
            /\ records' = records \ {m.of}
            /\ UNCHANGED <<executed, owed>>
  /\ UNCHANGED <<client, verdict, pending, unknown, toFleet, forgotten, ackLost, faults>>

(* An answer to a socket that is gone is lost.                               *)
DaemonAnswers(c) ==
  /\ c \in owed
  /\ owed' = owed \ {c}
  /\ toFleet' = IF link = "open" THEN Append(toFleet, [type |-> "response", of |-> c])
                ELSE toFleet
  /\ UNCHANGED <<client, verdict, pending, unknown, toDaemon, executed, records,
                 forgotten, ackLost, faults>>

DaemonReplays(c) ==
  /\ link = "open"
  /\ c \in records \ owed
  /\ [type |-> "response", of |-> c] \notin Members(toFleet)
  /\ toFleet' = Append(toFleet, [type |-> "response", of |-> c])
  /\ UNCHANGED <<client, verdict, pending, unknown, toDaemon, daemon, forgotten,
                 ackLost, faults>>

------------------------------------------------------------------------------
SocketInit ==
  /\ link = "none" /\ closedError = FALSE /\ permanent = FALSE
  /\ hello = FALSE /\ garbled = FALSE /\ waiter = "idle"
  /\ verdict = [c \in Commands |-> "none"]
  /\ pending = <<>> /\ unknown = <<>>
  /\ toDaemon = <<>> /\ toFleet = <<>>
  /\ executed = {} /\ owed = {} /\ records = {}
  /\ forgotten = {} /\ ackLost = {} /\ faults = 0

Connection == Connect \/ Reconnect \/ Opened \/ SocketFails \/ Close

Requests ==
  \E c \in Commands : SendRequest(c) \/ WriteFails(c) \/ RequestTimesOut(c)

SocketNext ==
  \/ Connection
  \/ Requests
  \/ WaitForHello \/ HelloTimesOut
  \/ ReadFrame
  \/ DaemonTakes
  \/ \E c \in Commands : DaemonAnswers(c) \/ DaemonReplays(c)

(* Timers fire.  Nothing obliges the daemon, the socket or the callers.      *)
SocketFairness == \A c \in Commands : WF_socketVars(RequestTimesOut(c))

SocketSpec == SocketInit /\ [][SocketNext]_socketVars /\ SocketFairness

------------------------------------------------------------------------------
(* Properties                                                                *)

Outcome == INSTANCE CommandOutcome WITH executed <- executed, verdict <- verdict

SocketTypeOK ==
  /\ link \in {"none", "connecting", "open"}
  /\ closedError \in BOOLEAN /\ permanent \in BOOLEAN
  /\ hello \in BOOLEAN /\ garbled \in BOOLEAN
  /\ waiter \in {"idle", "waiting", "greeted", "failed"}
  /\ verdict \in [Commands -> Outcome!Verdicts]
  /\ pending \in Seq(Commands)
  /\ unknown \in Seq(Mutating) /\ Len(unknown) <= OutcomeLimit
  /\ toDaemon \in Seq(Request)
  /\ toFleet \in Seq(Frame)
  /\ executed \subseteq Commands /\ owed \subseteq executed
  /\ records \subseteq Mutating
  /\ forgotten \subseteq Mutating /\ ackLost \subseteq Mutating
  /\ faults \in Nat

(* Over failures, timers, reconnects and late answers, the client reports    *)
(* commands as CommandOutcome allows: an answer is of a command that ran, a  *)
(* plain failure of a mutating command is final ("The command was written,   *)
(* but Fleet did not receive its definitive response", daemon-socket-client).*)
OutcomeSpec == Outcome!Spec

(* The daemon drops the record of a mutating command only after the client   *)
(* has its result: a record that is gone was answered to the caller, or      *)
(* arrived late for a caller that was told the outcome is unknown.           *)
RecordsOutliveDoubt ==
  \A c \in executed \intersect Mutating :
    c \notin records => verdict[c] \in {"answered", "unknown"} /\ c \notin Members(unknown)

(* The daemon keeps no record for ever: a record belongs to a request whose  *)
(* answer is still awaited or remembered, or its acknowledgement is on the   *)
(* way, unless that was lost with a socket or the outcome was pushed out of  *)
(* the bounded map.                                                          *)
RecordsAccounted ==
  \A c \in records : \/ c \in Members(pending) \union Members(unknown)
                     \/ c \in Acks
                     \/ c \in ackLost \union forgotten

(* A daemon that greeted is known to have greeted: no leftover of an earlier *)
(* socket swallows the hello of the next one.                                *)
GreetingUnderstood ==
  link = "open" /\ [type |-> "hello"] \notin Members(toFleet) => hello

(* Every caller hears something in the end.                                  *)
EveryRequestSettles ==
  \A c \in Commands : (verdict[c] = "waiting") ~> (verdict[c] # "waiting")
=============================================================================
