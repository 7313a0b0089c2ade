------------------------------ MODULE AgentFile ------------------------------
(***************************************************************************)
(* Fleet's updates of one of Prime Agent's JSON files                      *)
(* (web/server/src/agent-file-writer.ts): read, merge and replace under a  *)
(* lock file that holds the owner's pid.  A step is one file-system call,  *)
(* so that the calls of several servers, of the requests of one server and *)
(* of the daemon, which takes no lock, interleave; a server may die        *)
(* between any two.                                                        *)
(*                                                                         *)
(* Abstractions: an update adds a member of its own to the file; the       *)
(* uniquely named temporary file and its rename are one step (Replace).    *)
(***************************************************************************)
EXTENDS Naturals

CONSTANTS
  Processes,       \* server processes over the life of the file
  Updates,         \* calls of updateJsonObjectFile
  Home,            \* the process that makes each of them
  Shared,          \* servers may run at the same time on one directory
  Daemon,          \* what the daemon writes
  None

ASSUME AgentFileAssumption ==
  /\ Home \in [Updates -> Processes]
  /\ Shared \in BOOLEAN
  /\ Daemon \notin Updates /\ None \notin Updates /\ None \notin Processes

VARIABLES
  process,      \* state of each server process
  recycled,     \* dead processes whose pid another program has now
  lock,         \* whose lock file is at the lock's path, or None
  stamped,      \* lock files that hold their owner's pid
  pc,           \* where each update is
  holder,       \* the pid an update has read from a lock file
  expired,      \* updates that have waited LOCK_TIMEOUT_MS
  view,         \* the content an update has read
  outcome,      \* what updateJsonObjectFile has come to
  content,      \* the file
  daemonView,   \* the content the daemon is about to rewrite, or None
  overwritten   \* history: updates the daemon has written over

locking == <<lock, stamped>>
waiting == <<holder, expired>>
file    == <<view, outcome, content, daemonView, overwritten>>
fileVars    == <<process, recycled, locking, pc, waiting, file>>

(* acquireLock between two awaits: no other request of the process runs.     *)
Synchronous == {"creating", "exists", "judging", "reclaiming", "retrying"}

Acquiring == Synchronous \union {"trying"}
Owning    == {"reading", "merging", "releasing"}
Places    == Acquiring \union Owning \union {"idle", "done", "crashed"}
Outcomes  == {"none", "written", "skipped", "unwritable", "busy"}

Running(p) == process[p] = "running"

(* The process runs, and no request of its is inside a synchronous stretch.  *)
Turn(u) ==
  /\ Running(Home[u])
  /\ \A v \in Updates \ {u} : Home[v] = Home[u] => pc[v] \notin Synchronous

GoTo(u, place) == pc' = [pc EXCEPT ![u] = place]

FileInit ==
  /\ process = [p \in Processes |-> "new"]
  /\ recycled = {}
  /\ lock = None /\ stamped = {}
  /\ pc = [u \in Updates |-> "idle"]
  /\ holder = [u \in Updates |-> None]
  /\ expired = {}
  /\ view = [u \in Updates |-> {}]
  /\ outcome = [u \in Updates |-> "none"]
  /\ content = {} /\ daemonView = None /\ overwritten = {}

-----------------------------------------------------------------------------
(* Processes *)

Launch(p) ==
  /\ process[p] = "new"
  /\ Shared \/ \A q \in Processes : ~Running(q)
  /\ process' = [process EXCEPT ![p] = "running"]
  /\ UNCHANGED <<recycled, locking, pc, waiting, file>>

(* Its lock file and the temporary file stay behind.                         *)
Crash(p) ==
  /\ Running(p)
  /\ process' = [process EXCEPT ![p] = "dead"]
  /\ pc' = [u \in Updates |->
              IF Home[u] = p /\ pc[u] \notin {"idle", "done"} THEN "crashed" ELSE pc[u]]
  /\ UNCHANGED <<recycled, locking, waiting, file>>

(* Another program gets the pid.                                             *)
Recycle(p) ==
  /\ process[p] = "dead" /\ p \notin recycled
  /\ recycled' = recycled \union {p}
  /\ UNCHANGED <<process, locking, pc, waiting, file>>

-----------------------------------------------------------------------------
(* acquireLock *)

(* The directory is there.                                                   *)
Start(u) ==
  /\ Turn(u)
  /\ pc[u] = "idle"
  /\ GoTo(u, "trying")
  /\ UNCHANGED <<process, recycled, locking, waiting, file>>

(* mkdir, the create (not EEXIST), the read (not ENOENT) or rmSync throws.   *)
CannotLock(u) ==
  /\ Turn(u)
  /\ pc[u] \in {"idle", "trying", "retrying", "exists", "reclaiming"}
  /\ GoTo(u, "done")
  /\ outcome' = [outcome EXCEPT ![u] = "unwritable"]
  /\ UNCHANGED <<process, recycled, locking, waiting, view, content, daemonView, overwritten>>

(* Mutant: the lock file is opened with "w".                                 *)
CreateLockNotExclusive(u) ==
  /\ Turn(u)
  /\ pc[u] \in {"trying", "retrying"}
  /\ lock' = u
  /\ GoTo(u, "creating")
  /\ UNCHANGED <<process, recycled, stamped, waiting, file>>

(* openSync with "wx": the lock file is there, and empty.                    *)
CreateLock(u) ==
  /\ Turn(u)
  /\ pc[u] \in {"trying", "retrying"}
  /\ lock = None
  /\ lock' = u
  /\ GoTo(u, "creating")
  /\ UNCHANGED <<process, recycled, stamped, waiting, file>>

StampLock(u) ==
  /\ Turn(u)
  /\ pc[u] = "creating"
  /\ stamped' = stamped \union {u}
  /\ GoTo(u, "reading")
  /\ expired' = expired \ {u}
  /\ UNCHANGED <<process, recycled, lock, holder, file>>

(* The pid cannot be written: the error is thrown, the empty file stays.     *)
CannotStamp(u) ==
  /\ Turn(u)
  /\ pc[u] = "creating"
  /\ GoTo(u, "done")
  /\ outcome' = [outcome EXCEPT ![u] = "unwritable"]
  /\ UNCHANGED <<process, recycled, locking, waiting, view, content, daemonView, overwritten>>

LockExists(u) ==
  /\ Turn(u)
  /\ pc[u] \in {"trying", "retrying"}
  /\ lock # None
  /\ GoTo(u, "exists")
  /\ UNCHANGED <<process, recycled, locking, waiting, file>>

(* The file is opened and read: gone, empty, or its owner's pid.             *)
ReadHolder(u) ==
  /\ Turn(u)
  /\ pc[u] = "exists"
  /\ GoTo(u, IF lock = None THEN "retrying" ELSE "judging")
  /\ holder' = [holder EXCEPT ![u] = IF lock \in stamped THEN Home[lock] ELSE None]
  /\ UNCHANGED <<process, recycled, locking, expired, file>>

(* process.kill(pid, 0) finds somebody.                                      *)
Alive(pid) == pid # None /\ (Running(pid) \/ pid \in recycled)

(* Mutant: an update that has waited long enough takes the lock away.        *)
JudgeStealing(u) ==
  /\ Turn(u)
  /\ pc[u] = "judging"
  /\ GoTo(u, IF Alive(holder[u]) /\ u \notin expired THEN "trying" ELSE "reclaiming")
  /\ holder' = [holder EXCEPT ![u] = None]
  /\ UNCHANGED <<process, recycled, locking, expired, file>>

(* Mutant: no deadline.                                                      *)
JudgeForEver(u) ==
  /\ Turn(u)
  /\ pc[u] = "judging"
  /\ GoTo(u, IF Alive(holder[u]) THEN "trying" ELSE "reclaiming")
  /\ holder' = [holder EXCEPT ![u] = None]
  /\ UNCHANGED <<process, recycled, locking, expired, file>>

(* Mutant: the timeout returns instead of throwing.                          *)
JudgeSilently(u) ==
  /\ Turn(u)
  /\ pc[u] = "judging"
  /\ GoTo(u, IF ~Alive(holder[u]) THEN "reclaiming"
             ELSE IF u \in expired THEN "done" ELSE "trying")
  /\ holder' = [holder EXCEPT ![u] = None]
  /\ UNCHANGED <<process, recycled, locking, expired, file>>

(* A dead holder's lock is reclaimed; a live holder is waited for, until the *)
(* deadline.                                                                 *)
Judge(u) ==
  /\ Turn(u)
  /\ pc[u] = "judging"
  /\ GoTo(u, IF ~Alive(holder[u]) THEN "reclaiming"
             ELSE IF u \in expired THEN "done" ELSE "trying")
  /\ outcome' = [outcome EXCEPT ![u] = IF Alive(holder[u]) /\ u \in expired THEN "busy" ELSE @]
  /\ holder' = [holder EXCEPT ![u] = None]
  /\ UNCHANGED <<process, recycled, locking, expired, view, content, daemonView, overwritten>>

(* rmSync by path: whatever lock file is there by now.                       *)
Reclaim(u) ==
  /\ Turn(u)
  /\ pc[u] = "reclaiming"
  /\ lock' = None
  /\ GoTo(u, "retrying")
  /\ UNCHANGED <<process, recycled, stamped, waiting, file>>

Expire(u) ==
  /\ Running(Home[u])
  /\ pc[u] \in Acquiring /\ u \notin expired
  /\ expired' = expired \union {u}
  /\ UNCHANGED <<process, recycled, locking, pc, holder, file>>

-----------------------------------------------------------------------------
(* updateJsonObjectFile under the lock *)

(* Mutant: the lock is released when the read is done (an await forgotten).  *)
ReadCurrentUnlocking(u) ==
  /\ Running(Home[u])
  /\ pc[u] = "reading"
  /\ view' = [view EXCEPT ![u] = content]
  /\ GoTo(u, "merging")
  /\ lock' = None
  /\ UNCHANGED <<process, recycled, stamped, waiting, outcome, content, daemonView, overwritten>>

ReadCurrent(u) ==
  /\ Running(Home[u])
  /\ pc[u] = "reading"
  /\ view' = [view EXCEPT ![u] = content]
  /\ GoTo(u, "merging")
  /\ UNCHANGED <<process, recycled, locking, waiting, outcome, content, daemonView, overwritten>>

(* The file is unreadable, the mutation refuses or leaves it unchanged, or   *)
(* the temporary file cannot be written or renamed.                          *)
Skip(u) ==
  /\ Turn(u)
  /\ pc[u] = "merging"
  /\ \E result \in {"skipped", "unwritable"} :
       outcome' = [outcome EXCEPT ![u] = result]
  /\ GoTo(u, "releasing")
  /\ view' = [view EXCEPT ![u] = {}]
  /\ UNCHANGED <<process, recycled, locking, waiting, content, daemonView, overwritten>>

(* writeJsonObjectFile.                                                      *)
Replace(u) ==
  /\ Running(Home[u])
  /\ pc[u] = "merging"
  /\ content' = view[u] \union {u}
  /\ outcome' = [outcome EXCEPT ![u] = "written"]
  /\ GoTo(u, "releasing")
  /\ view' = [view EXCEPT ![u] = {}]
  /\ UNCHANGED <<process, recycled, locking, waiting, daemonView, overwritten>>

(* rmSync by path.                                                           *)
Release(u) ==
  /\ Turn(u)
  /\ pc[u] = "releasing"
  /\ lock' = None
  /\ GoTo(u, "done")
  /\ UNCHANGED <<process, recycled, stamped, waiting, file>>

-----------------------------------------------------------------------------
(* The daemon, which does not observe the lock (L13-17) *)

(* Bound: it writes again only if its entry was lost.                        *)
DaemonReads ==
  /\ daemonView = None /\ Daemon \notin content
  /\ daemonView' = content
  /\ UNCHANGED <<process, recycled, locking, pc, waiting, view, outcome, content, overwritten>>

DaemonWrites ==
  /\ daemonView # None
  /\ content' = daemonView \union {Daemon}
  /\ daemonView' = None
  /\ overwritten' = overwritten \union (content \ content')
  /\ UNCHANGED <<process, recycled, locking, pc, waiting, view, outcome>>

-----------------------------------------------------------------------------
Acquire(u) ==
  \/ Start(u) \/ CannotLock(u) \/ CreateLock(u) \/ StampLock(u) \/ CannotStamp(u)
  \/ LockExists(u) \/ ReadHolder(u) \/ Judge(u) \/ Reclaim(u)

Update(u) == ReadCurrent(u) \/ Skip(u) \/ Replace(u) \/ Release(u)

FileNext ==
  \/ \E p \in Processes : Launch(p) \/ Crash(p) \/ Recycle(p)
  \/ \E u \in Updates : Acquire(u) \/ Update(u) \/ Expire(u)
  \/ DaemonReads \/ DaemonWrites

FileSpec == FileInit /\ [][FileNext]_fileVars

(* A process that does not die goes on, and timers fire.  Nothing obliges    *)
(* the daemon, and nobody has to ask for an update.                          *)
FileFairness ==
  \A u \in Updates :
    /\ WF_fileVars(pc[u] # "idle" /\ (Acquire(u) \/ Update(u)))
    /\ WF_fileVars(Expire(u))

FileFairSpec == FileSpec /\ FileFairness

-----------------------------------------------------------------------------
(* Types, and an update that has returned has said how it went.              *)
FileTypeOK ==
  /\ process \in [Processes -> {"new", "running", "dead"}]
  /\ recycled \subseteq Processes
  /\ lock \in Updates \union {None} /\ stamped \subseteq Updates
  /\ pc \in [Updates -> Places]
  /\ holder \in [Updates -> Processes \union {None}]
  /\ expired \subseteq Updates
  /\ view \in [Updates -> SUBSET (Updates \union {Daemon})]
  /\ outcome \in [Updates -> Outcomes]
  /\ content \subseteq Updates \union {Daemon}
  /\ daemonView # None => daemonView \subseteq Updates \union {Daemon}
  /\ overwritten \subseteq Updates \union {Daemon}
  /\ \A u \in Updates : pc[u] = "done" => outcome[u] # "none"

(* The requests of one server, and a server and its successor, cannot        *)
(* interleave a read-merge-write (agent-file-writer.ts:10-12).               *)
OneWriter ==
  \A u, v \in Updates : pc[u] \in Owning /\ pc[v] \in Owning => u = v

(* An update that was reported written is in the file for good, unless the   *)
(* daemon, which ignores the lock, wrote over it (L10-17).                   *)
NoLostUpdate ==
  \A u \in Updates : outcome[u] = "written" => u \in content \union overwritten

(* A lock is taken away only from a process that is dead: "the recorded pid  *)
(* is what makes that decision safe" (L87-88).  An update that has failed    *)
(* has given its lock up.                                                    *)
OnlyStaleReclaimed ==
  [][\A u \in Updates : Reclaim(u) /\ lock # None =>
        ~Running(Home[lock]) \/ pc[lock] = "done"]_fileVars

(* Whatever dies, hangs on to the lock or takes over a pid, a request to     *)
(* update the file is answered, unless its own server dies (L93-143).        *)
EveryUpdateSettles ==
  \A u \in Updates : pc[u] # "idle" ~> pc[u] \in {"done", "crashed"}
=============================================================================
