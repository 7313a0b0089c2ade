--------------------------- MODULE AgentFileProofs ---------------------------
(***************************************************************************)
(* What AgentFile guarantees when at most one server runs at a time on an  *)
(* agent directory: any number of requests, of servers one after another,  *)
(* of crashes, and of writes by the daemon.                                *)
(***************************************************************************)
EXTENDS AgentFile, TLAPS

(* One server runs; a request under way is of that server, one that died is  *)
(* of a dead server.                                                         *)
Servers ==
  /\ \A p, q \in Processes : Running(p) /\ Running(q) => p = q
  /\ \A u \in Updates :
        /\ pc[u] \in Acquiring \union Owning => Running(Home[u])
        /\ pc[u] = "crashed" => process[Home[u]] = "dead"

(* One request at a time is inside a synchronous stretch of acquireLock.     *)
Turns ==
  \A u, v \in Updates : pc[u] \in Synchronous /\ pc[v] \in Synchronous => u = v

(* Nobody will come back for the lock file at the path.                      *)
Stale == ~Running(Home[lock]) \/ pc[lock] = "done"

(* The lock file is the owner's, and is stamped before it owns the file;     *)
(* what was read of a lock is still so while it is judged and reclaimed.     *)
Locks ==
  /\ lock # None => pc[lock] \in Owning \union {"creating", "done", "crashed"}
  /\ \A u \in Updates :
        /\ pc[u] \in Owning \union {"creating"} => lock = u
        /\ pc[u] \in Owning => u \in stamped
        /\ pc[u] = "judging" =>
              lock # None /\ holder[u] = IF lock \in stamped THEN Home[lock] ELSE None
        /\ pc[u] = "reclaiming" => lock # None /\ Stale

(* The updates in s that the daemon has not written over.                    *)
Kept(s) == (s \ overwritten) \ {Daemon}

(* Who is about to rewrite the file knows everything in it that counts.      *)
Contents ==
  /\ NoLostUpdate
  /\ \A u \in Updates :
        /\ pc[u] = "merging" => Kept(content) \subseteq view[u]
        /\ pc[u] = "releasing" => outcome[u] # "none"
  /\ daemonView # None => Kept(daemonView) \subseteq content

IInv == FileTypeOK /\ Servers /\ Turns /\ Locks /\ Contents

LEMMA InitInvariant == FileInit => IInv
<1> SUFFICES ASSUME FileInit PROVE IInv
  OBVIOUS
<1>1. FileTypeOK
  <2>1. view \in [Updates -> SUBSET (Updates \union {Daemon})]
    BY DEF FileInit
  <2> QED BY <2>1, AgentFileAssumption DEF FileInit, FileTypeOK, Places, Outcomes, Acquiring, Owning
<1>2. Servers /\ Turns /\ Locks /\ Contents
  BY AgentFileAssumption DEF FileInit, Servers, Turns, Locks, Contents, NoLostUpdate, Running,
     Acquiring, Owning, Synchronous, Kept
<1> QED BY <1>1, <1>2 DEF IInv

LEMMA StepTyped == IInv /\ [FileNext]_fileVars => FileTypeOK'
<1> SUFFICES ASSUME IInv, [FileNext]_fileVars PROVE FileTypeOK'
  OBVIOUS
<1> USE AgentFileAssumption DEF IInv, FileTypeOK, GoTo, Places, Outcomes, Acquiring, Owning,
        Synchronous, locking, waiting, file
<1>1. ASSUME NEW p \in Processes, Launch(p) \/ Crash(p) \/ Recycle(p) PROVE FileTypeOK'
  BY <1>1 DEF Launch, Crash, Recycle
<1>2. ASSUME NEW u \in Updates, Start(u) \/ CreateLock(u) \/ StampLock(u) PROVE FileTypeOK'
  BY <1>2 DEF Start, CreateLock, StampLock
<1>3. ASSUME NEW u \in Updates, CannotLock(u) \/ CannotStamp(u) PROVE FileTypeOK'
  BY <1>3 DEF CannotLock, CannotStamp
<1>4. ASSUME NEW u \in Updates, LockExists(u) \/ ReadHolder(u) \/ Reclaim(u) PROVE FileTypeOK'
  BY <1>4 DEF LockExists, ReadHolder, Reclaim
<1>5. ASSUME NEW u \in Updates, Judge(u) PROVE FileTypeOK'
  BY <1>5 DEF Judge
<1>6. ASSUME NEW u \in Updates, ReadCurrent(u) \/ Skip(u) \/ Replace(u) PROVE FileTypeOK'
  BY <1>6 DEF ReadCurrent, Skip, Replace
<1>7. ASSUME NEW u \in Updates, Release(u) PROVE FileTypeOK'
  BY <1>7 DEF Release, Contents
<1>8. ASSUME NEW u \in Updates, Expire(u) PROVE FileTypeOK'
  BY <1>8 DEF Expire
<1>9. CASE DaemonReads
  BY <1>9 DEF DaemonReads
<1>10. CASE DaemonWrites
  <2>1. content' \subseteq Updates \union {Daemon}
    BY <1>10 DEF DaemonWrites
  <2> QED BY <1>10, <2>1 DEF DaemonWrites
<1>11. CASE UNCHANGED fileVars
  BY <1>11 DEF fileVars
<1> QED BY <1>1, <1>2, <1>3, <1>4, <1>5, <1>6, <1>7, <1>8, <1>9, <1>10, <1>11
        DEF FileNext, Acquire, Update

LEMMA StepServers == ~Shared /\ IInv /\ [FileNext]_fileVars => Servers'
<1> SUFFICES ASSUME ~Shared, IInv, [FileNext]_fileVars PROVE Servers'
  OBVIOUS
<1> USE AgentFileAssumption DEF IInv, FileTypeOK, Servers, Running, GoTo, Acquiring, Owning,
        Synchronous, Turn
<1>1. ASSUME NEW p \in Processes, Launch(p) \/ Crash(p) \/ Recycle(p) PROVE Servers'
  BY <1>1 DEF Launch, Crash, Recycle
<1>2. ASSUME NEW u \in Updates, Acquire(u) PROVE Servers'
  BY <1>2 DEF Acquire, Start, CannotLock, CreateLock, StampLock, CannotStamp, LockExists,
     ReadHolder, Judge, Reclaim
<1>3. ASSUME NEW u \in Updates, Update(u) \/ Expire(u) PROVE Servers'
  BY <1>3 DEF Update, ReadCurrent, Skip, Replace, Release, Expire
<1>4. CASE DaemonReads \/ DaemonWrites \/ UNCHANGED fileVars
  BY <1>4 DEF DaemonReads, DaemonWrites, fileVars
<1> QED BY <1>1, <1>2, <1>3, <1>4 DEF FileNext

LEMMA StepTurns == ~Shared /\ IInv /\ [FileNext]_fileVars => Turns'
<1> SUFFICES ASSUME ~Shared, IInv, [FileNext]_fileVars PROVE Turns'
  OBVIOUS
<1> USE AgentFileAssumption DEF IInv, FileTypeOK, Servers, Turns, Running, GoTo, Acquiring, Owning,
        Synchronous
<1>1. ASSUME NEW p \in Processes, Launch(p) \/ Crash(p) \/ Recycle(p) PROVE Turns'
  BY <1>1 DEF Launch, Crash, Recycle
<1>2. ASSUME NEW u \in Updates, Acquire(u) PROVE Turns'
  <2>1. Turn(u)
    BY <1>2 DEF Acquire, Start, CannotLock, CreateLock, StampLock, CannotStamp, LockExists,
       ReadHolder, Judge, Reclaim
  <2>2. \A v \in Updates \ {u} : pc[v] \notin Synchronous
    BY <2>1 DEF Turn
  <2>3. \A v \in Updates \ {u} : pc'[v] = pc[v]
    BY <1>2 DEF Acquire, Start, CannotLock, CreateLock, StampLock, CannotStamp, LockExists,
       ReadHolder, Judge, Reclaim
  <2> QED BY <2>2, <2>3
<1>3. ASSUME NEW u \in Updates, Update(u) \/ Expire(u) PROVE Turns'
  BY <1>3 DEF Update, ReadCurrent, Skip, Replace, Release, Expire
<1>4. CASE DaemonReads \/ DaemonWrites \/ UNCHANGED fileVars
  BY <1>4 DEF DaemonReads, DaemonWrites, fileVars
<1> QED BY <1>1, <1>2, <1>3, <1>4 DEF FileNext

LEMMA StepLocks == ~Shared /\ IInv /\ [FileNext]_fileVars => Locks'
<1> SUFFICES ASSUME ~Shared, IInv, [FileNext]_fileVars PROVE Locks'
  OBVIOUS
<1> USE AgentFileAssumption DEF IInv, FileTypeOK, Servers, Turns, Locks, Stale, Running, GoTo,
        Acquiring, Owning, Synchronous, Turn, locking, waiting
<1>1. ASSUME NEW p \in Processes, Launch(p) \/ Recycle(p) PROVE Locks'
  BY <1>1 DEF Launch, Recycle
<1>2. ASSUME NEW p \in Processes, Crash(p) PROVE Locks'
  BY <1>2 DEF Crash
<1>3. ASSUME NEW u \in Updates, Start(u) \/ CannotLock(u) \/ LockExists(u) PROVE Locks'
  BY <1>3 DEF Start, CannotLock, LockExists
<1>4. ASSUME NEW u \in Updates, CreateLock(u) PROVE Locks'
  BY <1>4 DEF CreateLock
<1>5. ASSUME NEW u \in Updates, StampLock(u) PROVE Locks'
  BY <1>5 DEF StampLock
<1>6. ASSUME NEW u \in Updates, CannotStamp(u) PROVE Locks'
  BY <1>6 DEF CannotStamp
<1>7. ASSUME NEW u \in Updates, ReadHolder(u) PROVE Locks'
  BY <1>7 DEF ReadHolder
<1>8. ASSUME NEW u \in Updates, Judge(u) PROVE Locks'
  BY <1>8 DEF Judge, Alive
<1>9. ASSUME NEW u \in Updates, Reclaim(u) PROVE Locks'
  BY <1>9 DEF Reclaim
<1>10. ASSUME NEW u \in Updates, ReadCurrent(u) \/ Skip(u) \/ Replace(u) \/ Expire(u)
       PROVE  Locks'
  BY <1>10 DEF ReadCurrent, Skip, Replace, Expire
<1>11. ASSUME NEW u \in Updates, Release(u) PROVE Locks'
  BY <1>11 DEF Release
<1>12. CASE DaemonReads \/ DaemonWrites \/ UNCHANGED fileVars
  BY <1>12 DEF DaemonReads, DaemonWrites, fileVars
<1> QED BY <1>1, <1>2, <1>3, <1>4, <1>5, <1>6, <1>7, <1>8, <1>9, <1>10, <1>11, <1>12
        DEF FileNext, Acquire, Update

LEMMA StepContents == IInv /\ [FileNext]_fileVars => Contents'
<1> SUFFICES ASSUME IInv, [FileNext]_fileVars PROVE Contents'
  OBVIOUS
<1> USE AgentFileAssumption DEF IInv, FileTypeOK, Locks, Contents, NoLostUpdate, Kept, GoTo,
        Owning, file
<1>1. ASSUME NEW p \in Processes, Launch(p) \/ Crash(p) \/ Recycle(p) PROVE Contents'
  BY <1>1 DEF Launch, Crash, Recycle
<1>2. ASSUME NEW u \in Updates,
             Start(u) \/ CreateLock(u) \/ StampLock(u) \/ LockExists(u) \/ ReadHolder(u)
               \/ Reclaim(u) \/ Expire(u) \/ Release(u)
      PROVE  Contents'
  BY <1>2 DEF Start, CreateLock, StampLock, LockExists, ReadHolder, Reclaim, Expire, Release
<1>3. ASSUME NEW u \in Updates, CannotLock(u) \/ CannotStamp(u) \/ Judge(u) \/ Skip(u)
      PROVE  Contents'
  BY <1>3 DEF CannotLock, CannotStamp, Judge, Skip
<1>4. ASSUME NEW u \in Updates, ReadCurrent(u) PROVE Contents'
  BY <1>4 DEF ReadCurrent
<1>5. ASSUME NEW u \in Updates, Replace(u) PROVE Contents'
  BY <1>5 DEF Replace
<1>6. CASE DaemonReads
  BY <1>6 DEF DaemonReads
<1>7. CASE DaemonWrites
  BY <1>7 DEF DaemonWrites
<1>8. CASE UNCHANGED fileVars
  BY <1>8 DEF fileVars
<1> QED BY <1>1, <1>2, <1>3, <1>4, <1>5, <1>6, <1>7, <1>8 DEF FileNext, Acquire, Update

LEMMA Invariant ==
  ASSUME ~Shared
  PROVE  FileSpec => []IInv
<1>1. IInv /\ [FileNext]_fileVars => IInv'
  BY StepTyped, StepServers, StepTurns, StepLocks, StepContents DEF IInv
<1> QED BY <1>1, InitInvariant, PTL DEF FileSpec

(* The variables keep their types, and no update returns without an outcome. *)
THEOREM TypeCorrect ==
  ASSUME ~Shared
  PROVE  FileSpec => []FileTypeOK
<1>1. IInv => FileTypeOK
  BY DEF IInv
<1> QED BY <1>1, Invariant, PTL

(* One server at a time: the read, the merge and the replacement of an       *)
(* update (agent-file-writer.ts:222-238) never overlap another's.            *)
THEOREM MutualExclusion ==
  ASSUME ~Shared
  PROVE  FileSpec => []OneWriter
<1>1. IInv => OneWriter
  BY DEF IInv, Locks, OneWriter
<1> QED BY <1>1, Invariant, PTL

(* One server at a time: what was reported written stays in the file, unless *)
(* the daemon writes over it, whenever servers crash and whatever lock files *)
(* they leave (agent-file-writer.ts:5-18).                                   *)
THEOREM NothingLost ==
  ASSUME ~Shared
  PROVE  FileSpec => []NoLostUpdate
<1>1. IInv => NoLostUpdate
  BY DEF IInv, Contents
<1> QED BY <1>1, Invariant, PTL

(* One server at a time: a lock is only taken from a dead server or from an  *)
(* update that has returned (agent-file-writer.ts:87-88, 131-135).           *)
THEOREM StaleReclaimed ==
  ASSUME ~Shared
  PROVE  FileSpec => OnlyStaleReclaimed
<1>1. IInv /\ [FileNext]_fileVars =>
        [\A u \in Updates : Reclaim(u) /\ lock # None =>
           ~Running(Home[lock]) \/ pc[lock] = "done"]_fileVars
  BY DEF IInv, Locks, Stale, Reclaim
<1> QED BY <1>1, Invariant, PTL DEF FileSpec, OnlyStaleReclaimed
=============================================================================
