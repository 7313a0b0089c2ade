--------------------------- MODULE SessionRegistry ---------------------------
(***************************************************************************)
(* One session in the bridge's registry                                    *)
(* (web/server/src/prime-bridge.ts): requests that create, resume and      *)
(* delete it, cut at their awaits, and the chain of writes of its          *)
(* presentation sidecar.  A request opens at most one connection, which is *)
(* named after it.                                                         *)
(*                                                                         *)
(* Abstractions: a session has one id and one transcript; a presentation   *)
(* is the number of its write.                                             *)
(***************************************************************************)
EXTENDS Naturals, Sequences

CONSTANTS
  Creates, Resumes, Deletes,   \* requests of each kind
  MaxEvents,                   \* bound: presentation frames of events and artifacts
  None

Requests == Creates \union Resumes \union Deletes

ASSUME SessionRegistryAssumption ==
  /\ Creates \intersect (Resumes \union Deletes) = {} /\ Resumes \intersect Deletes = {}
  /\ MaxEvents \in Nat
  /\ None \notin Requests

VARIABLES
  transcript,   \* the session file: "none" yet, "saved", "deleted"
  sidecar,      \* the write the sidecar file is from, or 0
  registered,   \* the connection in #sessions, or None
  conn,         \* each request's connection
  subscribed,   \* connections whose events the bridge handles
  generation,   \* #presentationGenerations
  writes,       \* the calls of #persistPresentation
  tail,         \* the promise in #presentationWrites, or 0
  pc,           \* where each request is
  target,       \* the session a request has got hold of
  pending,      \* the write a deletion waits for
  removed,      \* deletions that have deleted the transcript
  events,       \* presentation frames so far
  late,         \* history: writes asked for after a deletion had begun
  raced         \* history: a session was opened beside another opening or a deletion

disk     == <<transcript, sidecar>>
sessions == <<registered, conn, subscribed>>
chain    == <<writes, tail>>
requests == <<pc, target, pending, removed>>
vars == <<disk, sessions, generation, chain, requests, events, late, raced>>

Opening  == {"reading", "connecting", "registering"}
Stopped  == {"stopping", "removing", "disposing", "forgetting"}
Begun    == {"draining", "closing", "cataloguing", "cleaning"} \union Stopped
Deleting == {"resumed"} \union Begun
Places   == {"idle", "listing", "done"} \union Opening \union Deleting

GoTo(r, place) == pc' = [pc EXCEPT ![r] = place]

Init ==
  /\ transcript \in {"none", "saved"}
  /\ sidecar = 0
  /\ registered = None /\ conn = [r \in Requests |-> "none"] /\ subscribed = {}
  /\ generation = 0
  /\ writes = <<>> /\ tail = 0
  /\ pc = [r \in Requests |-> "idle"]
  /\ target = [r \in Requests |-> None]
  /\ pending = [r \in Requests |-> 0]
  /\ removed = {} /\ events = 0 /\ late = {} /\ raced = FALSE

-----------------------------------------------------------------------------
(* The presentation's write chain *)

Settled == [state |-> "settled", generation |-> 0, after |-> 0]
IsSettled(i) == IF i = 0 THEN TRUE ELSE writes[i] = Settled

(* #persistPresentation: the write goes behind the last one.                 *)
Persist ==
  /\ writes' = Append(writes, [state |-> "queued", generation |-> generation, after |-> tail])
  /\ tail' = Len(writes')
  /\ late' = IF \E d \in Deletes : pc[d] \in Begun
             THEN late \union {Len(writes')} ELSE late

(* An event's frame, an artifact, or the end of a metadata refresh, which    *)
(* has looked the session up earlier and may outlive it.                     *)
PresentationChanges ==
  /\ writes # <<>> /\ events < MaxEvents
  /\ events' = events + 1
  /\ Persist
  /\ UNCHANGED <<disk, sessions, generation, requests, raced>>

(* Mutant: the settled write stays in #presentationWrites.                   *)
SettleKeepingTail(i) ==
  /\ writes' = [writes EXCEPT ![i] = Settled]
  /\ UNCHANGED tail

Settle(i) ==
  /\ writes' = [writes EXCEPT ![i] = Settled]
  /\ tail' = IF tail = i THEN 0 ELSE tail

Turn(i) == writes[i].state = "queued" /\ IsSettled(writes[i].after)
Wanted(i) == registered # None /\ writes[i].generation = generation

BeginWrite(i) ==
  /\ Turn(i) /\ Wanted(i)
  /\ writes' = [writes EXCEPT ![i].state = "writing"]
  /\ UNCHANGED <<disk, sessions, generation, tail, requests, events, late, raced>>

(* The session is gone, or being deleted.                                    *)
SkipWrite(i) ==
  /\ Turn(i) /\ ~Wanted(i)
  /\ Settle(i)
  /\ UNCHANGED <<disk, sessions, generation, requests, events, late, raced>>

EndWrite(i) ==
  /\ writes[i].state = "writing"
  /\ Settle(i)
  /\ sidecar' \in {i, sidecar}      \* written, or the error is swallowed
  /\ UNCHANGED <<transcript, sessions, generation, requests, events, late, raced>>

-----------------------------------------------------------------------------
(* Creating and resuming *)

Open(r) ==
  /\ GoTo(r, IF r \in Creates THEN "connecting" ELSE "reading")
  /\ raced' = (raced \/ \E q \in Requests \ {r} : pc[q] \in Opening \union Deleting)

(* A session is created once.                                                *)
Create(r) ==
  /\ r \in Creates /\ transcript = "none"
  /\ \A q \in Creates : pc[q] = "idle"
  /\ Open(r)
  /\ UNCHANGED <<disk, sessions, generation, chain, target, pending, removed, events, late>>

(* A deletion's first synchronous stretch, of session s.                     *)
Delete(d, s) ==
  /\ GoTo(d, "draining")
  /\ target' = [target EXCEPT ![d] = s]
  /\ generation' = generation + 1
  /\ pending' = [pending EXCEPT ![d] = tail]
  /\ UNCHANGED removed

(* Resume and delete look the session up in the registry...                  *)
Lookup(r) ==
  /\ r \in Resumes \union Deletes /\ pc[r] = "idle" /\ transcript # "none"
  /\ IF registered # None /\ r \in Deletes THEN Delete(r, registered)
     ELSE /\ GoTo(r, IF registered = None THEN "listing" ELSE "done")
          /\ UNCHANGED <<generation, target, pending, removed>>
  /\ UNCHANGED <<disk, sessions, chain, events, late, raced>>

(* ... and in the daemon's list; resumeSessionByPath begins with a look at   *)
(* the registry.                                                             *)
(* Mutant: without it.                                                       *)
ListedAsCold(r) ==
  /\ pc[r] = "listing" /\ transcript = "saved"
  /\ Open(r)
  /\ UNCHANGED <<disk, sessions, generation, chain, target, pending, removed, events, late>>

ListedLive(r) ==
  /\ pc[r] = "listing" /\ registered # None
  /\ IF r \in Deletes THEN GoTo(r, "resumed") /\ target' = [target EXCEPT ![r] = registered]
     ELSE GoTo(r, "done") /\ UNCHANGED target
  /\ UNCHANGED <<disk, sessions, generation, chain, pending, removed, events, late, raced>>

Listed(r) ==
  /\ pc[r] = "listing" /\ registered = None /\ transcript = "saved"
  /\ Open(r)
  /\ UNCHANGED <<disk, sessions, generation, chain, target, pending, removed, events, late>>

(* The list does not have it, or has no file for it.                         *)
NotListed(r) ==
  /\ pc[r] = "listing"
  /\ GoTo(r, "done")
  /\ UNCHANGED <<disk, sessions, generation, chain, target, pending, removed, events, late, raced>>

Read(r) ==
  /\ pc[r] = "reading" /\ transcript = "saved"
  /\ GoTo(r, "connecting")
  /\ UNCHANGED <<disk, sessions, generation, chain, target, pending, removed, events, late, raced>>

(* The transcript cannot be read or resumed: a deletion goes to the catalog. *)
NotResumable(r) ==
  /\ r \in Resumes \union Deletes /\ pc[r] \in {"listing", "reading", "connecting"}
  /\ pc[r] = "listing" => transcript = "deleted"
  /\ GoTo(r, IF r \in Deletes THEN "cataloguing" ELSE "done")
  /\ UNCHANGED <<disk, sessions, generation, chain, target, pending, removed, events, late, raced>>

(* The daemon or the project registry fails.  A connection that is already   *)
(* open stays open.                                                          *)
OpenFails(r) ==
  /\ pc[r] \in {"listing"} \union Opening
  /\ GoTo(r, "done")
  /\ UNCHANGED <<disk, sessions, generation, chain, target, pending, removed, events, late, raced>>

Connect(r) ==
  /\ pc[r] = "connecting"
  /\ r \in Creates \/ transcript = "saved"
  /\ conn' = [conn EXCEPT ![r] = "open"]
  /\ transcript' = "saved"
  /\ GoTo(r, "registering")
  /\ UNCHANGED <<sidecar, registered, subscribed, generation, chain, target, pending,
                 removed, events, late, raced>>

(* The synchronous end of #registerConnection, after eight awaits.           *)
Register(r) ==
  /\ pc[r] = "registering"
  /\ subscribed' = subscribed \union {r}
  /\ registered' = r
  /\ Persist
  /\ IF r \in Deletes THEN GoTo(r, "resumed") /\ target' = [target EXCEPT ![r] = r]
     ELSE GoTo(r, "done") /\ UNCHANGED target
  /\ UNCHANGED <<disk, conn, generation, pending, removed, events, raced>>

-----------------------------------------------------------------------------
(* Deleting *)

BeginDeletion(d) ==
  /\ pc[d] = "resumed"
  /\ Delete(d, target[d])
  /\ UNCHANGED <<disk, sessions, chain, events, late, raced>>

(* Mutant: the pending write is not waited for.                              *)
DrainedAtOnce(d) ==
  /\ pc[d] = "draining"
  /\ tail' = IF tail = pending[d] THEN 0 ELSE tail
  /\ pending' = [pending EXCEPT ![d] = 0]
  /\ GoTo(d, "closing")
  /\ UNCHANGED <<disk, sessions, generation, writes, target, removed, events, late, raced>>

(* Mutant: a write asked for meanwhile is forgotten.                         *)
DrainedForgetting(d) ==
  /\ pc[d] = "draining" /\ IsSettled(pending[d])
  /\ tail' = 0
  /\ pending' = [pending EXCEPT ![d] = 0]
  /\ GoTo(d, "closing")
  /\ UNCHANGED <<disk, sessions, generation, writes, target, removed, events, late, raced>>

(* Dialogs are cancelled, child streams closed one by one.                   *)
Drained(d) ==
  /\ pc[d] = "draining" /\ IsSettled(pending[d])
  /\ tail' = IF tail = pending[d] THEN 0 ELSE tail
  /\ pending' = [pending EXCEPT ![d] = 0]
  /\ GoTo(d, "closing")
  /\ UNCHANGED <<disk, sessions, generation, writes, target, removed, events, late, raced>>

Unsubscribe(d) ==
  /\ pc[d] = "closing"
  /\ subscribed' = subscribed \ {target[d]}
  /\ GoTo(d, "stopping")
  /\ UNCHANGED <<disk, registered, conn, generation, chain, target, pending, removed,
                 events, late, raced>>

(* abort, whose errors are swallowed, and terminate.                         *)
Terminate(d) ==
  /\ pc[d] = "stopping" /\ conn[target[d]] = "open"
  /\ GoTo(d, "removing")
  /\ UNCHANGED <<disk, sessions, generation, chain, target, pending, removed, events, late, raced>>

RemoveTranscript(d) ==
  /\ pc[d] = "removing"
  /\ transcript' = "deleted"
  /\ GoTo(d, "disposing")
  /\ removed' = removed \union {d}
  /\ UNCHANGED <<sidecar, sessions, generation, chain, target, pending, events, late, raced>>

(* terminate or the removal throws: the finally block still runs.            *)
DeletionFails(d) ==
  /\ pc[d] \in {"stopping", "removing"}
  /\ GoTo(d, "disposing")
  /\ UNCHANGED <<disk, sessions, generation, chain, target, pending, removed, events, late, raced>>

Dispose(d) ==
  /\ pc[d] = "disposing"
  /\ conn' = [conn EXCEPT ![target[d]] = "disposed"]
  /\ GoTo(d, "forgetting")
  /\ UNCHANGED <<disk, registered, subscribed, generation, chain, target, pending,
                 removed, events, late, raced>>

(* Mutant: the registry is cleared after the block, not in its finally.      *)
ForgetIfDeleted(d) ==
  /\ pc[d] = "forgetting"
  /\ IF d \in removed THEN registered' = None /\ generation' = 0
     ELSE UNCHANGED <<registered, generation>>
  /\ target' = [target EXCEPT ![d] = None]
  /\ GoTo(d, IF d \in removed THEN "cleaning" ELSE "done")
  /\ UNCHANGED <<disk, conn, subscribed, chain, pending, removed, events, late, raced>>

(* Mutant: the sidecars are removed in the finally block.                    *)
ForgetAndClean(d) ==
  /\ pc[d] = "forgetting"
  /\ registered' = None
  /\ generation' = 0
  /\ target' = [target EXCEPT ![d] = None]
  /\ GoTo(d, "cleaning")
  /\ UNCHANGED <<disk, conn, subscribed, chain, pending, removed, events, late, raced>>

(* By session id: whatever connection is registered by now.                  *)
Forget(d) ==
  /\ pc[d] = "forgetting"
  /\ registered' = None
  /\ generation' = 0
  /\ target' = [target EXCEPT ![d] = None]
  /\ GoTo(d, IF d \in removed THEN "cleaning" ELSE "done")
  /\ UNCHANGED <<disk, conn, subscribed, chain, pending, removed, events, late, raced>>

(* A transcript that cannot be resumed is deleted through the catalog.       *)
DeleteFromCatalog(d) ==
  /\ pc[d] = "cataloguing"
  /\ transcript' = "deleted"
  /\ GoTo(d, "cleaning")
  /\ removed' = removed \union {d}
  /\ UNCHANGED <<sidecar, sessions, generation, chain, target, pending, events, late, raced>>

CatalogFails(d) ==
  /\ pc[d] = "cataloguing"
  /\ GoTo(d, "done")
  /\ UNCHANGED <<disk, sessions, generation, chain, target, pending, removed, events, late, raced>>

RemoveSidecars(d) ==
  /\ pc[d] = "cleaning"
  /\ sidecar' = 0
  /\ GoTo(d, "done")
  /\ UNCHANGED <<transcript, sessions, generation, chain, target, pending, removed, events,
                 late, raced>>

CleaningFails(d) ==
  /\ pc[d] = "cleaning"
  /\ sidecar' \in {0, sidecar}
  /\ GoTo(d, "done")
  /\ removed' = removed \ {d}
  /\ UNCHANGED <<transcript, sessions, generation, chain, target, pending, events, late, raced>>

-----------------------------------------------------------------------------
Write(i) == BeginWrite(i) \/ SkipWrite(i) \/ EndWrite(i)

Request(r) ==
  \/ Create(r) \/ Lookup(r) \/ ListedLive(r) \/ Listed(r) \/ NotListed(r) \/ Read(r)
  \/ NotResumable(r) \/ OpenFails(r) \/ Connect(r) \/ Register(r)

Deletion(d) ==
  \/ BeginDeletion(d) \/ Drained(d) \/ Unsubscribe(d) \/ Terminate(d) \/ RemoveTranscript(d)
  \/ DeletionFails(d) \/ Dispose(d) \/ Forget(d) \/ DeleteFromCatalog(d) \/ CatalogFails(d)
  \/ RemoveSidecars(d) \/ CleaningFails(d)

Next ==
  \/ PresentationChanges
  \/ \E i \in DOMAIN writes : Write(i)
  \/ \E r \in Requests : Request(r)
  \/ \E d \in Deletes : Deletion(d)

Spec == Init /\ [][Next]_vars

-----------------------------------------------------------------------------
(* Types; the chain's last promise is one that has not settled, so that the  *)
(* map of chains does not grow with the sessions.                            *)
TypeOK ==
  /\ transcript \in {"none", "saved", "deleted"}
  /\ sidecar \in 0 .. Len(writes)
  /\ registered \in Requests \union {None}
  /\ conn \in [Requests -> {"none", "open", "disposed"}]
  /\ subscribed \subseteq Requests
  /\ generation \in Nat
  /\ writes \in Seq([state : {"queued", "writing", "settled"}, generation : Nat, after : Nat])
  /\ tail \in 0 .. Len(writes) /\ (tail # 0 => ~IsSettled(tail))
  /\ pc \in [Requests -> Places]
  /\ target \in [Requests -> Requests \union {None}]
  /\ pending \in [Requests -> 0 .. Len(writes)]
  /\ removed \subseteq Deletes
  /\ events \in 0 .. MaxEvents
  /\ late \subseteq 1 .. Len(writes)
  /\ raced \in BOOLEAN

(* The sidecar never goes back to an older presentation: writes of one       *)
(* session are made one at a time, in the order they were asked for, also    *)
(* while a deletion waits for one (L557-586, L1131-1135).                    *)
WritesInOrder == [][sidecar' # 0 => sidecar' >= sidecar]_vars

(* A deletion waits for the writes asked for before it, so that none of them *)
(* brings the sidecar back.  Excepted: writes asked for since, and sessions  *)
(* opened beside it (both are in the README).                                *)
DeletionLeavesNothing ==
  \A d \in Deletes :
    ~raced /\ pc[d] = "done" /\ d \in removed => sidecar = 0 \/ sidecar \in late

(* When sessions are not opened beside one another, events come from the     *)
(* registered connection only, and a resume of a live session reuses it      *)
(* (L599-603), so that no frame is published twice.                          *)
OnlyRegisteredSpeaks == ~raced => subscribed \subseteq {registered}

(* The registry never keeps a session that has been cut off: whatever step   *)
(* of a deletion fails, its finally block removes the session (L1150-1158).  *)
RegistrationIsLive ==
  registered # None =>
    \/ registered \in subscribed /\ conn[registered] = "open"
    \/ \E d \in Deletes : target[d] = registered /\ pc[d] \in Stopped

(* The sidecar goes only after the transcript has: a deletion that fails     *)
(* leaves the session's details where they were.                             *)
FailedDeletionKeeps == [][sidecar # 0 /\ sidecar' = 0 => transcript' = "deleted"]_vars
=============================================================================
