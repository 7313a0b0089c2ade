------------------------ MODULE SessionRegistryProofs ------------------------
(***************************************************************************)
(* What SessionRegistry guarantees for any number of requests, however     *)
(* they interleave and whatever fails.                                     *)
(***************************************************************************)
EXTENDS SessionRegistry, SequenceTheorems, TLAPS

WriteCall == [state : {"queued", "writing", "settled"}, generation : Nat, after : Nat]

(* The transcript is created once and deleted for good.                      *)
Files ==
  /\ \A q, r \in Creates : pc[q] # "idle" /\ pc[r] # "idle" => q = r
  /\ \A r \in Creates :
        /\ pc[r] \in {"idle", "connecting", "registering", "done"}
        /\ pc[r] = "connecting" => transcript = "none"
        /\ pc[r] = "registering" => transcript # "none"
  /\ transcript = "none" => \A r \in Resumes \union Deletes : pc[r] = "idle"
  /\ registered # None => transcript # "none"
  /\ \A d \in removed :
        transcript = "deleted" /\ pc[d] \in Stopped \union {"cleaning", "done"}
  /\ \A d \in Deletes : pc[d] = "cleaning" => d \in removed

(* A connection is registered after it has opened, and cut off by deletions  *)
(* that have got hold of it since.                                           *)
Lives ==
  /\ RegistrationIsLive
  /\ \A r \in Requests :
        /\ pc[r] = "registering" => conn[r] = "open"
        /\ registered = r \/ (\E d \in Deletes : target[d] = r)
              => pc[r] \notin Opening \union {"idle", "listing"}

(* Who opens the session is alone; who deletes it has the registered one.    *)
Alone ==
  ~raced =>
    /\ subscribed \subseteq {registered}
    /\ \A r \in Requests : pc[r] \in Opening =>
          /\ registered = None /\ transcript # "deleted"
          /\ \A q \in Requests \ {r} : pc[q] \notin Opening \union Deleting
    /\ \A d \in Deletes :
          /\ pc[d] \in {"resumed", "draining", "closing"} \union Stopped
                => registered \in {target[d], None}
          /\ pc[d] \in Stopped => target[d] \notin subscribed

(* The writes that have not settled are the last ones, linked one to the     *)
(* next, and the last of them is the chain's tail.                           *)
Chained ==
  /\ \A i \in DOMAIN writes :
        writes[i].after < i /\ (i > tail => writes[i] = Settled)
  /\ \A i, j \in DOMAIN writes : i < j =>
        /\ writes[j].state # "queued" => writes[i] = Settled
        /\ i > writes[j].after => writes[i] = Settled
  /\ sidecar # 0 => writes[sidecar] = Settled

(* A session that is on its way out is registered only while a deletion that *)
(* has unsubscribed it lasts.                                                *)
Leaving ==
  ~raced /\ registered # None
    /\ (transcript = "deleted" \/ \E d \in Deletes : pc[d] = "cataloguing")
      => \E e \in Deletes : pc[e] \in Stopped /\ target[e] = registered

(* A write that a deletion has not waited for was asked for after it began.  *)
Waiting ==
  \A d \in Deletes, i \in DOMAIN writes : writes[i] # Settled =>
    /\ pc[d] = "draining" => i <= pending[d] \/ i \in late
    /\ pc[d] \in {"closing"} \union Stopped => i \in late

(* So was one that is still made after the session has gone.                 *)
Orphaned ==
  \A i \in DOMAIN writes : registered = None /\ writes[i].state = "writing" => i \in late

IInv ==
  /\ TypeOK /\ Files /\ Lives /\ Alone
  /\ Chained /\ Leaving /\ Waiting /\ Orphaned /\ DeletionLeavesNothing

-----------------------------------------------------------------------------
(* What the operations of the chain do to the sequence of writes.            *)

LEMMA Calls ==
  ASSUME TypeOK
  PROVE  /\ writes \in Seq(WriteCall) /\ Len(writes) \in Nat
         /\ DOMAIN writes = 1 .. Len(writes)
         /\ \A i \in DOMAIN writes : writes[i] \in WriteCall /\ writes[i].after \in Nat
<1>1. writes \in Seq(WriteCall)
  BY DEF TypeOK, WriteCall
<1>2. Len(writes) \in Nat /\ DOMAIN writes = 1 .. Len(writes)
  BY <1>1
<1>3. \A i \in DOMAIN writes : writes[i] \in WriteCall
  BY <1>1, <1>2, ElementOfSeq
<1>4. \A call \in WriteCall : call.after \in Nat
  BY DEF WriteCall
<1> QED BY <1>1, <1>2, <1>3, <1>4

LEMMA Queueing ==
  ASSUME TypeOK, Persist
  PROVE  /\ writes' \in Seq(WriteCall)
         /\ Len(writes') = Len(writes) + 1 /\ tail' = Len(writes')
         /\ \A i \in DOMAIN writes : writes'[i] = writes[i]
         /\ writes'[tail'] = [state |-> "queued", generation |-> generation, after |-> tail]
         /\ late' \subseteq late \union {tail'} /\ late \subseteq late'
         /\ (\E d \in Deletes : pc[d] \in Begun) => tail' \in late'
<1> DEFINE call == [state |-> "queued", generation |-> generation, after |-> tail]
<1>1. writes \in Seq(WriteCall) /\ call \in WriteCall
  BY DEF TypeOK, WriteCall
<1>2. writes' = Append(writes, call)
  BY DEF Persist
<1> HIDE DEF call
<1>3. /\ writes' \in Seq(WriteCall) /\ Len(writes') = Len(writes) + 1
      /\ \A i \in 1 .. Len(writes) : writes'[i] = writes[i]
      /\ writes'[Len(writes) + 1] = call
  BY <1>1, <1>2, AppendProperties
<1> QED BY <1>1, <1>3 DEF Persist, call

LEMMA Replacing ==
  ASSUME TypeOK, NEW i \in DOMAIN writes, NEW call \in WriteCall,
         writes' = [writes EXCEPT ![i] = call]
  PROVE  /\ writes' \in Seq(WriteCall) /\ Len(writes') = Len(writes)
         /\ \A j \in DOMAIN writes : writes'[j] = IF j = i THEN call ELSE writes[j]
<1>1. writes \in Seq(WriteCall)
  BY DEF TypeOK, WriteCall
<1>2. /\ writes' \in Seq(WriteCall) /\ Len(writes') = Len(writes)
      /\ \A j \in 1 .. Len(writes) : writes'[j] = IF j = i THEN call ELSE writes[j]
  BY <1>1, ExceptSeq
<1> QED BY <1>1, <1>2

LEMMA Settling ==
  ASSUME TypeOK, NEW i \in DOMAIN writes, Settle(i)
  PROVE  /\ writes' \in Seq(WriteCall) /\ Len(writes') = Len(writes)
         /\ \A j \in DOMAIN writes : writes'[j] = IF j = i THEN Settled ELSE writes[j]
         /\ tail' = IF tail = i THEN 0 ELSE tail
<1>1. Settled \in WriteCall /\ writes' = [writes EXCEPT ![i] = Settled]
  BY DEF Settle, Settled, WriteCall
<1> QED BY <1>1, Replacing DEF Settle

LEMMA Beginning ==
  ASSUME TypeOK, NEW i \in DOMAIN writes, BeginWrite(i)
  PROVE  /\ writes' \in Seq(WriteCall) /\ Len(writes') = Len(writes)
         /\ \A j \in DOMAIN writes \ {i} : writes'[j] = writes[j]
         /\ writes'[i].state = "writing" /\ writes'[i].after = writes[i].after
<1> DEFINE call == [writes[i] EXCEPT !.state = "writing"]
<1>1. writes[i] \in WriteCall
  BY Calls
<1>2. call \in WriteCall /\ call.state = "writing" /\ call.after = writes[i].after
  BY <1>1 DEF WriteCall
<1>3. writes' = [writes EXCEPT ![i] = call]
  BY DEF BeginWrite
<1> HIDE DEF call
<1> QED BY <1>2, <1>3, Replacing

(* A write whose turn it is, or that is made, is the first unsettled one.    *)
LEMMA FirstUnsettled ==
  ASSUME TypeOK, Chained, NEW i \in DOMAIN writes, Turn(i) \/ writes[i].state = "writing"
  PROVE  /\ writes[i] # Settled
         /\ \A j \in DOMAIN writes : j < i => writes[j] = Settled
<1>1. /\ Len(writes) \in Nat /\ DOMAIN writes = 1 .. Len(writes)
      /\ writes[i].after \in Nat /\ writes[i].after < i
  BY Calls DEF Chained
<1>2. CASE Turn(i)
  <2>1. \A j \in DOMAIN writes : j < i /\ j > writes[i].after => writes[j] = Settled
    BY DEF Chained
  <2>2. CASE writes[i].after = 0
    BY <1>1, <1>2, <2>1, <2>2 DEF Turn, Settled
  <2>3. CASE writes[i].after # 0
    <3> DEFINE a == writes[i].after
    <3>1. a \in DOMAIN writes /\ writes[a] = Settled
      BY <1>1, <1>2, <2>3 DEF Turn, IsSettled
    <3>2. \A j \in DOMAIN writes : j < a => writes[j] = Settled
      BY <3>1 DEF Chained, Settled
    <3> QED BY <1>1, <1>2, <2>1, <3>1, <3>2 DEF Turn, Settled
  <2> QED BY <2>2, <2>3
<1>3. CASE writes[i].state = "writing"
  BY <1>3 DEF Chained, Settled
<1> QED BY <1>2, <1>3

(* The chain's part of TypeOK, and the rest.                                 *)
ChainTyped ==
  /\ writes \in Seq(WriteCall)
  /\ tail \in 0 .. Len(writes) /\ (tail # 0 => writes[tail] # Settled)

RestTyped ==
  /\ transcript \in {"none", "saved", "deleted"}
  /\ sidecar \in 0 .. Len(writes)
  /\ registered \in Requests \union {None}
  /\ conn \in [Requests -> {"none", "open", "disposed"}]
  /\ subscribed \subseteq Requests
  /\ generation \in Nat
  /\ pc \in [Requests -> Places]
  /\ target \in [Requests -> Requests \union {None}]
  /\ pending \in [Requests -> 0 .. Len(writes)]
  /\ removed \subseteq Deletes
  /\ events \in 0 .. MaxEvents
  /\ late \subseteq 1 .. Len(writes)

LEMMA Typing == TypeOK <=> ChainTyped /\ RestTyped /\ raced \in BOOLEAN
  BY DEF TypeOK, ChainTyped, RestTyped, WriteCall, IsSettled

-----------------------------------------------------------------------------
LEMMA InitInvariant == Init => IInv
<1> SUFFICES ASSUME Init PROVE IInv
  OBVIOUS
<1>1. writes = <<>> /\ Len(writes) = 0 /\ DOMAIN writes = {}
  BY DEF Init
<1>2. ChainTyped
  BY <1>1 DEF Init, ChainTyped
<1>3. RestTyped
  BY <1>1, SessionRegistryAssumption DEF Init, RestTyped, Places
<1>r. raced \in BOOLEAN
  BY DEF Init
<1>4. Files /\ Lives /\ Alone
  BY SessionRegistryAssumption DEF Init, Files, Lives, Alone, RegistrationIsLive, Stopped, Opening,
     Deleting, Begun, Requests
<1>5. Chained /\ Leaving /\ Waiting /\ Orphaned /\ DeletionLeavesNothing
  BY <1>1 DEF Init, Chained, Leaving, Waiting, Orphaned, DeletionLeavesNothing
<1> QED BY <1>r, <1>2, <1>3, <1>4, <1>5, Typing DEF IInv

LEMMA StepChainTyped == IInv /\ [Next]_vars => ChainTyped'
<1> SUFFICES ASSUME IInv, [Next]_vars PROVE ChainTyped'
  OBVIOUS
<1>t. TypeOK /\ ChainTyped /\ Len(writes) \in Nat /\ DOMAIN writes = 1 .. Len(writes)
  BY Calls, Typing DEF IInv
<1>0. CASE UNCHANGED chain
  BY <1>t, <1>0 DEF chain, ChainTyped
<1>1. CASE Persist
  <2>1. writes'[tail'].state = "queued" /\ Settled.state = "settled"
    BY <1>t, <1>1, Queueing DEF Settled
  <2> QED BY <1>t, <1>1, <2>1, Queueing DEF ChainTyped
<1>2. ASSUME NEW i \in DOMAIN writes, Settle(i) PROVE ChainTyped'
  BY <1>t, <1>2, Settling DEF ChainTyped
<1>3. ASSUME NEW i \in DOMAIN writes, BeginWrite(i) PROVE ChainTyped'
  <2>1. writes'[i].state = "writing" /\ Settled.state = "settled" /\ tail' = tail
    BY <1>t, <1>3, Beginning DEF Settled, BeginWrite
  <2> QED BY <1>t, <1>3, <2>1, Beginning DEF ChainTyped
<1>4. ASSUME NEW d \in Deletes, Drained(d) PROVE ChainTyped'
  BY <1>t, <1>4 DEF Drained, ChainTyped
<1> QED BY <1>0, <1>1, <1>2, <1>3, <1>4
        DEF Next, PresentationChanges, Write, SkipWrite, EndWrite, Request, Create, Lookup, ListedLive,
            Listed, NotListed, Read, NotResumable, OpenFails, Connect, Register, Deletion,
            BeginDeletion, Unsubscribe, Terminate, RemoveTranscript, DeletionFails, Dispose,
            Forget, DeleteFromCatalog, CatalogFails, RemoveSidecars, CleaningFails, vars, chain

LEMMA StepRestTyped == IInv /\ [Next]_vars => RestTyped'
<1> SUFFICES ASSUME IInv, [Next]_vars PROVE RestTyped'
  OBVIOUS
<1> USE SessionRegistryAssumption DEF GoTo, disk, sessions, chain, requests
<1>t. TypeOK /\ RestTyped /\ Len(writes) \in Nat /\ DOMAIN writes = 1 .. Len(writes)
  BY Calls, Typing DEF IInv
<1>p. ASSUME Persist
      PROVE  /\ Len(writes') = Len(writes) + 1
             /\ late' \subseteq 1 .. Len(writes')
  <2>2. tail' = Len(writes') /\ Len(writes') = Len(writes) + 1 /\ late' \subseteq late \union {tail'}
    BY <1>t, <1>p, Queueing
  <2> QED BY <1>t, <2>2 DEF RestTyped
<1>1. CASE PresentationChanges
  BY <1>t, <1>p, <1>1 DEF PresentationChanges, RestTyped
<1>2. ASSUME NEW i \in DOMAIN writes, Write(i) PROVE RestTyped'
  <2>1. Len(writes') = Len(writes)
    BY <1>t, <1>2, Beginning, Settling DEF Write, SkipWrite, EndWrite
  <2> QED BY <1>t, <1>2, <2>1 DEF Write, BeginWrite, SkipWrite, EndWrite, RestTyped
<1>q. tail \in 0 .. Len(writes)
  BY <1>t, Typing DEF ChainTyped
<1> USE <1>t, <1>q DEF RestTyped, Places, Deleting, Begun, Stopped, Opening
<1>3. ASSUME NEW r \in Requests, Request(r) PROVE RestTyped'
  <2>1. CASE Create(r)
    BY <2>1 DEF Create, Open
  <2>2. CASE Listed(r)
    BY <2>2 DEF Listed, Open
  <2>3. CASE Lookup(r)
    <3>u. UNCHANGED <<disk, sessions, chain, events, late, raced>>
      BY <2>3 DEF Lookup
    <3>1. CASE Delete(r, registered)
      BY <3>u, <3>1 DEF Delete
    <3>2. CASE UNCHANGED <<generation, target, pending, removed>>
      <4>1. \E place \in {"listing", "done"} : GoTo(r, place)
        BY <2>3, <3>2 DEF Lookup, Delete
      <4> QED BY <3>u, <3>2, <4>1
    <3> QED BY <2>3, <3>1, <3>2 DEF Lookup
  <2>4. CASE ListedLive(r)
    BY <2>4 DEF ListedLive
  <2>5. CASE NotListed(r) \/ Read(r) \/ OpenFails(r)
    BY <2>5 DEF NotListed, Read, OpenFails
  <2>6. CASE NotResumable(r)
    BY <2>6 DEF NotResumable
  <2>7. CASE Connect(r)
    BY <2>7 DEF Connect
  <2>8. CASE Register(r)
    <3>1. Persist
      BY <2>8 DEF Register
    <3>2. pc' \in [Requests -> Places] /\ target' \in [Requests -> Requests \union {None}]
      <4>1. CASE r \in Deletes
        BY <2>8, <4>1 DEF Register
      <4>2. CASE r \notin Deletes
        BY <2>8, <4>2 DEF Register
      <4> QED BY <4>1, <4>2
    <3>3. pending' \in [Requests -> 0 .. Len(writes')]
      BY <1>p, <2>8, <3>1 DEF Register
    <3> QED BY <1>p, <2>8, <3>1, <3>2, <3>3 DEF Register
  <2> QED BY <1>3, <2>1, <2>2, <2>3, <2>4, <2>5, <2>6, <2>7, <2>8 DEF Request
<1>5. ASSUME NEW d \in Deletes, Deletion(d) PROVE RestTyped'
  <2> d \in Requests
    BY DEF Requests
  <2>1. CASE BeginDeletion(d)
    BY <2>1 DEF BeginDeletion, Delete
  <2>2. CASE Drained(d)
    BY <2>2 DEF Drained
  <2>3. CASE Unsubscribe(d)
    BY <2>3 DEF Unsubscribe
  <2>4. CASE Terminate(d) \/ DeletionFails(d) \/ CatalogFails(d)
    BY <2>4 DEF Terminate, DeletionFails, CatalogFails
  <2>5. CASE RemoveTranscript(d)
    BY <2>5 DEF RemoveTranscript
  <2>6. CASE Dispose(d)
    BY <2>6 DEF Dispose
  <2>7. CASE Forget(d)
    BY <2>7 DEF Forget
  <2>8. CASE DeleteFromCatalog(d)
    BY <2>8 DEF DeleteFromCatalog
  <2>9. CASE RemoveSidecars(d)
    BY <2>9 DEF RemoveSidecars
  <2>10. CASE CleaningFails(d)
    BY <2>10 DEF CleaningFails
  <2> QED BY <1>5, <2>1, <2>2, <2>3, <2>4, <2>5, <2>6, <2>7, <2>8, <2>9, <2>10 DEF Deletion
<1>6. CASE UNCHANGED vars
  BY <1>t, <1>6 DEF vars, RestTyped
<1> QED BY <1>1, <1>2, <1>3, <1>5, <1>6 DEF Next

LEMMA StepTyped == IInv /\ [Next]_vars => TypeOK'
<1> SUFFICES ASSUME IInv, [Next]_vars PROVE TypeOK'
  OBVIOUS
<1>1. raced \in BOOLEAN
  BY DEF IInv, TypeOK
<1>2. raced' \in BOOLEAN
  BY <1>1 DEF Next, PresentationChanges, Write, BeginWrite, SkipWrite, EndWrite, Request, Create,
     Open, Lookup, ListedLive, Listed, NotListed, Read, NotResumable, OpenFails, Connect, Register,
     Deletion, BeginDeletion, Drained, Unsubscribe, Terminate, RemoveTranscript, DeletionFails,
     Dispose, Forget, DeleteFromCatalog, CatalogFails, RemoveSidecars, CleaningFails, vars
<1>3. TypeOK' <=> ChainTyped' /\ RestTyped' /\ (raced \in BOOLEAN)'
  BY Typing, PTL
<1> QED BY <1>2, <1>3, StepChainTyped, StepRestTyped

(* Lemmas and steps below use the types of the state without the writes.     *)
LEMMA StepFiles == IInv /\ [Next]_vars => Files'
<1> SUFFICES ASSUME IInv, [Next]_vars PROVE Files'
  OBVIOUS
<1>t. RestTyped /\ Files
  BY Typing DEF IInv
<1> USE <1>t, SessionRegistryAssumption
    DEF RestTyped, Files, GoTo, Requests, Opening, Stopped, disk, sessions, chain, requests
<1>1. CASE PresentationChanges
  BY <1>1 DEF PresentationChanges
<1>2. ASSUME NEW i \in DOMAIN writes, Write(i) PROVE Files'
  BY <1>2 DEF Write, BeginWrite, SkipWrite, EndWrite
<1>3. ASSUME NEW r \in Requests, Request(r) PROVE Files'
  <2>1. CASE Create(r)
    BY <2>1 DEF Create, Open
  <2>2. CASE Lookup(r)
    BY <2>2 DEF Lookup, Delete
  <2>3. CASE ListedLive(r)
    BY <2>3 DEF ListedLive
  <2>4. CASE Listed(r)
    BY <2>4 DEF Listed, Open
  <2>5. CASE NotListed(r) \/ Read(r) \/ OpenFails(r)
    BY <2>5 DEF NotListed, Read, OpenFails
  <2>6. CASE NotResumable(r)
    BY <2>6 DEF NotResumable
  <2>7. CASE Connect(r)
    BY <2>7 DEF Connect
  <2>8. CASE Register(r)
    BY <2>8 DEF Register
  <2> QED BY <1>3, <2>1, <2>2, <2>3, <2>4, <2>5, <2>6, <2>7, <2>8 DEF Request
<1>4. ASSUME NEW d \in Deletes, Deletion(d) PROVE Files'
  <2>1. CASE BeginDeletion(d)
    BY <2>1 DEF BeginDeletion, Delete
  <2>2. CASE Drained(d) \/ Unsubscribe(d)
    BY <2>2 DEF Drained, Unsubscribe
  <2>3. CASE Terminate(d) \/ DeletionFails(d)
    BY <2>3 DEF Terminate, DeletionFails
  <2>4. CASE RemoveTranscript(d) \/ Dispose(d) \/ Forget(d)
    BY <2>4 DEF RemoveTranscript, Dispose, Forget
  <2>5. CASE DeleteFromCatalog(d) \/ CatalogFails(d) \/ RemoveSidecars(d) \/ CleaningFails(d)
    BY <2>5 DEF DeleteFromCatalog, CatalogFails, RemoveSidecars, CleaningFails
  <2> QED BY <1>4, <2>1, <2>2, <2>3, <2>4, <2>5 DEF Deletion
<1>5. CASE UNCHANGED vars
  BY <1>5 DEF vars
<1> QED BY <1>1, <1>2, <1>3, <1>4, <1>5 DEF Next

LEMMA StepLives == IInv /\ [Next]_vars => Lives'
<1> SUFFICES ASSUME IInv, [Next]_vars PROVE Lives'
  OBVIOUS
<1>t. RestTyped /\ Lives
  BY Typing DEF IInv
<1> USE <1>t, SessionRegistryAssumption
    DEF RestTyped, Lives, RegistrationIsLive,
        GoTo, Requests, Opening, Stopped, disk, sessions, chain, requests
<1>1. CASE PresentationChanges
  BY <1>1 DEF PresentationChanges
<1>2. ASSUME NEW i \in DOMAIN writes, Write(i) PROVE Lives'
  BY <1>2 DEF Write, BeginWrite, SkipWrite, EndWrite
<1>3. ASSUME NEW r \in Requests, Request(r) PROVE Lives'
  <2>1. CASE Create(r)
    BY <2>1 DEF Create, Open
  <2>2. CASE Lookup(r)
    BY <2>2 DEF Lookup, Delete
  <2>3. CASE ListedLive(r)
    BY <2>3 DEF ListedLive
  <2>4. CASE Listed(r)
    BY <2>4 DEF Listed, Open
  <2>5. CASE NotListed(r) \/ Read(r) \/ OpenFails(r)
    BY <2>5 DEF NotListed, Read, OpenFails
  <2>6. CASE NotResumable(r)
    BY <2>6 DEF NotResumable
  <2>7. CASE Connect(r)
    BY <2>7 DEF Connect
  <2>8. CASE Register(r)
    BY <2>8 DEF Register
  <2> QED BY <1>3, <2>1, <2>2, <2>3, <2>4, <2>5, <2>6, <2>7, <2>8 DEF Request
<1>4. ASSUME NEW d \in Deletes, Deletion(d) PROVE Lives'
  <2>1. CASE BeginDeletion(d)
    BY <2>1 DEF BeginDeletion, Delete
  <2>2. CASE Drained(d)
    BY <2>2 DEF Drained
  <2>3. CASE Unsubscribe(d)
    BY <2>3 DEF Unsubscribe
  <2>4. CASE Terminate(d) \/ DeletionFails(d)
    BY <2>4 DEF Terminate, DeletionFails
  <2>5. CASE RemoveTranscript(d)
    BY <2>5 DEF RemoveTranscript
  <2>6. CASE Dispose(d)
    BY <2>6 DEF Dispose
  <2>7. CASE Forget(d)
    BY <2>7 DEF Forget
  <2>8. CASE DeleteFromCatalog(d)
    BY <2>8 DEF DeleteFromCatalog
  <2>9. CASE CatalogFails(d) \/ RemoveSidecars(d) \/ CleaningFails(d)
    BY <2>9 DEF CatalogFails, RemoveSidecars, CleaningFails
  <2> QED BY <1>4, <2>1, <2>2, <2>3, <2>4, <2>5, <2>6, <2>7, <2>8, <2>9 DEF Deletion
<1>5. CASE UNCHANGED vars
  BY <1>5 DEF vars
<1> QED BY <1>1, <1>2, <1>3, <1>4, <1>5 DEF Next

LEMMA StepAlone == IInv /\ [Next]_vars => Alone'
<1> SUFFICES ASSUME IInv, [Next]_vars PROVE Alone'
  OBVIOUS
<1>t. RestTyped /\ Files /\ Alone
  BY Typing DEF IInv
<1> USE <1>t, SessionRegistryAssumption
    DEF RestTyped, Files, Alone, Deleting, Begun,
        GoTo, Requests, Opening, Stopped, disk, sessions, chain, requests
<1>1. CASE PresentationChanges
  BY <1>1 DEF PresentationChanges
<1>2. ASSUME NEW i \in DOMAIN writes, Write(i) PROVE Alone'
  BY <1>2 DEF Write, BeginWrite, SkipWrite, EndWrite
<1>3. ASSUME NEW r \in Requests, Request(r) PROVE Alone'
  <2>1. CASE Create(r)
    BY <2>1 DEF Create, Open
  <2>2. CASE Lookup(r)
    BY <2>2 DEF Lookup, Delete
  <2>3. CASE ListedLive(r)
    BY <2>3 DEF ListedLive
  <2>4. CASE Listed(r)
    BY <2>4 DEF Listed, Open
  <2>5. CASE NotListed(r) \/ Read(r) \/ OpenFails(r)
    BY <2>5 DEF NotListed, Read, OpenFails
  <2>6. CASE NotResumable(r)
    BY <2>6 DEF NotResumable
  <2>7. CASE Connect(r)
    BY <2>7 DEF Connect
  <2>8. CASE Register(r)
    BY <2>8 DEF Register
  <2> QED BY <1>3, <2>1, <2>2, <2>3, <2>4, <2>5, <2>6, <2>7, <2>8 DEF Request
<1>4. ASSUME NEW d \in Deletes, Deletion(d) PROVE Alone'
  <2>1. CASE BeginDeletion(d)
    BY <2>1 DEF BeginDeletion, Delete
  <2>2. CASE Drained(d)
    BY <2>2 DEF Drained
  <2>3. CASE Unsubscribe(d)
    BY <2>3 DEF Unsubscribe
  <2>4. CASE Terminate(d) \/ DeletionFails(d)
    BY <2>4 DEF Terminate, DeletionFails
  <2>5. CASE RemoveTranscript(d)
    BY <2>5 DEF RemoveTranscript
  <2>6. CASE Dispose(d)
    BY <2>6 DEF Dispose
  <2>7. CASE Forget(d)
    BY <2>7 DEF Forget
  <2>8. CASE DeleteFromCatalog(d)
    BY <2>8 DEF DeleteFromCatalog
  <2>9. CASE CatalogFails(d) \/ RemoveSidecars(d) \/ CleaningFails(d)
    BY <2>9 DEF CatalogFails, RemoveSidecars, CleaningFails
  <2> QED BY <1>4, <2>1, <2>2, <2>3, <2>4, <2>5, <2>6, <2>7, <2>8, <2>9 DEF Deletion
<1>5. CASE UNCHANGED vars
  BY <1>5 DEF vars
<1> QED BY <1>1, <1>2, <1>3, <1>4, <1>5 DEF Next

LEMMA StepLeaving == IInv /\ [Next]_vars => Leaving'
<1> SUFFICES ASSUME IInv, [Next]_vars PROVE Leaving'
  OBVIOUS
<1>t. RestTyped /\ Files /\ Alone /\ Leaving
  BY Typing DEF IInv
<1> USE <1>t, SessionRegistryAssumption
    DEF RestTyped, Files, Alone, Leaving, Deleting, Begun,
        GoTo, Requests, Opening, Stopped, disk, sessions, chain, requests
<1>1. CASE PresentationChanges
  BY <1>1 DEF PresentationChanges
<1>2. ASSUME NEW i \in DOMAIN writes, Write(i) PROVE Leaving'
  BY <1>2 DEF Write, BeginWrite, SkipWrite, EndWrite
<1>3. ASSUME NEW r \in Requests, Request(r) PROVE Leaving'
  <2>1. CASE Create(r)
    BY <2>1 DEF Create, Open
  <2>2. CASE Lookup(r)
    BY <2>2 DEF Lookup, Delete
  <2>3. CASE ListedLive(r)
    BY <2>3 DEF ListedLive
  <2>4. CASE Listed(r)
    BY <2>4 DEF Listed, Open
  <2>5. CASE NotListed(r) \/ Read(r) \/ OpenFails(r)
    BY <2>5 DEF NotListed, Read, OpenFails
  <2>6. CASE NotResumable(r)
    BY <2>6 DEF NotResumable
  <2>7. CASE Connect(r)
    BY <2>7 DEF Connect
  <2>8. CASE Register(r)
    BY <2>8 DEF Register
  <2> QED BY <1>3, <2>1, <2>2, <2>3, <2>4, <2>5, <2>6, <2>7, <2>8 DEF Request
<1>4. ASSUME NEW d \in Deletes, Deletion(d) PROVE Leaving'
  <2>1. CASE BeginDeletion(d)
    BY <2>1 DEF BeginDeletion, Delete
  <2>2. CASE Drained(d)
    BY <2>2 DEF Drained
  <2>3. CASE Unsubscribe(d)
    BY <2>3 DEF Unsubscribe
  <2>4. CASE Terminate(d) \/ DeletionFails(d)
    BY <2>4 DEF Terminate, DeletionFails
  <2>5. CASE RemoveTranscript(d)
    BY <2>5 DEF RemoveTranscript
  <2>6. CASE Dispose(d)
    BY <2>6 DEF Dispose
  <2>7. CASE Forget(d)
    BY <2>7 DEF Forget
  <2>8. CASE DeleteFromCatalog(d)
    BY <2>8 DEF DeleteFromCatalog
  <2>9. CASE CatalogFails(d) \/ RemoveSidecars(d) \/ CleaningFails(d)
    BY <2>9 DEF CatalogFails, RemoveSidecars, CleaningFails
  <2> QED BY <1>4, <2>1, <2>2, <2>3, <2>4, <2>5, <2>6, <2>7, <2>8, <2>9 DEF Deletion
<1>5. CASE UNCHANGED vars
  BY <1>5 DEF vars
<1> QED BY <1>1, <1>2, <1>3, <1>4, <1>5 DEF Next

LEMMA StepChained == IInv /\ [Next]_vars => Chained'
<1> SUFFICES ASSUME IInv, [Next]_vars PROVE Chained'
  OBVIOUS
<1>t. /\ TypeOK /\ Chained /\ tail \in Nat /\ Len(writes) \in Nat
      /\ DOMAIN writes = 1 .. Len(writes) /\ sidecar \in 0 .. Len(writes)
      /\ tail \in DOMAIN writes => writes[tail] # Settled
      /\ tail \in 0 .. Len(writes)
      /\ \A i \in DOMAIN writes : writes[i].after \in Nat
  BY Calls, Typing DEF IInv, ChainTyped, RestTyped
<1>s. Settled.state = "settled" /\ Settled.after = 0
  BY DEF Settled
<1>0. CASE UNCHANGED writes /\ tail' = tail /\ sidecar' \in {0, sidecar}
  BY <1>t, <1>0 DEF Chained
<1>1. CASE Persist /\ sidecar' = sidecar
  <2>1. /\ Len(writes') = Len(writes) + 1 /\ tail' = Len(writes')
        /\ DOMAIN writes' = 1 .. Len(writes')
        /\ \A i \in DOMAIN writes : writes'[i] = writes[i]
        /\ writes'[tail'].state = "queued" /\ writes'[tail'].after = tail
    BY <1>t, <1>1, Queueing
  <2> QED BY <1>t, <1>1, <2>1 DEF Chained
<1>2. ASSUME NEW i \in DOMAIN writes, BeginWrite(i) PROVE Chained'
  <2>1. /\ writes[i] # Settled
        /\ \A j \in DOMAIN writes : j < i => writes[j] = Settled
    BY <1>t, <1>2, FirstUnsettled DEF BeginWrite
  <2>2. \A j \in DOMAIN writes : j > i => writes[j].state = "queued" /\ i <= writes[j].after
    BY <1>t, <2>1 DEF Chained
  <2>3. /\ Len(writes') = Len(writes) /\ DOMAIN writes' = 1 .. Len(writes')
        /\ \A j \in DOMAIN writes \ {i} : writes'[j] = writes[j]
        /\ writes'[i].state = "writing" /\ writes'[i].after = writes[i].after
        /\ tail' = tail /\ sidecar' = sidecar
    BY <1>t, <1>2, Beginning DEF BeginWrite, disk
  <2> QED BY <1>t, <2>1, <2>2, <2>3 DEF Chained
<1>3. ASSUME NEW i \in DOMAIN writes, SkipWrite(i) \/ EndWrite(i) PROVE Chained'
  <2>1. /\ writes[i] # Settled
        /\ \A j \in DOMAIN writes : j < i => writes[j] = Settled
    BY <1>t, <1>3, FirstUnsettled DEF SkipWrite, EndWrite
  <2>2. /\ Len(writes') = Len(writes) /\ DOMAIN writes' = 1 .. Len(writes')
        /\ \A j \in DOMAIN writes : writes'[j] = IF j = i THEN Settled ELSE writes[j]
        /\ tail' = IF tail = i THEN 0 ELSE tail
    BY <1>t, <1>3, Settling DEF SkipWrite, EndWrite
  <2>3. sidecar' \in {i, sidecar}
    BY <1>3 DEF SkipWrite, EndWrite, disk
  <2> QED BY <1>t, <1>s, <2>1, <2>2, <2>3 DEF Chained
<1>4. ASSUME NEW d \in Deletes, Drained(d) PROVE Chained'
  <2>1. tail' = tail
    <3>1. tail # 0 => ~IsSettled(tail)
      BY <1>t DEF IsSettled
    <3> QED BY <1>4, <3>1 DEF Drained
  <2> QED BY <1>0, <1>4, <2>1 DEF Drained, disk
<1>5. ASSUME NEW r \in Requests, Request(r) PROVE Chained'
  BY <1>0, <1>1, <1>5
     DEF Request, Create, Lookup, ListedLive, Listed, NotListed, Read, NotResumable, OpenFails,
         Connect, Register, chain, disk
<1>6. ASSUME NEW d \in Deletes, Deletion(d) PROVE Chained'
  BY <1>0, <1>4, <1>6
     DEF Deletion, BeginDeletion, Unsubscribe, Terminate, RemoveTranscript, DeletionFails, Dispose,
         Forget, DeleteFromCatalog, CatalogFails, RemoveSidecars, CleaningFails, chain, disk
<1>7. CASE PresentationChanges \/ UNCHANGED vars
  BY <1>0, <1>1, <1>7 DEF PresentationChanges, vars, chain, disk
<1> QED BY <1>2, <1>3, <1>5, <1>6, <1>7 DEF Next, Write

(* The state of the chain as the lemmas that follow need it.                 *)
LEMMA ChainFacts ==
  ASSUME IInv
  PROVE  /\ TypeOK /\ RestTyped /\ Chained
         /\ Len(writes) \in Nat /\ DOMAIN writes = 1 .. Len(writes)
         /\ tail \in 0 .. Len(writes) /\ (tail # 0 => ~IsSettled(tail))
  BY Calls, Typing DEF IInv, ChainTyped, IsSettled

LEMMA Drains == ASSUME IInv, NEW d \in Deletes, Drained(d) PROVE UNCHANGED chain
<1>1. CASE tail = 0
  BY <1>1 DEF Drained, chain
<1>2. CASE tail # 0
  <2>1. ~IsSettled(tail) /\ IsSettled(pending[d])
    BY <1>2, ChainFacts DEF Drained
  <2>2. tail # pending[d]
    BY <2>1
  <2> QED BY <2>2 DEF Drained, chain
<1> QED BY <1>1, <1>2

(* No write becomes unsettled but the one that is asked for.                 *)
LEMMA Unsettled ==
  ASSUME IInv, [Next]_vars, NEW i \in DOMAIN writes', writes'[i] # Settled
  PROVE  \/ i \in DOMAIN writes /\ writes[i] # Settled
         \/ Persist /\ i = tail'
<1>t. TypeOK /\ Chained /\ Len(writes) \in Nat /\ DOMAIN writes = 1 .. Len(writes)
  BY ChainFacts
<1>0. CASE UNCHANGED chain
  BY <1>0 DEF chain
<1>1. CASE Persist
  BY <1>t, <1>1, Queueing
<1>2. ASSUME NEW j \in DOMAIN writes, Write(j)
      PROVE  i \in DOMAIN writes /\ writes[i] # Settled
  BY <1>t, <1>2, FirstUnsettled, Beginning, Settling DEF Write, BeginWrite, SkipWrite, EndWrite
<1> QED BY <1>0, <1>1, <1>2, Drains
        DEF Next, PresentationChanges, Request, Create, Lookup, ListedLive, Listed, NotListed, Read,
            NotResumable, OpenFails, Connect, Register, Deletion, BeginDeletion, Unsubscribe,
            Terminate, RemoveTranscript, DeletionFails, Dispose, Forget, DeleteFromCatalog,
            CatalogFails, RemoveSidecars, CleaningFails, vars, chain

(* How a deletion comes to drain, and past it.                               *)
LEMMA Progress ==
  ASSUME IInv, [Next]_vars, NEW d \in Deletes
  PROVE  /\ late \subseteq late'
         /\ pc'[d] = "draining" =>
              \/ pc[d] = "draining" /\ pending'[d] = pending[d]
              \/ pending'[d] = tail /\ UNCHANGED chain
         /\ pc'[d] \in {"closing"} \union Stopped =>
              \/ pc[d] \in {"closing"} \union Stopped
              \/ pc[d] = "draining" /\ IsSettled(pending[d]) /\ UNCHANGED chain
<1> DEFINE Goal == /\ late \subseteq late'
                   /\ pc'[d] = "draining" =>
                        \/ pc[d] = "draining" /\ pending'[d] = pending[d]
                        \/ pending'[d] = tail /\ UNCHANGED chain
                   /\ pc'[d] \in {"closing"} \union Stopped =>
                        \/ pc[d] \in {"closing"} \union Stopped
                        \/ pc[d] = "draining" /\ IsSettled(pending[d]) /\ UNCHANGED chain
<1>t. RestTyped
  BY ChainFacts
<1> USE <1>t, SessionRegistryAssumption
    DEF RestTyped, Stopped, Opening, GoTo, Requests, disk, sessions, chain, requests
<1>1. CASE PresentationChanges
  BY <1>1 DEF PresentationChanges, Persist
<1>2. ASSUME NEW i \in DOMAIN writes, Write(i) PROVE Goal
  BY <1>2 DEF Write, BeginWrite, SkipWrite, EndWrite
<1>3. ASSUME NEW r \in Requests, Request(r) PROVE Goal
  <2>1. CASE Create(r)
    BY <2>1 DEF Create, Open
  <2>2. CASE Lookup(r)
    BY <2>2 DEF Lookup, Delete
  <2>3. CASE ListedLive(r)
    BY <2>3 DEF ListedLive
  <2>4. CASE Listed(r)
    BY <2>4 DEF Listed, Open
  <2>5. CASE NotListed(r) \/ Read(r) \/ OpenFails(r)
    BY <2>5 DEF NotListed, Read, OpenFails
  <2>6. CASE NotResumable(r) \/ Connect(r)
    BY <2>6 DEF NotResumable, Connect
  <2>7. CASE Register(r)
    BY <2>7 DEF Register, Persist
  <2> QED BY <1>3, <2>1, <2>2, <2>3, <2>4, <2>5, <2>6, <2>7 DEF Request
<1>4. ASSUME NEW e \in Deletes, Deletion(e) PROVE Goal
  <2>1. CASE BeginDeletion(e)
    BY <2>1 DEF BeginDeletion, Delete
  <2>2. CASE Drained(e)
    <3>1. UNCHANGED chain
      BY <2>2, Drains
    <3> QED BY <2>2, <3>1 DEF Drained
  <2>3. CASE Unsubscribe(e) \/ Terminate(e)
    BY <2>3 DEF Unsubscribe, Terminate
  <2>4. CASE RemoveTranscript(e) \/ DeletionFails(e)
    BY <2>4 DEF RemoveTranscript, DeletionFails
  <2>5. CASE Dispose(e) \/ Forget(e)
    BY <2>5 DEF Dispose, Forget
  <2>6. CASE DeleteFromCatalog(e) \/ CatalogFails(e) \/ RemoveSidecars(e) \/ CleaningFails(e)
    BY <2>6 DEF DeleteFromCatalog, CatalogFails, RemoveSidecars, CleaningFails
  <2> QED BY <1>4, <2>1, <2>2, <2>3, <2>4, <2>5, <2>6 DEF Deletion
<1>5. CASE UNCHANGED vars
  BY <1>5 DEF vars
<1> QED BY <1>1, <1>2, <1>3, <1>4, <1>5 DEF Next

LEMMA StepWaiting == IInv /\ [Next]_vars => Waiting'
<1> SUFFICES ASSUME IInv, [Next]_vars, NEW d \in Deletes, NEW i \in DOMAIN writes',
                    writes'[i] # Settled
             PROVE  /\ pc'[d] = "draining" => i <= pending'[d] \/ i \in late'
                    /\ pc'[d] \in {"closing"} \union Stopped => i \in late'
  BY DEF Waiting, Stopped
<1>t. /\ TypeOK /\ RestTyped /\ Chained /\ Waiting
      /\ Len(writes) \in Nat /\ DOMAIN writes = 1 .. Len(writes) /\ tail \in 0 .. Len(writes)
      /\ pending[d] \in 0 .. Len(writes)
  <2>1. TypeOK /\ RestTyped /\ Chained /\ Waiting
    BY ChainFacts DEF IInv
  <2>2. d \in Requests
    BY DEF Requests
  <2> QED BY <2>1, <2>2, ChainFacts DEF RestTyped
<1>1. CASE Persist /\ i = tail'
  <2>1. tail' # tail
    BY <1>t, <1>1, Queueing
  <2>2. pc'[d] \in {"draining", "closing"} \union Stopped => pc[d] \in Begun
    BY <2>1, Progress DEF Begun, chain
  <2> QED BY <1>t, <1>1, <2>2, Queueing
<1>2. CASE i \in DOMAIN writes /\ writes[i] # Settled
  <2>1. i <= tail
    BY <1>t, <1>2 DEF Chained
  <2>2. IsSettled(pending[d]) => i > pending[d]
    BY <1>t, <1>2 DEF Chained, IsSettled, Settled
  <2>3. /\ pc[d] = "draining" => i <= pending[d] \/ i \in late
        /\ pc[d] \in {"closing"} \union Stopped => i \in late
    BY <1>t, <1>2 DEF Waiting
  <2>4. CASE pc'[d] = "draining"
    BY <2>1, <2>3, <2>4, Progress DEF Stopped
  <2>5. CASE pc'[d] \in {"closing"} \union Stopped
    BY <1>t, <1>2, <2>2, <2>3, <2>5, Progress DEF Stopped
  <2> QED BY <2>4, <2>5
<1> QED BY <1>1, <1>2, Unsettled

(* A session is removed from the registry by the last step of a deletion.    *)
LEMMA Removal ==
  ASSUME IInv, [Next]_vars, registered' = None, registered # None
  PROVE  UNCHANGED chain /\ \E d \in Deletes : pc[d] \in Stopped
<1>1. \A r \in Requests : r # None
  BY SessionRegistryAssumption
<1>2. UNCHANGED registered \/ (\E r \in Requests : Register(r)) \/ \E d \in Deletes : Forget(d)
  BY Drains
     DEF Next, PresentationChanges, Write, BeginWrite, SkipWrite, EndWrite, Request, Create, Lookup,
         ListedLive, Listed, NotListed, Read, NotResumable, OpenFails, Connect, Deletion,
         BeginDeletion, Drained, Unsubscribe, Terminate, RemoveTranscript, DeletionFails, Dispose,
         DeleteFromCatalog, CatalogFails, RemoveSidecars, CleaningFails, vars, sessions
<1>3. \E d \in Deletes : Forget(d)
  BY <1>1, <1>2 DEF Register
<1> QED BY <1>3 DEF Forget, Stopped

LEMMA StepOrphaned == IInv /\ [Next]_vars => Orphaned'
<1> SUFFICES ASSUME IInv, [Next]_vars, NEW i \in DOMAIN writes',
                    registered' = None, writes'[i].state = "writing"
             PROVE  i \in late'
  BY DEF Orphaned
<1>t. /\ TypeOK /\ Waiting /\ Orphaned /\ late \subseteq late'
      /\ Len(writes) \in Nat /\ DOMAIN writes = 1 .. Len(writes)
  <2>1. late \subseteq late'
    BY DEF Next, PresentationChanges, Persist, Write, BeginWrite, SkipWrite, EndWrite, Request, Create, Lookup,
         ListedLive, Listed, NotListed, Read, NotResumable, OpenFails, Connect, Register, Deletion,
         BeginDeletion, Drained, Unsubscribe, Terminate, RemoveTranscript, DeletionFails, Dispose,
         Forget, DeleteFromCatalog, CatalogFails, RemoveSidecars, CleaningFails, vars
  <2> QED BY <2>1, ChainFacts DEF IInv
<1>1. writes'[i] # Settled /\ ~(Persist /\ i = tail')
  BY <1>t, Queueing DEF Settled
<1>2. i \in DOMAIN writes /\ writes[i] # Settled
  BY <1>1, Unsettled
<1>3. CASE registered # None
  <2>1. PICK d \in Deletes : pc[d] \in Stopped
    BY <1>3, Removal
  <2> QED BY <1>t, <1>2, <2>1 DEF Waiting
<1>4. CASE registered = None
  <2>1. writes[i].state = "writing"
    <3>1. CASE UNCHANGED chain
      BY <3>1 DEF chain
    <3>2. CASE Persist
      BY <1>t, <1>2, <3>2, Queueing
    <3>3. ASSUME NEW j \in DOMAIN writes, SkipWrite(j) \/ EndWrite(j) PROVE writes'[i] = writes[i]
      BY <1>t, <1>1, <1>2, <3>3, Settling DEF SkipWrite, EndWrite
    <3>4. \A j \in DOMAIN writes : ~BeginWrite(j)
      BY <1>4 DEF BeginWrite, Wanted
    <3> QED BY <3>1, <3>2, <3>3, <3>4, Drains
            DEF Next, PresentationChanges, Write, Request, Create, Lookup, ListedLive, Listed,
                NotListed, Read, NotResumable, OpenFails, Connect, Register, Deletion,
                BeginDeletion, Unsubscribe, Terminate, RemoveTranscript, DeletionFails, Dispose,
                Forget, DeleteFromCatalog, CatalogFails, RemoveSidecars, CleaningFails, vars, chain
  <2> QED BY <1>t, <1>2, <1>4, <2>1 DEF Orphaned
<1> QED BY <1>3, <1>4

(* A write that ends while a session is on its way out is a late one.        *)
LEMMA LateWrite ==
  ASSUME IInv, ~raced, transcript = "deleted", NEW i \in DOMAIN writes, writes[i].state = "writing"
  PROVE  i \in late
<1>1. writes[i] # Settled
  BY DEF Settled
<1>2. CASE registered = None
  BY <1>2 DEF IInv, Orphaned
<1>3. CASE registered # None
  <2>1. PICK e \in Deletes : pc[e] \in Stopped
    BY <1>3 DEF IInv, Leaving
  <2> QED BY <1>1, <2>1 DEF IInv, Waiting
<1> QED BY <1>2, <1>3

LEMMA StepDeletionLeavesNothing == IInv /\ [Next]_vars => DeletionLeavesNothing'
<1> SUFFICES ASSUME IInv, [Next]_vars, NEW d \in Deletes, ~raced', pc'[d] = "done", d \in removed'
             PROVE  sidecar' = 0 \/ sidecar' \in late'
  BY DEF DeletionLeavesNothing
<1>t. RestTyped /\ Files /\ DeletionLeavesNothing
  BY ChainFacts DEF IInv
<1> USE <1>t, SessionRegistryAssumption
    DEF RestTyped, Files, DeletionLeavesNothing, Stopped, Opening, GoTo, Requests, disk, sessions,
        chain, requests
<1>1. CASE PresentationChanges
  BY <1>1 DEF PresentationChanges, Persist
<1>2. ASSUME NEW i \in DOMAIN writes, Write(i) PROVE sidecar' = 0 \/ sidecar' \in late'
  <2>1. CASE BeginWrite(i) \/ SkipWrite(i)
    BY <2>1 DEF BeginWrite, SkipWrite
  <2>2. CASE EndWrite(i)
    BY <2>2, LateWrite DEF EndWrite
  <2> QED BY <1>2, <2>1, <2>2 DEF Write
<1>3. ASSUME NEW r \in Requests, Request(r) PROVE sidecar' = 0 \/ sidecar' \in late'
  <2>1. CASE Create(r) \/ Listed(r)
    BY <2>1 DEF Create, Listed, Open
  <2>2. CASE Lookup(r)
    BY <2>2 DEF Lookup, Delete
  <2>3. CASE ListedLive(r)
    BY <2>3 DEF ListedLive
  <2>4. CASE NotListed(r) \/ Read(r) \/ OpenFails(r)
    BY <2>4 DEF NotListed, Read, OpenFails
  <2>5. CASE NotResumable(r) \/ Connect(r)
    BY <2>5 DEF NotResumable, Connect
  <2>6. CASE Register(r)
    BY <2>6 DEF Register, Persist
  <2> QED BY <1>3, <2>1, <2>2, <2>3, <2>4, <2>5, <2>6 DEF Request
<1>4. ASSUME NEW e \in Deletes, Deletion(e) PROVE sidecar' = 0 \/ sidecar' \in late'
  <2>1. CASE BeginDeletion(e)
    BY <2>1 DEF BeginDeletion, Delete
  <2>2. CASE Drained(e) \/ Unsubscribe(e) \/ Terminate(e)
    BY <2>2 DEF Drained, Unsubscribe, Terminate
  <2>3. CASE RemoveTranscript(e) \/ DeletionFails(e)
    BY <2>3 DEF RemoveTranscript, DeletionFails
  <2>4. CASE Dispose(e) \/ Forget(e)
    BY <2>4 DEF Dispose, Forget
  <2>5. CASE DeleteFromCatalog(e) \/ CatalogFails(e)
    BY <2>5 DEF DeleteFromCatalog, CatalogFails
  <2>6. CASE RemoveSidecars(e) \/ CleaningFails(e)
    BY <2>6 DEF RemoveSidecars, CleaningFails
  <2> QED BY <1>4, <2>1, <2>2, <2>3, <2>4, <2>5, <2>6 DEF Deletion
<1>5. CASE UNCHANGED vars
  BY <1>5 DEF vars
<1> QED BY <1>1, <1>2, <1>3, <1>4, <1>5 DEF Next

-----------------------------------------------------------------------------
LEMMA InductiveInvariant == Spec => []IInv
<1>1. IInv /\ [Next]_vars => IInv'
  BY StepTyped, StepFiles, StepLives, StepAlone, StepLeaving, StepChained, StepWaiting,
     StepOrphaned, StepDeletionLeavesNothing DEF IInv
<1> QED BY <1>1, InitInvariant, PTL DEF Spec

(* The state of the registry, of the requests and of the write chain stays   *)
(* within its types, and a settled write never stays in #presentationWrites. *)
THEOREM TypeCorrect == Spec => []TypeOK
<1>1. IInv => TypeOK
  BY DEF IInv
<1> QED BY <1>1, InductiveInvariant, PTL

(* A deletion that has succeeded leaves no sidecar of a write asked for      *)
(* before it began, whatever the number of deletions that overlap.           *)
THEOREM NothingLeft == Spec => []DeletionLeavesNothing
<1>1. IInv => DeletionLeavesNothing
  BY DEF IInv
<1> QED BY <1>1, InductiveInvariant, PTL

(* The bridge handles the events of one connection of the session, unless    *)
(* the session was opened beside another opening or a deletion.              *)
THEOREM OneConnectionSpeaks == Spec => []OnlyRegisteredSpeaks
<1>1. IInv => OnlyRegisteredSpeaks
  BY DEF IInv, Alone, OnlyRegisteredSpeaks
<1> QED BY <1>1, InductiveInvariant, PTL

(* No failure leaves a session registered that has been cut off.             *)
THEOREM RegisteredIsLive == Spec => []RegistrationIsLive
<1>1. IInv => RegistrationIsLive
  BY DEF IInv, Lives
<1> QED BY <1>1, InductiveInvariant, PTL

(* However many presentations are persisted beside one another, the sidecar  *)
(* is never overwritten by an older one.                                     *)
THEOREM SidecarInOrder == Spec => WritesInOrder
<1> DEFINE InOrder == sidecar' # 0 => sidecar' >= sidecar
<1>1. IInv /\ [Next]_vars => [InOrder]_vars
  <2> SUFFICES ASSUME IInv, [Next]_vars PROVE InOrder
    OBVIOUS
  <2>t. Chained /\ sidecar \in Nat /\ Len(writes) \in Nat /\ DOMAIN writes = 1 .. Len(writes)
        /\ sidecar \in 0 .. Len(writes)
    BY ChainFacts DEF RestTyped
  <2>1. CASE sidecar' \in {0, sidecar}
    BY <2>t, <2>1
  <2>2. ASSUME NEW i \in DOMAIN writes, EndWrite(i) PROVE InOrder
    <3>1. sidecar > i => writes[i] = Settled
      BY <2>t DEF Chained, Settled
    <3>2. writes[i] # Settled
      BY <2>2 DEF EndWrite, Settled
    <3> QED BY <2>t, <2>2, <3>1, <3>2 DEF EndWrite
  <2> QED BY <2>1, <2>2
          DEF Next, PresentationChanges, Write, BeginWrite, SkipWrite, Request, Create, Lookup,
              ListedLive, Listed, NotListed, Read, NotResumable, OpenFails, Connect, Register,
              Deletion, BeginDeletion, Drained, Unsubscribe, Terminate, RemoveTranscript,
              DeletionFails, Dispose, Forget, DeleteFromCatalog, CatalogFails, RemoveSidecars,
              CleaningFails, disk, vars
<1> QED BY <1>1, InductiveInvariant, PTL DEF Spec, WritesInOrder

(* The sidecar is removed when the transcript has been, and never by a       *)
(* deletion that failed before.                                              *)
THEOREM FailureKeeps == Spec => FailedDeletionKeeps
<1> DEFINE Keeps == sidecar # 0 /\ sidecar' = 0 => transcript' = "deleted"
<1>1. IInv /\ [Next]_vars => [Keeps]_vars
  <2> SUFFICES ASSUME IInv, [Next]_vars PROVE Keeps
    OBVIOUS
  <2>1. CASE sidecar' = sidecar
    BY <2>1
  <2>2. ASSUME NEW i \in DOMAIN writes, EndWrite(i) PROVE Keeps
    BY <2>2, ChainFacts DEF EndWrite
  <2>3. ASSUME NEW d \in Deletes, RemoveSidecars(d) \/ CleaningFails(d) PROVE Keeps
    BY <2>3 DEF RemoveSidecars, CleaningFails, IInv, Files
  <2> QED BY <2>1, <2>2, <2>3
          DEF Next, PresentationChanges, Write, BeginWrite, SkipWrite, Request, Create, Lookup,
              ListedLive, Listed, NotListed, Read, NotResumable, OpenFails, Connect, Register,
              Deletion, BeginDeletion, Drained, Unsubscribe, Terminate, RemoveTranscript,
              DeletionFails, Dispose, Forget, DeleteFromCatalog, CatalogFails, disk, vars
<1> QED BY <1>1, InductiveInvariant, PTL DEF Spec, FailedDeletionKeeps
=============================================================================
