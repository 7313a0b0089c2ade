--------------------------- MODULE SseReplayProofs ---------------------------
(***************************************************************************)
(* Proofs about the out-of-turn event channel.                             *)
(***************************************************************************)
EXTENDS SseReplay, SequenceTheorems, TLAPS

USE CapacityAssumption, SseReplayAssumption DEF bridge, history

(* The latest sequence of a hole-free buffer is one less than the next one.  *)
LEMMA LatestIsLast ==
  ASSUME NEW b, IsBuffer(b, Generations, Events)
  PROVE  /\ LatestSequence(b) = b.nextSeq - 1
         /\ LatestSequence(b) \in Nat
<1>1. CASE b.entries = <<>>
  BY <1>1 DEF IsBuffer, LatestSequence
<1>2. CASE b.entries # <<>>
  <2>1. /\ b.entries \in Seq([seq : Nat \ {0}, event : Events])
        /\ b.nextSeq \in Nat \ {0}
        /\ \A i \in 1 .. Len(b.entries) :
             b.entries[i].seq = b.nextSeq - 1 - Len(b.entries) + i
    BY DEF IsBuffer
  <2>2. Len(b.entries) \in Nat /\ Len(b.entries) \in 1 .. Len(b.entries)
    BY <1>2, <2>1
  <2>3. b.entries[Len(b.entries)].seq = b.nextSeq - 1
    BY <2>1, <2>2
  <2> QED BY <1>2, <2>1, <2>3 DEF LatestSequence
<1> QED BY <1>1, <1>2

(* A push keeps the buffer the newest frames without a hole.                 *)
LEMMA PushIsBuffer ==
  ASSUME NEW b, IsBuffer(b, Generations, Events), NEW event \in Events
  PROVE  /\ IsBuffer(Push(b, event), Generations, Events)
         /\ Push(b, event).nextSeq = b.nextSeq + 1
         /\ Push(b, event).generation = b.generation
<1> DEFINE entry == [seq |-> b.nextSeq, event |-> event]
           old   == Len(b.entries)
<1>1. /\ b.entries \in Seq(Entry) /\ b.nextSeq \in Nat \ {0}
      /\ b.generation \in Generations
      /\ old \in Nat /\ old <= Capacity /\ old < b.nextSeq
      /\ old < Capacity => old = b.nextSeq - 1
      /\ \A i \in 1 .. old : b.entries[i].seq = (b.nextSeq - 1 - old) + i
  BY DEF IsBuffer, Entry
<1>2. entry \in Entry /\ entry.seq = b.nextSeq
  BY <1>1 DEF Entry
<1> HIDE DEF entry
<1>3. PICK grown : grown = Append(b.entries, entry)
  OBVIOUS
<1>4. /\ grown \in Seq(Entry) /\ Len(grown) = old + 1
      /\ \A i \in 1 .. old : grown[i] = b.entries[i]
      /\ grown[old + 1] = entry
  BY <1>1, <1>2, <1>3
<1>5. \A i \in 1 .. old + 1 : grown[i].seq = (b.nextSeq - 1 - old) + i
  <2> TAKE i \in 1 .. old + 1
  <2>1. CASE i = old + 1
    <3>1. grown[i].seq = b.nextSeq
      BY <1>2, <1>4, <2>1
    <3>2. b.nextSeq \in Nat /\ old \in Nat
      BY <1>1
    <3>3. (b.nextSeq - 1 - old) + (old + 1) = b.nextSeq
      BY <3>2
    <3> HIDE DEF old
    <3> QED BY <2>1, <3>1, <3>3
  <2>2. CASE i # old + 1
    <3>1. i \in 1 .. old
      BY <1>1, <2>2
    <3> QED BY <1>1, <1>4, <3>1
  <2> QED BY <2>1, <2>2
<1> DEFINE over == Len(grown) - Capacity
           kept == IF over > 0 THEN SubSeq(grown, over + 1, Len(grown)) ELSE grown
<1>6. Push(b, event) = [generation |-> b.generation, nextSeq |-> b.nextSeq + 1,
                        entries |-> kept]
  BY <1>3 DEF Push, entry
<1>7. /\ kept \in Seq(Entry)
      /\ Len(kept) <= Capacity /\ Len(kept) > 0 /\ Len(kept) < b.nextSeq + 1
      /\ Len(kept) < Capacity => Len(kept) = b.nextSeq
      /\ \A i \in 1 .. Len(kept) : kept[i].seq = (b.nextSeq - Len(kept)) + i
  <2>1. CASE over > 0
    <3>1. over = 1 /\ old = Capacity
      BY <1>1, <1>4, <2>1
    <3>2. kept = SubSeq(grown, 2, old + 1)
      <4>1. Len(grown) = old + 1 /\ over + 1 = 2
        BY <1>4, <3>1
      <4> HIDE DEF over
      <4> QED BY <2>1, <4>1
    <3>3. \A i \in 2 .. old + 1 : grown[i] \in Entry
      BY <1>1, <1>4
    <3> HIDE DEF kept
    <3>4. /\ kept \in Seq(Entry)
          /\ Len(kept) = old
          /\ \A i \in 1 .. old : kept[i] = grown[i + 1]
      <4>1. /\ SubSeq(grown, 2, old + 1) \in Seq(Entry)
            /\ Len(SubSeq(grown, 2, old + 1)) =
                 IF 2 <= old + 1 THEN (old + 1) - 2 + 1 ELSE 0
            /\ \A i \in 1 .. (old + 1) - 2 + 1 :
                 SubSeq(grown, 2, old + 1)[i] = grown[2 + i - 1]
        BY <1>1, <3>3, SubSeqProperties
      <4> QED BY <1>1, <3>2, <4>1
    <3>5. \A i \in 1 .. old : kept[i].seq = (b.nextSeq - old) + i
      <4> TAKE i \in 1 .. old
      <4>1. i + 1 \in 1 .. old + 1 /\ kept[i] = grown[i + 1]
        BY <1>1, <3>4
      <4> QED BY <1>1, <1>5, <4>1
    <3> QED BY <1>1, <3>1, <3>4, <3>5
  <2>2. CASE ~(over > 0)
    <3>1. kept = grown
      BY <2>2
    <3>2. old < Capacity
      BY <1>1, <1>4, <2>2
    <3> HIDE DEF kept
    <3> QED BY <1>1, <1>4, <1>5, <3>1, <3>2
  <2> QED BY <2>1, <2>2
<1> HIDE DEF kept
<1>8. PICK p : p = [generation |-> b.generation, nextSeq |-> b.nextSeq + 1,
                    entries |-> kept]
  OBVIOUS
<1>9. /\ p.generation = b.generation
      /\ p.nextSeq = b.nextSeq + 1
      /\ p.entries = kept
  BY <1>8
<1>10. p \in [generation : Generations, nextSeq : Nat \ {0},
              entries : Seq([seq : Nat \ {0}, event : Events])]
  BY <1>1, <1>7, <1>8 DEF Entry
<1>11. p.entries # <<>>
  BY <1>7, <1>9
<1>12. p.nextSeq - 1 = b.nextSeq
  BY <1>1, <1>9
<1>13. IsBuffer(p, Generations, Events)
  BY <1>1, <1>7, <1>9, <1>10, <1>11, <1>12 DEF IsBuffer
<1> QED BY <1>6, <1>8, <1>9, <1>13

(* What a flush writes is well-formed and its cursor is a sequence number.   *)
LEMMA FlushTyped ==
  ASSUME NEW b, IsBuffer(b, Generations, Events), NEW cursor \in Nat,
         NEW firstTime \in BOOLEAN
  PROVE  /\ Flush(b, cursor, firstTime).cursor \in Nat
         /\ Flush(b, cursor, firstTime).messages \in Seq(Message)
<1>1. LatestSequence(b) \in Nat
  BY LatestIsLast
<1>2. CASE Overflowed(b, cursor)
  <2>1. [type |-> "resync", id |-> LatestSequence(b)] \in Message
    BY <1>1 DEF Message
  <2> QED BY <1>1, <1>2, <2>1 DEF Flush
<1>3. CASE ~Overflowed(b, cursor)
  <2> DEFINE replayed == ReplaySince(b, cursor)
             entries  == {e \in replayed : ShouldReplay(e.event, firstTime)}
             frames   == [type |-> "frames", generation |-> b.generation,
                          entries |-> entries]
  <2>1. b.generation \in Generations /\ b.entries \in Seq(Entry)
    BY DEF IsBuffer, Entry
  <2>2. replayed \in SUBSET Entry
    BY <2>1 DEF ReplaySince
  <2>3. entries \in SUBSET Entry
    BY <2>2
  <2> HIDE DEF entries
  <2>4. frames \in Message
    BY <2>1, <2>3 DEF Message
  <2>5. /\ Flush(b, cursor, firstTime).cursor =
             IF replayed = {} THEN cursor ELSE LatestSequence(b)
        /\ Flush(b, cursor, firstTime).messages =
             IF entries = {} THEN <<>> ELSE <<frames>>
    BY <1>3 DEF Flush, entries
  <2> HIDE DEF frames
  <2> QED BY <1>1, <2>4, <2>5
<1> QED BY <1>2, <1>3

LEMMA StreamSourceTyped ==
  ASSUME NEW b, IsBuffer(b, Generations, Events), NEW generation,
         NEW requested \in Nat
  PROVE  /\ StreamSource(b, generation, requested).cursorReset \in BOOLEAN
         /\ StreamSource(b, generation, requested).replayFrom \in Nat
BY LatestIsLast DEF StreamSource, NoGeneration

(* A dispatch keeps every type.                                              *)
LEMMA DispatchTyped ==
  ASSUME TypeOK, NEW event \in Events, Dispatch(event),
         question' \in [Questions -> {"unasked", "pending", "closed"}]
  PROVE  TypeOK'
<1> DEFINE pushed == Push(buffer, event)
           out(c) == Flush(pushed, conn[c].cursor, FALSE)
<1>1. IsBuffer(pushed, Generations, Events)
  BY PushIsBuffer DEF TypeOK
<1>2. IsBuffer(buffer', Generations, Events) /\ log' \in Seq(Events)
  BY <1>1 DEF TypeOK, Dispatch
<1>3. \A c \in Clients : out(c).cursor \in Nat /\ out(c).messages \in Seq(Message)
  BY <1>1, FlushTyped DEF TypeOK
<1> HIDE DEF out
<1>4. conn' = [c \in Clients |-> IF conn[c].live
                                 THEN [conn[c] EXCEPT !.cursor = out(c).cursor]
                                 ELSE conn[c]]
  BY DEF Dispatch, out
<1>5. wire' = [c \in Clients |-> IF conn[c].live THEN wire[c] \o out(c).messages
                                 ELSE wire[c]]
  BY DEF Dispatch, out
<1>6. conn' \in [Clients -> [live : BOOLEAN, cursor : Nat, generation : Generations]]
  <2>1. ASSUME NEW c \in Clients
        PROVE  /\ conn[c] \in [live : BOOLEAN, cursor : Nat, generation : Generations]
               /\ out(c).cursor \in Nat
    BY <1>3 DEF TypeOK
  <2>2. ASSUME NEW c \in Clients
        PROVE  [conn[c] EXCEPT !.cursor = out(c).cursor]
                 \in [live : BOOLEAN, cursor : Nat, generation : Generations]
    BY <2>1
  <2> QED BY <1>4, <2>1, <2>2
<1>7. wire' \in [Clients -> Seq(Message)]
  BY <1>3, <1>5 DEF TypeOK
<1>8. UNCHANGED <<tab, asked, loaded, history, faults>>
  BY DEF Dispatch
<1> QED BY <1>2, <1>6, <1>7, <1>8 DEF TypeOK

LEMMA ConnectTyped ==
  ASSUME TypeOK, NEW c \in Clients, Connect(c)
  PROVE  TypeOK'
<1> DEFINE source == StreamSource(buffer, tab[c].streamGeneration, tab[c].lastEventId)
           first  == source.replayFrom = 0 /\ ~source.cursorReset
           out    == Flush(buffer, source.replayFrom, first)
           hello  == <<[type |-> "connected", generation |-> buffer.generation,
                        cursorReset |-> source.cursorReset]>>
           reset  == IF source.cursorReset
                     THEN <<[type |-> "resync", id |-> source.replayFrom]>>
                     ELSE <<>>
<1>1. IsBuffer(buffer, Generations, Events) /\ buffer.generation \in Generations
  BY DEF TypeOK, IsBuffer
<1>2. source.cursorReset \in BOOLEAN /\ source.replayFrom \in Nat
  BY <1>1, StreamSourceTyped DEF TypeOK
<1> HIDE DEF source
<1>3. out.cursor \in Nat /\ out.messages \in Seq(Message)
  BY <1>1, <1>2, FlushTyped
<1>4. hello \in Seq(Message) /\ reset \in Seq(Message)
  <2>1. [type |-> "connected", generation |-> buffer.generation,
         cursorReset |-> source.cursorReset] \in Message
    BY <1>1, <1>2 DEF Message
  <2>2. [type |-> "resync", id |-> source.replayFrom] \in Message
    BY <1>2 DEF Message
  <2> QED BY <2>1, <2>2
<1>5. /\ conn' = [conn EXCEPT ![c] = [live |-> TRUE, cursor |-> out.cursor,
                                      generation |-> buffer.generation]]
      /\ wire' = [wire EXCEPT ![c] = hello \o reset \o out.messages]
      /\ UNCHANGED <<bridge, tab, asked, loaded, history, faults>>
  BY DEF Connect, source
<1> HIDE DEF out, hello, reset
<1>6. hello \o reset \o out.messages \in Seq(Message)
  BY <1>3, <1>4
<1> QED BY <1>1, <1>3, <1>5, <1>6 DEF TypeOK

LEMMA PersistTyped ==
  ASSUME TypeOK, NEW c \in Clients, NEW id \in Nat
  PROVE  PersistCursor(c, id) \in
           [Clients -> [streamGeneration : Generations \union {NoGeneration},
                        lastEventId : Nat, busy : BOOLEAN, posting : BOOLEAN]]
BY DEF TypeOK, PersistCursor

LEMMA LoadWhenIdleTyped ==
  ASSUME TypeOK, NEW c \in Clients, LoadWhenIdle(c)
  PROVE  asked' \in [Clients -> SUBSET LoadPurposes] /\ missed' \subseteq Clients
<1>1. CASE tab[c].busy
  BY <1>1 DEF TypeOK, LoadWhenIdle
<1>2. CASE ~tab[c].busy
  <2>1. asked' = [asked EXCEPT ![c] = asked[c] \union {"hydrate"}] /\ missed' = missed
    BY <1>2 DEF LoadWhenIdle
  <2>2. asked[c] \union {"hydrate"} \in SUBSET LoadPurposes
    BY DEF TypeOK, LoadPurposes
  <2> QED BY <2>1, <2>2 DEF TypeOK
<1> QED BY <1>1, <1>2

LEMMA ReadFrameTyped ==
  ASSUME TypeOK, NEW c \in Clients, ReadFrame(c)
  PROVE  TypeOK'
<1> DEFINE m == Head(wire[c])
<1>1. /\ wire[c] \in Seq(Message) /\ wire[c] # <<>> /\ m.type = "frames"
      /\ m \in Message /\ Tail(wire[c]) \in Seq(Message)
  BY DEF TypeOK, ReadFrame
<1>2. m.generation \in Generations /\ m.entries \in SUBSET Entry
      /\ m = [type |-> "frames", generation |-> m.generation, entries |-> m.entries]
  BY <1>1 DEF Message
<1>3. PICK e \in m.entries :
        LET rest == m.entries \ {e}
        IN  /\ wire' = [wire EXCEPT ![c] =
                           IF rest = {} THEN Tail(@)
                           ELSE <<[m EXCEPT !.entries = rest]>> \o Tail(@)]
            /\ applied' = [applied EXCEPT ![c] =
                 IF m.generation = buffer.generation /\ e.event \in Questions
                 THEN @ \union {e.seq} ELSE @]
            /\ LoadWhenIdle(c) \/ UNCHANGED <<asked, missed>>
            /\ tab' = PersistCursor(c, e.seq)
  BY DEF ReadFrame
<1>4. UNCHANGED <<bridge, conn, loaded, shown, skipped, behind, stranded, faults>>
  BY DEF ReadFrame
<1>5. e.seq \in Nat \ {0}
  BY <1>2 DEF Entry
<1> DEFINE rest == m.entries \ {e}
           partial == [m EXCEPT !.entries = rest]
<1>6. partial \in Message
  <2>1. partial = [type |-> "frames", generation |-> m.generation, entries |-> rest]
    BY <1>2
  <2>2. rest \in SUBSET Entry
    BY <1>2
  <2> HIDE DEF partial, rest
  <2> QED BY <1>2, <2>1, <2>2 DEF Message
<1>7. wire' \in [Clients -> Seq(Message)]
  <2>1. <<partial>> \o Tail(wire[c]) \in Seq(Message)
    BY <1>1, <1>6
  <2>2. wire' = [wire EXCEPT ![c] = IF rest = {} THEN Tail(wire[c])
                                    ELSE <<partial>> \o Tail(wire[c])]
    BY <1>3
  <2> HIDE DEF partial, rest
  <2> QED BY <1>1, <2>1, <2>2 DEF TypeOK
<1>8. applied' \in [Clients -> SUBSET (Nat \ {0})]
  BY <1>3, <1>5 DEF TypeOK
<1>9. tab' \in [Clients -> [streamGeneration : Generations \union {NoGeneration},
                            lastEventId : Nat, busy : BOOLEAN, posting : BOOLEAN]]
  BY <1>3, <1>5, PersistTyped
<1>10. asked' \in [Clients -> SUBSET LoadPurposes] /\ missed' \subseteq Clients
  BY <1>3, LoadWhenIdleTyped DEF TypeOK
<1> QED BY <1>4, <1>7, <1>8, <1>9, <1>10 DEF TypeOK

LEMMA ReadTyped ==
  ASSUME TypeOK, NEW c \in Clients, ReadConnected(c) \/ ReadResync(c)
  PROVE  TypeOK'
<1> DEFINE m == Head(wire[c])
<1>1. CASE ReadConnected(c)
  <2>1. /\ wire[c] \in Seq(Message) /\ m \in Message
        /\ Tail(wire[c]) \in Seq(Message) /\ m.type = "connected"
    BY <1>1 DEF TypeOK, ReadConnected
  <2>2. m.generation \in Generations
    BY <2>1 DEF Message
  <2>3. /\ wire' = [wire EXCEPT ![c] = Tail(@)]
        /\ tab' = [tab EXCEPT ![c].streamGeneration = m.generation,
                              ![c].lastEventId = IF m.cursorReset THEN 0 ELSE @]
        /\ UNCHANGED <<bridge, conn, asked, loaded, history, faults>>
    BY <1>1 DEF ReadConnected
  <2> HIDE DEF m
  <2>4. tab' \in [Clients -> [streamGeneration : Generations \union {NoGeneration},
                              lastEventId : Nat, busy : BOOLEAN, posting : BOOLEAN]]
    <3>1. tab[c] \in [streamGeneration : Generations \union {NoGeneration},
                      lastEventId : Nat, busy : BOOLEAN, posting : BOOLEAN]
      BY DEF TypeOK
    <3>2. tab' = [tab EXCEPT ![c] =
                    [tab[c] EXCEPT !.streamGeneration = m.generation,
                                   !.lastEventId = IF m.cursorReset THEN 0 ELSE @]]
      BY <2>3
    <3>3. [tab[c] EXCEPT !.streamGeneration = m.generation,
                         !.lastEventId = IF m.cursorReset THEN 0 ELSE @]
            \in [streamGeneration : Generations \union {NoGeneration},
                 lastEventId : Nat, busy : BOOLEAN, posting : BOOLEAN]
      BY <2>2, <3>1
    <3> QED BY <3>2, <3>3 DEF TypeOK
  <2> QED BY <2>1, <2>3, <2>4 DEF TypeOK
<1>2. CASE ReadResync(c)
  <2>1. /\ wire[c] \in Seq(Message) /\ m \in Message
        /\ Tail(wire[c]) \in Seq(Message) /\ m.type = "resync"
    BY <1>2 DEF TypeOK, ReadResync
  <2>2. m.id \in Nat
    BY <2>1 DEF Message
  <2>3. /\ wire' = [wire EXCEPT ![c] = Tail(@)]
        /\ SkipTo(c, m.id)
        /\ LoadWhenIdle(c)
        /\ UNCHANGED <<bridge, conn, loaded, applied, shown, behind, stranded, faults>>
    BY <1>2 DEF ReadResync
  <2> HIDE DEF m
  <2>4. tab' \in [Clients -> [streamGeneration : Generations \union {NoGeneration},
                              lastEventId : Nat, busy : BOOLEAN, posting : BOOLEAN]]
    BY <2>2, <2>3, PersistTyped DEF TypeOK, SkipTo
  <2>5. skipped' \in [Clients -> Nat]
    BY <2>2, <2>3 DEF TypeOK, SkipTo
  <2> QED BY <2>1, <2>3, <2>4, <2>5, LoadWhenIdleTyped DEF TypeOK
<1> QED BY <1>1, <1>2

LEMMA NewBufferTyped ==
  ASSUME TypeOK, NewBuffer
  PROVE  /\ IsBuffer(buffer', Generations, Events)
         /\ log' \in Seq(Events)
         /\ applied' \in [Clients -> SUBSET (Nat \ {0})]
         /\ shown' \in [Clients -> Nat]
         /\ skipped' \in [Clients -> Nat]
         /\ behind' \subseteq Clients
<1>1. buffer.generation \in Generations /\ buffer.generation < MaxGeneration
  BY DEF TypeOK, IsBuffer, NewBuffer
<1>2. buffer.generation + 1 \in Generations
  BY <1>1 DEF Generations
<1> DEFINE entries == <<>>
<1>3. IsBuffer(EmptyBuffer(buffer.generation + 1), Generations, Events)
  BY <1>2 DEF IsBuffer, EmptyBuffer
<1> QED BY <1>3 DEF TypeOK, NewBuffer

(* The server's answer to a load names the buffer's generation and length.   *)
LEMMA ServeLoadTyped ==
  ASSUME TypeOK, NEW c \in Clients, ServeLoad(c)
  PROVE  TypeOK'
<1>1. PICK p \in asked[c] :
        /\ asked' = [asked EXCEPT ![c] = @ \ {p}]
        /\ loaded' = [loaded EXCEPT ![c] = @ \union
             {[purpose |-> p, generation |-> buffer.generation, upto |-> Len(log)]}]
        /\ missed' = missed \ {c} /\ stranded' = stranded \ {c}
        /\ UNCHANGED <<bridge, conn, wire, tab, applied, shown, skipped, behind,
                       faults>>
  BY DEF ServeLoad
<1>2. [purpose |-> p, generation |-> buffer.generation, upto |-> Len(log)] \in Snapshot
  BY DEF TypeOK, IsBuffer, Snapshot
<1> QED BY <1>1, <1>2 DEF TypeOK

LEMMA SettlingTyped ==
  ASSUME TypeOK, NEW c \in Clients, NEW p
  PROVE  Settling(c, p) \in
           [Clients -> [streamGeneration : Generations \union {NoGeneration},
                        lastEventId : Nat, busy : BOOLEAN, posting : BOOLEAN]]
BY DEF TypeOK, Settling

LEMMA TurnTyped ==
  ASSUME TypeOK, NEW c \in Clients, NEW b \in BOOLEAN
  PROVE  [tab EXCEPT ![c].busy = b, ![c].posting = FALSE] \in
           [Clients -> [streamGeneration : Generations \union {NoGeneration},
                        lastEventId : Nat, busy : BOOLEAN, posting : BOOLEAN]]
BY DEF TypeOK

LEMMA InitTyped == Init => TypeOK
<1> SUFFICES ASSUME Init PROVE TypeOK
  OBVIOUS
<1>1. FirstGeneration \in Generations /\ 1 \in Generations
  BY DEF FirstGeneration, Generations
<1>2. IsBuffer(buffer, Generations, Events)
  BY <1>1 DEF Init, IsBuffer, EmptyBuffer
<1>3. /\ log \in Seq(Events) /\ behind \subseteq Clients
      /\ conn \in [Clients -> [live : BOOLEAN, cursor : Nat, generation : Generations]]
      /\ wire \in [Clients -> Seq(Message)]
  BY <1>1 DEF Init, NoConnection
<1>4. tab \in [Clients -> [streamGeneration : Generations \union {NoGeneration},
                           lastEventId : Nat, busy : BOOLEAN, posting : BOOLEAN]]
  <2> DEFINE fresh == [streamGeneration |-> NoGeneration, lastEventId |-> 0,
                       busy |-> FALSE, posting |-> FALSE]
             known == [streamGeneration |-> 1, lastEventId |-> 1,
                       busy |-> FALSE, posting |-> FALSE]
             Tab   == [streamGeneration : Generations \union {NoGeneration},
                       lastEventId : Nat, busy : BOOLEAN, posting : BOOLEAN]
  <2>1. fresh \in Tab /\ known \in Tab
    BY <1>1
  <2>2. tab \in [Clients -> {fresh, known}]
    BY DEF Init
  <2> HIDE DEF fresh, known, Tab
  <2>3. tab \in [Clients -> Tab]
    BY <2>1, <2>2
  <2> QED BY <2>3 DEF Tab
<1> QED BY <1>2, <1>3, <1>4 DEF Init, TypeOK

LEMMA StepTyped == TypeOK /\ [Next]_vars => TypeOK'
<1> SUFFICES ASSUME TypeOK, [Next]_vars PROVE TypeOK'
  OBVIOUS
<1>1. CASE Bridge
  <2>1. ASSUME Publish PROVE TypeOK'
    <3>1. PICK event \in {"plain", "settled"} : Dispatch(event)
      BY <2>1 DEF Publish
    <3> QED BY <2>1, <3>1, DispatchTyped DEF Publish, Events, TypeOK
  <2>2. ASSUME NEW q \in Questions, Ask(q) \/ Cancel(q) PROVE TypeOK'
    <3>1. question' \in [Questions -> {"unasked", "pending", "closed"}]
      BY <2>2 DEF Ask, Cancel, TypeOK
    <3> QED BY <2>2, <3>1, DispatchTyped DEF Ask, Cancel, Events
  <2>3. ASSUME NEW q \in Questions, Answer(q) PROVE TypeOK'
    BY <2>3 DEF Answer, TypeOK
  <2> QED BY <1>1, <2>1, <2>2, <2>3 DEF Bridge
<1>2. CASE Restart
  <2>1. FirstGeneration \in Generations
    BY DEF FirstGeneration, Generations
  <2>2. /\ conn' \in [Clients -> [live : BOOLEAN, cursor : Nat, generation : Generations]]
        /\ wire' \in [Clients -> Seq(Message)]
        /\ question' \in [Questions -> {"unasked", "pending", "closed"}]
        /\ UNCHANGED <<tab, asked, loaded, missed, stranded, faults>>
    BY <1>2, <2>1 DEF Restart, NoConnection, TypeOK
  <2> QED BY <1>2, <2>2, NewBufferTyped DEF Restart, TypeOK
<1>3. CASE FailedDeletion
  BY <1>3, NewBufferTyped DEF FailedDeletion, TypeOK
<1>4. ASSUME NEW c \in Clients, Connect(c) PROVE TypeOK'
  BY <1>4, ConnectTyped
<1>5. ASSUME NEW c \in Clients, Drop(c) PROVE TypeOK'
  BY <1>5 DEF Drop, NoConnection, FirstGeneration, Generations, TypeOK
<1>6. ASSUME NEW c \in Clients, Browser(c) PROVE TypeOK'
  <2>1. CASE ReadConnected(c) \/ ReadResync(c)
    BY <2>1, ReadTyped
  <2>2. CASE ReadFrame(c)
    BY <2>2, ReadFrameTyped
  <2>3. CASE StartTurn(c)
    BY <2>3 DEF StartTurn, TypeOK
  <2>4. CASE EndTurn(c)
    <3>1. PICK done \in BOOLEAN :
            tab' = [tab EXCEPT ![c].busy = IF done THEN FALSE ELSE @,
                               ![c].posting = FALSE]
      BY <2>4 DEF EndTurn
    <3>2. PICK b \in BOOLEAN : b = IF done THEN FALSE ELSE tab[c].busy
      BY DEF TypeOK
    <3>6. tab' = [tab EXCEPT ![c].busy = b, ![c].posting = FALSE]
      BY <3>1, <3>2
    <3>3. asked[c] \union {"reconcile"} \in SUBSET LoadPurposes
      BY DEF TypeOK, LoadPurposes
    <3>4. asked' \in [Clients -> SUBSET LoadPurposes]
      BY <2>4, <3>3 DEF EndTurn, TypeOK
    <3>5. UNCHANGED <<bridge, conn, wire, loaded, history, faults>>
      BY <2>4 DEF EndTurn
    <3> QED BY <3>4, <3>5, <3>6, TurnTyped DEF TypeOK
  <2>8. CASE CutTurn(c)
    <3>1. /\ tab' = [tab EXCEPT ![c].busy = FALSE, ![c].posting = FALSE]
          /\ stranded' \subseteq Clients
          /\ UNCHANGED <<bridge, conn, wire, asked, loaded, applied, shown, skipped,
                         behind, missed, faults>>
      BY <2>8 DEF CutTurn, Strand, TypeOK
    <3>2. FALSE \in BOOLEAN
      OBVIOUS
    <3> QED BY <3>1, <3>2, TurnTyped DEF TypeOK
  <2>5. CASE ServeLoad(c)
    BY <2>5, ServeLoadTyped
  <2>6. CASE FailLoad(c)
    BY <2>6, SettlingTyped DEF FailLoad, TypeOK
  <2>7. ASSUME NEW s \in loaded[c], ApplyLoad(c, s) PROVE TypeOK'
    <3>1. s.upto \in Nat
      BY DEF TypeOK, Snapshot
    <3>2. /\ shown' \in [Clients -> Nat]
          /\ tab' \in [Clients -> [streamGeneration : Generations \union {NoGeneration},
                         lastEventId : Nat, busy : BOOLEAN, posting : BOOLEAN]]
      BY <2>7, <3>1, SettlingTyped DEF ApplyLoad, TypeOK
    <3> QED BY <2>7, <3>2 DEF ApplyLoad, Strand, TypeOK
  <2> QED BY <1>6, <2>1, <2>2, <2>3, <2>4, <2>5, <2>6, <2>7, <2>8 DEF Browser
<1>7. CASE UNCHANGED vars
  BY <1>7 DEF vars, TypeOK
<1> QED BY <1>1, <1>2, <1>3, <1>4, <1>5, <1>6, <1>7 DEF Next

(* Every variable keeps its type, and the replay buffer stays the newest     *)
(* frames of its generation without a hole, whatever the capacity, the       *)
(* number of tabs and the faults (ring-buffer.ts, chat-events.ts).           *)
THEOREM TypeCorrect == Spec => []TypeOK
<1> QED BY InitTyped, StepTyped, PTL DEF Spec

------------------------------------------------------------------------------
(* The inductive invariant behind InOrderOnce and NoSilentLoss.              *)

Latest == buffer.nextSeq - 1

(* The buffer holds the newest frames of the history, and no frame of a      *)
(* question precedes the question.                                           *)
History ==
  /\ Len(log) = Latest
  /\ \A i \in 1 .. Len(buffer.entries) :
        buffer.entries[i].event = log[buffer.entries[i].seq]
  /\ \A n \in 1 .. Latest : log[n] \in Questions => question[log[n]] # "unasked"

Kind(c, i) == wire[c][i].type

(* `connected` is the first message of a connection and names the stream the *)
(* connection was opened on; only a tab that never read one has no stream.   *)
Handshake(c) ==
  /\ conn[c].live => conn[c].generation <= buffer.generation
  /\ tab[c].streamGeneration <= buffer.generation
  /\ ~conn[c].live => wire[c] = <<>>
  /\ \A i \in 1 .. Len(wire[c]) : Kind(c, i) = "connected" =>
        i = 1 /\ wire[c][i].generation = conn[c].generation
  /\ tab[c].streamGeneration = NoGeneration =>
        /\ tab[c].lastEventId = 0
        /\ c \notin behind
        /\ conn[c].live => wire[c] # <<>> /\ Kind(c, 1) = "connected"
  /\ conn[c].live /\ ~Attached(c) => tab[c].streamGeneration # buffer.generation

(* An attached connection has delivered the whole buffer, its wire is in     *)
(* sequence order with resync frames ahead of the frames they stand for, and *)
(* the tab's cursor lies before everything on the wire.                      *)
Ordered(c) ==
  /\ conn[c].cursor = Latest
  /\ wire[c] # <<>> /\ Kind(c, 1) = "connected" /\ ~wire[c][1].cursorReset =>
        tab[c].streamGeneration \in {NoGeneration, buffer.generation}
  /\ wire[c] = <<>> \/ Kind(c, 1) # "connected" =>
        tab[c].streamGeneration = buffer.generation
  /\ \A i \in 1 .. Len(wire[c]) : Kind(c, i) = "resync" =>
        /\ wire[c][i].id <= Latest
        /\ \A j \in 1 .. i - 1 : Kind(c, j) # "frames"
        /\ \A j \in i + 1 .. Len(wire[c]) : Kind(c, j) = "frames" =>
              \A f \in wire[c][j].entries : wire[c][i].id < f.seq
  /\ \A i \in 1 .. Len(wire[c]) : Kind(c, i) = "frames" =>
        /\ wire[c][i].generation = buffer.generation
        /\ \A e \in wire[c][i].entries :
              /\ e.seq <= Latest
              /\ \A f \in wire[c][i].entries : f.seq = e.seq => f = e
              /\ tab[c].streamGeneration = buffer.generation => e.seq > tab[c].lastEventId
              /\ \A j \in 1 .. i - 1 : Kind(c, j) = "frames" =>
                    \A f \in wire[c][j].entries : f.seq < e.seq

(* The tab will load the session again, or it has missed a load it needs.    *)
Recovering(c) == asked[c] # {} \/ c \in missed \/ c \in stranded

(* A missed notice is made good when the turn ends, or is given up.          *)
Repairs(c) ==
  c \in missed =>
    tab[c].busy \/ tab[c].posting \/ asked[c] # {} \/ c \in stranded

(* An answered load of this generation served after frame n.                 *)
LoadCovers(c, n) ==
  \E s \in loaded[c] : s.generation = buffer.generation /\ n <= s.upto

(* A pending question has been applied or is known to be skipped; the end of *)
(* a run has been followed by a load, or will be.                            *)
Safe(c, n) ==
  IF log[n] \in Questions
  THEN ~Relevant(n) \/ n \in applied[c] \/ n <= skipped[c]
  ELSE log[n] = "settled" => n <= shown[c] \/ Recovering(c) \/ LoadCovers(c, n)

ResyncOnWire(c, n) ==
  \E i \in 1 .. Len(wire[c]) : Kind(c, i) = "resync" /\ n <= wire[c][i].id

FrameOnWire(c, n) ==
  \E i \in 1 .. Len(wire[c]) :
    Kind(c, i) = "frames" /\ \E e \in wire[c][i].entries : e.seq = n

(* Everything published is safe, stood for by a resync frame or on the wire. *)
Covered(c) ==
  \A n \in 1 .. Latest : Safe(c, n) \/ ResyncOnWire(c, n) \/ FrameOnWire(c, n)

(* A frame on the wire is the one that was published under its number.       *)
Genuine(c) ==
  \A i \in 1 .. Len(wire[c]) : Kind(c, i) = "frames" =>
    \A e \in wire[c][i].entries : e.event = log[e.seq]

(* What a cursor promises: everything up to it is safe.                      *)
CursorPromise(c) ==
  tab[c].streamGeneration = buffer.generation =>
    /\ tab[c].lastEventId <= Latest
    /\ \A n \in 1 .. tab[c].lastEventId : Safe(c, n)

(* A tab that knew an older generation has been told, or is about to be.     *)
Told(c) ==
  c \in behind =>
    /\ Attached(c) => Recovering(c) \/ LoadCovers(c, 0) \/ ResyncOnWire(c, 0)
    /\ tab[c].streamGeneration = buffer.generation /\ tab[c].lastEventId > 0 =>
          Recovering(c) \/ LoadCovers(c, 0)

ClientInv(c) ==
  /\ Handshake(c)
  /\ Attached(c) => Ordered(c) /\ Covered(c) /\ Genuine(c)
  /\ CursorPromise(c)
  /\ Told(c)
  /\ Repairs(c)

IInv ==
  /\ TypeOK
  /\ History
  /\ \A c \in Clients : ClientInv(c)

(* A step that leaves a client's connection, wire and cursor alone keeps its *)
(* invariant when what was safe or being recovered stays so.                 *)
LEMMA QuietClient ==
  ASSUME NEW c \in Clients, TypeOK, ClientInv(c),
         UNCHANGED <<buffer, log>>, conn'[c] = conn[c], wire'[c] = wire[c],
         tab'[c].streamGeneration = tab[c].streamGeneration,
         tab'[c].lastEventId = tab[c].lastEventId,
         c \in behind' => c \in behind,
         Len(log) = Latest,
         \A n \in 1 .. Len(log) : Safe(c, n) => Safe(c, n)',
         c \in behind' /\ (Recovering(c) \/ LoadCovers(c, 0)) =>
           (Recovering(c) \/ LoadCovers(c, 0))',
         Repairs(c)'
  PROVE  ClientInv(c)'
<1>1. Handshake(c)'
  BY DEF ClientInv, Handshake, Attached, Kind
<1>2. /\ Ordered(c) => Ordered(c)'
      /\ Genuine(c) => Genuine(c)'
  BY DEF Ordered, Genuine, Kind, Latest
<1>3. /\ Attached(c)' = Attached(c)
      /\ \A n : ResyncOnWire(c, n) => ResyncOnWire(c, n)'
  BY DEF Attached, ResyncOnWire, Kind
<1>4. \A n : FrameOnWire(c, n) => FrameOnWire(c, n)'
  BY DEF FrameOnWire, Kind
<1>5. Latest' = Latest /\ Latest \in Nat
  BY LatestIsLast DEF Latest, TypeOK, IsBuffer
<1>6. Covered(c) => Covered(c)'
  BY <1>3, <1>4, <1>5 DEF Covered
<1>7. CursorPromise(c)'
  <2>1. tab[c].lastEventId \in Nat
    BY DEF TypeOK
  <2> QED BY <1>5, <2>1 DEF ClientInv, CursorPromise
<1>8. Told(c)'
  <2>1. ResyncOnWire(c, 0) => ResyncOnWire(c, 0)'
    BY <1>3
  <2> QED BY <1>3, <2>1 DEF ClientInv, Told
<1> QED BY <1>1, <1>2, <1>3, <1>6, <1>7, <1>8 DEF ClientInv

(* A client none of whose variables a step touches.                          *)
LEMMA OtherClient ==
  ASSUME NEW c \in Clients, TypeOK, History, ClientInv(c),
         UNCHANGED bridge,
         conn'[c] = conn[c], wire'[c] = wire[c], tab'[c] = tab[c],
         asked'[c] = asked[c], loaded'[c] = loaded[c], applied'[c] = applied[c],
         shown'[c] = shown[c], skipped'[c] = skipped[c],
         c \in behind' <=> c \in behind, c \in missed' <=> c \in missed,
         c \in stranded' <=> c \in stranded
  PROVE  ClientInv(c)'
<1>1. \A n : Safe(c, n) => Safe(c, n)'
  BY DEF Safe, Relevant, Pending, Recovering, LoadCovers
<1>2. Recovering(c) \/ LoadCovers(c, 0) => (Recovering(c) \/ LoadCovers(c, 0))'
  BY DEF Recovering, LoadCovers
<1>3. Repairs(c)'
  BY DEF ClientInv, Repairs
<1> QED BY <1>1, <1>2, <1>3, QuietClient DEF History

(* Turns and loads.                                                          *)
TurnOrLoad(c) ==
  \/ StartTurn(c) \/ EndTurn(c) \/ CutTurn(c) \/ ServeLoad(c) \/ FailLoad(c)
  \/ \E s \in loaded[c] : ApplyLoad(c, s)

(* Who missed a notice stays recovering, until a load is answered.           *)
LEMMA TurnsRepair ==
  ASSUME NEW c \in Clients, IInv, TurnOrLoad(c)
  PROVE  Repairs(c)'
<1>1. /\ Repairs(c)
      /\ tab \in [Clients -> [streamGeneration : Generations \union {NoGeneration},
                   lastEventId : Nat, busy : BOOLEAN, posting : BOOLEAN]]
      /\ asked \in [Clients -> SUBSET LoadPurposes]
  BY DEF IInv, ClientInv, TypeOK
<1>2. CASE StartTurn(c)
  BY <1>1, <1>2 DEF StartTurn, Repairs
<1>3. CASE EndTurn(c)
  BY <1>1, <1>3 DEF EndTurn, Repairs
<1>4. CASE CutTurn(c)
  BY <1>1, <1>4 DEF CutTurn, Strand, Repairs
<1>5. CASE ServeLoad(c)
  BY <1>1, <1>5 DEF ServeLoad, Repairs
<1>6. CASE FailLoad(c)
  BY <1>1, <1>6 DEF FailLoad, Repairs
<1>7. ASSUME NEW s \in loaded[c], ApplyLoad(c, s) PROVE Repairs(c)'
  <2>1. CASE s.purpose = "reconcile"
    <3>1. /\ tab'[c].posting = tab[c].posting
          /\ UNCHANGED <<missed, asked>>
          /\ Strand(c, ~tab[c].posting)
      BY <1>1, <1>7, <2>1 DEF ApplyLoad, Settling, Discarded
    <3> QED BY <1>1, <3>1 DEF Strand, Repairs
  <2>2. CASE s.purpose # "reconcile"
    <3>1. /\ UNCHANGED <<tab, asked, stranded>>
          /\ missed' = missed \/ tab[c].busy
      BY <1>7, <2>2 DEF ApplyLoad, Settling, Strand, Discarded
    <3> QED BY <1>1, <3>1 DEF Repairs
  <2> QED BY <2>1, <2>2
<1> QED BY <1>2, <1>3, <1>4, <1>5, <1>6, <1>7 DEF TurnOrLoad

LEMMA TurnsApart ==
  ASSUME NEW c \in Clients, NEW d \in Clients, d # c, TypeOK, TurnOrLoad(c)
  PROVE  /\ tab'[d] = tab[d] /\ asked'[d] = asked[d] /\ loaded'[d] = loaded[d]
         /\ shown'[d] = shown[d]
         /\ d \in behind' <=> d \in behind
         /\ d \in missed' <=> d \in missed
         /\ d \in stranded' <=> d \in stranded
<1>1. CASE StartTurn(c)
  BY <1>1 DEF StartTurn, TypeOK
<1>2. CASE EndTurn(c)
  BY <1>2 DEF EndTurn, TypeOK
<1>3. CASE CutTurn(c)
  BY <1>3 DEF CutTurn, Strand, TypeOK
<1>4. CASE ServeLoad(c)
  BY <1>4 DEF ServeLoad, TypeOK
<1>5. CASE FailLoad(c)
  BY <1>5 DEF FailLoad, Settling, TypeOK
<1>6. ASSUME NEW s \in loaded[c], ApplyLoad(c, s)
      PROVE  /\ tab'[d] = tab[d] /\ asked'[d] = asked[d] /\ loaded'[d] = loaded[d]
             /\ shown'[d] = shown[d]
             /\ d \in behind' <=> d \in behind
             /\ d \in missed' <=> d \in missed
             /\ d \in stranded' <=> d \in stranded
  <2>1. tab'[d] = tab[d]
    BY <1>6 DEF ApplyLoad, Settling, TypeOK
  <2>2. asked'[d] = asked[d] /\ loaded'[d] = loaded[d] /\ shown'[d] = shown[d]
    BY <1>6 DEF ApplyLoad, TypeOK
  <2>3. /\ d \in behind' <=> d \in behind
        /\ d \in missed' <=> d \in missed
        /\ d \in stranded' <=> d \in stranded
    BY <1>6 DEF ApplyLoad, Strand
  <2> QED BY <2>1, <2>2, <2>3
<1> QED BY <1>1, <1>2, <1>3, <1>4, <1>5, <1>6 DEF TurnOrLoad

LEMMA TurnsKeepCursor ==
  ASSUME NEW c \in Clients, TypeOK, TurnOrLoad(c)
  PROVE  /\ tab'[c].streamGeneration = tab[c].streamGeneration
         /\ tab'[c].lastEventId = tab[c].lastEventId
         /\ c \in behind' => c \in behind
<1>1. CASE StartTurn(c)
  BY <1>1 DEF StartTurn, TypeOK
<1>2. CASE EndTurn(c)
  BY <1>2 DEF EndTurn, TypeOK
<1>3. CASE CutTurn(c)
  BY <1>3 DEF CutTurn, TypeOK
<1>4. CASE ServeLoad(c)
  BY <1>4 DEF ServeLoad
<1>5. CASE FailLoad(c)
  BY <1>5 DEF FailLoad, Settling, TypeOK
<1>6. ASSUME NEW s \in loaded[c], ApplyLoad(c, s)
      PROVE  /\ tab'[c].streamGeneration = tab[c].streamGeneration
             /\ tab'[c].lastEventId = tab[c].lastEventId
             /\ c \in behind' => c \in behind
  BY <1>6 DEF ApplyLoad, Settling, TypeOK
<1> QED BY <1>1, <1>2, <1>3, <1>4, <1>5, <1>6 DEF TurnOrLoad

LEMMA TurnsAndLoads ==
  ASSUME NEW c \in Clients, IInv, TurnOrLoad(c)
  PROVE  \A d \in Clients : ClientInv(d)'
<1>1. UNCHANGED <<bridge, conn, wire, applied, skipped>>
  BY DEF TurnOrLoad, StartTurn, EndTurn, CutTurn, ServeLoad, FailLoad, ApplyLoad
<1>2. ASSUME NEW d \in Clients, d # c PROVE ClientInv(d)'
  <2>1. /\ tab'[d] = tab[d] /\ asked'[d] = asked[d] /\ loaded'[d] = loaded[d]
        /\ shown'[d] = shown[d]
        /\ d \in behind' <=> d \in behind
        /\ d \in missed' <=> d \in missed
        /\ d \in stranded' <=> d \in stranded
    BY <1>2, TurnsApart DEF IInv
  <2> QED BY <1>1, <2>1, OtherClient DEF IInv
<1>3. /\ tab'[c].streamGeneration = tab[c].streamGeneration
      /\ tab'[c].lastEventId = tab[c].lastEventId
      /\ c \in behind' => c \in behind
  BY TurnsKeepCursor DEF IInv
<1>4. \A n : Relevant(n)' = Relevant(n)
  BY <1>1 DEF Relevant, Pending
<1>5. /\ \A n \in 1 .. Len(log) : Safe(c, n) => Safe(c, n)'
      /\ c \in behind' /\ (Recovering(c) \/ LoadCovers(c, 0)) =>
           (Recovering(c) \/ LoadCovers(c, 0))'
  <2>1. ASSUME Recovering(c)', shown'[c] = shown[c]
        PROVE  \A n \in 1 .. Len(log) : Safe(c, n) => Safe(c, n)'
    BY <1>1, <1>4, <2>1 DEF Safe
  <2>2. CASE StartTurn(c) \/ CutTurn(c)
    <3>1. /\ UNCHANGED <<asked, loaded, shown, missed>>
          /\ stranded \subseteq stranded'
      BY <2>2 DEF StartTurn, CutTurn, Strand
    <3> QED BY <1>1, <1>4, <3>1 DEF Safe, Recovering, LoadCovers
  <2>3. CASE EndTurn(c)
    <3>1. asked'[c] = asked[c] \union {"reconcile"} /\ shown' = shown
      BY <2>3 DEF EndTurn, IInv, TypeOK
    <3> QED BY <2>1, <3>1 DEF Recovering
  <2>6. CASE FailLoad(c)
    <3>1. c \in stranded' /\ shown' = shown
      BY <2>6 DEF FailLoad
    <3> QED BY <2>1, <3>1 DEF Recovering
  <2>4. CASE ServeLoad(c)
    <3>1. PICK p \in asked[c] :
            /\ loaded' = [loaded EXCEPT ![c] = @ \union
                 {[purpose |-> p, generation |-> buffer.generation,
                   upto |-> Len(log)]}]
            /\ UNCHANGED <<behind, shown, tab>>
      BY <2>4 DEF ServeLoad
    <3>2. \A n \in 0 .. Len(log) : LoadCovers(c, n)'
      <4> DEFINE s == [purpose |-> p, generation |-> buffer.generation,
                       upto |-> Len(log)]
      <4>1. s \in loaded'[c] /\ s.generation = buffer.generation /\ s.upto = Len(log)
        BY <3>1 DEF IInv, TypeOK
      <4> HIDE DEF s
      <4> QED BY <1>1, <4>1 DEF LoadCovers
    <3>3. 0 \in 0 .. Len(log) /\ 1 .. Len(log) \subseteq 0 .. Len(log)
      BY DEF IInv, TypeOK
    <3> QED BY <1>1, <1>4, <3>2, <3>3 DEF Safe
  <2>5. ASSUME NEW s \in loaded[c], ApplyLoad(c, s)
        PROVE  /\ \A n \in 1 .. Len(log) : Safe(c, n) => Safe(c, n)'
               /\ c \in behind' /\ (Recovering(c) \/ LoadCovers(c, 0)) =>
                    (Recovering(c) \/ LoadCovers(c, 0))'
    <3>1. /\ loaded' = [loaded EXCEPT ![c] = @ \ {s}]
          /\ asked' = asked /\ missed \subseteq missed' /\ stranded \subseteq stranded'
      BY <2>5 DEF ApplyLoad, Strand
    <3>2. Recovering(c) => Recovering(c)'
      BY <3>1 DEF Recovering
    <3>3. s.upto \in Nat /\ shown[c] \in Nat
      BY DEF IInv, TypeOK, Snapshot
    <3>4. CASE Discarded(c, s)
      <4>1. Recovering(c)' /\ shown'[c] = shown[c]
        BY <2>5, <3>4 DEF ApplyLoad, Recovering, IInv, TypeOK
      <4> QED BY <2>1, <4>1
    <3>5. CASE ~Discarded(c, s) /\ s.generation # buffer.generation
      <4>1. \A n : LoadCovers(c, n) => LoadCovers(c, n)'
        BY <1>1, <3>1, <3>5 DEF LoadCovers, IInv, TypeOK
      <4>2. shown'[c] = shown[c]
        BY <2>5, <3>5 DEF ApplyLoad, IInv, TypeOK
      <4> QED BY <1>1, <1>4, <3>2, <4>1, <4>2 DEF Safe
    <3>6. CASE ~Discarded(c, s) /\ s.generation = buffer.generation
      <4>1. /\ s.upto <= shown'[c] /\ shown[c] <= shown'[c] /\ shown'[c] \in Nat
            /\ c \notin behind'
        BY <2>5, <3>3, <3>6 DEF ApplyLoad, IInv, TypeOK
      <4>2. ASSUME NEW n \in 1 .. Len(log), LoadCovers(c, n)
            PROVE  n <= shown'[c] \/ LoadCovers(c, n)'
        <5>1. PICK t \in loaded[c] : t.generation = buffer.generation /\ n <= t.upto
          BY <4>2 DEF LoadCovers
        <5>2. CASE t = s
          BY <3>3, <4>1, <5>1, <5>2
        <5>3. CASE t # s
          BY <1>1, <3>1, <5>1, <5>3 DEF LoadCovers, IInv, TypeOK
        <5> QED BY <5>2, <5>3
      <4>3. ASSUME NEW n \in 1 .. Len(log), n <= shown[c] PROVE n <= shown'[c]
        BY <3>3, <4>1, <4>3
      <4> QED BY <1>1, <1>4, <3>2, <4>1, <4>2, <4>3 DEF Safe
    <3> QED BY <3>4, <3>5, <3>6
  <2> QED BY <2>2, <2>3, <2>4, <2>5, <2>6 DEF TurnOrLoad
<1>6. Repairs(c)'
  BY TurnsRepair
<1> QED BY <1>1, <1>2, <1>3, <1>5, <1>6, QuietClient DEF IInv, History

(* An answer only makes frames irrelevant.                                   *)
LEMMA AnswerStep ==
  ASSUME NEW q \in Questions, IInv, Answer(q)
  PROVE  History' /\ \A d \in Clients : ClientInv(d)'
<1>1. /\ UNCHANGED <<buffer, log, conn, wire, tab, asked, loaded, history>>
      /\ question' = [question EXCEPT ![q] = "closed"]
      /\ question \in [Questions -> {"unasked", "pending", "closed"}]
  BY DEF Answer, IInv, TypeOK
<1>2. History'
  BY <1>1 DEF History, Latest, IInv
<1>3. \A n : Relevant(n)' => Relevant(n)
  BY <1>1 DEF Relevant, Pending
<1>4. \A d \in Clients, n \in 1 .. Len(log) : Safe(d, n) => Safe(d, n)'
  BY <1>1, <1>3 DEF Safe, Recovering, LoadCovers
<1>5. \A d \in Clients : Recovering(d) \/ LoadCovers(d, 0) =>
                         (Recovering(d) \/ LoadCovers(d, 0))'
  BY <1>1 DEF Recovering, LoadCovers
<1>6. \A d \in Clients : Repairs(d)'
  BY <1>1 DEF IInv, ClientInv, Repairs
<1> QED BY <1>1, <1>2, <1>4, <1>5, <1>6, QuietClient DEF IInv, History

(* A broken connection takes nothing but its wire.                           *)
LEMMA DropStep ==
  ASSUME NEW c \in Clients, IInv, Drop(c)
  PROVE  \A d \in Clients : ClientInv(d)'
<1>1. /\ UNCHANGED <<bridge, tab, asked, loaded, history>>
      /\ conn' = [conn EXCEPT ![c] = NoConnection]
      /\ wire' = [wire EXCEPT ![c] = <<>>]
  BY DEF Drop
<1>2. ASSUME NEW d \in Clients, d # c PROVE ClientInv(d)'
  <2>1. conn'[d] = conn[d] /\ wire'[d] = wire[d]
    BY <1>1, <1>2 DEF IInv, TypeOK
  <2> QED BY <1>1, <2>1, OtherClient DEF IInv
<1>3. ClientInv(c)'
  <2>1. conn'[c] = NoConnection /\ wire'[c] = <<>>
    BY <1>1 DEF IInv, TypeOK
  <2>2. ~Attached(c)' /\ Len(wire'[c]) = 0
    BY <2>1 DEF Attached, NoConnection
  <2>3. Handshake(c)'
    BY <1>1, <2>1, <2>2 DEF IInv, ClientInv, Handshake, NoConnection, Attached
  <2>4. CursorPromise(c)' /\ Told(c)' /\ Repairs(c)'
    BY <1>1, <2>2 DEF IInv, ClientInv, CursorPromise, Told, Latest, Safe, Relevant,
                      Pending, Recovering, LoadCovers, Repairs
  <2> QED BY <2>2, <2>3, <2>4 DEF ClientInv
<1> QED BY <1>2, <1>3

(* A new buffer detaches every connection and outdates every cursor.         *)
LEMMA NewBufferStep ==
  ASSUME IInv, Restart \/ FailedDeletion
  PROVE  History' /\ \A d \in Clients : ClientInv(d)'
<1>1. /\ buffer' = EmptyBuffer(buffer.generation + 1) /\ log' = <<>>
      /\ behind' = behind \union {c \in Clients : tab[c].streamGeneration # NoGeneration}
      /\ UNCHANGED <<tab, asked, missed, stranded>>
  BY DEF Restart, FailedDeletion, NewBuffer
<1>2. /\ buffer'.generation = buffer.generation + 1
      /\ buffer'.nextSeq = 1 /\ buffer'.entries = <<>>
      /\ buffer.generation \in Nat
  BY <1>1 DEF EmptyBuffer, IInv, TypeOK, IsBuffer, Generations
<1>3. History'
  BY <1>1, <1>2 DEF History, Latest
<1>4. ASSUME NEW c \in Clients PROVE ClientInv(c)'
  <2>1. /\ conn[c].live => conn[c].generation <= buffer.generation
        /\ tab[c].streamGeneration <= buffer.generation
        /\ conn[c].generation \in Nat /\ tab[c].streamGeneration \in Nat
    BY DEF IInv, ClientInv, Handshake, TypeOK, Generations, NoGeneration
  <2>2. \/ conn'[c] = conn[c] /\ wire'[c] = wire[c]
        \/ conn'[c] = NoConnection /\ wire'[c] = <<>>
    BY DEF Restart, FailedDeletion, IInv, TypeOK
  <2>3. ~Attached(c)'
    BY <1>2, <2>1, <2>2 DEF Attached, NoConnection
  <2>4. tab'[c] = tab[c] /\ tab'[c].streamGeneration # buffer'.generation
    BY <1>1, <1>2, <2>1
  <2>5. Handshake(c)'
    <3>1. Handshake(c)
      BY DEF IInv, ClientInv
    <3>2. tab[c].streamGeneration = NoGeneration => c \notin behind'
      BY <1>1, <3>1 DEF Handshake
    <3>3. /\ tab'[c].streamGeneration <= buffer'.generation
          /\ tab'[c].streamGeneration # buffer'.generation
      BY <1>2, <2>1, <2>4
    <3>4. CASE conn'[c] = conn[c] /\ wire'[c] = wire[c]
      <4>1. conn'[c].live => conn'[c].generation <= buffer'.generation
        BY <1>2, <2>1, <3>4
      <4> QED BY <2>4, <3>1, <3>2, <3>3, <3>4, <4>1 DEF Handshake, Kind
    <3>5. CASE conn'[c] = NoConnection /\ wire'[c] = <<>>
      <4>1. ~conn'[c].live /\ Len(wire'[c]) = 0
        BY <3>5 DEF NoConnection
      <4> QED BY <2>4, <3>1, <3>2, <3>3, <3>5, <4>1 DEF Handshake, Kind
    <3> QED BY <2>2, <3>4, <3>5
  <2>6. Repairs(c)'
    BY <1>1 DEF IInv, ClientInv, Repairs
  <2> QED BY <2>3, <2>4, <2>5, <2>6 DEF ClientInv, CursorPromise, Told
<1> QED BY <1>3, <1>4

(* What replaySince returns: the frames after the cursor, and all of them    *)
(* unless it overflowed.                                                     *)
LEMMA ReplayContents ==
  ASSUME NEW b, IsBuffer(b, Generations, Events), NEW cursor \in Nat
  PROVE  /\ \A e \in ReplaySince(b, cursor) :
              e \in Entry /\ e.seq > cursor /\ e.seq <= b.nextSeq - 1
         /\ \A e \in ReplaySince(b, cursor) :
              \E i \in 1 .. Len(b.entries) : e = b.entries[i]
         /\ \A e, f \in ReplaySince(b, cursor) : f.seq = e.seq => f = e
         /\ ~Overflowed(b, cursor) =>
              /\ cursor <= b.nextSeq - 1
              /\ \A n \in cursor + 1 .. b.nextSeq - 1 :
                   \E e \in ReplaySince(b, cursor) : e.seq = n
<1> DEFINE len == Len(b.entries)
<1>1. /\ b.entries \in Seq(Entry) /\ b.nextSeq \in Nat \ {0} /\ len \in Nat
      /\ len < b.nextSeq
      /\ b.nextSeq > 1 => b.entries # <<>>
      /\ \A i \in 1 .. len : b.entries[i].seq = (b.nextSeq - 1 - len) + i
  BY DEF IsBuffer, Entry
<1>2. \A i \in 1 .. len : b.entries[i] \in Entry /\ b.entries[i].seq <= b.nextSeq - 1
  BY <1>1
<1>3. ASSUME ~Overflowed(b, cursor)
      PROVE  /\ cursor <= b.nextSeq - 1
             /\ \A n \in cursor + 1 .. b.nextSeq - 1 :
                  \E e \in ReplaySince(b, cursor) : e.seq = n
  <2>1. cursor <= b.nextSeq - 1
    BY <1>1, <1>3, LatestIsLast DEF Overflowed
  <2>2. ASSUME NEW n \in cursor + 1 .. b.nextSeq - 1
        PROVE  \E e \in ReplaySince(b, cursor) : e.seq = n
    <3>1. b.nextSeq > 1 /\ len > 0
      BY <1>1, <2>2
    <3>2. b.entries[1].seq = (b.nextSeq - 1 - len) + 1 /\ b.entries # <<>>
      BY <1>1, <3>1
    <3>3. cursor + 1 >= b.entries[1].seq
      BY <1>1, <1>3, <3>2 DEF Overflowed
    <3> DEFINE i == n - (b.nextSeq - 1 - len)
    <3>4. i \in 1 .. len
      BY <1>1, <2>2, <3>2, <3>3
    <3>5. b.entries[i].seq = n
      BY <1>1, <2>2, <3>4
    <3>6. n > cursor
      BY <2>2
    <3> HIDE DEF i
    <3> QED BY <3>4, <3>5, <3>6 DEF ReplaySince
  <2> QED BY <2>1, <2>2
<1>4. ASSUME NEW i \in 1 .. len, NEW j \in 1 .. len,
             b.entries[i].seq = b.entries[j].seq
      PROVE  i = j
  BY <1>1, <1>4
<1> QED BY <1>2, <1>3, <1>4 DEF ReplaySince

(* The newest entry of a push is the pushed frame, the others were there.    *)
LEMMA PushContents ==
  ASSUME NEW b, IsBuffer(b, Generations, Events), NEW event \in Events
  PROVE  \A e, i : i \in 1 .. Len(Push(b, event).entries)
                   /\ e = Push(b, event).entries[i] =>
           \/ e = [seq |-> b.nextSeq, event |-> event]
           \/ \E j \in 1 .. Len(b.entries) : e = b.entries[j]
<1> DEFINE entry == [seq |-> b.nextSeq, event |-> event]
           grown == Append(b.entries, entry)
           over  == Len(grown) - Capacity
           old   == Len(b.entries)
           kept  == IF over > 0 THEN SubSeq(grown, over + 1, Len(grown)) ELSE grown
<1>1. b.entries \in Seq(Entry) /\ b.nextSeq \in Nat \ {0} /\ old \in Nat
      /\ old <= Capacity
  BY DEF IsBuffer, Entry
<1>2. entry \in Entry
  BY <1>1 DEF Entry
<1> HIDE DEF entry
<1>3. /\ grown \in Seq(Entry) /\ Len(grown) = old + 1
      /\ \A i \in 1 .. old : grown[i] = b.entries[i]
      /\ grown[old + 1] = entry
  BY <1>1, <1>2
<1>4. \A i \in 1 .. old + 1 : grown[i] = entry \/ \E j \in 1 .. old : grown[i] = b.entries[j]
  <2> TAKE i \in 1 .. old + 1
  <2>1. CASE i = old + 1
    BY <1>3, <2>1
  <2>2. CASE i # old + 1
    <3>1. i \in 1 .. old
      BY <1>1, <2>2
    <3> QED BY <1>3, <3>1
  <2> QED BY <2>1, <2>2
<1>5. Push(b, event).entries = kept
  BY DEF Push, entry
<1>6. \A i \in 1 .. Len(kept) : \E k \in 1 .. old + 1 : kept[i] = grown[k]
  <2>1. CASE over > 0
    <3>1. over = 1
      BY <1>1, <1>3, <2>1
    <3>2. kept = SubSeq(grown, 2, old + 1)
      BY <1>3, <2>1, <3>1
    <3>3. \A i \in 2 .. old + 1 : grown[i] \in Entry
      BY <1>1, <1>3
    <3>4. /\ Len(SubSeq(grown, 2, old + 1)) =
               IF 2 <= old + 1 THEN (old + 1) - 2 + 1 ELSE 0
          /\ \A i \in 1 .. (old + 1) - 2 + 1 :
               SubSeq(grown, 2, old + 1)[i] = grown[2 + i - 1]
      BY <1>1, <3>3, SubSeqProperties
    <3> HIDE DEF kept
    <3>5. ASSUME NEW i \in 1 .. Len(kept)
          PROVE  \E k \in 1 .. old + 1 : kept[i] = grown[k]
      <4>1. i + 1 \in 1 .. old + 1 /\ kept[i] = grown[i + 1]
        BY <1>1, <3>2, <3>4
      <4> QED BY <4>1
    <3> QED BY <3>5
  <2>2. CASE ~(over > 0)
    <3>1. kept = grown
      BY <2>2
    <3> QED BY <1>3, <3>1
  <2> QED BY <2>1, <2>2
<1> HIDE DEF kept, grown
<1> QED BY <1>4, <1>5, <1>6 DEF entry

(* A listener that had delivered everything delivers exactly the new frame.  *)
LEMMA DispatchFlush ==
  ASSUME NEW b, IsBuffer(b, Generations, Events), NEW event \in Events
  PROVE  LET out == Flush(Push(b, event), b.nextSeq - 1, FALSE)
             entry == [seq |-> b.nextSeq, event |-> event]
         IN  /\ out.cursor = b.nextSeq
             /\ out.messages = <<[type |-> "frames", generation |-> b.generation,
                                  entries |-> {entry}]>>
<1>1. PICK p, cursor, entry :
        /\ p = Push(b, event) /\ cursor = b.nextSeq - 1
        /\ entry = [seq |-> b.nextSeq, event |-> event]
  OBVIOUS
<1>2. b.nextSeq \in Nat \ {0} /\ cursor \in Nat /\ b.entries \in Seq(Entry)
  BY <1>1 DEF IsBuffer, Entry
<1>3. /\ IsBuffer(p, Generations, Events) /\ p.nextSeq = b.nextSeq + 1
      /\ p.generation = b.generation
  BY <1>1, PushIsBuffer
<1>4. /\ LatestSequence(p) = b.nextSeq /\ p.nextSeq - 1 = b.nextSeq
      /\ p.entries \in Seq(Entry) /\ p.entries # <<>>
      /\ \A i \in 1 .. Len(p.entries) :
            p.entries[i].seq = (p.nextSeq - 1 - Len(p.entries)) + i
  <2>1. LatestSequence(p) = p.nextSeq - 1
    BY <1>3, LatestIsLast
  <2>2. p.nextSeq - 1 = b.nextSeq /\ p.nextSeq > 1
    BY <1>2, <1>3
  <2> QED BY <1>3, <2>1, <2>2 DEF IsBuffer, Entry
<1>5. ~Overflowed(p, cursor)
  <2>1. Len(p.entries) \in Nat \ {0}
    BY <1>4
  <2>2. p.entries[1].seq = (p.nextSeq - 1 - Len(p.entries)) + 1
    BY <1>4, <2>1
  <2> QED BY <1>1, <1>2, <1>3, <1>4, <2>1, <2>2 DEF Overflowed
<1>6. ReplaySince(p, cursor) = {entry}
  <2>1. ASSUME NEW e \in ReplaySince(p, cursor) PROVE e = entry
    <3>1. /\ e \in Entry /\ e.seq > cursor
          /\ \E i \in 1 .. Len(p.entries) : e = p.entries[i]
      BY <1>2, <1>3, <2>1, ReplayContents
    <3>2. \A j \in 1 .. Len(b.entries) : b.entries[j].seq <= cursor
      BY <1>1, <1>2 DEF IsBuffer
    <3>3. e.seq \in Nat /\ ~(e.seq <= cursor)
      BY <1>2, <3>1 DEF Entry
    <3>4. \A j \in 1 .. Len(b.entries) : e # b.entries[j]
      BY <3>2, <3>3
    <3> QED BY <1>1, <3>1, <3>4, PushContents
  <2>2. b.nextSeq \in cursor + 1 .. p.nextSeq - 1
    BY <1>1, <1>2, <1>3
  <2>3. \E e \in ReplaySince(p, cursor) : e.seq = b.nextSeq
    BY <1>2, <1>3, <1>5, <2>2, ReplayContents
  <2> QED BY <2>1, <2>3
<1>7. {e \in {entry} : ShouldReplay(e.event, FALSE)} = {entry}
  BY DEF ShouldReplay
<1> DEFINE frames == [type |-> "frames", generation |-> b.generation,
                      entries |-> {entry}]
<1>8. PICK out, messages : out = Flush(p, cursor, FALSE) /\ messages = <<frames>>
  OBVIOUS
<1>9. out = [cursor |-> LatestSequence(p), messages |-> messages]
  BY <1>3, <1>5, <1>6, <1>7, <1>8 DEF Flush, frames
<1>10. out.cursor = b.nextSeq /\ out.messages = messages
  BY <1>4, <1>9
<1> QED BY <1>1, <1>8, <1>10 DEF frames

(* A flush never writes a second `connected`.                                *)
LEMMA FlushKinds ==
  ASSUME NEW b, IsBuffer(b, Generations, Events), NEW cursor \in Nat,
         NEW firstTime \in BOOLEAN
  PROVE  LET messages == Flush(b, cursor, firstTime).messages
         IN  \A i \in 1 .. Len(messages) : messages[i].type # "connected"
<1>1. PICK out : out = Flush(b, cursor, firstTime)
  OBVIOUS
<1>2. CASE Overflowed(b, cursor)
  <2> DEFINE resync == [type |-> "resync", id |-> LatestSequence(b)]
  <2>1. out.messages = <<resync>>
    BY <1>1, <1>2 DEF Flush
  <2>2. resync.type # "connected"
    OBVIOUS
  <2> HIDE DEF resync
  <2> QED BY <1>1, <2>1, <2>2
<1>3. CASE ~Overflowed(b, cursor)
  <2> DEFINE replayed == ReplaySince(b, cursor)
             entries  == {e \in replayed : ShouldReplay(e.event, firstTime)}
             frames   == [type |-> "frames", generation |-> b.generation,
                          entries |-> entries]
  <2>1. out.messages = <<>> \/ out.messages = <<frames>>
    BY <1>1, <1>3 DEF Flush
  <2>2. frames.type # "connected"
    OBVIOUS
  <2> HIDE DEF frames
  <2> QED BY <1>1, <2>1, <2>2
<1> QED BY <1>2, <1>3

(* The handshake facts survive messages appended to a live connection.       *)
LEMMA AppendHandshake ==
  ASSUME NEW c \in Clients, TypeOK, Handshake(c), NEW messages \in Seq(Message),
         \A i \in 1 .. Len(messages) : messages[i].type # "connected",
         conn[c].live, wire'[c] = wire[c] \o messages,
         conn'[c].live, conn'[c].generation = conn[c].generation,
         buffer'.generation = buffer.generation, tab'[c] = tab[c], behind' = behind
  PROVE  Handshake(c)'
<1>1. wire[c] \in Seq(Message)
  BY DEF TypeOK
<1>2. /\ \A i \in 1 .. Len(wire'[c]) :
           IF i \in 1 .. Len(wire[c]) THEN wire'[c][i] = wire[c][i]
           ELSE wire'[c][i].type # "connected"
      /\ wire[c] # <<>> => wire'[c] # <<>> /\ wire'[c][1] = wire[c][1]
  BY <1>1
<1>3. Attached(c)' = Attached(c)
  BY DEF Attached
<1> QED BY <1>2, <1>3 DEF Handshake, Kind

(* A dispatched frame is appended to the history and to the wire of every    *)
(* attached connection.                                                      *)
LEMMA DispatchHistory ==
  ASSUME IInv, NEW event \in Events, Dispatch(event),
         \A n \in 1 .. Latest : log[n] \in Questions => question'[log[n]] # "unasked",
         event \in Questions => question'[event] # "unasked"
  PROVE  /\ History' /\ Latest' = Latest + 1
         /\ \A n \in 1 .. Latest : log'[n] = log[n]
         /\ log'[Latest + 1] = event
<1>1. /\ buffer' = Push(buffer, event) /\ log' = Append(log, event)
      /\ IsBuffer(buffer, Generations, Events) /\ log \in Seq(Events)
      /\ Len(log) = Latest
  BY DEF Dispatch, IInv, TypeOK, History
<1>2. /\ buffer.nextSeq \in Nat \ {0} /\ Latest \in Nat
      /\ buffer'.nextSeq = buffer.nextSeq + 1
      /\ buffer.entries \in Seq(Entry)
  <2>1. buffer.nextSeq \in Nat \ {0} /\ buffer.entries \in Seq(Entry)
    BY <1>1 DEF IsBuffer, Entry
  <2>2. buffer'.nextSeq = buffer.nextSeq + 1
    BY <1>1, PushIsBuffer
  <2> QED BY <2>1, <2>2 DEF Latest
<1>3. Latest' = Latest + 1
  BY <1>2 DEF Latest
<1>4. /\ Len(log') = Latest + 1 /\ log'[Latest + 1] = event
      /\ \A n \in 1 .. Latest : log'[n] = log[n]
  BY <1>1, <1>2
<1>5. \A n \in 1 .. Latest + 1 : log'[n] \in Questions => question'[log'[n]] # "unasked"
  <2> TAKE n \in 1 .. Latest + 1
  <2>1. n \in 1 .. Latest \/ n = Latest + 1
    BY <1>2
  <2> QED BY <1>4, <2>1
<1>6. \A i \in 1 .. Len(buffer'.entries) :
        buffer'.entries[i].event = log'[buffer'.entries[i].seq]
  <2> TAKE i \in 1 .. Len(buffer'.entries)
  <2>1. PICK e : e = buffer'.entries[i]
    OBVIOUS
  <2>2. CASE e = [seq |-> buffer.nextSeq, event |-> event]
    BY <1>2, <1>4, <2>1, <2>2 DEF Latest
  <2>3. CASE \E j \in 1 .. Len(buffer.entries) : e = buffer.entries[j]
    <3>1. PICK j \in 1 .. Len(buffer.entries) : e = buffer.entries[j]
      BY <2>3
    <3>2. e.event = log[e.seq]
      BY <3>1 DEF IInv, History
    <3>3. buffer.entries[j].seq = (buffer.nextSeq - 1 - Len(buffer.entries)) + j
      BY <1>1 DEF IsBuffer
    <3>4. Len(buffer.entries) \in Nat /\ Len(buffer.entries) < buffer.nextSeq
      BY <1>1 DEF IsBuffer
    <3>5. e.seq \in 1 .. Latest
      BY <1>2, <3>1, <3>3, <3>4 DEF Latest
    <3> QED BY <1>4, <2>1, <3>2, <3>5
  <2>4. i \in 1 .. Len(Push(buffer, event).entries) /\ e = Push(buffer, event).entries[i]
    BY <1>1, <2>1
  <2>5. \/ e = [seq |-> buffer.nextSeq, event |-> event]
        \/ \E j \in 1 .. Len(buffer.entries) : e = buffer.entries[j]
    BY <1>1, <2>4, PushContents
  <2> QED BY <2>2, <2>3, <2>5
<1> QED BY <1>3, <1>4, <1>5, <1>6 DEF History

LEMMA DispatchStep ==
  ASSUME IInv, NEW event \in Events, Dispatch(event),
         \A n \in 1 .. Latest : log[n] \in Questions => question'[log[n]] # "unasked",
         event \in Questions => question'[event] # "unasked",
         Pending' \subseteq Pending \union {q \in Questions : question[q] = "unasked"}
  PROVE  History' /\ \A d \in Clients : ClientInv(d)'
<1> DEFINE pushed == Push(buffer, event)
           entry  == [seq |-> buffer.nextSeq, event |-> event]
           out(d) == Flush(pushed, conn[d].cursor, FALSE)
           frames == [type |-> "frames", generation |-> buffer.generation,
                      entries |-> {entry}]
<1>1. /\ buffer' = pushed
      /\ UNCHANGED <<tab, asked, loaded, history, faults>>
      /\ conn' = [d \in Clients |-> IF conn[d].live
                                    THEN [conn[d] EXCEPT !.cursor = out(d).cursor]
                                    ELSE conn[d]]
      /\ wire' = [d \in Clients |-> IF conn[d].live THEN wire[d] \o out(d).messages
                                    ELSE wire[d]]
  BY DEF Dispatch
<1>2. /\ History' /\ Latest' = Latest + 1
      /\ \A n \in 1 .. Latest : log'[n] = log[n]
      /\ log'[Latest + 1] = event
  BY DispatchHistory
<1>3. /\ IsBuffer(buffer, Generations, Events) /\ IsBuffer(pushed, Generations, Events)
      /\ pushed.generation = buffer.generation /\ buffer'.generation = buffer.generation
      /\ buffer.nextSeq \in Nat \ {0} /\ Latest \in Nat
  <2>1. IsBuffer(buffer, Generations, Events)
    BY DEF IInv, TypeOK
  <2>2. buffer.nextSeq \in Nat \ {0} /\ Latest \in Nat
    BY <2>1 DEF IsBuffer, Latest
  <2> QED BY <1>1, <2>1, <2>2, PushIsBuffer
<1>4. \A n \in 1 .. Latest : Relevant(n)' => Relevant(n)
  BY <1>2 DEF Relevant, IInv, History
<1>5. \A d \in Clients, n \in 1 .. Latest : Safe(d, n) => Safe(d, n)'
  BY <1>1, <1>2, <1>3, <1>4 DEF Safe, Recovering, LoadCovers
<1>12. \A d \in Clients : Repairs(d)'
  BY <1>1 DEF IInv, ClientInv, Repairs
<1>6. \A d \in Clients : Recovering(d) \/ LoadCovers(d, 0) =>
                         (Recovering(d) \/ LoadCovers(d, 0))'
  BY <1>1, <1>3 DEF Recovering, LoadCovers
<1>7. ASSUME NEW d \in Clients PROVE CursorPromise(d)'
  <2>1. tab[d].lastEventId \in Nat
    BY DEF IInv, TypeOK
  <2>2. CursorPromise(d)
    BY DEF IInv, ClientInv
  <2> QED BY <1>1, <1>2, <1>3, <1>5, <2>1, <2>2 DEF CursorPromise
<1>8. ASSUME NEW d \in Clients, ~conn[d].live PROVE ClientInv(d)'
  <2>1. conn'[d] = conn[d] /\ wire'[d] = wire[d] /\ tab'[d] = tab[d] /\ behind' = behind
    BY <1>1, <1>8
  <2>2. ~Attached(d) /\ ~Attached(d)'
    BY <1>8, <2>1 DEF Attached
  <2>3. Handshake(d)'
    <3>1. Handshake(d) /\ buffer'.generation = buffer.generation /\ ~conn'[d].live
      BY <1>3, <1>8, <2>1 DEF IInv, ClientInv
    <3> QED BY <1>8, <2>1, <2>2, <3>1 DEF Handshake, Kind
  <2>4. Told(d)'
    BY <1>1, <1>3, <1>6, <2>1, <2>2 DEF IInv, ClientInv, Told
  <2> QED BY <1>7, <1>12, <2>2, <2>3, <2>4 DEF ClientInv
<1>9. ASSUME NEW d \in Clients, conn[d].live
      PROVE  /\ Handshake(d)'
             /\ conn'[d].cursor = out(d).cursor
             /\ wire'[d] = wire[d] \o out(d).messages
             /\ Attached(d)' = Attached(d)
  <2>1. /\ conn'[d].live /\ conn'[d].generation = conn[d].generation
        /\ conn'[d].cursor = out(d).cursor
        /\ wire'[d] = wire[d] \o out(d).messages
    <3>1. conn[d] \in [live : BOOLEAN, cursor : Nat, generation : Generations]
      BY DEF IInv, TypeOK
    <3>2. /\ conn'[d] = [conn[d] EXCEPT !.cursor = out(d).cursor]
          /\ wire'[d] = wire[d] \o out(d).messages
      BY <1>1, <1>9
    <3> HIDE DEF out
    <3> QED BY <1>9, <3>1, <3>2
  <2>2. /\ out(d).messages \in Seq(Message)
        /\ \A i \in 1 .. Len(out(d).messages) : out(d).messages[i].type # "connected"
    <3>1. conn[d].cursor \in Nat /\ FALSE \in BOOLEAN
      BY DEF IInv, TypeOK
    <3>2. IsBuffer(pushed, Generations, Events)
      BY <1>3
    <3> HIDE DEF pushed
    <3>3. Flush(pushed, conn[d].cursor, FALSE).messages \in Seq(Message)
      BY <3>1, <3>2, FlushTyped
    <3>4. LET messages == Flush(pushed, conn[d].cursor, FALSE).messages
          IN  \A i \in 1 .. Len(messages) : messages[i].type # "connected"
      BY <3>1, <3>2, FlushKinds
    <3> QED BY <3>3, <3>4
  <2>3. /\ out(d).messages \in Seq(Message)
        /\ \A i \in 1 .. Len(out(d).messages) : out(d).messages[i].type # "connected"
    BY <2>2
  <2> HIDE DEF out
  <2>4. Handshake(d)'
    BY <1>1, <1>3, <1>9, <2>1, <2>2, <2>3, AppendHandshake DEF IInv, ClientInv
  <2>5. Attached(d)' = Attached(d)
    BY <1>1, <1>3, <1>9, <2>1 DEF Attached
  <2> QED BY <2>1, <2>4, <2>5
<1>10. ASSUME NEW d \in Clients, conn[d].live, ~Attached(d) PROVE ClientInv(d)'
  <2>1. tab'[d].streamGeneration # buffer'.generation
    BY <1>1, <1>3, <1>10 DEF IInv, ClientInv, Handshake
  <2> QED BY <1>7, <1>9, <1>10, <1>12, <2>1 DEF ClientInv, Told
<1>11. ASSUME NEW d \in Clients, Attached(d) PROVE ClientInv(d)'
  <2>1. /\ conn[d].live /\ conn[d].cursor = buffer.nextSeq - 1
        /\ wire[d] \in Seq(Message)
    BY <1>11 DEF Attached, IInv, ClientInv, Ordered, Latest, TypeOK
  <2>2. out(d).cursor = buffer.nextSeq /\ out(d).messages = <<frames>>
    BY <1>3, <2>1, DispatchFlush
  <2> HIDE DEF out
  <2>3. /\ frames.type = "frames" /\ frames.generation = buffer.generation
        /\ frames.entries = {entry} /\ entry.seq = Latest + 1
        /\ entry.event = event
    BY <1>3 DEF Latest
  <2> HIDE DEF frames, entry
  <2>4. /\ Handshake(d)' /\ Attached(d)' /\ conn'[d].cursor = buffer.nextSeq
        /\ wire'[d] = wire[d] \o <<frames>>
    BY <1>9, <1>11, <2>1, <2>2
  <2>5. PICK len : len = Len(wire[d])
    OBVIOUS
  <2>6. /\ len \in Nat /\ Len(wire'[d]) = len + 1
        /\ \A i \in 1 .. len : wire'[d][i] = wire[d][i]
        /\ wire'[d][len + 1] = frames
        /\ wire[d] = <<>> <=> len = 0
    BY <2>1, <2>4, <2>5
  <2>7. \A i \in 1 .. len + 1 : i \in 1 .. len \/ i = len + 1
    BY <2>6
  <2>8. Ordered(d)'
    <3>1. Ordered(d)
      BY <1>11 DEF IInv, ClientInv
    <3>2. conn'[d].cursor = Latest' /\ Latest' = Latest + 1 /\ Latest \in Nat
      BY <1>2, <1>3, <2>4 DEF Latest
    <3>3. tab'[d] = tab[d] /\ buffer'.generation = buffer.generation
      BY <1>1, <1>3
    <3>4. tab[d].streamGeneration = buffer.generation => tab[d].lastEventId <= Latest
      BY DEF IInv, ClientInv, CursorPromise
    <3>5. /\ wire'[d] # <<>>
          /\ wire[d] = <<>> => Kind(d, 1)' = "frames"
          /\ wire[d] # <<>> => wire'[d][1] = wire[d][1]
      BY <2>3, <2>6 DEF Kind
    <3>6. \A i \in 1 .. len : wire[d][i] \in Message
      BY <2>1, <2>5
    <3>7. ASSUME NEW i \in 1 .. len + 1, Kind(d, i)' = "resync"
          PROVE  /\ wire'[d][i].id <= Latest'
                 /\ \A j \in 1 .. i - 1 : Kind(d, j)' # "frames"
                 /\ \A j \in i + 1 .. len + 1 : Kind(d, j)' = "frames" =>
                       \A f \in wire'[d][j].entries : wire'[d][i].id < f.seq
      <4>1. i \in 1 .. len /\ wire'[d][i] = wire[d][i] /\ wire[d][i].type = "resync"
        BY <2>3, <2>6, <2>7, <3>7 DEF Kind
      <4>2. wire[d][i].id \in Nat
        BY <3>6, <4>1 DEF Message
      <4>3. /\ wire[d][i].id <= Latest
            /\ \A j \in 1 .. i - 1 : wire[d][j].type # "frames"
            /\ \A j \in i + 1 .. len : wire[d][j].type = "frames" =>
                  \A f \in wire[d][j].entries : wire[d][i].id < f.seq
        BY <2>5, <3>1, <4>1 DEF Ordered, Kind
      <4>4. \A j \in 1 .. i - 1 : j \in 1 .. len
        BY <2>6, <4>1
      <4>5. \A j \in i + 1 .. len + 1 : (j \in i + 1 .. len /\ j \in 1 .. len) \/ j = len + 1
        BY <2>6, <4>1
      <4>6. \A f \in wire'[d][len + 1].entries : wire[d][i].id < f.seq
        BY <2>3, <2>6, <3>2, <4>2, <4>3
      <4>7. wire'[d][i].id <= Latest'
        BY <3>2, <4>1, <4>2, <4>3
      <4>8. \A j \in 1 .. i - 1 : Kind(d, j)' # "frames"
        BY <2>6, <4>3, <4>4 DEF Kind
      <4>9. ASSUME NEW j \in i + 1 .. len + 1, Kind(d, j)' = "frames",
                   NEW f \in wire'[d][j].entries
            PROVE  wire'[d][i].id < f.seq
        <5>1. CASE j = len + 1
          BY <4>1, <4>6, <4>9, <5>1
        <5>2. CASE j \in i + 1 .. len /\ j \in 1 .. len
          <6>1. wire'[d][j] = wire[d][j] /\ wire[d][j].type = "frames"
            BY <2>6, <4>9, <5>2 DEF Kind
          <6> QED BY <4>1, <4>3, <4>9, <5>2, <6>1
        <5> QED BY <4>5, <5>1, <5>2
      <4> QED BY <4>7, <4>8, <4>9
    <3>8. ASSUME NEW i \in 1 .. len + 1, Kind(d, i)' = "frames",
                 NEW e \in wire'[d][i].entries
          PROVE  /\ wire'[d][i].generation = buffer.generation
                 /\ e.seq <= Latest'
                 /\ \A f \in wire'[d][i].entries : f.seq = e.seq => f = e
                 /\ tab[d].streamGeneration = buffer.generation =>
                      e.seq > tab[d].lastEventId
                 /\ \A j \in 1 .. i - 1 : Kind(d, j)' = "frames" =>
                      \A f \in wire'[d][j].entries : f.seq < e.seq
      <4>1. \A j \in 1 .. len : wire[d][j].type = "frames" =>
               /\ wire[d][j].generation = buffer.generation
               /\ wire[d][j].entries \subseteq Entry
               /\ \A f \in wire[d][j].entries :
                     /\ f.seq \in Nat /\ f.seq <= Latest
                     /\ \A g \in wire[d][j].entries : g.seq = f.seq => g = f
                     /\ tab[d].streamGeneration = buffer.generation =>
                          f.seq > tab[d].lastEventId
                     /\ \A k \in 1 .. j - 1 : wire[d][k].type = "frames" =>
                          \A g \in wire[d][k].entries : g.seq < f.seq
        BY <2>5, <3>1, <3>6 DEF Ordered, Kind, Message, Entry
      <4>2. CASE i \in 1 .. len
        <5>1. \A j \in 1 .. i - 1 : j \in 1 .. len
          BY <2>6, <4>2
        <5>2. /\ wire'[d][i] = wire[d][i] /\ wire[d][i].type = "frames"
              /\ e \in wire[d][i].entries
          BY <2>6, <3>8, <4>2 DEF Kind
        <5>3. e.seq \in Nat /\ e.seq <= Latest'
          BY <3>2, <4>1, <4>2, <5>2
        <5>4. \A j \in 1 .. i - 1 : Kind(d, j)' = "frames" =>
                \A f \in wire'[d][j].entries : f.seq < e.seq
          BY <2>6, <4>1, <4>2, <5>1, <5>2 DEF Kind
        <5> QED BY <4>1, <4>2, <5>2, <5>3, <5>4
      <4>3. CASE i = len + 1
        <5>1. e = entry /\ e.seq = Latest + 1
          BY <2>3, <2>6, <3>8, <4>3
        <5>2. \A j \in 1 .. i - 1 : j \in 1 .. len
          BY <2>6, <4>3
        <5>3. tab[d].lastEventId \in Nat
          BY DEF IInv, TypeOK
        <5>4. ASSUME NEW j \in 1 .. i - 1, Kind(d, j)' = "frames",
                     NEW f \in wire'[d][j].entries
              PROVE  f.seq < e.seq
          <6>1. f.seq \in Nat /\ f.seq <= Latest
            BY <2>6, <4>1, <5>2, <5>4 DEF Kind
          <6> QED BY <3>2, <5>1, <6>1
        <5> QED BY <2>3, <2>6, <3>2, <3>4, <4>3, <5>1, <5>3, <5>4
      <4> QED BY <2>7, <4>2, <4>3
    <3>9. \A i \in 1 .. len + 1 : Kind(d, i)' = "frames" =>
            wire'[d][i].generation = buffer.generation
      BY <2>3, <2>5, <2>6, <2>7, <3>1 DEF Ordered, Kind
    <3> QED BY <2>6, <3>1, <3>2, <3>3, <3>5, <3>7, <3>8, <3>9 DEF Ordered, Kind
  <2>9. Covered(d)'
    <3>1. Covered(d)
      BY <1>11 DEF IInv, ClientInv
    <3>2. \A n : ResyncOnWire(d, n) => ResyncOnWire(d, n)'
      BY <2>5, <2>6 DEF ResyncOnWire, Kind
    <3>3. \A n : FrameOnWire(d, n) => FrameOnWire(d, n)'
      BY <2>5, <2>6 DEF FrameOnWire, Kind
    <3>4. \A n : n = Latest + 1 => FrameOnWire(d, n)'
      <4>1. len + 1 \in 1 .. Len(wire'[d]) /\ entry \in frames.entries
        BY <2>3, <2>6
      <4> QED BY <2>3, <2>6, <4>1 DEF FrameOnWire, Kind
    <3>5. \A n \in 1 .. Latest' : n \in 1 .. Latest \/ n = Latest + 1
      BY <1>2, <1>3
    <3> QED BY <1>5, <3>1, <3>2, <3>3, <3>4, <3>5 DEF Covered
  <2>10. Told(d)'
    <3>1. Told(d)
      BY DEF IInv, ClientInv
    <3>2. ResyncOnWire(d, 0) => ResyncOnWire(d, 0)'
      BY <2>5, <2>6 DEF ResyncOnWire, Kind
    <3> QED BY <1>1, <1>3, <1>6, <1>11, <3>1, <3>2 DEF Told
  <2>11. Genuine(d)'
    <3>1. Ordered(d) /\ Genuine(d)
      BY <1>11 DEF IInv, ClientInv
    <3>2. ASSUME NEW i \in 1 .. len, Kind(d, i)' = "frames",
                 NEW e \in wire'[d][i].entries
          PROVE  e.event = log'[e.seq]
      <4>1. /\ wire'[d][i] = wire[d][i] /\ wire[d][i].type = "frames"
            /\ wire[d][i] \in Message
        BY <2>1, <2>5, <2>6, <3>2 DEF Kind
      <4>2. e.seq \in Nat \ {0}
        BY <3>2, <4>1 DEF Message, Entry
      <4>3. e.seq <= Latest /\ e.event = log[e.seq]
        BY <2>5, <3>1, <3>2, <4>1 DEF Ordered, Genuine, Kind
      <4> QED BY <1>2, <1>3, <4>2, <4>3
    <3>3. \A e \in wire'[d][len + 1].entries : e.event = log'[e.seq]
      BY <1>2, <2>3, <2>6
    <3> QED BY <2>6, <2>7, <3>2, <3>3 DEF Genuine
  <2> QED BY <1>7, <1>12, <2>4, <2>8, <2>9, <2>10, <2>11 DEF ClientInv
<1> QED BY <1>2, <1>8, <1>10, <1>11

(* A flush of a cursor in range catches up, with one message at most.        *)
LEMMA FlushCatchesUp ==
  ASSUME NEW b, IsBuffer(b, Generations, Events), NEW cursor \in Nat,
         cursor <= b.nextSeq - 1, NEW firstTime \in BOOLEAN
  PROVE  LET out     == Flush(b, cursor, firstTime)
             entries == {e \in ReplaySince(b, cursor) : ShouldReplay(e.event, firstTime)}
         IN  /\ out.cursor = b.nextSeq - 1
             /\ \/ /\ Overflowed(b, cursor)
                   /\ out.messages = <<[type |-> "resync", id |-> b.nextSeq - 1]>>
                \/ /\ ~Overflowed(b, cursor) /\ entries = {} /\ out.messages = <<>>
                \/ /\ ~Overflowed(b, cursor) /\ entries # {}
                   /\ out.messages = <<[type |-> "frames", generation |-> b.generation,
                                        entries |-> entries]>>
<1> DEFINE replayed == ReplaySince(b, cursor)
           entries  == {e \in replayed : ShouldReplay(e.event, firstTime)}
           resync   == [type |-> "resync", id |-> LatestSequence(b)]
           frames   == [type |-> "frames", generation |-> b.generation,
                        entries |-> entries]
<1>1. PICK out : out = Flush(b, cursor, firstTime)
  OBVIOUS
<1>2. LatestSequence(b) = b.nextSeq - 1 /\ b.nextSeq \in Nat
  BY LatestIsLast DEF IsBuffer
<1>3. CASE Overflowed(b, cursor)
  <2>1. out = [cursor |-> LatestSequence(b), messages |-> <<resync>>]
    BY <1>1, <1>3 DEF Flush
  <2>2. resync = [type |-> "resync", id |-> b.nextSeq - 1]
    BY <1>2
  <2> HIDE DEF resync
  <2>3. out.cursor = b.nextSeq - 1 /\ out.messages = <<resync>>
    BY <1>2, <2>1
  <2> QED BY <1>1, <1>3, <2>2, <2>3
<1>4. CASE ~Overflowed(b, cursor)
  <2>1. PICK messages : messages = IF entries = {} THEN <<>> ELSE <<frames>>
    OBVIOUS
  <2>2. out = [cursor |-> IF replayed = {} THEN cursor ELSE LatestSequence(b),
               messages |-> messages]
    BY <1>1, <1>4, <2>1 DEF Flush
  <2>3. replayed = {} => cursor = b.nextSeq - 1
    <3>1. SUFFICES ASSUME cursor # b.nextSeq - 1 PROVE replayed # {}
      OBVIOUS
    <3>2. b.nextSeq - 1 \in cursor + 1 .. b.nextSeq - 1
      BY <1>2, <3>1
    <3> QED BY <1>4, <3>2, ReplayContents
  <2> HIDE DEF replayed, entries, frames
  <2>4. out.cursor = b.nextSeq - 1 /\ out.messages = messages
    BY <1>2, <2>2, <2>3
  <2> QED BY <1>1, <1>4, <2>1, <2>4 DEF entries, frames, replayed
<1> QED BY <1>3, <1>4

(* Where a connection starts: at the end of the stream with a resync, at the *)
(* tab's own cursor into this stream, or, for a new tab, at its beginning.   *)
LEMMA SourceCases ==
  ASSUME NEW c \in Clients, TypeOK, Handshake(c)
  PROVE  LET source == StreamSource(buffer, tab[c].streamGeneration, tab[c].lastEventId)
         IN  /\ source.cursorReset \in BOOLEAN
             /\ source.replayFrom \in Nat /\ source.replayFrom <= Latest
             /\ \/ source.cursorReset
                \/ /\ ~source.cursorReset
                   /\ tab[c].streamGeneration = buffer.generation
                   /\ tab[c].lastEventId > 0
                   /\ source.replayFrom = tab[c].lastEventId
                   /\ ~Overflowed(buffer, source.replayFrom)
                \/ /\ ~source.cursorReset
                   /\ tab[c].streamGeneration = NoGeneration
                   /\ tab[c].lastEventId = 0
                   /\ source.replayFrom = 0
<1> DEFINE g == tab[c].streamGeneration
           r == tab[c].lastEventId
           canResume == /\ g \in {NoGeneration, buffer.generation} /\ r > 0
                        /\ r <= LatestSequence(buffer)
                        /\ ~Overflowed(buffer, r)
           cursorReset == (g # NoGeneration \/ r > 0) /\ ~canResume
           replayFrom == IF canResume THEN r
                         ELSE IF cursorReset THEN LatestSequence(buffer) ELSE 0
<1>1. LatestSequence(buffer) = Latest /\ Latest \in Nat /\ r \in Nat
  BY LatestIsLast DEF TypeOK, Latest
<1>2. PICK source : source = StreamSource(buffer, g, r)
  OBVIOUS
<1>3. source = [cursorReset |-> cursorReset, replayFrom |-> replayFrom]
  BY <1>2 DEF StreamSource
<1>4. g = NoGeneration => r = 0
  BY DEF Handshake
<1>5. source.cursorReset = cursorReset /\ source.replayFrom = replayFrom
  BY <1>3
<1>6. cursorReset \in BOOLEAN
  OBVIOUS
<1>7. replayFrom \in Nat /\ replayFrom <= Latest
  BY <1>1
<1>8. CASE canResume
  BY <1>1, <1>2, <1>4, <1>5, <1>7, <1>8
<1>9. CASE ~canResume
  BY <1>1, <1>2, <1>4, <1>5, <1>6, <1>7, <1>9
<1> QED BY <1>8, <1>9

(* Appending to a message.                                                   *)
LEMMA AppendOne ==
  ASSUME NEW S, NEW a \in S, NEW b \in S
  PROVE  /\ Len(<<a>> \o <<>> \o <<>>) = 1 /\ (<<a>> \o <<>> \o <<>>)[1] = a
         /\ Len(<<a>> \o <<b>> \o <<>>) = 2 /\ (<<a>> \o <<b>> \o <<>>)[1] = a
         /\ (<<a>> \o <<b>> \o <<>>)[2] = b
         /\ Len(<<a>> \o <<>> \o <<b>>) = 2 /\ (<<a>> \o <<>> \o <<b>>)[1] = a
         /\ (<<a>> \o <<>> \o <<b>>)[2] = b
OBVIOUS

(* What a fresh connection has on its wire: `connected`, then at most one    *)
(* message, which is a resync or the frames after the starting point.        *)
LEMMA ConnectWire ==
  ASSUME NEW c \in Clients, IInv, Connect(c)
  PROVE  LET source == StreamSource(buffer, tab[c].streamGeneration, tab[c].lastEventId)
             first  == source.replayFrom = 0 /\ ~source.cursorReset
             due == ReplaySince(buffer, source.replayFrom)
             w      == wire'[c]
         IN  /\ conn'[c] = [live |-> TRUE, cursor |-> Latest,
                            generation |-> buffer.generation]
             /\ Len(w) \in 1 .. 2
             /\ w[1] = [type |-> "connected", generation |-> buffer.generation,
                        cursorReset |-> source.cursorReset]
             /\ \/ Len(w) = 2 /\ w[2] = [type |-> "resync", id |-> Latest]
                \/ /\ Len(w) = 2 /\ ~source.cursorReset
                   /\ ~Overflowed(buffer, source.replayFrom)
                   /\ w[2] = [type |-> "frames", generation |-> buffer.generation,
                              entries |-> {e \in due : ShouldReplay(e.event, first)}]
                \/ /\ Len(w) = 1 /\ ~source.cursorReset
                   /\ ~Overflowed(buffer, source.replayFrom)
                   /\ {e \in due : ShouldReplay(e.event, first)} = {}
<1>1. PICK source, first, due, entries, hello, resync, frames :
        /\ source = StreamSource(buffer, tab[c].streamGeneration, tab[c].lastEventId)
        /\ first = (source.replayFrom = 0 /\ ~source.cursorReset)
        /\ due = ReplaySince(buffer, source.replayFrom)
        /\ entries = {e \in due : ShouldReplay(e.event, first)}
        /\ hello = [type |-> "connected", generation |-> buffer.generation,
                    cursorReset |-> source.cursorReset]
        /\ resync = [type |-> "resync", id |-> Latest]
        /\ frames = [type |-> "frames", generation |-> buffer.generation,
                     entries |-> entries]
  OBVIOUS
<1>2. PICK out : out = Flush(buffer, source.replayFrom, first)
  OBVIOUS
<1>3. /\ source.cursorReset \in BOOLEAN /\ first \in BOOLEAN
      /\ source.replayFrom \in Nat /\ source.replayFrom <= Latest
      /\ IsBuffer(buffer, Generations, Events) /\ LatestSequence(buffer) = Latest
      /\ Latest \in Nat
      /\ source.cursorReset => source.replayFrom = Latest
  <2>1. IsBuffer(buffer, Generations, Events) /\ LatestSequence(buffer) = Latest
        /\ Latest \in Nat
    BY LatestIsLast DEF IInv, TypeOK, Latest
  <2>2. /\ source.cursorReset \in BOOLEAN
        /\ source.replayFrom \in Nat /\ source.replayFrom <= Latest
    BY <1>1, SourceCases DEF IInv, ClientInv
  <2>3. source.cursorReset => source.replayFrom = LatestSequence(buffer)
    BY <1>1 DEF StreamSource
  <2>4. first \in BOOLEAN
    BY <1>1
  <2> QED BY <2>1, <2>2, <2>3, <2>4
<1>4. PICK reset : reset = IF source.cursorReset THEN <<resync>> ELSE <<>>
  OBVIOUS
<1>5. /\ conn'[c] = [live |-> TRUE, cursor |-> out.cursor, generation |-> buffer.generation]
      /\ wire'[c] = <<hello>> \o reset \o out.messages
  <2>1. source.cursorReset => resync = [type |-> "resync", id |-> source.replayFrom]
    BY <1>1, <1>3
  <2> QED BY <1>1, <1>2, <1>4, <2>1 DEF Connect, IInv, TypeOK
<1>6. /\ out.cursor = Latest
      /\ \/ Overflowed(buffer, source.replayFrom) /\ out.messages = <<resync>>
         \/ /\ ~Overflowed(buffer, source.replayFrom) /\ entries = {}
            /\ out.messages = <<>>
         \/ /\ ~Overflowed(buffer, source.replayFrom) /\ entries # {}
            /\ out.messages = <<frames>>
  <2>1. buffer.nextSeq - 1 = Latest
    BY DEF Latest
  <2>2. source.replayFrom <= buffer.nextSeq - 1
    BY <1>3, <2>1
  <2>3. /\ out.cursor = buffer.nextSeq - 1
        /\ \/ /\ Overflowed(buffer, source.replayFrom)
              /\ out.messages = <<[type |-> "resync", id |-> buffer.nextSeq - 1]>>
           \/ /\ ~Overflowed(buffer, source.replayFrom)
              /\ {e \in ReplaySince(buffer, source.replayFrom) :
                    ShouldReplay(e.event, first)} = {}
              /\ out.messages = <<>>
           \/ /\ ~Overflowed(buffer, source.replayFrom)
              /\ {e \in ReplaySince(buffer, source.replayFrom) :
                    ShouldReplay(e.event, first)} # {}
              /\ out.messages = <<[type |-> "frames", generation |-> buffer.generation,
                    entries |-> {e \in ReplaySince(buffer, source.replayFrom) :
                                  ShouldReplay(e.event, first)}]>>
    BY <1>2, <1>3, <2>2, FlushCatchesUp
  <2> QED BY <1>1, <2>1, <2>3
<1>7. source.cursorReset => out.messages = <<>>
  <2>1. SUFFICES ASSUME source.cursorReset PROVE out.messages = <<>>
    OBVIOUS
  <2>2. source.replayFrom = Latest
    BY <1>3, <2>1
  <2>3. due = {}
    <3>1. buffer.nextSeq - 1 = Latest
      BY DEF Latest
    <3>2. \A e \in due : e \in Entry /\ e.seq > Latest /\ e.seq <= buffer.nextSeq - 1
      BY <1>1, <1>3, <2>2, ReplayContents
    <3> QED BY <1>3, <3>1, <3>2 DEF Entry
  <2>4. ~Overflowed(buffer, source.replayFrom)
    <3>1. PICK b : b = buffer
      OBVIOUS
    <3>2. /\ b.entries # <<>> => b.entries[1].seq = (b.nextSeq - 1 - Len(b.entries)) + 1
          /\ b.nextSeq \in Nat /\ Len(b.entries) \in Nat
          /\ b.entries # <<>> => Len(b.entries) > 0
      BY <1>3, <3>1 DEF IsBuffer
    <3>3. Latest = b.nextSeq - 1
      BY <3>1 DEF Latest
    <3> QED BY <1>3, <2>2, <3>1, <3>2, <3>3 DEF Overflowed
  <2>5. entries = {}
    BY <1>1, <2>3
  <2> QED BY <1>6, <2>4, <2>5
<1>8. /\ conn'[c] = [live |-> TRUE, cursor |-> Latest, generation |-> buffer.generation]
      /\ Len(wire'[c]) \in 1 .. 2
      /\ wire'[c][1] = hello
      /\ \/ Len(wire'[c]) = 2 /\ wire'[c][2] = resync
         \/ /\ Len(wire'[c]) = 2 /\ ~source.cursorReset
            /\ ~Overflowed(buffer, source.replayFrom)
            /\ wire'[c][2] = frames
         \/ /\ Len(wire'[c]) = 1 /\ ~source.cursorReset
            /\ ~Overflowed(buffer, source.replayFrom)
            /\ entries = {}
  <2>0. conn'[c] = [live |-> TRUE, cursor |-> Latest, generation |-> buffer.generation]
    BY <1>5, <1>6
  <2>1. CASE source.cursorReset
    <3>1. wire'[c] = <<hello>> \o <<resync>> \o <<>>
      BY <1>4, <1>5, <1>7, <2>1
    <3>2. Len(wire'[c]) = 2 /\ wire'[c][1] = hello /\ wire'[c][2] = resync
      BY <3>1, AppendOne
    <3> QED BY <2>0, <3>2
  <2>2. CASE ~source.cursorReset /\ out.messages = <<>>
    <3>1. wire'[c] = <<hello>> \o <<>> \o <<>>
      BY <1>4, <1>5, <2>2
    <3>2. Len(wire'[c]) = 1 /\ wire'[c][1] = hello
      BY <3>1, AppendOne
    <3>3. <<resync>> # <<>> /\ <<frames>> # <<>>
      OBVIOUS
    <3> QED BY <1>5, <1>6, <2>2, <3>2, <3>3
  <2>3. CASE ~source.cursorReset /\ out.messages = <<resync>>
    <3>1. wire'[c] = <<hello>> \o <<>> \o <<resync>>
      BY <1>4, <1>5, <2>3
    <3>2. Len(wire'[c]) = 2 /\ wire'[c][1] = hello /\ wire'[c][2] = resync
      BY <3>1, AppendOne
    <3> QED BY <2>0, <3>2
  <2>4. CASE /\ ~source.cursorReset /\ ~Overflowed(buffer, source.replayFrom)
             /\ out.messages = <<frames>>
    <3>1. wire'[c] = <<hello>> \o <<>> \o <<frames>>
      BY <1>4, <1>5, <2>4
    <3>2. Len(wire'[c]) = 2 /\ wire'[c][1] = hello /\ wire'[c][2] = frames
      BY <3>1, AppendOne
    <3> QED BY <1>5, <1>6, <2>4, <3>2
  <2> QED BY <1>3, <1>6, <2>1, <2>2, <2>3, <2>4
<1> QED BY <1>1, <1>8

LEMMA ConnectStep ==
  ASSUME NEW c \in Clients, IInv, Connect(c)
  PROVE  \A d \in Clients : ClientInv(d)'
<1>1. /\ UNCHANGED <<bridge, tab, asked, loaded, history>>
      /\ \A d \in Clients : d # c => conn'[d] = conn[d] /\ wire'[d] = wire[d]
  BY DEF Connect, IInv, TypeOK
<1>2. ASSUME NEW d \in Clients, d # c PROVE ClientInv(d)'
  BY <1>1, <1>2, OtherClient DEF IInv
<1>3. PICK source, first, due, hello, resync, frames :
        /\ source = StreamSource(buffer, tab[c].streamGeneration, tab[c].lastEventId)
        /\ first = (source.replayFrom = 0 /\ ~source.cursorReset)
        /\ due = ReplaySince(buffer, source.replayFrom)
        /\ hello = [type |-> "connected", generation |-> buffer.generation,
                    cursorReset |-> source.cursorReset]
        /\ resync = [type |-> "resync", id |-> Latest]
        /\ frames = [type |-> "frames", generation |-> buffer.generation,
                     entries |-> {e \in due : ShouldReplay(e.event, first)}]
  OBVIOUS
<1>4. /\ conn'[c] = [live |-> TRUE, cursor |-> Latest, generation |-> buffer.generation]
      /\ Len(wire'[c]) \in 1 .. 2
      /\ wire'[c][1] = hello
      /\ \/ Len(wire'[c]) = 2 /\ wire'[c][2] = resync
         \/ /\ Len(wire'[c]) = 2 /\ ~source.cursorReset
            /\ ~Overflowed(buffer, source.replayFrom)
            /\ wire'[c][2] = frames
         \/ /\ Len(wire'[c]) = 1 /\ ~source.cursorReset
            /\ ~Overflowed(buffer, source.replayFrom)
            /\ {e \in due : ShouldReplay(e.event, first)} = {}
  BY <1>3, ConnectWire
<1>5. /\ source.cursorReset \in BOOLEAN
      /\ source.replayFrom \in Nat /\ source.replayFrom <= Latest
      /\ \/ source.cursorReset
         \/ /\ ~source.cursorReset
            /\ tab[c].streamGeneration = buffer.generation
            /\ tab[c].lastEventId > 0
            /\ source.replayFrom = tab[c].lastEventId
            /\ ~Overflowed(buffer, source.replayFrom)
         \/ /\ ~source.cursorReset
            /\ tab[c].streamGeneration = NoGeneration
            /\ tab[c].lastEventId = 0
            /\ source.replayFrom = 0
  BY <1>3, SourceCases DEF IInv, ClientInv
<1>6. /\ hello.type = "connected" /\ hello.generation = buffer.generation
      /\ hello.cursorReset = source.cursorReset
      /\ resync.type = "resync" /\ resync.id = Latest
      /\ frames.type = "frames" /\ frames.generation = buffer.generation
      /\ frames.entries = {e \in due : ShouldReplay(e.event, first)}
  BY <1>3
<1>7. /\ IsBuffer(buffer, Generations, Events) /\ Latest \in Nat
      /\ buffer.nextSeq - 1 = Latest
      /\ buffer.generation # NoGeneration /\ buffer.generation \in Nat
      /\ Len(log) = Latest
  BY LatestIsLast DEF IInv, TypeOK, IsBuffer, Generations, NoGeneration, Latest, History
<1>8. /\ \A e \in due : /\ e.seq \in Nat /\ e.seq > source.replayFrom
                           /\ e.seq <= Latest
                           /\ \E i \in 1 .. Len(buffer.entries) : e = buffer.entries[i]
      /\ \A e, f \in due : f.seq = e.seq => f = e
      /\ ~Overflowed(buffer, source.replayFrom) =>
           \A n \in source.replayFrom + 1 .. Latest : \E e \in due : e.seq = n
  <2>1. /\ \A e \in ReplaySince(buffer, source.replayFrom) :
             e \in Entry /\ e.seq > source.replayFrom /\ e.seq <= buffer.nextSeq - 1
        /\ \A e \in ReplaySince(buffer, source.replayFrom) :
             \E i \in 1 .. Len(buffer.entries) : e = buffer.entries[i]
        /\ \A e, f \in ReplaySince(buffer, source.replayFrom) : f.seq = e.seq => f = e
        /\ ~Overflowed(buffer, source.replayFrom) =>
             \A n \in source.replayFrom + 1 .. buffer.nextSeq - 1 :
               \E e \in ReplaySince(buffer, source.replayFrom) : e.seq = n
    BY <1>5, <1>7, ReplayContents
  <2> QED BY <1>3, <1>7, <2>1 DEF Entry
<1>9. Attached(c)' /\ conn'[c].cursor = Latest /\ conn'[c].live
  BY <1>1, <1>4 DEF Attached
<1>10. \A i \in 1 .. Len(wire'[c]) : i = 1 \/ (i = 2 /\ Len(wire'[c]) = 2)
  <2>1. PICK len : len = Len(wire'[c])
    OBVIOUS
  <2>2. len = 1 \/ len = 2
    BY <1>4, <2>1
  <2>3. \A i \in 1 .. len : i = 1 \/ (i = 2 /\ len = 2)
    BY <2>2
  <2> QED BY <2>1, <2>3
<1>11. Handshake(c)'
  <2>1. Handshake(c)
    BY DEF IInv, ClientInv
  <2>2. conn'[c].generation = buffer.generation /\ wire'[c] # <<>>
    BY <1>4
  <2>3. \A i \in 1 .. Len(wire'[c]) : Kind(c, i)' = "connected" => i = 1
    BY <1>4, <1>6, <1>10 DEF Kind
  <2>4. Kind(c, 1)' = "connected" /\ wire'[c][1].generation = buffer.generation
    BY <1>4, <1>6 DEF Kind
  <2> QED BY <1>1, <1>7, <1>9, <2>1, <2>2, <2>3, <2>4 DEF Handshake
<1>12. Latest' = Latest /\ \A n : Safe(c, n)' = Safe(c, n)
  BY <1>1 DEF Latest, Safe, Relevant, Pending, Recovering, LoadCovers
<1>13. Ordered(c)'
  <2>1. Kind(c, 1)' = "connected"
    BY <1>4, <1>6 DEF Kind
  <2>2. ~wire'[c][1].cursorReset =>
          tab[c].streamGeneration \in {NoGeneration, buffer.generation}
    BY <1>4, <1>5, <1>6
  <2>3. ASSUME NEW i \in 1 .. Len(wire'[c]), Kind(c, i)' = "resync"
        PROVE  /\ wire'[c][i].id <= Latest
               /\ \A j \in 1 .. i - 1 : Kind(c, j)' # "frames"
               /\ \A j \in i + 1 .. Len(wire'[c]) : Kind(c, j)' = "frames" =>
                     \A f \in wire'[c][j].entries : wire'[c][i].id < f.seq
    <3>1. i = 2 /\ Len(wire'[c]) = 2 /\ wire'[c][2] = resync
      BY <1>4, <1>6, <1>10, <2>3 DEF Kind
    <3>2. \A j \in 1 .. i - 1 : j = 1
      BY <3>1
    <3>3. \A j \in i + 1 .. Len(wire'[c]) : FALSE
      BY <3>1
    <3> QED BY <1>6, <1>7, <2>1, <3>1, <3>2, <3>3
  <2>4. ASSUME NEW i \in 1 .. Len(wire'[c]), Kind(c, i)' = "frames"
        PROVE  /\ wire'[c][i].generation = buffer.generation
               /\ \A e \in wire'[c][i].entries :
                     /\ e.seq <= Latest
                     /\ \A f \in wire'[c][i].entries : f.seq = e.seq => f = e
                     /\ tab[c].streamGeneration = buffer.generation =>
                          e.seq > tab[c].lastEventId
                     /\ \A j \in 1 .. i - 1 : Kind(c, j)' = "frames" =>
                           \A f \in wire'[c][j].entries : f.seq < e.seq
    <3>1. /\ i = 2 /\ ~source.cursorReset /\ wire'[c][2] = frames
      BY <1>4, <1>6, <1>10, <2>4 DEF Kind
    <3>2. \A j \in 1 .. i - 1 : j = 1
      BY <3>1
    <3>3. \A e \in frames.entries :
            /\ e.seq <= Latest /\ e.seq > source.replayFrom
            /\ \A f \in frames.entries : f.seq = e.seq => f = e
      BY <1>6, <1>8
    <3>4. tab[c].streamGeneration = buffer.generation =>
            source.replayFrom = tab[c].lastEventId
      BY <1>5, <1>7, <3>1
    <3> QED BY <1>6, <2>1, <3>1, <3>2, <3>3, <3>4
  <2> QED BY <1>1, <1>4, <1>9, <1>12, <2>1, <2>2, <2>3, <2>4 DEF Ordered
<1>14. source.cursorReset \/ Overflowed(buffer, source.replayFrom) =>
         \A n \in 0 .. Latest : ResyncOnWire(c, n)'
  BY <1>4, <1>6 DEF ResyncOnWire, Kind
<1>15. Covered(c)'
  <2>1. SUFFICES ASSUME ~source.cursorReset, ~Overflowed(buffer, source.replayFrom),
                        NEW n \in 1 .. Latest, ~ResyncOnWire(c, n)'
                 PROVE  Safe(c, n) \/ FrameOnWire(c, n)'
    <3>1. \A n \in 1 .. Latest : n \in 0 .. Latest
      BY <1>7
    <3> QED BY <1>12, <1>14, <3>1 DEF Covered
  <2>2. CASE n <= source.replayFrom
    <3>1. /\ tab[c].streamGeneration = buffer.generation
          /\ n \in 1 .. tab[c].lastEventId
      BY <1>5, <2>1, <2>2
    <3> QED BY <3>1 DEF IInv, ClientInv, CursorPromise
  <2>3. CASE n > source.replayFrom
    <3>1. n \in source.replayFrom + 1 .. Latest
      BY <1>5, <1>7, <2>1, <2>3
    <3>2. PICK e \in due : e.seq = n
      BY <1>8, <2>1, <3>1
    <3>3. CASE ShouldReplay(e.event, first)
      <4>1. e \in {x \in due : ShouldReplay(x.event, first)}
        BY <3>2, <3>3
      <4>2. Len(wire'[c]) = 2 /\ wire'[c][2] = frames
        <5>1. 2 \in 1 .. 2 /\ n <= Latest
          BY <1>7
        <5> QED BY <1>4, <1>6, <2>1, <4>1, <5>1 DEF ResyncOnWire, Kind
      <4> QED BY <1>6, <3>2, <4>1, <4>2 DEF FrameOnWire, Kind
    <3>4. CASE ~ShouldReplay(e.event, first)
      <4>1. e.event \in Questions \ Pending
        BY <3>4 DEF ShouldReplay
      <4>2. e.event = log[n]
        BY <1>8, <3>2 DEF IInv, History
      <4> QED BY <4>1, <4>2 DEF Safe, Relevant
    <3> QED BY <3>3, <3>4
  <2> QED BY <1>5, <2>2, <2>3
<1>16. CursorPromise(c)'
  <2>1. CursorPromise(c)
    BY DEF IInv, ClientInv
  <2> QED BY <1>1, <1>12, <2>1 DEF CursorPromise
<1>17. Told(c)'
  <2>1. Told(c) /\ (tab[c].streamGeneration = NoGeneration => c \notin behind)
    BY DEF IInv, ClientInv, Handshake
  <2>2. /\ Recovering(c)' = Recovering(c) /\ LoadCovers(c, 0)' = LoadCovers(c, 0)
    BY <1>1 DEF Recovering, LoadCovers
  <2>3. 0 \in 0 .. Latest
    BY <1>7
  <2> QED BY <1>1, <1>5, <1>14, <2>1, <2>2, <2>3 DEF Told
<1>19. Genuine(c)'
  <2>1. ASSUME NEW i \in 1 .. Len(wire'[c]), Kind(c, i)' = "frames",
               NEW e \in wire'[c][i].entries
        PROVE  e.event = log[e.seq]
    <3>1. i = 2 /\ wire'[c][2] = frames
      BY <1>4, <1>6, <1>10, <2>1 DEF Kind
    <3>2. e \in due
      BY <1>6, <2>1, <3>1
    <3> QED BY <1>8, <3>2 DEF IInv, History
  <2> QED BY <1>1, <2>1 DEF Genuine
<1>20. Repairs(c)'
  BY <1>1 DEF IInv, ClientInv, Repairs
<1>18. ClientInv(c)'
  BY <1>11, <1>13, <1>15, <1>16, <1>17, <1>19, <1>20 DEF ClientInv
<1> QED BY <1>2, <1>18

(* What the wire looks like after its first message was read.                *)
LEMMA ReadHead ==
  ASSUME NEW c \in Clients, IInv, wire[c] # <<>>, wire'[c] = Tail(wire[c])
  PROVE  /\ conn[c].live
         /\ wire[c] \in Seq(Message) /\ Head(wire[c]) \in Message
         /\ Head(wire[c]) = wire[c][1] /\ 1 \in 1 .. Len(wire[c])
         /\ Len(wire'[c]) = Len(wire[c]) - 1 /\ Len(wire[c]) \in Nat
         /\ \A i \in 1 .. Len(wire'[c]) :
              /\ i + 1 \in 1 .. Len(wire[c])
              /\ wire'[c][i] = wire[c][i + 1]
              /\ Kind(c, i)' = Kind(c, i + 1)
              /\ Kind(c, i)' # "connected"
<1>1. wire[c] \in Seq(Message)
  BY DEF IInv, TypeOK
<1>2. conn[c].live
  BY DEF IInv, ClientInv, Handshake
<1>3. PICK len : len = Len(wire[c])
  OBVIOUS
<1>4. /\ len \in Nat /\ len > 0 /\ Len(wire'[c]) = len - 1
      /\ \A i \in 1 .. len - 1 : wire'[c][i] = wire[c][i + 1]
      /\ Head(wire[c]) \in Message /\ Head(wire[c]) = wire[c][1]
  BY <1>1, <1>3
<1>5. \A i \in 1 .. len - 1 : i + 1 \in 1 .. len /\ i + 1 # 1
  BY <1>4
<1>6. \A i \in 1 .. len - 1 : Kind(c, i)' = Kind(c, i + 1)
  BY <1>4 DEF Kind
<1>7. \A i \in 1 .. len - 1 : Kind(c, i + 1) # "connected"
  BY <1>3, <1>5 DEF IInv, ClientInv, Handshake
<1> QED BY <1>1, <1>2, <1>3, <1>4, <1>5, <1>6, <1>7

(* The order of the wire survives the reading of its first message, for a    *)
(* cursor that does not pass what is left.                                   *)
LEMMA ReadHeadOrdered ==
  ASSUME NEW c \in Clients, IInv, wire[c] # <<>>, wire'[c] = Tail(wire[c]),
         Ordered(c), UNCHANGED buffer, conn'[c] = conn[c],
         tab'[c].streamGeneration = buffer.generation,
         \A i \in 1 .. Len(wire'[c]) : Kind(c, i)' = "frames" =>
           \A e \in wire'[c][i].entries : e.seq > tab'[c].lastEventId
  PROVE  Ordered(c)'
<1>1. PICK len : len = Len(wire'[c])
  OBVIOUS
<1>2. /\ len \in Nat /\ Len(wire[c]) = len + 1
      /\ \A i \in 1 .. len : /\ i + 1 \in 1 .. len + 1
                             /\ wire'[c][i] = wire[c][i + 1]
                             /\ Kind(c, i)' = Kind(c, i + 1)
                             /\ Kind(c, i)' # "connected"
  BY <1>1, ReadHead
<1>3. Latest' = Latest
  BY DEF Latest
<1>4. wire'[c] # <<>> => Kind(c, 1)' # "connected"
  <2>1. CASE len = 0
    <3>1. wire[c] \in Seq(Message)
      BY ReadHead
    <3>2. wire'[c] \in Seq(Message)
      BY <3>1
    <3>3. wire'[c] = <<>>
      BY <1>1, <2>1, <3>2, EmptySeq
    <3> QED BY <3>3
  <2>2. CASE len # 0
    BY <1>2, <2>2
  <2> QED BY <2>1, <2>2
<1>5. ASSUME NEW i \in 1 .. len, Kind(c, i)' = "resync"
      PROVE  /\ wire'[c][i].id <= Latest
             /\ \A j \in 1 .. i - 1 : Kind(c, j)' # "frames"
             /\ \A j \in i + 1 .. len : Kind(c, j)' = "frames" =>
                   \A f \in wire'[c][j].entries : wire'[c][i].id < f.seq
  <2>1. /\ wire[c][i + 1].id <= Latest
        /\ \A j \in 1 .. (i + 1) - 1 : Kind(c, j) # "frames"
        /\ \A j \in (i + 1) + 1 .. len + 1 : Kind(c, j) = "frames" =>
              \A f \in wire[c][j].entries : wire[c][i + 1].id < f.seq
    BY <1>2, <1>5 DEF Ordered
  <2>2. \A j \in 1 .. i - 1 : j \in 1 .. len /\ j + 1 \in 1 .. (i + 1) - 1
    BY <1>2
  <2>3. \A j \in i + 1 .. len : j \in 1 .. len /\ j + 1 \in (i + 1) + 1 .. len + 1
    BY <1>2
  <2> QED BY <1>2, <2>1, <2>2, <2>3
<1>6. ASSUME NEW i \in 1 .. len, Kind(c, i)' = "frames"
      PROVE  /\ wire'[c][i].generation = buffer.generation
             /\ \A e \in wire'[c][i].entries :
                   /\ e.seq <= Latest
                   /\ \A f \in wire'[c][i].entries : f.seq = e.seq => f = e
                   /\ \A j \in 1 .. i - 1 : Kind(c, j)' = "frames" =>
                         \A f \in wire'[c][j].entries : f.seq < e.seq
  <2>1. /\ wire[c][i + 1].generation = buffer.generation
        /\ \A e \in wire[c][i + 1].entries :
              /\ e.seq <= Latest
              /\ \A f \in wire[c][i + 1].entries : f.seq = e.seq => f = e
              /\ \A j \in 1 .. (i + 1) - 1 : Kind(c, j) = "frames" =>
                    \A f \in wire[c][j].entries : f.seq < e.seq
    BY <1>2, <1>6 DEF Ordered
  <2>2. \A j \in 1 .. i - 1 : j \in 1 .. len /\ j + 1 \in 1 .. (i + 1) - 1
    BY <1>2
  <2> QED BY <1>2, <2>1, <2>2
<1> QED BY <1>1, <1>3, <1>4, <1>5, <1>6 DEF Ordered

LEMMA ReadHeadWire ==
  ASSUME NEW c \in Clients, IInv, wire[c] # <<>>, wire'[c] = Tail(wire[c])
  PROVE  /\ Genuine(c) /\ UNCHANGED log => Genuine(c)'
         /\ \A n : ResyncOnWire(c, n) =>
              \/ Kind(c, 1) = "resync" /\ n <= Head(wire[c]).id
              \/ ResyncOnWire(c, n)'
         /\ \A n : FrameOnWire(c, n) /\ Kind(c, 1) # "frames" => FrameOnWire(c, n)'
<1>1. PICK len : len = Len(wire'[c])
  OBVIOUS
<1>2. /\ len \in Nat /\ Len(wire[c]) = len + 1
      /\ \A i \in 1 .. len : /\ wire'[c][i] = wire[c][i + 1]
                             /\ Kind(c, i)' = Kind(c, i + 1)
  BY <1>1, ReadHead
<1>3. \A i \in 1 .. len + 1 : i = 1 \/ (i - 1 \in 1 .. len /\ (i - 1) + 1 = i)
  BY <1>2
<1>4. \A i \in 1 .. len + 1 : i # 1 =>
        /\ i - 1 \in 1 .. len
        /\ wire'[c][i - 1] = wire[c][i] /\ Kind(c, i - 1)' = Kind(c, i)
  <2> TAKE i \in 1 .. len + 1
  <2>1. CASE i # 1
    <3>1. PICK k \in 1 .. len : k = i - 1 /\ k + 1 = i
      BY <1>3, <2>1
    <3> QED BY <1>2, <3>1
  <2> QED BY <2>1
<1>5. Genuine(c) /\ UNCHANGED log => Genuine(c)'
  <2>1. \A i \in 1 .. len : i + 1 \in 1 .. len + 1
    BY <1>2
  <2> QED BY <1>1, <1>2, <2>1 DEF Genuine
<1>6. Head(wire[c]) = wire[c][1]
  BY ReadHead
<1>7. ASSUME NEW n, ResyncOnWire(c, n)
      PROVE  \/ Kind(c, 1) = "resync" /\ n <= Head(wire[c]).id
             \/ ResyncOnWire(c, n)'
  <2>1. PICK i \in 1 .. len + 1 : Kind(c, i) = "resync" /\ n <= wire[c][i].id
    BY <1>2, <1>7 DEF ResyncOnWire
  <2>2. CASE i = 1
    BY <1>6, <2>1, <2>2
  <2>3. CASE i # 1
    BY <1>1, <1>4, <2>1, <2>3 DEF ResyncOnWire
  <2> QED BY <2>2, <2>3
<1> QED BY <1>1, <1>2, <1>4, <1>5, <1>7 DEF FrameOnWire

LEMMA ReadConnectedStep ==
  ASSUME NEW c \in Clients, IInv, ReadConnected(c)
  PROVE  \A d \in Clients : ClientInv(d)'
<1>1. PICK m : m = Head(wire[c])
  OBVIOUS
<1>2. /\ wire[c] # <<>> /\ m.type = "connected" /\ wire'[c] = Tail(wire[c])
      /\ tab'[c].streamGeneration = m.generation
      /\ tab'[c].lastEventId = IF m.cursorReset THEN 0 ELSE tab[c].lastEventId
      /\ tab'[c].busy = tab[c].busy /\ tab'[c].posting = tab[c].posting
      /\ UNCHANGED <<bridge, conn, asked, loaded, history>>
      /\ \A d \in Clients : d # c => tab'[d] = tab[d] /\ wire'[d] = wire[d]
  BY <1>1 DEF ReadConnected, IInv, TypeOK
<1>3. ASSUME NEW d \in Clients, d # c PROVE ClientInv(d)'
  BY <1>2, <1>3, OtherClient DEF IInv
<1>4. /\ conn[c].live /\ m = wire[c][1] /\ m \in Message /\ Kind(c, 1) = "connected"
      /\ m.generation = conn[c].generation
      /\ \A i \in 1 .. Len(wire'[c]) : Kind(c, i)' # "connected"
  <2>1. /\ conn[c].live /\ m = wire[c][1] /\ m \in Message
        /\ 1 \in 1 .. Len(wire[c])
        /\ \A i \in 1 .. Len(wire'[c]) : Kind(c, i)' # "connected"
    BY <1>1, <1>2, ReadHead
  <2>2. Kind(c, 1) = "connected"
    BY <1>2, <2>1 DEF Kind
  <2> QED BY <2>1, <2>2 DEF IInv, ClientInv, Handshake
<1>5. /\ m.generation # NoGeneration /\ m.generation \in Nat
      /\ m.cursorReset \in BOOLEAN
      /\ buffer.generation # NoGeneration /\ tab[c].lastEventId \in Nat
      /\ Latest \in Nat
  <2>1. m.generation \in Generations /\ m.cursorReset \in BOOLEAN
    BY <1>2, <1>4 DEF Message
  <2>2. /\ buffer.generation \in Generations /\ buffer.nextSeq \in Nat \ {0}
        /\ tab[c].lastEventId \in Nat
    BY DEF IInv, TypeOK, IsBuffer
  <2> QED BY <2>1, <2>2 DEF Generations, NoGeneration, Latest
<1>6. /\ Latest' = Latest /\ \A n : Safe(c, n)' = Safe(c, n)
      /\ Recovering(c)' = Recovering(c) /\ LoadCovers(c, 0)' = LoadCovers(c, 0)
      /\ Attached(c)' = Attached(c)
  BY <1>2 DEF Latest, Safe, Relevant, Pending, Recovering, LoadCovers, Attached
<1>7. Handshake(c)'
  BY <1>2, <1>4, <1>5, <1>6 DEF IInv, ClientInv, Handshake, Attached
<1>8. Attached(c) /\ ~m.cursorReset =>
        \/ tab[c].streamGeneration = buffer.generation
        \/ tab[c].streamGeneration = NoGeneration /\ tab[c].lastEventId = 0
  BY <1>2, <1>4 DEF IInv, ClientInv, Ordered, Handshake
<1>9. tab'[c].streamGeneration = buffer.generation => Attached(c)
  BY <1>2, <1>4 DEF Attached
<1>10. CursorPromise(c)'
  <2>1. SUFFICES ASSUME tab'[c].streamGeneration = buffer.generation
                 PROVE  /\ tab'[c].lastEventId <= Latest
                        /\ \A n \in 1 .. tab'[c].lastEventId : Safe(c, n)
    BY <1>2, <1>6 DEF CursorPromise
  <2>2. CASE tab'[c].lastEventId = 0
    BY <1>5, <2>2
  <2>3. CASE tab'[c].lastEventId # 0
    <3>1. /\ tab'[c].lastEventId = tab[c].lastEventId
          /\ tab[c].streamGeneration = buffer.generation
      BY <1>2, <1>5, <1>8, <1>9, <2>1, <2>3
    <3> QED BY <3>1 DEF IInv, ClientInv, CursorPromise
  <2> QED BY <2>2, <2>3
<1>11. Attached(c) => Ordered(c)'
  <2>1. SUFFICES ASSUME Attached(c) PROVE Ordered(c)'
    OBVIOUS
  <2>2. Ordered(c) /\ m.generation = buffer.generation
    BY <1>4, <2>1 DEF IInv, ClientInv, Attached
  <2>3. ASSUME NEW i \in 1 .. Len(wire'[c]), Kind(c, i)' = "frames",
               NEW e \in wire'[c][i].entries
        PROVE  e.seq > tab'[c].lastEventId
    <3>1. /\ i + 1 \in 1 .. Len(wire[c]) /\ wire'[c][i] = wire[c][i + 1]
          /\ Kind(c, i + 1) = "frames" /\ wire[c] \in Seq(Message)
      BY <1>2, <2>3, ReadHead
    <3>2. wire[c][i + 1] \in Message /\ wire[c][i + 1].type = "frames"
      BY <3>1 DEF Kind
    <3>3. e.seq \in Nat /\ e.seq > 0
      BY <2>3, <3>1, <3>2 DEF Message, Entry
    <3>4. tab[c].streamGeneration = buffer.generation => e.seq > tab[c].lastEventId
      BY <2>2, <2>3, <3>1 DEF Ordered
    <3> QED BY <1>2, <1>5, <1>8, <2>1, <3>3, <3>4
  <2> QED BY <1>2, <2>2, <2>3, ReadHeadOrdered
<1>12. Attached(c) => Covered(c)' /\ Genuine(c)'
  BY <1>2, <1>4, <1>6, ReadHeadWire DEF IInv, ClientInv, Covered
<1>14. Repairs(c)'
  BY <1>2 DEF IInv, ClientInv, Repairs
<1>13. Told(c)'
  <2>1. Told(c) /\ (tab[c].streamGeneration = NoGeneration => c \notin behind)
    BY DEF IInv, ClientInv, Handshake
  <2>2. ResyncOnWire(c, 0) => ResyncOnWire(c, 0)'
    BY <1>2, <1>4, ReadHeadWire
  <2> QED BY <1>2, <1>5, <1>6, <1>8, <1>9, <2>1, <2>2 DEF Told
<1> QED BY <1>3, <1>6, <1>7, <1>10, <1>11, <1>12, <1>13, <1>14 DEF ClientInv

LEMMA ReadResyncStep ==
  ASSUME NEW c \in Clients, IInv, ReadResync(c)
  PROVE  \A d \in Clients : ClientInv(d)'
<1>1. PICK m : m = Head(wire[c])
  OBVIOUS
<1>2. /\ wire[c] # <<>> /\ m.type = "resync" /\ wire'[c] = Tail(wire[c])
      /\ tab'[c].streamGeneration = tab[c].streamGeneration
      /\ \/ tab'[c].lastEventId = tab[c].lastEventId
         \/ tab'[c].lastEventId = m.id
      /\ tab'[c].busy = tab[c].busy /\ tab'[c].posting = tab[c].posting
      /\ \/ "hydrate" \in asked'[c] /\ missed' = missed
         \/ c \in missed' /\ tab[c].busy
      /\ UNCHANGED <<bridge, conn, loaded, applied, shown, behind, stranded>>
      /\ \A d \in Clients : d # c => /\ tab'[d] = tab[d] /\ wire'[d] = wire[d]
                                     /\ asked'[d] = asked[d]
                                     /\ skipped'[d] = skipped[d]
                                     /\ d \in missed' <=> d \in missed
  <2>1. /\ wire[c] # <<>> /\ m.type = "resync"
        /\ wire' = [wire EXCEPT ![c] = Tail(wire[c])]
        /\ tab' = IF m.id > 0 THEN PersistCursor(c, m.id) ELSE tab
        /\ LoadWhenIdle(c)
        /\ UNCHANGED <<bridge, conn, loaded, applied, shown, behind, stranded>>
    BY <1>1 DEF ReadResync, SkipTo
  <2>2. skipped' = [skipped EXCEPT ![c] =
             IF conn[c].generation = buffer.generation /\ m.id > @ THEN m.id ELSE @]
    BY <1>1 DEF ReadResync, SkipTo
  <2>3. /\ tab'[c].streamGeneration = tab[c].streamGeneration
        /\ \/ tab'[c].lastEventId = tab[c].lastEventId
           \/ tab'[c].lastEventId = m.id
        /\ tab'[c].busy = tab[c].busy /\ tab'[c].posting = tab[c].posting
        /\ \A d \in Clients : d # c => tab'[d] = tab[d]
    BY <2>1 DEF PersistCursor, IInv, TypeOK
  <2>4. /\ \/ "hydrate" \in asked'[c] /\ missed' = missed
           \/ c \in missed' /\ tab[c].busy
        /\ \A d \in Clients : d # c => /\ asked'[d] = asked[d]
                                       /\ d \in missed' <=> d \in missed
    BY <2>1 DEF LoadWhenIdle, IInv, TypeOK
  <2>5. \A d \in Clients : d # c => wire'[d] = wire[d] /\ skipped'[d] = skipped[d]
    BY <2>1, <2>2 DEF IInv, TypeOK
  <2>6. wire'[c] = Tail(wire[c])
    BY <2>1 DEF IInv, TypeOK
  <2> QED BY <2>1, <2>3, <2>4, <2>5, <2>6
<1>14. /\ skipped' = [skipped EXCEPT ![c] =
            IF conn[c].generation = buffer.generation /\ m.id > @ THEN m.id ELSE @]
       /\ skipped[c] \in Nat
  BY <1>1 DEF ReadResync, SkipTo, IInv, TypeOK
<1>3. ASSUME NEW d \in Clients, d # c PROVE ClientInv(d)'
  <2>1. /\ tab'[d] = tab[d] /\ wire'[d] = wire[d] /\ asked'[d] = asked[d]
        /\ skipped'[d] = skipped[d]
        /\ d \in missed' <=> d \in missed
    BY <1>2, <1>3
  <2>2. UNCHANGED <<bridge, conn, loaded, applied, shown, behind, stranded>>
    BY <1>2
  <2>3. TypeOK /\ History /\ ClientInv(d)
    BY DEF IInv
  <2> QED BY <2>1, <2>2, <2>3, OtherClient
<1>4. /\ conn[c].live /\ m = wire[c][1] /\ m \in Message /\ Kind(c, 1) = "resync"
      /\ 1 \in 1 .. Len(wire[c])
      /\ \A i \in 1 .. Len(wire'[c]) : Kind(c, i)' # "connected"
  BY <1>1, <1>2, ReadHead DEF Kind
<1>15. m.id \in Nat
  BY <1>2, <1>4 DEF Message
<1>5. /\ Recovering(c)' /\ Repairs(c)'
      /\ \A n \in Nat : Safe(c, n) => Safe(c, n)'
      /\ Attached(c) => \A n \in Nat : n <= m.id => Safe(c, n)'
  <2>1. Recovering(c)' /\ Repairs(c)'
    BY <1>2 DEF Recovering, Repairs
  <2>2. /\ skipped'[c] \in Nat /\ skipped[c] <= skipped'[c]
        /\ Attached(c) => m.id <= skipped'[c]
    BY <1>14, <1>15 DEF Attached, IInv, TypeOK
  <2>3. \A n \in Nat : n <= skipped[c] => n <= skipped'[c]
    BY <1>14, <2>2
  <2>4. Attached(c) => \A n \in Nat : n <= m.id => n <= skipped'[c]
    BY <1>15, <2>2
  <2>5. \A n : Relevant(n)' = Relevant(n)
    BY <1>2 DEF Relevant, Pending
  <2> QED BY <1>2, <2>1, <2>3, <2>4, <2>5 DEF Safe
<1>6. Latest' = Latest /\ Attached(c)' = Attached(c)
  BY <1>2 DEF Latest, Attached
<1>7. tab[c].streamGeneration # NoGeneration
  BY <1>4 DEF IInv, ClientInv, Handshake
<1>8. Handshake(c)'
  BY <1>2, <1>4, <1>6, <1>7 DEF IInv, ClientInv, Handshake
<1>9. tab[c].streamGeneration = buffer.generation => Attached(c)
  BY <1>4 DEF IInv, ClientInv, Handshake
<1>10. Attached(c) =>
         /\ Ordered(c) /\ tab[c].streamGeneration = buffer.generation
         /\ m.id <= Latest
  BY <1>4 DEF IInv, ClientInv, Ordered
<1>11. CursorPromise(c)'
  <2>1. SUFFICES ASSUME tab[c].streamGeneration = buffer.generation
                 PROVE  /\ tab'[c].lastEventId <= Latest
                        /\ \A n \in 1 .. tab'[c].lastEventId : Safe(c, n)'
    BY <1>2, <1>6 DEF CursorPromise
  <2>2. Attached(c) /\ CursorPromise(c)
    BY <1>9, <2>1 DEF IInv, ClientInv
  <2>3. CASE tab'[c].lastEventId = tab[c].lastEventId
    <3>1. tab[c].lastEventId \in Nat
      BY DEF IInv, TypeOK
    <3>2. \A n \in 1 .. tab[c].lastEventId : n \in Nat
      BY <3>1
    <3> QED BY <1>5, <2>1, <2>2, <2>3, <3>2 DEF CursorPromise
  <2>4. CASE tab'[c].lastEventId = m.id
    <3>1. \A n \in 1 .. m.id : n \in Nat /\ n <= m.id
      BY <1>15
    <3> QED BY <1>5, <1>10, <2>2, <2>4, <3>1
  <2> QED BY <1>2, <2>3, <2>4
<1>12. Attached(c) => Ordered(c)'
  <2>1. SUFFICES ASSUME Attached(c) PROVE Ordered(c)'
    OBVIOUS
  <2>2. ASSUME NEW i \in 1 .. Len(wire'[c]), Kind(c, i)' = "frames",
               NEW e \in wire'[c][i].entries
        PROVE  e.seq > tab'[c].lastEventId
    <3>1. /\ i + 1 \in 1 .. Len(wire[c]) /\ wire'[c][i] = wire[c][i + 1]
          /\ Kind(c, i + 1) = "frames" /\ wire[c] \in Seq(Message)
      BY <1>2, <2>2, ReadHead
    <3>2. wire[c][i + 1] \in Message /\ wire[c][i + 1].type = "frames"
      BY <3>1 DEF Kind
    <3>3. e.seq \in Nat /\ m.id \in Nat
      BY <1>2, <1>4, <2>2, <3>1, <3>2 DEF Message, Entry
    <3>4. e.seq > tab[c].lastEventId
      BY <1>10, <2>1, <2>2, <3>1 DEF Ordered
    <3>5. i + 1 \in 1 + 1 .. Len(wire[c])
      BY <2>2, <3>1
    <3>6. m.id < e.seq
      BY <1>4, <1>10, <2>1, <2>2, <3>1, <3>5 DEF Ordered
    <3> QED BY <1>2, <3>3, <3>4, <3>6
  <2> QED BY <1>2, <1>10, <2>1, <2>2, ReadHeadOrdered
<1>13. Told(c)'
  BY <1>5 DEF Told
<1>16. Attached(c) => Covered(c)' /\ Genuine(c)'
  <2>1. SUFFICES ASSUME Attached(c) PROVE Covered(c)' /\ Genuine(c)'
    OBVIOUS
  <2>2. Covered(c) /\ Genuine(c)
    BY <2>1 DEF IInv, ClientInv
  <2>3. ASSUME NEW n \in 1 .. Latest
        PROVE  Safe(c, n)' \/ ResyncOnWire(c, n)' \/ FrameOnWire(c, n)'
    <3>1. n \in Nat
      OBVIOUS
    <3>2. CASE ResyncOnWire(c, n)
      BY <1>1, <1>2, <1>5, <2>1, <3>1, <3>2, ReadHeadWire
    <3>3. CASE FrameOnWire(c, n)
      BY <1>2, <1>4, <3>3, ReadHeadWire
    <3> QED BY <1>5, <2>2, <3>1, <3>2, <3>3 DEF Covered
  <2> QED BY <1>2, <1>6, <2>2, <2>3, ReadHeadWire DEF Covered
<1> QED BY <1>3, <1>5, <1>6, <1>8, <1>11, <1>12, <1>13, <1>16 DEF ClientInv

(* Reading a frame: a question is applied, the end of a run asks for a load  *)
(* or is missed in a turn, before the cursor moves over it.                  *)
LEMMA ReadFrameStep ==
  ASSUME NEW c \in Clients, IInv, ReadFrame(c)
  PROVE  \A d \in Clients : ClientInv(d)'
<1>1. PICK m, len : m = Head(wire[c]) /\ len = Len(wire[c])
  OBVIOUS
<1>2. PICK e \in m.entries :
        /\ \A other \in m.entries \ {e} : e.seq <= other.seq
        /\ wire' = [wire EXCEPT ![c] =
                      IF m.entries \ {e} = {} THEN Tail(wire[c])
                      ELSE <<[m EXCEPT !.entries = m.entries \ {e}]>> \o Tail(wire[c])]
        /\ applied' = [applied EXCEPT ![c] =
             IF m.generation = buffer.generation /\ e.event \in Questions
             THEN @ \union {e.seq} ELSE @]
        /\ IF e.event = "settled" THEN LoadWhenIdle(c) ELSE UNCHANGED <<asked, missed>>
        /\ tab' = PersistCursor(c, e.seq)
  BY <1>1 DEF ReadFrame
<1>3. /\ wire[c] # <<>> /\ m.type = "frames"
      /\ UNCHANGED <<bridge, conn, loaded, shown, skipped, behind, stranded>>
  BY <1>1 DEF ReadFrame
<1>4. /\ tab'[c].streamGeneration = tab[c].streamGeneration
      /\ tab'[c].lastEventId = IF tab[c].busy THEN tab[c].lastEventId ELSE e.seq
      /\ tab'[c].busy = tab[c].busy /\ tab'[c].posting = tab[c].posting
      /\ applied[c] \subseteq applied'[c]
      /\ (m.generation = buffer.generation /\ e.event \in Questions) =>
           e.seq \in applied'[c]
      /\ asked[c] \subseteq asked'[c]
      /\ missed \subseteq missed'
      /\ \/ missed' = missed
         \/ tab[c].busy
      /\ e.event = "settled" => asked'[c] # {} \/ c \in missed'
      /\ \A d \in Clients : d # c => /\ tab'[d] = tab[d] /\ wire'[d] = wire[d]
                                     /\ applied'[d] = applied[d] /\ asked'[d] = asked[d]
                                     /\ d \in missed' <=> d \in missed
  <2>1. /\ asked[c] \subseteq asked'[c]
        /\ missed \subseteq missed'
        /\ missed' = missed \/ tab[c].busy
        /\ e.event = "settled" => asked'[c] # {} \/ c \in missed'
        /\ \A d \in Clients : d # c => /\ asked'[d] = asked[d]
                                       /\ d \in missed' <=> d \in missed
    <3>1. asked \in [Clients -> SUBSET LoadPurposes]
      BY DEF IInv, TypeOK
    <3>2. CASE e.event = "settled"
      <4>1. LoadWhenIdle(c)
        BY <1>2, <3>2
      <4> QED BY <3>1, <4>1 DEF LoadWhenIdle
    <3>3. CASE e.event # "settled"
      <4>1. asked' = asked /\ missed' = missed
        BY <1>2, <3>3
      <4> QED BY <3>3, <4>1
    <3> QED BY <3>2, <3>3
  <2>2. /\ tab'[c].streamGeneration = tab[c].streamGeneration
        /\ tab'[c].lastEventId = IF tab[c].busy THEN tab[c].lastEventId ELSE e.seq
        /\ tab'[c].busy = tab[c].busy /\ tab'[c].posting = tab[c].posting
        /\ \A d \in Clients : d # c => tab'[d] = tab[d]
    BY <1>2 DEF PersistCursor, IInv, TypeOK
  <2>3. /\ applied[c] \subseteq applied'[c]
        /\ (m.generation = buffer.generation /\ e.event \in Questions) =>
             e.seq \in applied'[c]
        /\ \A d \in Clients : d # c => applied'[d] = applied[d]
    BY <1>2 DEF IInv, TypeOK
  <2>4. \A d \in Clients : d # c => wire'[d] = wire[d]
    BY <1>2 DEF IInv, TypeOK
  <2> QED BY <2>1, <2>2, <2>3, <2>4
<1>21. Repairs(c)'
  BY <1>3, <1>4 DEF IInv, ClientInv, Repairs
<1>5. ASSUME NEW d \in Clients, d # c PROVE ClientInv(d)'
  <2>1. /\ tab'[d] = tab[d] /\ wire'[d] = wire[d] /\ applied'[d] = applied[d]
        /\ asked'[d] = asked[d]
        /\ d \in missed' <=> d \in missed
    BY <1>4, <1>5
  <2>2. UNCHANGED <<bridge, conn, loaded, shown, skipped, behind, stranded>>
    BY <1>3
  <2>3. TypeOK /\ History /\ ClientInv(d)
    BY DEF IInv
  <2> QED BY <2>1, <2>2, <2>3, OtherClient
<1>6. /\ wire[c] \in Seq(Message) /\ len \in Nat /\ len > 0 /\ m \in Message
      /\ m = wire[c][1] /\ conn[c].live
  BY <1>1, <1>3 DEF IInv, TypeOK, ClientInv, Handshake
<1>7. Kind(c, 1) = "frames" /\ 1 \in 1 .. len
  BY <1>3, <1>6 DEF Kind
<1>8. /\ m.generation \in Generations /\ m.entries \subseteq Entry
      /\ e.seq \in Nat /\ e.seq > 0
  BY <1>3, <1>6 DEF Message, Entry
<1> DEFINE rest    == m.entries \ {e}
           partial == [type |-> "frames", generation |-> m.generation, entries |-> rest]
<1>9. [m EXCEPT !.entries = rest] = partial
  <2>1. m = [type |-> "frames", generation |-> m.generation, entries |-> m.entries]
    BY <1>3, <1>6 DEF Message
  <2> HIDE DEF rest
  <2> QED BY <2>1
<1>10. /\ partial.type = "frames" /\ partial.generation = m.generation
       /\ partial.entries = rest /\ partial \in Message
  <2>1. rest \in SUBSET Entry
    BY <1>8
  <2> HIDE DEF rest
  <2> QED BY <1>8, <2>1 DEF Message
<1> HIDE DEF partial
<1>11. \/ /\ rest = {} /\ wire'[c] = Tail(wire[c])
       \/ /\ rest # {} /\ Len(wire'[c]) = len
          /\ wire'[c][1] = partial
          /\ \A i \in 2 .. len : wire'[c][i] = wire[c][i]
  <2>1. CASE rest = {}
    BY <1>2, <2>1 DEF IInv, TypeOK
  <2>2. CASE rest # {}
    <3>1. wire'[c] = <<partial>> \o Tail(wire[c])
      BY <1>2, <1>9, <2>2 DEF IInv, TypeOK
    <3>2. Len(<<partial>> \o Tail(wire[c])) = len
      BY <1>1, <1>6, <1>10
    <3>3. (<<partial>> \o Tail(wire[c]))[1] = partial
      BY <1>1, <1>6, <1>10
    <3>4. \A i \in 2 .. len : (<<partial>> \o Tail(wire[c]))[i] = wire[c][i]
      BY <1>1, <1>6, <1>10
    <3> QED BY <2>2, <3>1, <3>2, <3>3, <3>4
  <2> QED BY <2>1, <2>2
<1>12. \A i \in 2 .. len : i \in 1 .. len /\ 1 \in 1 .. i - 1
  BY <1>6
<1>13. \A f \in rest : f \in m.entries /\ f # e /\ e.seq <= f.seq
  BY <1>2
<1> HIDE DEF rest
<1>14. \A i \in 1 .. Len(wire'[c]) : Kind(c, i)' # "connected"
  <2>1. CASE wire'[c] = Tail(wire[c])
    BY <1>3, <2>1, ReadHead
  <2>2. CASE /\ Len(wire'[c]) = len /\ wire'[c][1] = partial
             /\ \A i \in 2 .. len : wire'[c][i] = wire[c][i]
    <3>1. \A i \in 1 .. len : i = 1 \/ i \in 2 .. len
      BY <1>6
    <3>2. \A i \in 2 .. len : wire[c][i].type # "connected"
      BY <1>1, <1>6, <1>12 DEF IInv, ClientInv, Handshake, Kind
    <3> QED BY <1>10, <2>2, <3>1, <3>2 DEF Kind
  <2> QED BY <1>11, <2>1, <2>2
<1>15. Attached(c)' = Attached(c) /\ Latest' = Latest
  BY <1>3 DEF Attached, Latest
<1>16. tab[c].streamGeneration # NoGeneration
  BY <1>3, <1>6, <1>7 DEF IInv, ClientInv, Handshake
<1>17. Handshake(c)'
  BY <1>3, <1>4, <1>6, <1>14, <1>15, <1>16 DEF IInv, ClientInv, Handshake
<1>18. tab[c].streamGeneration = buffer.generation => Attached(c)
  BY <1>6 DEF IInv, ClientInv, Handshake
<1>19. CASE ~Attached(c)
  <2>1. ~Attached(c)' /\ tab'[c].streamGeneration # buffer'.generation
    BY <1>3, <1>4, <1>15, <1>18, <1>19
  <2>2. CursorPromise(c)' /\ Told(c)'
    BY <2>1 DEF CursorPromise, Told
  <2> QED BY <1>5, <1>17, <1>21, <2>1, <2>2 DEF ClientInv
<1>20. CASE Attached(c)
  <2>1. Ordered(c) /\ Covered(c) /\ CursorPromise(c) /\ Told(c) /\ Genuine(c)
    BY <1>20 DEF IInv, ClientInv
  <2>2. /\ tab[c].streamGeneration = buffer.generation
        /\ m.generation = buffer.generation
        /\ \A i \in 1 .. len : Kind(c, i) # "resync"
        /\ \A n : ~ResyncOnWire(c, n)
        /\ e.event = log[e.seq]
        /\ \A f \in m.entries : /\ f.seq \in Nat /\ f.seq <= Latest
                                /\ f.seq > tab[c].lastEventId
                                /\ f.seq = e.seq => f = e
    <3>1. tab[c].streamGeneration = buffer.generation
      BY <1>7, <2>1 DEF Ordered
    <3>2. \A i \in 1 .. len : Kind(c, i) # "resync"
      <4>1. SUFFICES ASSUME NEW i \in 1 .. len, Kind(c, i) = "resync" PROVE FALSE
        OBVIOUS
      <4>2. i # 1
        BY <1>7, <4>1
      <4>3. 1 \in 1 .. i - 1
        BY <1>6, <4>2
      <4> QED BY <1>1, <1>7, <2>1, <4>1, <4>3 DEF Ordered
    <3>3. \A n : ~ResyncOnWire(c, n)
      BY <1>1, <3>2 DEF ResyncOnWire
    <3>4. e.event = log[e.seq]
      BY <1>1, <1>6, <1>7, <2>1 DEF Genuine
    <3> QED BY <1>1, <1>6, <1>7, <1>8, <2>1, <3>1, <3>2, <3>3, <3>4 DEF Ordered, Entry
  <2>3. /\ \A n : Safe(c, n) => Safe(c, n)'
        /\ Safe(c, e.seq)'
        /\ Recovering(c) => Recovering(c)'
        /\ LoadCovers(c, 0)' = LoadCovers(c, 0)
    <3>1. /\ Recovering(c) => Recovering(c)'
          /\ \A n : LoadCovers(c, n)' = LoadCovers(c, n)
          /\ \A n : Relevant(n)' = Relevant(n)
      BY <1>3, <1>4 DEF Recovering, LoadCovers, Relevant, Pending
    <3>2. \A n : n = e.seq => Safe(c, n)'
      BY <1>3, <1>4, <2>2 DEF Safe, Recovering
    <3>3. \A n : Safe(c, n) => Safe(c, n)'
      BY <1>3, <1>4, <3>1 DEF Safe
    <3>4. LoadCovers(c, 0)' = LoadCovers(c, 0)
      BY <3>1
    <3> QED BY <3>1, <3>2, <3>3, <3>4
  <2>4. ASSUME NEW i \in 2 .. len, Kind(c, i) = "frames"
        PROVE  /\ wire[c][i].generation = buffer.generation
               /\ \A f \in wire[c][i].entries :
                     /\ f.seq \in Nat /\ f.seq <= Latest /\ e.seq < f.seq
                     /\ \A g \in wire[c][i].entries : g.seq = f.seq => g = f
                     /\ \A j \in 1 .. i - 1 : Kind(c, j) = "frames" =>
                           \A g \in wire[c][j].entries : g.seq < f.seq
    <3>1. i \in 1 .. Len(wire[c]) /\ 1 \in 1 .. i - 1
      BY <1>1, <1>12
    <3>2. wire[c][i] \in Message /\ wire[c][i].type = "frames"
      BY <1>6, <2>4, <3>1 DEF Kind
    <3>3. \A f \in wire[c][i].entries : f.seq \in Nat
      BY <3>2 DEF Message, Entry
    <3>4. /\ wire[c][i].generation = buffer.generation
          /\ \A f \in wire[c][i].entries :
                /\ f.seq <= Latest
                /\ \A g \in wire[c][i].entries : g.seq = f.seq => g = f
                /\ \A j \in 1 .. i - 1 : Kind(c, j) = "frames" =>
                      \A g \in wire[c][j].entries : g.seq < f.seq
      BY <2>1, <2>4, <3>1 DEF Ordered
    <3>5. \A f \in wire[c][i].entries : e.seq < f.seq
      BY <1>6, <1>7, <3>1, <3>4
    <3> QED BY <3>3, <3>4, <3>5
  <2>5. \A f \in rest : e.seq < f.seq
    <3>1. \A f \in rest : f.seq # e.seq /\ f.seq \in Nat
      BY <1>13, <2>2
    <3> QED BY <1>8, <1>13, <3>1
  <2>6. \A i \in 1 .. len : i = 1 \/ i \in 2 .. len
    BY <1>6
  <2>7. \A n : FrameOnWire(c, n) => (n = e.seq \/ FrameOnWire(c, n)')
    <3>1. SUFFICES ASSUME NEW i \in 1 .. len, Kind(c, i) = "frames",
                          NEW f \in wire[c][i].entries, f.seq # e.seq
                   PROVE  \E k \in 1 .. Len(wire'[c]) :
                            Kind(c, k)' = "frames" /\ f \in wire'[c][k].entries
      BY <1>1 DEF FrameOnWire
    <3>2. i = 1 => f \in rest
      BY <1>6, <3>1 DEF rest
    <3>3. CASE rest = {}
      <4>1. /\ i \in 2 .. len /\ wire'[c] = Tail(wire[c])
        BY <1>11, <2>6, <3>2, <3>3
      <4>2. PICK k : k = i - 1 /\ i = k + 1 /\ k \in 1 .. len - 1
        BY <1>6, <4>1
      <4>3. /\ k \in 1 .. Len(wire'[c]) /\ wire'[c][k] = wire[c][i]
            /\ Kind(c, k)' = "frames"
        BY <1>1, <1>3, <1>6, <3>1, <4>1, <4>2, ReadHead
      <4> QED BY <4>3
    <3>4. CASE rest # {}
      <4>1. i = 1 => Kind(c, 1)' = "frames" /\ f \in wire'[c][1].entries
        BY <1>10, <1>11, <3>2, <3>4 DEF Kind
      <4>2. i \in 2 .. len => Kind(c, i)' = "frames" /\ f \in wire'[c][i].entries
        BY <1>11, <3>1, <3>4 DEF Kind
      <4> QED BY <1>11, <2>6, <3>4, <4>1, <4>2
    <3> QED BY <3>3, <3>4
  <2>8. Covered(c)'
    BY <1>15, <2>1, <2>2, <2>3, <2>7 DEF Covered
  <2>9. CursorPromise(c)'
    <3>1. Latest \in Nat /\ tab[c].lastEventId \in Nat
      BY LatestIsLast DEF IInv, TypeOK, IsBuffer, Latest
    <3>2. tab'[c].lastEventId <= Latest'
      BY <1>4, <1>15, <2>1, <2>2 DEF CursorPromise
    <3>3. ASSUME tab[c].busy PROVE \A n \in 1 .. tab[c].lastEventId : Safe(c, n)'
      BY <2>1, <2>2, <2>3 DEF CursorPromise
    <3>4. ASSUME ~tab[c].busy, NEW n \in 1 .. e.seq PROVE Safe(c, n)'
      <4>1. n \in 1 .. Latest
        BY <1>8, <2>2, <3>1
      <4>2. CASE FrameOnWire(c, n)
        <5>1. PICK i, f : /\ i \in 1 .. len /\ Kind(c, i) = "frames"
                          /\ f \in wire[c][i].entries /\ f.seq = n
          BY <1>1, <4>2 DEF FrameOnWire
        <5>2. e.seq <= n
          <6>1. CASE i = 1
            BY <1>6, <1>8, <1>13, <5>1, <6>1 DEF rest
          <6>2. CASE i \in 2 .. len
            BY <1>8, <2>4, <5>1, <6>2
          <6> QED BY <2>6, <5>1, <6>1, <6>2
        <5>3. n = e.seq
          BY <1>8, <5>2
        <5> QED BY <2>3, <5>3
      <4> QED BY <2>1, <2>2, <2>3, <4>1, <4>2 DEF Covered
    <3> QED BY <1>4, <3>2, <3>3, <3>4 DEF CursorPromise
  <2>10. Told(c)'
    <3>1. c \in behind => Recovering(c) \/ LoadCovers(c, 0)
      BY <1>20, <2>1, <2>2 DEF Told
    <3> QED BY <1>3, <2>3, <3>1 DEF Told
  <2>11. Ordered(c)'
    <3>1. CASE rest = {}
      <4>1. wire'[c] = Tail(wire[c])
        BY <1>11, <3>1
      <4>2. ASSUME NEW k \in 1 .. Len(wire'[c]), Kind(c, k)' = "frames",
                   NEW f \in wire'[c][k].entries
            PROVE  f.seq > tab'[c].lastEventId
        <5>1. /\ k \in Nat /\ k + 1 \in 1 .. len /\ k + 1 # 1
              /\ wire'[c][k] = wire[c][k + 1] /\ Kind(c, k + 1) = "frames"
          BY <1>1, <1>3, <4>1, <4>2, ReadHead
        <5>2. k + 1 \in 2 .. len
          BY <2>6, <5>1
        <5>3. e.seq < f.seq /\ f.seq \in Nat
          BY <2>4, <4>2, <5>1, <5>2
        <5>4. e.seq > tab[c].lastEventId /\ tab[c].lastEventId \in Nat
          BY <2>2 DEF IInv, TypeOK
        <5> QED BY <1>4, <1>8, <5>3, <5>4
      <4> QED BY <1>3, <1>4, <2>1, <2>2, <4>1, <4>2, ReadHeadOrdered
    <3>2. CASE rest # {}
      <4>1. /\ Len(wire'[c]) = len /\ wire'[c][1] = partial
            /\ Kind(c, 1)' = "frames"
            /\ \A i \in 2 .. len : /\ wire'[c][i] = wire[c][i]
                                   /\ Kind(c, i)' = Kind(c, i)
        BY <1>10, <1>11, <3>2 DEF Kind
      <4>2. \A i \in 1 .. len : Kind(c, i)' # "resync"
        BY <1>7, <2>2, <2>6, <4>1
      <4>3. \A f : e.seq < f.seq /\ f.seq \in Nat => f.seq > tab'[c].lastEventId
        <5>1. e.seq > tab[c].lastEventId /\ tab[c].lastEventId \in Nat
          BY <2>2 DEF IInv, TypeOK
        <5> QED BY <1>4, <1>8, <5>1
      <4>4. /\ wire'[c][1].generation = buffer.generation
            /\ \A f \in wire'[c][1].entries :
                  /\ f.seq <= Latest
                  /\ \A g \in wire'[c][1].entries : g.seq = f.seq => g = f
                  /\ f.seq > tab'[c].lastEventId
        <5>1. \A f, g \in rest : g.seq = f.seq => g = f
          BY <1>1, <1>6, <1>7, <1>13, <2>1 DEF Ordered
        <5> QED BY <1>10, <1>13, <2>2, <2>5, <4>1, <4>3, <5>1
      <4>5. ASSUME NEW i \in 2 .. len, Kind(c, i)' = "frames"
            PROVE  /\ wire'[c][i].generation = buffer.generation
                   /\ \A f \in wire'[c][i].entries :
                         /\ f.seq <= Latest
                         /\ \A g \in wire'[c][i].entries : g.seq = f.seq => g = f
                         /\ f.seq > tab'[c].lastEventId
        BY <2>4, <4>1, <4>3, <4>5
      <4>6. ASSUME NEW i \in 2 .. len, Kind(c, i)' = "frames",
                   NEW j \in 1 .. i - 1, Kind(c, j)' = "frames",
                   NEW f \in wire'[c][i].entries, NEW g \in wire'[c][j].entries
            PROVE  g.seq < f.seq
        <5>1. Kind(c, i) = "frames" /\ wire'[c][i] = wire[c][i] /\ j \in 1 .. len
          BY <1>6, <4>1, <4>6
        <5>2. Kind(c, j) = "frames" /\ g \in wire[c][j].entries
          <6>1. CASE j = 1
            BY <1>6, <1>7, <1>10, <1>13, <4>1, <4>6, <6>1
          <6>2. CASE j \in 2 .. len
            BY <4>1, <4>6, <6>2
          <6> QED BY <2>6, <5>1, <6>1, <6>2
        <5> QED BY <2>4, <4>6, <5>1, <5>2
      <4>7. /\ conn'[c].cursor = Latest /\ Latest' = Latest
            /\ tab'[c].streamGeneration = buffer'.generation
            /\ buffer'.generation = buffer.generation
        BY <1>3, <1>4, <1>15, <2>1, <2>2 DEF Ordered
      <4>8. \A i \in 1 .. len : Kind(c, i)' = "frames" =>
              /\ wire'[c][i].generation = buffer'.generation
              /\ \A f \in wire'[c][i].entries :
                    /\ f.seq <= Latest'
                    /\ \A g \in wire'[c][i].entries : g.seq = f.seq => g = f
                    /\ f.seq > tab'[c].lastEventId
                    /\ \A j \in 1 .. i - 1 : Kind(c, j)' = "frames" =>
                          \A g \in wire'[c][j].entries : g.seq < f.seq
        <5> TAKE i \in 1 .. len
        <5>1. CASE i = 1
          <6>1. 1 .. i - 1 = {}
            BY <5>1
          <6> QED BY <4>4, <4>7, <5>1, <6>1
        <5>2. CASE i \in 2 .. len
          BY <4>5, <4>6, <4>7, <5>2
        <5> QED BY <2>6, <5>1, <5>2
      <4> QED BY <4>1, <4>2, <4>7, <4>8 DEF Ordered
    <3> QED BY <3>1, <3>2
  <2>12. Genuine(c)'
    <3>1. \A f \in m.entries : f.event = log[f.seq]
      BY <1>1, <1>6, <1>7, <2>1 DEF Genuine
    <3>2. CASE rest = {}
      <4>1. wire'[c] = Tail(wire[c])
        BY <1>11, <3>2
      <4> QED BY <1>3, <2>1, <4>1, ReadHeadWire
    <3>3. CASE rest # {}
      <4>1. /\ Len(wire'[c]) = len /\ wire'[c][1].entries = rest
            /\ \A i \in 2 .. len : wire'[c][i] = wire[c][i] /\ Kind(c, i)' = Kind(c, i)
        BY <1>10, <1>11, <3>3 DEF Kind
      <4> QED BY <1>1, <1>3, <1>12, <1>13, <2>1, <2>6, <3>1, <4>1 DEF Genuine
    <3> QED BY <3>2, <3>3
  <2> QED BY <1>5, <1>17, <1>21, <2>8, <2>9, <2>10, <2>11, <2>12 DEF ClientInv
<1> QED BY <1>5, <1>19, <1>20

(* A tab starts with no stream, or with the stream of an earlier process.    *)
LEMMA InitInvariant == Init => IInv
<1> SUFFICES ASSUME Init PROVE IInv
  OBVIOUS
<1>1. TypeOK
  BY InitTyped
<1>2. /\ buffer.nextSeq = 1 /\ buffer.entries = <<>> /\ Latest = 0
      /\ buffer.generation = 2
  BY DEF Init, EmptyBuffer, Latest, FirstGeneration
<1>3. History
  BY <1>2 DEF Init, History
<1>4. ASSUME NEW c \in Clients PROVE ClientInv(c)
  <2>1. \/ tab[c].streamGeneration = NoGeneration /\ tab[c].lastEventId = 0
        \/ tab[c].streamGeneration = 1 /\ tab[c].lastEventId = 1
    BY DEF Init
  <2>2. ~conn[c].live /\ wire[c] = <<>>
    BY DEF Init, NoConnection
  <2>3. tab[c].streamGeneration # buffer.generation
    BY <1>2, <2>1 DEF NoGeneration
  <2>4. Handshake(c)
    BY <1>2, <2>1, <2>2 DEF Init, Handshake, NoGeneration
  <2>5. ~Attached(c) /\ CursorPromise(c) /\ Told(c)
    BY <2>2, <2>3 DEF Attached, CursorPromise, Told
  <2>6. Repairs(c)
    BY DEF Init, Repairs
  <2> QED BY <2>4, <2>5, <2>6 DEF ClientInv
<1> QED BY <1>1, <1>3, <1>4 DEF IInv

(* Every step preserves the invariant.                                       *)
LEMMA StepInvariant == IInv /\ [Next]_vars => IInv'
<1> SUFFICES ASSUME IInv, [Next]_vars PROVE IInv'
  OBVIOUS
<1>1. TypeOK'
  BY StepTyped DEF IInv
<1>2. History /\ question \in [Questions -> {"unasked", "pending", "closed"}]
  BY DEF IInv, TypeOK
<1>3. UNCHANGED <<buffer, log, question>> => History'
  BY <1>2 DEF History, Latest
<1>4. CASE Publish
  <2>1. PICK event \in {"plain", "settled"} :
          Dispatch(event) /\ question' = question /\ Pending' = Pending
    BY <1>4 DEF Publish, Pending
  <2>2. event \in Events /\ event \notin Questions
    BY SseReplayAssumption DEF Events
  <2>3. History' /\ \A d \in Clients : ClientInv(d)'
    BY <1>2, <2>1, <2>2, DispatchStep DEF History
  <2> QED BY <1>1, <2>3 DEF IInv
<1>5. ASSUME NEW q \in Questions, Ask(q) \/ Cancel(q) PROVE IInv'
  <2>1. /\ Dispatch(q) /\ q \in Events
        /\ question'[q] # "unasked"
        /\ \A p \in Questions : p # q => question'[p] = question[p]
        /\ question'[q] = "pending" => question[q] = "unasked"
    BY <1>2, <1>5 DEF Ask, Cancel, Events
  <2>2. Pending' \subseteq Pending \union {p \in Questions : question[p] = "unasked"}
    BY <2>1 DEF Pending
  <2>3. \A n \in 1 .. Latest : log[n] \in Questions => question'[log[n]] # "unasked"
    BY <1>2, <2>1 DEF History
  <2>4. History' /\ \A d \in Clients : ClientInv(d)'
    BY <2>1, <2>2, <2>3, DispatchStep
  <2> QED BY <1>1, <2>4 DEF IInv
<1>6. ASSUME NEW q \in Questions, Answer(q) PROVE IInv'
  BY <1>1, <1>6, AnswerStep DEF IInv
<1>7. CASE Restart \/ FailedDeletion
  BY <1>1, <1>7, NewBufferStep DEF IInv
<1>8. ASSUME NEW c \in Clients, Connect(c) \/ Drop(c) \/ Browser(c) PROVE IInv'
  <2>1. UNCHANGED <<buffer, log, question>>
    BY <1>8 DEF Connect, Drop, Browser, ReadConnected, ReadFrame, ReadResync,
                StartTurn, EndTurn, CutTurn, ServeLoad, FailLoad, ApplyLoad
  <2>2. CASE Connect(c)
    BY <1>1, <1>3, <2>1, <2>2, ConnectStep DEF IInv
  <2>3. CASE Drop(c)
    BY <1>1, <1>3, <2>1, <2>3, DropStep DEF IInv
  <2>4. CASE ReadConnected(c)
    BY <1>1, <1>3, <2>1, <2>4, ReadConnectedStep DEF IInv
  <2>5. CASE ReadFrame(c)
    BY <1>1, <1>3, <2>1, <2>5, ReadFrameStep DEF IInv
  <2>6. CASE ReadResync(c)
    BY <1>1, <1>3, <2>1, <2>6, ReadResyncStep DEF IInv
  <2>7. CASE TurnOrLoad(c)
    BY <1>1, <1>3, <2>1, <2>7, TurnsAndLoads DEF IInv
  <2> QED BY <1>8, <2>2, <2>3, <2>4, <2>5, <2>6, <2>7 DEF Browser, TurnOrLoad
<1>9. CASE UNCHANGED vars
  <2>1. ASSUME NEW c \in Clients PROVE ClientInv(c)'
    BY <1>9, OtherClient DEF vars, IInv
  <2> QED BY <1>1, <1>3, <1>9, <2>1 DEF vars, IInv
<1> QED BY <1>4, <1>5, <1>6, <1>7, <1>8, <1>9 DEF Next, Bridge

LEMMA Invariant == Spec => []IInv
<1> QED BY InitInvariant, StepInvariant, PTL DEF Spec

(* Frames reach a tab in sequence order and never twice: no frame on the     *)
(* wire of an attached connection is at or below the tab's cursor or out of  *)
(* order (chat-events.ts flush, use-pi-chat-events.ts cursor handling).      *)
THEOREM DeliveryInOrder == Spec => []InOrderOnce
<1>1. IInv => InOrderOnce
  <2> SUFFICES ASSUME IInv, NEW c \in Clients, Attached(c),
                      NEW i \in 1 .. Len(wire[c]), Kind(c, i) = "frames",
                      NEW e \in wire[c][i].entries
               PROVE  /\ tab[c].streamGeneration = buffer.generation =>
                           e.seq > tab[c].lastEventId
                      /\ \A j \in 1 .. i - 1 : Kind(c, j) = "frames" =>
                           \A f \in wire[c][j].entries : f.seq < e.seq
    <3>1. \A c \in Clients : DOMAIN wire[c] = 1 .. Len(wire[c])
      BY DEF IInv, TypeOK
    <3> QED BY <3>1 DEF InOrderOnce, Kind
  <2> QED BY DEF IInv, ClientInv, Ordered
<1> QED BY <1>1, Invariant, PTL

(* No run and no question is lost silently: a tab whose connection belongs   *)
(* to the current stream, and that has nothing left to read or load, has     *)
(* loaded every run that has settled and applied every question that is      *)
(* pending, across evictions, reconnects, restarts and turns; excepted are a *)
(* load that failed or that was given up with a turn that was cut short, and *)
(* a question a resync frame stood for (openSessionStream and flush against  *)
(* the browser's cursor, agent_settled and the reconciliation after a turn). *)
THEOREM NothingLostSilently == Spec => []NoSilentLoss
<1>1. IInv => NoSilentLoss
  <2> SUFFICES ASSUME IInv, NEW c \in Clients, Attached(c), Settled(c)
               PROVE  Complete(c)
    BY DEF NoSilentLoss
  <2>1. Len(wire[c]) = 0 /\ DOMAIN log = 1 .. Latest /\ Len(log) = Latest
    BY DEF Settled, IInv, TypeOK, History
  <2>2. \A n : ~ResyncOnWire(c, n) /\ ~FrameOnWire(c, n)
    BY <2>1 DEF ResyncOnWire, FrameOnWire
  <2>3. ~Recovering(c) /\ \A n : ~LoadCovers(c, n)
    BY DEF IInv, ClientInv, Repairs, Settled, Recovering, LoadCovers
  <2>4. Covered(c) /\ Told(c)
    BY DEF IInv, ClientInv
  <2>5. c \notin behind
    BY <2>2, <2>3, <2>4 DEF Told
  <2>6. \A n \in DOMAIN log : Safe(c, n)
    BY <2>1, <2>2, <2>4 DEF Covered
  <2>7. ASSUME NEW n \in DOMAIN log, log[n] \in Questions, Owed(n)
        PROVE  Known(c, n)
    BY <2>6, <2>7 DEF Safe, Owed, Known
  <2>8. ASSUME NEW n \in DOMAIN log, log[n] \notin Questions, Owed(n)
        PROVE  Known(c, n)
    <3>1. PICK m \in DOMAIN log : n <= m /\ log[m] = "settled"
      BY <2>8 DEF Owed, Committed
    <3>2. m <= shown[c]
      BY <2>3, <2>6, <3>1 DEF Safe
    <3> QED BY <2>8, <3>1, <3>2 DEF Known, Committed
  <2> QED BY <2>5, <2>7, <2>8 DEF Complete
<1> QED BY <1>1, Invariant, PTL

(* A tab that has read no stream yet has no cursor, so the replay it is      *)
(* given when it connects is filtered.                                       *)
LEMMA ConnectSpares ==
  ASSUME IInv, NEW c \in Clients, Connect(c),
         tab[c].streamGeneration = NoGeneration,
         NEW i \in DOMAIN wire'[c], wire'[c][i].type = "frames",
         NEW e \in wire'[c][i].entries
  PROVE  e.event \notin Questions \ Pending
<1>1. PICK source :
        source = StreamSource(buffer, tab[c].streamGeneration, tab[c].lastEventId)
  OBVIOUS
<1>2. Handshake(c) /\ TypeOK
  BY DEF IInv, ClientInv
<1>3. tab[c].streamGeneration # buffer.generation
  BY <1>2 DEF TypeOK, IsBuffer, Generations, NoGeneration
<1>4. tab[c].lastEventId = 0
  BY <1>2 DEF Handshake
<1>5. source.replayFrom = 0 /\ ~source.cursorReset
  <2> DEFINE canResume == /\ NoGeneration \in {NoGeneration, buffer.generation}
                          /\ 0 > 0 /\ 0 <= LatestSequence(buffer)
                          /\ ~Overflowed(buffer, 0)
             cursorReset == (NoGeneration # NoGeneration \/ 0 > 0) /\ ~canResume
             replayFrom  == IF canResume THEN 0
                            ELSE IF cursorReset THEN LatestSequence(buffer) ELSE 0
  <2>1. source = [cursorReset |-> cursorReset, replayFrom |-> replayFrom]
    BY <1>1, <1>4 DEF StreamSource
  <2>2. cursorReset = FALSE /\ replayFrom = 0
    OBVIOUS
  <2> HIDE DEF cursorReset, replayFrom
  <2> QED BY <2>1, <2>2
<1>6. PICK due, spared :
        /\ due = ReplaySince(buffer, source.replayFrom)
        /\ spared = {f \in due : ShouldReplay(f.event, TRUE)}
  OBVIOUS
<1>7. (source.replayFrom = 0 /\ ~source.cursorReset) = TRUE
  BY <1>5
<1>8. /\ Len(wire'[c]) \in 1 .. 2
      /\ wire'[c][1].type = "connected"
      /\ Len(wire'[c]) = 2 => \/ wire'[c][2].type = "resync"
                              \/ wire'[c][2].entries = spared
  <2>1. PICK w, first, kept :
          /\ w = wire'[c]
          /\ first = (source.replayFrom = 0 /\ ~source.cursorReset)
          /\ kept = {f \in due : ShouldReplay(f.event, first)}
    OBVIOUS
  <2>2. kept = spared
    BY <1>6, <1>7, <2>1
  <2>3. /\ Len(w) \in 1 .. 2
        /\ w[1] = [type |-> "connected", generation |-> buffer.generation,
                   cursorReset |-> source.cursorReset]
        /\ \/ Len(w) = 2 /\ w[2] = [type |-> "resync", id |-> Latest]
           \/ Len(w) = 2 /\ w[2] = [type |-> "frames", generation |-> buffer.generation,
                                    entries |-> kept]
           \/ Len(w) = 1
    BY <1>1, <1>6, <2>1, ConnectWire
  <2>4. w[1].type = "connected"
    BY <2>3
  <2>5. CASE Len(w) = 2 /\ w[2] = [type |-> "resync", id |-> Latest]
    <3>1. w[2].type = "resync"
      BY <2>5
    <3> QED BY <2>1, <2>3, <2>4, <3>1
  <2>6. CASE Len(w) = 2 /\ w[2] = [type |-> "frames", generation |-> buffer.generation,
                                  entries |-> kept]
    <3>1. w[2].entries = spared
      BY <2>2, <2>6
    <3> QED BY <2>1, <2>3, <2>4, <3>1
  <2>7. CASE Len(w) = 1
    BY <2>1, <2>3, <2>4, <2>7
  <2> QED BY <2>3, <2>5, <2>6, <2>7
<1>9. DOMAIN wire'[c] = 1 .. Len(wire'[c])
  <2>1. TypeOK'
    BY <1>2, ConnectTyped
  <2> QED BY <2>1 DEF TypeOK
<1>10. i = 2 /\ Len(wire'[c]) = 2
  BY <1>8, <1>9
<1>11. e \in spared
  BY <1>8, <1>10
<1> QED BY <1>6, <1>11 DEF ShouldReplay

(* A first connection never shows a question that was over when it opened    *)
(* (sse-replay.ts shouldReplaySseEvent): whatever happened to the tab        *)
(* before, while it knows no stream it has no cursor either, so the replay   *)
(* it gets is a first one and is filtered.                                   *)
THEOREM OverQuestionsSpared == Spec => NoClosedQuestionOnFirstConnect
<1> DEFINE Spared ==
      \A c \in Clients :
        (conn'[c].live /\ ~conn[c].live /\ tab[c].streamGeneration = NoGeneration) =>
          \A i \in DOMAIN wire'[c] : wire'[c][i].type = "frames" =>
            \A e \in wire'[c][i].entries : e.event \notin Questions \ Pending
<1>1. IInv /\ [Next]_vars => [Spared]_vars
  <2> SUFFICES ASSUME IInv, Next, NEW c \in Clients,
                      conn'[c].live, ~conn[c].live,
                      tab[c].streamGeneration = NoGeneration,
                      NEW i \in DOMAIN wire'[c], wire'[c][i].type = "frames",
                      NEW e \in wire'[c][i].entries
               PROVE  e.event \notin Questions \ Pending
    OBVIOUS
  <2>1. conn \in [Clients -> [live : BOOLEAN, cursor : Nat, generation : Generations]]
    BY DEF IInv, TypeOK
  <2>2. Connect(c)
    <3>1. CASE Bridge
      <4>1. conn' = conn \/ \E event : Dispatch(event)
        BY <3>1 DEF Bridge, Publish, Ask, Answer, Cancel
      <4>2. conn'[c] = conn[c]
        BY <2>1, <4>1 DEF Dispatch
      <4> QED BY <4>2
    <3>2. CASE Restart \/ FailedDeletion
      BY <3>2 DEF Restart, FailedDeletion, NoConnection
    <3>3. ASSUME NEW d \in Clients, Connect(d), d # c PROVE FALSE
      BY <2>1, <3>3 DEF Connect
    <3>4. ASSUME NEW d \in Clients, Drop(d) PROVE FALSE
      <4>1. conn'[c] = conn[c] \/ conn'[c] = NoConnection
        BY <2>1, <3>4 DEF Drop
      <4> QED BY <4>1 DEF NoConnection
    <3>5. ASSUME NEW d \in Clients, Browser(d) PROVE FALSE
      <4>1. conn' = conn
        BY <3>5 DEF Browser, ReadConnected, ReadFrame, ReadResync, StartTurn,
                    EndTurn, CutTurn, ServeLoad, FailLoad, ApplyLoad
      <4> QED BY <4>1
    <3> QED BY <3>1, <3>2, <3>3, <3>4, <3>5 DEF Next
  <2> QED BY <2>2, ConnectSpares
<1> QED BY <1>1, Invariant, PTL DEF Spec, NoClosedQuestionOnFirstConnect
=============================================================================
