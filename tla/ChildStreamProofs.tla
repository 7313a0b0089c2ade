-------------------------- MODULE ChildStreamProofs --------------------------
(***************************************************************************)
(* Theorems about ChildStream, for any number of viewers, events and       *)
(* streams and any capacity of the ring buffer.                            *)
(***************************************************************************)
EXTENDS ChildStream, Integers, FiniteSets, FiniteSetTheorems, SequenceTheorems,
        WellFoundedInduction, TLAPS

USE CapacityAssumption, ChildStreamAssumption

(* Induction over the naturals for a set: what contains 0 and with n also    *)
(* n + 1 contains them all.                                                  *)
LEMMA SetInduction ==
  ASSUME NEW S, 0 \in S, \A n \in Nat : n \in S => n + 1 \in S
  PROVE  \A n \in Nat : n \in S
<1> DEFINE rest == Nat \ S
<1>1. SUFFICES ASSUME rest # {} PROVE FALSE
  OBVIOUS
<1>2. PICK x \in rest : \A y \in rest : ~ (<<y, x>> \in OpToRel(<, Nat))
  BY <1>1, NatLessThanWellFounded, WFMin
<1>3. \A y \in rest : ~ (y < x)
  BY <1>2 DEF OpToRel
<1>4. x \in Nat /\ x \notin S /\ x # 0
  BY <1>2
<1>5. x - 1 \in Nat /\ x - 1 < x /\ (x - 1) + 1 = x
  BY <1>4
<1>6. x - 1 \in S
  BY <1>3, <1>5
<1> QED BY <1>4, <1>5, <1>6

------------------------------------------------------------------------------
(* Types                                                                     *)

Phases == {"none", "watching", "subscribed", "open"}
Places == {"away", "listed", "waiting", "joined", "refreshing", "ready", "open",
           "closing", "over", "broken"}

(* What a child that has had k events can have told.                         *)
Happenings(k) == [n : 1 .. k, kind : {"message", "turn_end", "reset"}]
                   \union [n : {0}, kind : {"closed", "failed"}]
Framed(k)     == [type : {"event", "reset"}, n : 1 .. k] \union [type : {"error"}]
                   \union [type : {"session_snapshot"}, upto : 0 .. k, terminal : BOOLEAN]
NumberedOf(k) == [id : Nat, frame : Framed(k)]
Letters(k)    == NumberedOf(k)
                   \union [type : {"connected"}, generation : Nat, reset : BOOLEAN]
                   \union [type : {"session_snapshot"}, upto : 0 .. k, terminal : BOOLEAN]
                   \union [type : {"resync"}]

Streams(k) == [phase : Phases, refs : Nat, upto : 0 .. k, terminal : BOOLEAN,
               replayFrom : Nat, buffering : BOOLEAN, held : Seq(Happenings(k)),
               chain : Nat, read : {NotRead} \union 0 .. k, failed : BOOLEAN]
Panels(k)  == [at : Places, running : BOOLEAN, generation : Nat, lastEventId : Nat,
               ahead : Int, inbox : Seq(Letters(k)), have : SUBSET (1 .. k), base : 0 .. k]

Generations == 1 .. MaxStreams + 1

IsStream(s, b) == s.replayFrom <= LatestSequence(b)

(* Events are held back exactly while refreshes are under way.               *)
Balanced(s) == (s.buffering => s.chain > 0) /\ (s.chain > 0 => s.buffering)

Channels(k) ==
  {c \in [stream : Streams(k),
          frames : [generation : Generations, nextSeq : Nat \ {0},
                    entries : Seq([seq : Nat \ {0}, event : Framed(k)])],
          out : Seq(NumberedOf(k))] :
     IsBuffer(c.frames, Generations, Framed(k)) /\ IsStream(c.stream, c.frames)}

Types ==
  /\ emitted \in 0 .. MaxEvents /\ turns \subseteq 1 .. emitted /\ ended \in BOOLEAN
  /\ stream \in Streams(emitted)
  /\ IsBuffer(frames, Generations, Framed(emitted))
  /\ IsStream(stream, frames) /\ Balanced(stream)
  /\ viewer \in [Viewers -> Panels(emitted)]
  /\ finalReadFailed \in BOOLEAN /\ childFaults \in 0 .. MaxChildFaults

------------------------------------------------------------------------------
(* The invariant                                                             *)

(* A reference for everyone who uses the stream, and someone who waits while *)
(* it is being initialized.                                                  *)
Held ==
  /\ stream.phase = "open" =>
       /\ IsFiniteSet(Holders) /\ Holders # {} /\ stream.refs = Cardinality(Holders)
       /\ Waiting = {}
  /\ stream.phase # "open" =>
       /\ Holders = {} /\ stream.chain = 0 /\ ~stream.terminal
       /\ frames = EmptyBuffer(frames.generation)
  /\ stream.phase = "none" => Waiting = {}
  /\ stream.phase \in {"watching", "subscribed"} => IsFiniteSet(Waiting) /\ Waiting # {}
  /\ stream.phase # "none" => frames.generation <= MaxStreams

(* What a panel has, or has read messages without, when they were all that   *)
(* was committed.                                                            *)
Screen(p) == p.have \union 1 .. p.base

(* What a frame, and what a message of an inbox, does to a screen.  (A reset *)
(* makes the panel start over.)                                              *)
Shows(f, n) == \/ f.type \in {"event", "reset"} /\ f.n = n
               \/ f.type = "session_snapshot" /\ n <= f.upto
Drops(f, n) == f.type = "session_snapshot" /\ n > f.upto

IsNumbered(m) == "frame" \in DOMAIN m
Body(m)       == IF IsNumbered(m) THEN m.frame ELSE m

(* Event n waits among those held back; the end of the child does.           *)
HeldBack(s, n) == \E i \in DOMAIN s.held : s.held[i].n = n
EndHeld(s)     == \E i \in DOMAIN s.held : s.held[i].kind \in {"closed", "failed"}

Retained(b)    == {b.entries[i] : i \in DOMAIN b.entries}
Lowest(b)      == b.nextSeq - Len(b.entries)
After(b, q, n) == \E x \in Retained(b) : x.seq > q /\ Shows(x.event, n)

(* Events are held back while the messages that will show them are awaited:  *)
(* whatever has not been read, and the end.                                  *)
Awaiting(s, k, over) ==
  /\ s.held # <<>> => s.phase = "subscribed" \/ s.chain > 0
  /\ s.read # NotRead => /\ s.phase = "subscribed" \/ s.chain > 0
                         /\ \A n \in s.read + 1 .. k : HeldBack(s, n)
  /\ s.phase \in {"subscribed", "open"} /\ over => s.terminal \/ EndHeld(s)

(* A snapshot, and the frames after it, show everything but what is held     *)
(* back: the stream's own one, if those frames are retained, ...             *)
SnapshotFollowed(s, b, k) ==
  s.phase = "open" /\ s.replayFrom + 1 >= Lowest(b) =>
    \A n \in 1 .. k : n <= s.upto \/ HeldBack(s, n) \/ After(b, s.replayFrom, n)

(* ... and each that is retained itself.                                     *)
RetainedFollowed(s, b, k) ==
  \A x \in Retained(b), n \in 1 .. k :
    Drops(x.event, n) => HeldBack(s, n) \/ After(b, x.seq, n)

IsHello(m) == ~IsNumbered(m) /\ m.type = "connected"

(* No generation is known to a panel before its stream is open.              *)
Opened(g, s, b) ==
  g < b.generation \/ g = MaxStreams + 1 \/ (g = b.generation /\ s.phase = "open")

KnowsOpened(p, s, b) ==
  /\ Opened(p.generation, s, b)
  /\ \A i \in DOMAIN p.inbox : IsHello(p.inbox[i]) => Opened(p.inbox[i].generation, s, b)

(* A connection that closes while its stream is open is not one of a stream  *)
(* that goes on.                                                             *)
ClosingIsLast(p, s, b) ==
  p.at = "closing" /\ s.phase = "open" /\ ~s.terminal =>
    /\ p.generation # b.generation
    /\ \A i \in DOMAIN p.inbox : IsHello(p.inbox[i]) => p.inbox[i].generation # b.generation

(* A cursor that may be resumed: the screen it belongs to and the frames     *)
(* after it show everything but what is held back.  One that is left with a  *)
(* screen that is not kept is a number of that stream all the same.          *)
Knows(p, s, b) ==
  s.phase = "open" /\ ~s.terminal /\ p.generation = b.generation

Resumes(p, s, b) ==
  Knows(p, s, b) /\ p.at \notin {"away", "over"} /\ p.lastEventId > 0

CursorSound(p, s, b, k) ==
  /\ Knows(p, s, b) => p.lastEventId < b.nextSeq
  /\ Resumes(p, s, b) /\ p.lastEventId + 1 >= Lowest(b) =>
       \A n \in 1 .. k : n \in Screen(p) \/ HeldBack(s, n) \/ After(b, p.lastEventId, n)

(* The inbox of a connection that follows: the bootstrap, which forgets the  *)
(* cursor if it brings a snapshot, then frames as they are in the buffer.    *)
Entry(m) == [seq |-> m.id, event |-> m.frame]

NumberedInOrder(s, i, b) ==
  /\ s[i].id < b.nextSeq
  /\ s[i].id >= Lowest(b) => Entry(s[i]) \in Retained(b)
  /\ \A j \in i + 1 .. Len(s) : IsNumbered(s[j]) /\ s[j].id > s[i].id

ForgetsCursor(p) ==
  p.lastEventId = 0 \/ (IsHello(p.inbox[1]) /\ p.inbox[1].reset)

InboxInOrder(p, b) ==
  \A i \in DOMAIN p.inbox :
    /\ IsNumbered(p.inbox[i]) => NumberedInOrder(p.inbox, i, b)
    /\ IsHello(p.inbox[i]) => i = 1
    /\ ~IsNumbered(p.inbox[i]) /\ p.inbox[i].type = "session_snapshot" => ForgetsCursor(p)

(* The screen and the inbox show everything but what is held back.           *)
Complete(p, s, k) ==
  \A n \in 1 .. k : ~HeldBack(s, n) =>
    /\ n \in Screen(p) \/ (\E i \in DOMAIN p.inbox : Shows(Body(p.inbox[i]), n))
    /\ \A i \in DOMAIN p.inbox : Drops(Body(p.inbox[i]), n) =>
         \E j \in i + 1 .. Len(p.inbox) : Shows(Body(p.inbox[j]), n)

Resyncs(p) == \E i \in DOMAIN p.inbox : ~IsNumbered(p.inbox[i]) /\ p.inbox[i].type = "resync"

PanelSound(p, s, b, k) ==
  /\ KnowsOpened(p, s, b) /\ ClosingIsLast(p, s, b) /\ CursorSound(p, s, b, k)
  /\ p.at = "open" => InboxInOrder(p, b) /\ (Resyncs(p) \/ Complete(p, s, k))

(* After the end the last refresh is under way while anyone follows, unless  *)
(* it failed.                                                                *)
EndFollowed ==
  stream.phase = "open" /\ stream.terminal /\ Following # {} =>
    stream.chain > 0 \/ finalReadFailed

Lags ==
  /\ Awaiting(stream, emitted, ended)
  /\ SnapshotFollowed(stream, frames, emitted)
  /\ RetainedFollowed(stream, frames, emitted)
  /\ EndFollowed
  /\ \A v \in Viewers : PanelSound(viewer[v], stream, frames, emitted)

IInv == Types /\ Held /\ Lags

------------------------------------------------------------------------------
(* The ring buffer                                                           *)

EntriesOf(E) == [seq : Nat \ {0}, event : E]

(* The latest sequence of a hole-free buffer is one less than the next one.  *)
LEMMA LatestIsLast ==
  ASSUME NEW G, NEW E, NEW b, IsBuffer(b, G, E)
  PROVE  /\ LatestSequence(b) = b.nextSeq - 1
         /\ LatestSequence(b) \in Nat
<1>1. CASE b.entries = <<>>
  BY <1>1 DEF IsBuffer, LatestSequence
<1>2. CASE b.entries # <<>>
  <2>1. b.entries \in Seq(EntriesOf(E)) /\ b.nextSeq \in Nat \ {0} /\ Len(b.entries) < b.nextSeq
    BY DEF IsBuffer, EntriesOf
  <2>2. Len(b.entries) \in 1 .. Len(b.entries)
    BY <1>2, <2>1
  <2>3. b.entries[Len(b.entries)].seq = (b.nextSeq - 1 - Len(b.entries)) + Len(b.entries)
    BY <2>2 DEF IsBuffer
  <2> QED BY <1>2, <2>1, <2>2, <2>3 DEF LatestSequence
<1> QED BY <1>1, <1>2

(* A push keeps the buffer the newest frames without a hole.                 *)
LEMMA PushIsBuffer ==
  ASSUME NEW G, NEW E, NEW b, IsBuffer(b, G, E), NEW event \in E
  PROVE  /\ IsBuffer(Push(b, event), G, E)
         /\ Push(b, event).nextSeq = b.nextSeq + 1
         /\ Push(b, event).generation = b.generation
         /\ Push(b, event).entries # <<>>
<1> DEFINE entry == [seq |-> b.nextSeq, event |-> event]
           old   == Len(b.entries)
<1>1. /\ b.entries \in Seq(EntriesOf(E)) /\ b.nextSeq \in Nat \ {0}
      /\ b.generation \in G
      /\ old \in Nat /\ old <= Capacity /\ old < b.nextSeq
      /\ old < Capacity => old = b.nextSeq - 1
      /\ \A i \in 1 .. old : b.entries[i].seq = (b.nextSeq - 1 - old) + i
  BY DEF IsBuffer, EntriesOf
<1>2. entry \in EntriesOf(E) /\ entry.seq = b.nextSeq
  BY <1>1 DEF EntriesOf
<1> HIDE DEF entry
<1>3. PICK grown : grown = Append(b.entries, entry)
  OBVIOUS
<1>4. /\ grown \in Seq(EntriesOf(E)) /\ Len(grown) = old + 1
      /\ \A i \in 1 .. old : grown[i] = b.entries[i]
      /\ grown[old + 1] = entry
  BY <1>1, <1>2, <1>3
<1>5. \A i \in 1 .. old + 1 : grown[i].seq = (b.nextSeq - 1 - old) + i
  <2> TAKE i \in 1 .. old + 1
  <2>1. CASE i = old + 1
    <3>1. grown[i].seq = b.nextSeq
      BY <1>2, <1>4, <2>1
    <3>2. b.nextSeq \in Nat /\ old \in Nat
      BY <1>1
    <3>3. (b.nextSeq - 1 - old) + (old + 1) = b.nextSeq
      BY <3>2
    <3> HIDE DEF old
    <3> QED BY <2>1, <3>1, <3>3
  <2>2. CASE i # old + 1
    <3>1. i \in 1 .. old
      BY <1>1, <2>2
    <3> QED BY <1>1, <1>4, <3>1
  <2> QED BY <2>1, <2>2
<1> DEFINE over == Len(grown) - Capacity
           kept == IF over > 0 THEN SubSeq(grown, over + 1, Len(grown)) ELSE grown
<1>6. Push(b, event) = [generation |-> b.generation, nextSeq |-> b.nextSeq + 1,
                        entries |-> kept]
  BY <1>3 DEF Push, entry
<1>7. /\ kept \in Seq(EntriesOf(E))
      /\ Len(kept) <= Capacity /\ Len(kept) > 0 /\ Len(kept) < b.nextSeq + 1
      /\ Len(kept) < Capacity => Len(kept) = b.nextSeq
      /\ \A i \in 1 .. Len(kept) : kept[i].seq = (b.nextSeq - Len(kept)) + i
  <2>1. CASE over > 0
    <3>1. over = 1 /\ old = Capacity
      BY <1>1, <1>4, <2>1
    <3>2. kept = SubSeq(grown, 2, old + 1)
      BY <1>4, <2>1, <3>1
    <3>3. \A i \in 2 .. old + 1 : grown[i] \in EntriesOf(E)
      BY <1>1, <1>4
    <3> HIDE DEF kept
    <3>4. /\ kept \in Seq(EntriesOf(E))
          /\ Len(kept) = old
          /\ \A i \in 1 .. old : kept[i] = grown[i + 1]
      <4>1. /\ SubSeq(grown, 2, old + 1) \in Seq(EntriesOf(E))
            /\ Len(SubSeq(grown, 2, old + 1)) =
                 IF 2 <= old + 1 THEN (old + 1) - 2 + 1 ELSE 0
            /\ \A i \in 1 .. (old + 1) - 2 + 1 :
                 SubSeq(grown, 2, old + 1)[i] = grown[2 + i - 1]
        BY <1>1, <3>3, SubSeqProperties
      <4> QED BY <1>1, <3>2, <4>1
    <3>5. \A i \in 1 .. old : kept[i].seq = (b.nextSeq - old) + i
      <4> TAKE i \in 1 .. old
      <4>1. i + 1 \in 1 .. old + 1 /\ kept[i] = grown[i + 1]
        BY <1>1, <3>4, SMTT(30)
      <4>2. kept[i].seq = (b.nextSeq - 1 - old) + (i + 1)
        BY <1>5, <4>1
      <4>3. i \in Nat /\ b.nextSeq \in Nat /\ old \in Nat
        BY <1>1
      <4> HIDE DEF old
      <4> QED BY <4>2, <4>3
    <3> QED BY <1>1, <3>1, <3>4, <3>5
  <2>2. CASE ~(over > 0)
    <3>1. kept = grown
      BY <2>2
    <3>2. old < Capacity
      BY <1>1, <1>4, <2>2
    <3> HIDE DEF kept
    <3> QED BY <1>1, <1>4, <1>5, <3>1, <3>2, SMTT(30)
  <2> QED BY <2>1, <2>2
<1> HIDE DEF kept
<1>8. PICK p : p = [generation |-> b.generation, nextSeq |-> b.nextSeq + 1,
                    entries |-> kept]
  OBVIOUS
<1>9. /\ p.generation = b.generation
      /\ p.nextSeq = b.nextSeq + 1
      /\ p.entries = kept
  BY <1>8
<1>10. p \in [generation : G, nextSeq : Nat \ {0},
              entries : Seq([seq : Nat \ {0}, event : E])]
  BY <1>1, <1>7, <1>8, SMTT(30) DEF EntriesOf
<1>11. p.entries # <<>>
  BY <1>7, <1>9
<1>12. p.nextSeq - 1 = b.nextSeq
  BY <1>1, <1>9
<1>13. IsBuffer(p, G, E)
  BY <1>1, <1>7, <1>9, <1>10, <1>11, <1>12 DEF IsBuffer
<1> QED BY <1>6, <1>8, <1>9, <1>11, <1>13


(* What a buffer retains are the frames from the lowest number to the next.  *)
LEMMA RetainedWindow ==
  ASSUME NEW G, NEW E, NEW b, IsBuffer(b, G, E)
  PROVE  /\ Lowest(b) \in Nat \ {0} /\ Lowest(b) <= b.nextSeq /\ b.nextSeq \in Nat
         /\ \A x \in Retained(b) : /\ x.seq \in Nat /\ x.event \in E
                                   /\ x.seq >= Lowest(b) /\ x.seq < b.nextSeq
         /\ LatestSequence(b) = b.nextSeq - 1
<1>1. /\ b.nextSeq \in Nat \ {0} /\ Len(b.entries) \in Nat /\ Len(b.entries) < b.nextSeq
      /\ \A i \in DOMAIN b.entries : /\ b.entries[i].seq = (b.nextSeq - 1 - Len(b.entries)) + i
                                     /\ b.entries[i].seq \in Nat \ {0} /\ b.entries[i].event \in E
      /\ DOMAIN b.entries = 1 .. Len(b.entries)
  <2>1. b.entries \in Seq(EntriesOf(E)) /\ b.nextSeq \in Nat \ {0} /\ Len(b.entries) < b.nextSeq
    BY DEF IsBuffer, EntriesOf
  <2>2. DOMAIN b.entries = 1 .. Len(b.entries)
    BY <2>1
  <2>3. \A i \in DOMAIN b.entries : b.entries[i] \in EntriesOf(E)
    BY <2>1
  <2>4. \A i \in DOMAIN b.entries : b.entries[i].seq = (b.nextSeq - 1 - Len(b.entries)) + i
    BY <2>2 DEF IsBuffer
  <2> QED BY <2>1, <2>2, <2>3, <2>4, SMTT(30) DEF EntriesOf
<1>2. LatestSequence(b) = b.nextSeq - 1
  BY LatestIsLast
<1>3. \A x \in Retained(b) : /\ x.seq \in Nat /\ x.event \in E
                             /\ x.seq >= Lowest(b) /\ x.seq < b.nextSeq
  <2>1. SUFFICES ASSUME NEW i \in DOMAIN b.entries
                 PROVE  /\ b.entries[i].seq \in Nat /\ b.entries[i].event \in E
                        /\ b.entries[i].seq >= b.nextSeq - Len(b.entries)
                        /\ b.entries[i].seq < b.nextSeq
    BY DEF Retained, Lowest
  <2>2. i \in 1 .. Len(b.entries)
    BY <1>1
  <2> QED BY <1>1, <2>2, SMTT(30)
<1>4. Lowest(b) \in Nat \ {0} /\ Lowest(b) <= b.nextSeq
  BY <1>1 DEF Lowest
<1> QED BY <1>1, <1>2, <1>3, <1>4

(* A cursor is out of range when it is ahead, or frames after it are gone.   *)
LEMMA OverflowedWhen ==
  ASSUME NEW G, NEW E, NEW b, IsBuffer(b, G, E), NEW q \in Nat
  PROVE  Overflowed(b, q) <=> q >= b.nextSeq \/ q + 1 < Lowest(b)
<1>1. LatestSequence(b) = b.nextSeq - 1 /\ b.nextSeq \in Nat \ {0}
  BY RetainedWindow DEF IsBuffer
<1>2. CASE b.entries = <<>>
  <2>1. b.nextSeq = 1 /\ Lowest(b) = 1
    BY <1>2 DEF IsBuffer, Lowest
  <2> QED BY <1>1, <1>2, <2>1 DEF Overflowed
<1>3. CASE b.entries # <<>>
  <2>1. Len(b.entries) \in Nat /\ Len(b.entries) >= 1
    BY <1>3 DEF IsBuffer
  <2>2. b.entries[1].seq = (b.nextSeq - 1 - Len(b.entries)) + 1
    BY <2>1 DEF IsBuffer
  <2>3. b.entries[1].seq = Lowest(b)
    BY <1>1, <2>1, <2>2 DEF Lowest
  <2> QED BY <1>1, <1>3, <2>3 DEF Overflowed
<1> QED BY <1>2, <1>3

(* A push retains the new frame and, of the others, the newest.              *)
LEMMA PushRetains ==
  ASSUME NEW G, NEW E, NEW b, IsBuffer(b, G, E), NEW event \in E
  PROVE  LET p == Push(b, event)
             new == [seq |-> b.nextSeq, event |-> event]
         IN  /\ Lowest(b) <= Lowest(p) /\ Lowest(p) <= b.nextSeq
             /\ \A x \in Retained(b) : x.seq >= Lowest(p) => x \in Retained(p)
             /\ new \in Retained(p)
             /\ \A x \in Retained(p) : x = new \/ x \in Retained(b)
<1> DEFINE new == [seq |-> b.nextSeq, event |-> event]
           old == Len(b.entries)
<1>1. /\ b.entries \in Seq(EntriesOf(E)) /\ b.nextSeq \in Nat \ {0}
      /\ old \in Nat /\ old <= Capacity /\ old < b.nextSeq
      /\ \A i \in 1 .. old : b.entries[i].seq = (b.nextSeq - 1 - old) + i
  BY DEF IsBuffer, EntriesOf
<1>2. new \in EntriesOf(E)
  BY <1>1 DEF EntriesOf
<1>3. PICK p : p = Push(b, event)
  OBVIOUS
<1>4. IsBuffer(p, G, E) /\ p.nextSeq = b.nextSeq + 1
  BY <1>3, PushIsBuffer
<1> HIDE DEF new
<1>5. PICK grown : grown = Append(b.entries, new)
  OBVIOUS
<1>6. /\ grown \in Seq(EntriesOf(E)) /\ Len(grown) = old + 1
      /\ \A i \in 1 .. old : grown[i] = b.entries[i]
      /\ grown[old + 1] = new
  BY <1>1, <1>2, <1>5
<1>7. p.entries = IF Len(grown) - Capacity > 0
                  THEN SubSeq(grown, (Len(grown) - Capacity) + 1, Len(grown)) ELSE grown
  BY <1>3, <1>5 DEF Push, new
<1>8. PICK cut \in {0, 1} : /\ Len(p.entries) = old + 1 - cut /\ cut <= old
                            /\ \A i \in 1 .. Len(p.entries) : p.entries[i] = grown[i + cut]
  <2>1. CASE Len(grown) - Capacity > 0
    <3>1. old = Capacity /\ p.entries = SubSeq(grown, 2, old + 1)
      BY <1>1, <1>6, <1>7, <2>1, SMTT(30)
    <3>2. \A i \in 2 .. old + 1 : grown[i] \in EntriesOf(E)
      BY <1>1, <1>6
    <3>3. /\ Len(SubSeq(grown, 2, old + 1)) = IF 2 <= old + 1 THEN (old + 1) - 2 + 1 ELSE 0
          /\ \A i \in 1 .. (old + 1) - 2 + 1 : SubSeq(grown, 2, old + 1)[i] = grown[2 + i - 1]
      BY <1>1, <3>2, SubSeqProperties
    <3>4. Len(p.entries) = old + 1 - 1 /\ 1 <= old
      BY <1>1, <3>1, <3>3
    <3>5. \A i \in 1 .. Len(p.entries) : p.entries[i] = grown[i + 1]
      BY <1>1, <3>1, <3>3, <3>4
    <3> QED BY <3>4, <3>5
  <2>2. CASE ~(Len(grown) - Capacity > 0)
    <3>1. p.entries = grown
      BY <1>7, <2>2
    <3>2. /\ Len(p.entries) = old + 1 - 0 /\ 0 <= old
          /\ \A i \in 1 .. Len(p.entries) : p.entries[i] = grown[i + 0]
      BY <1>1, <1>6, <3>1
    <3> QED BY <3>2
  <2> QED BY <2>1, <2>2
<1>9. Lowest(p) = Lowest(b) + cut /\ Lowest(b) = b.nextSeq - old
  BY <1>1, <1>4, <1>8 DEF Lowest
<1>10. DOMAIN p.entries = 1 .. Len(p.entries) /\ DOMAIN b.entries = 1 .. old
  BY <1>1, <1>4 DEF IsBuffer
<1>11. Lowest(b) <= Lowest(p) /\ Lowest(p) <= b.nextSeq
  BY <1>1, <1>8, <1>9, SMTT(30)
<1>12. ASSUME NEW x \in Retained(b), x.seq >= Lowest(p) PROVE x \in Retained(p)
  <2>1. PICK i \in 1 .. old : x = b.entries[i]
    BY <1>10 DEF Retained
  <2>2. x.seq = (b.nextSeq - 1 - old) + i
    BY <1>1, <2>1
  <2>3. i - cut \in 1 .. Len(p.entries)
    <3>1. (b.nextSeq - 1 - old) + i >= (b.nextSeq - old) + cut
      BY <1>9, <1>12, <2>2
    <3>2. i >= cut + 1 /\ i <= old /\ old \in Nat /\ cut \in {0, 1} /\ i \in Nat
      <4>1. b.nextSeq \in Nat /\ old \in Nat /\ i \in 1 .. old /\ cut \in {0, 1}
        BY <1>1
      <4> HIDE DEF old
      <4> QED BY <3>1, <4>1
    <3> HIDE DEF old
    <3> QED BY <1>8, <3>2
  <2>4. p.entries[i - cut] = x
    BY <1>6, <1>8, <2>1, <2>3
  <2> QED BY <1>10, <2>3, <2>4 DEF Retained
<1>13. new \in Retained(p)
  <2>1. old + 1 - cut \in 1 .. Len(p.entries)
    BY <1>1, <1>8
  <2>2. p.entries[old + 1 - cut] = new
    <3>1. p.entries[old + 1 - cut] = grown[(old + 1 - cut) + cut]
      BY <1>8, <2>1
    <3>2. (old + 1 - cut) + cut = old + 1
      <4>1. old \in Nat /\ cut \in {0, 1}
        BY <1>1
      <4> HIDE DEF old
      <4> QED BY <4>1
    <3> QED BY <1>6, <3>1, <3>2
  <2> QED BY <1>10, <2>1, <2>2 DEF Retained
<1>14. ASSUME NEW x \in Retained(p) PROVE x = new \/ x \in Retained(b)
  <2>1. PICK i \in 1 .. Len(p.entries) : x = p.entries[i]
    BY <1>10 DEF Retained
  <2>2. x = grown[i + cut] /\ i + cut \in 1 .. old + 1
    BY <1>1, <1>8, <2>1
  <2>3. CASE i + cut = old + 1
    BY <1>6, <2>2, <2>3
  <2>4. CASE i + cut # old + 1
    <3>1. i + cut \in 1 .. old
      BY <1>1, <2>2, <2>4
    <3> QED BY <1>6, <1>10, <2>2, <3>1 DEF Retained
  <2> QED BY <2>3, <2>4
<1> QED BY <1>3, <1>11, <1>12, <1>13, <1>14 DEF new

------------------------------------------------------------------------------
(* Types grow with the events                                                *)

LEMMA SeqsGrow ==
  ASSUME NEW S, NEW T, S \subseteq T
  PROVE  Seq(S) \subseteq Seq(T)
OBVIOUS

LEMMA TypesGrow ==
  ASSUME NEW k \in Nat, NEW m \in Nat, k <= m
  PROVE  /\ Happenings(k) \subseteq Happenings(m) /\ Framed(k) \subseteq Framed(m)
         /\ NumberedOf(k) \subseteq NumberedOf(m) /\ Letters(k) \subseteq Letters(m)
         /\ Streams(k) \subseteq Streams(m) /\ Panels(k) \subseteq Panels(m)
<1>1. 1 .. k \subseteq 1 .. m /\ 0 .. k \subseteq 0 .. m
  OBVIOUS
<1>2. Happenings(k) \subseteq Happenings(m)
  BY <1>1 DEF Happenings
<1>3. Framed(k) \subseteq Framed(m)
  BY <1>1 DEF Framed
<1>4. NumberedOf(k) \subseteq NumberedOf(m)
  BY <1>3 DEF NumberedOf
<1>5. Letters(k) \subseteq Letters(m)
  <2> DEFINE S(j) == [type : {"session_snapshot"}, upto : 0 .. j, terminal : BOOLEAN]
  <2>1. S(k) \subseteq S(m)
    BY <1>1
  <2> HIDE DEF S
  <2>2. \A j : Letters(j) = NumberedOf(j)
                   \union [type : {"connected"}, generation : Nat, reset : BOOLEAN]
                   \union S(j) \union [type : {"resync"}]
    BY DEF Letters, S
  <2> QED BY <1>4, <2>1, <2>2
<1>6. Seq(Happenings(k)) \subseteq Seq(Happenings(m)) /\ Seq(Letters(k)) \subseteq Seq(Letters(m))
  BY <1>2, <1>5, SeqsGrow
<1>7. Streams(k) \subseteq Streams(m)
  <2>1. {NotRead} \union 0 .. k \subseteq {NotRead} \union 0 .. m
    BY <1>1
  <2> QED BY <1>1, <1>6, <2>1 DEF Streams
<1>8. Panels(k) \subseteq Panels(m)
  <2>1. SUBSET (1 .. k) \subseteq SUBSET (1 .. m)
    BY <1>1
  <2> QED BY <1>6, <2>1 DEF Panels
<1> QED BY <1>2, <1>3, <1>4, <1>5, <1>7, <1>8

LEMMA BufferGrows ==
  ASSUME NEW G, NEW E, NEW F, E \subseteq F, NEW b, IsBuffer(b, G, E)
  PROVE  IsBuffer(b, G, F)
<1>1. EntriesOf(E) \subseteq EntriesOf(F)
  BY DEF EntriesOf
<1>2. Seq(EntriesOf(E)) \subseteq Seq(EntriesOf(F))
  BY <1>1, SeqsGrow
<1>3. b \in [generation : G, nextSeq : Nat \ {0}, entries : Seq(EntriesOf(E))]
  BY DEF IsBuffer, EntriesOf
<1>4. b \in [generation : G, nextSeq : Nat \ {0}, entries : Seq(EntriesOf(F))]
  BY <1>2, <1>3
<1> QED BY <1>4 DEF IsBuffer, EntriesOf

------------------------------------------------------------------------------
(* What handling an event does to the channel                                *)

(* The stream is kept but for its end and its refreshes.                     *)
StreamKept(s, t) ==
  /\ t.phase = s.phase /\ t.refs = s.refs /\ t.upto = s.upto
  /\ t.replayFrom = s.replayFrom /\ t.read = s.read /\ t.failed = s.failed
  /\ s.terminal => t.terminal
  /\ s.chain <= t.chain
  /\ t.terminal => s.terminal \/ t.chain > 0

(* A frame is dispatched; one that is no snapshot is.                        *)
Adds(c, d, f) ==
  /\ d.frames = Push(c.frames, f)
  /\ d.out = Append(c.out, Numbered(c.frames.nextSeq, f))

Dispatches(c, d, f) == f.type # "session_snapshot" /\ Adds(c, d, f)

LEMMA ChannelFields ==
  ASSUME NEW k \in Nat, NEW c \in Channels(k)
  PROVE  /\ c.stream \in Streams(k) /\ IsBuffer(c.frames, Generations, Framed(k))
         /\ c.out \in Seq(NumberedOf(k)) /\ IsStream(c.stream, c.frames)
         /\ c = [stream |-> c.stream, frames |-> c.frames, out |-> c.out]
<1>1. \A b : IsBuffer(b, Generations, Framed(k)) =>
          b \in [generation : Generations, nextSeq : Nat \ {0},
                 entries : Seq([seq : Nat \ {0}, event : Framed(k)])]
  BY DEF IsBuffer
<1> DEFINE B == [generation : Generations, nextSeq : Nat \ {0},
                 entries : Seq([seq : Nat \ {0}, event : Framed(k)])]
<1> HIDE DEF B
<1>2. Channels(k) = {d \in [stream : Streams(k), frames : B, out : Seq(NumberedOf(k))] :
                       IsBuffer(d.frames, Generations, Framed(k)) /\ IsStream(d.stream, d.frames)}
  BY DEF Channels, B
<1>3. \A b : IsBuffer(b, Generations, Framed(k)) => b \in B
  BY <1>1 DEF B
<1>4. c \in [stream : Streams(k), frames : B, out : Seq(NumberedOf(k))]
  BY <1>2
<1>5. c = [stream |-> c.stream, frames |-> c.frames, out |-> c.out]
  BY <1>4
<1> QED BY <1>2, <1>4, <1>5

LEMMA StreamFields ==
  ASSUME NEW k \in Nat, NEW s \in Streams(k)
  PROVE  /\ s.phase \in Phases /\ s.refs \in Nat /\ s.upto \in 0 .. k /\ s.terminal \in BOOLEAN
         /\ s.replayFrom \in Nat /\ s.buffering \in BOOLEAN /\ s.held \in Seq(Happenings(k))
         /\ s.chain \in Nat /\ s.read \in {NotRead} \union 0 .. k /\ s.failed \in BOOLEAN
BY DEF Streams

LEMMA ChannelMade ==
  ASSUME NEW k \in Nat, NEW s \in Streams(k), NEW b, IsBuffer(b, Generations, Framed(k)),
         NEW o \in Seq(NumberedOf(k)), IsStream(s, b)
  PROVE  [stream |-> s, frames |-> b, out |-> o] \in Channels(k)
<1>1. b \in [generation : Generations, nextSeq : Nat \ {0},
             entries : Seq([seq : Nat \ {0}, event : Framed(k)])]
  BY DEF IsBuffer
<1> DEFINE B == [generation : Generations, nextSeq : Nat \ {0},
                 entries : Seq([seq : Nat \ {0}, event : Framed(k)])]
<1>2. b \in B
  BY <1>1
<1> HIDE DEF B
<1>3. Channels(k) = {d \in [stream : Streams(k), frames : B, out : Seq(NumberedOf(k))] :
                       IsBuffer(d.frames, Generations, Framed(k)) /\ IsStream(d.stream, d.frames)}
  BY DEF Channels, B
<1>4. PICK c : c = [stream |-> s, frames |-> b, out |-> o]
  OBVIOUS
<1>5. c \in [stream : Streams(k), frames : B, out : Seq(NumberedOf(k))]
  BY <1>2, <1>4
<1>6. c.stream = s /\ c.frames = b
  BY <1>4
<1> QED BY <1>3, <1>4, <1>5, <1>6

(* The record of a channel with one part replaced.                           *)
LEMMA ChannelUpdates ==
  ASSUME NEW s, NEW b, NEW o, NEW c, c = [stream |-> s, frames |-> b, out |-> o]
  PROVE  /\ \A t : [c EXCEPT !.stream = t] = [stream |-> t, frames |-> b, out |-> o]
         /\ \A q : [c EXCEPT !.frames = q] = [stream |-> s, frames |-> q, out |-> o]
         /\ \A r : [c EXCEPT !.out = r] = [stream |-> s, frames |-> b, out |-> r]
         /\ c.stream = s /\ c.frames = b /\ c.out = o
OBVIOUS

(* A frame that is dispatched goes to the buffer and to the connections.     *)
LEMMA DispatchedChannel ==
  ASSUME NEW k \in Nat, NEW c \in Channels(k), NEW f \in Framed(k)
  PROVE  LET d == Dispatched(c, f)
         IN  /\ d \in Channels(k) /\ d.stream = c.stream
             /\ d.frames = Push(c.frames, f) /\ d.frames.generation = c.frames.generation
             /\ d.frames.nextSeq = c.frames.nextSeq + 1
             /\ d.out = Append(c.out, Numbered(c.frames.nextSeq, f))
             /\ LatestSequence(d.frames) = c.frames.nextSeq
<1> DEFINE b == c.frames
           p == Push(b, f)
           m == Numbered(b.nextSeq, f)
           o == Append(c.out, m)
<1>1. /\ c.stream \in Streams(k) /\ IsBuffer(b, Generations, Framed(k))
      /\ c.out \in Seq(NumberedOf(k)) /\ IsStream(c.stream, b)
      /\ c = [stream |-> c.stream, frames |-> b, out |-> c.out]
  BY ChannelFields
<1>2. /\ IsBuffer(p, Generations, Framed(k)) /\ p.nextSeq = b.nextSeq + 1
      /\ p.generation = b.generation
  BY <1>1, PushIsBuffer
<1>3. LatestSequence(p) = b.nextSeq /\ LatestSequence(b) = b.nextSeq - 1 /\ b.nextSeq \in Nat
  <2>1. LatestSequence(p) = p.nextSeq - 1 /\ LatestSequence(b) = b.nextSeq - 1 /\ b.nextSeq \in Nat
    BY <1>1, <1>2, RetainedWindow
  <2> QED BY <1>2, <2>1
<1>4. m \in NumberedOf(k)
  BY <1>3 DEF Numbered, NumberedOf
<1>5. o \in Seq(NumberedOf(k))
  BY <1>1, <1>4
<1>6. IsStream(c.stream, p)
  <2>1. c.stream.replayFrom \in Nat
    BY <1>1, StreamFields
  <2> QED BY <1>1, <1>3, <2>1 DEF IsStream
<1>7. Dispatched(c, f) = [stream |-> c.stream, frames |-> p, out |-> o]
  <2>1. PICK d : d = [c EXCEPT !.frames = p]
    OBVIOUS
  <2> HIDE DEF p, b
  <2>2. d = [stream |-> c.stream, frames |-> p, out |-> c.out] /\ d.out = c.out
    BY <1>1, <2>1, ChannelUpdates
  <2>3. [d EXCEPT !.out = o] = [stream |-> c.stream, frames |-> p, out |-> o]
    <3> HIDE DEF o
    <3> QED BY <2>2, ChannelUpdates
  <2>4. Dispatched(c, f) = [d EXCEPT !.out = Append(@, m)]
    BY <2>1 DEF Dispatched, p, b
  <2> HIDE DEF m
  <2> QED BY <2>2, <2>3, <2>4
<1> HIDE DEF b, p, o, m
<1>8. [stream |-> c.stream, frames |-> p, out |-> o] \in Channels(k)
  BY <1>1, <1>2, <1>5, <1>6, ChannelMade
<1> QED BY <1>2, <1>3, <1>7, <1>8 DEF b, p, o, m

(* A refresh that is queued holds back what comes.                           *)
LEMMA RefreshQueuedChannel ==
  ASSUME NEW k \in Nat, NEW c \in Channels(k)
  PROVE  LET d == RefreshQueued(c)
         IN  /\ d \in Channels(k) /\ d.frames = c.frames /\ d.out = c.out
             /\ d.stream = [c.stream EXCEPT !.buffering = TRUE, !.chain = @ + 1]
<1>1. /\ c.stream \in Streams(k) /\ IsBuffer(c.frames, Generations, Framed(k))
      /\ c.out \in Seq(NumberedOf(k)) /\ IsStream(c.stream, c.frames)
      /\ c = [stream |-> c.stream, frames |-> c.frames, out |-> c.out]
  BY ChannelFields
<1> DEFINE s == [c.stream EXCEPT !.buffering = TRUE, !.chain = @ + 1]
<1>2. /\ s \in Streams(k) /\ s.buffering = TRUE /\ s.chain = c.stream.chain + 1
      /\ s.replayFrom = c.stream.replayFrom
  <2>1. PICK t : t = [c.stream EXCEPT !.buffering = TRUE]
    OBVIOUS
  <2>2. t \in Streams(k) /\ t.buffering = TRUE /\ t.chain = c.stream.chain /\ t.replayFrom = c.stream.replayFrom
    BY <1>1, <2>1 DEF Streams
  <2>3. s = [t EXCEPT !.chain = @ + 1]
    BY <2>1
  <2>4. c.stream.chain + 1 \in Nat
    BY <1>1, StreamFields
  <2>5. \A x \in Nat : [t EXCEPT !.chain = x] \in Streams(k)
    BY <2>2 DEF Streams
  <2>6. /\ s \in Streams(k) /\ s.chain = c.stream.chain + 1
        /\ s.buffering = t.buffering /\ s.replayFrom = t.replayFrom
    BY <2>2, <2>3, <2>4, <2>5 DEF Streams
  <2> QED BY <2>2, <2>6
<1>3. IsStream(s, c.frames)
  <2> HIDE DEF s
  <2> QED BY <1>1, <1>2 DEF IsStream
<1>4. RefreshQueued(c) = [stream |-> s, frames |-> c.frames, out |-> c.out]
  <2>1. PICK t : t = [c.stream EXCEPT !.buffering = TRUE]
    OBVIOUS
  <2>2. PICK d : d = [c EXCEPT !.stream = t]
    OBVIOUS
  <2>3. d = [stream |-> t, frames |-> c.frames, out |-> c.out] /\ d.stream = t
    BY <1>1, <2>2, ChannelUpdates
  <2>4. RefreshQueued(c) = [d EXCEPT !.stream.chain = @ + 1]
    BY <2>1, <2>2 DEF RefreshQueued
  <2>5. [d EXCEPT !.stream.chain = @ + 1] = [d EXCEPT !.stream = [t EXCEPT !.chain = @ + 1]]
    BY <2>3
  <2>6. s = [t EXCEPT !.chain = @ + 1]
    BY <2>1
  <2> HIDE DEF s
  <2> QED BY <2>3, <2>4, <2>5, <2>6, ChannelUpdates
<1> HIDE DEF s
<1>5. [stream |-> s, frames |-> c.frames, out |-> c.out] \in Channels(k)
  BY <1>1, <1>2, <1>3, ChannelMade
<1> QED BY <1>4, <1>5 DEF s

(* What the end of the child marks.                                          *)
LEMMA MarkedChannel ==
  ASSUME NEW k \in Nat, NEW c \in Channels(k), NEW over \in BOOLEAN
  PROVE  LET d == [c EXCEPT !.stream.terminal = @ \/ over]
         IN  /\ d \in Channels(k) /\ d.frames = c.frames /\ d.out = c.out
             /\ d.stream = [c.stream EXCEPT !.terminal = @ \/ over]
<1>1. /\ c.stream \in Streams(k) /\ IsBuffer(c.frames, Generations, Framed(k))
      /\ c.out \in Seq(NumberedOf(k)) /\ IsStream(c.stream, c.frames)
      /\ c = [stream |-> c.stream, frames |-> c.frames, out |-> c.out]
  BY ChannelFields
<1> DEFINE s == [c.stream EXCEPT !.terminal = @ \/ over]
<1>2. s \in Streams(k)
  <2>1. \A x \in BOOLEAN : [c.stream EXCEPT !.terminal = x] \in Streams(k)
    BY <1>1 DEF Streams
  <2> QED BY <2>1
<1>3. s.replayFrom = c.stream.replayFrom
  BY <1>1 DEF Streams
<1>4. IsStream(s, c.frames)
  <2> HIDE DEF s
  <2> QED BY <1>1, <1>3 DEF IsStream
<1>5. [c EXCEPT !.stream.terminal = @ \/ over]
        = [stream |-> s, frames |-> c.frames, out |-> c.out]
  <2>1. PICK t : t = c.stream
    OBVIOUS
  <2>2. PICK r : r = c.out
    OBVIOUS
  <2>3. PICK q : q = c.frames
    OBVIOUS
  <2>4. c = [stream |-> t, frames |-> q, out |-> r]
    BY <1>1, <2>1, <2>2, <2>3
  <2> QED BY <2>1, <2>2, <2>3, <2>4
<1> HIDE DEF s
<1>6. [stream |-> s, frames |-> c.frames, out |-> c.out] \in Channels(k)
  BY <1>1, <1>2, <1>4, ChannelMade
<1> QED BY <1>5, <1>6 DEF s

(* What an event announces: its frame, unless it is a close without reason.  *)
LEMMA AnnouncedChannel ==
  ASSUME NEW k \in Nat, NEW c \in Channels(k), NEW e \in Happenings(k)
  PROVE  LET d == Announced(c, e)
         IN  /\ d \in Channels(k)
             /\ d.stream = [c.stream EXCEPT !.terminal = @ \/ e.kind \in {"closed", "failed"}]
             /\ \/ d.frames = c.frames /\ d.out = c.out /\ e.n = 0
                \/ \E f \in Framed(k) : Dispatches(c, d, f) /\ (e.n # 0 => Shows(f, e.n))
<1> DEFINE over == e.kind \in {"closed", "failed"}
           marked == [c EXCEPT !.stream.terminal = @ \/ over]
<1>1. over \in BOOLEAN
  OBVIOUS
<1>2. /\ marked \in Channels(k) /\ marked.frames = c.frames /\ marked.out = c.out
      /\ marked.stream = [c.stream EXCEPT !.terminal = @ \/ over]
  <2> HIDE DEF over
  <2> QED BY <1>1, MarkedChannel
<1>3. Announced(c, e) = CASE e.kind = "closed" -> marked
                          [] e.kind = "failed" -> Dispatched(marked, Failure)
                          [] e.kind = "reset"  -> Dispatched(marked, SessionReset(e.n))
                          [] OTHER             -> Dispatched(marked, Told(e.n))
  BY DEF Announced
<1> HIDE DEF marked
<1>4. CASE e.kind = "closed"
  <2>1. e.n = 0
    BY <1>4 DEF Happenings
  <2>2. Announced(c, e) = marked
    BY <1>3, <1>4
  <2> QED BY <1>2, <2>1, <2>2
<1>5. ASSUME NEW f \in Framed(k), f.type # "session_snapshot", e.n # 0 => Shows(f, e.n),
             Announced(c, e) = Dispatched(marked, f)
      PROVE  LET d == Announced(c, e)
             IN  /\ d \in Channels(k)
                 /\ d.stream = [c.stream EXCEPT !.terminal = @ \/ over]
                 /\ Dispatches(c, d, f)
  <2>1. LET d == Dispatched(marked, f)
         IN  /\ d \in Channels(k) /\ d.stream = marked.stream
             /\ d.frames = Push(marked.frames, f)
             /\ d.out = Append(marked.out, Numbered(marked.frames.nextSeq, f))
    <3>1. marked \in Channels(k) /\ f \in Framed(k)
      BY <1>2, <1>5
    <3> QED BY <3>1, DispatchedChannel
  <2> QED BY <1>2, <1>5, <2>1 DEF Dispatches, Adds
<1>6. CASE e.kind = "failed"
  <2>1. Failure \in Framed(k) /\ Failure.type # "session_snapshot" /\ e.n = 0
    BY <1>6 DEF Failure, Framed, Happenings
  <2>2. Announced(c, e) = Dispatched(marked, Failure)
    BY <1>3, <1>6
  <2> QED BY <1>5, <2>1, <2>2
<1>7. CASE e.kind = "reset"
  <2>1. /\ SessionReset(e.n) \in Framed(k) /\ SessionReset(e.n).type # "session_snapshot"
        /\ Shows(SessionReset(e.n), e.n)
    BY <1>7 DEF SessionReset, Framed, Happenings, Shows
  <2>2. Announced(c, e) = Dispatched(marked, SessionReset(e.n))
    BY <1>3, <1>7
  <2> QED BY <1>5, <2>1, <2>2
<1>8. CASE e.kind \notin {"closed", "failed", "reset"}
  <2>1. Told(e.n) \in Framed(k) /\ Told(e.n).type # "session_snapshot" /\ Shows(Told(e.n), e.n)
    BY <1>8 DEF Told, Framed, Happenings, Shows
  <2>2. Announced(c, e) = Dispatched(marked, Told(e.n))
    BY <1>3, <1>8
  <2> QED BY <1>5, <2>1, <2>2
<1> QED BY <1>4, <1>6, <1>7, <1>8

LEMMA HandledChannel ==
  ASSUME NEW k \in Nat, NEW c \in Channels(k), NEW e \in Happenings(k)
  PROVE  LET d == Handled(c, e)
         IN  /\ d \in Channels(k) /\ StreamKept(c.stream, d.stream)
             /\ d.stream.held = c.stream.held /\ (Balanced(c.stream) => Balanced(d.stream))
             /\ e.kind \in {"closed", "failed"} => d.stream.terminal /\ d.stream.chain > 0
             /\ e.kind # "message" => d.stream.chain > 0
             /\ \/ d.frames = c.frames /\ d.out = c.out /\ e.n = 0
                \/ \E f \in Framed(k) : Dispatches(c, d, f) /\ (e.n # 0 => Shows(f, e.n))
<1> DEFINE over == e.kind \in {"closed", "failed"}
<1>1. PICK a : a = Announced(c, e)
  OBVIOUS
<1>2. /\ a \in Channels(k)
      /\ a.stream = [c.stream EXCEPT !.terminal = @ \/ over]
      /\ \/ a.frames = c.frames /\ a.out = c.out /\ e.n = 0
         \/ \E f \in Framed(k) : Dispatches(c, a, f) /\ (e.n # 0 => Shows(f, e.n))
  BY <1>1, AnnouncedChannel
<1>3. c.stream \in Streams(k) /\ a.stream \in Streams(k)
  BY <1>2, ChannelFields
<1>4. /\ a.stream.phase = c.stream.phase /\ a.stream.refs = c.stream.refs
      /\ a.stream.upto = c.stream.upto /\ a.stream.replayFrom = c.stream.replayFrom
      /\ a.stream.read = c.stream.read /\ a.stream.chain = c.stream.chain
      /\ a.stream.failed = c.stream.failed
      /\ a.stream.held = c.stream.held /\ a.stream.buffering = c.stream.buffering
      /\ c.stream.terminal => a.stream.terminal
      /\ over => a.stream.terminal
      /\ a.stream.terminal => c.stream.terminal \/ over
  <2> HIDE DEF over
  <2> QED BY <1>2, <1>3, SMTT(30) DEF Streams
<1>5. a.stream.chain \in Nat
  BY <1>3, StreamFields
<1>6. CASE e.kind = "message"
  <2>1. Handled(c, e) = a
    BY <1>1, <1>6 DEF Handled
  <2>2. StreamKept(c.stream, a.stream)
    <3>1. ~over
      BY <1>6
    <3> HIDE DEF over
    <3> QED BY <1>4, <1>5, <3>1 DEF StreamKept
  <2>3. Balanced(c.stream) => Balanced(a.stream)
    <3> HIDE DEF over
    <3> QED BY <1>4 DEF Balanced
  <2> QED BY <1>2, <1>4, <1>6, <2>1, <2>2, <2>3
<1>7. CASE e.kind # "message"
  <2>1. PICK d : d = RefreshQueued(a)
    OBVIOUS
  <2>2. /\ d \in Channels(k) /\ d.frames = a.frames /\ d.out = a.out
        /\ d.stream = [a.stream EXCEPT !.buffering = TRUE, !.chain = @ + 1]
    BY <1>2, <2>1, RefreshQueuedChannel
  <2>3. Handled(c, e) = d
    BY <1>1, <1>7, <2>1 DEF Handled
  <2>4. /\ d.stream.phase = a.stream.phase /\ d.stream.refs = a.stream.refs
        /\ d.stream.upto = a.stream.upto /\ d.stream.replayFrom = a.stream.replayFrom
        /\ d.stream.read = a.stream.read /\ d.stream.held = a.stream.held
        /\ d.stream.failed = a.stream.failed /\ d.stream.terminal = a.stream.terminal
        /\ d.stream.chain = a.stream.chain + 1 /\ d.stream.buffering = TRUE
    <3>1. PICK t : t = [a.stream EXCEPT !.buffering = TRUE]
      OBVIOUS
    <3>2. d.stream = [t EXCEPT !.chain = @ + 1] /\ t \in Streams(k)
      BY <1>3, <2>2, <3>1 DEF Streams
    <3> QED BY <1>3, <3>1, <3>2 DEF Streams
  <2>5. StreamKept(c.stream, d.stream) /\ d.stream.chain > 0
    <3> HIDE DEF over
    <3> QED BY <1>4, <1>5, <2>4 DEF StreamKept
  <2>8. Balanced(d.stream)
    BY <2>4, <2>5 DEF Balanced
  <2>6. over => d.stream.terminal
    BY <1>4, <2>4
  <2>7. \/ d.frames = c.frames /\ d.out = c.out /\ e.n = 0
        \/ \E f \in Framed(k) : Dispatches(c, d, f) /\ (e.n # 0 => Shows(f, e.n))
    BY <1>2, <2>2 DEF Dispatches, Adds
  <2> QED BY <1>4, <2>2, <2>3, <2>4, <2>5, <2>6, <2>7, <2>8
<1> QED BY <1>6, <1>7

------------------------------------------------------------------------------
(* The events that were held back                                            *)

(* Drained is defined by recursion over what is held; there is such a         *)
(* function.                                                                 *)
LEMMA ThroughExists ==
  ASSUME NEW c, NEW n \in Nat
  PROVE  \E g : g = [i \in 0 .. n |->
            IF i = 0 THEN [c EXCEPT !.stream.buffering = FALSE, !.stream.held = <<>>]
            ELSE Handled(g[i - 1], c.stream.held[i])]
<1> DEFINE base == [c EXCEPT !.stream.buffering = FALSE, !.stream.held = <<>>]
           Step(g, i) == IF i = 0 THEN base ELSE Handled(g[i - 1], c.stream.held[i])
           Upto(j) == \E g : g = [i \in 0 .. j |-> Step(g, i)]
           Good == {j \in Nat : Upto(j)}
<1> HIDE DEF base
<1>1. 0 \in Good
  <2> DEFINE g == [i \in 0 .. 0 |-> base]
  <2>1. \A i \in 0 .. 0 : Step(g, i) = base
    OBVIOUS
  <2>2. g = [i \in 0 .. 0 |-> Step(g, i)]
    <3> HIDE DEF Step
    <3> QED BY <2>1
  <2> HIDE DEF g
  <2> QED BY <2>2
<1>2. ASSUME NEW j \in Nat, j \in Good PROVE j + 1 \in Good
  <2>1. PICK h : h = [i \in 0 .. j |-> Step(h, i)]
    <3> HIDE DEF Step
    <3> QED BY <1>2
  <2> DEFINE last == Handled(h[j], c.stream.held[j + 1])
             g == [i \in 0 .. j + 1 |-> IF i = j + 1 THEN last ELSE h[i]]
  <2>2. \A i \in 0 .. j : g[i] = h[i]
    OBVIOUS
  <2>3. g[j + 1] = last /\ g[(j + 1) - 1] = h[j]
    OBVIOUS
  <2>4. \A i \in 0 .. j : i # 0 => g[i - 1] = h[i - 1]
    BY <2>2
  <2> HIDE DEF g
  <2>5. \A i \in 0 .. j : g[i] = Step(g, i)
    <3>1. \A i \in 0 .. j : Step(g, i) = Step(h, i)
      BY <2>4
    <3>2. \A i \in 0 .. j : h[i] = Step(h, i)
      <4> HIDE DEF Step
      <4> QED BY <2>1
    <3> HIDE DEF Step
    <3> QED BY <2>2, <3>1, <3>2
  <2>6. g[j + 1] = Step(g, j + 1)
    BY <2>3
  <2>7. \A i \in 0 .. j + 1 : i \in 0 .. j \/ i = j + 1
    OBVIOUS
  <2>8. g = [i \in 0 .. j + 1 |-> Step(g, i)]
    <3> HIDE DEF Step
    <3>1. \A i \in 0 .. j + 1 : g[i] = Step(g, i)
      BY <2>5, <2>6, <2>7
    <3>2. g = [i \in 0 .. j + 1 |-> g[i]]
      BY DEF g
    <3> QED BY <3>1, <3>2
  <2>9. Upto(j + 1)
    <3> HIDE DEF Step
    <3> QED BY <2>8
  <2> HIDE DEF Upto
  <2> QED BY <2>9
<1>3. \A j \in Nat : j \in Good
  <2> HIDE DEF Good
  <2> QED BY <1>1, <1>2, SetInduction
<1> QED BY <1>3 DEF base

(* What holds of the channel that starts, and is handed on by each event,    *)
(* holds of the one that comes out.                                          *)
LEMMA DrainedIn ==
  ASSUME NEW c, c.stream.held \in Seq(Range(c.stream.held)), NEW Ch,
         [c EXCEPT !.stream.buffering = FALSE, !.stream.held = <<>>] \in Ch[0],
         \A i \in 1 .. Len(c.stream.held) : \A b \in Ch[i - 1] :
           Handled(b, c.stream.held[i]) \in Ch[i]
  PROVE  Drained(c) \in Ch[Len(c.stream.held)]
<1> DEFINE m == Len(c.stream.held)
           Eq(g) == g = [i \in 0 .. m |->
              IF i = 0 THEN [c EXCEPT !.stream.buffering = FALSE, !.stream.held = <<>>]
              ELSE Handled(g[i - 1], c.stream.held[i])]
           through == CHOOSE g : Eq(g)
<1>1. Drained(c) = through[m]
  BY DEF Drained
<1>2. m \in Nat
  OBVIOUS
<1>3. \E g : Eq(g)
  <2> HIDE DEF m
  <2> QED BY <1>2, ThroughExists
<1>4. Eq(through)
  <2> HIDE DEF Eq
  <2> QED BY <1>3
<1> HIDE DEF through
<1> DEFINE Good == {n \in Nat : n <= m => through[n] \in Ch[n]}
<1>5. 0 \in Good
  <2>1. through[0] = [c EXCEPT !.stream.buffering = FALSE, !.stream.held = <<>>]
    BY <1>2, <1>4
  <2> QED BY <2>1
<1>6. ASSUME NEW n \in Nat, n \in Good PROVE n + 1 \in Good
  <2>1. SUFFICES ASSUME n + 1 <= m PROVE through[n + 1] \in Ch[n + 1]
    OBVIOUS
  <2>2. through[n] \in Ch[n] /\ n + 1 \in 1 .. m /\ n + 1 \in 0 .. m /\ n + 1 # 0 /\ (n + 1) - 1 = n
    BY <1>2, <1>6, <2>1
  <2>3. through[n + 1] = Handled(through[n], c.stream.held[n + 1])
    <3> HIDE DEF m
    <3> QED BY <1>4, <2>2
  <2> QED BY <2>2, <2>3
<1>7. \A n \in Nat : n \in Good
  <2> HIDE DEF Good
  <2> QED BY <1>5, <1>6, SetInduction
<1> QED BY <1>1, <1>2, <1>7

(* What a channel dispatched, number after number, is what its buffer        *)
(* retains beyond the buffer it began with.                                  *)
Followed(b, c) ==
  /\ c.frames.generation = b.generation
  /\ c.frames.nextSeq = b.nextSeq + Len(c.out)
  /\ Lowest(b) <= Lowest(c.frames)
  /\ \A i \in 1 .. Len(c.out) : c.out[i].id = (b.nextSeq - 1) + i
  /\ \A x \in Retained(b) : x.seq >= Lowest(c.frames) => x \in Retained(c.frames)
  /\ \A i \in 1 .. Len(c.out) :
       c.out[i].id >= Lowest(c.frames) => Entry(c.out[i]) \in Retained(c.frames)
  /\ \A x \in Retained(c.frames) :
       x \in Retained(b) \/ \E i \in 1 .. Len(c.out) : x = Entry(c.out[i])

LEMMA FollowedOn ==
  ASSUME NEW k \in Nat, NEW b, IsBuffer(b, Generations, Framed(k)),
         NEW c \in Channels(k), Followed(b, c), NEW f \in Framed(k), NEW d \in Channels(k),
         Adds(c, d, f)
  PROVE  Followed(b, d)
<1> DEFINE m == Numbered(c.frames.nextSeq, f)
           old == Len(c.out)
           p == d.frames
<1>1. /\ IsBuffer(c.frames, Generations, Framed(k)) /\ c.out \in Seq(NumberedOf(k))
      /\ IsBuffer(p, Generations, Framed(k)) /\ d.out \in Seq(NumberedOf(k))
  BY ChannelFields
<1>a. p = Push(c.frames, f) /\ d.out = Append(c.out, m)
  BY DEF Adds
<1>2. p.nextSeq = c.frames.nextSeq + 1 /\ p.generation = c.frames.generation
  BY <1>1, <1>a, PushIsBuffer
<1>3. /\ c.frames.nextSeq \in Nat /\ b.nextSeq \in Nat /\ Lowest(b) \in Nat
      /\ Lowest(c.frames) \in Nat /\ Lowest(p) \in Nat
  BY <1>1, RetainedWindow
<1>4. PICK new : new = [seq |-> c.frames.nextSeq, event |-> f]
  OBVIOUS
<1>5. /\ Lowest(c.frames) <= Lowest(p) /\ Lowest(p) <= c.frames.nextSeq
      /\ \A x \in Retained(c.frames) : x.seq >= Lowest(p) => x \in Retained(p)
      /\ new \in Retained(p)
      /\ \A x \in Retained(p) : x = new \/ x \in Retained(c.frames)
  BY <1>1, <1>4, <1>a, PushRetains
<1>6. m.id = c.frames.nextSeq /\ Entry(m) = new
  BY <1>4 DEF Numbered, Entry
<1> HIDE DEF m
<1>7. /\ old \in Nat /\ Len(d.out) = old + 1 /\ d.out[old + 1] = m
      /\ \A i \in 1 .. old : d.out[i] = c.out[i]
  <2>1. m \in NumberedOf(k)
    <3>1. c.frames.nextSeq \in Nat
      BY <1>3
    <3> QED BY <3>1 DEF m, Numbered, NumberedOf
  <2> QED BY <1>1, <1>a, <2>1
<1> HIDE DEF old, p
<1>8. \A i \in 1 .. old + 1 : i \in 1 .. old \/ i = old + 1
  BY <1>7
<1>9. /\ c.frames.generation = b.generation /\ c.frames.nextSeq = b.nextSeq + old
      /\ Lowest(b) <= Lowest(c.frames)
      /\ \A i \in 1 .. old : c.out[i].id = (b.nextSeq - 1) + i
      /\ \A x \in Retained(b) : x.seq >= Lowest(c.frames) => x \in Retained(c.frames)
      /\ \A i \in 1 .. old :
           c.out[i].id >= Lowest(c.frames) => Entry(c.out[i]) \in Retained(c.frames)
      /\ \A x \in Retained(c.frames) :
           x \in Retained(b) \/ \E i \in 1 .. old : x = Entry(c.out[i])
  BY DEF Followed, old
<1>10. p.generation = b.generation /\ p.nextSeq = b.nextSeq + Len(d.out) /\ Lowest(b) <= Lowest(p)
  <2>1. c.frames.nextSeq = b.nextSeq + old /\ Len(d.out) = old + 1 /\ old \in Nat
    BY <1>7, <1>9
  <2>2. p.nextSeq = b.nextSeq + Len(d.out)
    <3>1. p.nextSeq = c.frames.nextSeq + 1 /\ b.nextSeq \in Nat
      BY <1>2, <1>3
    <3> QED BY <2>1, <3>1, SMTT(30)
  <2>3. Lowest(b) <= Lowest(p)
    BY <1>3, <1>5, <1>9
  <2>4. p.generation = b.generation
    BY <1>2, <1>9
  <2> QED BY <2>2, <2>3, <2>4
<1>11. ASSUME NEW i \in 1 .. Len(d.out) PROVE d.out[i].id = (b.nextSeq - 1) + i
  <2>1. CASE i = old + 1
    <3>1. d.out[i].id = c.frames.nextSeq
      BY <1>6, <1>7, <2>1
    <3>2. c.frames.nextSeq = b.nextSeq + old /\ old \in Nat /\ b.nextSeq \in Nat
      BY <1>3, <1>7, <1>9
    <3>3. c.frames.nextSeq = (b.nextSeq - 1) + (old + 1)
      BY <3>2, SMTT(30)
    <3> QED BY <2>1, <3>1, <3>3
  <2>2. CASE i # old + 1
    <3>1. i \in 1 .. old
      BY <1>7, <1>8, <2>2
    <3> QED BY <1>7, <1>9, <3>1
  <2> QED BY <2>1, <2>2
<1>12. ASSUME NEW x \in Retained(b), x.seq >= Lowest(p) PROVE x \in Retained(p)
  <2>1. x.seq \in Nat
    BY RetainedWindow
  <2>2. x.seq >= Lowest(c.frames)
    BY <1>3, <1>5, <1>12, <2>1
  <2> QED BY <1>5, <1>9, <1>12, <2>2
<1>13. ASSUME NEW i \in 1 .. Len(d.out), d.out[i].id >= Lowest(p)
       PROVE  Entry(d.out[i]) \in Retained(p)
  <2>1. CASE i = old + 1
    BY <1>5, <1>6, <1>7, <2>1
  <2>2. CASE i # old + 1
    <3>1. i \in 1 .. old /\ d.out[i] = c.out[i]
      BY <1>7, <1>8, <2>2
    <3>2. c.out[i].id \in Nat
      <4>1. c.out[i] \in NumberedOf(k)
        BY <1>1, <3>1 DEF old
      <4> QED BY <4>1 DEF NumberedOf
    <3>3. c.out[i].id >= Lowest(c.frames)
      BY <1>3, <1>5, <1>13, <3>1, <3>2, SMTT(30)
    <3>4. Entry(c.out[i]) \in Retained(c.frames) /\ Entry(c.out[i]).seq >= Lowest(p)
      BY <1>9, <1>13, <3>1, <3>3 DEF Entry
    <3> QED BY <1>5, <3>1, <3>4
  <2> QED BY <2>1, <2>2
<1>14. ASSUME NEW x \in Retained(p)
       PROVE  x \in Retained(b) \/ \E i \in 1 .. Len(d.out) : x = Entry(d.out[i])
  <2>1. CASE x = new
    <3>1. old + 1 \in 1 .. Len(d.out)
      BY <1>7
    <3> QED BY <1>6, <1>7, <2>1, <3>1
  <2>2. CASE x \in Retained(c.frames)
    <3>1. CASE x \in Retained(b)
      BY <3>1
    <3>2. ASSUME NEW i \in 1 .. old, x = Entry(c.out[i]) PROVE \E j \in 1 .. Len(d.out) : x = Entry(d.out[j])
      BY <1>7, <3>2
    <3> QED BY <1>9, <2>2, <3>1, <3>2
  <2> QED BY <1>5, <2>1, <2>2
<1> QED BY <1>10, <1>11, <1>12, <1>13, <1>14 DEF Followed, p

(* The first j of the events held back in c have been handled.               *)
Released(b, c, j, d, k) ==
  /\ d \in Channels(k) /\ StreamKept(c.stream, d.stream) /\ d.stream.held = <<>>
  /\ Balanced(d.stream) /\ Followed(b, d) /\ Lowest(c.frames) <= Lowest(d.frames)
  /\ Len(c.out) <= Len(d.out)
  /\ \A i \in 1 .. Len(c.out) : d.out[i] = c.out[i]
  /\ \A i \in Len(c.out) + 1 .. Len(d.out) : d.out[i].frame.type # "session_snapshot"
  /\ \A h \in 1 .. j :
       /\ c.stream.held[h].kind \in {"closed", "failed"} =>
            d.stream.terminal /\ d.stream.chain > 0
       /\ c.stream.held[h].kind # "message" => d.stream.chain > 0
       /\ c.stream.held[h].n # 0 =>
            \E i \in Len(c.out) + 1 .. Len(d.out) : Shows(d.out[i].frame, c.stream.held[h].n)

LEMMA ReleasedOn ==
  ASSUME NEW k \in Nat, NEW b, IsBuffer(b, Generations, Framed(k)),
         NEW c \in Channels(k), NEW j \in 1 .. Len(c.stream.held),
         NEW d, Released(b, c, j - 1, d, k)
  PROVE  Released(b, c, j, Handled(d, c.stream.held[j]), k)
<1> DEFINE e == c.stream.held[j]
<1>1. /\ c.stream \in Streams(k) /\ c.out \in Seq(NumberedOf(k))
  BY ChannelFields
<1>2. e \in Happenings(k) /\ Len(c.stream.held) \in Nat
  <2>1. c.stream.held \in Seq(Happenings(k))
    BY <1>1, StreamFields
  <2> QED BY <2>1
<1> HIDE DEF e
<1>3. PICK h : h = Handled(d, e)
  OBVIOUS
<1>4. /\ d \in Channels(k) /\ StreamKept(c.stream, d.stream) /\ d.stream.held = <<>>
      /\ Balanced(d.stream) /\ Followed(b, d) /\ Lowest(c.frames) <= Lowest(d.frames)
      /\ Len(c.out) <= Len(d.out)
      /\ \A i \in 1 .. Len(c.out) : d.out[i] = c.out[i]
      /\ \A i \in Len(c.out) + 1 .. Len(d.out) : d.out[i].frame.type # "session_snapshot"
      /\ \A l \in 1 .. j - 1 :
           /\ c.stream.held[l].kind \in {"closed", "failed"} =>
                d.stream.terminal /\ d.stream.chain > 0
           /\ c.stream.held[l].kind # "message" => d.stream.chain > 0
           /\ c.stream.held[l].n # 0 =>
                \E i \in Len(c.out) + 1 .. Len(d.out) : Shows(d.out[i].frame, c.stream.held[l].n)
  BY DEF Released
<1>5. /\ h \in Channels(k) /\ StreamKept(d.stream, h.stream) /\ h.stream.held = d.stream.held
      /\ Balanced(d.stream) => Balanced(h.stream)
      /\ e.kind \in {"closed", "failed"} => h.stream.terminal /\ h.stream.chain > 0
      /\ e.kind # "message" => h.stream.chain > 0
      /\ \/ h.frames = d.frames /\ h.out = d.out /\ e.n = 0
         \/ \E f \in Framed(k) : Dispatches(d, h, f) /\ (e.n # 0 => Shows(f, e.n))
  BY <1>2, <1>3, <1>4, HandledChannel
<1>6. /\ d.stream.chain \in Nat /\ h.stream.chain \in Nat /\ c.stream.chain \in Nat
      /\ d.out \in Seq(NumberedOf(k)) /\ h.out \in Seq(NumberedOf(k))
  BY <1>1, <1>4, <1>5, ChannelFields, StreamFields
<1>7. StreamKept(c.stream, h.stream)
  BY <1>4, <1>5, <1>6, SMTT(30) DEF StreamKept
<1>8. /\ d.stream.terminal => h.stream.terminal
      /\ d.stream.chain > 0 => h.stream.chain > 0
  BY <1>5, <1>6, SMTT(30) DEF StreamKept
<1>9. \A l \in 1 .. j : l \in 1 .. j - 1 \/ l = j
  BY <1>2
<1>10. \A l \in 1 .. j :
         /\ c.stream.held[l].kind \in {"closed", "failed"} =>
              h.stream.terminal /\ h.stream.chain > 0
         /\ c.stream.held[l].kind # "message" => h.stream.chain > 0
  BY <1>4, <1>5, <1>8, <1>9 DEF e
<1>11. CASE h.frames = d.frames /\ h.out = d.out /\ e.n = 0
  <2>1. Followed(b, h)
    BY <1>4, <1>11, SMTT(30) DEF Followed
  <2>2. ASSUME NEW l \in 1 .. j, c.stream.held[l].n # 0
        PROVE  \E i \in Len(c.out) + 1 .. Len(h.out) : Shows(h.out[i].frame, c.stream.held[l].n)
    <3>1. l \in 1 .. j - 1
      BY <1>9, <1>11, <2>2 DEF e
    <3> QED BY <1>4, <1>11, <2>2, <3>1
  <2>3. Released(b, c, j, h, k)
    BY <1>4, <1>5, <1>7, <1>10, <1>11, <2>1, <2>2 DEF Released
  <2> QED BY <1>3, <2>3 DEF e
<1>12. ASSUME NEW f \in Framed(k), Dispatches(d, h, f), e.n # 0 => Shows(f, e.n)
       PROVE  Released(b, c, j, h, k)
  <2>1. /\ f.type # "session_snapshot" /\ h.frames = Push(d.frames, f)
        /\ h.out = Append(d.out, Numbered(d.frames.nextSeq, f))
    BY <1>12 DEF Dispatches, Adds
  <2>2. Followed(b, h)
    <3>1. Adds(d, h, f)
      BY <1>12 DEF Dispatches
    <3> QED BY <1>4, <1>5, <3>1, FollowedOn
  <2>3. PICK m : m = Numbered(d.frames.nextSeq, f)
    OBVIOUS
  <2>4. m.frame = f
    BY <2>3 DEF Numbered
  <2>5. /\ Len(h.out) = Len(d.out) + 1 /\ h.out[Len(d.out) + 1] = m
        /\ \A i \in 1 .. Len(d.out) : h.out[i] = d.out[i]
        /\ Len(d.out) \in Nat /\ Len(c.out) \in Nat
    <3>1. h.out = Append(d.out, m)
      BY <2>1, <2>3
    <3>2. m \in NumberedOf(k)
      <4>1. d.frames.nextSeq \in Nat
        BY <1>4, ChannelFields, RetainedWindow
      <4> QED BY <2>3, <4>1 DEF Numbered, NumberedOf
    <3> QED BY <1>1, <1>6, <3>1, <3>2, SMTT(30)
  <2>6. Len(c.out) <= Len(h.out) /\ \A i \in 1 .. Len(c.out) : h.out[i] = c.out[i]
    <3>1. Len(c.out) <= Len(h.out) /\ \A i \in 1 .. Len(c.out) : i \in 1 .. Len(d.out)
      BY <1>4, <2>5, SMTT(30)
    <3> QED BY <1>4, <2>5, <3>1
  <2>7. ASSUME NEW i \in Len(c.out) + 1 .. Len(h.out) PROVE h.out[i].frame.type # "session_snapshot"
    <3>1. CASE i = Len(d.out) + 1
      BY <2>1, <2>4, <2>5, <3>1
    <3>2. CASE i # Len(d.out) + 1
      <4>1. i \in Len(c.out) + 1 .. Len(d.out) /\ i \in 1 .. Len(d.out)
        <5>1. Len(d.out) \in Nat /\ Len(c.out) \in Nat /\ Len(h.out) = Len(d.out) + 1
          BY <2>5
        <5> QED BY <3>2, <5>1, SMTT(30)
      <4> QED BY <1>4, <2>5, <4>1
    <3> QED BY <3>1, <3>2
  <2>8. ASSUME NEW l \in 1 .. j, c.stream.held[l].n # 0
        PROVE  \E i \in Len(c.out) + 1 .. Len(h.out) : Shows(h.out[i].frame, c.stream.held[l].n)
    <3>1. CASE l = j
      <4>1. Len(d.out) + 1 \in Len(c.out) + 1 .. Len(h.out)
        BY <1>4, <2>5, SMTT(30)
      <4>2. Shows(h.out[Len(d.out) + 1].frame, c.stream.held[l].n)
        BY <1>12, <2>4, <2>5, <2>8, <3>1 DEF e
      <4> QED BY <4>1, <4>2
    <3>2. CASE l \in 1 .. j - 1
      <4>1. PICK i \in Len(c.out) + 1 .. Len(d.out) : Shows(d.out[i].frame, c.stream.held[l].n)
        BY <1>4, <2>8, <3>2
      <4>2. i \in Len(c.out) + 1 .. Len(h.out) /\ i \in 1 .. Len(d.out)
        BY <2>5
      <4> QED BY <2>5, <4>1, <4>2
    <3> QED BY <1>9, <3>1, <3>2
  <2>9. Lowest(c.frames) <= Lowest(h.frames)
    <3>1. /\ IsBuffer(d.frames, Generations, Framed(k)) /\ IsBuffer(c.frames, Generations, Framed(k))
          /\ IsBuffer(h.frames, Generations, Framed(k))
      BY <1>4, <1>5, ChannelFields
    <3>2. Lowest(d.frames) <= Lowest(h.frames)
      BY <2>1, <3>1, PushRetains
    <3>3. Lowest(c.frames) \in Nat /\ Lowest(d.frames) \in Nat /\ Lowest(h.frames) \in Nat
      BY <3>1, RetainedWindow
    <3> QED BY <1>4, <3>2, <3>3
  <2> QED BY <1>4, <1>5, <1>7, <1>10, <2>2, <2>6, <2>7, <2>8, <2>9 DEF Released
<1> QED BY <1>3, <1>5, <1>11, <1>12 DEF e

LEMMA DrainedChannel ==
  ASSUME NEW k \in Nat, NEW b, IsBuffer(b, Generations, Framed(k)),
         NEW c \in Channels(k), c.stream.chain = 0, Followed(b, c)
  PROVE  Released(b, c, Len(c.stream.held), Drained(c), k)
<1> DEFINE m == Len(c.stream.held)
           start == [c EXCEPT !.stream.buffering = FALSE, !.stream.held = <<>>]
           Ch == [j \in 0 .. m |-> {d \in Channels(k) : Released(b, c, j, d, k)}]
<1>1. /\ c.stream \in Streams(k) /\ IsBuffer(c.frames, Generations, Framed(k))
      /\ c.out \in Seq(NumberedOf(k)) /\ IsStream(c.stream, c.frames)
      /\ c = [stream |-> c.stream, frames |-> c.frames, out |-> c.out]
  BY ChannelFields
<1>2. c.stream.held \in Seq(Happenings(k)) /\ m \in Nat
  BY <1>1, StreamFields
<1>3. c.stream.held \in Seq(Range(c.stream.held))
  BY <1>2 DEF Range
<1>4. start \in Channels(k) /\ Released(b, c, 0, start, k)
  <2>1. PICK t : t = [c.stream EXCEPT !.buffering = FALSE]
    OBVIOUS
  <2>2. PICK s : s = [t EXCEPT !.held = <<>>]
    OBVIOUS
  <2>3. t \in Streams(k)
    BY <1>1, <2>1 DEF Streams
  <2>4. <<>> \in Seq(Happenings(k))
    OBVIOUS
  <2>5. s \in Streams(k)
    BY <2>2, <2>3, <2>4 DEF Streams
  <2>6. /\ s.phase = c.stream.phase /\ s.refs = c.stream.refs /\ s.upto = c.stream.upto
        /\ s.replayFrom = c.stream.replayFrom /\ s.read = c.stream.read
        /\ s.terminal = c.stream.terminal /\ s.chain = c.stream.chain
        /\ s.failed = c.stream.failed /\ s.buffering = FALSE /\ s.held = <<>>
    BY <1>1, <2>1, <2>2 DEF Streams
  <2>7. start = [stream |-> s, frames |-> c.frames, out |-> c.out]
    <3>1. PICK d : d = [c EXCEPT !.stream = t]
      OBVIOUS
    <3>2. d = [stream |-> t, frames |-> c.frames, out |-> c.out] /\ d.stream = t
      BY <1>1, <3>1, ChannelUpdates
    <3>3. start = [d EXCEPT !.stream.held = <<>>]
      BY <2>1, <3>1
    <3>4. [d EXCEPT !.stream.held = <<>>] = [d EXCEPT !.stream = s]
      BY <2>2, <3>2
    <3> HIDE DEF start
    <3> QED BY <3>2, <3>3, <3>4, ChannelUpdates
  <2>8. IsStream(s, c.frames)
    BY <1>1, <2>6 DEF IsStream
  <2> HIDE DEF start
  <2>9. start \in Channels(k) /\ start.stream = s /\ start.frames = c.frames /\ start.out = c.out
    BY <1>1, <2>5, <2>7, <2>8, ChannelMade
  <2>10. StreamKept(c.stream, s)
    <3>1. c.stream.chain \in Nat
      BY <1>1, StreamFields
    <3> QED BY <2>6, <3>1 DEF StreamKept
  <2>11. Followed(b, start)
    BY <2>9 DEF Followed
  <2>12. Len(c.out) \in Nat
    BY <1>1
  <2>13. Balanced(s)
    BY <2>6 DEF Balanced
  <2>14. Lowest(c.frames) <= Lowest(start.frames)
    <3>1. Lowest(c.frames) \in Nat
      BY <1>1, RetainedWindow
    <3> QED BY <2>9, <3>1
  <2> QED BY <2>6, <2>9, <2>10, <2>11, <2>12, <2>13, <2>14 DEF Released
<1>5. start \in Ch[0]
  <2> HIDE DEF start
  <2> QED BY <1>2, <1>4
<1>6. ASSUME NEW j \in 1 .. m, NEW d \in Ch[j - 1] PROVE Handled(d, c.stream.held[j]) \in Ch[j]
  <2>1. Released(b, c, j - 1, d, k)
    BY <1>2
  <2>2. Released(b, c, j, Handled(d, c.stream.held[j]), k)
    BY <2>1, ReleasedOn
  <2>3. Handled(d, c.stream.held[j]) \in Channels(k)
    BY <2>2 DEF Released
  <2> QED BY <1>2, <2>2, <2>3
<1>7. Drained(c) \in Ch[m]
  <2> HIDE DEF Ch
  <2> QED BY <1>3, <1>5, <1>6, DrainedIn
<1> QED BY <1>2, <1>7

------------------------------------------------------------------------------
(* What is dispatched shows what was held back                               *)

LEMMA AfterFollowed ==
  ASSUME NEW k \in Nat, NEW b, IsBuffer(b, Generations, Framed(k)),
         NEW c \in Channels(k), Followed(b, c), NEW q \in Nat, q + 1 >= Lowest(c.frames), NEW n
  PROVE  /\ After(b, q, n) => After(c.frames, q, n)
         /\ \A i \in 1 .. Len(c.out) :
              c.out[i].id > q /\ Shows(c.out[i].frame, n) => After(c.frames, q, n)
<1>1. IsBuffer(c.frames, Generations, Framed(k)) /\ c.out \in Seq(NumberedOf(k))
  BY ChannelFields
<1>2. Lowest(c.frames) \in Nat
  BY <1>1, RetainedWindow
<1>3. ASSUME After(b, q, n) PROVE After(c.frames, q, n)
  <2>1. PICK x \in Retained(b) : x.seq > q /\ Shows(x.event, n)
    BY <1>3 DEF After
  <2>2. x.seq \in Nat
    BY <2>1, RetainedWindow
  <2>3. x.seq >= Lowest(c.frames)
    BY <1>2, <2>1, <2>2
  <2>4. x \in Retained(c.frames)
    BY <2>3 DEF Followed
  <2> QED BY <2>1, <2>4 DEF After
<1>4. ASSUME NEW i \in 1 .. Len(c.out), c.out[i].id > q, Shows(c.out[i].frame, n)
      PROVE  After(c.frames, q, n)
  <2>1. c.out[i].id \in Nat
    <3>1. c.out[i] \in NumberedOf(k)
      BY <1>1
    <3> QED BY <3>1 DEF NumberedOf
  <2>2. c.out[i].id >= Lowest(c.frames)
    BY <1>2, <1>4, <2>1
  <2>3. Entry(c.out[i]) \in Retained(c.frames)
    BY <2>2 DEF Followed
  <2>4. Entry(c.out[i]).seq = c.out[i].id /\ Entry(c.out[i]).event = c.out[i].frame
    BY DEF Entry
  <2> QED BY <1>4, <2>3, <2>4 DEF After
<1> QED BY <1>3, <1>4

ShownBy(o, i, n) == \E j \in i .. Len(o) : Shows(o[j].frame, n)

(* A channel that began with stream s and buffer b, k0 events before: what s *)
(* held back, and what is new, is dispatched or held back, and every         *)
(* snapshot is followed.                                                     *)
Sound(c, s, b, k0, k, over) ==
  /\ c \in Channels(k) /\ Balanced(c.stream) /\ c.stream.phase = "open"
  /\ c.stream.refs = s.refs /\ Followed(b, c)
  /\ s.terminal => c.stream.terminal
  /\ \A n \in 1 .. k : n > k0 \/ HeldBack(s, n) => HeldBack(c.stream, n) \/ ShownBy(c.out, 1, n)
  /\ \A i \in 1 .. Len(c.out), n \in 1 .. k :
       Drops(c.out[i].frame, n) => HeldBack(c.stream, n) \/ ShownBy(c.out, i + 1, n)
  /\ \A i \in 1 .. Len(c.out) : Ends(c.out[i]) => c.stream.terminal
  /\ Awaiting(c.stream, k, over)
  /\ SnapshotFollowed(c.stream, c.frames, k)

(* A channel is drained after what it dispatched before; a stream that ends  *)
(* then is refreshed once more.                                              *)
DrainsOn(c, d) ==
  /\ d.stream.terminal => c.stream.terminal \/ d.stream.chain > 0
  /\ Len(c.out) <= Len(d.out)
  /\ \A i \in 1 .. Len(c.out) : d.out[i] = c.out[i]

(* A stream whose events are released.                                       *)
LEMMA ReleasedSound ==
  ASSUME NEW k \in Nat, NEW b, IsBuffer(b, Generations, Framed(k)), NEW s, NEW k0 \in Nat,
         NEW over \in BOOLEAN,
         NEW c \in Channels(k), c.stream.phase = "open", c.stream.chain = 0,
         c.stream.read = NotRead,
         c.stream.refs = s.refs, Followed(b, c), s.terminal => c.stream.terminal,
         \A n \in 1 .. k : n > k0 \/ HeldBack(s, n) => HeldBack(c.stream, n),
         \A i \in 1 .. Len(c.out), n \in 1 .. k :
           Drops(c.out[i].frame, n) => HeldBack(c.stream, n) \/ ShownBy(c.out, i + 1, n),
         \A i \in 1 .. Len(c.out) : Ends(c.out[i]) => c.stream.terminal,
         over => c.stream.terminal \/ EndHeld(c.stream),
         SnapshotFollowed(c.stream, c.frames, k)
  PROVE  Sound(Drained(c), s, b, k0, k, over) /\ DrainsOn(c, Drained(c))
<1>1. PICK d : d = Drained(c)
  OBVIOUS
<1>2. Released(b, c, Len(c.stream.held), d, k)
  BY <1>1, DrainedChannel
<1>3. /\ d \in Channels(k) /\ StreamKept(c.stream, d.stream) /\ d.stream.held = <<>>
      /\ Balanced(d.stream) /\ Followed(b, d) /\ Lowest(c.frames) <= Lowest(d.frames)
      /\ Len(c.out) <= Len(d.out)
      /\ \A i \in 1 .. Len(c.out) : d.out[i] = c.out[i]
      /\ \A i \in Len(c.out) + 1 .. Len(d.out) : d.out[i].frame.type # "session_snapshot"
      /\ \A h \in 1 .. Len(c.stream.held) :
           /\ c.stream.held[h].kind \in {"closed", "failed"} =>
                d.stream.terminal /\ d.stream.chain > 0
           /\ c.stream.held[h].n # 0 =>
                \E i \in Len(c.out) + 1 .. Len(d.out) :
                  Shows(d.out[i].frame, c.stream.held[h].n)
  BY <1>2 DEF Released
<1>4. /\ c.stream \in Streams(k) /\ IsBuffer(c.frames, Generations, Framed(k))
      /\ c.out \in Seq(NumberedOf(k)) /\ IsStream(c.stream, c.frames)
      /\ d.stream \in Streams(k) /\ IsBuffer(d.frames, Generations, Framed(k))
      /\ d.out \in Seq(NumberedOf(k))
  BY <1>3, ChannelFields
<1>5. DOMAIN c.stream.held = 1 .. Len(c.stream.held)
  <2>1. c.stream.held \in Seq(Happenings(k))
    BY <1>4, StreamFields
  <2> QED BY <2>1
<1>6. Len(c.out) \in Nat /\ Len(d.out) \in Nat
  BY <1>4
<1>7. ASSUME NEW n \in 1 .. k, HeldBack(c.stream, n)
      PROVE  \E i \in Len(c.out) + 1 .. Len(d.out) : Shows(d.out[i].frame, n)
  <2>1. PICK h \in 1 .. Len(c.stream.held) : c.stream.held[h].n = n
    BY <1>5, <1>7 DEF HeldBack
  <2>2. c.stream.held[h].n # 0
    BY <2>1
  <2> QED BY <1>3, <2>1, <2>2
<1>8. ASSUME NEW n \in 1 .. k, HeldBack(c.stream, n), NEW i \in 1 .. Len(c.out) + 1
      PROVE  ShownBy(d.out, i, n)
  <2>1. PICK j \in Len(c.out) + 1 .. Len(d.out) : Shows(d.out[j].frame, n)
    BY <1>7, <1>8
  <2>2. j \in i .. Len(d.out)
    BY <1>6
  <2> QED BY <2>1, <2>2 DEF ShownBy
<1>9. ASSUME NEW i \in 1 .. Len(d.out), NEW n \in 1 .. k, Drops(d.out[i].frame, n)
      PROVE  ShownBy(d.out, i + 1, n)
  <2>1. i \in 1 .. Len(c.out)
    <3>1. d.out[i].frame.type = "session_snapshot"
      BY <1>9 DEF Drops
    <3>2. i \notin Len(c.out) + 1 .. Len(d.out)
      BY <1>3, <3>1
    <3> QED BY <1>6, <3>2
  <2>2. Drops(c.out[i].frame, n)
    BY <1>3, <1>9, <2>1
  <2>3. CASE HeldBack(c.stream, n)
    <3>1. i + 1 \in 1 .. Len(c.out) + 1
      BY <1>6, <2>1
    <3> QED BY <1>8, <2>3, <3>1
  <2>4. CASE ShownBy(c.out, i + 1, n)
    <3>1. PICK j \in i + 1 .. Len(c.out) : Shows(c.out[j].frame, n)
      BY <2>4 DEF ShownBy
    <3>2. j \in 1 .. Len(c.out) /\ j \in i + 1 .. Len(d.out)
      BY <1>3, <1>6
    <3> QED BY <1>3, <3>1, <3>2 DEF ShownBy
  <2> QED BY <2>1, <2>2, <2>3, <2>4
<1>10. /\ d.stream.phase = "open" /\ d.stream.refs = s.refs /\ (s.terminal => d.stream.terminal)
       /\ d.stream.read = NotRead /\ d.stream.upto = c.stream.upto
       /\ d.stream.replayFrom = c.stream.replayFrom
  BY <1>3 DEF StreamKept
<1>11. Awaiting(d.stream, k, over)
  <2>1. EndHeld(c.stream) => d.stream.terminal
    BY <1>3, <1>5 DEF EndHeld
  <2>2. c.stream.terminal => d.stream.terminal
    BY <1>3 DEF StreamKept
  <2> QED BY <1>3, <1>10, <2>1, <2>2 DEF Awaiting
<1>12. SnapshotFollowed(d.stream, d.frames, k)
  <2> DEFINE q == c.stream.replayFrom
  <2>1. SUFFICES ASSUME q + 1 >= Lowest(d.frames), NEW n \in 1 .. k
                 PROVE  n <= c.stream.upto \/ After(d.frames, q, n)
    BY <1>10 DEF SnapshotFollowed
  <2>2. /\ q \in Nat /\ Lowest(c.frames) \in Nat /\ Lowest(d.frames) \in Nat
        /\ LatestSequence(c.frames) = c.frames.nextSeq - 1 /\ c.frames.nextSeq \in Nat
        /\ b.nextSeq \in Nat
    <3>1. q \in Nat
      BY <1>4, StreamFields
    <3>2. IsBuffer(c.frames, Generations, Framed(k)) /\ IsBuffer(d.frames, Generations, Framed(k))
      BY <1>4
    <3> QED BY <3>1, <3>2, RetainedWindow
  <2>3. q < c.frames.nextSeq
    BY <1>4, <2>2 DEF IsStream
  <2>4. q + 1 >= Lowest(c.frames)
    BY <1>3, <2>1, <2>2, SMTT(30)
  <2> HIDE DEF q
  <2>5. CASE HeldBack(c.stream, n)
    <3>1. PICK i \in Len(c.out) + 1 .. Len(d.out) : Shows(d.out[i].frame, n)
      BY <1>7, <2>5
    <3>2. i \in 1 .. Len(d.out) /\ i \in Nat
      BY <1>6
    <3>3. d.out[i].id = (b.nextSeq - 1) + i /\ c.frames.nextSeq = b.nextSeq + Len(c.out)
      BY <1>3, <3>2 DEF Followed
    <3>4. d.out[i].id > q
      <4>1. i > Len(c.out) /\ Len(c.out) \in Nat /\ i \in Nat
        BY <1>6, <3>2
      <4>2. (b.nextSeq - 1) + i >= b.nextSeq + Len(c.out)
        <5>1. b.nextSeq \in Nat
          BY <2>2
        <5> QED BY <4>1, <5>1
      <4>3. d.out[i].id >= c.frames.nextSeq
        BY <3>3, <4>2
      <4>4. d.out[i].id \in Nat
        <5>1. d.out[i] \in NumberedOf(k)
          BY <1>4, <3>2
        <5> QED BY <5>1 DEF NumberedOf
      <4>5. q \in Nat /\ c.frames.nextSeq \in Nat
        BY <2>2
      <4>6. \A x, y, z \in Nat : x < y /\ z >= y => z > x
        OBVIOUS
      <4> QED BY <2>3, <4>3, <4>4, <4>5, <4>6, Zenon
    <3> QED BY <1>3, <2>1, <2>2, <3>1, <3>2, <3>4, AfterFollowed
  <2>6. CASE After(c.frames, q, n)
    <3>1. PICK x \in Retained(c.frames) : x.seq > q /\ Shows(x.event, n)
      BY <2>6 DEF After
    <3>2. CASE x \in Retained(b)
      <4>1. After(b, q, n)
        BY <3>1, <3>2 DEF After
      <4> QED BY <1>3, <2>1, <2>2, <4>1, AfterFollowed
    <3>3. ASSUME NEW i \in 1 .. Len(c.out), x = Entry(c.out[i]) PROVE After(d.frames, q, n)
      <4>1. i \in 1 .. Len(d.out) /\ d.out[i] = c.out[i]
        BY <1>3, <1>6
      <4>2. d.out[i].id > q /\ Shows(d.out[i].frame, n)
        BY <3>1, <3>3, <4>1 DEF Entry
      <4> QED BY <1>3, <2>1, <2>2, <4>1, <4>2, AfterFollowed
    <3> QED BY <3>1, <3>2, <3>3 DEF Followed
  <2>7. CASE n <= c.stream.upto
    BY <2>7
  <2> QED BY <2>4, <2>5, <2>6, <2>7 DEF SnapshotFollowed, q
<1>13. \A n \in 1 .. k : n > k0 \/ HeldBack(s, n) => ShownBy(d.out, 1, n)
  <2>1. 1 \in 1 .. Len(c.out) + 1
    BY <1>6
  <2> QED BY <1>8, <2>1
<1>14. \A i \in 1 .. Len(d.out) : Ends(d.out[i]) => d.stream.terminal
  <2>1. SUFFICES ASSUME NEW i \in 1 .. Len(d.out), Ends(d.out[i]) PROVE d.stream.terminal
    OBVIOUS
  <2>2. i \notin Len(c.out) + 1 .. Len(d.out)
    BY <1>3, <2>1 DEF Ends
  <2>3. i \in 1 .. Len(c.out)
    BY <1>6, <2>2
  <2>4. c.stream.terminal
    BY <1>3, <2>1, <2>3
  <2> QED BY <1>3, <2>4 DEF StreamKept
<1>15. DrainsOn(c, d)
  BY <1>3 DEF DrainsOn, StreamKept
<1>16. Sound(d, s, b, k0, k, over)
  BY <1>3, <1>9, <1>10, <1>11, <1>12, <1>13, <1>14 DEF Sound
<1> QED BY <1>1, <1>15, <1>16

(* The end of a refresh: a channel whose snapshots are followed by what is   *)
(* held back or has been dispatched since stays one.                         *)
Pending(c, s, b, k, over) ==
  /\ c \in Channels(k) /\ Balanced(c.stream) /\ c.stream.phase = "open" /\ c.stream.chain > 0
  /\ c.stream.refs = s.refs /\ Followed(b, c)
  /\ s.terminal => c.stream.terminal
  /\ c.stream.held = s.held
  /\ \A i \in 1 .. Len(c.out), n \in 1 .. k :
       Drops(c.out[i].frame, n) => HeldBack(c.stream, n) \/ ShownBy(c.out, i + 1, n)
  /\ \A i \in 1 .. Len(c.out) : Ends(c.out[i]) => c.stream.terminal
  /\ Awaiting(c.stream, k, over)
  /\ SnapshotFollowed(c.stream, c.frames, k)

(* The stream once a refresh of its chain is over.                           *)
Rested(c, rest) == rest = [c EXCEPT !.stream.chain = @ - 1, !.stream.read = NotRead]

LEMMA RestChannel ==
  ASSUME NEW k \in Nat, NEW c \in Channels(k), c.stream.chain > 0, NEW rest, Rested(c, rest)
  PROVE  /\ rest \in Channels(k) /\ rest.frames = c.frames /\ rest.out = c.out
         /\ rest.stream \in Streams(k) /\ rest.stream.read = NotRead
         /\ rest.stream.chain = c.stream.chain - 1 /\ rest.stream.chain \in Nat
         /\ rest.stream.phase = c.stream.phase /\ rest.stream.refs = c.stream.refs
         /\ rest.stream.upto = c.stream.upto /\ rest.stream.terminal = c.stream.terminal
         /\ rest.stream.replayFrom = c.stream.replayFrom
         /\ rest.stream.failed = c.stream.failed
         /\ rest.stream.buffering = c.stream.buffering /\ rest.stream.held = c.stream.held
<1>2. /\ c.stream \in Streams(k) /\ IsBuffer(c.frames, Generations, Framed(k))
      /\ c.out \in Seq(NumberedOf(k)) /\ IsStream(c.stream, c.frames)
      /\ c = [stream |-> c.stream, frames |-> c.frames, out |-> c.out]
  BY ChannelFields
<1>3. c.stream.chain \in Nat /\ c.stream.chain - 1 \in Nat
  BY <1>2, StreamFields
<1>4. PICK t : t = [c.stream EXCEPT !.chain = @ - 1]
  OBVIOUS
<1>5. PICK u : u = [t EXCEPT !.read = NotRead]
  OBVIOUS
<1>6. t \in Streams(k) /\ t.chain = c.stream.chain - 1
  <2>1. \A x \in Nat : [c.stream EXCEPT !.chain = x] \in Streams(k)
    BY <1>2 DEF Streams
  <2> QED BY <1>2, <1>3, <1>4, <2>1 DEF Streams
<1>7. u \in Streams(k) /\ u.read = NotRead /\ u.chain = c.stream.chain - 1
  BY <1>5, <1>6 DEF Streams
<1>8. /\ u.phase = c.stream.phase /\ u.refs = c.stream.refs /\ u.upto = c.stream.upto
      /\ u.terminal = c.stream.terminal /\ u.replayFrom = c.stream.replayFrom
      /\ u.failed = c.stream.failed /\ u.buffering = c.stream.buffering /\ u.held = c.stream.held
  <2>1. /\ t.phase = c.stream.phase /\ t.refs = c.stream.refs /\ t.upto = c.stream.upto
        /\ t.terminal = c.stream.terminal /\ t.replayFrom = c.stream.replayFrom
        /\ t.failed = c.stream.failed /\ t.buffering = c.stream.buffering /\ t.held = c.stream.held
    BY <1>2, <1>4 DEF Streams
  <2>2. /\ u.phase = t.phase /\ u.refs = t.refs /\ u.upto = t.upto
        /\ u.terminal = t.terminal /\ u.replayFrom = t.replayFrom
        /\ u.failed = t.failed /\ u.buffering = t.buffering /\ u.held = t.held
    BY <1>5, <1>6 DEF Streams
  <2> QED BY <2>1, <2>2
<1>9. PICK d : d = [c EXCEPT !.stream.chain = @ - 1, !.stream.read = NotRead]
  OBVIOUS
<1>10. d = [stream |-> u, frames |-> c.frames, out |-> c.out]
  <2>1. PICK x : x = [c EXCEPT !.stream = t]
    OBVIOUS
  <2>2. x = [stream |-> t, frames |-> c.frames, out |-> c.out] /\ x.stream = t
    BY <1>2, <2>1, ChannelUpdates
  <2>3. d = [x EXCEPT !.stream.read = NotRead]
    BY <1>4, <1>9, <2>1
  <2>4. [x EXCEPT !.stream.read = NotRead] = [x EXCEPT !.stream = u]
    BY <1>5, <2>2
  <2> QED BY <2>2, <2>3, <2>4, ChannelUpdates
<1>11. d.stream = u /\ d.frames = c.frames /\ d.out = c.out
  BY <1>10
<1>12. d \in Channels(k)
  <2>1. IsStream(u, c.frames)
    BY <1>2, <1>8 DEF IsStream
  <2> QED BY <1>2, <1>7, <1>10, <2>1, ChannelMade
<1>13. rest = d
  BY <1>9 DEF Rested
<1> QED BY <1>3, <1>7, <1>8, <1>11, <1>12, <1>13

LEMMA RefreshedSound ==
  ASSUME NEW k \in Nat, NEW b, IsBuffer(b, Generations, Framed(k)), NEW s,
         NEW over \in BOOLEAN, NEW c, Pending(c, s, b, k, over)
  PROVE  /\ Sound(Refreshed(c), s, b, k, k, over)
         /\ DrainsOn(c, Refreshed(c))
<1>1. /\ c \in Channels(k) /\ Balanced(c.stream) /\ c.stream.phase = "open"
      /\ c.stream.chain > 0 /\ c.stream.refs = s.refs /\ Followed(b, c)
      /\ s.terminal => c.stream.terminal
      /\ c.stream.held = s.held
      /\ \A i \in 1 .. Len(c.out), n \in 1 .. k :
           Drops(c.out[i].frame, n) => HeldBack(c.stream, n) \/ ShownBy(c.out, i + 1, n)
      /\ \A i \in 1 .. Len(c.out) : Ends(c.out[i]) => c.stream.terminal
      /\ Awaiting(c.stream, k, over)
      /\ SnapshotFollowed(c.stream, c.frames, k)
  BY DEF Pending
<1>2. /\ c.stream \in Streams(k) /\ IsBuffer(c.frames, Generations, Framed(k))
      /\ c.out \in Seq(NumberedOf(k)) /\ IsStream(c.stream, c.frames)
      /\ c = [stream |-> c.stream, frames |-> c.frames, out |-> c.out]
  BY <1>1, ChannelFields
<1>3. c.stream.chain \in Nat /\ c.stream.chain - 1 \in Nat
  BY <1>1, <1>2, StreamFields
<1>9. PICK rest : rest = [c EXCEPT !.stream.chain = @ - 1, !.stream.read = NotRead]
  OBVIOUS
<1>10. Rested(c, rest)
  BY <1>9 DEF Rested
<1>4. PICK u : u = rest.stream
  OBVIOUS
<1>12. rest \in Channels(k)
  BY <1>1, <1>10, RestChannel
<1>11. rest.stream = u /\ rest.frames = c.frames /\ rest.out = c.out
  BY <1>1, <1>4, <1>10, RestChannel
<1>7. u \in Streams(k) /\ u.read = NotRead /\ u.chain = c.stream.chain - 1
  BY <1>1, <1>4, <1>10, RestChannel
<1>8. /\ u.phase = c.stream.phase /\ u.refs = c.stream.refs /\ u.upto = c.stream.upto
      /\ u.terminal = c.stream.terminal /\ u.replayFrom = c.stream.replayFrom
      /\ u.failed = c.stream.failed /\ u.buffering = c.stream.buffering /\ u.held = c.stream.held
  BY <1>1, <1>4, <1>10, RestChannel
<1>13. \A n : HeldBack(u, n) <=> HeldBack(c.stream, n)
  BY <1>8 DEF HeldBack
<1>14. EndHeld(u) <=> EndHeld(c.stream)
  BY <1>8 DEF EndHeld
<1>15. Followed(b, rest)
  BY <1>1, <1>11 DEF Followed
<1>16. SnapshotFollowed(u, c.frames, k)
  BY <1>1, <1>8, <1>13 DEF SnapshotFollowed
<1>17. over => u.terminal \/ EndHeld(u)
  <2>1. over => c.stream.terminal \/ EndHeld(c.stream)
    BY <1>1 DEF Awaiting
  <2> QED BY <1>8, <1>14, <2>1
<1>18. \A n : HeldBack(s, n) <=> HeldBack(u, n)
  BY <1>1, <1>8 DEF HeldBack
<1>19. s.terminal => u.terminal
  BY <1>1, <1>8
<1>20. CASE u.chain = 0
  <2>1. Refreshed(c) = Drained(rest)
    BY <1>9, <1>11, <1>20 DEF Refreshed
  <2>2. \A n \in 1 .. k : n > k \/ HeldBack(s, n) => HeldBack(rest.stream, n)
    BY <1>11, <1>18
  <2>3. \A i \in 1 .. Len(rest.out), n \in 1 .. k :
          Drops(rest.out[i].frame, n) => HeldBack(rest.stream, n) \/ ShownBy(rest.out, i + 1, n)
    BY <1>1, <1>11, <1>13
  <2>4. /\ rest.stream.phase = "open" /\ rest.stream.chain = 0 /\ rest.stream.read = NotRead
        /\ rest.stream.refs = s.refs /\ (s.terminal => rest.stream.terminal)
        /\ over => rest.stream.terminal \/ EndHeld(rest.stream)
        /\ \A i \in 1 .. Len(rest.out) : Ends(rest.out[i]) => rest.stream.terminal
        /\ SnapshotFollowed(rest.stream, rest.frames, k)
    BY <1>1, <1>7, <1>8, <1>11, <1>16, <1>17, <1>19, <1>20
  <2>5. Sound(Drained(rest), s, b, k, k, over) /\ DrainsOn(rest, Drained(rest))
    BY <1>12, <1>15, <2>2, <2>3, <2>4, ReleasedSound
  <2>6. DrainsOn(c, Drained(rest))
    BY <1>8, <1>11, <2>5 DEF DrainsOn
  <2> QED BY <2>1, <2>5, <2>6
<1>21. CASE u.chain # 0
  <2>1. Refreshed(c) = rest
    BY <1>9, <1>11, <1>21 DEF Refreshed
  <2>2. Balanced(u)
    BY <1>1, <1>3, <1>7, <1>8, <1>21 DEF Balanced
  <2>3. Awaiting(u, k, over)
    BY <1>3, <1>7, <1>17, <1>21 DEF Awaiting
  <2>4. \A n \in 1 .. k : n > k \/ HeldBack(s, n) => HeldBack(u, n)
    BY <1>18
  <2>5. \A i \in 1 .. Len(c.out), n \in 1 .. k :
          Drops(c.out[i].frame, n) => HeldBack(u, n) \/ ShownBy(c.out, i + 1, n)
    BY <1>1, <1>13
  <2>6. DrainsOn(c, rest)
    BY <1>2, <1>8, <1>11 DEF DrainsOn
  <2>7. \A i \in 1 .. Len(c.out) : Ends(c.out[i]) => u.terminal
    BY <1>1, <1>8
  <2>8. Sound(rest, s, b, k, k, over)
    BY <1>1, <1>8, <1>11, <1>12, <1>15, <1>16, <1>19, <2>2, <2>3, <2>4, <2>5, <2>7 DEF Sound
  <2> QED BY <2>1, <2>6, <2>8
<1> QED BY <1>20, <1>21

(* The channel a step begins with.                                           *)
LEMMA ChannelOfState ==
  ASSUME IInv, NEW k \in Nat, emitted <= k
  PROVE  /\ Channel \in Channels(k) /\ Channel.stream = stream /\ Channel.frames = frames
         /\ Channel.out = <<>> /\ Len(Channel.out) = 0 /\ Followed(frames, Channel)
         /\ stream \in Streams(k) /\ IsBuffer(frames, Generations, Framed(k))
         /\ emitted \in Nat
<1>1. emitted \in Nat
  BY DEF IInv, Types
<1>2. stream \in Streams(k) /\ Framed(emitted) \subseteq Framed(k)
  BY <1>1, TypesGrow DEF IInv, Types
<1>3. IsBuffer(frames, Generations, Framed(k))
  BY <1>2, BufferGrows DEF IInv, Types
<1>4. Channel = [stream |-> stream, frames |-> frames, out |-> <<>>]
  BY DEF Channel
<1>5. <<>> \in Seq(NumberedOf(k)) /\ Len(<<>>) = 0
  OBVIOUS
<1>6. Channel \in Channels(k)
  <2>1. IsStream(stream, frames)
    BY DEF IInv, Types
  <2> QED BY <1>2, <1>3, <1>4, <1>5, <2>1, ChannelMade
<1>7. Channel.stream = stream /\ Channel.frames = frames /\ Channel.out = <<>>
  BY <1>4
<1>8. Followed(frames, Channel)
  <2>1. /\ Lowest(frames) \in Nat /\ frames.nextSeq \in Nat
        /\ \A x \in Retained(frames) : x.seq \in Nat
    BY <1>3, RetainedWindow
  <2> QED BY <1>5, <1>7, <2>1 DEF Followed
<1> QED BY <1>1, <1>2, <1>3, <1>5, <1>6, <1>7, <1>8

(* An event of the child, as it reaches a stream that holds nothing back.    *)
LEMMA DeliveredSound ==
  ASSUME IInv, stream.phase = "open", ~stream.buffering,
         NEW k \in Nat, emitted <= k, NEW e \in Happenings(k),
         \A n \in emitted + 1 .. k : n = e.n, e.n = 0 \/ e.n > emitted,
         NEW over \in BOOLEAN, over => ended \/ e.kind \in {"closed", "failed"}
  PROVE  Sound(Handled(Channel, e), stream, frames, emitted, k, over)
<1>1. /\ Channel \in Channels(k) /\ Channel.stream = stream /\ Channel.frames = frames
      /\ Channel.out = <<>> /\ Len(Channel.out) = 0 /\ Followed(frames, Channel)
      /\ stream \in Streams(k) /\ IsBuffer(frames, Generations, Framed(k))
      /\ emitted \in Nat
  BY ChannelOfState
<1>2. PICK d : d = Handled(Channel, e)
  OBVIOUS
<1>3. /\ d \in Channels(k) /\ StreamKept(stream, d.stream)
      /\ d.stream.held = stream.held /\ (Balanced(stream) => Balanced(d.stream))
      /\ e.kind \in {"closed", "failed"} => d.stream.terminal /\ d.stream.chain > 0
      /\ \/ d.frames = frames /\ d.out = <<>> /\ e.n = 0
         \/ \E f \in Framed(k) : Dispatches(Channel, d, f) /\ (e.n # 0 => Shows(f, e.n))
  BY <1>1, <1>2, HandledChannel
<1>4. stream.held = <<>> /\ stream.read = NotRead /\ (ended => stream.terminal) /\ stream.chain = 0
  <2>1. Balanced(stream) /\ Awaiting(stream, emitted, ended) /\ stream.chain \in Nat
    BY <1>1, StreamFields DEF IInv, Types, Lags
  <2>2. stream.chain = 0
    BY <2>1 DEF Balanced
  <2>3. stream.held = <<>> /\ stream.read = NotRead
    BY <2>1, <2>2 DEF Awaiting
  <2>4. ~EndHeld(stream)
    BY <2>3 DEF EndHeld
  <2> QED BY <2>1, <2>2, <2>3, <2>4 DEF Awaiting
<1>5. \A n : ~HeldBack(stream, n)
  BY <1>4 DEF HeldBack
<1>6. /\ Balanced(d.stream) /\ d.stream.phase = "open" /\ d.stream.refs = stream.refs
      /\ stream.terminal => d.stream.terminal
      /\ d.stream.read = NotRead /\ d.stream.held = <<>>
      /\ d.stream.replayFrom = stream.replayFrom /\ d.stream.upto = stream.upto
  BY <1>3, <1>4 DEF StreamKept, IInv, Types
<1>7. Awaiting(d.stream, k, over)
  BY <1>3, <1>4, <1>6 DEF Awaiting
<1>8. /\ Followed(frames, d) /\ Lowest(frames) <= Lowest(d.frames)
      /\ \A i \in 1 .. Len(d.out) : d.out[i].frame.type # "session_snapshot"
      /\ e.n # 0 => Len(d.out) = 1 /\ Shows(d.out[1].frame, e.n)
      /\ Len(d.out) \in Nat
  <2>1. CASE d.frames = frames /\ d.out = <<>> /\ e.n = 0
    <3>1. Followed(frames, d)
      BY <1>1, <2>1 DEF Followed
    <3>2. Lowest(frames) \in Nat
      BY <1>1, RetainedWindow
    <3> QED BY <2>1, <3>1, <3>2
  <2>2. ASSUME NEW f \in Framed(k), Dispatches(Channel, d, f), e.n # 0 => Shows(f, e.n)
        PROVE  /\ Followed(frames, d) /\ Lowest(frames) <= Lowest(d.frames)
               /\ \A i \in 1 .. Len(d.out) : d.out[i].frame.type # "session_snapshot"
               /\ e.n # 0 => Len(d.out) = 1 /\ Shows(d.out[1].frame, e.n)
               /\ Len(d.out) \in Nat
    <3>1. Adds(Channel, d, f) /\ f.type # "session_snapshot"
      BY <2>2 DEF Dispatches
    <3>2. Followed(frames, d)
      BY <1>1, <1>3, <3>1, FollowedOn
    <3>3. d.out = <<Numbered(frames.nextSeq, f)>>
      BY <1>1, <3>1 DEF Adds
    <3>4. Numbered(frames.nextSeq, f).frame = f
      BY DEF Numbered
    <3>5. Len(d.out) = 1 /\ d.out[1].frame = f
      BY <3>3, <3>4
    <3>6. \A i \in 1 .. Len(d.out) : i = 1
      BY <3>5
    <3>7. Lowest(frames) <= Lowest(d.frames)
      BY <3>2 DEF Followed
    <3> QED BY <2>2, <3>1, <3>2, <3>5, <3>6, <3>7
  <2> QED BY <1>3, <2>1, <2>2
<1>9. \A i \in 1 .. Len(d.out), n \in 1 .. k : ~Drops(d.out[i].frame, n)
  BY <1>8 DEF Drops
<1>10. \A n \in 1 .. k : n > emitted => ShownBy(d.out, 1, n)
  <2>1. SUFFICES ASSUME NEW n \in 1 .. k, n > emitted PROVE ShownBy(d.out, 1, n)
    OBVIOUS
  <2>2. n = e.n /\ e.n # 0
    BY <1>1, <2>1
  <2>3. 1 \in 1 .. Len(d.out) /\ Shows(d.out[1].frame, n)
    BY <1>8, <2>2
  <2> QED BY <2>3 DEF ShownBy
<1>11. SnapshotFollowed(d.stream, d.frames, k)
  <2> DEFINE q == stream.replayFrom
  <2>1. SUFFICES ASSUME q + 1 >= Lowest(d.frames), NEW n \in 1 .. k
                 PROVE  n <= stream.upto \/ After(d.frames, q, n)
    BY <1>6 DEF SnapshotFollowed
  <2>2. /\ q \in Nat /\ Lowest(frames) \in Nat /\ Lowest(d.frames) \in Nat
        /\ LatestSequence(frames) = frames.nextSeq - 1 /\ frames.nextSeq \in Nat
    <3>1. IsBuffer(d.frames, Generations, Framed(k))
      BY <1>3, ChannelFields
    <3> QED BY <1>1, <3>1, StreamFields, RetainedWindow
  <2>3. q < frames.nextSeq
    <3>1. q <= LatestSequence(frames)
      BY DEF IInv, Types, IsStream
    <3> QED BY <2>2, <3>1
  <2>4. q + 1 >= Lowest(frames)
    BY <1>8, <2>1, <2>2
  <2>5. CASE n > emitted
    <3>1. n = e.n /\ e.n # 0
      BY <1>1, <2>5
    <3>2. 1 \in 1 .. Len(d.out) /\ Shows(d.out[1].frame, n)
      BY <1>8, <3>1
    <3>3. d.out[1].id = (frames.nextSeq - 1) + 1
      BY <1>8, <3>2 DEF Followed
    <3>4. d.out[1].id > q
      BY <2>2, <2>3, <3>3
    <3> HIDE DEF q
    <3> QED BY <1>1, <1>3, <1>8, <2>1, <2>2, <3>2, <3>4, AfterFollowed
  <2>6. CASE ~(n > emitted)
    <3>1. n \in 1 .. emitted
      BY <1>1, <2>6
    <3>2. n <= stream.upto \/ After(frames, q, n)
      BY <1>5, <2>4, <3>1 DEF IInv, Lags, SnapshotFollowed
    <3> HIDE DEF q
    <3> QED BY <1>1, <1>3, <1>8, <2>1, <2>2, <3>2, AfterFollowed
  <2> QED BY <2>5, <2>6
<1>12. \A i \in 1 .. Len(d.out) : ~Ends(d.out[i])
  BY <1>8 DEF Ends
<1> QED BY <1>2, <1>3, <1>5, <1>6, <1>7, <1>8, <1>9, <1>10, <1>11, <1>12 DEF Sound

(* What does not matter to what is dispatched: how many hold the stream, and *)
(* whether its last refresh failed.                                          *)
RefsOnly(s, t) ==
  /\ t.phase = s.phase /\ t.upto = s.upto /\ t.terminal = s.terminal
  /\ t.replayFrom = s.replayFrom /\ t.buffering = s.buffering /\ t.held = s.held
  /\ t.chain = s.chain /\ t.read = s.read

(* How many hold a stream says nothing about what it dispatched.             *)
LEMMA RefsMatterNot ==
  ASSUME NEW s, NEW t, RefsOnly(s, t), NEW b, NEW k, NEW over
  PROVE  /\ Balanced(s) => Balanced(t)
         /\ Awaiting(s, k, over) => Awaiting(t, k, over)
         /\ SnapshotFollowed(s, b, k) => SnapshotFollowed(t, b, k)
         /\ RetainedFollowed(s, b, k) => RetainedFollowed(t, b, k)
         /\ \A p : PanelSound(p, s, b, k) => PanelSound(p, t, b, k)
<1>1. /\ t.phase = s.phase /\ t.upto = s.upto /\ t.terminal = s.terminal
      /\ t.replayFrom = s.replayFrom /\ t.buffering = s.buffering /\ t.held = s.held
      /\ t.chain = s.chain /\ t.read = s.read
  BY DEF RefsOnly
<1>2. \A n : HeldBack(t, n) <=> HeldBack(s, n)
  BY <1>1 DEF HeldBack
<1>3. EndHeld(t) <=> EndHeld(s)
  BY <1>1 DEF EndHeld
<1>4. Balanced(s) => Balanced(t)
  BY <1>1 DEF Balanced
<1>5. Awaiting(s, k, over) => Awaiting(t, k, over)
  BY <1>1, <1>2, <1>3 DEF Awaiting
<1>6. SnapshotFollowed(s, b, k) => SnapshotFollowed(t, b, k)
  BY <1>1, <1>2 DEF SnapshotFollowed
<1>7. RetainedFollowed(s, b, k) => RetainedFollowed(t, b, k)
  BY <1>2 DEF RetainedFollowed
<1>8. ASSUME NEW p, PanelSound(p, s, b, k) PROVE PanelSound(p, t, b, k)
  <2>1. /\ KnowsOpened(p, s, b) /\ ClosingIsLast(p, s, b) /\ CursorSound(p, s, b, k)
        /\ p.at = "open" => InboxInOrder(p, b) /\ (Resyncs(p) \/ Complete(p, s, k))
    BY <1>8 DEF PanelSound
  <2>2. KnowsOpened(p, t, b)
    BY <1>1, <2>1 DEF KnowsOpened, Opened
  <2>3. ClosingIsLast(p, t, b)
    BY <1>1, <2>1 DEF ClosingIsLast
  <2>4. CursorSound(p, t, b, k)
    BY <1>1, <1>2, <2>1 DEF CursorSound, Resumes, Knows
  <2>5. Complete(p, s, k) => Complete(p, t, k)
    BY <1>2 DEF Complete
  <2> QED BY <2>1, <2>2, <2>3, <2>4, <2>5 DEF PanelSound
<1> QED BY <1>4, <1>5, <1>6, <1>7, <1>8

(* A refresh that fails has dispatched nothing, ...                          *)
LEMMA FailedPending ==
  ASSUME IInv, stream.phase = "open", stream.chain > 0
  PROVE  LET c == [Channel EXCEPT !.stream.failed = TRUE]
         IN  /\ Pending(c, stream, frames, emitted, ended)
             /\ c.stream.terminal = stream.terminal /\ c.stream.failed = TRUE
             /\ c.stream.chain = stream.chain /\ c.stream.upto = stream.upto
             /\ c.stream.replayFrom = stream.replayFrom /\ c.stream.held = stream.held
             /\ c.frames = frames /\ c.out = <<>> /\ Len(c.out) = 0
<1> DEFINE k == emitted
<1>1. /\ Channel \in Channels(k) /\ Channel.stream = stream /\ Channel.frames = frames
      /\ Channel.out = <<>> /\ Len(Channel.out) = 0 /\ Followed(frames, Channel)
      /\ stream \in Streams(k) /\ IsBuffer(frames, Generations, Framed(k)) /\ k \in Nat
  BY ChannelOfState DEF IInv, Types
<1>2. /\ Balanced(stream) /\ Awaiting(stream, k, ended)
      /\ SnapshotFollowed(stream, frames, k) /\ IsStream(stream, frames)
  BY DEF IInv, Types, Lags
<1>3. PICK t : t = [stream EXCEPT !.failed = TRUE]
  OBVIOUS
<1>4. /\ t \in Streams(k) /\ RefsOnly(stream, t) /\ t.refs = stream.refs /\ t.failed = TRUE
  BY <1>1, <1>3 DEF Streams, RefsOnly
<1>5. PICK c : c = [Channel EXCEPT !.stream.failed = TRUE]
  OBVIOUS
<1>6. c = [stream |-> t, frames |-> frames, out |-> <<>>]
  <2>1. Channel = [stream |-> stream, frames |-> frames, out |-> <<>>]
    BY DEF Channel
  <2>2. c = [Channel EXCEPT !.stream = t]
    BY <1>1, <1>3, <1>5
  <2> QED BY <2>1, <2>2, ChannelUpdates
<1>7. c \in Channels(k) /\ c.stream = t /\ c.frames = frames /\ c.out = <<>>
  <2>1. IsStream(t, frames)
    BY <1>2, <1>4 DEF RefsOnly, IsStream
  <2>2. <<>> \in Seq(NumberedOf(k))
    OBVIOUS
  <2> QED BY <1>1, <1>4, <1>6, <2>1, <2>2, ChannelMade
<1>8. Balanced(t) /\ Awaiting(t, k, ended) /\ SnapshotFollowed(t, frames, k)
  BY <1>2, <1>4, RefsMatterNot
<1>9. Followed(frames, c)
  BY <1>1, <1>7 DEF Followed
<1>10. Len(c.out) = 0
  BY <1>7
<1>11. Pending(c, stream, frames, k, ended)
  BY <1>4, <1>7, <1>8, <1>9, <1>10 DEF Pending, RefsOnly
<1> QED BY <1>4, <1>5, <1>7, <1>10, <1>11 DEF RefsOnly

(* ... one that succeeds a snapshot.                                         *)
LEMMA SnapshottedPending ==
  ASSUME IInv, stream.phase = "open", stream.chain > 0, stream.read # NotRead
  PROVE  LET c == Snapshotted(Channel)
         IN  /\ Pending(c, stream, frames, emitted, ended)
             /\ c.stream.terminal = stream.terminal /\ c.stream.chain = stream.chain
             /\ c.stream.upto = stream.read /\ c.stream.failed = FALSE
             /\ c.stream.replayFrom = frames.nextSeq /\ c.stream.held = stream.held
             /\ Len(c.out) = 1 /\ c.out[1].id = frames.nextSeq
             /\ c.out[1].frame = ChildSnapshot(stream.read, stream.terminal)
<1> DEFINE k == emitted
           upto == stream.read
           f == ChildSnapshot(upto, stream.terminal)
<1>1. /\ Channel \in Channels(k) /\ Channel.stream = stream /\ Channel.frames = frames
      /\ Channel.out = <<>> /\ Len(Channel.out) = 0 /\ Followed(frames, Channel)
      /\ stream \in Streams(k) /\ IsBuffer(frames, Generations, Framed(k)) /\ k \in Nat
  BY ChannelOfState DEF IInv, Types
<1>2. upto \in 0 .. k /\ stream.terminal \in BOOLEAN
  BY <1>1, StreamFields
<1>3. f \in Framed(k) /\ f.type = "session_snapshot" /\ f.upto = upto
  BY <1>2 DEF ChildSnapshot, Framed
<1>4. PICK t0 : t0 = [stream EXCEPT !.upto = upto]
  OBVIOUS
<1>40. PICK t : t = [t0 EXCEPT !.failed = FALSE]
  OBVIOUS
<1>5. PICK a : a = [Channel EXCEPT !.stream.upto = upto, !.stream.failed = FALSE]
  OBVIOUS
<1>60. t0 \in Streams(k)
  BY <1>1, <1>2, <1>4 DEF Streams
<1>6. t \in Streams(k)
  BY <1>40, <1>60 DEF Streams
<1>61. /\ t.upto = upto /\ t.failed = FALSE
       /\ t.phase = stream.phase /\ t.refs = stream.refs /\ t.terminal = stream.terminal
       /\ t.chain = stream.chain /\ t.buffering = stream.buffering /\ t.held = stream.held
       /\ t.read = stream.read /\ t.replayFrom = stream.replayFrom
  <2>1. /\ t0.upto = upto
        /\ t0.phase = stream.phase /\ t0.refs = stream.refs /\ t0.terminal = stream.terminal
        /\ t0.chain = stream.chain /\ t0.buffering = stream.buffering /\ t0.held = stream.held
        /\ t0.read = stream.read /\ t0.replayFrom = stream.replayFrom
    BY <1>1, <1>4 DEF Streams
  <2>2. /\ t.upto = t0.upto /\ t.failed = FALSE
        /\ t.phase = t0.phase /\ t.refs = t0.refs /\ t.terminal = t0.terminal
        /\ t.chain = t0.chain /\ t.buffering = t0.buffering /\ t.held = t0.held
        /\ t.read = t0.read /\ t.replayFrom = t0.replayFrom
    BY <1>40, <1>60 DEF Streams
  <2> QED BY <2>1, <2>2
<1>7. a = [stream |-> t, frames |-> frames, out |-> <<>>]
  <2>1. Channel = [stream |-> stream, frames |-> frames, out |-> <<>>]
    BY DEF Channel
  <2>2. PICK d : d = [Channel EXCEPT !.stream = t0]
    OBVIOUS
  <2>3. d = [stream |-> t0, frames |-> frames, out |-> <<>>] /\ d.stream = t0
    BY <2>1, <2>2, ChannelUpdates
  <2>4. a = [d EXCEPT !.stream.failed = FALSE]
    BY <1>1, <1>4, <1>5, <2>2
  <2>5. [d EXCEPT !.stream.failed = FALSE] = [d EXCEPT !.stream = t]
    BY <1>40, <2>3
  <2> QED BY <2>3, <2>4, <2>5, ChannelUpdates
<1>8. a \in Channels(k) /\ a.stream = t /\ a.frames = frames /\ a.out = <<>>
  <2>2. IsStream(t, frames)
    BY <1>61 DEF IInv, Types, IsStream
  <2>3. <<>> \in Seq(NumberedOf(k))
    OBVIOUS
  <2> QED BY <1>1, <1>6, <1>7, <2>2, <2>3, ChannelMade
<1>9. Followed(frames, a)
  BY <1>1, <1>8 DEF Followed
<1> HIDE DEF f
<1>10. PICK told : told = Dispatched(a, f)
  OBVIOUS
<1>11. /\ told \in Channels(k) /\ told.stream = t
       /\ told.frames = Push(frames, f)
       /\ told.frames.nextSeq = frames.nextSeq + 1
       /\ told.out = <<Numbered(frames.nextSeq, f)>>
       /\ LatestSequence(told.frames) = frames.nextSeq
  <2>1. /\ told \in Channels(k) /\ told.stream = t
        /\ told.frames = Push(frames, f)
        /\ told.frames.nextSeq = frames.nextSeq + 1
        /\ told.out = Append(<<>>, Numbered(frames.nextSeq, f))
        /\ LatestSequence(told.frames) = frames.nextSeq
    BY <1>1, <1>3, <1>8, <1>10, DispatchedChannel, SMTT(30)
  <2> QED BY <2>1
<1>12. Followed(frames, told)
  <2>1. Adds(a, told, f)
    BY <1>8, <1>11 DEF Adds
  <2> QED BY <1>1, <1>3, <1>8, <1>9, <1>11, <2>1, FollowedOn
<1>13. PICK u : u = [t EXCEPT !.replayFrom = frames.nextSeq]
  OBVIOUS
<1>14. PICK c : c = Snapshotted(Channel)
  OBVIOUS
<1>15. c = [stream |-> u, frames |-> told.frames, out |-> told.out]
  <2>1. Channel.stream.read = upto /\ a.stream.terminal = stream.terminal
    BY <1>1, <1>61, <1>8
  <2>2. c = [told EXCEPT !.stream.replayFrom = LatestSequence(told.frames)]
    <3>1. told = Dispatched([Channel EXCEPT !.stream.upto = Channel.stream.read,
                                            !.stream.failed = FALSE],
                            ChildSnapshot(Channel.stream.read, Channel.stream.terminal))
      BY <1>1, <1>5, <1>10, <2>1 DEF f
    <3> QED BY <1>14, <3>1 DEF Snapshotted
  <2>3. c = [told EXCEPT !.stream = u]
    BY <1>11, <1>13, <2>2
  <2>4. told = [stream |-> t, frames |-> told.frames, out |-> told.out]
    BY <1>1, <1>11, ChannelFields
  <2> QED BY <2>3, <2>4, ChannelUpdates
<1>16. frames.nextSeq \in Nat
  BY <1>1, RetainedWindow
<1>17. /\ u \in Streams(k) /\ u.replayFrom = frames.nextSeq /\ u.upto = upto
       /\ u.phase = stream.phase /\ u.refs = stream.refs /\ u.terminal = stream.terminal
       /\ u.chain = stream.chain /\ u.buffering = stream.buffering /\ u.held = stream.held
       /\ u.read = stream.read /\ u.failed = FALSE
  <2>2. /\ u \in Streams(k) /\ u.replayFrom = frames.nextSeq
        /\ u.upto = t.upto
        /\ u.phase = t.phase /\ u.refs = t.refs /\ u.terminal = t.terminal
        /\ u.chain = t.chain /\ u.buffering = t.buffering /\ u.held = t.held
        /\ u.read = t.read /\ u.failed = t.failed
    BY <1>6, <1>13, <1>16 DEF Streams
  <2> QED BY <1>61, <2>2
<1>18. c.stream = u /\ c.frames = told.frames /\ c.out = told.out
  BY <1>15
<1>19. c \in Channels(k)
  <2>1. IsBuffer(told.frames, Generations, Framed(k)) /\ told.out \in Seq(NumberedOf(k))
    BY <1>1, <1>11, ChannelFields
  <2>2. IsStream(u, told.frames)
    BY <1>11, <1>16, <1>17 DEF IsStream
  <2> QED BY <1>1, <1>15, <1>17, <2>1, <2>2, ChannelMade
<1>20. Followed(frames, c)
  BY <1>12, <1>18 DEF Followed
<1>21. Len(c.out) = 1 /\ c.out[1].frame = f /\ c.out[1].id = frames.nextSeq
  <2>1. Numbered(frames.nextSeq, f).frame = f /\ Numbered(frames.nextSeq, f).id = frames.nextSeq
    BY DEF Numbered
  <2> QED BY <1>11, <1>18, <2>1
<1>22. \A n : HeldBack(u, n) <=> HeldBack(stream, n)
  BY <1>17 DEF HeldBack
<1>23. \A n \in upto + 1 .. k : HeldBack(u, n)
  BY <1>22 DEF IInv, Lags, Awaiting
<1>24. \A i \in 1 .. Len(c.out), n \in 1 .. k :
          Drops(c.out[i].frame, n) => HeldBack(c.stream, n) \/ ShownBy(c.out, i + 1, n)
  <2>1. SUFFICES ASSUME NEW i \in 1 .. Len(c.out), NEW n \in 1 .. k, Drops(c.out[i].frame, n)
                 PROVE  HeldBack(u, n)
    BY <1>18
  <2>2. n > upto
    BY <1>3, <1>21, <2>1 DEF Drops
  <2>3. n \in upto + 1 .. k
    BY <1>1, <1>2, <2>2
  <2> QED BY <1>23, <2>3
<1>25. Awaiting(u, k, ended)
  <2>1. EndHeld(u) <=> EndHeld(stream)
    BY <1>17 DEF EndHeld
  <2>2. Awaiting(stream, k, ended)
    BY DEF IInv, Lags
  <2> QED BY <1>17, <1>22, <2>1, <2>2 DEF Awaiting
<1>26. SnapshotFollowed(u, c.frames, k)
  <2>1. SUFFICES ASSUME NEW n \in 1 .. k PROVE n <= u.upto \/ HeldBack(u, n)
    BY DEF SnapshotFollowed
  <2>2. n <= upto \/ n \in upto + 1 .. k
    BY <1>1, <1>2
  <2> QED BY <1>17, <1>23, <2>2
<1>27. Balanced(u)
  <2>1. Balanced(stream)
    BY DEF IInv, Types
  <2> QED BY <1>17, <2>1 DEF Balanced
<1>28. \A i \in 1 .. Len(c.out) : Ends(c.out[i]) => c.stream.terminal
  BY <1>17, <1>18, <1>21 DEF Ends, f, ChildSnapshot
<1>29. Pending(c, stream, frames, k, ended)
  BY <1>28, <1>17, <1>18, <1>19, <1>20, <1>24, <1>25, <1>26, <1>27 DEF Pending
<1> QED BY <1>14, <1>17, <1>18, <1>21, <1>29 DEF f

------------------------------------------------------------------------------
(* A step of an open stream                                                  *)

(* What a panel that does not follow keeps of a stream that is closed.       *)
LEMMA PanelClosed ==
  ASSUME NEW p, NEW s, NEW b, b.generation \in Nat, KnowsOpened(p, s, b), p.at # "open",
         p.generation \in Nat,
         \A i \in DOMAIN p.inbox : IsHello(p.inbox[i]) => p.inbox[i].generation \in Nat,
         NEW k
  PROVE  PanelSound(p, NoStream, EmptyBuffer(b.generation + 1), k)
<1> DEFINE e == EmptyBuffer(b.generation + 1)
<1>1. e.generation = b.generation + 1
  BY DEF EmptyBuffer
<1>2. NoStream.phase = "none"
  BY DEF NoStream
<1> HIDE DEF e
<1>3. \A g \in Nat : Opened(g, s, b) => Opened(g, NoStream, e)
  BY <1>1 DEF Opened
<1>4. KnowsOpened(p, NoStream, e)
  BY <1>3 DEF KnowsOpened
<1>5. ClosingIsLast(p, NoStream, e) /\ CursorSound(p, NoStream, e, k)
  BY <1>2 DEF ClosingIsLast, CursorSound, Resumes, Knows
<1> QED BY <1>4, <1>5 DEF PanelSound, e

(* Everything that is true of the stream of a state.                         *)
Whole(c, k, over) ==
  /\ c \in Channels(k) /\ Balanced(c.stream) /\ c.stream.phase = "open"
  /\ Awaiting(c.stream, k, over)
  /\ SnapshotFollowed(c.stream, c.frames, k) /\ RetainedFollowed(c.stream, c.frames, k)

(* H held the stream before the step, those that are gone leave it.          *)
Leaves(c, H, gone) ==
  /\ IsFiniteSet(H) /\ H # {} /\ gone \subseteq H /\ c.stream.refs = Cardinality(H)
  /\ Holders' = H \ gone /\ Waiting' = {}
  /\ \/ gone = {} /\ stream' = c.stream /\ frames' = c.frames
     \/ Becomes(c, gone)

StepTyped ==
  /\ emitted' \in 0 .. MaxEvents /\ turns' \subseteq 1 .. emitted' /\ ended' \in BOOLEAN
  /\ finalReadFailed' \in BOOLEAN /\ childFaults' \in 0 .. MaxChildFaults
  /\ viewer' \in [Viewers -> Panels(emitted')]

LEMMA NoStreamTyped ==
  ASSUME NEW k \in Nat, NEW g \in Generations, NEW over
  PROVE  /\ NoStream \in Streams(k) /\ Balanced(NoStream)
         /\ IsBuffer(EmptyBuffer(g), Generations, Framed(k))
         /\ IsStream(NoStream, EmptyBuffer(g)) /\ EmptyBuffer(g).generation = g
         /\ Awaiting(NoStream, k, over)
         /\ SnapshotFollowed(NoStream, EmptyBuffer(g), k)
         /\ RetainedFollowed(NoStream, EmptyBuffer(g), k)
<1>1. <<>> \in Seq(Happenings(k))
  OBVIOUS
<1>2. NoStream \in Streams(k)
  BY <1>1 DEF NoStream, Streams, Phases
<1>3. Balanced(NoStream)
  BY DEF NoStream, Balanced
<1>4. PICK b : b = EmptyBuffer(g)
  OBVIOUS
<1>5. b = [generation |-> g, nextSeq |-> 1, entries |-> <<>>]
  BY <1>4 DEF EmptyBuffer
<1>6. b.generation = g /\ b.nextSeq = 1 /\ b.entries = <<>>
  BY <1>5
<1>7. <<>> \in Seq([seq : Nat \ {0}, event : Framed(k)])
  OBVIOUS
<1>8. b \in [generation : Generations, nextSeq : Nat \ {0},
             entries : Seq([seq : Nat \ {0}, event : Framed(k)])]
  BY <1>5, <1>7
<1>9. Len(<<>>) = 0 /\ DOMAIN <<>> = {}
  OBVIOUS
<1>10. IsBuffer(b, Generations, Framed(k))
  BY <1>6, <1>8, <1>9 DEF IsBuffer
<1>11. IsStream(NoStream, b)
  BY <1>6 DEF IsStream, NoStream, LatestSequence
<1>12. Awaiting(NoStream, k, over)
  BY DEF Awaiting, NoStream
<1>13. SnapshotFollowed(NoStream, b, k)
  BY DEF SnapshotFollowed, NoStream
<1>14. RetainedFollowed(NoStream, b, k)
  BY <1>6, <1>9 DEF RetainedFollowed, Retained
<1> QED BY <1>2, <1>3, <1>4, <1>6, <1>10, <1>11, <1>12, <1>13, <1>14

LEMMA OpenStep ==
  ASSUME IInv, stream.phase = "open", StepTyped,
         NEW c, Whole(c, emitted', ended'), c.frames.generation = frames.generation,
         NEW H, NEW gone, Leaves(c, H, gone),
         \A v \in Viewers : PanelSound(viewer'[v], c.stream, c.frames, emitted'),
         c.stream.terminal /\ Following' # {} => c.stream.chain > 0 \/ finalReadFailed'
  PROVE  IInv'
<1> DEFINE k == emitted'
<1>1. /\ c \in Channels(k) /\ Balanced(c.stream) /\ c.stream.phase = "open"
      /\ Awaiting(c.stream, k, ended')
      /\ SnapshotFollowed(c.stream, c.frames, k) /\ RetainedFollowed(c.stream, c.frames, k)
  BY DEF Whole
<1>2. /\ IsFiniteSet(H) /\ H # {} /\ gone \subseteq H /\ c.stream.refs = Cardinality(H)
      /\ Holders' = H \ gone /\ Waiting' = {}
      /\ \/ gone = {} /\ stream' = c.stream /\ frames' = c.frames
         \/ Becomes(c, gone)
  BY DEF Leaves
<1>3. k \in Nat
  BY DEF StepTyped
<1>4. /\ c.stream \in Streams(k) /\ IsBuffer(c.frames, Generations, Framed(k))
      /\ IsStream(c.stream, c.frames)
  BY <1>1, <1>3, ChannelFields
<1>5. /\ frames.generation \in Generations /\ frames.generation <= MaxStreams
      /\ frames.generation \in Nat /\ frames.generation + 1 \in Generations
  <2>1. frames.generation \in Generations
    BY DEF IInv, Types, IsBuffer
  <2>2. frames.generation <= MaxStreams
    BY DEF IInv, Held
  <2> QED BY <2>1, <2>2 DEF Generations
<1>6. /\ IsFiniteSet(gone) /\ Cardinality(gone) \in Nat /\ Cardinality(H) \in Nat
      /\ IsFiniteSet(H \ gone) /\ Cardinality(H \ gone) = Cardinality(H) - Cardinality(gone)
  <2>1. IsFiniteSet(gone) /\ IsFiniteSet(H \ gone)
    BY <1>2, FS_Subset, FS_Difference
  <2>2. Cardinality(H \ gone) = Cardinality(H) - Cardinality(H \cap gone)
    BY <1>2, FS_Difference
  <2>3. H \cap gone = gone
    BY <1>2
  <2> QED BY <1>2, <2>1, <2>2, <2>3, FS_CardinalityType
<1>7. ASSUME RefsOnly(c.stream, stream'), stream' \in Streams(k), frames' = c.frames,
             stream'.refs = Cardinality(H \ gone), H \ gone # {}
      PROVE  IInv'
  <2>1. /\ Balanced(stream') /\ Awaiting(stream', k, ended')
        /\ SnapshotFollowed(stream', frames', k) /\ RetainedFollowed(stream', frames', k)
        /\ \A v \in Viewers : PanelSound(viewer'[v], stream', frames', k)
    BY <1>1, <1>7, RefsMatterNot
  <2>2. IsStream(stream', frames')
    BY <1>4, <1>7 DEF IsStream, RefsOnly
  <2>3. Types'
    BY <1>4, <1>7, <2>1, <2>2 DEF Types, StepTyped
  <2>4. /\ stream'.phase = "open" /\ stream'.terminal = c.stream.terminal
        /\ stream'.chain = c.stream.chain
    BY <1>1, <1>7 DEF RefsOnly
  <2>5. Held'
    BY <1>2, <1>5, <1>6, <1>7, <2>4 DEF Held
  <2>6. EndFollowed'
    BY <2>4 DEF EndFollowed
  <2>7. Lags'
    BY <2>1, <2>6 DEF Lags
  <2> QED BY <2>3, <2>5, <2>7 DEF IInv
<1>8. CASE gone = {} /\ stream' = c.stream /\ frames' = c.frames
  <2>1. H \ gone = H
    BY <1>8
  <2>2. RefsOnly(c.stream, stream')
    BY <1>8 DEF RefsOnly
  <2> QED BY <1>2, <1>4, <1>7, <1>8, <2>1, <2>2
<1>9. CASE /\ c.stream.refs > Cardinality(gone)
           /\ stream' = [c.stream EXCEPT !.refs = @ - Cardinality(gone)] /\ frames' = c.frames
  <2>1. c.stream.refs - Cardinality(gone) \in Nat
    BY <1>2, <1>6, <1>9
  <2>2. \A x \in Nat : LET t == [c.stream EXCEPT !.refs = x]
                       IN  t \in Streams(k) /\ RefsOnly(c.stream, t) /\ t.refs = x
    BY <1>4 DEF Streams, RefsOnly
  <2>3. stream' \in Streams(k) /\ RefsOnly(c.stream, stream')
        /\ stream'.refs = c.stream.refs - Cardinality(gone)
    BY <1>9, <2>1, <2>2
  <2>4. H \ gone # {}
    <3>1. Cardinality(H \ gone) # 0
      BY <1>2, <1>6, <1>9
    <3> QED BY <3>1, FS_EmptySet
  <2> QED BY <1>2, <1>6, <1>7, <1>9, <2>3, <2>4
<1>10. CASE /\ ~(c.stream.refs > Cardinality(gone))
            /\ stream' = NoStream /\ frames' = EmptyBuffer(frames.generation + 1)
  <2>1. H \ gone = {}
    <3>1. Cardinality(H \ gone) = 0
      <4>1. Cardinality(H \ gone) \in Nat
        BY <1>6, FS_CardinalityType
      <4> QED BY <1>2, <1>6, <1>10, <4>1
    <3> QED BY <1>6, <3>1, FS_EmptySet
  <2>2. \A v \in Viewers : viewer'[v].at # "open"
    BY <1>2, <2>1 DEF Holders
  <2>3. /\ stream' \in Streams(k) /\ Balanced(stream')
        /\ IsBuffer(frames', Generations, Framed(k)) /\ IsStream(stream', frames')
        /\ frames'.generation = frames.generation + 1
        /\ Awaiting(stream', k, ended')
        /\ SnapshotFollowed(stream', frames', k) /\ RetainedFollowed(stream', frames', k)
    BY <1>3, <1>5, <1>10, NoStreamTyped
  <2>4. /\ stream'.phase = "none" /\ stream'.chain = 0 /\ ~stream'.terminal
        /\ frames' = EmptyBuffer(frames'.generation)
    BY <1>10, <2>3 DEF NoStream
  <2>5. ASSUME NEW v \in Viewers PROVE PanelSound(viewer'[v], stream', frames', k)
    <3>1. viewer'[v] \in Panels(k)
      BY DEF StepTyped
    <3>2. viewer'[v].generation \in Nat /\ viewer'[v].inbox \in Seq(Letters(k))
      BY <3>1 DEF Panels
    <3>3. \A i \in DOMAIN viewer'[v].inbox :
            IsHello(viewer'[v].inbox[i]) => viewer'[v].inbox[i].generation \in Nat
      <4>1. \A m \in Letters(k) : IsHello(m) => m.generation \in Nat
        BY DEF Letters, NumberedOf, IsHello, IsNumbered
      <4>2. \A i \in DOMAIN viewer'[v].inbox : viewer'[v].inbox[i] \in Letters(k)
        BY <3>2
      <4> QED BY <4>1, <4>2
    <3>4. KnowsOpened(viewer'[v], c.stream, c.frames)
      BY DEF PanelSound
    <3>5. viewer'[v].at # "open"
      BY <2>2
    <3>6. c.frames.generation \in Nat
      BY <1>5
    <3> QED BY <1>10, <3>2, <3>3, <3>4, <3>5, <3>6, PanelClosed
  <2>6. Types'
    BY <2>3 DEF Types, StepTyped
  <2>7. Held'
    BY <1>2, <2>1, <2>4 DEF Held
  <2>8. EndFollowed'
    BY <2>4 DEF EndFollowed
  <2>9. Lags'
    BY <2>3, <2>5, <2>8 DEF Lags
  <2> QED BY <2>6, <2>7, <2>9 DEF IInv
<1> QED BY <1>2, <1>8, <1>9, <1>10 DEF Becomes

------------------------------------------------------------------------------
(* What is dispatched to those who follow                                    *)

(* Whatever a cursor before the step could still be told, it can still be    *)
(* told after it, and what the step is about as well.                        *)
LEMMA Carried ==
  ASSUME NEW k \in Nat, NEW k0 \in Nat, NEW s, NEW b, IsBuffer(b, Generations, Framed(k)),
         NEW over, NEW c, Sound(c, s, b, k0, k, over),
         NEW q \in Nat, q < b.nextSeq, q + 1 >= Lowest(c.frames), NEW n \in 1 .. k,
         n > k0 \/ HeldBack(s, n) \/ After(b, q, n)
  PROVE  HeldBack(c.stream, n) \/ After(c.frames, q, n)
<1>1. /\ c \in Channels(k) /\ Followed(b, c)
      /\ n > k0 \/ HeldBack(s, n) => HeldBack(c.stream, n) \/ ShownBy(c.out, 1, n)
  BY DEF Sound
<1>2. CASE After(b, q, n)
  BY <1>1, <1>2, AfterFollowed
<1>3. CASE ShownBy(c.out, 1, n)
  <2>1. PICK i \in 1 .. Len(c.out) : Shows(c.out[i].frame, n)
    BY <1>3 DEF ShownBy
  <2>2. c.out[i].id = (b.nextSeq - 1) + i
    BY <1>1 DEF Followed
  <2>3. b.nextSeq \in Nat /\ i \in Nat /\ i >= 1
    BY RetainedWindow
  <2>4. c.out[i].id > q
    BY <2>2, <2>3
  <2> QED BY <1>1, <2>1, <2>4, AfterFollowed
<1> QED BY <1>1, <1>2, <1>3

(* Each snapshot that is retained stays followed.                            *)
LEMMA RetainedOn ==
  ASSUME NEW k \in Nat, NEW k0 \in Nat, NEW s, NEW b, IsBuffer(b, Generations, Framed(k)),
         NEW over, NEW c, Sound(c, s, b, k0, k, over), RetainedFollowed(s, b, k0)
  PROVE  RetainedFollowed(c.stream, c.frames, k)
<1>1. /\ c \in Channels(k) /\ Followed(b, c)
      /\ \A i \in 1 .. Len(c.out), n \in 1 .. k :
           Drops(c.out[i].frame, n) => HeldBack(c.stream, n) \/ ShownBy(c.out, i + 1, n)
  BY DEF Sound
<1>2. IsBuffer(c.frames, Generations, Framed(k)) /\ c.out \in Seq(NumberedOf(k))
  BY <1>1, ChannelFields
<1>3. SUFFICES ASSUME NEW x \in Retained(c.frames), NEW n \in 1 .. k, Drops(x.event, n)
               PROVE  HeldBack(c.stream, n) \/ After(c.frames, x.seq, n)
  BY DEF RetainedFollowed
<1>4. x.seq \in Nat /\ x.seq + 1 >= Lowest(c.frames) /\ Lowest(c.frames) \in Nat
  BY <1>2, RetainedWindow
<1>5. CASE x \in Retained(b)
  <2>1. x.seq < b.nextSeq
    BY <1>5, RetainedWindow
  <2>2. n > k0 \/ HeldBack(s, n) \/ After(b, x.seq, n)
    <3>1. n > k0 \/ n \in 1 .. k0
      OBVIOUS
    <3> QED BY <1>3, <1>5, <3>1 DEF RetainedFollowed
  <2> QED BY <1>4, <2>1, <2>2, Carried
<1>6. ASSUME NEW i \in 1 .. Len(c.out), x = Entry(c.out[i])
      PROVE  HeldBack(c.stream, n) \/ After(c.frames, x.seq, n)
  <2>1. x.seq = c.out[i].id /\ x.event = c.out[i].frame
    BY <1>6 DEF Entry
  <2>2. CASE ShownBy(c.out, i + 1, n)
    <3>1. PICK j \in i + 1 .. Len(c.out) : Shows(c.out[j].frame, n)
      BY <2>2 DEF ShownBy
    <3>2. j \in 1 .. Len(c.out) /\ j > i
      BY <1>2
    <3>3. c.out[j].id = (b.nextSeq - 1) + j /\ c.out[i].id = (b.nextSeq - 1) + i
      BY <1>1, <3>2 DEF Followed
    <3>4. c.out[j].id > x.seq
      <4>1. b.nextSeq \in Nat
        BY RetainedWindow
      <4> QED BY <2>1, <3>2, <3>3, <4>1
    <3> QED BY <1>1, <1>4, <3>1, <3>2, <3>4, AfterFollowed
  <2> QED BY <1>1, <1>3, <2>1, <2>2
<1> QED BY <1>1, <1>5, <1>6 DEF Followed

(* What a panel's connection does with what is dispatched.                   *)
Receives(p, q, c) ==
  /\ q.generation = p.generation /\ q.lastEventId = p.lastEventId /\ q.have = p.have /\ q.base = p.base
  /\ \/ /\ p.at = "open" /\ q.inbox = p.inbox \o c.out
        /\ q.at = "open" \/ (q.at = "closing" /\ c.stream.terminal)
     \/ /\ p.at # "open" /\ q.inbox = p.inbox /\ q.at # "open"
        /\ q.at \in {"away", "over", "closing"} => q.at = p.at
        /\ p.at \in {"away", "over", "closing"} => q.at = p.at

LEMMA NumberedLetters ==
  ASSUME NEW k, NEW m \in NumberedOf(k)
  PROVE  IsNumbered(m) /\ ~IsHello(m) /\ Body(m) = m.frame /\ m.id \in Nat
<1>1. IsNumbered(m) /\ m.id \in Nat
  BY DEF NumberedOf, IsNumbered
<1> QED BY <1>1 DEF IsHello, Body

LEMMA LettersNumbered ==
  ASSUME NEW k, NEW m \in Letters(k), IsNumbered(m)
  PROVE  m \in NumberedOf(k)
BY DEF Letters, IsNumbered

(* The inbox of a connection that follows, with what is appended to it.      *)
Appended(x, o, w, k) ==
  /\ Len(w) = Len(x) + Len(o) /\ DOMAIN w = 1 .. Len(w)
  /\ Len(x) \in Nat /\ Len(o) \in Nat /\ DOMAIN x = 1 .. Len(x)
  /\ \A i \in 1 .. Len(x) : i \in 1 .. Len(w)
  /\ \A i \in 1 .. Len(w) : i \in 1 .. Len(x) \/ i \in Len(x) + 1 .. Len(w)
  /\ \A i \in 1 .. Len(x) : w[i] = x[i] /\ w[i] \in Letters(k)
  /\ \A i \in Len(x) + 1 .. Len(w) :
       i - Len(x) \in 1 .. Len(o) /\ w[i] = o[i - Len(x)] /\ w[i] \in NumberedOf(k)
  /\ \A i \in 1 .. Len(o) : Len(x) + i \in Len(x) + 1 .. Len(w) /\ w[Len(x) + i] = o[i]

LEMMA InboxGrows ==
  ASSUME NEW k \in Nat, NEW p \in Panels(k), NEW o \in Seq(NumberedOf(k)),
         NEW w, w = p.inbox \o o
  PROVE  Appended(p.inbox, o, w, k)
<1>1. p.inbox \in Seq(Letters(k))
  BY DEF Panels
<1> DEFINE x == p.inbox
<1>2. x \in Seq(Letters(k)) /\ w = x \o o
  BY <1>1
<1> HIDE DEF x
<1>3. /\ Len(w) = Len(x) + Len(o) /\ DOMAIN w = 1 .. Len(w)
      /\ Len(x) \in Nat /\ Len(o) \in Nat /\ DOMAIN x = 1 .. Len(x)
  BY <1>2
<1>4. \A i \in 1 .. Len(x) : w[i] = x[i] /\ w[i] \in Letters(k)
  BY <1>2, <1>3
<1>5. \A i \in Len(x) + 1 .. Len(w) :
        i - Len(x) \in 1 .. Len(o) /\ w[i] = o[i - Len(x)] /\ w[i] \in NumberedOf(k)
  <2> TAKE i \in Len(x) + 1 .. Len(w)
  <2>1. i - Len(x) \in 1 .. Len(o)
    BY <1>3
  <2>2. w[i] = o[i - Len(x)]
    BY <1>2, <1>3
  <2> QED BY <2>1, <2>2
<1>6. \A i \in 1 .. Len(o) : Len(x) + i \in Len(x) + 1 .. Len(w) /\ w[Len(x) + i] = o[i]
  <2> TAKE i \in 1 .. Len(o)
  <2>1. Len(x) + i \in Len(x) + 1 .. Len(w) /\ (Len(x) + i) - Len(x) = i
    BY <1>3
  <2> QED BY <1>5, <2>1
<1>7. /\ \A i \in 1 .. Len(x) : i \in 1 .. Len(w)
      /\ \A i \in 1 .. Len(w) : i \in 1 .. Len(x) \/ i \in Len(x) + 1 .. Len(w)
  BY <1>3
<1>8. Appended(x, o, w, k)
  BY <1>7,  <1>3, <1>4, <1>5, <1>6 DEF Appended
<1> QED BY <1>8 DEF x

LEMMA InboxInOrderOn ==
  ASSUME NEW k \in Nat, NEW b, IsBuffer(b, Generations, Framed(k)),
         NEW c \in Channels(k), Followed(b, c),
         NEW p \in Panels(k), InboxInOrder(p, b),
         NEW q, q.inbox = p.inbox \o c.out, q.lastEventId = p.lastEventId
  PROVE  InboxInOrder(q, c.frames)
<1>1. c.out \in Seq(NumberedOf(k)) /\ IsBuffer(c.frames, Generations, Framed(k))
  BY ChannelFields
<1> DEFINE L == Len(p.inbox)
<1>2. PICK w : w = p.inbox \o c.out
  OBVIOUS
<1> HIDE DEF L
<1>3. /\ Len(w) = L + Len(c.out) /\ DOMAIN w = 1 .. Len(w)
      /\ L \in Nat /\ Len(c.out) \in Nat
      /\ DOMAIN p.inbox = 1 .. L
      /\ \A i \in 1 .. L : w[i] = p.inbox[i] /\ w[i] \in Letters(k)
      /\ \A i \in L + 1 .. Len(w) :
           /\ i - L \in 1 .. Len(c.out) /\ w[i] = c.out[i - L]
           /\ w[i] \in NumberedOf(k)
  <2>1. Appended(p.inbox, c.out, w, k)
    BY <1>1, <1>2, InboxGrows
  <2> QED BY <2>1 DEF L, Appended
<1>4. /\ b.nextSeq \in Nat /\ Lowest(b) \in Nat /\ Lowest(c.frames) \in Nat
      /\ c.frames.nextSeq = b.nextSeq + Len(c.out) /\ Lowest(b) <= Lowest(c.frames)
  BY <1>1, RetainedWindow DEF Followed
<1>5. \A i \in L + 1 .. Len(w) : IsNumbered(w[i]) /\ ~IsHello(w[i]) /\ w[i].id = (b.nextSeq - 1) + (i - L)
  BY <1>3, NumberedLetters DEF Followed
<1>6. ASSUME NEW i \in 1 .. Len(w), IsNumbered(w[i])
      PROVE  NumberedInOrder(w, i, c.frames)
  <2>1. CASE i \in 1 .. L
    <3>1. NumberedInOrder(p.inbox, i, b)
      BY <1>3, <1>6, <2>1 DEF InboxInOrder
    <3>2. /\ w[i].id < b.nextSeq /\ w[i].id \in Nat
          /\ w[i].id >= Lowest(b) => Entry(w[i]) \in Retained(b)
          /\ \A j \in i + 1 .. L : IsNumbered(w[j]) /\ w[j].id > w[i].id
      <4>1. \A j \in i + 1 .. L : w[j] = p.inbox[j]
        BY <1>3, <2>1
      <4>2. w[i] \in NumberedOf(k)
        BY <1>3, <1>6, <2>1, LettersNumbered
      <4>3. w[i].id \in Nat
        BY <4>2 DEF NumberedOf
      <4>4. w[i] = p.inbox[i] /\ L = Len(p.inbox)
        BY <1>3, <2>1 DEF L
      <4> QED BY <3>1, <4>1, <4>3, <4>4 DEF NumberedInOrder
    <3>3. w[i].id < c.frames.nextSeq
      BY <1>3, <1>4, <3>2, SMTT(30)
    <3>4. w[i].id >= Lowest(c.frames) => Entry(w[i]) \in Retained(c.frames)
      <4>1. SUFFICES ASSUME w[i].id >= Lowest(c.frames) PROVE Entry(w[i]) \in Retained(c.frames)
        OBVIOUS
      <4>2. w[i].id >= Lowest(b)
        BY <1>4, <3>2, <4>1
      <4>3. Entry(w[i]) \in Retained(b) /\ Entry(w[i]).seq >= Lowest(c.frames)
        BY <3>2, <4>1, <4>2 DEF Entry
      <4> QED BY <4>3 DEF Followed
    <3>5. ASSUME NEW j \in i + 1 .. Len(w) PROVE IsNumbered(w[j]) /\ w[j].id > w[i].id
      <4>1. CASE j \in i + 1 .. L
        BY <3>2, <4>1
      <4>2. CASE j \in L + 1 .. Len(w)
        <5>1. IsNumbered(w[j]) /\ w[j].id = (b.nextSeq - 1) + (j - L)
          BY <1>5, <4>2
        <5>2. j - L >= 1 /\ j - L \in Nat
          BY <1>3, <4>2
        <5>3. \A x, y, z \in Nat : z >= 1 /\ x < y => (y - 1) + z > x
          OBVIOUS
        <5> QED BY <1>4, <3>2, <5>1, <5>2, <5>3, Zenon
      <4>3. j \in i + 1 .. L \/ j \in L + 1 .. Len(w)
        BY <1>3, <2>1
      <4> QED BY <4>1, <4>2, <4>3
    <3> QED BY <3>3, <3>4, <3>5 DEF NumberedInOrder
  <2>2. CASE i \in L + 1 .. Len(w)
    <3>1. i - L \in 1 .. Len(c.out) /\ w[i] = c.out[i - L]
      BY <1>3, <2>2
    <3>2. w[i].id = (b.nextSeq - 1) + (i - L)
      BY <1>5, <2>2
    <3>3. w[i].id < c.frames.nextSeq
      <4>1. i - L \in Nat /\ i - L <= Len(c.out)
        BY <1>3, <3>1
      <4> QED BY <1>3, <1>4, <3>2, <4>1, SMTT(30)
    <3>4. w[i].id >= Lowest(c.frames) => Entry(w[i]) \in Retained(c.frames)
      BY <3>1 DEF Followed
    <3>5. ASSUME NEW j \in i + 1 .. Len(w) PROVE IsNumbered(w[j]) /\ w[j].id > w[i].id
      <4>1. j \in L + 1 .. Len(w) /\ j > i /\ j \in Nat /\ i \in Nat
        <5>1. L \in Nat /\ Len(w) \in Nat
          BY <1>3
        <5> QED BY <2>2, <3>5, <5>1
      <4>2. IsNumbered(w[j]) /\ w[j].id = (b.nextSeq - 1) + (j - L)
        BY <1>5, <4>1
      <4>3. \A x, y, z, u \in Nat : y > x => (z - 1) + (y - u) > (z - 1) + (x - u)
        OBVIOUS
      <4>4. (b.nextSeq - 1) + (j - L) > (b.nextSeq - 1) + (i - L)
        BY <1>3, <1>4, <4>1, <4>3
      <4> QED BY <3>2, <4>2, <4>4
    <3> QED BY <3>3, <3>4, <3>5 DEF NumberedInOrder
  <2> QED BY <1>3, <2>1, <2>2
<1>7. ASSUME NEW i \in 1 .. Len(w), IsHello(w[i]) PROVE i = 1
  <2>1. i \in 1 .. L
    <3>1. i \notin L + 1 .. Len(w)
      BY <1>5, <1>7
    <3>2. i \in 1 .. L \/ i \in L + 1 .. Len(w)
      <4>1. L \in Nat /\ Len(w) \in Nat
        BY <1>3
      <4> QED BY <4>1
    <3> QED BY <3>1, <3>2
  <2> QED BY <1>3, <1>7, <2>1 DEF InboxInOrder
<1>8. ASSUME NEW i \in 1 .. Len(w), ~IsNumbered(w[i]), w[i].type = "session_snapshot"
      PROVE  ForgetsCursor(q)
  <2>1. i \in 1 .. L
    <3>1. i \notin L + 1 .. Len(w)
      BY <1>5, <1>8
    <3>2. i \in 1 .. L \/ i \in L + 1 .. Len(w)
      <4>1. L \in Nat /\ Len(w) \in Nat
        BY <1>3
      <4> QED BY <4>1
    <3> QED BY <3>1, <3>2
  <2>2. ForgetsCursor(p)
    BY <1>3, <1>8, <2>1 DEF InboxInOrder
  <2>3. q.inbox[1] = p.inbox[1]
    <3>1. 1 \in 1 .. L
      BY <1>3, <2>1
    <3>2. w[1] = p.inbox[1]
      BY <1>3, <3>1
    <3> QED BY <1>2, <3>2
  <2> QED BY <2>2, <2>3 DEF ForgetsCursor
<1>9. q.inbox = w
  BY <1>2
<1> QED BY <1>3, <1>6, <1>7, <1>8, <1>9 DEF InboxInOrder

LEMMA CompleteOn ==
  ASSUME NEW k \in Nat, NEW k0 \in Nat, k0 <= k, NEW s, NEW b, NEW over,
         NEW c, Sound(c, s, b, k0, k, over),
         NEW p \in Panels(k), Complete(p, s, k0),
         NEW q, q.inbox = p.inbox \o c.out, q.have = p.have /\ q.base = p.base
  PROVE  Complete(q, c.stream, k)
<1>1. /\ c \in Channels(k)
      /\ \A n \in 1 .. k : n > k0 \/ HeldBack(s, n) => HeldBack(c.stream, n) \/ ShownBy(c.out, 1, n)
      /\ \A i \in 1 .. Len(c.out), n \in 1 .. k :
           Drops(c.out[i].frame, n) => HeldBack(c.stream, n) \/ ShownBy(c.out, i + 1, n)
  BY DEF Sound
<1>2. c.out \in Seq(NumberedOf(k))
  BY <1>1, ChannelFields
<1> DEFINE L == Len(p.inbox)
<1> HIDE DEF L
<1>3. PICK w : w = p.inbox \o c.out
  OBVIOUS
<1>4. /\ Len(w) = L + Len(c.out) /\ DOMAIN w = 1 .. Len(w)
      /\ L \in Nat /\ Len(c.out) \in Nat /\ DOMAIN p.inbox = 1 .. L
      /\ \A i \in 1 .. L : w[i] = p.inbox[i] /\ w[i] \in Letters(k)
      /\ \A i \in L + 1 .. Len(w) :
           i - L \in 1 .. Len(c.out) /\ w[i] = c.out[i - L] /\ w[i] \in NumberedOf(k)
      /\ \A i \in 1 .. Len(c.out) : L + i \in L + 1 .. Len(w) /\ w[L + i] = c.out[i]
  <2>1. Appended(p.inbox, c.out, w, k)
    BY <1>2, <1>3, InboxGrows
  <2> QED BY <2>1 DEF L, Appended
<1>5. \A i \in 1 .. Len(c.out) : Body(w[L + i]) = c.out[i].frame
  BY <1>2, <1>4, NumberedLetters
<1>6. ASSUME NEW n \in 1 .. k, ~HeldBack(c.stream, n)
      PROVE  /\ n \in Screen(p) \/ (\E i \in 1 .. Len(w) : Shows(Body(w[i]), n))
             /\ \A i \in 1 .. Len(w) : Drops(Body(w[i]), n) =>
                  \E j \in i + 1 .. Len(w) : Shows(Body(w[j]), n)
  <2>1. ASSUME NEW i \in 1 .. Len(c.out), ShownBy(c.out, i, n)
        PROVE  \E j \in L + i .. Len(w) : Shows(Body(w[j]), n)
    <3>1. PICK j \in i .. Len(c.out) : Shows(c.out[j].frame, n)
      BY <2>1 DEF ShownBy
    <3>2. j \in 1 .. Len(c.out) /\ L + j \in L + i .. Len(w)
      BY <1>4
    <3> QED BY <1>5, <3>1, <3>2
  <2>2. ASSUME NEW i \in L + 1 .. Len(w), Drops(Body(w[i]), n)
        PROVE  \E j \in i + 1 .. Len(w) : Shows(Body(w[j]), n)
    <3>1. PICK h \in 1 .. Len(c.out) : i = L + h
      <4>1. i - L \in 1 .. Len(c.out) /\ i = L + (i - L)
        BY <1>4
      <4> QED BY <4>1
    <3>2. Drops(c.out[h].frame, n)
      BY <1>5, <2>2, <3>1
    <3>3. ShownBy(c.out, h + 1, n)
      BY <1>1, <1>6, <3>2
    <3>4. PICK j \in h + 1 .. Len(c.out) : Shows(c.out[j].frame, n)
      BY <3>3 DEF ShownBy
    <3>5. j \in 1 .. Len(c.out) /\ L + j \in i + 1 .. Len(w)
      BY <1>4, <3>1
    <3> QED BY <1>5, <3>4, <3>5
  <2>3. \A i \in 1 .. Len(w) : i \in 1 .. L \/ i \in L + 1 .. Len(w)
    BY <1>4
  <2>4. CASE n > k0 \/ HeldBack(s, n)
    <3>1. ShownBy(c.out, 1, n)
      BY <1>1, <1>6, <2>4
    <3>2. 1 \in 1 .. Len(c.out)
      <4>1. PICK j \in 1 .. Len(c.out) : TRUE
        BY <3>1 DEF ShownBy
      <4> QED BY <1>4, <4>1
    <3>3. PICK j \in L + 1 .. Len(w) : Shows(Body(w[j]), n)
      BY <2>1, <3>1, <3>2
    <3>4. j \in 1 .. Len(w) /\ \A i \in 1 .. L : j \in i + 1 .. Len(w)
      BY <1>4
    <3> QED BY <2>2, <2>3, <3>3, <3>4
  <2>5. CASE ~(n > k0) /\ ~HeldBack(s, n)
    <3>1. n \in 1 .. k0
      BY <2>5
    <3>2. /\ n \in Screen(p) \/ (\E i \in 1 .. L : Shows(Body(p.inbox[i]), n))
          /\ \A i \in 1 .. L : Drops(Body(p.inbox[i]), n) =>
               \E j \in i + 1 .. L : Shows(Body(p.inbox[j]), n)
      <4>1. DOMAIN p.inbox = 1 .. L /\ L = Len(p.inbox)
        BY <1>4 DEF L
      <4> QED BY <2>5, <3>1, <4>1 DEF Complete
    <3>3. \A i \in 1 .. L : i \in 1 .. Len(w)
      BY <1>4
    <3>4. \A i \in 1 .. L : \A j \in i + 1 .. L : j \in 1 .. L /\ j \in i + 1 .. Len(w)
      BY <1>4
    <3> QED BY <1>4, <2>2, <2>3, <3>2, <3>3, <3>4
  <2> QED BY <2>4, <2>5
<1>7. q.inbox = w
  BY <1>3
<1>8. Screen(q) = Screen(p)
  BY DEF Screen
<1> QED BY <1>4, <1>6, <1>7, <1>8 DEF Complete

LEMMA ReceivedSound ==
  ASSUME NEW k \in Nat, NEW k0 \in Nat, k0 <= k, NEW s, s.phase = "open",
         NEW b, IsBuffer(b, Generations, Framed(k)), NEW over,
         NEW c, Sound(c, s, b, k0, k, over),
         NEW p \in Panels(k), PanelSound(p, s, b, k0),
         NEW q, Receives(p, q, c)
  PROVE  PanelSound(q, c.stream, c.frames, k)
<1>1. /\ c \in Channels(k) /\ c.stream.phase = "open" /\ Followed(b, c)
      /\ s.terminal => c.stream.terminal
  BY DEF Sound
<1>2. /\ KnowsOpened(p, s, b) /\ ClosingIsLast(p, s, b) /\ CursorSound(p, s, b, k0)
      /\ p.at = "open" => InboxInOrder(p, b) /\ (Resyncs(p) \/ Complete(p, s, k0))
  BY DEF PanelSound
<1>3. /\ q.generation = p.generation /\ q.lastEventId = p.lastEventId /\ q.have = p.have /\ q.base = p.base
      /\ \/ /\ p.at = "open" /\ q.inbox = p.inbox \o c.out
            /\ q.at = "open" \/ (q.at = "closing" /\ c.stream.terminal)
         \/ /\ p.at # "open" /\ q.inbox = p.inbox /\ q.at # "open"
            /\ q.at \in {"away", "over", "closing"} => q.at = p.at
            /\ p.at \in {"away", "over", "closing"} => q.at = p.at
  BY DEF Receives
<1>4. /\ c.frames.generation = b.generation /\ c.out \in Seq(NumberedOf(k))
      /\ IsBuffer(c.frames, Generations, Framed(k))
  BY <1>1, ChannelFields DEF Followed
<1>5. \A g : Opened(g, s, b) => Opened(g, c.stream, c.frames)
  BY <1>1, <1>4 DEF Opened
<1>6. ASSUME p.at = "open"
      PROVE  Appended(p.inbox, c.out, q.inbox, k)
  BY <1>3, <1>4, <1>6, InboxGrows
<1>7. KnowsOpened(q, c.stream, c.frames)
  <2>1. Opened(q.generation, c.stream, c.frames)
    BY <1>2, <1>3, <1>5 DEF KnowsOpened
  <2>2. ASSUME NEW i \in DOMAIN q.inbox, IsHello(q.inbox[i])
        PROVE  Opened(q.inbox[i].generation, c.stream, c.frames)
    <3>1. i \in DOMAIN p.inbox /\ q.inbox[i] = p.inbox[i]
      <4>1. CASE p.at = "open"
        <5>1. Appended(p.inbox, c.out, q.inbox, k)
          BY <1>6, <4>1
        <5>2. i \in 1 .. Len(p.inbox) \/ i \in Len(p.inbox) + 1 .. Len(q.inbox)
          BY <2>2, <5>1 DEF Appended
        <5>3. i \notin Len(p.inbox) + 1 .. Len(q.inbox)
          BY <2>2, <5>1, NumberedLetters DEF Appended
        <5> QED BY <5>1, <5>2, <5>3 DEF Appended
      <4>2. CASE p.at # "open"
        BY <1>3, <4>2
      <4> QED BY <4>1, <4>2
    <3> QED BY <1>2, <1>5, <2>2, <3>1 DEF KnowsOpened
  <2> QED BY <2>1, <2>2 DEF KnowsOpened
<1>8. ClosingIsLast(q, c.stream, c.frames)
  <2>1. SUFFICES ASSUME q.at = "closing", ~c.stream.terminal
                 PROVE  /\ q.generation # c.frames.generation
                        /\ \A i \in DOMAIN q.inbox :
                             IsHello(q.inbox[i]) => q.inbox[i].generation # c.frames.generation
    BY DEF ClosingIsLast
  <2>2. p.at = "closing" /\ q.inbox = p.inbox /\ ~s.terminal
    BY <1>1, <1>3, <2>1
  <2> QED BY <1>2, <1>3, <1>4, <2>2 DEF ClosingIsLast
<1>9. CursorSound(q, c.stream, c.frames, k)
  <2>1. /\ p.lastEventId \in Nat /\ b.nextSeq \in Nat /\ Lowest(b) \in Nat
        /\ Lowest(c.frames) \in Nat /\ Lowest(b) <= Lowest(c.frames)
        /\ c.frames.nextSeq = b.nextSeq + Len(c.out) /\ Len(c.out) \in Nat
    BY <1>1, <1>4, RetainedWindow, SMTT(30) DEF Panels, Followed
  <2>2. Knows(q, c.stream, c.frames) => Knows(p, s, b)
    BY <1>1, <1>3, <1>4 DEF Knows
  <2>3. Knows(q, c.stream, c.frames) => q.lastEventId < c.frames.nextSeq
    <3>1. Knows(p, s, b) => p.lastEventId < b.nextSeq
      BY <1>2 DEF CursorSound
    <3>2. p.lastEventId < b.nextSeq => p.lastEventId < c.frames.nextSeq
      BY <2>1
    <3> QED BY <1>3, <2>2, <3>1, <3>2
  <2>4. ASSUME Resumes(q, c.stream, c.frames), p.lastEventId + 1 >= Lowest(c.frames),
               NEW n \in 1 .. k
        PROVE  n \in Screen(p) \/ HeldBack(c.stream, n) \/ After(c.frames, p.lastEventId, n)
    <3>1. Resumes(p, s, b) /\ Knows(p, s, b)
      BY <1>3, <2>2, <2>4 DEF Resumes
    <3>2. p.lastEventId + 1 >= Lowest(b)
      BY <2>1, <2>4
    <3>3. /\ p.lastEventId < b.nextSeq
          /\ \A m \in 1 .. k0 : m \in Screen(p) \/ HeldBack(s, m) \/ After(b, p.lastEventId, m)
      BY <1>2, <3>1, <3>2 DEF CursorSound
    <3>4. CASE n \in Screen(p)
      BY <3>4
    <3>5. CASE n \notin Screen(p)
      <4>1. n > k0 \/ n \in 1 .. k0
        OBVIOUS
      <4>2. n > k0 \/ HeldBack(s, n) \/ After(b, p.lastEventId, n)
        BY <3>3, <3>5, <4>1
      <4> QED BY <2>1, <2>4, <3>3, <4>2, Carried
    <3> QED BY <3>4, <3>5
  <2>5. Screen(q) = Screen(p)
    BY <1>3 DEF Screen
  <2> QED BY <1>3, <2>3, <2>4, <2>5 DEF CursorSound
<1>10. ASSUME q.at = "open"
       PROVE  InboxInOrder(q, c.frames) /\ (Resyncs(q) \/ Complete(q, c.stream, k))
  <2>1. p.at = "open" /\ q.inbox = p.inbox \o c.out
    BY <1>3, <1>10
  <2>2. InboxInOrder(q, c.frames)
    BY <1>1, <1>2, <1>3, <2>1, InboxInOrderOn
  <2>3. Appended(p.inbox, c.out, q.inbox, k)
    BY <1>6, <2>1
  <2>4. Resyncs(p) => Resyncs(q)
    <3>1. \A i \in DOMAIN p.inbox : i \in DOMAIN q.inbox /\ q.inbox[i] = p.inbox[i]
      BY <2>3 DEF Appended
    <3> QED BY <3>1 DEF Resyncs
  <2>5. Complete(p, s, k0) => Complete(q, c.stream, k)
    BY <1>3, <2>1, CompleteOn
  <2> QED BY <1>2, <2>1, <2>2, <2>4, <2>5
<1> QED BY <1>7, <1>8, <1>9, <1>10 DEF PanelSound

(* Publish, for one panel.                                                   *)
Written(p, q, c, closes, finished) ==
  q = CASE p.at = "open" ->
             [p EXCEPT !.inbox = @ \o c.out, !.at = IF closes THEN "closing" ELSE @]
        [] p.at = "refreshing" ->
             [p EXCEPT !.ahead = p.ahead - finished,
                       !.at = IF p.ahead - finished = 0 THEN "ready" ELSE @]
        [] OTHER -> p

LEMMA WrittenPanel ==
  ASSUME NEW k \in Nat, NEW p \in Panels(k), NEW c \in Channels(k), NEW closes \in BOOLEAN,
         closes => c.stream.terminal, NEW finished \in {0, 1}, NEW q,
         Written(p, q, c, closes, finished)
  PROVE  /\ q \in Panels(k) /\ Receives(p, q, c)
         /\ q.at = IF p.at = "open" /\ closes THEN "closing" ELSE q.at
         /\ q.at = p.at \/ (p.at = "open" /\ closes /\ q.at = "closing")
                        \/ (p.at = "refreshing" /\ q.at = "ready")
<1>1. c.out \in Seq(NumberedOf(k))
  BY ChannelFields
<1>2. CASE p.at = "open"
  <2>1. q = [p EXCEPT !.inbox = @ \o c.out, !.at = IF closes THEN "closing" ELSE @]
    BY <1>2 DEF Written
  <2>2. p.inbox \o c.out \in Seq(Letters(k))
    <3>1. NumberedOf(k) \subseteq Letters(k)
      BY DEF Letters
    <3>2. c.out \in Seq(Letters(k))
      BY <1>1, <3>1, SeqsGrow
    <3>3. p.inbox \in Seq(Letters(k))
      BY DEF Panels
    <3>4. \A S : \A x, y \in Seq(S) : x \o y \in Seq(S)
      OBVIOUS
    <3> QED BY <3>2, <3>3, <3>4
  <2>3. PICK x : x = p.inbox \o c.out
    OBVIOUS
  <2>4. PICK a \in {"open", "closing"} : a = IF closes THEN "closing" ELSE p.at
    BY <1>2
  <2>5. q = [[p EXCEPT !.inbox = x] EXCEPT !.at = a]
    BY <2>1, <2>3, <2>4
  <2>6. q \in Panels(k) /\ q.at = a /\ q.inbox = x
        /\ q.generation = p.generation /\ q.lastEventId = p.lastEventId /\ q.have = p.have /\ q.base = p.base
    BY <2>2, <2>3, <2>5 DEF Panels, Places
  <2> QED BY <1>2, <2>3, <2>4, <2>6 DEF Receives
<1>3. CASE p.at = "refreshing"
  <2>1. PICK n \in Int : n = p.ahead - finished
    BY DEF Panels
  <2>2. PICK a \in {"ready", "refreshing"} : a = IF n = 0 THEN "ready" ELSE p.at
    BY <1>3
  <2>3. q = [[p EXCEPT !.ahead = n] EXCEPT !.at = a]
    BY <1>3, <2>1, <2>2 DEF Written
  <2>4. q \in Panels(k) /\ q.at = a /\ q.inbox = p.inbox
        /\ q.generation = p.generation /\ q.lastEventId = p.lastEventId /\ q.have = p.have /\ q.base = p.base
    BY <2>1, <2>2, <2>3 DEF Panels, Places
  <2> QED BY <1>3, <2>2, <2>4 DEF Receives
<1>4. CASE p.at \notin {"open", "refreshing"}
  <2>1. q = p
    BY <1>4 DEF Written
  <2> QED BY <1>4, <2>1 DEF Receives
<1> QED BY <1>2, <1>3, <1>4

(* A step that publishes what a sound channel has dispatched.                *)
LEMMA Published ==
  ASSUME IInv, stream.phase = "open", emitted' \in Nat, emitted <= emitted',
         emitted' \in 0 .. MaxEvents, ended' \in BOOLEAN, finalReadFailed' \in BOOLEAN,
         turns' \subseteq 1 .. emitted', childFaults' \in 0 .. MaxChildFaults,
         NEW c, Sound(c, stream, frames, emitted, emitted', ended'),
         NEW finished \in {0, 1}, Publish(c, finished),
         c.stream.terminal /\ Following' # {} => c.stream.chain > 0 \/ finalReadFailed'
  PROVE  IInv'
<1> DEFINE k == emitted'
           closes == \E i \in DOMAIN c.out : Ends(c.out[i])
           gone == IF closes THEN Following ELSE {}
<1>1. /\ c \in Channels(k) /\ Balanced(c.stream) /\ c.stream.phase = "open"
      /\ c.stream.refs = stream.refs /\ Followed(frames, c)
      /\ \A i \in 1 .. Len(c.out) : Ends(c.out[i]) => c.stream.terminal
      /\ Awaiting(c.stream, k, ended') /\ SnapshotFollowed(c.stream, c.frames, k)
  BY DEF Sound
<1>2. closes => c.stream.terminal
  <2>1. c.out \in Seq(NumberedOf(k))
    BY <1>1, ChannelFields
  <2> QED BY <1>1, <2>1
<1>3. /\ \A v \in Viewers : Written(viewer[v], viewer'[v], c, closes, finished)
      /\ viewer' = [v \in Viewers |-> viewer'[v]]
      /\ Becomes(c, gone)
  BY <1>1 DEF Publish, Written
<1>4. closes \in BOOLEAN
  OBVIOUS
<1> HIDE DEF closes
<1>5. /\ emitted \in Nat /\ IsBuffer(frames, Generations, Framed(k))
      /\ \A v \in Viewers : viewer[v] \in Panels(k) /\ viewer[v] \in Panels(emitted)
      /\ RetainedFollowed(stream, frames, emitted)
      /\ \A v \in Viewers : PanelSound(viewer[v], stream, frames, emitted)
  <2>1. /\ emitted \in Nat /\ IsBuffer(frames, Generations, Framed(k))
    BY ChannelOfState
  <2>2. \A v \in Viewers : viewer[v] \in Panels(emitted)
    BY DEF IInv, Types
  <2>3. Panels(emitted) \subseteq Panels(k)
    BY <2>1, TypesGrow
  <2> QED BY <2>1, <2>2, <2>3 DEF IInv, Lags
<1>6. ASSUME NEW v \in Viewers
      PROVE  /\ viewer'[v] \in Panels(k) /\ Receives(viewer[v], viewer'[v], c)
             /\ viewer'[v].at = IF viewer[v].at = "open" /\ closes THEN "closing" ELSE viewer'[v].at
             /\ \/ viewer'[v].at = viewer[v].at
                \/ viewer[v].at = "open" /\ closes /\ viewer'[v].at = "closing"
                \/ viewer[v].at = "refreshing" /\ viewer'[v].at = "ready"
  BY <1>1, <1>2, <1>3, <1>4, <1>5, WrittenPanel
<1>7. StepTyped
  BY <1>3, <1>6 DEF StepTyped
<1>8. RetainedFollowed(c.stream, c.frames, k)
  BY <1>5, RetainedOn
<1>9. Whole(c, k, ended')
  BY <1>1, <1>8 DEF Whole
<1>10. \A v \in Viewers : PanelSound(viewer'[v], c.stream, c.frames, k)
  BY <1>5, <1>6, ReceivedSound
<1>11. Leaves(c, Holders, gone)
  <2>1. IsFiniteSet(Holders) /\ Holders # {} /\ stream.refs = Cardinality(Holders) /\ Waiting = {}
    BY DEF IInv, Held
  <2>2. gone \subseteq Holders
    BY DEF Following, Holders
  <2>3. Holders' = Holders \ gone
    <3>1. ASSUME NEW v \in Viewers
          PROVE  v \in Holders' <=> v \in Holders /\ v \notin gone
      BY <1>6 DEF Holders, Following
    <3>2. Holders' \subseteq Viewers /\ Holders \subseteq Viewers
      BY DEF Holders
    <3> QED BY <3>1, <3>2
  <2>4. Waiting' = {}
    BY <1>6, <2>1 DEF Waiting
  <2> QED BY <1>1, <1>3, <2>1, <2>2, <2>3, <2>4 DEF Leaves
<1>12. c.frames.generation = frames.generation
  BY <1>1 DEF Followed
<1> HIDE DEF gone
<1> QED BY <1>7, <1>9, <1>10, <1>11, <1>12, OpenStep

(* No panel begins to follow when something is published, and who follows    *)
(* a stream that ends stops.                                                 *)
LEMMA PublishedTo ==
  ASSUME IInv, NEW c, NEW finished \in {0, 1}, Publish(c, finished)
  PROVE  /\ Following' \subseteq Following
         /\ (\E i \in DOMAIN c.out : Ends(c.out[i])) => Following' = {}
<1> DEFINE closes == \E i \in DOMAIN c.out : Ends(c.out[i])
<1>1. \A v \in Viewers : Written(viewer[v], viewer'[v], c, closes, finished)
  BY DEF Publish, Written
<1> HIDE DEF closes
<1>2. ASSUME NEW v \in Viewers, viewer'[v].at = "open" PROVE viewer[v].at = "open" /\ ~closes
  <2>1. viewer[v] \in Panels(emitted)
    BY DEF IInv, Types
  <2>2. PICK p \in Panels(emitted) : p = viewer[v]
    BY <2>1
  <2>3. PICK q : q = viewer'[v]
    OBVIOUS
  <2>4. Written(p, q, c, closes, finished) /\ q.at = "open"
    BY <1>1, <1>2, <2>2, <2>3
  <2>5. CASE p.at = "open"
    <3>1. q = [p EXCEPT !.inbox = @ \o c.out, !.at = IF closes THEN "closing" ELSE @]
      BY <2>4, <2>5 DEF Written
    <3>2. q.at = IF closes THEN "closing" ELSE p.at
      BY <3>1 DEF Panels
    <3> QED BY <2>2, <2>4, <2>5, <3>2
  <2>6. CASE p.at = "refreshing"
    <3>1. q = [p EXCEPT !.ahead = p.ahead - finished,
                        !.at = IF p.ahead - finished = 0 THEN "ready" ELSE @]
      BY <2>4, <2>6 DEF Written
    <3>2. q.at = IF p.ahead - finished = 0 THEN "ready" ELSE p.at
      BY <3>1 DEF Panels
    <3> QED BY <2>4, <2>6, <3>2
  <2>7. CASE p.at \notin {"open", "refreshing"}
    BY <2>4, <2>7 DEF Written
  <2> QED BY <2>5, <2>6, <2>7
<1>3. Following' \subseteq Following
  BY <1>2 DEF Following
<1>4. closes => Following' = {}
  BY <1>2 DEF Following
<1> QED BY <1>3, <1>4 DEF closes

------------------------------------------------------------------------------
(* Steps that dispatch nothing                                               *)

(* The stream holds back more, or awaits a read: what it was is kept.        *)
Beside(s, t) ==
  /\ t.phase = s.phase /\ t.refs = s.refs /\ t.upto = s.upto /\ t.terminal = s.terminal
  /\ t.replayFrom = s.replayFrom /\ t.buffering = s.buffering /\ t.chain = s.chain

HoldsMore(s, t, k0, k) == \A n \in 1 .. k : n > k0 \/ HeldBack(s, n) => HeldBack(t, n)

LEMMA PanelBeside ==
  ASSUME NEW s, NEW t, Beside(s, t), NEW k0 \in Nat, NEW k \in Nat, k0 <= k, NEW b,
         s.phase = "open" => HoldsMore(s, t, k0, k), NEW p, PanelSound(p, s, b, k0),
         s.phase # "open" => p.at # "open"
  PROVE  PanelSound(p, t, b, k)
<1>1. /\ KnowsOpened(p, s, b) /\ ClosingIsLast(p, s, b) /\ CursorSound(p, s, b, k0)
      /\ p.at = "open" => InboxInOrder(p, b) /\ (Resyncs(p) \/ Complete(p, s, k0))
  BY DEF PanelSound
<1>2. t.phase = s.phase /\ t.terminal = s.terminal
  BY DEF Beside
<1>3. KnowsOpened(p, t, b) /\ ClosingIsLast(p, t, b)
  BY <1>1, <1>2 DEF KnowsOpened, ClosingIsLast, Opened
<1>4. \A n \in 1 .. k : n > k0 \/ n \in 1 .. k0
  OBVIOUS
<1>5. CursorSound(p, t, b, k)
  <2>1. Knows(p, t, b) <=> Knows(p, s, b)
    BY <1>2 DEF Knows
  <2>2. ASSUME Resumes(p, t, b), p.lastEventId + 1 >= Lowest(b), NEW n \in 1 .. k
        PROVE  n \in Screen(p) \/ HeldBack(t, n) \/ After(b, p.lastEventId, n)
    <3>1. Resumes(p, s, b) /\ s.phase = "open"
      BY <2>1, <2>2 DEF Resumes, Knows
    <3>2. \A m \in 1 .. k0 : m \in Screen(p) \/ HeldBack(s, m) \/ After(b, p.lastEventId, m)
      BY <1>1, <2>2, <3>1 DEF CursorSound
    <3> QED BY <1>4, <3>1, <3>2 DEF HoldsMore
  <2> QED BY <1>1, <2>1, <2>2 DEF CursorSound
<1>6. ASSUME p.at = "open", Complete(p, s, k0) PROVE Complete(p, t, k)
  <2>1. SUFFICES ASSUME NEW n \in 1 .. k, ~HeldBack(t, n)
                 PROVE  n \in 1 .. k0 /\ ~HeldBack(s, n)
    BY <1>6 DEF Complete
  <2> QED BY <1>4, <1>6, <2>1 DEF HoldsMore
<1> QED BY <1>1, <1>3, <1>5, <1>6 DEF PanelSound

LEMMA BesideStep ==
  ASSUME IInv, emitted' \in 0 .. MaxEvents, emitted <= emitted', ended' \in BOOLEAN,
         finalReadFailed' = finalReadFailed, childFaults' \in 0 .. MaxChildFaults,
         turns' \subseteq 1 .. emitted',
         frames' = frames, viewer' = viewer, stream' \in Streams(emitted'),
         Beside(stream, stream'), Awaiting(stream', emitted', ended'),
         stream.phase = "open" => HoldsMore(stream, stream', emitted, emitted')
  PROVE  IInv'
<1> DEFINE k == emitted'
<1>1. /\ emitted \in Nat /\ k \in Nat /\ Types /\ Held /\ Lags
      /\ IsBuffer(frames, Generations, Framed(k))
  BY ChannelOfState DEF IInv, Types
<1>2. /\ stream'.phase = stream.phase /\ stream'.refs = stream.refs /\ stream'.upto = stream.upto
      /\ stream'.terminal = stream.terminal /\ stream'.replayFrom = stream.replayFrom
      /\ stream'.buffering = stream.buffering /\ stream'.chain = stream.chain
  BY DEF Beside
<1>3. Types'
  <2>1. viewer' \in [Viewers -> Panels(k)]
    <3>1. Panels(emitted) \subseteq Panels(k)
      BY <1>1, TypesGrow
    <3>2. viewer \in [Viewers -> Panels(emitted)]
      BY <1>1 DEF Types
    <3> QED BY <3>1, <3>2
  <2>2. IsStream(stream', frames') /\ Balanced(stream') /\ finalReadFailed' \in BOOLEAN
    BY <1>1, <1>2 DEF Types, IsStream, Balanced
  <2> QED BY <1>1, <2>1, <2>2 DEF Types
<1>4. Held'
  <2>1. Holders' = Holders /\ Waiting' = Waiting
    BY DEF Holders, Waiting
  <2> QED BY <1>1, <1>2, <2>1 DEF Held
<1>5. SnapshotFollowed(stream', frames', k)
  <2>1. SnapshotFollowed(stream, frames, emitted)
    BY <1>1 DEF Lags
  <2>2. \A n \in 1 .. k : n > emitted \/ n \in 1 .. emitted
    BY <1>1
  <2> QED BY <1>2, <2>1, <2>2 DEF SnapshotFollowed, HoldsMore
<1>6. RetainedFollowed(stream', frames', k)
  <2>1. CASE stream.phase = "open"
    <3>1. RetainedFollowed(stream, frames, emitted)
      BY <1>1 DEF Lags
    <3>2. \A n \in 1 .. k : n > emitted \/ n \in 1 .. emitted
      BY <1>1
    <3> QED BY <2>1, <3>1, <3>2 DEF RetainedFollowed, HoldsMore
  <2>2. CASE stream.phase # "open"
    <3>1. frames = EmptyBuffer(frames.generation)
      BY <1>1, <2>2 DEF Held
    <3>2. frames.entries = <<>>
      BY <3>1 DEF EmptyBuffer
    <3> QED BY <3>2 DEF RetainedFollowed, Retained
  <2> QED BY <2>1, <2>2
<1>7. \A v \in Viewers : PanelSound(viewer'[v], stream', frames', k)
  <2>1. SUFFICES ASSUME NEW v \in Viewers PROVE PanelSound(viewer[v], stream', frames, k)
    OBVIOUS
  <2>2. PanelSound(viewer[v], stream, frames, emitted)
    BY <1>1 DEF Lags
  <2>3. stream.phase # "open" => viewer[v].at # "open"
    BY <1>1 DEF Held, Holders
  <2> QED BY <1>1, <2>2, <2>3, PanelBeside
<1>8. EndFollowed'
  <2>1. Following' = Following
    BY DEF Following
  <2> QED BY <1>1, <1>2, <2>1 DEF Lags, EndFollowed
<1> QED BY <1>3, <1>4, <1>5, <1>6, <1>7, <1>8 DEF IInv, Lags

(* An event of the child.                                                    *)
LEMMA Delivered ==
  ASSUME IInv, emitted' \in 0 .. MaxEvents, emitted <= emitted', ended' \in BOOLEAN,
         finalReadFailed' = finalReadFailed, childFaults' = childFaults,
         turns' \subseteq 1 .. emitted', NEW e \in Happenings(emitted'),
         \A n \in emitted + 1 .. emitted' : n = e.n, e.n = 0 \/ e.n > emitted,
         ended' => ended \/ e.kind \in {"closed", "failed"},
         Deliver(e)
  PROVE  IInv'
<1> DEFINE k == emitted'
<1>1. /\ emitted \in Nat /\ k \in Nat /\ Types /\ Held /\ Lags
      /\ stream \in Streams(k) /\ finalReadFailed' \in BOOLEAN
      /\ childFaults' \in 0 .. MaxChildFaults
  BY ChannelOfState DEF IInv, Types
<1>2. CASE stream.phase = "open" /\ ~stream.buffering
  <2>1. PICK d : d = Handled(Channel, e)
    OBVIOUS
  <2>2. Sound(d, stream, frames, emitted, k, ended')
    BY <1>1, <1>2, <2>1, DeliveredSound
  <2>3. Publish(d, 0)
    BY <1>2, <2>1 DEF Deliver
  <2>4. d.stream.terminal /\ Following' # {} => d.stream.chain > 0 \/ finalReadFailed'
    <3>1. StreamKept(stream, d.stream)
      <4>1. Channel \in Channels(k) /\ Channel.stream = stream
        BY <1>1, ChannelOfState
      <4> QED BY <1>1, <2>1, <4>1, HandledChannel
    <3>2. ~(stream.chain > 0)
      BY <1>1, <1>2 DEF Types, Balanced
    <3>3. Following' \subseteq Following
      BY <2>3, PublishedTo
    <3> QED BY <1>1, <1>2, <3>1, <3>2, <3>3 DEF StreamKept, Lags, EndFollowed
  <2> HIDE DEF k
  <2>5. 0 \in {0, 1}
    OBVIOUS
  <2> QED BY <1>1, <1>2, <2>2, <2>3, <2>4, <2>5, Published DEF k
<1>3. CASE ~(stream.phase = "open" /\ ~stream.buffering) /\ (stream.phase = "subscribed" \/ stream.buffering)
  <2>1. stream' = [stream EXCEPT !.held = Append(@, e)] /\ frames' = frames /\ viewer' = viewer
    BY <1>3 DEF Deliver
  <2>2. PICK h : h = Append(stream.held, e)
    OBVIOUS
  <2>3. stream.held \in Seq(Happenings(k))
    BY <1>1, StreamFields
  <2>4. /\ h \in Seq(Happenings(k)) /\ h # <<>>
        /\ \A i \in DOMAIN stream.held : i \in DOMAIN h /\ h[i] = stream.held[i]
        /\ \E i \in DOMAIN h : h[i] = e
    <3>1. Len(h) = Len(stream.held) + 1 /\ h \in Seq(Happenings(k)) /\ DOMAIN h = 1 .. Len(h)
          /\ DOMAIN stream.held = 1 .. Len(stream.held) /\ Len(stream.held) \in Nat
      BY <2>2, <2>3
    <3>2. h[Len(h)] = e /\ Len(h) \in DOMAIN h
      BY <2>2, <2>3, <3>1
    <3>3. \A i \in DOMAIN stream.held : i \in DOMAIN h /\ h[i] = stream.held[i]
      BY <2>2, <2>3, <3>1
    <3> QED BY <3>1, <3>2, <3>3, SMTT(30)
  <2>5. /\ stream' \in Streams(k) /\ stream'.held = h /\ stream'.read = stream.read
        /\ Beside(stream, stream')
    BY <1>1, <2>1, <2>2, <2>4 DEF Streams, Beside
  <2>6. HoldsMore(stream, stream', emitted, k)
    <3>1. SUFFICES ASSUME NEW n \in 1 .. k, n > emitted \/ HeldBack(stream, n)
                   PROVE  HeldBack(stream', n)
      BY DEF HoldsMore
    <3>2. CASE HeldBack(stream, n)
      BY <2>4, <2>5, <3>2 DEF HeldBack
    <3>3. CASE n > emitted
      <4>1. n = e.n
        BY <1>1, <3>3
      <4> QED BY <2>4, <2>5, <4>1 DEF HeldBack
    <3> QED BY <3>1, <3>2, <3>3
  <2>7. stream.phase = "subscribed" \/ stream.chain > 0
    BY <1>1, <1>3 DEF Types, Balanced
  <2>8. Awaiting(stream', k, ended')
    <3>1. Awaiting(stream, emitted, ended)
      BY <1>1 DEF Lags
    <3>2. stream'.phase = stream.phase /\ stream'.chain = stream.chain /\ stream'.terminal = stream.terminal
      BY <2>5 DEF Beside
    <3>3. ASSUME stream'.read # NotRead, NEW n \in stream'.read + 1 .. k PROVE HeldBack(stream', n)
      <4>1. stream.read \in Nat
        BY <1>1, <2>5, <3>3, StreamFields
      <4>2. n \in 1 .. k /\ (n > emitted \/ n \in stream.read + 1 .. emitted)
        BY <1>1, <2>5, <3>3, <4>1
      <4>3. n > emitted \/ HeldBack(stream, n)
        BY <2>5, <3>1, <3>3, <4>2 DEF Awaiting
      <4> QED BY <2>6, <4>2, <4>3 DEF HoldsMore
    <3>4. EndHeld(stream) => EndHeld(stream')
      BY <2>4, <2>5 DEF EndHeld
    <3>5. e.kind \in {"closed", "failed"} => EndHeld(stream')
      BY <2>4, <2>5 DEF EndHeld
    <3>6. stream.phase \in {"subscribed", "open"}
      <4>1. stream.phase \in Phases
        BY <1>1, StreamFields
      <4>2. stream.phase # "open" => stream.chain = 0
        BY <1>1 DEF Held
      <4> QED BY <2>7, <4>1, <4>2 DEF Phases
    <3> QED BY <2>7, <3>1, <3>2, <3>3, <3>4, <3>5, <3>6 DEF Awaiting
  <2> QED BY <1>1, <2>1, <2>5, <2>6, <2>8, BesideStep
<1>4. CASE ~(stream.phase = "open" /\ ~stream.buffering) /\ ~(stream.phase = "subscribed" \/ stream.buffering)
  <2>1. stream' = stream /\ frames' = frames /\ viewer' = viewer
    BY <1>4 DEF Deliver
  <2>2. stream.phase # "open" /\ stream.phase # "subscribed"
    BY <1>4
  <2>3. Beside(stream, stream')
    BY <2>1 DEF Beside
  <2>4. Awaiting(stream', k, ended')
    <3>1. Awaiting(stream, emitted, ended) /\ stream.chain = 0
      BY <1>1, <2>2 DEF Held, Lags
    <3>2. stream.read = NotRead /\ stream.held = <<>>
      BY <2>2, <3>1 DEF Awaiting
    <3> QED BY <2>1, <2>2, <3>2 DEF Awaiting
  <2> QED BY <1>1, <2>1, <2>2, <2>3, <2>4, BesideStep
<1> QED BY <1>2, <1>3, <1>4

LEMMA EmitStep ==
  ASSUME IInv, NEW kind \in {"message", "turn_end", "reset"}, Emit(kind) PROVE IInv'
<1>1. /\ emitted \in Nat /\ MaxEvents \in Nat /\ emitted < MaxEvents /\ emitted' = emitted + 1
      /\ ended' = ended /\ ended \in BOOLEAN /\ finalReadFailed' = finalReadFailed
      /\ childFaults' = childFaults /\ Deliver(Happening(emitted', kind))
      /\ turns \subseteq 1 .. emitted /\ turns' \subseteq turns \union {emitted'}
  BY DEF Emit, IInv, Types
<1>2. PICK e : e = Happening(emitted', kind)
  OBVIOUS
<1>3. e \in Happenings(emitted') /\ e.n = emitted'
  BY <1>1, <1>2 DEF Happening, Happenings
<1>4. \A n \in emitted + 1 .. emitted' : n = e.n
  BY <1>1, <1>3
<1>5. turns' \subseteq 1 .. emitted'
  BY <1>1
<1> QED BY <1>1, <1>2, <1>3, <1>4, <1>5, Delivered

LEMMA EndStep == ASSUME IInv, NEW kind \in {"closed", "failed"}, End(kind) PROVE IInv'
<1>1. /\ emitted \in 0 .. MaxEvents /\ emitted' = emitted
      /\ ended' = TRUE /\ finalReadFailed' = finalReadFailed
      /\ childFaults' = childFaults /\ Deliver(Happening(0, kind))
      /\ turns' \subseteq 1 .. emitted'
  BY DEF End, IInv, Types
<1>2. PICK e : e = Happening(0, kind)
  OBVIOUS
<1>3. e \in Happenings(emitted') /\ e.n = 0 /\ e.kind = kind
  BY <1>2 DEF Happening, Happenings
<1>4. \A n \in emitted + 1 .. emitted' : n = e.n
  BY <1>1
<1> QED BY <1>1, <1>2, <1>3, <1>4, Delivered

LEMMA ServeReadStep == ASSUME IInv, ServeRead PROVE IInv'
<1>1. /\ stream.phase = "subscribed" \/ stream.chain > 0
      /\ stream' = [stream EXCEPT !.read = emitted]
      /\ UNCHANGED <<emitted, turns, ended, frames, viewer, finalReadFailed, childFaults>>
  BY DEF ServeRead
<1>2. /\ emitted \in 0 .. MaxEvents /\ emitted \in Nat /\ ended \in BOOLEAN
      /\ stream \in Streams(emitted) /\ childFaults \in 0 .. MaxChildFaults
      /\ turns \subseteq 1 .. emitted
  BY DEF IInv, Types
<1>3. stream' \in Streams(emitted) /\ Beside(stream, stream') /\ stream'.read = emitted
      /\ stream'.held = stream.held
  BY <1>1, <1>2, SMTT(30) DEF Streams, Beside
<1>4. \A n : HeldBack(stream, n) <=> HeldBack(stream', n)
  BY <1>3 DEF HeldBack
<1>5. HoldsMore(stream, stream', emitted, emitted)
  BY <1>2, <1>4 DEF HoldsMore
<1>6. Awaiting(stream', emitted, ended)
  <2>1. Awaiting(stream, emitted, ended)
    BY DEF IInv, Lags
  <2>2. EndHeld(stream) <=> EndHeld(stream')
    BY <1>3 DEF EndHeld
  <2>3. emitted + 1 .. emitted = {}
    BY <1>2
  <2> QED BY <1>1, <1>3, <2>1, <2>2, <2>3 DEF Awaiting, Beside
<1> QED BY <1>1, <1>2, <1>3, <1>5, <1>6, BesideStep

LEMMA RefreshStep == ASSUME IInv, Refresh PROVE IInv'
<1>1. /\ stream.phase = "open" /\ stream.chain > 0 /\ stream.read # NotRead
      /\ Publish(Refreshed(Snapshotted(Channel)), 1)
      /\ UNCHANGED <<emitted, turns, ended, finalReadFailed, childFaults>>
  BY DEF Refresh
<1>2. /\ emitted \in 0 .. MaxEvents /\ emitted \in Nat /\ ended \in BOOLEAN
      /\ turns \subseteq 1 .. emitted
      /\ finalReadFailed \in BOOLEAN /\ childFaults \in 0 .. MaxChildFaults
      /\ IsBuffer(frames, Generations, Framed(emitted))
  BY DEF IInv, Types
<1>3. PICK c : c = Snapshotted(Channel)
  OBVIOUS
<1>4. /\ Pending(c, stream, frames, emitted, ended)
      /\ c.stream.terminal = stream.terminal /\ c.stream.chain = stream.chain
      /\ Len(c.out) = 1 /\ c.out[1].frame = ChildSnapshot(stream.read, stream.terminal)
  BY <1>1, <1>3, SnapshottedPending
<1>5. PICK d : d = Refreshed(c)
  OBVIOUS
<1>6. Sound(d, stream, frames, emitted, emitted, ended) /\ DrainsOn(c, d)
  BY <1>2, <1>4, <1>5, RefreshedSound
<1>7. Publish(d, 1)
  BY <1>1, <1>3, <1>5
<1>8. d.stream.terminal /\ Following' # {} => d.stream.chain > 0 \/ finalReadFailed'
  <2>1. CASE stream.terminal
    <3>1. 1 \in 1 .. Len(d.out) /\ d.out[1] = c.out[1]
      <4>1. d.out \in Seq(NumberedOf(emitted))
        BY <1>2, <1>6, ChannelFields DEF Sound
      <4>2. Len(d.out) \in Nat
        BY <4>1
      <4> QED BY <1>4, <1>6, <4>2 DEF DrainsOn
    <3>2. Ends(d.out[1])
      BY <1>4, <2>1, <3>1 DEF Ends, ChildSnapshot
    <3>3. 1 \in DOMAIN d.out
      <4>1. d.out \in Seq(NumberedOf(emitted))
        BY <1>2, <1>6, ChannelFields DEF Sound
      <4> QED BY <3>1, <4>1
    <3>4. Following' = {}
      BY <1>7, <3>2, <3>3, PublishedTo
    <3> QED BY <3>4
  <2>2. CASE ~stream.terminal
    BY <1>4, <1>6, <2>2 DEF DrainsOn
  <2> QED BY <2>1, <2>2
<1>9. Sound(d, stream, frames, emitted, emitted', ended')
  BY <1>1, <1>6
<1>10. emitted <= emitted' /\ emitted' \in Nat
  BY <1>1, <1>2
<1> QED BY <1>1, <1>2, <1>7, <1>8, <1>9, <1>10, Published

LEMMA RefreshFailsStep == ASSUME IInv, RefreshFails PROVE IInv'
<1>1. /\ stream.phase = "open" /\ stream.chain > 0 /\ childFaults < MaxChildFaults
      /\ childFaults' = childFaults + 1
      /\ Publish(Refreshed([Channel EXCEPT !.stream.failed = TRUE]), 1)
      /\ finalReadFailed' = (finalReadFailed \/ stream.terminal)
      /\ UNCHANGED <<emitted, turns, ended>>
  BY DEF RefreshFails
<1>2. /\ emitted \in 0 .. MaxEvents /\ emitted \in Nat /\ ended \in BOOLEAN
      /\ turns \subseteq 1 .. emitted
      /\ finalReadFailed' \in BOOLEAN /\ childFaults' \in 0 .. MaxChildFaults
      /\ IsBuffer(frames, Generations, Framed(emitted))
  BY <1>1 DEF IInv, Types
<1>7. PICK c : c = [Channel EXCEPT !.stream.failed = TRUE]
  OBVIOUS
<1>3. Pending(c, stream, frames, emitted, ended) /\ c.stream.terminal = stream.terminal
  BY <1>1, <1>7, FailedPending
<1>4. PICK d : d = Refreshed(c)
  OBVIOUS
<1>5. Sound(d, stream, frames, emitted, emitted, ended) /\ DrainsOn(c, d)
  BY <1>2, <1>3, <1>4, RefreshedSound
<1>6. Publish(d, 1)
  BY <1>1, <1>4, <1>7
<1>8. d.stream.terminal /\ Following' # {} => d.stream.chain > 0 \/ finalReadFailed'
  BY <1>1, <1>3, <1>5 DEF DrainsOn
<1>9. Sound(d, stream, frames, emitted, emitted', ended')
  BY <1>1, <1>5
<1>10. emitted <= emitted' /\ emitted' \in Nat
  BY <1>1, <1>2
<1> QED BY <1>1, <1>2, <1>6, <1>8, <1>9, <1>10, Published

------------------------------------------------------------------------------
(* Steps of the panels                                                       *)

(* A step of panels that leaves the stream alone.                            *)
LEMMA PanelsStep ==
  ASSUME IInv, UNCHANGED <<emitted, turns, ended, stream, frames, finalReadFailed>>,
         childFaults' \in 0 .. MaxChildFaults, viewer' \in [Viewers -> Panels(emitted)],
         Holders' = Holders, Waiting' = Waiting, Following' \subseteq Following,
         \A v \in Viewers : PanelSound(viewer'[v], stream, frames, emitted)
  PROVE  IInv'
<1>1. Types'
  BY DEF IInv, Types
<1>2. Held'
  BY DEF IInv, Held
<1>3. Lags'
  BY DEF IInv, Lags, EndFollowed
<1> QED BY <1>1, <1>2, <1>3 DEF IInv

(* The buffer, the stream and the panels of a state.                         *)
LEMMA StateFacts ==
  ASSUME IInv
  PROVE  /\ emitted \in Nat /\ emitted \in 0 .. MaxEvents /\ ended \in BOOLEAN
         /\ turns \subseteq 1 .. emitted
         /\ stream \in Streams(emitted)
         /\ IsBuffer(frames, Generations, Framed(emitted)) /\ IsStream(stream, frames)
         /\ frames.generation \in Generations /\ frames.nextSeq \in Nat \ {0}
         /\ viewer \in [Viewers -> Panels(emitted)]
         /\ finalReadFailed \in BOOLEAN /\ childFaults \in 0 .. MaxChildFaults
         /\ \A v \in Viewers : /\ viewer[v] \in Panels(emitted)
                               /\ PanelSound(viewer[v], stream, frames, emitted)
<1>1. Types /\ Lags
  BY DEF IInv
<1>2. /\ emitted \in Nat /\ emitted \in 0 .. MaxEvents /\ ended \in BOOLEAN
      /\ turns \subseteq 1 .. emitted
      /\ IsBuffer(frames, Generations, Framed(emitted)) /\ IsStream(stream, frames)
      /\ stream \in Streams(emitted)
      /\ finalReadFailed \in BOOLEAN /\ childFaults \in 0 .. MaxChildFaults
  BY <1>1 DEF Types
<1>3. viewer \in [Viewers -> Panels(emitted)]
  BY <1>1 DEF Types
<1>4. frames.generation \in Generations /\ frames.nextSeq \in Nat \ {0}
  BY <1>2 DEF IsBuffer
<1>5. \A v \in Viewers : PanelSound(viewer[v], stream, frames, emitted)
  BY <1>1 DEF Lags
<1> QED BY <1>2, <1>3, <1>4, <1>5

(* One panel changes.                                                        *)
LEMMA OnePanel ==
  ASSUME IInv, NEW v \in Viewers, NEW q \in Panels(emitted),
         viewer' = [viewer EXCEPT ![v] = q]
  PROVE  /\ viewer' \in [Viewers -> Panels(emitted)] /\ viewer'[v] = q
         /\ \A w \in Viewers : w # v => viewer'[w] = viewer[w]
         /\ PanelSound(q, stream, frames, emitted) =>
              \A w \in Viewers : PanelSound(viewer'[w], stream, frames, emitted)
         /\ Holders' = IF q.at \in {"joined", "refreshing", "ready", "open"}
                       THEN Holders \union {v} ELSE Holders \ {v}
         /\ Waiting' = IF q.at = "waiting" THEN Waiting \union {v} ELSE Waiting \ {v}
         /\ Following' = IF q.at = "open" THEN Following \union {v} ELSE Following \ {v}
<1>1. viewer \in [Viewers -> Panels(emitted)]
      /\ \A w \in Viewers : PanelSound(viewer[w], stream, frames, emitted)
  BY StateFacts
<1>2. viewer' \in [Viewers -> Panels(emitted)] /\ viewer'[v] = q
      /\ \A w \in Viewers : w # v => viewer'[w] = viewer[w]
  BY <1>1
<1>3. Holders' = IF q.at \in {"joined", "refreshing", "ready", "open"}
                 THEN Holders \union {v} ELSE Holders \ {v}
  BY <1>2 DEF Holders
<1>4. Waiting' = IF q.at = "waiting" THEN Waiting \union {v} ELSE Waiting \ {v}
  BY <1>2 DEF Waiting
<1>5. Following' = IF q.at = "open" THEN Following \union {v} ELSE Following \ {v}
  BY <1>2 DEF Following
<1>6. PanelSound(q, stream, frames, emitted) =>
        \A w \in Viewers : PanelSound(viewer'[w], stream, frames, emitted)
  BY <1>1, <1>2
<1> QED BY <1>2, <1>3, <1>4, <1>5, <1>6

(* A panel whose connection is gone has nothing more to read.                *)
LEMMA Emptied ==
  ASSUME NEW k, NEW p \in Panels(k), NEW q, q = [p EXCEPT !.inbox = <<>>]
  PROVE  /\ q \in Panels(k) /\ q.at = p.at /\ q.inbox = <<>>
         /\ q.generation = p.generation /\ q.lastEventId = p.lastEventId /\ q.have = p.have /\ q.base = p.base
<1>1. <<>> \in Seq(Letters(k))
  OBVIOUS
<1> QED BY <1>1 DEF Panels

(* A panel without a connection.                                             *)
LEMMA QuietPanel ==
  ASSUME NEW q, NEW s, NEW b, NEW k, q.at \notin {"open", "closing"},
         \A i \in DOMAIN q.inbox : ~IsHello(q.inbox[i]),
         Opened(q.generation, s, b), CursorSound(q, s, b, k)
  PROVE  PanelSound(q, s, b, k)
BY DEF PanelSound, KnowsOpened, ClosingIsLast

(* The channel of a state that no event has reached is whole.                *)
LEMMA StateWhole ==
  ASSUME IInv, stream.phase = "open"
  PROVE  /\ Whole(Channel, emitted, ended) /\ Channel.stream = stream
         /\ Channel.frames = frames /\ Channel.out = <<>>
         /\ IsFiniteSet(Holders) /\ Holders # {} /\ stream.refs = Cardinality(Holders)
         /\ Waiting = {}
         /\ stream.terminal /\ Following # {} => stream.chain > 0 \/ finalReadFailed
<1>1. /\ Channel \in Channels(emitted) /\ Channel.stream = stream /\ Channel.frames = frames
      /\ Channel.out = <<>>
  BY StateFacts, ChannelOfState
<1>2. Whole(Channel, emitted, ended)
  BY <1>1 DEF Whole, IInv, Types, Lags
<1> QED BY <1>1, <1>2 DEF IInv, Held, Lags, EndFollowed

(* A screen that is replaced by messages that were read.                     *)
LEMMA CommittedIn ==
  ASSUME NEW u
  PROVE  Committed(u) \subseteq 1 .. u
BY DEF Committed

LEMMA ReadingScreen ==
  ASSUME NEW k \in Nat, NEW p \in Panels(k), NEW u \in 0 .. k,
         NEW q, q = Reading(p, u)
  PROVE  /\ q \in Panels(k) /\ q.have = Committed(u) /\ q.base = u
         /\ Screen(q) = 1 .. u
         /\ q.generation = p.generation /\ q.lastEventId = p.lastEventId
         /\ q.inbox = p.inbox /\ q.at = p.at
<1>1. PICK h : h = Committed(u)
  OBVIOUS
<1>2. h \subseteq 1 .. u
  BY <1>1, CommittedIn
<1>3. h \in SUBSET (1 .. k)
  BY <1>2
<1>4. q = [p EXCEPT !.have = h, !.base = u]
  BY <1>1 DEF Reading
<1>5. /\ q \in Panels(k) /\ q.have = h /\ q.base = u
      /\ q.generation = p.generation /\ q.lastEventId = p.lastEventId
      /\ q.inbox = p.inbox /\ q.at = p.at
  BY <1>3, <1>4 DEF Panels
<1>6. Screen(q) = 1 .. u
  BY <1>2, <1>5 DEF Screen
<1> QED BY <1>1, <1>5, <1>6

LEMMA DisconnectedStep ==
  ASSUME IInv, NEW v \in Viewers, viewer[v].at \in {"open", "closing"},
         NEW panel \in Panels(emitted), panel.at \in {"over", "broken", "away"},
         Opened(panel.generation, stream, frames), CursorSound(panel, stream, frames, emitted),
         UNCHANGED <<emitted, turns, ended, finalReadFailed>>, childFaults' \in 0 .. MaxChildFaults,
         Disconnected(v, panel)
  PROVE  IInv'
<1>1. PICK q : q = [panel EXCEPT !.inbox = <<>>]
  OBVIOUS
<1>2. /\ q \in Panels(emitted) /\ q.at = panel.at /\ q.inbox = <<>>
      /\ q.generation = panel.generation /\ q.lastEventId = panel.lastEventId
      /\ q.have = panel.have /\ q.base = panel.base
  BY <1>1, Emptied
<1>3. viewer' = [viewer EXCEPT ![v] = q]
  BY <1>1 DEF Disconnected
<1>4. PanelSound(q, stream, frames, emitted)
  <2>1. CursorSound(q, stream, frames, emitted)
    BY <1>2 DEF CursorSound, Resumes, Knows, Screen
  <2>2. \A i \in DOMAIN q.inbox : ~IsHello(q.inbox[i])
    BY <1>2
  <2>3. q.at \notin {"open", "closing"} /\ Opened(q.generation, stream, frames)
    BY <1>2
  <2> QED BY <2>1, <2>2, <2>3, QuietPanel
<1>5. /\ viewer' \in [Viewers -> Panels(emitted)]
      /\ \A w \in Viewers : PanelSound(viewer'[w], stream, frames, emitted)
      /\ Holders' = Holders \ {v} /\ Waiting' = Waiting \ {v} /\ Following' = Following \ {v}
  BY <1>2, <1>3, <1>4, OnePanel
<1>6. v \notin Waiting
  BY DEF Waiting
<1>7. CASE viewer[v].at = "open"
  <2>1. v \in Holders
    BY <1>7 DEF Holders
  <2>2. stream.phase = "open"
    BY <2>1 DEF IInv, Held
  <2>3. /\ Whole(Channel, emitted, ended) /\ Channel.stream = stream /\ Channel.frames = frames
        /\ IsFiniteSet(Holders) /\ Holders # {} /\ stream.refs = Cardinality(Holders)
        /\ Waiting = {}
        /\ stream.terminal /\ Following # {} => stream.chain > 0 \/ finalReadFailed
    BY <2>2, StateWhole
  <2>4. Becomes(Channel, {v})
    BY <1>7 DEF Disconnected
  <2>5. Leaves(Channel, Holders, {v})
    BY <1>5, <1>6, <2>1, <2>3, <2>4 DEF Leaves
  <2>6. StepTyped
    BY <1>5, StateFacts DEF StepTyped
  <2> QED BY <1>5, <2>2, <2>3, <2>5, <2>6, OpenStep
<1>8. CASE viewer[v].at # "open"
  <2>1. v \notin Holders /\ v \notin Following
    BY <1>8 DEF Holders, Following
  <2>2. UNCHANGED <<stream, frames>>
    BY <1>8 DEF Disconnected
  <2> QED BY <1>5, <1>6, <2>1, <2>2, PanelsStep
<1> QED BY <1>7, <1>8

LEMMA AskStep == ASSUME IInv, NEW v \in Viewers, Ask(v) PROVE IInv'
<1>1. viewer[v].at \in {"away", "broken"}
      /\ UNCHANGED <<emitted, turns, ended, stream, frames, finalReadFailed, childFaults>>
  BY DEF Ask
<1> DEFINE p == viewer[v]
<1>2. /\ p \in Panels(emitted) /\ PanelSound(p, stream, frames, emitted) /\ emitted \in Nat
      /\ ended \in BOOLEAN /\ viewer \in [Viewers -> Panels(emitted)]
      /\ childFaults \in 0 .. MaxChildFaults
  BY StateFacts
<1>3. PICK x : x = IF p.at = "away" THEN Reading(p, emitted) ELSE p
  OBVIOUS
<1>30. /\ x \in Panels(emitted) /\ x.generation = p.generation
       /\ x.lastEventId = p.lastEventId /\ x.inbox = p.inbox
       /\ p.at = "away" => x.have = Committed(emitted) /\ x.base = emitted
       /\ p.at # "away" => x.have = p.have /\ x.base = p.base
  <2>1. emitted \in 0 .. emitted
    BY <1>2
  <2> HIDE DEF p
  <2> QED BY <1>2, <1>3, <2>1, ReadingScreen
<1>4. PICK q : q = [[x EXCEPT !.running = ~ended] EXCEPT !.at = "listed"]
  OBVIOUS
<1>5. viewer' = [viewer EXCEPT ![v] = q]
  BY <1>2, <1>3, <1>4 DEF Ask
<1>6. /\ q \in Panels(emitted) /\ q.at = "listed" /\ q.generation = p.generation
      /\ q.lastEventId = p.lastEventId /\ q.inbox = p.inbox
      /\ q.have = x.have /\ q.base = x.base
  <2>2. PICK y : y = [x EXCEPT !.running = ~ended]
    OBVIOUS
  <2> HIDE DEF p
  <2>3. /\ x \in Panels(emitted) /\ x.generation = p.generation
        /\ x.lastEventId = p.lastEventId /\ x.inbox = p.inbox
    BY <1>30
  <2>4. /\ y \in Panels(emitted) /\ y.generation = x.generation
        /\ y.lastEventId = x.lastEventId /\ y.have = x.have /\ y.inbox = x.inbox
        /\ y.base = x.base
    BY <1>2, <2>2, <2>3 DEF Panels
  <2>5. q = [y EXCEPT !.at = "listed"]
    BY <1>4, <2>2
  <2>6. /\ q \in Panels(emitted) /\ q.at = "listed" /\ q.generation = y.generation
        /\ q.lastEventId = y.lastEventId /\ q.have = y.have /\ q.inbox = y.inbox
        /\ q.base = y.base
    BY <2>4, <2>5 DEF Panels, Places
  <2> QED BY <2>3, <2>4, <2>6
<1> HIDE DEF p
<1>7. PanelSound(q, stream, frames, emitted)
  <2>1. KnowsOpened(p, stream, frames) /\ CursorSound(p, stream, frames, emitted)
    BY <1>2 DEF PanelSound
  <2>2. KnowsOpened(q, stream, frames)
    BY <1>6, <2>1 DEF KnowsOpened
  <2>3. ClosingIsLast(q, stream, frames)
    BY <1>6 DEF ClosingIsLast
  <2>4. CursorSound(q, stream, frames, emitted)
    <3>1. CASE p.at = "away"
      <4>1. Screen(q) = 1 .. emitted
        BY <1>2, <1>30, <1>6, <3>1, CommittedIn DEF Screen
      <4> QED BY <1>6, <2>1, <4>1 DEF CursorSound, Knows
    <3>2. CASE p.at = "broken"
      <4>1. Screen(q) = Screen(p)
        BY <1>30, <1>6, <3>2 DEF Screen
      <4> QED BY <1>6, <2>1, <3>2, <4>1 DEF CursorSound, Resumes, Knows
    <3> QED BY <1>1, <3>1, <3>2 DEF p
  <2> QED BY <1>6, <2>2, <2>3, <2>4 DEF PanelSound
<1>8. v \notin Holders /\ v \notin Waiting /\ v \notin Following
  BY <1>1 DEF Holders, Waiting, Following
<1>9. /\ viewer' \in [Viewers -> Panels(emitted)]
      /\ \A w \in Viewers : PanelSound(viewer'[w], stream, frames, emitted)
      /\ Holders' = Holders \ {v} /\ Waiting' = Waiting \ {v} /\ Following' = Following \ {v}
  BY <1>5, <1>6, <1>7, OnePanel
<1> QED BY <1>1, <1>2, <1>8, <1>9, PanelsStep

LEMMA ConnectionBreaksStep == ASSUME IInv, NEW v \in Viewers, ConnectionBreaks(v) PROVE IInv'
<1>1. /\ viewer[v].at \in {"open", "closing"} /\ childFaults < MaxChildFaults
      /\ childFaults' = childFaults + 1
      /\ Disconnected(v, [viewer[v] EXCEPT !.at = "broken"])
      /\ UNCHANGED <<emitted, turns, ended, finalReadFailed>>
  BY DEF ConnectionBreaks
<1>2. PICK p : p = viewer[v]
  OBVIOUS
<1>3. p \in Panels(emitted) /\ PanelSound(p, stream, frames, emitted)
      /\ childFaults \in 0 .. MaxChildFaults
  BY <1>2, StateFacts
<1>4. PICK q : q = [p EXCEPT !.at = "broken"]
  OBVIOUS
<1>5. /\ q \in Panels(emitted) /\ q.at = "broken" /\ q.generation = p.generation
      /\ q.lastEventId = p.lastEventId /\ q.have = p.have /\ q.base = p.base
  BY <1>3, <1>4 DEF Panels, Places
<1>6. Opened(q.generation, stream, frames)
  BY <1>3, <1>5 DEF PanelSound, KnowsOpened
<1>7. CursorSound(q, stream, frames, emitted)
  BY <1>1, <1>2, <1>3, <1>5 DEF PanelSound, CursorSound, Resumes, Knows, Screen
<1>8. childFaults' \in 0 .. MaxChildFaults
  BY <1>1, <1>3
<1> QED BY <1>1, <1>2, <1>4, <1>5, <1>6, <1>7, <1>8, DisconnectedStep

LEMMA LeaveStep == ASSUME IInv, NEW v \in Viewers, Leave(v) PROVE IInv'
<1>1. /\ viewer[v].at \in {"open", "closing", "over"} /\ childFaults < MaxChildFaults
      /\ childFaults' = childFaults + 1
      /\ Disconnected(v, [viewer[v] EXCEPT !.at = "away", !.have = {}, !.base = 0])
      /\ UNCHANGED <<emitted, turns, ended, finalReadFailed>>
  BY DEF Leave
<1>2. PICK p : p = viewer[v]
  OBVIOUS
<1>3. p \in Panels(emitted) /\ PanelSound(p, stream, frames, emitted)
      /\ childFaults \in 0 .. MaxChildFaults
  BY <1>2, StateFacts
<1>4. PICK q : q = [[[p EXCEPT !.at = "away"] EXCEPT !.have = {}] EXCEPT !.base = 0]
  OBVIOUS
<1>5. /\ q \in Panels(emitted) /\ q.at = "away" /\ q.generation = p.generation
      /\ q.lastEventId = p.lastEventId
  <2>1. PICK x : x = [[p EXCEPT !.at = "away"] EXCEPT !.have = {}]
    OBVIOUS
  <2>2. x \in Panels(emitted) /\ x.at = "away" /\ x.generation = p.generation
        /\ x.lastEventId = p.lastEventId
    BY <1>3, <2>1 DEF Panels, Places
  <2>3. emitted \in Nat
    BY StateFacts
  <2>4. PICK z \in 0 .. emitted : z = 0
    BY <2>3
  <2>5. q = [x EXCEPT !.base = z]
    BY <1>4, <2>1, <2>4
  <2> QED BY <2>2, <2>5 DEF Panels
<1>6. Opened(q.generation, stream, frames)
  BY <1>3, <1>5 DEF PanelSound, KnowsOpened
<1>7. CursorSound(q, stream, frames, emitted)
  BY <1>3, <1>5 DEF PanelSound, CursorSound, Resumes, Knows
<1>8. childFaults' \in 0 .. MaxChildFaults
  BY <1>1, <1>3
<1>9. Disconnected(v, q)
  BY <1>1, <1>2, <1>4
<1>10. CASE p.at \in {"open", "closing"}
  BY <1>1, <1>2, <1>5, <1>6, <1>7, <1>8, <1>9, <1>10, DisconnectedStep
<1>11. CASE p.at = "over"
  <2>1. PICK r : r = [q EXCEPT !.inbox = <<>>]
    OBVIOUS
  <2>2. /\ r \in Panels(emitted) /\ r.at = "away" /\ r.inbox = <<>>
        /\ r.generation = q.generation /\ r.lastEventId = q.lastEventId
    BY <1>5, <2>1, Emptied
  <2>3. viewer' = [viewer EXCEPT ![v] = r] /\ UNCHANGED <<stream, frames>>
    BY <1>2, <1>9, <1>11, <2>1 DEF Disconnected
  <2>4. PanelSound(r, stream, frames, emitted)
    <3>1. CursorSound(r, stream, frames, emitted)
      BY <1>7, <2>2 DEF CursorSound, Resumes, Knows
    <3> QED BY <1>6, <2>2, <3>1, QuietPanel
  <2>5. v \notin Holders /\ v \notin Waiting /\ v \notin Following
    BY <1>2, <1>11 DEF Holders, Waiting, Following
  <2>6. /\ viewer' \in [Viewers -> Panels(emitted)]
        /\ \A w \in Viewers : PanelSound(viewer'[w], stream, frames, emitted)
        /\ Holders' = Holders \ {v} /\ Waiting' = Waiting \ {v} /\ Following' = Following \ {v}
    BY <2>2, <2>3, <2>4, OnePanel
  <2> QED BY <1>1, <1>8, <2>3, <2>5, <2>6, PanelsStep
<1> QED BY <1>1, <1>2, <1>10, <1>11

(* A panel reads the first message of its inbox.                             *)
Rest(x, t) ==
  /\ DOMAIN t = 1 .. Len(t) /\ Len(t) \in Nat /\ 1 \in DOMAIN x
  /\ \A i \in DOMAIN t : i + 1 \in DOMAIN x /\ t[i] = x[i + 1] /\ i + 1 # 1
  /\ \A i \in DOMAIN t : \A j \in i + 1 .. Len(t) : j \in DOMAIN t /\ j + 1 \in (i + 1) + 1 .. Len(x)
  /\ \A i \in DOMAIN x : \A j \in i + 1 .. Len(x) : j - 1 \in DOMAIN t /\ t[j - 1] = x[j]
                                                    /\ j - 1 \in (i - 1) + 1 .. Len(t)
  /\ \A i \in DOMAIN x : i = 1 \/ (i - 1 \in DOMAIN t /\ t[i - 1] = x[i])

LEMMA TailRests ==
  ASSUME NEW k, NEW x \in Seq(Letters(k)), x # <<>>, NEW t, t = Tail(x)
  PROVE  t \in Seq(Letters(k)) /\ Rest(x, t) /\ Head(x) = x[1] /\ x[1] \in Letters(k)
<1>1. /\ t \in Seq(Letters(k)) /\ Len(t) = Len(x) - 1 /\ Len(x) \in Nat /\ Len(x) >= 1
      /\ DOMAIN t = 1 .. Len(t) /\ DOMAIN x = 1 .. Len(x) /\ Len(t) \in Nat
  OBVIOUS
<1>2. \A i \in 1 .. Len(t) : t[i] = x[i + 1]
  BY <1>1
<1>3. 1 \in DOMAIN x
  BY <1>1
<1>4. \A i \in DOMAIN t : i + 1 \in DOMAIN x /\ t[i] = x[i + 1] /\ i + 1 # 1
  BY <1>1, <1>2
<1>5. \A i \in DOMAIN t : \A j \in i + 1 .. Len(t) :
         j \in DOMAIN t /\ j + 1 \in (i + 1) + 1 .. Len(x)
  BY <1>1
<1>6. \A j \in 2 .. Len(x) : j - 1 \in DOMAIN t /\ t[j - 1] = x[j]
  <2> TAKE j \in 2 .. Len(x)
  <2>1. j - 1 \in 1 .. Len(t) /\ (j - 1) + 1 = j
    BY <1>1
  <2> QED BY <1>1, <1>2, <2>1
<1>7. \A i \in DOMAIN x : \A j \in i + 1 .. Len(x) :
         j \in 2 .. Len(x) /\ j - 1 \in (i - 1) + 1 .. Len(t)
  BY <1>1
<1>8. \A i \in DOMAIN x : i = 1 \/ i \in 2 .. Len(x)
  BY <1>1
<1>9. Rest(x, t)
  BY <1>1, <1>3, <1>4, <1>5, <1>6, <1>7, <1>8 DEF Rest
<1> QED BY <1>1, <1>3, <1>9

ShownScreen(f, screen) ==
  IF f.type = "session_snapshot" THEN 1 .. f.upto
  ELSE IF f.type = "event" THEN screen \union {f.n} ELSE screen

LEMMA ReadOn ==
  ASSUME NEW k \in Nat, NEW p \in Panels(k), NEW s, NEW b, InboxInOrder(p, b),
         Resyncs(p) \/ Complete(p, s, k),
         NEW q, Rest(p.inbox, q.inbox), Screen(q) = ShownScreen(Body(p.inbox[1]), Screen(p)),
         Body(p.inbox[1]).type # "reset",
         IsNumbered(p.inbox[1]) \/ p.inbox[1].type # "resync",
         IsNumbered(p.inbox[1]) \/ (ForgetsCursor(p) => q.lastEventId = 0)
  PROVE  /\ InboxInOrder(q, b) /\ (Resyncs(q) \/ Complete(q, s, k))
         /\ IsNumbered(p.inbox[1]) =>
              /\ p.inbox[1].id < b.nextSeq
              /\ Complete(q, s, k)
              /\ \A i \in DOMAIN q.inbox :
                   /\ IsNumbered(q.inbox[i]) /\ q.inbox[i].id > p.inbox[1].id
                   /\ q.inbox[i].id >= Lowest(b) => Entry(q.inbox[i]) \in Retained(b)
<1> DEFINE x == p.inbox
           t == q.inbox
           m == x[1]
<1>1. /\ DOMAIN t = 1 .. Len(t) /\ Len(t) \in Nat /\ 1 \in DOMAIN x
      /\ \A i \in DOMAIN t : i + 1 \in DOMAIN x /\ t[i] = x[i + 1] /\ i + 1 # 1
      /\ \A i \in DOMAIN t : \A j \in i + 1 .. Len(t) :
           j \in DOMAIN t /\ j + 1 \in (i + 1) + 1 .. Len(x)
      /\ \A i \in DOMAIN x : \A j \in i + 1 .. Len(x) :
           j - 1 \in DOMAIN t /\ t[j - 1] = x[j] /\ j - 1 \in (i - 1) + 1 .. Len(t)
      /\ \A i \in DOMAIN x : i = 1 \/ (i - 1 \in DOMAIN t /\ t[i - 1] = x[i])
  BY DEF Rest
<1>2. \A i \in DOMAIN x :
        /\ IsNumbered(x[i]) => NumberedInOrder(x, i, b)
        /\ IsHello(x[i]) => i = 1
        /\ ~IsNumbered(x[i]) /\ x[i].type = "session_snapshot" => ForgetsCursor(p)
  BY DEF InboxInOrder
<1>3. ASSUME IsNumbered(m)
      PROVE  /\ m.id < b.nextSeq
             /\ \A i \in DOMAIN t : IsNumbered(t[i]) /\ t[i].id > m.id
  <2>1. /\ m.id < b.nextSeq /\ \A j \in 1 + 1 .. Len(x) : IsNumbered(x[j]) /\ x[j].id > m.id
    BY <1>1, <1>2, <1>3 DEF NumberedInOrder
  <2>2. \A i \in DOMAIN t : i + 1 \in 1 + 1 .. Len(x)
    <3>1. DOMAIN x = 1 .. Len(x) /\ Len(x) \in Nat
      <4>1. p.inbox \in Seq(Letters(k))
        BY DEF Panels
      <4> QED BY <4>1
    <3> HIDE DEF x, t
    <3> QED BY <1>1, <3>1
  <2> QED BY <1>1, <2>1, <2>2
<1> HIDE DEF x, t
<1>4. ASSUME NEW i \in DOMAIN t, IsNumbered(t[i]) PROVE NumberedInOrder(t, i, b)
  <2>1. NumberedInOrder(x, i + 1, b)
    BY <1>1, <1>2, <1>4
  <2>2. \A j \in i + 1 .. Len(t) : j + 1 \in (i + 1) + 1 .. Len(x) /\ t[j] = x[j + 1]
    BY <1>1
  <2>3. t[i] = x[i + 1]
    BY <1>1
  <2> QED BY <2>1, <2>2, <2>3 DEF NumberedInOrder
<1>5. ASSUME NEW i \in DOMAIN t, ~IsNumbered(t[i]), t[i].type = "session_snapshot"
      PROVE  ForgetsCursor(q)
  <2>1. ~IsNumbered(m)
    BY <1>3, <1>5
  <2>2. ForgetsCursor(p)
    BY <1>1, <1>2, <1>5
  <2> QED BY <2>1, <2>2 DEF ForgetsCursor, m, x
<1>6. InboxInOrder(q, b)
  <2>1. \A i \in DOMAIN t : ~IsHello(t[i])
    BY <1>1, <1>2
  <2> QED BY <1>4, <1>5, <2>1 DEF InboxInOrder, t
<1>7. ASSUME Resyncs(p) PROVE Resyncs(q) /\ ~IsNumbered(m)
  <2>1. PICK i \in DOMAIN x : ~IsNumbered(x[i]) /\ x[i].type = "resync"
    BY <1>7 DEF Resyncs, x
  <2>2. i # 1
    BY <2>1 DEF x
  <2>3. i - 1 \in DOMAIN t /\ t[i - 1] = x[i]
    BY <1>1, <2>2
  <2>4. Resyncs(q)
    BY <2>1, <2>3 DEF Resyncs, t
  <2>5. ~IsNumbered(m)
    BY <1>3, <2>1, <2>3
  <2> QED BY <2>4, <2>5
<1>8. ASSUME Complete(p, s, k) PROVE Complete(q, s, k)
  <2>1. SUFFICES ASSUME NEW n \in 1 .. k, ~HeldBack(s, n)
                 PROVE  /\ n \in Screen(q) \/ (\E i \in DOMAIN t : Shows(Body(t[i]), n))
                        /\ \A i \in DOMAIN t : Drops(Body(t[i]), n) =>
                             \E j \in i + 1 .. Len(t) : Shows(Body(t[j]), n)
    BY DEF Complete, t
  <2>2. /\ n \in Screen(p) \/ (\E i \in DOMAIN x : Shows(Body(x[i]), n))
        /\ \A i \in DOMAIN x : Drops(Body(x[i]), n) =>
             \E j \in i + 1 .. Len(x) : Shows(Body(x[j]), n)
    BY <1>8, <2>1 DEF Complete, x
  <2>3. ASSUME NEW i \in DOMAIN t, Drops(Body(t[i]), n)
        PROVE  \E j \in i + 1 .. Len(t) : Shows(Body(t[j]), n)
    <3>1. i + 1 \in DOMAIN x /\ Drops(Body(x[i + 1]), n)
      BY <1>1, <2>3
    <3>2. PICK j \in (i + 1) + 1 .. Len(x) : Shows(Body(x[j]), n)
      BY <2>2, <3>1
    <3>3. t[j - 1] = x[j] /\ j - 1 \in ((i + 1) - 1) + 1 .. Len(t)
      BY <1>1, <3>1
    <3>4. (i + 1) - 1 = i
      BY <1>1
    <3> QED BY <3>2, <3>3, <3>4
  <2>4. n \in Screen(q) \/ (\E i \in DOMAIN t : Shows(Body(t[i]), n))
    <3>1. Screen(q) = ShownScreen(Body(m), Screen(p)) /\ Body(m).type # "reset"
      BY DEF m, x
    <3>2. ASSUME Body(m).type = "session_snapshot" PROVE Body(m).upto \in Nat
      <4>1. m \in Letters(k)
        <5>1. p.inbox \in Seq(Letters(k))
          BY DEF Panels
        <5> QED BY <1>1, <5>1 DEF m, x
      <4>2. CASE IsNumbered(m)
        <5>1. m \in NumberedOf(k)
          BY <4>1, <4>2, LettersNumbered
        <5>2. m.frame \in Framed(k)
          BY <5>1 DEF NumberedOf
        <5>3. m.frame.upto \in 0 .. k
          BY <3>2, <4>2, <5>2 DEF Framed, Body
        <5> QED BY <4>2, <5>3 DEF Body
      <4>3. CASE ~IsNumbered(m)
        <5>1. m \notin NumberedOf(k)
          BY <4>3, NumberedLetters
        <5>2. m.type = "session_snapshot"
          BY <3>2, <4>3 DEF Body
        <5>3. m.upto \in 0 .. k
          BY <4>1, <5>1, <5>2 DEF Letters
        <5> QED BY <4>3, <5>3 DEF Body
      <4> QED BY <4>2, <4>3
    <3>3. CASE Drops(Body(m), n)
      <4>1. PICK j \in 1 + 1 .. Len(x) : Shows(Body(x[j]), n)
        BY <1>1, <2>2, <3>3 DEF m
      <4>2. j - 1 \in DOMAIN t /\ t[j - 1] = x[j]
        BY <1>1
      <4> QED BY <4>1, <4>2
    <3>4. CASE Shows(Body(m), n)
      <4>1. n \in Screen(q)
        <5>1. CASE Body(m).type = "event" /\ Body(m).n = n
          BY <3>1, <5>1 DEF ShownScreen
        <5>2. CASE Body(m).type = "session_snapshot" /\ n <= Body(m).upto
          <6>1. n \in 1 .. Body(m).upto
            BY <3>2, <5>2
          <6> QED BY <3>1, <5>2, <6>1 DEF ShownScreen
        <5> QED BY <3>1, <3>4, <5>1, <5>2 DEF Shows
      <4> QED BY <4>1
    <3>5. CASE ~Drops(Body(m), n) /\ ~Shows(Body(m), n)
      <4>1. CASE n \in Screen(p)
        <5>1. CASE Body(m).type = "session_snapshot"
          <6>1. ~(n > Body(m).upto) /\ ~(n <= Body(m).upto)
            BY <3>5, <5>1 DEF Drops, Shows
          <6> QED BY <3>2, <5>1, <6>1
        <5>2. CASE Body(m).type # "session_snapshot"
          <6>1. n \in Screen(q)
            BY <3>1, <4>1, <5>2 DEF ShownScreen
          <6> QED BY <6>1
        <5> QED BY <5>1, <5>2
      <4>2. CASE n \notin Screen(p)
        <5>1. PICK i \in DOMAIN x : Shows(Body(x[i]), n)
          BY <2>2, <4>2
        <5>2. i # 1
          BY <3>5, <5>1 DEF m
        <5> QED BY <1>1, <5>1, <5>2
      <4> QED BY <4>1, <4>2
    <3> QED BY <3>3, <3>4, <3>5
  <2> QED BY <2>3, <2>4
<1>9. ASSUME NEW i \in DOMAIN t, IsNumbered(t[i]), t[i].id >= Lowest(b)
      PROVE  Entry(t[i]) \in Retained(b)
  BY <1>4, <1>9 DEF NumberedInOrder
<1> QED BY <1>3, <1>6, <1>7, <1>8, <1>9 DEF m, x, t

(* A frame: the cursor moves to it.                                          *)
LEMMA NumberedRead ==
  ASSUME NEW k \in Nat, NEW b, IsBuffer(b, Generations, Framed(k)), NEW s,
         NEW p \in Panels(k), PanelSound(p, s, b, k), p.at \in {"open", "closing"},
         NEW q \in Panels(k), Rest(p.inbox, q.inbox), IsNumbered(p.inbox[1]),
         Screen(q) = ShownScreen(Body(p.inbox[1]), Screen(p)), Body(p.inbox[1]).type # "reset",
         q.lastEventId = p.inbox[1].id, q.generation = p.generation, q.at = p.at
  PROVE  PanelSound(q, s, b, k)
<1>1. /\ KnowsOpened(p, s, b) /\ ClosingIsLast(p, s, b)
      /\ p.at = "open" => InboxInOrder(p, b) /\ (Resyncs(p) \/ Complete(p, s, k))
  BY DEF PanelSound
<1>2. \A i \in DOMAIN q.inbox : i + 1 \in DOMAIN p.inbox /\ q.inbox[i] = p.inbox[i + 1]
  BY DEF Rest
<1>3. KnowsOpened(q, s, b)
  BY <1>1, <1>2 DEF KnowsOpened
<1>4. ClosingIsLast(q, s, b)
  BY <1>1, <1>2 DEF ClosingIsLast
<1>5. CASE p.at = "closing"
  <2>1. ~Knows(q, s, b)
    BY <1>1, <1>5 DEF ClosingIsLast, Knows
  <2>2. CursorSound(q, s, b, k)
    BY <2>1 DEF CursorSound, Resumes
  <2> QED BY <1>3, <1>4, <1>5, <2>2 DEF PanelSound
<1>6. CASE p.at = "open"
  <2>1. /\ InboxInOrder(q, b) /\ (Resyncs(q) \/ Complete(q, s, k))
        /\ p.inbox[1].id < b.nextSeq
        /\ Complete(q, s, k)
        /\ \A i \in DOMAIN q.inbox :
             /\ IsNumbered(q.inbox[i]) /\ q.inbox[i].id > p.inbox[1].id
             /\ q.inbox[i].id >= Lowest(b) => Entry(q.inbox[i]) \in Retained(b)
    BY <1>1, <1>6, ReadOn
  <2>2. ASSUME q.lastEventId + 1 >= Lowest(b), NEW n \in 1 .. k
        PROVE  n \in Screen(q) \/ HeldBack(s, n) \/ After(b, q.lastEventId, n)
    <3>1. SUFFICES ASSUME NEW i \in DOMAIN q.inbox, Shows(Body(q.inbox[i]), n)
                   PROVE  After(b, q.lastEventId, n)
      BY <2>1 DEF Complete
    <3>2. q.inbox[i] \in NumberedOf(k)
      <4>1. q.inbox \in Seq(Letters(k))
        BY DEF Panels
      <4>2. q.inbox[i] \in Letters(k)
        BY <4>1
      <4> QED BY <2>1, <4>2, LettersNumbered
    <3>3. q.inbox[i].id > q.lastEventId /\ q.inbox[i].id \in Nat /\ Body(q.inbox[i]) = q.inbox[i].frame
      BY <2>1, <3>2, NumberedLetters
    <3>4. q.lastEventId \in Nat /\ Lowest(b) \in Nat
      BY RetainedWindow DEF Panels
    <3>5. q.inbox[i].id >= Lowest(b)
      BY <2>2, <3>3, <3>4
    <3>6. Entry(q.inbox[i]) \in Retained(b)
      BY <2>1, <3>5
    <3>7. Entry(q.inbox[i]).seq = q.inbox[i].id /\ Entry(q.inbox[i]).event = q.inbox[i].frame
      BY DEF Entry
    <3> QED BY <3>1, <3>3, <3>6, <3>7 DEF After
  <2>3. CursorSound(q, s, b, k)
    BY <2>1, <2>2 DEF CursorSound
  <2> QED BY <1>3, <1>4, <2>1, <2>3 DEF PanelSound
<1> QED BY <1>5, <1>6

(* A message of the bootstrap that does not end the connection.              *)
LEMMA BootstrapRead ==
  ASSUME NEW k \in Nat, NEW b, IsBuffer(b, Generations, Framed(k)), NEW s,
         NEW p \in Panels(k), PanelSound(p, s, b, k), p.at \in {"open", "closing"},
         NEW q \in Panels(k), Rest(p.inbox, q.inbox), ~IsNumbered(p.inbox[1]),
         Screen(q) = ShownScreen(p.inbox[1], Screen(p)), q.at = p.at,
         \/ /\ p.inbox[1].type = "connected" /\ q.generation = p.inbox[1].generation
            /\ \/ q.lastEventId = 0
               \/ /\ q.lastEventId = p.lastEventId /\ q.generation = p.generation
                  /\ ~p.inbox[1].reset
         \/ /\ p.inbox[1].type = "session_snapshot" /\ q.generation = p.generation
            /\ q.lastEventId = p.lastEventId
  PROVE  PanelSound(q, s, b, k)
<1> DEFINE m == p.inbox[1]
<1>1. /\ KnowsOpened(p, s, b) /\ ClosingIsLast(p, s, b) /\ CursorSound(p, s, b, k)
      /\ p.at = "open" => InboxInOrder(p, b) /\ (Resyncs(p) \/ Complete(p, s, k))
  BY DEF PanelSound
<1>2. /\ \A i \in DOMAIN q.inbox : i + 1 \in DOMAIN p.inbox /\ q.inbox[i] = p.inbox[i + 1]
      /\ 1 \in DOMAIN p.inbox
  BY DEF Rest
<1>3. IsHello(m) <=> m.type = "connected"
  BY DEF IsHello
<1>4. KnowsOpened(q, s, b)
  <2>1. Opened(q.generation, s, b)
    BY <1>1, <1>2, <1>3 DEF KnowsOpened
  <2> QED BY <1>1, <1>2, <2>1 DEF KnowsOpened
<1>5. ClosingIsLast(q, s, b)
  <2>1. SUFFICES ASSUME q.at = "closing", s.phase = "open", ~s.terminal
                 PROVE  /\ q.generation # b.generation
                        /\ \A i \in DOMAIN q.inbox :
                             IsHello(q.inbox[i]) => q.inbox[i].generation # b.generation
    BY DEF ClosingIsLast
  <2>2. /\ p.generation # b.generation
        /\ \A i \in DOMAIN p.inbox :
             IsHello(p.inbox[i]) => p.inbox[i].generation # b.generation
    BY <1>1, <2>1 DEF ClosingIsLast
  <2>3. q.generation # b.generation
    BY <1>2, <1>3, <2>2
  <2> QED BY <1>2, <2>2, <2>3
<1>6. CASE p.at = "closing"
  <2>1. ~Knows(q, s, b)
    BY <1>5, <1>6 DEF ClosingIsLast, Knows
  <2>2. CursorSound(q, s, b, k)
    BY <2>1 DEF CursorSound, Resumes
  <2> QED BY <1>4, <1>5, <1>6, <2>2 DEF PanelSound
<1>7. CASE p.at = "open"
  <2>1. ForgetsCursor(p) => q.lastEventId = 0
    <3>1. IsHello(m) /\ m.reset => q.lastEventId = 0
      BY <1>3
    <3>2. p.lastEventId = 0 => q.lastEventId = 0
      OBVIOUS
    <3> QED BY <3>1, <3>2 DEF ForgetsCursor
  <2>2. Body(m) = m /\ Body(m).type # "reset"
    BY DEF Body
  <2>3. InboxInOrder(q, b) /\ (Resyncs(q) \/ Complete(q, s, k))
    BY <1>1, <1>7, <2>1, <2>2, ReadOn
  <2>4. b.nextSeq \in Nat \ {0}
    BY DEF IsBuffer
  <2>5. CursorSound(q, s, b, k)
    <3>1. CASE q.lastEventId = 0
      BY <2>4, <3>1 DEF CursorSound, Resumes
    <3>2. CASE q.lastEventId # 0
      <4>1. m.type = "connected"
        <5>1. m.type = "session_snapshot" => ForgetsCursor(p)
          BY <1>1, <1>2, <1>7 DEF InboxInOrder
        <5> QED BY <2>1, <3>2, <5>1
      <4>2. q.lastEventId = p.lastEventId /\ q.generation = p.generation
        BY <3>2, <4>1
      <4>3. Screen(q) = Screen(p)
        BY <4>1 DEF ShownScreen
      <4> QED BY <1>1, <4>2, <4>3 DEF CursorSound, Resumes, Knows
    <3> QED BY <3>1, <3>2
  <2> QED BY <1>4, <1>5, <2>3, <2>5 DEF PanelSound
<1> QED BY <1>6, <1>7

(* The last message of a connection.                                         *)
LEMMA LastRead ==
  ASSUME NEW k \in Nat, NEW b, IsBuffer(b, Generations, Framed(k)), NEW s,
         NEW p \in Panels(k), PanelSound(p, s, b, k), p.at \in {"open", "closing"},
         1 \in DOMAIN p.inbox,
         NEW q, q.at \in {"over", "away"}, q.generation = p.generation,
         \/ q.lastEventId = 0
         \/ q.lastEventId = p.lastEventId
         \/ IsNumbered(p.inbox[1]) /\ q.lastEventId = p.inbox[1].id
  PROVE  Opened(q.generation, s, b) /\ CursorSound(q, s, b, k)
<1>1. /\ KnowsOpened(p, s, b) /\ ClosingIsLast(p, s, b) /\ CursorSound(p, s, b, k)
      /\ p.at = "open" => InboxInOrder(p, b)
  BY DEF PanelSound
<1>2. Opened(q.generation, s, b)
  BY <1>1 DEF KnowsOpened
<1>3. b.nextSeq \in Nat \ {0}
  BY DEF IsBuffer
<1>4. Knows(q, s, b) => q.lastEventId < b.nextSeq
  <2>1. SUFFICES ASSUME Knows(q, s, b) PROVE q.lastEventId < b.nextSeq
    OBVIOUS
  <2>2. Knows(p, s, b)
    BY <2>1 DEF Knows
  <2>3. p.at = "open"
    BY <1>1, <2>2 DEF ClosingIsLast, Knows
  <2>4. IsNumbered(p.inbox[1]) => p.inbox[1].id < b.nextSeq
    BY <1>1, <2>3 DEF InboxInOrder, NumberedInOrder
  <2>5. p.lastEventId < b.nextSeq
    BY <1>1, <2>2 DEF CursorSound
  <2>6. 0 < b.nextSeq
    BY <1>3
  <2> QED BY <2>4, <2>5, <2>6
<1> QED BY <1>2, <1>4 DEF CursorSound, Resumes

(* The messages of an inbox.                                                 *)
LEMMA LetterKinds ==
  ASSUME NEW k \in Nat, NEW m \in Letters(k)
  PROVE  /\ IsNumbered(m) => m \in NumberedOf(k) /\ m.frame \in Framed(k) /\ m.id \in Nat
         /\ ~IsNumbered(m) =>
              \/ m \in [type : {"connected"}, generation : Nat, reset : BOOLEAN]
              \/ m \in [type : {"session_snapshot"}, upto : 0 .. k, terminal : BOOLEAN]
              \/ m \in [type : {"resync"}]
<1>1. IsNumbered(m) => m \in NumberedOf(k) /\ m.frame \in Framed(k) /\ m.id \in Nat
  BY LettersNumbered DEF NumberedOf
<1>2. ~IsNumbered(m) =>
        \/ m \in [type : {"connected"}, generation : Nat, reset : BOOLEAN]
        \/ m \in [type : {"session_snapshot"}, upto : 0 .. k, terminal : BOOLEAN]
        \/ m \in [type : {"resync"}]
  BY NumberedLetters DEF Letters
<1> QED BY <1>1, <1>2

(* One panel of a connection reads on.                                       *)
LEMMA ReadsOnStep ==
  ASSUME IInv, NEW v \in Viewers, NEW q \in Panels(emitted), q.at = viewer[v].at,
         q.at \in {"open", "closing"},
         PanelSound(q, stream, frames, emitted), viewer' = [viewer EXCEPT ![v] = q],
         UNCHANGED <<emitted, turns, ended, stream, frames, finalReadFailed, childFaults>>
  PROVE  IInv'
<1>1. childFaults' \in 0 .. MaxChildFaults
  BY StateFacts
<1>2. /\ viewer' \in [Viewers -> Panels(emitted)]
      /\ \A w \in Viewers : PanelSound(viewer'[w], stream, frames, emitted)
      /\ Holders' = IF q.at \in {"joined", "refreshing", "ready", "open"}
                    THEN Holders \union {v} ELSE Holders \ {v}
      /\ Waiting' = IF q.at = "waiting" THEN Waiting \union {v} ELSE Waiting \ {v}
      /\ Following' = IF q.at = "open" THEN Following \union {v} ELSE Following \ {v}
  BY OnePanel
<1>3. Holders' = Holders
  BY <1>2 DEF Holders
<1>4. Waiting' = Waiting
  BY <1>2 DEF Waiting
<1>5. Following' = Following
  BY <1>2 DEF Following
<1> QED BY <1>1, <1>2, <1>3, <1>4, <1>5, PanelsStep

LEMMA ReadNumberedStep ==
  ASSUME IInv, NEW v \in Viewers, viewer[v].at \in {"open", "closing"}, viewer[v].inbox # <<>>,
         IsNumbered(Head(viewer[v].inbox)), ReadNumbered(v, Head(viewer[v].inbox)),
         UNCHANGED <<emitted, turns, ended, finalReadFailed, childFaults>>
  PROVE  IInv'
<1>1. /\ emitted \in Nat /\ IsBuffer(frames, Generations, Framed(emitted))
      /\ childFaults' \in 0 .. MaxChildFaults
      /\ viewer[v] \in Panels(emitted) /\ PanelSound(viewer[v], stream, frames, emitted)
  BY StateFacts
<1>2. PICK p \in Panels(emitted) : p = viewer[v]
  BY <1>1
<1>3. PICK m : m = Head(p.inbox)
  OBVIOUS
<1>4. PICK t : t = Tail(p.inbox)
  OBVIOUS
<1>5. /\ t \in Seq(Letters(emitted)) /\ Rest(p.inbox, t) /\ m = p.inbox[1]
      /\ m \in Letters(emitted) /\ 1 \in DOMAIN p.inbox
  <2>1. p.inbox \in Seq(Letters(emitted)) /\ p.inbox # <<>>
    BY <1>2 DEF Panels
  <2>2. t \in Seq(Letters(emitted)) /\ Rest(p.inbox, t) /\ m = p.inbox[1]
        /\ m \in Letters(emitted)
    BY <1>3, <1>4, <2>1, TailRests
  <2> QED BY <2>2 DEF Rest
<1>6. IsNumbered(m)
  BY <1>2, <1>3
<1>7. m.frame \in Framed(emitted) /\ m.id \in Nat /\ Body(m) = m.frame
  BY <1>1, <1>5, <1>6, LetterKinds DEF Body
<1>8. PICK panel : panel = [p EXCEPT !.inbox = t, !.lastEventId = m.id]
  OBVIOUS
<1>9. /\ panel \in Panels(emitted) /\ panel.inbox = t /\ panel.lastEventId = m.id
      /\ panel.have = p.have /\ panel.base = p.base
      /\ panel.generation = p.generation /\ panel.at = p.at
  BY <1>5, <1>7, <1>8 DEF Panels
<1>10. PICK q : q = CASE m.frame.type = "session_snapshot" -> Reading(panel, m.frame.upto)
                      [] m.frame.type = "event" -> [panel EXCEPT !.have = @ \union {m.frame.n}]
                      [] OTHER -> panel
  OBVIOUS
<1>11. /\ q \in Panels(emitted) /\ q.inbox = t /\ q.lastEventId = m.id
       /\ q.generation = p.generation /\ q.at = p.at
       /\ Screen(q) = ShownScreen(m.frame, Screen(p))
  <2>1. CASE m.frame.type = "session_snapshot"
    <3>1. m.frame.upto \in 0 .. emitted
      BY <1>7, <2>1 DEF Framed
    <3>2. q = Reading(panel, m.frame.upto)
      BY <1>10, <2>1
    <3>3. PICK u \in 0 .. emitted : u = m.frame.upto
      BY <3>1
    <3>4. PICK k \in Nat : k = emitted
      BY <1>1
    <3>5. panel \in Panels(k) /\ u \in 0 .. k /\ q = Reading(panel, u)
      BY <1>9, <3>2, <3>3, <3>4
    <3>6. /\ q \in Panels(k) /\ Screen(q) = 1 .. u
          /\ q.generation = panel.generation /\ q.lastEventId = panel.lastEventId
          /\ q.inbox = panel.inbox /\ q.at = panel.at
      BY <3>5, ReadingScreen
    <3> QED BY <1>9, <2>1, <3>3, <3>4, <3>6 DEF ShownScreen
  <2>2. CASE m.frame.type = "event"
    <3>1. m.frame.n \in 1 .. emitted
      BY <1>7, <2>2 DEF Framed
    <3>2. PICK h : h = panel.have \union {m.frame.n}
      OBVIOUS
    <3>3. q = [panel EXCEPT !.have = h] /\ h \in SUBSET (1 .. emitted)
      BY <1>9, <1>10, <2>2, <3>1, <3>2 DEF Panels
    <3>4. /\ q \in Panels(emitted) /\ q.inbox = t /\ q.lastEventId = m.id
          /\ q.generation = p.generation /\ q.at = p.at
          /\ q.have = h /\ q.base = p.base
      BY <1>9, <3>3 DEF Panels
    <3>5. Screen(q) = Screen(p) \union {m.frame.n}
      BY <1>9, <3>2, <3>4 DEF Screen
    <3> QED BY <2>2, <3>4, <3>5 DEF ShownScreen
  <2>3. CASE m.frame.type \notin {"session_snapshot", "event"}
    <3>1. q = panel
      BY <1>10, <2>3
    <3> QED BY <1>9, <2>3, <3>1 DEF ShownScreen, Screen
  <2> QED BY <2>1, <2>2, <2>3
<1>12. CASE m.frame.type = "error" \/ Ends(m)
  <2>1. PICK r : r = [q EXCEPT !.at = "over"]
    OBVIOUS
  <2>2. /\ r \in Panels(emitted) /\ r.at = "over" /\ r.generation = p.generation
        /\ r.lastEventId = m.id
    BY <1>11, <2>1 DEF Panels, Places
  <2>3. Opened(r.generation, stream, frames) /\ CursorSound(r, stream, frames, emitted)
    BY <1>1, <1>2, <1>5, <1>6, <2>2, LastRead
  <2>4. Disconnected(v, [q EXCEPT !.at = "over"])
    <3>1. panel = [viewer[v] EXCEPT !.inbox = Tail(@), !.lastEventId = m.id]
      BY <1>2, <1>4, <1>8
    <3>2. m = Head(viewer[v].inbox)
      BY <1>2, <1>3
    <3>3. ReadNumbered(v, m)
      BY <3>2
    <3>4. CASE m.frame.type = "session_snapshot"
      <4>1. Disconnected(v, [Reading(panel, m.frame.upto) EXCEPT !.at = "over"])
        BY <1>12, <3>1, <3>3, <3>4 DEF ReadNumbered
      <4>2. q = Reading(panel, m.frame.upto)
        BY <1>10, <3>4
      <4> QED BY <4>1, <4>2
    <3>5. CASE m.frame.type = "error"
      <4>1. Disconnected(v, [panel EXCEPT !.at = "over"])
        BY <1>12, <3>1, <3>3, <3>5 DEF ReadNumbered
      <4>2. q = panel
        BY <1>10, <3>5
      <4> QED BY <4>1, <4>2
    <3> QED BY <1>12, <3>4, <3>5 DEF Ends
  <2>5. Disconnected(v, r)
    BY <2>1, <2>4
  <2> QED BY <1>1, <2>2, <2>3, <2>5, DisconnectedStep
<1>13. CASE ~(m.frame.type = "error" \/ Ends(m)) /\ m.frame.type = "reset"
  <2>1. PICK r : r = [panel EXCEPT !.lastEventId = 0, !.at = "away"]
    OBVIOUS
  <2>2. /\ r \in Panels(emitted) /\ r.at = "away" /\ r.generation = p.generation
        /\ r.lastEventId = 0
    BY <1>9, <2>1 DEF Panels, Places
  <2>3. Opened(r.generation, stream, frames) /\ CursorSound(r, stream, frames, emitted)
    BY <1>1, <1>2, <1>5, <2>2, LastRead
  <2>4. Disconnected(v, r)
    BY <1>2, <1>3, <1>4, <1>8, <1>13, <2>1 DEF ReadNumbered
  <2> QED BY <1>1, <2>2, <2>3, <2>4, DisconnectedStep
<1>14. CASE ~(m.frame.type = "error" \/ Ends(m)) /\ m.frame.type # "reset"
  <2>1. viewer' = [viewer EXCEPT ![v] = q] /\ UNCHANGED <<stream, frames>>
    BY <1>2, <1>3, <1>4, <1>8, <1>10, <1>14 DEF ReadNumbered
  <2>2. PanelSound(q, stream, frames, emitted)
    <3>1. Rest(p.inbox, q.inbox) /\ IsNumbered(p.inbox[1])
          /\ Screen(q) = ShownScreen(Body(p.inbox[1]), Screen(p)) /\ q.lastEventId = p.inbox[1].id
          /\ Body(p.inbox[1]).type # "reset"
      BY <1>5, <1>6, <1>7, <1>11, <1>14
    <3> QED BY <1>1, <1>2, <1>11, <3>1, NumberedRead
  <2> QED BY <1>2, <1>11, <2>1, <2>2, ReadsOnStep
<1> QED BY <1>12, <1>13, <1>14

LEMMA ReadBootstrapStep ==
  ASSUME IInv, NEW v \in Viewers, viewer[v].at \in {"open", "closing"}, viewer[v].inbox # <<>>,
         ~IsNumbered(Head(viewer[v].inbox)), ReadBootstrap(v, Head(viewer[v].inbox)),
         UNCHANGED <<emitted, turns, ended, finalReadFailed, childFaults>>
  PROVE  IInv'
<1>1. /\ emitted \in Nat /\ IsBuffer(frames, Generations, Framed(emitted))
      /\ childFaults' \in 0 .. MaxChildFaults
      /\ viewer[v] \in Panels(emitted) /\ PanelSound(viewer[v], stream, frames, emitted)
  BY StateFacts
<1>2. PICK p \in Panels(emitted) : p = viewer[v]
  BY <1>1
<1>3. PICK m : m = Head(p.inbox)
  OBVIOUS
<1>4. PICK t : t = Tail(p.inbox)
  OBVIOUS
<1>5. /\ t \in Seq(Letters(emitted)) /\ Rest(p.inbox, t) /\ m = p.inbox[1]
      /\ m \in Letters(emitted) /\ 1 \in DOMAIN p.inbox
  <2>1. p.inbox \in Seq(Letters(emitted)) /\ p.inbox # <<>>
    BY <1>2 DEF Panels
  <2>2. t \in Seq(Letters(emitted)) /\ Rest(p.inbox, t) /\ m = p.inbox[1]
        /\ m \in Letters(emitted)
    BY <1>3, <1>4, <2>1, TailRests
  <2> QED BY <2>2 DEF Rest
<1>6. /\ ~IsNumbered(m) /\ Body(m) = m
      /\ \/ m \in [type : {"connected"}, generation : Nat, reset : BOOLEAN]
         \/ m \in [type : {"session_snapshot"}, upto : 0 .. emitted, terminal : BOOLEAN]
         \/ m \in [type : {"resync"}]
  <2>1. ~IsNumbered(m)
    BY <1>2, <1>3
  <2>3. Body(m) = m
    BY <2>1 DEF Body
  <2> QED BY <1>1, <1>5, <2>1, <2>3, LetterKinds
<1>7. PICK panel : panel = [p EXCEPT !.inbox = t]
  OBVIOUS
<1>8. /\ panel \in Panels(emitted) /\ panel.inbox = t /\ panel.lastEventId = p.lastEventId
      /\ panel.have = p.have /\ panel.base = p.base
      /\ panel.generation = p.generation /\ panel.at = p.at
  BY <1>5, <1>7 DEF Panels
<1>9. PICK known \in BOOLEAN :
        known = (m.type = "connected" /\ ~m.reset /\ viewer[v].generation = m.generation)
  OBVIOUS
<1>10. \/ /\ m.type = "connected"
          /\ viewer' = [viewer EXCEPT ![v] =
               [panel EXCEPT !.generation = m.generation,
                             !.lastEventId = IF known THEN @ ELSE 0]]
          /\ UNCHANGED <<stream, frames>>
       \/ /\ m.type = "session_snapshot" /\ ~m.terminal
          /\ viewer' = [viewer EXCEPT ![v] = Reading(panel, m.upto)]
          /\ UNCHANGED <<stream, frames>>
       \/ /\ m.type = "session_snapshot" /\ m.terminal
          /\ Disconnected(v, [Reading(panel, m.upto) EXCEPT !.at = "over"])
       \/ /\ m.type = "resync"
          /\ Disconnected(v, [panel EXCEPT !.lastEventId = 0, !.at = "away"])
  BY <1>2, <1>3, <1>4, <1>7, <1>9 DEF ReadBootstrap
<1>11. ASSUME m.type = "connected",
              viewer' = [viewer EXCEPT ![v] =
                [panel EXCEPT !.generation = m.generation,
                              !.lastEventId = IF known THEN @ ELSE 0]],
              UNCHANGED <<stream, frames>>
       PROVE  IInv'
  <2>1. m.generation \in Nat
    BY <1>6, <1>11
  <2>2. PICK c \in Nat : c = IF known THEN panel.lastEventId ELSE 0
    BY <1>8 DEF Panels
  <2>3. PICK q : q = [panel EXCEPT !.generation = m.generation, !.lastEventId = c]
    OBVIOUS
  <2>4. /\ q \in Panels(emitted) /\ q.inbox = t /\ q.lastEventId = c /\ q.have = p.have /\ q.base = p.base
        /\ q.generation = m.generation /\ q.at = p.at
    BY <1>8, <2>1, <2>2, <2>3 DEF Panels
  <2>5. viewer' = [viewer EXCEPT ![v] = q]
    BY <1>11, <2>2, <2>3
  <2>6. PanelSound(q, stream, frames, emitted)
    <3>1. Rest(p.inbox, q.inbox) /\ ~IsNumbered(p.inbox[1])
      BY <1>5, <1>6, <2>4
    <3>2. Screen(q) = ShownScreen(p.inbox[1], Screen(p))
      BY <1>5, <1>11, <2>4 DEF ShownScreen, Screen
    <3>3. /\ p.inbox[1].type = "connected" /\ q.generation = p.inbox[1].generation
          /\ \/ q.lastEventId = 0
             \/ /\ q.lastEventId = p.lastEventId /\ q.generation = p.generation
                /\ ~p.inbox[1].reset
      BY <1>2, <1>5, <1>8, <1>9, <1>11, <2>2, <2>4
    <3> QED BY <1>1, <1>2, <2>4, <3>1, <3>2, <3>3, BootstrapRead
  <2> QED BY <1>2, <1>11, <2>4, <2>5, <2>6, ReadsOnStep
<1>12. ASSUME m.type = "session_snapshot", ~m.terminal,
              viewer' = [viewer EXCEPT ![v] = Reading(panel, m.upto)],
              UNCHANGED <<stream, frames>>
       PROVE  IInv'
  <2>1. m.upto \in 0 .. emitted
    BY <1>6, <1>12
  <2>3. PICK q : q = Reading(panel, m.upto)
    OBVIOUS
  <2>4. /\ q \in Panels(emitted) /\ q.inbox = t /\ q.lastEventId = p.lastEventId
        /\ Screen(q) = 1 .. m.upto
        /\ q.generation = p.generation /\ q.at = p.at
    BY <1>1, <1>8, <2>1, <2>3, ReadingScreen, SMTT(30)
  <2>5. viewer' = [viewer EXCEPT ![v] = q]
    BY <1>12, <2>3
  <2>6. PanelSound(q, stream, frames, emitted)
    <3>1. Rest(p.inbox, q.inbox) /\ ~IsNumbered(p.inbox[1])
      BY <1>5, <1>6, <2>4
    <3>2. Screen(q) = ShownScreen(p.inbox[1], Screen(p))
      BY <1>5, <1>12, <2>4 DEF ShownScreen
    <3>3. /\ p.inbox[1].type = "session_snapshot" /\ q.generation = p.generation
          /\ q.lastEventId = p.lastEventId
      BY <1>5, <1>12, <2>4
    <3> QED BY <1>1, <1>2, <2>4, <3>1, <3>2, <3>3, BootstrapRead
  <2> QED BY <1>2, <1>12, <2>4, <2>5, <2>6, ReadsOnStep
<1>13. ASSUME m.type = "session_snapshot", m.terminal,
              Disconnected(v, [Reading(panel, m.upto) EXCEPT !.at = "over"])
       PROVE  IInv'
  <2>1. m.upto \in 0 .. emitted
    BY <1>6, <1>13
  <2>2. PICK x : x = Reading(panel, m.upto)
    OBVIOUS
  <2>6. x \in Panels(emitted) /\ x.generation = p.generation /\ x.lastEventId = p.lastEventId
    <3>1. PICK u \in 0 .. emitted : u = m.upto
      BY <2>1
    <3>2. PICK k \in Nat : k = emitted
      BY <1>1
    <3>3. panel \in Panels(k) /\ u \in 0 .. k /\ x = Reading(panel, u)
      BY <1>8, <2>2, <3>1, <3>2
    <3>4. x \in Panels(k) /\ x.generation = panel.generation /\ x.lastEventId = panel.lastEventId
      BY <3>3, ReadingScreen
    <3> QED BY <1>8, <3>2, <3>4
  <2>3. PICK r : r = [x EXCEPT !.at = "over"]
    OBVIOUS
  <2>4. /\ r \in Panels(emitted) /\ r.at = "over" /\ r.generation = p.generation
        /\ r.lastEventId = p.lastEventId
    BY <2>3, <2>6 DEF Panels, Places
  <2>5. Opened(r.generation, stream, frames) /\ CursorSound(r, stream, frames, emitted)
    BY <1>1, <1>2, <1>5, <2>4, LastRead
  <2> QED BY <1>1, <1>13, <2>2, <2>3, <2>4, <2>5, DisconnectedStep
<1>14. ASSUME m.type = "resync",
              Disconnected(v, [panel EXCEPT !.lastEventId = 0, !.at = "away"])
       PROVE  IInv'
  <2>1. PICK r : r = [panel EXCEPT !.lastEventId = 0, !.at = "away"]
    OBVIOUS
  <2>2. /\ r \in Panels(emitted) /\ r.at = "away" /\ r.generation = p.generation
        /\ r.lastEventId = 0
    BY <1>8, <2>1 DEF Panels, Places
  <2>3. Opened(r.generation, stream, frames) /\ CursorSound(r, stream, frames, emitted)
    BY <1>1, <1>2, <1>5, <2>2, LastRead
  <2> QED BY <1>1, <1>14, <2>1, <2>2, <2>3, DisconnectedStep
<1> QED BY <1>10, <1>11, <1>12, <1>13, <1>14

LEMMA ReadMessageStep == ASSUME IInv, NEW v \in Viewers, ReadMessage(v) PROVE IInv'
BY ReadNumberedStep, ReadBootstrapStep DEF ReadMessage, IsNumbered

------------------------------------------------------------------------------
(* Steps while no stream is open                                             *)

LEMMA ClosedStep ==
  ASSUME IInv, stream.phase # "open", UNCHANGED <<emitted, turns, ended, frames, finalReadFailed>>,
         childFaults' \in 0 .. MaxChildFaults, viewer' \in [Viewers -> Panels(emitted)],
         stream' \in Streams(emitted), Balanced(stream'), IsStream(stream', frames),
         stream'.phase # "open", stream'.chain = 0, ~stream'.terminal,
         Awaiting(stream', emitted, ended),
         \A v \in Viewers : /\ viewer'[v].at \notin {"joined", "refreshing", "ready", "open"}
                            /\ KnowsOpened(viewer'[v], stream, frames),
         stream'.phase = "none" => Waiting' = {},
         stream'.phase \in {"watching", "subscribed"} => IsFiniteSet(Waiting') /\ Waiting' # {},
         stream'.phase # "none" => frames.generation <= MaxStreams
  PROVE  IInv'
<1>1. Types'
  BY StateFacts DEF Types
<1>2. frames = EmptyBuffer(frames.generation)
  BY DEF IInv, Held
<1>3. Held'
  <2>1. Holders' = {}
    BY DEF Holders
  <2> QED BY <1>2, <2>1 DEF Held
<1>4. RetainedFollowed(stream', frames', emitted')
  <2>1. frames.entries = <<>>
    BY <1>2 DEF EmptyBuffer
  <2> QED BY <2>1 DEF RetainedFollowed, Retained
<1>5. SnapshotFollowed(stream', frames', emitted')
  BY DEF SnapshotFollowed
<1>6. ASSUME NEW v \in Viewers PROVE PanelSound(viewer'[v], stream', frames', emitted')
  <2>1. \A g : Opened(g, stream, frames) => Opened(g, stream', frames')
    BY DEF Opened
  <2>2. KnowsOpened(viewer'[v], stream', frames')
    BY <2>1 DEF KnowsOpened
  <2>3. ClosingIsLast(viewer'[v], stream', frames') /\ CursorSound(viewer'[v], stream', frames', emitted')
    BY DEF ClosingIsLast, CursorSound, Resumes, Knows
  <2> QED BY <2>2, <2>3 DEF PanelSound
<1>7. EndFollowed'
  BY DEF EndFollowed
<1>8. Lags'
  BY <1>4, <1>5, <1>6, <1>7 DEF Lags
<1> QED BY <1>1, <1>3, <1>8 DEF IInv

(* While no stream is open ...                                               *)
LEMMA ClosedFacts ==
  ASSUME IInv, stream.phase # "open"
  PROVE  /\ Holders = {} /\ stream.chain = 0 /\ ~stream.terminal
         /\ frames = EmptyBuffer(frames.generation)
         /\ \A v \in Viewers : /\ viewer[v].at \notin {"joined", "refreshing", "ready", "open"}
                               /\ KnowsOpened(viewer[v], stream, frames)
         /\ stream.phase \in {"watching", "subscribed"} =>
              IsFiniteSet(Waiting) /\ Waiting # {} /\ frames.generation <= MaxStreams
<1>1. /\ Holders = {} /\ stream.chain = 0 /\ ~stream.terminal
      /\ frames = EmptyBuffer(frames.generation)
      /\ stream.phase \in {"watching", "subscribed"} =>
           IsFiniteSet(Waiting) /\ Waiting # {} /\ frames.generation <= MaxStreams
  BY DEF IInv, Held
<1>2. ASSUME NEW v \in Viewers
      PROVE  viewer[v].at \notin {"joined", "refreshing", "ready", "open"}
  <2>1. v \notin Holders
    BY <1>1
  <2> QED BY <2>1 DEF Holders
<1>3. \A v \in Viewers : KnowsOpened(viewer[v], stream, frames)
  BY DEF IInv, Lags, PanelSound
<1>4. \A v \in Viewers : /\ viewer[v].at \notin {"joined", "refreshing", "ready", "open"}
                          /\ KnowsOpened(viewer[v], stream, frames)
  BY <1>2, <1>3
<1> QED BY <1>1, <1>4

(* Those who waited for a stream that is refused try again.                  *)
LEMMA RefusedPanels ==
  ASSUME IInv, stream.phase # "open", viewer' = [v \in Viewers |-> Refused(v)]
  PROVE  /\ viewer' \in [Viewers -> Panels(emitted)] /\ Waiting' = {}
         /\ \A v \in Viewers : /\ viewer'[v].at \notin {"joined", "refreshing", "ready", "open"}
                               /\ KnowsOpened(viewer'[v], stream, frames)
<1>1. ASSUME NEW v \in Viewers
      PROVE  /\ Refused(v) \in Panels(emitted) /\ Refused(v).at # "waiting"
             /\ Refused(v).at \notin {"joined", "refreshing", "ready", "open"}
             /\ KnowsOpened(Refused(v), stream, frames)
  <2>1. PICK p \in Panels(emitted) : p = viewer[v]
    BY StateFacts
  <2>2. /\ p.at \notin {"joined", "refreshing", "ready", "open"}
        /\ KnowsOpened(p, stream, frames)
    BY <2>1, ClosedFacts
  <2>3. CASE p.at = "waiting"
    <3>1. PICK q : q = [p EXCEPT !.at = "broken"]
      OBVIOUS
    <3>2. /\ q \in Panels(emitted) /\ q.at = "broken" /\ q.generation = p.generation
          /\ q.inbox = p.inbox
      BY <3>1 DEF Panels, Places
    <3>3. KnowsOpened(q, stream, frames)
      BY <2>2, <3>2 DEF KnowsOpened
    <3>4. Refused(v) = q
      BY <2>1, <2>3, <3>1 DEF Refused
    <3> QED BY <3>2, <3>3, <3>4
  <2>4. CASE p.at # "waiting"
    <3>1. Refused(v) = p
      BY <2>1, <2>4 DEF Refused
    <3> QED BY <2>2, <2>4, <3>1
  <2> QED BY <2>3, <2>4
<1>2. \A v \in Viewers : viewer'[v] = Refused(v)
  OBVIOUS
<1>3. viewer' \in [Viewers -> Panels(emitted)]
  BY <1>1
<1>4. Waiting' = {}
  BY <1>1, <1>2 DEF Waiting
<1> QED BY <1>1, <1>2, <1>3, <1>4

(* An initialization that ends without a stream.                             *)
LEMMA RefusedStep ==
  ASSUME IInv, stream.phase # "open", UNCHANGED <<emitted, turns, ended, frames, finalReadFailed>>,
         childFaults' \in 0 .. MaxChildFaults, stream' = NoStream,
         viewer' = [v \in Viewers |-> Refused(v)]
  PROVE  IInv'
<1>1. /\ viewer' \in [Viewers -> Panels(emitted)] /\ Waiting' = {}
      /\ \A v \in Viewers : /\ viewer'[v].at \notin {"joined", "refreshing", "ready", "open"}
                            /\ KnowsOpened(viewer'[v], stream, frames)
  BY RefusedPanels
<1>2. /\ stream' \in Streams(emitted) /\ Balanced(stream') /\ IsStream(stream', frames)
      /\ Awaiting(stream', emitted, ended)
  <2>1. frames = EmptyBuffer(frames.generation) /\ frames.generation \in Generations
        /\ emitted \in Nat
    BY ClosedFacts, StateFacts
  <2> QED BY <2>1, NoStreamTyped
<1>3. stream'.phase = "none" /\ stream'.chain = 0 /\ ~stream'.terminal
  BY DEF NoStream
<1> QED BY <1>1, <1>2, <1>3, ClosedStep

LEMMA WatchStep == ASSUME IInv, Watch PROVE IInv'
<1>1. /\ stream.phase = "watching"
      /\ UNCHANGED <<emitted, turns, ended, frames, finalReadFailed, childFaults>>
      /\ \/ ~ended /\ stream' = [stream EXCEPT !.phase = "subscribed"] /\ UNCHANGED viewer
         \/ stream' = NoStream /\ viewer' = [v \in Viewers |-> Refused(v)]
  BY DEF Watch
<1>2. /\ stream \in Streams(emitted) /\ IsStream(stream, frames)
      /\ childFaults' \in 0 .. MaxChildFaults
      /\ viewer \in [Viewers -> Panels(emitted)]
  BY <1>1, StateFacts
<1>3. ASSUME ~ended, stream' = [stream EXCEPT !.phase = "subscribed"], UNCHANGED viewer
      PROVE  IInv'
  <2>1. /\ stream' \in Streams(emitted) /\ stream'.phase = "subscribed"
        /\ stream'.held = stream.held /\ stream'.read = stream.read
        /\ stream'.chain = stream.chain /\ stream'.terminal = stream.terminal
        /\ stream'.buffering = stream.buffering /\ stream'.replayFrom = stream.replayFrom
    BY <1>2, <1>3 DEF Streams, Phases
  <2>2. /\ stream.chain = 0 /\ ~stream.terminal
        /\ \A v \in Viewers : /\ viewer[v].at \notin {"joined", "refreshing", "ready", "open"}
                              /\ KnowsOpened(viewer[v], stream, frames)
        /\ IsFiniteSet(Waiting) /\ Waiting # {} /\ frames.generation <= MaxStreams
    BY <1>1, ClosedFacts
  <2>3. Balanced(stream') /\ IsStream(stream', frames)
    BY <1>2, <2>1 DEF IInv, Types, Balanced, IsStream
  <2>4. Awaiting(stream', emitted, ended)
    <3>1. Awaiting(stream, emitted, ended)
      BY DEF IInv, Lags
    <3>2. stream.read = NotRead
      BY <1>1, <2>2, <3>1 DEF Awaiting
    <3> QED BY <1>3, <2>1, <3>2 DEF Awaiting
  <2>5. Waiting' = Waiting
    BY <1>3 DEF Waiting
  <2> QED BY <1>1, <1>2, <1>3, <2>1, <2>2, <2>3, <2>4, <2>5, ClosedStep
<1> QED BY <1>1, <1>2, <1>3, RefusedStep

LEMMA RegisterFailsStep == ASSUME IInv, RegisterFails PROVE IInv'
<1>1. /\ stream.phase = "subscribed" /\ childFaults < MaxChildFaults
      /\ childFaults' = childFaults + 1 /\ stream' = NoStream
      /\ viewer' = [v \in Viewers |-> Refused(v)]
      /\ UNCHANGED <<emitted, turns, ended, frames, finalReadFailed>>
  BY DEF RegisterFails
<1>2. childFaults' \in 0 .. MaxChildFaults
  BY <1>1, StateFacts
<1> QED BY <1>1, <1>2, RefusedStep

(* The stream that is registered, before the events that were held back.     *)
Registered(d) ==
  d = [Channel EXCEPT !.stream.phase = "open", !.stream.refs = Joiners,
                      !.stream.upto = stream.read, !.stream.read = NotRead]

LEMMA RegisteredChannel ==
  ASSUME IInv, stream.phase = "subscribed", stream.read # NotRead, NEW d, Registered(d)
  PROVE  /\ d \in Channels(emitted) /\ d.frames = frames /\ d.out = <<>> /\ Len(d.out) = 0
         /\ d.stream.phase = "open" /\ d.stream.held = stream.held /\ d.stream.refs = Joiners
         /\ d.stream.chain = 0 /\ d.stream.terminal = stream.terminal
         /\ d.stream.replayFrom = stream.replayFrom /\ d.stream.failed = stream.failed
         /\ d.stream.upto = stream.read /\ d.stream.read = NotRead
<1> DEFINE k == emitted
<1>1. /\ Channel \in Channels(k) /\ Channel.stream = stream /\ Channel.frames = frames
      /\ Channel.out = <<>> /\ Len(Channel.out) = 0 /\ Followed(frames, Channel)
      /\ stream \in Streams(k) /\ IsBuffer(frames, Generations, Framed(k))
      /\ IsStream(stream, frames) /\ k \in Nat /\ ended \in BOOLEAN
  BY ChannelOfState, StateFacts
<1>2. IsFiniteSet(Waiting) /\ stream.chain = 0
  BY ClosedFacts
<1>3. Joiners \in Nat
  BY <1>2, FS_CardinalityType DEF Joiners
<1>4. stream.read \in 0 .. k
  BY <1>1, StreamFields
<1>5. PICK s1 : s1 = [stream EXCEPT !.phase = "open"]
  OBVIOUS
<1>6. PICK s2 : s2 = [s1 EXCEPT !.refs = Joiners]
  OBVIOUS
<1>7. PICK s3 : s3 = [s2 EXCEPT !.upto = stream.read]
  OBVIOUS
<1>8. PICK s : s = [s3 EXCEPT !.read = NotRead]
  OBVIOUS
<1>9. /\ s1 \in Streams(k) /\ s1.phase = "open" /\ s1.held = stream.held
      /\ s1.chain = stream.chain /\ s1.terminal = stream.terminal /\ s1.failed = stream.failed
      /\ s1.replayFrom = stream.replayFrom
  BY <1>1, <1>5 DEF Streams, Phases
<1>10. /\ s2 \in Streams(k) /\ s2.phase = s1.phase /\ s2.held = s1.held /\ s2.refs = Joiners
       /\ s2.chain = s1.chain /\ s2.terminal = s1.terminal /\ s2.replayFrom = s1.replayFrom
       /\ s2.failed = s1.failed
  BY <1>3, <1>6, <1>9 DEF Streams
<1>11. /\ s3 \in Streams(k) /\ s3.phase = s2.phase /\ s3.held = s2.held /\ s3.refs = s2.refs
       /\ s3.chain = s2.chain /\ s3.terminal = s2.terminal /\ s3.replayFrom = s2.replayFrom
       /\ s3.failed = s2.failed
       /\ s3.upto = stream.read
  BY <1>4, <1>7, <1>10 DEF Streams
<1>12. /\ s \in Streams(k) /\ s.phase = s3.phase /\ s.held = s3.held /\ s.refs = s3.refs
       /\ s.chain = s3.chain /\ s.terminal = s3.terminal /\ s.replayFrom = s3.replayFrom
       /\ s.failed = s3.failed
       /\ s.upto = s3.upto /\ s.read = NotRead
  BY <1>8, <1>11 DEF Streams
<1>13. /\ s \in Streams(k) /\ s.phase = "open" /\ s.held = stream.held /\ s.refs = Joiners
       /\ s.chain = 0 /\ s.terminal = stream.terminal /\ s.replayFrom = stream.replayFrom
       /\ s.failed = stream.failed
       /\ s.upto = stream.read /\ s.read = NotRead
  BY <1>2, <1>9, <1>10, <1>11, <1>12
<1>14. PICK a : a = [Channel EXCEPT !.stream.phase = "open", !.stream.refs = Joiners,
                                    !.stream.upto = stream.read, !.stream.read = NotRead]
  OBVIOUS
<1>18. d = a
  BY <1>14 DEF Registered
<1>15. a = [stream |-> s, frames |-> frames, out |-> <<>>]
  <2>1. Channel = [stream |-> stream, frames |-> frames, out |-> <<>>]
    BY DEF Channel
  <2>2. PICK d1 : d1 = [Channel EXCEPT !.stream = s1]
    OBVIOUS
  <2>3. d1 = [stream |-> s1, frames |-> frames, out |-> <<>>] /\ d1.stream = s1
    BY <2>1, <2>2, ChannelUpdates
  <2>4. PICK d2 : d2 = [d1 EXCEPT !.stream = s2]
    OBVIOUS
  <2>5. d2 = [stream |-> s2, frames |-> frames, out |-> <<>>] /\ d2.stream = s2
    BY <2>3, <2>4, ChannelUpdates
  <2>6. PICK d3 : d3 = [d2 EXCEPT !.stream = s3]
    OBVIOUS
  <2>7. d3 = [stream |-> s3, frames |-> frames, out |-> <<>>] /\ d3.stream = s3
    BY <2>5, <2>6, ChannelUpdates
  <2>8. PICK d4 : d4 = [d3 EXCEPT !.stream = s]
    OBVIOUS
  <2>9. d4 = [stream |-> s, frames |-> frames, out |-> <<>>]
    BY <2>7, <2>8, ChannelUpdates
  <2>10. d1 = [Channel EXCEPT !.stream.phase = "open"]
    BY <1>1, <1>5, <2>2
  <2>11. d2 = [d1 EXCEPT !.stream.refs = Joiners]
    BY <1>6, <2>3, <2>4
  <2>12. d3 = [d2 EXCEPT !.stream.upto = stream.read]
    BY <1>7, <2>5, <2>6
  <2>13. d4 = [d3 EXCEPT !.stream.read = NotRead]
    BY <1>8, <2>7, <2>8
  <2>14. a = d4
    BY <1>14, <2>10, <2>11, <2>12, <2>13
  <2> QED BY <2>9, <2>14
<1>16. a.stream = s /\ a.frames = frames /\ a.out = <<>> /\ Len(a.out) = 0
  BY <1>15
<1>17. a \in Channels(k)
  <2>1. IsStream(s, frames)
    BY <1>1, <1>13 DEF IsStream
  <2>2. <<>> \in Seq(NumberedOf(k))
    OBVIOUS
  <2> QED BY <1>1, <1>13, <1>15, <2>1, <2>2, ChannelMade
<1> QED BY <1>13, <1>16, <1>17, <1>18

(* The stream is registered: what was held back goes out.                    *)
LEMMA RegisteredSound ==
  ASSUME IInv, stream.phase = "subscribed", stream.read # NotRead
  PROVE  LET c == Drained([Channel EXCEPT !.stream.phase = "open", !.stream.refs = Joiners,
                                          !.stream.upto = stream.read,
                                          !.stream.read = NotRead])
         IN  /\ Whole(c, emitted, ended) /\ c.stream.refs = Joiners
             /\ c.frames.generation = frames.generation
<1> DEFINE k == emitted
<1>1. /\ stream \in Streams(k) /\ IsBuffer(frames, Generations, Framed(k))
      /\ k \in Nat /\ ended \in BOOLEAN
  BY StateFacts
<1>2. /\ stream.chain = 0 /\ frames = EmptyBuffer(frames.generation)
      /\ Awaiting(stream, k, ended)
  BY ClosedFacts DEF IInv, Lags
<1>4. stream.read \in 0 .. k
  BY <1>1, StreamFields
<1>14. PICK a : a = [Channel EXCEPT !.stream.phase = "open", !.stream.refs = Joiners,
                                    !.stream.upto = stream.read, !.stream.read = NotRead]
  OBVIOUS
<1>5. Registered(a)
  BY <1>14 DEF Registered
<1>8. PICK s : s = a.stream
  OBVIOUS
<1>13. /\ s.phase = "open" /\ s.held = stream.held /\ s.refs = Joiners
       /\ s.chain = 0 /\ s.terminal = stream.terminal /\ s.replayFrom = stream.replayFrom
       /\ s.upto = stream.read /\ s.read = NotRead
  BY <1>5, <1>8, RegisteredChannel
<1>16. a.stream = s /\ a.frames = frames /\ a.out = <<>> /\ Len(a.out) = 0
  BY <1>5, <1>8, RegisteredChannel
<1>17. a \in Channels(k)
  BY <1>5, RegisteredChannel
<1>18. Followed(frames, a)
  <2>1. /\ Followed(frames, Channel) /\ Channel.frames = frames /\ Channel.out = <<>>
    BY <1>1, ChannelOfState
  <2> QED BY <1>16, <2>1 DEF Followed
<1>19. \A n : HeldBack(s, n) <=> HeldBack(stream, n)
  BY <1>13 DEF HeldBack
<1>20. ended => s.terminal \/ EndHeld(s)
  <2>1. ended => stream.terminal \/ EndHeld(stream)
    BY <1>2 DEF Awaiting
  <2> QED BY <1>13, <2>1 DEF EndHeld
<1>21. SnapshotFollowed(s, frames, k)
  <2>1. SUFFICES ASSUME NEW n \in 1 .. k PROVE n <= stream.read \/ HeldBack(stream, n)
    BY <1>13, <1>19 DEF SnapshotFollowed
  <2>2. n <= stream.read \/ n \in stream.read + 1 .. k
    BY <1>1, <1>4
  <2> QED BY <1>2, <2>2 DEF Awaiting
<1>22. /\ \A n \in 1 .. k : n > k \/ HeldBack(s, n) => HeldBack(a.stream, n)
       /\ \A i \in 1 .. Len(a.out), n \in 1 .. k :
            Drops(a.out[i].frame, n) => HeldBack(a.stream, n) \/ ShownBy(a.out, i + 1, n)
       /\ \A i \in 1 .. Len(a.out) : Ends(a.out[i]) => a.stream.terminal
  <2>1. 1 .. Len(a.out) = {}
    BY <1>16
  <2>2. \A n \in 1 .. k : ~(n > k)
    BY <1>1
  <2> QED BY <1>16, <2>1, <2>2
<1>23. PICK d : d = Drained(a)
  OBVIOUS
<1>24. Sound(d, s, frames, k, k, ended)
  <2>1. /\ a.stream.phase = "open" /\ a.stream.chain = 0 /\ a.stream.read = NotRead
        /\ a.stream.refs = s.refs /\ (s.terminal => a.stream.terminal)
        /\ ended => a.stream.terminal \/ EndHeld(a.stream)
        /\ SnapshotFollowed(a.stream, a.frames, k)
    BY <1>13, <1>16, <1>20, <1>21
  <2> QED BY <1>1, <1>17, <1>18, <1>22, <1>23, <2>1, ReleasedSound
<1>25. RetainedFollowed(s, frames, k)
  <2>1. frames.entries = <<>>
    BY <1>2 DEF EmptyBuffer
  <2> QED BY <2>1 DEF RetainedFollowed, Retained
<1>26. RetainedFollowed(d.stream, d.frames, k)
  BY <1>1, <1>24, <1>25, RetainedOn
<1>27. /\ Whole(d, k, ended) /\ d.stream.refs = Joiners
       /\ d.frames.generation = frames.generation
  BY <1>13, <1>24, <1>26 DEF Sound, Whole, Followed
<1> QED BY <1>14, <1>23, <1>27

LEMMA RegisterStep == ASSUME IInv, Register PROVE IInv'
<1>1. /\ stream.phase = "subscribed" /\ stream.read # NotRead
      /\ viewer' = [v \in Viewers |-> IF v \in Waiting THEN [viewer[v] EXCEPT !.at = "joined"]
                                      ELSE viewer[v]]
      /\ UNCHANGED <<emitted, turns, ended, finalReadFailed, childFaults>>
  BY DEF Register
<1>2. PICK c : c = Drained([Channel EXCEPT !.stream.phase = "open", !.stream.refs = Joiners,
                                           !.stream.upto = stream.read,
                                           !.stream.read = NotRead])
  OBVIOUS
<1>3. stream' = c.stream /\ frames' = c.frames
  BY <1>2 DEF Register
<1>4. /\ Whole(c, emitted, ended) /\ c.stream.refs = Joiners
      /\ c.frames.generation = frames.generation
  BY <1>1, <1>2, RegisteredSound
<1>5. /\ c \in Channels(emitted) /\ Balanced(c.stream) /\ c.stream.phase = "open"
      /\ Awaiting(c.stream, emitted, ended)
      /\ SnapshotFollowed(c.stream, c.frames, emitted)
      /\ RetainedFollowed(c.stream, c.frames, emitted)
  BY <1>4 DEF Whole
<1>6. /\ emitted \in Nat /\ emitted \in 0 .. MaxEvents /\ ended \in BOOLEAN
      /\ finalReadFailed \in BOOLEAN /\ childFaults \in 0 .. MaxChildFaults
      /\ \A v \in Viewers : viewer[v] \in Panels(emitted)
      /\ frames.generation \in Generations
  BY StateFacts
<1>7. /\ IsFiniteSet(Waiting) /\ Waiting # {} /\ frames.generation <= MaxStreams
      /\ \A v \in Viewers : /\ viewer[v].at \notin {"joined", "refreshing", "ready", "open"}
                            /\ KnowsOpened(viewer[v], stream, frames)
  BY <1>1, ClosedFacts
<1>8. ASSUME NEW v \in Viewers
      PROVE  /\ viewer'[v] \in Panels(emitted)
             /\ viewer'[v].at = IF v \in Waiting THEN "joined" ELSE viewer[v].at
             /\ viewer'[v].generation = viewer[v].generation
             /\ viewer'[v].inbox = viewer[v].inbox
  <2>1. PICK p \in Panels(emitted) : p = viewer[v]
    BY <1>6
  <2>2. CASE v \in Waiting
    <3>1. PICK q : q = [p EXCEPT !.at = "joined"]
      OBVIOUS
    <3>2. q \in Panels(emitted) /\ q.at = "joined" /\ q.generation = p.generation
          /\ q.inbox = p.inbox
      BY <3>1 DEF Panels, Places
    <3>3. viewer'[v] = q
      BY <1>1, <2>1, <2>2, <3>1
    <3> QED BY <2>1, <2>2, <3>2, <3>3
  <2>3. CASE v \notin Waiting
    BY <1>1, <2>1, <2>3
  <2> QED BY <2>2, <2>3
<1>9. Types'
  <2>1. viewer' \in [Viewers -> Panels(emitted)]
    BY <1>1, <1>8
  <2>2. /\ c.stream \in Streams(emitted) /\ IsBuffer(c.frames, Generations, Framed(emitted))
        /\ IsStream(c.stream, c.frames)
    BY <1>5, <1>6, ChannelFields
  <2>3. /\ emitted' \in 0 .. MaxEvents /\ turns' \subseteq 1 .. emitted' /\ ended' \in BOOLEAN
        /\ finalReadFailed' \in BOOLEAN /\ childFaults' \in 0 .. MaxChildFaults
    BY <1>1, <1>6, StateFacts
  <2> QED BY <1>1, <1>3, <1>5, <2>1, <2>2, <2>3 DEF Types
<1>10. Held'
  <2>1. ASSUME NEW v \in Viewers
        PROVE  /\ viewer'[v].at \in {"joined", "refreshing", "ready", "open"} <=> v \in Waiting
               /\ viewer'[v].at # "waiting"
    BY <1>7, <1>8 DEF Waiting
  <2>2. Holders' = Waiting /\ Waiting' = {}
    <3>1. Waiting \subseteq Viewers
      BY DEF Waiting
    <3>2. Holders' = Waiting
      BY <2>1, <3>1 DEF Holders
    <3>3. Waiting' = {}
      BY <2>1 DEF Waiting
    <3> QED BY <3>2, <3>3
  <2> QED BY <1>3, <1>4, <1>5, <1>7, <2>2 DEF Held, Joiners
<1>11. ASSUME NEW v \in Viewers PROVE PanelSound(viewer'[v], c.stream, c.frames, emitted)
  <2>1. \A g \in Nat : Opened(g, stream, frames) =>
          Opened(g, c.stream, c.frames) /\ g # c.frames.generation
    <3>1. frames.generation \in Nat /\ MaxStreams \in Nat
      BY <1>6 DEF Generations
    <3> QED BY <1>1, <1>4, <1>7, <3>1 DEF Opened
  <2>2. PICK p \in Panels(emitted) : p = viewer[v]
    BY <1>6
  <2>3. PICK q \in Panels(emitted) : q = viewer'[v]
    BY <1>8
  <2>4. q.generation = p.generation /\ q.inbox = p.inbox /\ KnowsOpened(p, stream, frames)
    BY <1>7, <1>8, <2>2, <2>3
  <2>5. q.generation \in Nat /\ \A i \in DOMAIN q.inbox : q.inbox[i] \in Letters(emitted)
    BY DEF Panels
  <2>6. \A i \in DOMAIN q.inbox : IsHello(q.inbox[i]) => q.inbox[i].generation \in Nat
    <3>1. \A m \in Letters(emitted) : IsHello(m) => m.generation \in Nat
      BY DEF Letters, NumberedOf, IsHello, IsNumbered
    <3> QED BY <2>5, <3>1
  <2>7. /\ Opened(q.generation, c.stream, c.frames) /\ q.generation # c.frames.generation
        /\ \A i \in DOMAIN q.inbox : IsHello(q.inbox[i]) =>
             /\ Opened(q.inbox[i].generation, c.stream, c.frames)
             /\ q.inbox[i].generation # c.frames.generation
    BY <2>1, <2>4, <2>5, <2>6 DEF KnowsOpened
  <2>8. KnowsOpened(q, c.stream, c.frames) /\ ClosingIsLast(q, c.stream, c.frames)
        /\ CursorSound(q, c.stream, c.frames, emitted)
    BY <2>7 DEF KnowsOpened, ClosingIsLast, CursorSound, Resumes, Knows
  <2>9. q.at # "open"
    BY <1>7, <1>8, <2>3
  <2> QED BY <2>3, <2>8, <2>9 DEF PanelSound
<1>12. EndFollowed'
  <2>1. Following' = {}
    BY <1>7, <1>8 DEF Following
  <2> QED BY <2>1 DEF EndFollowed
<1>13. Lags'
  BY <1>1, <1>3, <1>5, <1>11, <1>12 DEF Lags
<1> QED BY <1>9, <1>10, <1>13 DEF IInv

------------------------------------------------------------------------------
(* The answer to a request                                                   *)

(* What is replayed after a cursor: the frames retained after it, in order.  *)
Replays(b, from, r) ==
  /\ DOMAIN r = 1 .. Len(r) /\ Len(r) \in Nat
  /\ \A i \in DOMAIN r : r[i] \in Retained(b) /\ r[i].seq > from
  /\ \A i \in DOMAIN r : \A j \in i + 1 .. Len(r) : j \in DOMAIN r /\ r[j].seq > r[i].seq
  /\ \A x \in Retained(b) : x.seq > from => \E i \in DOMAIN r : r[i] = x
  /\ \A i \in DOMAIN r : \A x \in Retained(b) :
       x.seq > r[i].seq => \E j \in i + 1 .. Len(r) : j \in DOMAIN r /\ r[j] = x

LEMMA ReplayedInOrder ==
  ASSUME NEW G, NEW E, NEW b, IsBuffer(b, G, E), NEW from \in Nat
  PROVE  Replays(b, from, Replayed(b, from)) /\ Replayed(b, from) \in Seq(EntriesOf(E))
<1> DEFINE L == Len(b.entries)
           lo == b.nextSeq - 1 - L
           since == {i \in DOMAIN b.entries : b.entries[i].seq > from}
<1>1. /\ b.entries \in Seq(EntriesOf(E)) /\ L \in Nat /\ b.nextSeq \in Nat /\ L < b.nextSeq
      /\ DOMAIN b.entries = 1 .. L
      /\ \A i \in 1 .. L : b.entries[i].seq = lo + i
  BY DEF IsBuffer, EntriesOf
<1>2. lo \in Nat
  BY <1>1
<1> HIDE DEF L, lo
<1>3. PICK cut \in 0 .. L : \A i \in 1 .. L : lo + i > from <=> i > cut
  <2>1. CASE from <= lo
    <3>1. 0 \in 0 .. L /\ \A i \in 1 .. L : lo + i > from <=> i > 0
      BY <1>1, <1>2, <2>1
    <3> QED BY <3>1
  <2>2. CASE from >= lo + L
    <3>1. L \in 0 .. L /\ \A i \in 1 .. L : lo + i > from <=> i > L
      BY <1>1, <1>2, <2>2
    <3> QED BY <3>1
  <2>3. CASE from > lo /\ from < lo + L
    <3>1. from - lo \in 0 .. L /\ \A i \in 1 .. L : lo + i > from <=> i > from - lo
      BY <1>1, <1>2, <2>3
    <3> QED BY <3>1
  <2> QED BY <1>1, <1>2, <2>1, <2>2, <2>3
<1>4. since = cut + 1 .. L
  <2>1. \A i \in 1 .. L : i \in cut + 1 .. L <=> i > cut
    BY <1>1, <1>3
  <2>2. \A i \in cut + 1 .. L : i \in 1 .. L
    BY <1>1, <1>3
  <2> QED BY <1>1, <1>3, <2>1, <2>2
<1>5. Cardinality(since) = L - cut
  <2>1. Cardinality(cut + 1 .. L) = IF cut + 1 > L THEN 0 ELSE L - (cut + 1) + 1
    <3>1. cut + 1 \in Int /\ L \in Int
      BY <1>1, <1>3
    <3> QED BY <3>1, FS_Interval
  <2>2. Cardinality(since) = Cardinality(cut + 1 .. L)
    BY <1>4
  <2>3. (IF cut + 1 > L THEN 0 ELSE L - (cut + 1) + 1) = L - cut
    <3>1. L \in Nat /\ cut \in 0 .. L
      BY <1>1, <1>3
    <3> QED BY <3>1
  <2> QED BY <2>1, <2>2, <2>3
<1>6. PICK r : r = SubSeq(b.entries, cut + 1, L)
  OBVIOUS
<1>7. Replayed(b, from) = r
  <2>1. L - Cardinality(since) + 1 = cut + 1
    BY <1>1, <1>3, <1>5
  <2> QED BY <1>6, <2>1 DEF Replayed, L
<1>8. /\ r \in Seq(EntriesOf(E))
      /\ Len(r) = L - cut /\ Len(r) \in Nat /\ DOMAIN r = 1 .. Len(r)
      /\ \A i \in 1 .. Len(r) : r[i] = b.entries[cut + i]
  <2>1. \A i \in cut + 1 .. L : b.entries[i] \in EntriesOf(E)
    BY <1>1, <1>3
  <2>2. /\ r \in Seq(EntriesOf(E))
        /\ Len(r) = IF cut + 1 <= L THEN L - (cut + 1) + 1 ELSE 0
        /\ \A i \in 1 .. L - (cut + 1) + 1 : r[i] = b.entries[(cut + 1) + i - 1]
    BY <1>1, <1>3, <1>6, <2>1, SubSeqProperties
  <2>3. Len(r) = L - cut
    BY <1>1, <1>3, <2>2
  <2>4. \A i \in 1 .. Len(r) : (cut + 1) + i - 1 = cut + i /\ i \in 1 .. L - (cut + 1) + 1
    BY <1>1, <1>3, <2>3
  <2>5. \A i \in 1 .. Len(r) : r[i] = b.entries[cut + i]
    BY <2>2, <2>4
  <2>6. Len(r) \in Nat /\ DOMAIN r = 1 .. Len(r)
    BY <2>2
  <2> QED BY <2>2, <2>3, <2>5, <2>6
<1>9. \A i \in 1 .. Len(r) : cut + i \in 1 .. L /\ cut + i > cut
  BY <1>1, <1>3, <1>8
<1>10. \A i \in 1 .. Len(r) : r[i].seq = lo + (cut + i) /\ r[i].seq > from /\ r[i] \in Retained(b)
  <2> TAKE i \in 1 .. Len(r)
  <2>1. cut + i \in 1 .. L /\ cut + i > cut
    BY <1>9
  <2>2. r[i] = b.entries[cut + i]
    BY <1>8
  <2>3. b.entries[cut + i].seq = lo + (cut + i) /\ lo + (cut + i) > from
    BY <1>1, <1>3, <2>1
  <2>4. b.entries[cut + i] \in Retained(b)
    BY <1>1, <2>1 DEF Retained
  <2> QED BY <2>2, <2>3, <2>4
<1>11. \A i \in 1 .. Len(r) : \A j \in i + 1 .. Len(r) : j \in 1 .. Len(r) /\ r[j].seq > r[i].seq
  <2> TAKE i \in 1 .. Len(r)
  <2> TAKE j \in i + 1 .. Len(r)
  <2>1. j \in 1 .. Len(r) /\ j > i
    BY <1>8
  <2>2. r[j].seq = lo + (cut + j) /\ r[i].seq = lo + (cut + i)
    BY <1>10, <2>1
  <2>3. lo \in Nat /\ cut \in Nat /\ i \in Nat /\ j \in Nat
    BY <1>2, <1>3
  <2> QED BY <2>1, <2>2, <2>3
<1>12. ASSUME NEW x \in Retained(b), x.seq > from
       PROVE  \E i \in 1 .. Len(r) : r[i] = x /\ x.seq = lo + (cut + i)
  <2>1. PICK h \in 1 .. L : x = b.entries[h]
    BY <1>1 DEF Retained
  <2>2. h > cut
    BY <1>1, <1>3, <1>12, <2>1
  <2>3. h - cut \in 1 .. Len(r) /\ cut + (h - cut) = h
    BY <1>1, <1>3, <1>8, <2>2
  <2> QED BY <1>1, <1>8, <2>1, <2>3
<1>13. ASSUME NEW i \in 1 .. Len(r), NEW x \in Retained(b), x.seq > r[i].seq
       PROVE  \E j \in i + 1 .. Len(r) : j \in 1 .. Len(r) /\ r[j] = x
  <2>1. r[i].seq = lo + (cut + i) /\ r[i].seq > from
    BY <1>10
  <2>2. lo \in Nat /\ cut \in Nat /\ i \in Nat /\ from \in Nat
    BY <1>2, <1>3
  <2>3. x.seq \in Nat
    BY RetainedWindow
  <2>4. x.seq > from
    BY <1>13, <2>1, <2>2, <2>3
  <2>5. PICK j \in 1 .. Len(r) : r[j] = x /\ x.seq = lo + (cut + j)
    BY <1>12, <2>4
  <2>6. j > i
    BY <1>13, <2>1, <2>2, <2>5
  <2>7. j \in i + 1 .. Len(r)
    BY <1>8, <2>6
  <2> QED BY <2>5, <2>7
<1>14. Replays(b, from, r)
  <2>1. \A x \in Retained(b) : x.seq > from => \E i \in 1 .. Len(r) : r[i] = x
    BY <1>12
  <2>2. DOMAIN r = 1 .. Len(r) /\ Len(r) \in Nat
    BY <1>8
  <2>3. \A i \in DOMAIN r : r[i] \in Retained(b) /\ r[i].seq > from
    BY <1>10, <2>2
  <2>4. \A i \in DOMAIN r : \A j \in i + 1 .. Len(r) : j \in DOMAIN r /\ r[j].seq > r[i].seq
    BY <1>11, <2>2
  <2>5. \A x \in Retained(b) : x.seq > from => \E i \in DOMAIN r : r[i] = x
    BY <2>1, <2>2
  <2>6. \A i \in DOMAIN r : \A x \in Retained(b) :
          x.seq > r[i].seq => \E j \in i + 1 .. Len(r) : j \in DOMAIN r /\ r[j] = x
    BY <1>13, <2>2
  <2> QED BY <2>2, <2>3, <2>4, <2>5, <2>6, Zenon DEF Replays
<1> QED BY <1>7, <1>8, <1>14

(* An inbox that was opened: `head` messages of the bootstrap, then what is  *)
(* replayed, numbered as in the buffer.                                      *)
Lines(r) == [i \in DOMAIN r |-> Numbered(r[i].seq, r[i].event)]

Opens(x, head, r) ==
  /\ DOMAIN x = 1 .. Len(x) /\ Len(x) \in Nat /\ head \in DOMAIN x /\ 1 \in DOMAIN x
  /\ \A i \in DOMAIN x :
       i \in 1 .. head \/ (i - head \in DOMAIN r /\ i = head + (i - head))
  /\ \A i \in DOMAIN r :
       /\ head + i \in DOMAIN x /\ x[head + i] = Numbered(r[i].seq, r[i].event)
       /\ \A h \in 1 .. head : head + i \in h + 1 .. Len(x)
       /\ \A j \in i + 1 .. Len(r) : j \in DOMAIN r /\ head + j \in (head + i) + 1 .. Len(x)
       /\ \A j \in (head + i) + 1 .. Len(x) :
            j - head \in i + 1 .. Len(r) /\ j - head \in DOMAIN r /\ j = head + (j - head)

LEMMA LinesTyped ==
  ASSUME NEW k \in Nat, NEW r \in Seq(EntriesOf(Framed(k)))
  PROVE  /\ Lines(r) \in Seq(Letters(k)) /\ Len(Lines(r)) = Len(r) /\ Len(r) \in Nat
         /\ DOMAIN r = 1 .. Len(r)
         /\ \A i \in 1 .. Len(r) : Lines(r)[i] = Numbered(r[i].seq, r[i].event)
<1>1. DOMAIN r = 1 .. Len(r) /\ Len(r) \in Nat
  OBVIOUS
<1>2. \A i \in 1 .. Len(r) : Numbered(r[i].seq, r[i].event) \in Letters(k)
  <2> TAKE i \in 1 .. Len(r)
  <2>1. r[i] \in EntriesOf(Framed(k))
    OBVIOUS
  <2> QED BY <2>1 DEF EntriesOf, Letters, NumberedOf, Numbered
<1>3. Lines(r) \in [1 .. Len(r) -> Letters(k)]
  BY <1>1, <1>2 DEF Lines
<1>4. Lines(r) \in Seq(Letters(k)) /\ Len(Lines(r)) = Len(r)
  BY <1>1, <1>3
<1> QED BY <1>1, <1>4 DEF Lines

LEMMA OpensMade ==
  ASSUME NEW k \in Nat, NEW r \in Seq(EntriesOf(Framed(k))),
         NEW w \in Seq(Letters(k)), w # <<>>, NEW x, x = w \o Lines(r)
  PROVE  /\ x \in Seq(Letters(k)) /\ Opens(x, Len(w), r)
         /\ \A i \in 1 .. Len(w) : x[i] = w[i]
<1>1. /\ Lines(r) \in Seq(Letters(k)) /\ Len(Lines(r)) = Len(r) /\ Len(r) \in Nat
      /\ DOMAIN r = 1 .. Len(r)
      /\ \A i \in 1 .. Len(r) : Lines(r)[i] = Numbered(r[i].seq, r[i].event)
  BY LinesTyped
<1>2. Len(w) \in Nat /\ Len(w) >= 1
  BY EmptySeq, LenProperties
<1>3. PICK l \in Seq(Letters(k)) : l = Lines(r)
  BY <1>1
<1>4. /\ x \in Seq(Letters(k)) /\ Len(x) = Len(w) + Len(r)
      /\ \A i \in 1 .. Len(x) : x[i] = IF i <= Len(w) THEN w[i] ELSE l[i - Len(w)]
  <2>1. x = w \o l /\ Len(l) = Len(r)
    BY <1>1, <1>3
  <2>2. w \o l \in Seq(Letters(k)) /\ Len(w \o l) = Len(w) + Len(l)
    BY ConcatProperties
  <2>3. \A i \in 1 .. Len(w) + Len(l) :
          (w \o l)[i] = IF i <= Len(w) THEN w[i] ELSE l[i - Len(w)]
    BY ConcatProperties
  <2>4. x \in Seq(Letters(k)) /\ Len(x) = Len(w) + Len(r)
    BY <2>1, <2>2
  <2>5. \A i \in 1 .. Len(x) : x[i] = IF i <= Len(w) THEN w[i] ELSE l[i - Len(w)]
    <3>1. Len(x) = Len(w) + Len(l)
      BY <2>1, <2>4
    <3> HIDE DEF Lines
    <3> QED BY <2>1, <2>3, <3>1
  <2> QED BY <2>4, <2>5
<1>5. DOMAIN x = 1 .. Len(x)
  BY <1>4
<1> DEFINE h == Len(w)
           m == Len(r)
           z == Len(x)
<1>6. h \in Nat /\ h >= 1 /\ m \in Nat /\ z = h + m
  BY <1>1, <1>2, <1>4
<1>7. \A i \in 1 .. m : h + i \in 1 .. z /\ x[h + i] = Numbered(r[i].seq, r[i].event)
  <2> TAKE i \in 1 .. m
  <2>1. h + i \in 1 .. z /\ ~(h + i <= h) /\ (h + i) - h = i
    <3> HIDE DEF h, m, z
    <3> QED BY <1>6
  <2>2. x[h + i] = l[i]
    BY <1>4, <2>1
  <2> QED BY <1>1, <1>3, <2>1, <2>2
<1>8. \A i \in 1 .. h : x[i] = w[i]
  <2> TAKE i \in 1 .. h
  <2>1. i \in 1 .. z /\ i <= h
    <3> HIDE DEF h, m, z
    <3> QED BY <1>6
  <2> QED BY <1>4, <2>1
<1>9. /\ h \in 1 .. z /\ 1 \in 1 .. z /\ z \in Nat
      /\ \A i \in 1 .. z : i \in 1 .. h \/ (i - h \in 1 .. m /\ i = h + (i - h))
      /\ \A i \in 1 .. m :
           /\ \A g \in 1 .. h : h + i \in g + 1 .. z
           /\ \A j \in i + 1 .. m : j \in 1 .. m /\ h + j \in (h + i) + 1 .. z
           /\ \A j \in (h + i) + 1 .. z :
                j - h \in i + 1 .. m /\ j - h \in 1 .. m /\ j = h + (j - h)
  <2> HIDE DEF h, m, z
  <2> QED BY <1>6
<1>10. Opens(x, h, r)
  <2> HIDE DEF h
  <2> QED BY <1>1, <1>5, <1>7, <1>9 DEF Opens, h
<1> QED BY <1>4, <1>8, <1>10

LEMMA NumberedPart ==
  ASSUME NEW k \in Nat, NEW b, IsBuffer(b, Generations, Framed(k)), NEW from \in Nat,
         NEW r, Replays(b, from, r), NEW x, NEW head \in Nat, Opens(x, head, r)
  PROVE  /\ \A i \in DOMAIN x : i \in 1 .. head \/ (IsNumbered(x[i]) /\ NumberedInOrder(x, i, b))
         /\ \A n : After(b, from, n) =>
              \E i \in DOMAIN r : head + i \in DOMAIN x /\ Shows(Body(x[head + i]), n)
         /\ \A s : RetainedFollowed(s, b, k) => \A i \in DOMAIN x, n \in 1 .. k :
              ~HeldBack(s, n) /\ ~(i \in 1 .. head) /\ Drops(Body(x[i]), n) =>
                \E j \in i + 1 .. Len(x) : Shows(Body(x[j]), n)
<1>1. \A i \in DOMAIN r : r[i] \in Retained(b) /\ r[i].seq \in Nat
  BY RetainedWindow DEF Replays
<1>2. \A i \in DOMAIN r :
        /\ IsNumbered(x[head + i]) /\ x[head + i].id = r[i].seq
        /\ Body(x[head + i]) = r[i].event
        /\ Entry(x[head + i]) = r[i]
  <2> TAKE i \in DOMAIN r
  <2>1. x[head + i] = [id |-> r[i].seq, frame |-> r[i].event]
    BY DEF Opens, Numbered
  <2>2. r[i] = [seq |-> r[i].seq, event |-> r[i].event]
    <3>1. r[i] \in EntriesOf(Framed(k))
      <4>1. b.entries \in Seq(EntriesOf(Framed(k)))
        BY DEF IsBuffer, EntriesOf
      <4> QED BY <1>1, <4>1 DEF Retained
    <3> QED BY <3>1 DEF EntriesOf
  <2>3. IsNumbered(x[head + i])
    BY <2>1 DEF IsNumbered
  <2> QED BY <2>1, <2>2, <2>3 DEF Body, Entry
<1>3. ASSUME NEW i \in DOMAIN r
      PROVE  NumberedInOrder(x, head + i, b)
  <2>1. x[head + i].id < b.nextSeq /\ Entry(x[head + i]) \in Retained(b)
    BY <1>1, <1>2, RetainedWindow
  <2>2. ASSUME NEW j \in (head + i) + 1 .. Len(x)
        PROVE  IsNumbered(x[j]) /\ x[j].id > x[head + i].id
    <3>1. PICK g : g = j - head
      OBVIOUS
    <3>2. g \in i + 1 .. Len(r) /\ g \in DOMAIN r /\ j = head + g
      BY <3>1 DEF Opens
    <3>3. r[g].seq > r[i].seq
      BY <3>2 DEF Replays
    <3> QED BY <1>2, <3>2, <3>3
  <2> QED BY <2>1, <2>2 DEF NumberedInOrder
<1>4. ASSUME NEW i \in DOMAIN x
      PROVE  i \in 1 .. head \/ (IsNumbered(x[i]) /\ NumberedInOrder(x, i, b))
  <2>1. CASE i \in 1 .. head
    BY <2>1
  <2>2. CASE ~(i \in 1 .. head)
    <3>1. PICK g \in DOMAIN r : i = head + g
      BY <2>2 DEF Opens
    <3> QED BY <1>2, <1>3, <3>1
  <2> QED BY <2>1, <2>2
<1>5. ASSUME NEW n, After(b, from, n)
      PROVE  \E i \in DOMAIN r : head + i \in DOMAIN x /\ Shows(Body(x[head + i]), n)
  <2>1. PICK y \in Retained(b) : y.seq > from /\ Shows(y.event, n)
    BY <1>5 DEF After
  <2>2. PICK i \in DOMAIN r : r[i] = y
    BY <2>1 DEF Replays
  <2>3. head + i \in DOMAIN x
    BY DEF Opens
  <2> QED BY <1>2, <2>1, <2>2, <2>3
<1>6. ASSUME NEW s, RetainedFollowed(s, b, k), NEW i \in DOMAIN x, NEW n \in 1 .. k,
             ~HeldBack(s, n), ~(i \in 1 .. head), Drops(Body(x[i]), n)
      PROVE  \E j \in i + 1 .. Len(x) : Shows(Body(x[j]), n)
  <2>1. PICK g \in DOMAIN r : i = head + g
    BY <1>6 DEF Opens
  <2>2. r[g] \in Retained(b) /\ Drops(r[g].event, n)
    BY <1>1, <1>2, <1>6, <2>1
  <2>3. After(b, r[g].seq, n)
    BY <1>6, <2>2 DEF RetainedFollowed
  <2>4. PICK y \in Retained(b) : y.seq > r[g].seq /\ Shows(y.event, n)
    BY <2>3 DEF After
  <2>5. PICK j \in g + 1 .. Len(r) : j \in DOMAIN r /\ r[j] = y
    BY <2>4 DEF Replays
  <2>6. head + j \in i + 1 .. Len(x)
    BY <2>1, <2>5 DEF Opens
  <2> QED BY <1>2, <2>4, <2>5, <2>6
<1> QED BY <1>4, <1>5, <1>6

(* The messages of a bootstrap.                                              *)
LEMMA BootstrapLetters ==
  ASSUME NEW k \in Nat, NEW g \in Nat, NEW reset \in BOOLEAN, NEW upto \in 0 .. k,
         NEW over \in BOOLEAN
  PROVE  /\ Hello(g, reset) \in Letters(k) /\ IsHello(Hello(g, reset))
         /\ ~IsNumbered(Hello(g, reset)) /\ Body(Hello(g, reset)) = Hello(g, reset)
         /\ Hello(g, reset).type = "connected" /\ Hello(g, reset).generation = g
         /\ Hello(g, reset).reset = reset
         /\ ChildSnapshot(upto, over) \in Letters(k) /\ ~IsHello(ChildSnapshot(upto, over))
         /\ ~IsNumbered(ChildSnapshot(upto, over))
         /\ Body(ChildSnapshot(upto, over)) = ChildSnapshot(upto, over)
         /\ ChildSnapshot(upto, over).type = "session_snapshot"
         /\ ChildSnapshot(upto, over).upto = upto
         /\ ResyncRequired \in Letters(k) /\ ~IsHello(ResyncRequired)
         /\ ~IsNumbered(ResyncRequired) /\ ResyncRequired.type = "resync"
<1>1. "frame" \notin DOMAIN Hello(g, reset)
  BY DEF Hello
<1>2. "frame" \notin DOMAIN ChildSnapshot(upto, over)
  BY DEF ChildSnapshot
<1>3. "frame" \notin DOMAIN ResyncRequired
  BY DEF ResyncRequired
<1>4. Hello(g, reset) \in Letters(k)
  BY DEF Hello, Letters
<1>5. ChildSnapshot(upto, over) \in Letters(k)
  BY DEF ChildSnapshot, Letters
<1>6. ResyncRequired \in Letters(k)
  BY DEF ResyncRequired, Letters
<1>7. /\ Hello(g, reset).type = "connected" /\ Hello(g, reset).generation = g
      /\ Hello(g, reset).reset = reset
  BY DEF Hello
<1>8. /\ ChildSnapshot(upto, over).type = "session_snapshot"
      /\ ChildSnapshot(upto, over).upto = upto
  BY DEF ChildSnapshot
<1>9. ResyncRequired.type = "resync"
  BY DEF ResyncRequired
<1> QED BY <1>1, <1>2, <1>3, <1>4, <1>5, <1>6, <1>7, <1>8, <1>9 DEF IsHello, IsNumbered, Body

(* A panel whose connection is opened, with its stream open and going on.    *)
Admitted(p, q, b) ==
  /\ q.generation = p.generation /\ q.lastEventId = p.lastEventId /\ q.have = p.have /\ q.base = p.base
  /\ 1 \in DOMAIN q.inbox /\ IsHello(q.inbox[1]) /\ ~IsNumbered(q.inbox[1])
  /\ q.inbox[1].generation = b.generation
  /\ \A i \in DOMAIN q.inbox : i # 1 => ~IsHello(q.inbox[i])

LEMMA AdmittedKnows ==
  ASSUME NEW k \in Nat, NEW b, NEW s, s.phase = "open",
         NEW p, PanelSound(p, s, b, k), p.at \in {"listed", "joined", "ready"},
         NEW q, q.at \in {"open", "closing"}, q.at = "closing" => s.terminal, Admitted(p, q, b)
  PROVE  KnowsOpened(q, s, b) /\ ClosingIsLast(q, s, b) /\ CursorSound(q, s, b, k)
<1>1. Opened(b.generation, s, b)
  BY DEF Opened
<1>2. KnowsOpened(q, s, b)
  BY <1>1 DEF PanelSound, KnowsOpened, Admitted
<1>3. ClosingIsLast(q, s, b)
  BY DEF ClosingIsLast
<1>4. CursorSound(q, s, b, k)
  BY DEF PanelSound, CursorSound, Resumes, Knows, Admitted, Screen
<1> QED BY <1>2, <1>3, <1>4

(* It resumes: its own screen, and the frames after its cursor.              *)
LEMMA ResumedPanel ==
  ASSUME NEW k \in Nat, NEW b, IsBuffer(b, Generations, Framed(k)),
         NEW s, s.phase = "open", ~s.terminal, RetainedFollowed(s, b, k),
         NEW p \in Panels(k), PanelSound(p, s, b, k), p.at \in {"listed", "joined", "ready"},
         p.generation = b.generation, p.lastEventId > 0, p.lastEventId + 1 >= Lowest(b),
         NEW r, Replays(b, p.lastEventId, r),
         NEW q, q.at = "open", Admitted(p, q, b), Opens(q.inbox, 1, r)
  PROVE  PanelSound(q, s, b, k)
<1>1. p.lastEventId \in Nat
  BY DEF Panels
<1>2. PICK x : x = q.inbox
  OBVIOUS
<1>3. /\ \A i \in DOMAIN x : i \in 1 .. 1 \/ (IsNumbered(x[i]) /\ NumberedInOrder(x, i, b))
      /\ \A n : After(b, p.lastEventId, n) =>
           \E i \in DOMAIN r : 1 + i \in DOMAIN x /\ Shows(Body(x[1 + i]), n)
      /\ \A i \in DOMAIN x, n \in 1 .. k :
           ~HeldBack(s, n) /\ ~(i \in 1 .. 1) /\ Drops(Body(x[i]), n) =>
             \E j \in i + 1 .. Len(x) : Shows(Body(x[j]), n)
  BY <1>1, <1>2, NumberedPart, SMTT(30)
<1>4. \A i : i \in 1 .. 1 <=> i = 1
  OBVIOUS
<1>5. /\ ~IsNumbered(x[1]) /\ x[1].type = "connected" /\ Body(x[1]) = x[1]
  BY <1>2 DEF Admitted, IsHello, Body
<1>6. InboxInOrder(q, b)
  <2> SUFFICES ASSUME NEW i \in DOMAIN x
               PROVE  /\ IsNumbered(x[i]) => NumberedInOrder(x, i, b)
                      /\ IsHello(x[i]) => i = 1
                      /\ ~(~IsNumbered(x[i]) /\ x[i].type = "session_snapshot")
    BY <1>2 DEF InboxInOrder
  <2> QED BY <1>3, <1>4, <1>5 DEF IsHello
<1>7. Complete(q, s, k)
  <2> SUFFICES ASSUME NEW n \in 1 .. k, ~HeldBack(s, n)
               PROVE  /\ n \in Screen(p) \/ (\E i \in DOMAIN x : Shows(Body(x[i]), n))
                      /\ \A i \in DOMAIN x : Drops(Body(x[i]), n) =>
                           \E j \in i + 1 .. Len(x) : Shows(Body(x[j]), n)
    BY <1>2 DEF Complete, Admitted, Screen
  <2>1. n \in Screen(p) \/ After(b, p.lastEventId, n)
    BY DEF PanelSound, CursorSound, Resumes, Knows
  <2>2. \A i \in DOMAIN x : Drops(Body(x[i]), n) => ~(i \in 1 .. 1)
    BY <1>4, <1>5 DEF Drops
  <2> QED BY <1>3, <2>1, <2>2
<1> QED BY <1>6, <1>7, AdmittedKnows DEF PanelSound

(* It starts over: the stream's snapshot, and the frames since it was made.  *)
LEMMA RestartedPanel ==
  ASSUME NEW k \in Nat, NEW b, IsBuffer(b, Generations, Framed(k)),
         NEW s \in Streams(k), s.phase = "open", ~s.terminal,
         SnapshotFollowed(s, b, k), RetainedFollowed(s, b, k), s.replayFrom + 1 >= Lowest(b),
         NEW p, PanelSound(p, s, b, k), p.at \in {"listed", "joined", "ready"},
         NEW r, Replays(b, s.replayFrom, r),
         NEW q, q.at = "open", Admitted(p, q, b), Opens(q.inbox, 2, r), ForgetsCursor(q),
         q.inbox[2] = ChildSnapshot(s.upto, s.terminal)
  PROVE  PanelSound(q, s, b, k)
<1>1. s.replayFrom \in Nat /\ s.upto \in 0 .. k /\ s.terminal \in BOOLEAN
  BY StreamFields
<1>2. PICK x : x = q.inbox
  OBVIOUS
<1>3. /\ \A i \in DOMAIN x : i \in 1 .. 2 \/ (IsNumbered(x[i]) /\ NumberedInOrder(x, i, b))
      /\ \A n : After(b, s.replayFrom, n) =>
           \E i \in DOMAIN r : 2 + i \in DOMAIN x /\ Shows(Body(x[2 + i]), n)
      /\ \A i \in DOMAIN x, n \in 1 .. k :
           ~HeldBack(s, n) /\ ~(i \in 1 .. 2) /\ Drops(Body(x[i]), n) =>
             \E j \in i + 1 .. Len(x) : Shows(Body(x[j]), n)
  <2>1. 2 \in Nat /\ s.replayFrom \in Nat /\ Opens(x, 2, r)
    BY <1>1, <1>2
  <2>2. PICK head \in Nat : head = 2 /\ Opens(x, head, r)
    BY <2>1
  <2>3. /\ \A i \in DOMAIN x :
             i \in 1 .. head \/ (IsNumbered(x[i]) /\ NumberedInOrder(x, i, b))
        /\ \A n : After(b, s.replayFrom, n) =>
             \E i \in DOMAIN r : head + i \in DOMAIN x /\ Shows(Body(x[head + i]), n)
        /\ \A i \in DOMAIN x, n \in 1 .. k :
             ~HeldBack(s, n) /\ ~(i \in 1 .. head) /\ Drops(Body(x[i]), n) =>
               \E j \in i + 1 .. Len(x) : Shows(Body(x[j]), n)
    BY <2>1, <2>2, NumberedPart
  <2> QED BY <2>2, <2>3
<1>4. \A i : i \in 1 .. 2 <=> i = 1 \/ i = 2
  OBVIOUS
<1>5. /\ ~IsNumbered(x[1]) /\ x[1].type = "connected" /\ Body(x[1]) = x[1]
  BY <1>2 DEF Admitted, IsHello, Body
<1>6. /\ ~IsNumbered(x[2]) /\ ~IsHello(x[2]) /\ Body(x[2]) = x[2]
      /\ x[2].type = "session_snapshot" /\ x[2].upto = s.upto
  <2>1. 0 \in Nat /\ TRUE \in BOOLEAN
    OBVIOUS
  <2> QED BY <1>1, <1>2, <2>1, BootstrapLetters
<1>7. InboxInOrder(q, b)
  <2> SUFFICES ASSUME NEW i \in DOMAIN x
               PROVE  /\ IsNumbered(x[i]) => NumberedInOrder(x, i, b)
                      /\ IsHello(x[i]) => i = 1
                      /\ ~IsNumbered(x[i]) /\ x[i].type = "session_snapshot" =>
                           ForgetsCursor(q)
    BY <1>2 DEF InboxInOrder
  <2> QED BY <1>3, <1>4, <1>5, <1>6 DEF IsHello
<1>8. 2 \in DOMAIN x
  BY <1>2 DEF Opens
<1>9. Complete(q, s, k)
  <2> SUFFICES ASSUME NEW n \in 1 .. k, ~HeldBack(s, n)
               PROVE  /\ \E i \in DOMAIN x : Shows(Body(x[i]), n)
                      /\ \A i \in DOMAIN x : Drops(Body(x[i]), n) =>
                           \E j \in i + 1 .. Len(x) : Shows(Body(x[j]), n)
    BY <1>2 DEF Complete
  <2>1. n <= s.upto \/ After(b, s.replayFrom, n)
    BY DEF SnapshotFollowed
  <2>2. n <= s.upto => Shows(Body(x[2]), n)
    BY <1>6 DEF Shows
  <2>3. \E i \in DOMAIN x : Shows(Body(x[i]), n)
    BY <1>3, <1>8, <2>1, <2>2
  <2>4. ASSUME NEW i \in DOMAIN x, Drops(Body(x[i]), n)
        PROVE  \E j \in i + 1 .. Len(x) : Shows(Body(x[j]), n)
    <3>1. i # 1
      BY <1>5, <2>4 DEF Drops
    <3>2. CASE i = 2
      <4>1. ~(n <= s.upto)
        BY <1>1, <1>6, <2>4, <3>2 DEF Drops
      <4>2. PICK j \in DOMAIN r : 2 + j \in DOMAIN x /\ Shows(Body(x[2 + j]), n)
        BY <1>3, <2>1, <4>1
      <4>3. 2 + j \in 2 + 1 .. Len(x)
        <5>1. 2 \in 1 .. 2
          OBVIOUS
        <5> QED BY <1>2, <4>2, <5>1 DEF Opens
      <4> QED BY <3>2, <4>2, <4>3
    <3>3. CASE i # 2
      BY <1>3, <1>4, <2>4, <3>1, <3>3
    <3> QED BY <3>2, <3>3
  <2> QED BY <2>3, <2>4
<1> QED BY <1>7, <1>9, AdmittedKnows DEF PanelSound

(* Sequences of two and three, put together.                                 *)
LEMMA Pairs ==
  ASSUME NEW S, NEW a \in S, NEW b \in S, NEW c \in S
  PROVE  /\ <<a>> \o <<b>> = <<a, b>> /\ <<a>> \o <<>> = <<a>> /\ <<a, b>> \o <<>> = <<a, b>>
         /\ <<a, b>> \o <<c>> = <<a, b, c>>
<1>1. /\ <<a>> \in Seq(S) /\ <<b>> \in Seq(S) /\ <<c>> \in Seq(S) /\ <<a, b>> \in Seq(S)
      /\ <<a, b, c>> \in Seq(S)
  OBVIOUS
<1>2. <<a>> \o <<>> = <<a>> /\ <<a, b>> \o <<>> = <<a, b>>
  BY <1>1, ConcatEmptySeq
<1>3. <<a>> \o <<b>> = Append(<<a>>, b) /\ <<a, b>> \o <<c>> = Append(<<a, b>>, c)
  BY <1>1, AppendIsConcat
<1>4. Append(<<a>>, b) = <<a, b>>
  <2>1. /\ Append(<<a>>, b) \in Seq(S) /\ Len(Append(<<a>>, b)) = 2
        /\ Append(<<a>>, b)[1] = a /\ Append(<<a>>, b)[2] = b
    BY <1>1, AppendProperties
  <2>2. \A i \in 1 .. 2 : i = 1 \/ i = 2
    OBVIOUS
  <2>3. \A i \in 1 .. 2 : Append(<<a>>, b)[i] = <<a, b>>[i]
    BY <2>1, <2>2
  <2>4. Len(<<a, b>>) = 2
    OBVIOUS
  <2> QED BY <1>1, <2>1, <2>3, <2>4, SeqEqual
<1>5. Append(<<a, b>>, c) = <<a, b, c>>
  <2>1. /\ Append(<<a, b>>, c) \in Seq(S) /\ Len(Append(<<a, b>>, c)) = 3
        /\ Append(<<a, b>>, c)[1] = a /\ Append(<<a, b>>, c)[2] = b
        /\ Append(<<a, b>>, c)[3] = c
    <3>1. Len(<<a, b>>) = 2
      OBVIOUS
    <3> QED BY <1>1, <3>1, AppendProperties
  <2>2. \A i \in 1 .. 3 : i = 1 \/ i = 2 \/ i = 3
    OBVIOUS
  <2>3. \A i \in 1 .. 3 : Append(<<a, b>>, c)[i] = <<a, b, c>>[i]
    BY <2>1, <2>2
  <2>4. Len(<<a, b, c>>) = 3
    OBVIOUS
  <2> QED BY <1>1, <2>1, <2>3, <2>4, SeqEqual
<1> QED BY <1>2, <1>3, <1>4, <1>5

(* The frames after the stream's snapshot are evicted: the panel is told to  *)
(* load the transcript again.                                                *)
LEMMA ResyncedPanel ==
  ASSUME NEW k \in Nat, NEW b, NEW s \in Streams(k), s.phase = "open",
         NEW p, PanelSound(p, s, b, k), p.at \in {"listed", "joined", "ready"},
         NEW q, q.at = "open", Admitted(p, q, b), ForgetsCursor(q),
         DOMAIN q.inbox = 1 .. 3, q.inbox[3] = ResyncRequired,
         q.inbox[2] = ChildSnapshot(s.upto, s.terminal)
  PROVE  PanelSound(q, s, b, k)
<1>1. s.upto \in 0 .. k /\ s.terminal \in BOOLEAN
  BY StreamFields
<1>2. PICK x : x = q.inbox
  OBVIOUS
<1>3. /\ ~IsNumbered(x[2]) /\ ~IsHello(x[2])
      /\ ~IsNumbered(x[3]) /\ ~IsHello(x[3]) /\ x[3].type = "resync"
  <2>1. 0 \in Nat /\ TRUE \in BOOLEAN
    OBVIOUS
  <2> QED BY <1>1, <1>2, <2>1, BootstrapLetters
<1>4. \A i \in DOMAIN x : i = 1 \/ i = 2 \/ i = 3
  BY <1>2
<1>5. InboxInOrder(q, b)
  <2> SUFFICES ASSUME NEW i \in DOMAIN x
               PROVE  ~IsNumbered(x[i]) /\ (IsHello(x[i]) => i = 1)
    BY <1>2 DEF InboxInOrder
  <2> QED BY <1>2, <1>3, <1>4 DEF Admitted
<1>6. Resyncs(q)
  <2>1. 3 \in DOMAIN x
    BY <1>2
  <2> QED BY <1>2, <1>3, <2>1 DEF Resyncs
<1> QED BY <1>5, <1>6, AdmittedKnows DEF PanelSound

LEMMA BootstrapOpens ==
  ASSUME IInv, stream.phase = "open", NEW v \in Viewers,
         viewer[v].at \in {"listed", "joined", "ready"},
         NEW r \in BOOLEAN, r => Resumable(v), Bootstrap(v, r)
  PROVE  \E q \in Panels(emitted) :
           /\ viewer' = [viewer EXCEPT ![v] = q]
           /\ q.at = IF stream.terminal THEN "closing" ELSE "open"
           /\ PanelSound(q, stream, frames, emitted)
<1>1. /\ emitted \in Nat /\ stream \in Streams(emitted)
      /\ IsBuffer(frames, Generations, Framed(emitted)) /\ IsStream(stream, frames)
      /\ frames.generation \in Nat
      /\ viewer \in [Viewers -> Panels(emitted)]
      /\ viewer[v] \in Panels(emitted)
      /\ PanelSound(viewer[v], stream, frames, emitted)
  BY StateFacts DEF Generations
<1>2. /\ SnapshotFollowed(stream, frames, emitted)
      /\ RetainedFollowed(stream, frames, emitted)
  BY DEF IInv, Lags
<1>3. stream.upto \in 0 .. emitted /\ stream.terminal \in BOOLEAN /\ stream.replayFrom \in Nat
  BY <1>1, StreamFields
<1>4. PICK p \in Panels(emitted) : p = viewer[v]
  BY <1>1
<1>5. p.lastEventId \in Nat /\ p.generation \in Nat
  BY DEF Panels
<1>6. PICK reset \in BOOLEAN : reset = (Requested(v) /\ ~r)
  OBVIOUS
<1>7. reset \/ r \/ p.lastEventId = 0
  <2>1. ~reset => ~(Requested(v) /\ ~r)
    BY <1>6
  <2>2. ~Requested(v) => p.lastEventId = 0
    BY <1>4, <1>5 DEF Requested
  <2> QED BY <2>1, <2>2
<1>8. r => /\ p.generation = frames.generation /\ p.lastEventId > 0
           /\ p.lastEventId + 1 >= Lowest(frames)
  <2>1. ~Overflowed(frames, p.lastEventId) => p.lastEventId + 1 >= Lowest(frames)
    <3>1. Lowest(frames) \in Nat
      BY <1>1, RetainedWindow
    <3> QED BY <1>1, <1>5, <3>1, OverflowedWhen
  <2> QED BY <1>4, <2>1 DEF Resumable
<1>9. PICK h : h = Hello(frames.generation, reset)
  OBVIOUS
<1>10. PICK t : t = ChildSnapshot(stream.upto, stream.terminal)
  OBVIOUS
<1>11. /\ h \in Letters(emitted) /\ IsHello(h) /\ ~IsNumbered(h) /\ h.generation = frames.generation
       /\ h.reset = reset
       /\ t \in Letters(emitted) /\ ~IsHello(t)
       /\ ResyncRequired \in Letters(emitted) /\ ~IsHello(ResyncRequired)
  BY <1>1, <1>3, <1>9, <1>10, BootstrapLetters
<1>12. PICK snapshot : snapshot = IF r /\ ~stream.terminal THEN <<>> ELSE <<t>>
  OBVIOUS
<1>13. PICK from : from = ReplayFrom(v, r)
  OBVIOUS
<1>14. PICK since : since = Replayed(frames, from)
  OBVIOUS
<1>15. PICK flushed : flushed = IF stream.terminal THEN <<>>
                                ELSE IF Overflowed(frames, from) THEN <<ResyncRequired>>
                                ELSE Lines(since)
  OBVIOUS
<1>16. PICK x : x = <<h>> \o snapshot \o flushed
  OBVIOUS
<1>17. PICK at : at = IF stream.terminal THEN "closing" ELSE "open"
  OBVIOUS
<1>18. viewer' = [viewer EXCEPT ![v].at = at, ![v].inbox = x]
  <2>1. <<Hello(frames.generation, Requested(v) /\ ~r)>> = <<h>>
    BY <1>6, <1>9
  <2>2. snapshot = IF r /\ ~stream.terminal THEN <<>>
                   ELSE <<ChildSnapshot(stream.upto, stream.terminal)>>
    BY <1>10, <1>12
  <2> QED BY <1>13, <1>14, <1>15, <1>16, <1>17, <2>1, <2>2 DEF Bootstrap, Lines
<1>19. PICK q : q = [p EXCEPT !.at = at, !.inbox = x]
  OBVIOUS
<1>20. viewer' = [viewer EXCEPT ![v] = q]
  BY <1>1, <1>4, <1>18, <1>19
<1>21. SUFFICES ASSUME x \in Seq(Letters(emitted)) => q \in Panels(emitted) /\ q.inbox = x
                PROVE  q \in Panels(emitted) /\ PanelSound(q, stream, frames, emitted)
  <2>1. at \in Places
    BY <1>17 DEF Places
  <2>2. x \in Seq(Letters(emitted)) => q \in Panels(emitted) /\ q.inbox = x
    BY <1>19, <2>1 DEF Panels
  <2>3. q.at = at
    BY <1>19 DEF Panels
  <2> QED BY <1>17, <1>20, <2>2, <2>3
<1>22. /\ q.at = at /\ q.generation = p.generation /\ q.lastEventId = p.lastEventId
       /\ q.have = p.have /\ q.base = p.base
  BY <1>19 DEF Panels
<1>23. ASSUME x \in Seq(Letters(emitted)), 1 \in DOMAIN x, x[1] = h,
              \A i \in DOMAIN x : i # 1 => ~IsHello(x[i])
       PROVE  q \in Panels(emitted) /\ q.inbox = x /\ Admitted(p, q, frames)
  BY <1>11, <1>21, <1>22, <1>23 DEF Admitted
<1>24. ~r => \A y : y.lastEventId = p.lastEventId /\ y.inbox[1] = h => ForgetsCursor(y)
  BY <1>7, <1>11 DEF ForgetsCursor
<1>25. <<h>> \o <<t>> = <<h, t>> /\ <<h>> \o <<>> = <<h>>
  <2>1. h \in Letters(emitted) /\ t \in Letters(emitted)
    BY <1>11
  <2>2. <<h>> \o <<t>> = <<h, t>>
    BY <2>1, Pairs, ZenonT(40)
  <2>3. <<h>> \o <<>> = <<h>>
    BY <2>1, Pairs, Zenon
  <2> QED BY <2>2, <2>3
<1>26. CASE stream.terminal
  <2>1. x = <<h, t>> \o <<>>
    BY <1>12, <1>15, <1>16, <1>25, <1>26
  <2>2. <<h, t>> \in Seq(Letters(emitted))
    BY <1>11
  <2>3. x = <<h, t>>
    BY <2>1, <2>2
  <2>4. x \in Seq(Letters(emitted)) /\ DOMAIN x = 1 .. 2 /\ x[1] = h /\ x[2] = t
    BY <2>2, <2>3
  <2>5. 1 \in DOMAIN x /\ \A i \in DOMAIN x : i # 1 => ~IsHello(x[i])
    <3>1. \A i \in DOMAIN x : i = 1 \/ i = 2
      BY <2>4
    <3> QED BY <1>11, <2>4, <3>1
  <2>6. q \in Panels(emitted) /\ Admitted(p, q, frames)
    BY <1>23, <2>4, <2>5
  <2>7. q.at = "closing"
    BY <1>17, <1>22, <1>26
  <2>8. KnowsOpened(q, stream, frames) /\ ClosingIsLast(q, stream, frames)
        /\ CursorSound(q, stream, frames, emitted)
    <3>1. PanelSound(p, stream, frames, emitted) /\ p.at \in {"listed", "joined", "ready"}
      BY <1>1, <1>4
    <3> QED BY <1>1, <1>26, <2>6, <2>7, <3>1, AdmittedKnows
  <2> QED BY <2>6, <2>7, <2>8 DEF PanelSound
<1>27. CASE ~stream.terminal /\ Overflowed(frames, from)
  <2>1. ~r
    BY <1>4, <1>13, <1>27 DEF ReplayFrom, Resumable
  <2>2. x = <<h, t>> \o <<ResyncRequired>>
    BY <1>12, <1>15, <1>16, <1>25, <1>27, <2>1
  <2>3. <<h, t>> \in Seq(Letters(emitted)) /\ <<ResyncRequired>> \in Seq(Letters(emitted))
    BY <1>11
  <2>4. x = <<h, t, ResyncRequired>>
    <3>1. h \in Letters(emitted) /\ t \in Letters(emitted)
          /\ ResyncRequired \in Letters(emitted)
      BY <1>11
    <3>2. <<h, t>> \o <<ResyncRequired>> = <<h, t, ResyncRequired>>
      BY <3>1, Pairs, ZenonT(40)
    <3> QED BY <2>2, <3>2
  <2>5. /\ x \in Seq(Letters(emitted)) /\ DOMAIN x = 1 .. 3 /\ x[1] = h /\ x[2] = t
        /\ x[3] = ResyncRequired
    BY <1>11, <2>4
  <2>6. 1 \in DOMAIN x /\ \A i \in DOMAIN x : i # 1 => ~IsHello(x[i])
    <3>1. \A i \in DOMAIN x : i = 1 \/ i = 2 \/ i = 3
      BY <2>5
    <3> QED BY <1>11, <2>5, <3>1
  <2>7. q \in Panels(emitted) /\ q.inbox = x /\ Admitted(p, q, frames)
    BY <1>23, <2>5, <2>6
  <2>8. ForgetsCursor(q)
    BY <1>22, <1>24, <2>1, <2>5, <2>7
  <2>9. q.at = "open"
    BY <1>17, <1>22, <1>27
  <2>10. PanelSound(p, stream, frames, emitted) /\ p.at \in {"listed", "joined", "ready"}
    BY <1>1, <1>4
  <2>11. DOMAIN q.inbox = 1 .. 3 /\ q.inbox[3] = ResyncRequired
         /\ q.inbox[2] = ChildSnapshot(stream.upto, stream.terminal)
    BY <1>10, <2>5, <2>7
  <2>12. PanelSound(q, stream, frames, emitted)
    BY <1>1, <2>7, <2>8, <2>9, <2>10, <2>11, ResyncedPanel
  <2> QED BY <2>7, <2>12
<1>28. CASE ~stream.terminal /\ ~Overflowed(frames, from)
  <2>1. from = (IF r THEN p.lastEventId ELSE stream.replayFrom) /\ from \in Nat
    BY <1>3, <1>4, <1>5, <1>13, <1>28 DEF ReplayFrom
  <2>2. Replays(frames, from, since) /\ since \in Seq(EntriesOf(Framed(emitted)))
    BY <1>1, <1>14, <2>1, ReplayedInOrder
  <2>3. from + 1 >= Lowest(frames)
    <3>1. Lowest(frames) \in Nat
      BY <1>1, RetainedWindow
    <3> QED BY <1>1, <1>28, <2>1, <3>1, OverflowedWhen
  <2>4. q.at = "open"
    BY <1>17, <1>22, <1>28
  <2>5. PanelSound(p, stream, frames, emitted) /\ p.at \in {"listed", "joined", "ready"}
    BY <1>1, <1>4
  <2>6. CASE r
    <3>1. x = <<h>> \o Lines(since)
      BY <1>12, <1>15, <1>16, <1>25, <1>28, <2>6
    <3>2. <<h>> \in Seq(Letters(emitted)) /\ <<h>> # <<>> /\ Len(<<h>>) = 1 /\ <<h>>[1] = h
      BY <1>11
    <3>3. /\ x \in Seq(Letters(emitted)) /\ Opens(x, 1, since)
          /\ \A i \in 1 .. 1 : x[i] = <<h>>[i]
      <4>1. PICK w \in Seq(Letters(emitted)) : w = <<h>>
        BY <3>2
      <4>2. w # <<>> /\ Len(w) = 1 /\ x = w \o Lines(since)
        BY <3>1, <3>2, <4>1
      <4>3. /\ x \in Seq(Letters(emitted)) /\ Opens(x, Len(w), since)
            /\ \A i \in 1 .. Len(w) : x[i] = w[i]
        <5>1. emitted \in Nat /\ since \in Seq(EntriesOf(Framed(emitted)))
          BY <1>1, <2>2
        <5>2. w # <<>> /\ x = w \o Lines(since)
          BY <4>2
        <5>3. x \in Seq(Letters(emitted)) /\ Opens(x, Len(w), since)
          BY <5>1, <5>2, OpensMade
        <5>4. \A i \in 1 .. Len(w) : x[i] = w[i]
          BY <5>1, <5>2, OpensMade
        <5> QED BY <5>3, <5>4
      <4> QED BY <4>1, <4>2, <4>3
    <3>4. 1 \in DOMAIN x /\ x[1] = h
      <4>1. 1 \in 1 .. 1
        OBVIOUS
      <4> QED BY <3>2, <3>3, <4>1 DEF Opens
    <3>5. ASSUME NEW i \in DOMAIN x, i # 1 PROVE ~IsHello(x[i])
      <4>1. 1 \in Nat
        OBVIOUS
      <4>2. i \in 1 .. 1 \/ IsNumbered(x[i])
        BY <1>1, <2>1, <2>2, <3>3, <4>1, NumberedPart
      <4> QED BY <3>5, <4>2 DEF IsHello
    <3>6. q \in Panels(emitted) /\ q.inbox = x /\ Admitted(p, q, frames)
      BY <1>23, <3>3, <3>4, <3>5
    <3>7. Opens(q.inbox, 1, since) /\ Replays(frames, p.lastEventId, since)
      BY <2>1, <2>2, <2>6, <3>3, <3>6
    <3>8. PanelSound(q, stream, frames, emitted)
      BY <1>1, <1>2, <1>8, <1>28, <2>4, <2>5, <2>6, <3>6, <3>7, ResumedPanel
    <3> QED BY <3>6, <3>8
  <2>7. CASE ~r
    <3>1. x = <<h, t>> \o Lines(since)
      BY <1>12, <1>15, <1>16, <1>25, <1>28, <2>7
    <3>2. <<h, t>> \in Seq(Letters(emitted)) /\ <<h, t>> # <<>> /\ Len(<<h, t>>) = 2
          /\ <<h, t>>[1] = h /\ <<h, t>>[2] = t
      BY <1>11
    <3>3. /\ x \in Seq(Letters(emitted)) /\ Opens(x, 2, since)
          /\ \A i \in 1 .. 2 : x[i] = <<h, t>>[i]
      <4>1. PICK w \in Seq(Letters(emitted)) : w = <<h, t>>
        BY <3>2
      <4>2. w # <<>> /\ Len(w) = 2 /\ x = w \o Lines(since)
        BY <3>1, <3>2, <4>1
      <4>3. /\ x \in Seq(Letters(emitted)) /\ Opens(x, Len(w), since)
            /\ \A i \in 1 .. Len(w) : x[i] = w[i]
        <5>1. emitted \in Nat /\ since \in Seq(EntriesOf(Framed(emitted)))
          BY <1>1, <2>2
        <5>2. w # <<>> /\ x = w \o Lines(since)
          BY <4>2
        <5>3. x \in Seq(Letters(emitted)) /\ Opens(x, Len(w), since)
          BY <5>1, <5>2, OpensMade
        <5>4. \A i \in 1 .. Len(w) : x[i] = w[i]
          BY <5>1, <5>2, OpensMade
        <5> QED BY <5>3, <5>4
      <4> QED BY <4>1, <4>2, <4>3
    <3>4. 1 \in DOMAIN x /\ x[1] = h /\ x[2] = t
      <4>1. 1 \in 1 .. 2 /\ 2 \in 1 .. 2
        OBVIOUS
      <4> QED BY <3>2, <3>3, <4>1 DEF Opens
    <3>5. ASSUME NEW i \in DOMAIN x, i # 1 PROVE ~IsHello(x[i])
      <4>1. PICK head \in Nat : head = 2
        OBVIOUS
      <4>2. i \in 1 .. 2 \/ IsNumbered(x[i])
        BY <1>1, <2>1, <2>2, <3>3, <4>1, NumberedPart
      <4>3. i \in 1 .. 2 => i = 2
        BY <3>5
      <4> QED BY <1>11, <3>4, <4>2, <4>3 DEF IsHello
    <3>6. q \in Panels(emitted) /\ q.inbox = x /\ Admitted(p, q, frames)
      BY <1>23, <3>3, <3>4, <3>5
    <3>7. Opens(q.inbox, 2, since) /\ Replays(frames, stream.replayFrom, since)
          /\ stream.replayFrom + 1 >= Lowest(frames)
          /\ q.inbox[2] = ChildSnapshot(stream.upto, stream.terminal)
      BY <1>10, <2>1, <2>2, <2>3, <2>7, <3>3, <3>4, <3>6
    <3>8. ForgetsCursor(q)
      BY <1>22, <1>24, <2>7, <3>4, <3>6
    <3>9. PanelSound(q, stream, frames, emitted)
      BY <1>1, <1>2, <1>28, <2>4, <2>5, <3>6, <3>7, <3>8, RestartedPanel
    <3> QED BY <3>6, <3>9
  <2> QED BY <2>6, <2>7
<1> QED BY <1>26, <1>27, <1>28

(* Streams that differ in their references, and in refreshes that are added. *)
Alike(s, t) ==
  /\ t.phase = s.phase /\ t.upto = s.upto /\ t.terminal = s.terminal
  /\ t.replayFrom = s.replayFrom /\ t.held = s.held /\ t.read = s.read
  /\ s.chain > 0 => t.chain > 0

LEMMA AlikeKeep ==
  ASSUME NEW s, NEW t, Alike(s, t), NEW b, NEW k, NEW over
  PROVE  /\ Awaiting(s, k, over) => Awaiting(t, k, over)
         /\ SnapshotFollowed(s, b, k) => SnapshotFollowed(t, b, k)
         /\ RetainedFollowed(s, b, k) => RetainedFollowed(t, b, k)
         /\ IsStream(s, b) => IsStream(t, b)
         /\ \A p : PanelSound(p, s, b, k) => PanelSound(p, t, b, k)
<1>1. /\ t.phase = s.phase /\ t.upto = s.upto /\ t.terminal = s.terminal
      /\ t.replayFrom = s.replayFrom /\ t.held = s.held /\ t.read = s.read
      /\ s.chain > 0 => t.chain > 0
  BY DEF Alike
<1>2. \A n : HeldBack(t, n) <=> HeldBack(s, n)
  BY <1>1 DEF HeldBack
<1>3. EndHeld(t) <=> EndHeld(s)
  BY <1>1 DEF EndHeld
<1>4. Awaiting(s, k, over) => Awaiting(t, k, over)
  BY <1>1, <1>2, <1>3 DEF Awaiting
<1>5. SnapshotFollowed(s, b, k) => SnapshotFollowed(t, b, k)
  BY <1>1, <1>2 DEF SnapshotFollowed
<1>6. RetainedFollowed(s, b, k) => RetainedFollowed(t, b, k)
  BY <1>2 DEF RetainedFollowed
<1>7. IsStream(s, b) => IsStream(t, b)
  BY <1>1 DEF IsStream
<1>8. ASSUME NEW p, PanelSound(p, s, b, k) PROVE PanelSound(p, t, b, k)
  <2>1. /\ KnowsOpened(p, s, b) /\ ClosingIsLast(p, s, b) /\ CursorSound(p, s, b, k)
        /\ p.at = "open" => InboxInOrder(p, b) /\ (Resyncs(p) \/ Complete(p, s, k))
    BY <1>8 DEF PanelSound
  <2>2. KnowsOpened(p, t, b)
    BY <1>1, <2>1 DEF KnowsOpened, Opened
  <2>3. ClosingIsLast(p, t, b)
    BY <1>1, <2>1 DEF ClosingIsLast
  <2>4. CursorSound(p, t, b, k)
    BY <1>1, <1>2, <2>1 DEF CursorSound, Resumes, Knows
  <2>5. Complete(p, s, k) => Complete(p, t, k)
    BY <1>2 DEF Complete
  <2> QED BY <2>1, <2>2, <2>3, <2>4, <2>5 DEF PanelSound
<1> QED BY <1>4, <1>5, <1>6, <1>7, <1>8

(* A request is counted if it found the stream, and answered: it waits for a *)
(* refresh, follows, or is told that the child has ended and leaves.         *)
LEMMA AnsweredStep ==
  ASSUME IInv, stream.phase = "open", NEW v \in Viewers,
         viewer[v].at \in {"listed", "joined", "ready"},
         NEW q \in Panels(emitted), viewer' = [viewer EXCEPT ![v] = q],
         PanelSound(q, stream, frames, emitted), q.at \in {"refreshing", "open", "closing"},
         q.at = "open" => ~stream.terminal,
         NEW s \in Streams(emitted), Alike(stream, s), Balanced(s),
         s.refs = IF viewer[v].at = "listed" THEN stream.refs + 1 ELSE stream.refs,
         NEW c, c = [stream |-> s, frames |-> frames, out |-> <<>>],
         NEW gone, gone = IF q.at = "closing" THEN {v} ELSE {},
         \/ gone = {} /\ stream' = s /\ frames' = frames
         \/ Becomes(c, gone),
         UNCHANGED <<emitted, turns, ended, finalReadFailed, childFaults>>
  PROVE  IInv'
<1>1. /\ Whole(Channel, emitted, ended) /\ Channel.stream = stream /\ Channel.frames = frames
      /\ IsFiniteSet(Holders) /\ Holders # {} /\ stream.refs = Cardinality(Holders)
      /\ Waiting = {}
      /\ stream.terminal /\ Following # {} => stream.chain > 0 \/ finalReadFailed
  BY StateWhole
<1>2. /\ emitted \in Nat /\ IsBuffer(frames, Generations, Framed(emitted))
      /\ IsStream(stream, frames)
      /\ \A w \in Viewers : PanelSound(viewer[w], stream, frames, emitted)
  BY StateFacts
<1>3. /\ viewer' \in [Viewers -> Panels(emitted)]
      /\ \A w \in Viewers : PanelSound(viewer'[w], stream, frames, emitted)
      /\ Holders' = IF q.at \in {"joined", "refreshing", "ready", "open"}
                    THEN Holders \union {v} ELSE Holders \ {v}
      /\ Waiting' = IF q.at = "waiting" THEN Waiting \union {v} ELSE Waiting \ {v}
      /\ Following' = IF q.at = "open" THEN Following \union {v} ELSE Following \ {v}
  BY OnePanel
<1>4. c.stream = s /\ c.frames = frames /\ c.out = <<>>
  OBVIOUS
<1>5. Whole(c, emitted, ended)
  <2>1. /\ Awaiting(s, emitted, ended) /\ SnapshotFollowed(s, frames, emitted)
        /\ RetainedFollowed(s, frames, emitted) /\ IsStream(s, frames)
    BY <1>1, <1>2, AlikeKeep DEF Whole
  <2>2. <<>> \in Seq(NumberedOf(emitted))
    OBVIOUS
  <2>3. c \in Channels(emitted)
    BY <1>2, <2>1, <2>2, ChannelMade
  <2>4. s.phase = "open"
    BY DEF Alike
  <2> QED BY <1>4, <2>1, <2>3, <2>4 DEF Whole
<1> DEFINE H == Holders \union {v}
<1>6. IsFiniteSet(H) /\ H # {} /\ s.refs = Cardinality(H)
  <2>1. CASE viewer[v].at = "listed"
    <3>1. v \notin Holders
      BY <2>1 DEF Holders
    <3>2. IsFiniteSet(H) /\ Cardinality(H) = Cardinality(Holders) + 1
      BY <1>1, <3>1, FS_AddElement
    <3> QED BY <1>1, <2>1, <3>2
  <2>2. CASE viewer[v].at # "listed"
    <3>1. v \in Holders
      BY <2>2 DEF Holders
    <3>2. H = Holders
      BY <3>1
    <3> QED BY <1>1, <2>2, <3>2
  <2> QED BY <2>1, <2>2
<1>7. gone \subseteq H /\ Holders' = H \ gone /\ Waiting' = {}
  BY <1>1, <1>3
<1>8. Leaves(c, H, gone)
  <2> HIDE DEF H
  <2>1. \/ gone = {} /\ stream' = c.stream /\ frames' = c.frames
        \/ Becomes(c, gone)
    BY <1>4
  <2> QED BY <1>4, <1>6, <1>7, <2>1 DEF Leaves
<1>9. \A w \in Viewers : PanelSound(viewer'[w], s, frames, emitted)
  BY <1>3, AlikeKeep
<1>10. s.terminal /\ Following' # {} => s.chain > 0 \/ finalReadFailed
  <2>1. s.terminal = stream.terminal /\ (stream.chain > 0 => s.chain > 0)
    BY DEF Alike
  <2> QED BY <1>1, <1>3, <2>1
<1>11. StepTyped
  BY <1>3, StateFacts DEF StepTyped
<1> QED BY <1>4, <1>5, <1>8, <1>9, <1>10, <1>11, OpenStep

(* A stream with a reference more, and one with a refresh more.              *)
LEMMA CountedStream ==
  ASSUME NEW k \in Nat, NEW s \in Streams(k), NEW t, t = [s EXCEPT !.refs = @ + 1]
  PROVE  t \in Streams(k) /\ RefsOnly(s, t) /\ t.refs = s.refs + 1
<1>1. PICK n \in Nat : n = s.refs + 1
  BY StreamFields
<1>2. t = [s EXCEPT !.refs = n]
  BY <1>1
<1> QED BY <1>1, <1>2 DEF Streams, RefsOnly

LEMMA QueuedStream ==
  ASSUME NEW k \in Nat, NEW s \in Streams(k), NEW t,
         t = [s EXCEPT !.buffering = TRUE, !.chain = @ + 1]
  PROVE  t \in Streams(k) /\ Alike(s, t) /\ Balanced(t) /\ t.refs = s.refs
<1>1. PICK n \in Nat : n = s.chain + 1 /\ n > 0
  BY StreamFields
<1>2. PICK u : u = [s EXCEPT !.chain = n]
  OBVIOUS
<1>3. /\ u \in Streams(k) /\ u.refs = s.refs /\ u.phase = s.phase /\ u.upto = s.upto
      /\ u.terminal = s.terminal /\ u.replayFrom = s.replayFrom /\ u.held = s.held
      /\ u.read = s.read /\ u.chain = n
  BY <1>2 DEF Streams
<1>4. t = [u EXCEPT !.buffering = TRUE]
  BY <1>1, <1>2 DEF Streams
<1>5. /\ t \in Streams(k) /\ t.refs = u.refs /\ t.phase = u.phase /\ t.upto = u.upto
      /\ t.terminal = u.terminal /\ t.replayFrom = u.replayFrom /\ t.held = u.held
      /\ t.read = u.read /\ t.chain = u.chain /\ t.buffering = TRUE
  BY <1>3, <1>4 DEF Streams
<1> QED BY <1>1, <1>3, <1>5 DEF Alike, Balanced

LEMMA BootstrapStep ==
  ASSUME IInv, stream.phase = "open", NEW v \in Viewers,
         viewer[v].at \in {"listed", "joined", "ready"},
         NEW r \in BOOLEAN, r => Resumable(v), Bootstrap(v, r),
         NEW s, \/ viewer[v].at = "listed" /\ s = [stream EXCEPT !.refs = @ + 1]
                \/ viewer[v].at # "listed" /\ s = stream,
         Becomes([Channel EXCEPT !.stream = s], IF stream.terminal THEN {v} ELSE {}),
         UNCHANGED <<emitted, turns, ended, finalReadFailed, childFaults>>
  PROVE  IInv'
<1>1. /\ emitted \in Nat /\ stream \in Streams(emitted) /\ stream.terminal \in BOOLEAN
      /\ Balanced(stream)
  BY StateFacts, StreamFields DEF IInv, Types
<1>2. PICK q \in Panels(emitted) : /\ viewer' = [viewer EXCEPT ![v] = q]
                                   /\ q.at = IF stream.terminal THEN "closing" ELSE "open"
                                   /\ PanelSound(q, stream, frames, emitted)
  BY BootstrapOpens
<1>3. /\ s \in Streams(emitted) /\ RefsOnly(stream, s)
      /\ s.refs = IF viewer[v].at = "listed" THEN stream.refs + 1 ELSE stream.refs
  <2>1. CASE viewer[v].at = "listed" /\ s = [stream EXCEPT !.refs = @ + 1]
    BY <1>1, <2>1, CountedStream
  <2>2. CASE viewer[v].at # "listed" /\ s = stream
    BY <1>1, <2>2 DEF RefsOnly
  <2> QED BY <2>1, <2>2
<1>4. Alike(stream, s) /\ Balanced(s)
  BY <1>1, <1>3, RefsMatterNot DEF RefsOnly, Alike
<1>5. PICK c : c = [stream |-> s, frames |-> frames, out |-> <<>>]
  OBVIOUS
<1>6. [Channel EXCEPT !.stream = s] = c
  BY <1>5 DEF Channel
<1>7. PICK gone : gone = IF q.at = "closing" THEN {v} ELSE {}
  OBVIOUS
<1>8. gone = IF stream.terminal THEN {v} ELSE {}
  BY <1>2, <1>7
<1>9. Becomes(c, gone)
  BY <1>6, <1>8
<1>10. q.at \in {"refreshing", "open", "closing"} /\ (q.at = "open" => ~stream.terminal)
  BY <1>2
<1> QED BY <1>2, <1>3, <1>4, <1>5, <1>7, <1>9, <1>10, AnsweredStep

(* The panel waits for the refreshes that are under way, and one more.       *)
LEMMA QueuedStep ==
  ASSUME IInv, stream.phase = "open", NEW v \in Viewers,
         viewer[v].at \in {"listed", "joined"},
         NEW e, \/ viewer[v].at = "listed" /\ e = [stream EXCEPT !.refs = @ + 1]
                \/ viewer[v].at # "listed" /\ e = stream,
         NEW d, d = RefreshQueued([Channel EXCEPT !.stream = e]),
         stream' = d.stream, frames' = frames,
         viewer' = [viewer EXCEPT ![v].at = "refreshing", ![v].ahead = d.stream.chain],
         UNCHANGED <<emitted, turns, ended, finalReadFailed, childFaults>>
  PROVE  IInv'
<1>1. /\ emitted \in Nat /\ stream \in Streams(emitted)
      /\ IsBuffer(frames, Generations, Framed(emitted)) /\ IsStream(stream, frames)
      /\ viewer \in [Viewers -> Panels(emitted)]
      /\ viewer[v] \in Panels(emitted)
      /\ PanelSound(viewer[v], stream, frames, emitted)
  BY StateFacts
<1>2. /\ e \in Streams(emitted) /\ RefsOnly(stream, e)
      /\ e.refs = IF viewer[v].at = "listed" THEN stream.refs + 1 ELSE stream.refs
  <2>1. CASE viewer[v].at = "listed" /\ e = [stream EXCEPT !.refs = @ + 1]
    BY <1>1, <2>1, CountedStream
  <2>2. CASE viewer[v].at # "listed" /\ e = stream
    BY <1>1, <2>2 DEF RefsOnly
  <2> QED BY <2>1, <2>2
<1>3. PICK a : a = [stream |-> e, frames |-> frames, out |-> <<>>]
  OBVIOUS
<1>4. a = [Channel EXCEPT !.stream = e] /\ a.stream = e
  BY <1>3 DEF Channel
<1>5. a \in Channels(emitted)
  <2>1. IsStream(e, frames)
    BY <1>1, <1>2 DEF RefsOnly, IsStream
  <2>2. <<>> \in Seq(NumberedOf(emitted))
    OBVIOUS
  <2> QED BY <1>1, <1>2, <1>3, <2>1, <2>2, ChannelMade
<1>6. PICK s : s = [e EXCEPT !.buffering = TRUE, !.chain = @ + 1]
  OBVIOUS
<1>7. d.stream = s /\ d \in Channels(emitted)
  <2>1. d = RefreshQueued(a)
    BY <1>4
  <2>2. /\ RefreshQueued(a) \in Channels(emitted)
        /\ RefreshQueued(a).stream = [a.stream EXCEPT !.buffering = TRUE, !.chain = @ + 1]
    BY <1>1, <1>5, RefreshQueuedChannel
  <2> QED BY <1>4, <1>6, <2>1, <2>2
<1>8. s \in Streams(emitted) /\ Alike(e, s) /\ Balanced(s) /\ s.refs = e.refs
  BY <1>1, <1>2, <1>6, QueuedStream
<1>9. s.chain \in Int
  BY <1>1, <1>8, StreamFields
<1>10. Alike(stream, s) /\ Balanced(s)
  BY <1>2, <1>8 DEF RefsOnly, Alike
<1>11. PICK p \in Panels(emitted) : p = viewer[v]
  BY <1>1
<1>12. PICK q : q = [p EXCEPT !.at = "refreshing", !.ahead = s.chain]
  OBVIOUS
<1>13. viewer' = [viewer EXCEPT ![v] = q]
  BY <1>1, <1>7, <1>11, <1>12
<1>14. /\ q \in Panels(emitted) /\ q.at = "refreshing" /\ q.generation = p.generation
       /\ q.lastEventId = p.lastEventId /\ q.have = p.have /\ q.base = p.base /\ q.inbox = p.inbox
  BY <1>9, <1>12 DEF Panels, Places
<1>15. PanelSound(q, stream, frames, emitted)
  <2>1. PanelSound(p, stream, frames, emitted) /\ p.at \notin {"away", "over"}
    BY <1>1, <1>11
  <2>2. KnowsOpened(q, stream, frames)
    BY <1>14, <2>1 DEF PanelSound, KnowsOpened
  <2>3. CursorSound(q, stream, frames, emitted)
    BY <1>14, <2>1 DEF PanelSound, CursorSound, Resumes, Knows, Screen
  <2> QED BY <1>14, <2>2, <2>3 DEF PanelSound, ClosingIsLast
<1>16. PICK c : c = [stream |-> s, frames |-> frames, out |-> <<>>]
  OBVIOUS
<1>17. PICK gone : gone = {} /\ gone = IF q.at = "closing" THEN {v} ELSE {}
  BY <1>14
<1>18. s.refs = IF viewer[v].at = "listed" THEN stream.refs + 1 ELSE stream.refs
  BY <1>2, <1>8
<1>19. gone = {} /\ stream' = s /\ frames' = frames
  BY <1>7, <1>17
<1>20. q.at \in {"refreshing", "open", "closing"} /\ (q.at = "open" => ~stream.terminal)
  BY <1>14
<1> QED BY <1>8, <1>10, <1>13, <1>14, <1>15, <1>16, <1>17, <1>18, <1>19, <1>20, AnsweredStep

LEMMA AnswerStep ==
  ASSUME IInv, stream.phase = "open", NEW v \in Viewers,
         viewer[v].at \in {"listed", "joined"},
         NEW e, \/ viewer[v].at = "listed" /\ e = [stream EXCEPT !.refs = @ + 1]
                \/ viewer[v].at # "listed" /\ e = stream,
         Answer(v, e), UNCHANGED <<emitted, turns, ended, finalReadFailed, childFaults>>
  PROVE  IInv'
<1>1. PICK d : d = RefreshQueued([Channel EXCEPT !.stream = e])
  OBVIOUS
<1>2. PICK r \in BOOLEAN : r = Resumable(v)
  BY DEF Resumable
<1>3. CASE /\ stream' = d.stream /\ frames' = frames
           /\ viewer' = [viewer EXCEPT ![v].at = "refreshing", ![v].ahead = d.stream.chain]
  BY <1>1, <1>3, QueuedStep
<1>4. CASE /\ Bootstrap(v, r)
           /\ Becomes([Channel EXCEPT !.stream = e], IF stream.terminal THEN {v} ELSE {})
  BY <1>2, <1>4, BootstrapStep
<1> QED BY <1>1, <1>2, <1>3, <1>4 DEF Answer

LEMMA JoinStep == ASSUME IInv, NEW v \in Viewers, Join(v) PROVE IInv'
<1>1. UNCHANGED <<emitted, turns, ended, finalReadFailed, childFaults>>
  BY DEF Join
<1>2. viewer[v].at \in {"joined", "ready"}
  BY DEF Join
<1>3. stream.phase = "open"
  <2>1. v \in Holders
    BY <1>2 DEF Holders
  <2> QED BY <2>1 DEF IInv, Held
<1>4. CASE viewer[v].at = "joined" /\ Answer(v, stream)
  BY <1>1, <1>3, <1>4, AnswerStep
<1>5. CASE /\ viewer[v].at = "ready" /\ Bootstrap(v, FALSE)
           /\ Becomes(Channel, IF stream.terminal THEN {v} ELSE {})
  <2>1. [Channel EXCEPT !.stream = stream] = Channel
    BY DEF Channel
  <2>2. Becomes([Channel EXCEPT !.stream = stream], IF stream.terminal THEN {v} ELSE {})
    BY <1>5, <2>1
  <2> QED BY <1>1, <1>3, <1>5, <2>2, BootstrapStep
<1> QED BY <1>4, <1>5 DEF Join

(* A request that finds no open stream: the panel is told that the child has *)
(* ended, or waits for an initialization.                                    *)
LEMMA UnopenedStep ==
  ASSUME IInv, stream.phase # "open", NEW v \in Viewers, viewer[v].at = "listed",
         UNCHANGED <<emitted, turns, ended, frames, finalReadFailed, childFaults>>,
         NEW q \in Panels(emitted), viewer' = [viewer EXCEPT ![v] = q],
         KnowsOpened(q, stream, frames),
         \/ q.at = "closing" /\ stream' = stream
         \/ /\ q.at = "waiting" /\ stream' = stream
            /\ stream.phase \in {"watching", "subscribed"}
         \/ /\ q.at = "waiting" /\ stream.phase = "none" /\ frames.generation <= MaxStreams
            /\ stream' = [NoStream EXCEPT !.phase = "watching"]
  PROVE  IInv'
<1>1. /\ emitted \in Nat /\ stream \in Streams(emitted)
      /\ IsStream(stream, frames) /\ frames.generation \in Generations
      /\ childFaults \in 0 .. MaxChildFaults
  BY StateFacts
<1>2. Balanced(stream) /\ Awaiting(stream, emitted, ended)
  BY DEF IInv, Types, Lags
<1>3. /\ stream.chain = 0 /\ ~stream.terminal /\ frames = EmptyBuffer(frames.generation)
      /\ \A w \in Viewers : /\ viewer[w].at \notin {"joined", "refreshing", "ready", "open"}
                            /\ KnowsOpened(viewer[w], stream, frames)
      /\ stream.phase \in {"watching", "subscribed"} =>
           IsFiniteSet(Waiting) /\ Waiting # {} /\ frames.generation <= MaxStreams
  BY ClosedFacts
<1>4. stream.phase = "none" => Waiting = {}
  BY DEF IInv, Held
<1>5. stream.phase \in {"none", "watching", "subscribed"}
  BY <1>1, StreamFields DEF Phases
<1>6. /\ viewer' \in [Viewers -> Panels(emitted)] /\ viewer'[v] = q
      /\ \A w \in Viewers : w # v => viewer'[w] = viewer[w]
      /\ Waiting' = IF q.at = "waiting" THEN Waiting \union {v} ELSE Waiting \ {v}
  BY OnePanel
<1>7. v \notin Waiting
  BY DEF Waiting
<1>8. ASSUME NEW w \in Viewers
      PROVE  /\ viewer'[w].at \notin {"joined", "refreshing", "ready", "open"}
             /\ KnowsOpened(viewer'[w], stream, frames)
  BY <1>3, <1>6
<1>9. CASE q.at = "closing" /\ stream' = stream
  <2>1. Waiting' = Waiting
    BY <1>6, <1>7, <1>9
  <2> QED BY <1>1, <1>2, <1>3, <1>4, <1>5, <1>6, <1>8, <1>9, <2>1, ClosedStep
<1>10. CASE /\ q.at = "waiting" /\ stream' = stream
            /\ stream.phase \in {"watching", "subscribed"}
  <2>1. IsFiniteSet(Waiting') /\ Waiting' # {}
    BY <1>3, <1>6, <1>10, FS_AddElement
  <2> QED BY <1>1, <1>2, <1>3, <1>6, <1>8, <1>10, <2>1, ClosedStep
<1>11. CASE /\ q.at = "waiting" /\ stream.phase = "none" /\ frames.generation <= MaxStreams
            /\ stream' = [NoStream EXCEPT !.phase = "watching"]
  <2>1. Waiting' = {v}
    BY <1>4, <1>6, <1>11
  <2>2. IsFiniteSet(Waiting') /\ Waiting' # {}
    BY <2>1, FS_Singleton
  <2>3. NoStream \in Streams(emitted)
    BY <1>1, NoStreamTyped
  <2>4. /\ stream' \in Streams(emitted) /\ stream'.phase = "watching" /\ stream'.chain = 0
        /\ stream'.terminal = FALSE /\ stream'.buffering = FALSE /\ stream'.held = <<>>
        /\ stream'.read = NotRead /\ stream'.replayFrom = 0
    <3>1. stream' \in Streams(emitted)
      BY <1>11, <2>3 DEF Streams, Phases
    <3> QED BY <1>11, <3>1 DEF NoStream
  <2>5. Balanced(stream')
    BY <2>4 DEF Balanced
  <2>6. Awaiting(stream', emitted, ended)
    BY <2>4 DEF Awaiting
  <2>7. IsStream(stream', frames)
    <3>1. 0 <= LatestSequence(frames)
      BY LatestIsLast, StateFacts
    <3> QED BY <2>4, <3>1 DEF IsStream
  <2> QED BY <1>1, <1>6, <1>8, <1>11, <2>2, <2>4, <2>5, <2>6, <2>7, ClosedStep
<1> QED BY <1>9, <1>10, <1>11

LEMMA LookUpStep == ASSUME IInv, NEW v \in Viewers, LookUp(v) PROVE IInv'
<1>1. /\ viewer[v].at = "listed"
      /\ UNCHANGED <<emitted, turns, ended, finalReadFailed, childFaults>>
  BY DEF LookUp
<1>2. /\ emitted \in Nat /\ viewer \in [Viewers -> Panels(emitted)]
      /\ viewer[v] \in Panels(emitted) /\ MaxStreams \in Nat
      /\ PanelSound(viewer[v], stream, frames, emitted)
  BY StateFacts
<1>3. PICK p \in Panels(emitted) : p = viewer[v] /\ KnowsOpened(p, stream, frames)
  BY <1>2 DEF PanelSound
<1>4. CASE stream.phase = "open" /\ Answer(v, [stream EXCEPT !.refs = @ + 1])
  BY <1>1, <1>4, AnswerStep
<1>5. CASE /\ stream.phase # "open"
           /\ viewer' = [viewer EXCEPT ![v].at = "closing",
                           ![v].inbox = <<Hello(MaxStreams + 1, Requested(v)),
                                          ChildSnapshot(emitted, TRUE)>>]
           /\ UNCHANGED <<stream, frames>>
  <2>1. PICK reset \in BOOLEAN : reset = Requested(v)
    BY DEF Requested
  <2>2. PICK h : h = Hello(MaxStreams + 1, reset)
    OBVIOUS
  <2>3. PICK t : t = ChildSnapshot(emitted, TRUE)
    OBVIOUS
  <2>4. /\ h \in Letters(emitted) /\ h.generation = MaxStreams + 1
        /\ t \in Letters(emitted) /\ ~IsHello(t)
    <3>1. MaxStreams + 1 \in Nat /\ emitted \in 0 .. emitted /\ TRUE \in BOOLEAN
      BY <1>2
    <3>2. PICK g \in Nat, over \in BOOLEAN : g = MaxStreams + 1 /\ over = TRUE
      BY <3>1
    <3>3. /\ Hello(g, reset) \in Letters(emitted) /\ Hello(g, reset).generation = g
          /\ ChildSnapshot(emitted, over) \in Letters(emitted)
          /\ ~IsHello(ChildSnapshot(emitted, over))
      BY <1>2, <3>1, BootstrapLetters
    <3> QED BY <2>2, <2>3, <3>2, <3>3
  <2>5. PICK x \in Seq(Letters(emitted)) :
          x = <<h, t>> /\ DOMAIN x = 1 .. 2 /\ x[1] = h /\ x[2] = t
    <3>1. <<h, t>> \in Seq(Letters(emitted))
      BY <2>4
    <3>2. DOMAIN <<h, t>> = 1 .. 2 /\ <<h, t>>[1] = h /\ <<h, t>>[2] = t
      OBVIOUS
    <3> QED BY <3>1, <3>2
  <2>6. PICK q : q = [p EXCEPT !.at = "closing", !.inbox = x]
    OBVIOUS
  <2>7. viewer' = [viewer EXCEPT ![v] = q]
    BY <1>2, <1>3, <1>5, <2>1, <2>2, <2>3, <2>5, <2>6
  <2>8. q \in Panels(emitted) /\ q.at = "closing" /\ q.generation = p.generation /\ q.inbox = x
    BY <2>5, <2>6 DEF Panels, Places
  <2>9. KnowsOpened(q, stream, frames)
    <3>1. \A i \in DOMAIN x : i = 1 \/ i = 2
      BY <2>5
    <3>2. Opened(h.generation, stream, frames)
      BY <2>4 DEF Opened
    <3>3. \A i \in DOMAIN x : IsHello(x[i]) => Opened(x[i].generation, stream, frames)
      BY <2>4, <2>5, <3>1, <3>2
    <3> QED BY <1>3, <2>8, <3>3 DEF KnowsOpened
  <2> QED BY <1>1, <1>5, <2>7, <2>8, <2>9, UnopenedStep
<1>6. CASE /\ viewer' = [viewer EXCEPT ![v].at = "waiting"] /\ frames' = frames
           /\ stream.phase # "open"
           /\ \/ stream' = stream /\ stream.phase \in {"watching", "subscribed"}
              \/ /\ stream.phase = "none" /\ frames.generation <= MaxStreams
                 /\ stream' = [NoStream EXCEPT !.phase = "watching"]
  <2>1. PICK q : q = [p EXCEPT !.at = "waiting"]
    OBVIOUS
  <2>2. q \in Panels(emitted) /\ q.at = "waiting" /\ q.generation = p.generation
        /\ q.inbox = p.inbox
    BY <2>1 DEF Panels, Places
  <2>3. viewer' = [viewer EXCEPT ![v] = q]
    BY <1>2, <1>3, <1>6, <2>1
  <2>4. KnowsOpened(q, stream, frames)
    BY <1>3, <2>2 DEF KnowsOpened
  <2> QED BY <1>1, <1>6, <2>2, <2>3, <2>4, UnopenedStep
<1>7. \/ stream.phase = "open" /\ Answer(v, [stream EXCEPT !.refs = @ + 1])
      \/ /\ stream.phase # "open"
         /\ viewer' = [viewer EXCEPT ![v].at = "closing",
                         ![v].inbox = <<Hello(MaxStreams + 1, Requested(v)),
                                        ChildSnapshot(emitted, TRUE)>>]
         /\ UNCHANGED <<stream, frames>>
      \/ /\ stream.phase \in {"watching", "subscribed"}
         /\ viewer' = [viewer EXCEPT ![v].at = "waiting"]
         /\ UNCHANGED <<stream, frames>>
      \/ /\ stream.phase = "none" /\ frames.generation <= MaxStreams
         /\ stream' = [NoStream EXCEPT !.phase = "watching"]
         /\ viewer' = [viewer EXCEPT ![v].at = "waiting"]
         /\ UNCHANGED frames
  BY Zenon DEF LookUp
<1> QED BY <1>4, <1>5, <1>6, <1>7

------------------------------------------------------------------------------
(* The theorems                                                              *)

LEMMA InitSound == ASSUME ChildInit PROVE IInv
<1>1. /\ emitted = 0 /\ turns = {} /\ ended = FALSE
      /\ stream = NoStream /\ frames = EmptyBuffer(1)
      /\ viewer = [v \in Viewers |-> Away]
      /\ finalReadFailed = FALSE /\ childFaults = 0
  BY DEF ChildInit
<1>2. /\ MaxStreams \in Nat /\ MaxEvents \in Nat /\ MaxChildFaults \in Nat
      /\ 0 \in Nat /\ 1 \in Generations
  BY DEF Generations
<1>3. /\ NoStream \in Streams(0) /\ Balanced(NoStream)
      /\ IsBuffer(EmptyBuffer(1), Generations, Framed(0))
      /\ IsStream(NoStream, EmptyBuffer(1)) /\ EmptyBuffer(1).generation = 1
      /\ Awaiting(NoStream, 0, FALSE)
      /\ SnapshotFollowed(NoStream, EmptyBuffer(1), 0)
      /\ RetainedFollowed(NoStream, EmptyBuffer(1), 0)
  BY <1>2, NoStreamTyped
<1>4. Away \in Panels(0)
  <2>1. <<>> \in Seq(Letters(0)) /\ {} \in SUBSET (1 .. 0)
    OBVIOUS
  <2> QED BY <2>1 DEF Away, Panels, Places
<1>5. \A v \in Viewers : viewer[v] = Away /\ viewer[v].at = "away"
  BY <1>1 DEF Away
<1>6. Types
  <2>1. viewer \in [Viewers -> Panels(0)]
    BY <1>1, <1>4
  <2>2. 0 \in 0 .. MaxEvents /\ 0 \in 0 .. MaxChildFaults
    BY <1>2
  <2> QED BY <1>1, <1>3, <2>1, <2>2 DEF Types
<1>7. Held
  <2>1. Holders = {} /\ Waiting = {}
    BY <1>5 DEF Holders, Waiting
  <2>2. /\ stream.phase = "none" /\ stream.chain = 0 /\ ~stream.terminal
        /\ frames = EmptyBuffer(frames.generation)
    BY <1>1, <1>3 DEF NoStream
  <2> QED BY <2>1, <2>2 DEF Held
<1>8. PanelSound(Away, stream, frames, emitted)
  <2>1. Opened(0, stream, frames)
    BY <1>1, <1>3 DEF Opened
  <2>2. /\ Away.generation = 0 /\ Away.at = "away"
        /\ Away.inbox = <<>> /\ stream.phase = "none"
    BY <1>1 DEF Away, NoStream
  <2>3. CursorSound(Away, stream, frames, emitted)
    BY <2>2 DEF CursorSound, Resumes, Knows
  <2>4. \A i \in DOMAIN Away.inbox : ~IsHello(Away.inbox[i])
    BY <2>2
  <2> QED BY <2>1, <2>2, <2>3, <2>4, QuietPanel
<1>9. EndFollowed
  BY <1>1 DEF EndFollowed, NoStream
<1>10. Lags
  BY <1>1, <1>3, <1>5, <1>8, <1>9 DEF Lags
<1> QED BY <1>6, <1>7, <1>10 DEF IInv

LEMMA StepSound == ASSUME IInv, [ChildNext]_childVars PROVE IInv'
<1>1. ASSUME NEW kind \in {"message", "turn_end", "reset"}, Emit(kind) PROVE IInv'
  BY <1>1, EmitStep
<1>2. ASSUME NEW kind \in {"closed", "failed"}, End(kind) PROVE IInv'
  BY <1>2, EndStep
<1>3. CASE ServeRead
  BY <1>3, ServeReadStep
<1>4. CASE Watch
  BY <1>4, WatchStep
<1>5. CASE Register
  BY <1>5, RegisterStep
<1>6. CASE RegisterFails
  BY <1>6, RegisterFailsStep
<1>7. CASE Refresh
  BY <1>7, RefreshStep
<1>8. CASE RefreshFails
  BY <1>8, RefreshFailsStep
<1>9. ASSUME NEW v \in Viewers,
             Ask(v) \/ LookUp(v) \/ Join(v) \/ ReadMessage(v) \/ ConnectionBreaks(v) \/ Leave(v)
      PROVE  IInv'
  BY <1>9, AskStep, LookUpStep, JoinStep, ReadMessageStep, ConnectionBreaksStep, LeaveStep
<1>10. CASE UNCHANGED childVars
  BY <1>10 DEF childVars, IInv, Types, Held, Lags, Holders, Waiting, Following, EndFollowed
<1> QED BY <1>1, <1>2, <1>3, <1>4, <1>5, <1>6, <1>7, <1>8, <1>9, <1>10 DEF ChildNext

(* The inductive invariant: references are counted for those who use the     *)
(* stream (Held), and whatever a screen lacks is on its way to it, as a line *)
(* of its inbox, as a retained frame behind its cursor or behind the         *)
(* snapshot, or as an event that is held back until messages are read        *)
(* (Lags).                                                                   *)
THEOREM ChildInvariant == ChildSpec => []IInv
<1>1. ChildInit => IInv
  BY InitSound
<1>2. IInv /\ [ChildNext]_childVars => IInv'
  BY StepSound
<1> QED BY <1>1, <1>2, PTL DEF ChildSpec

LEMMA TypesImply == ASSUME IInv PROVE ChildTypeOK
<1>1. /\ emitted \in Nat /\ emitted \in 0 .. MaxEvents /\ ended \in BOOLEAN
      /\ stream \in Streams(emitted)
      /\ IsBuffer(frames, Generations, Framed(emitted)) /\ IsStream(stream, frames)
      /\ childFaults \in 0 .. MaxChildFaults
      /\ \A v \in Viewers : viewer[v] \in Panels(emitted)
  BY StateFacts
<1>2. /\ stream.phase \in Phases /\ stream.upto \in 0 .. emitted /\ stream.buffering \in BOOLEAN
      /\ stream.chain \in Nat /\ stream.read \in {NotRead} \union 0 .. emitted
  BY <1>1, StreamFields
<1>3. stream.buffering = (stream.chain > 0)
  BY <1>2 DEF IInv, Types, Balanced
<1>4. stream.replayFrom <= LatestSequence(frames)
  BY <1>1 DEF IsStream
<1>5. IsBuffer(frames, 1 .. MaxStreams + 1, ChildFrame)
  <2>1. /\ MaxEvents \in Nat /\ 1 .. emitted \subseteq 1 .. MaxEvents
        /\ 0 .. emitted \subseteq 0 .. MaxEvents
    BY <1>1
  <2>2. Framed(emitted) \subseteq ChildFrame
    BY <2>1 DEF Framed, ChildFrame
  <2> QED BY <1>1, <2>2, BufferGrows DEF Generations
<1>6. /\ turns \subseteq 1 .. emitted
      /\ \A v \in Viewers : viewer[v].have \subseteq 1 .. emitted /\ viewer[v].base \in 0 .. emitted
  BY <1>1, StateFacts DEF Panels
<1> QED BY <1>1, <1>2, <1>3, <1>4, <1>5, <1>6 DEF ChildTypeOK, Phases

(* The types of the stream, of its ring buffer and of the panels: what a     *)
(* panel shows has happened, what follows the snapshot is replayed from no   *)
(* later than the newest frame, and events are held back exactly while       *)
(* refreshes are under way (prime-bridge.ts, #refreshRlmChildSnapshot).      *)
THEOREM ChildTypes == ChildSpec => []ChildTypeOK
<1>1. IInv => ChildTypeOK
  BY TypesImply
<1> QED BY <1>1, ChildInvariant, PTL

(* Every panel that found the stream, waited for its initialization or       *)
(* opened it holds one of the references that its release counts down        *)
(* (prime-bridge.ts, #publicRlmChildStream), and no one else does: it is not *)
(* closed under a panel and not kept for none.                               *)
THEOREM ViewersHoldTheStream == ChildSpec => []StreamHeldByViewers
<1>1. IInv => StreamHeldByViewers
  BY DEF IInv, Held, StreamHeldByViewers
<1> QED BY <1>1, ChildInvariant, PTL

=============================================================================
