----------------------------- MODULE RingBuffer -----------------------------
(***************************************************************************)
(* The bounded replay buffer one session stream keeps in memory            *)
(* (web/server/src/ring-buffer.ts).  A buffer is a value: the modules that *)
(* own one hold it in a variable and apply these operators to it.  The     *)
(* random generation id of the code is a number drawn by the owner.        *)
(***************************************************************************)
EXTENDS Naturals, Sequences

CONSTANT Capacity       \* frames retained; the constructor takes max(1, capacity)

ASSUME CapacityAssumption == Capacity \in Nat \ {0}

EmptyBuffer(generation) ==
  [generation |-> generation, nextSeq |-> 1, entries |-> <<>>]

(* Mutant: the eviction is forgotten.                                        *)
PushUnbounded(b, event) ==
  [generation |-> b.generation, nextSeq |-> b.nextSeq + 1,
   entries |-> Append(b.entries, [seq |-> b.nextSeq, event |-> event])]

(* A push numbers the frame and drops the oldest entries over capacity. *)
Push(b, event) ==
  LET grown == Append(b.entries, [seq |-> b.nextSeq, event |-> event])
      over  == Len(grown) - Capacity
  IN  [generation |-> b.generation, nextSeq |-> b.nextSeq + 1,
       entries |-> IF over > 0 THEN SubSeq(grown, over + 1, Len(grown)) ELSE grown]

LatestSequence(b) ==
  IF b.entries = <<>> THEN 0 ELSE b.entries[Len(b.entries)].seq

(* The cursor is ahead of the stream, or frames after it were evicted. *)
Overflowed(b, cursor) ==
  \/ cursor > LatestSequence(b)
  \/ b.entries # <<>> /\ cursor + 1 < b.entries[1].seq

(* Mutant: the frame at the cursor is replayed again.                        *)
ReplaySinceInclusive(b, cursor) ==
  {b.entries[i] : i \in {j \in 1 .. Len(b.entries) : b.entries[j].seq >= cursor}}

(* The entries replaySince returns when the cursor is in range. *)
ReplaySince(b, cursor) ==
  {b.entries[i] : i \in {j \in 1 .. Len(b.entries) : b.entries[j].seq > cursor}}

(* What every reachable buffer looks like: the newest frames, without a hole. *)
IsBuffer(b, Generations, Events) ==
  /\ b \in [generation : Generations, nextSeq : Nat \ {0},
            entries : Seq([seq : Nat \ {0}, event : Events])]
  /\ Len(b.entries) <= Capacity
  /\ b.nextSeq > 1 => b.entries # <<>>
  /\ Len(b.entries) < b.nextSeq
  /\ Len(b.entries) < Capacity => Len(b.entries) = b.nextSeq - 1
  /\ \A i \in 1 .. Len(b.entries) :
        b.entries[i].seq = (b.nextSeq - 1 - Len(b.entries)) + i
=============================================================================
