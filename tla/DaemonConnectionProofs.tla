------------------------ MODULE DaemonConnectionProofs ------------------------
(***************************************************************************)
(* Theorems about DaemonConnection, for any number of events, losses,      *)
(* socket failures and snapshots: events reach the mapper in order and     *)
(* once, a loss is never passed over in silence, a dead socket is          *)
(* noticed, and the frames of a snapshot are released.                     *)
(***************************************************************************)
EXTENDS DaemonConnection, Integers, WellFoundedInduction, TLAPS

------------------------------------------------------------------------------
(* Sequences                                                                 *)

(* Induction over the naturals for a set: what contains 0 and with n also    *)
(* n + 1 contains them all.                                                  *)
LEMMA SetInduction ==
  ASSUME NEW S, 0 \in S, \A n \in Nat : n \in S => n + 1 \in S
  PROVE  \A n \in Nat : n \in S
<1> DEFINE rest == Nat \ S
<1>1. SUFFICES ASSUME rest # {} PROVE FALSE
  OBVIOUS
<1>2. PICK x \in rest : \A y \in rest : ~ (<<y, x>> \in OpToRel(<, Nat))
  BY <1>1, NatLessThanWellFounded, WFMin
<1>3. \A y \in rest : ~ (y < x)
  BY <1>2 DEF OpToRel
<1>4. x \in Nat /\ x \notin S /\ x # 0
  BY <1>2
<1>5. x - 1 \in Nat /\ x - 1 < x /\ (x - 1) + 1 = x
  BY <1>4
<1>6. x - 1 \in S
  BY <1>3, <1>5
<1> QED BY <1>4, <1>5, <1>6

LEMMA MembersOf ==
  ASSUME NEW S, NEW s \in Seq(S)
  PROVE  /\ Members(s) \subseteq S
         /\ \A i \in 1 .. Len(s) : s[i] \in Members(s)
         /\ s = <<>> <=> Members(s) = {}
BY DEF Members

LEMMA MembersOfAppend ==
  ASSUME NEW S, NEW s \in Seq(S), NEW x \in S
  PROVE  Members(Append(s, x)) = Members(s) \union {x}
<1>1. /\ Append(s, x) \in Seq(S) /\ Len(Append(s, x)) = Len(s) + 1
      /\ \A i \in 1 .. Len(s) : Append(s, x)[i] = s[i]
      /\ Append(s, x)[Len(s) + 1] = x
  OBVIOUS
<1> DEFINE t == Append(s, x)
<1>2. DOMAIN t = 1 .. Len(s) + 1 /\ DOMAIN s = 1 .. Len(s) /\ Len(s) \in Nat
  BY <1>1
<1> HIDE DEF t
<1>3. \A i \in 1 .. Len(s) : t[i] = s[i] /\ i \in 1 .. Len(s) + 1
  BY <1>1, <1>2 DEF t
<1>4. t[Len(s) + 1] = x /\ Len(s) + 1 \in 1 .. Len(s) + 1
  BY <1>1, <1>2 DEF t
<1>5. \A i \in 1 .. Len(s) + 1 : i \in 1 .. Len(s) \/ i = Len(s) + 1
  BY <1>2
<1>6. Members(t) = Members(s) \union {x}
  BY <1>2, <1>3, <1>4, <1>5 DEF Members
<1> QED BY <1>6 DEF t

LEMMA MembersOfCat ==
  ASSUME NEW S, NEW s \in Seq(S), NEW t \in Seq(S)
  PROVE  s \o t \in Seq(S) /\ Members(s \o t) = Members(s) \union Members(t)
<1>1. \A y \in Members(s) : y \in Members(s \o t)
  BY DEF Members
<1>2. ASSUME NEW j \in 1 .. Len(t) PROVE t[j] \in Members(s \o t)
  <2>1. Len(s) + j \in 1 .. Len(s \o t) /\ (s \o t)[Len(s) + j] = t[j]
    OBVIOUS
  <2> QED BY <2>1 DEF Members
<1> QED BY <1>1, <1>2 DEF Members

LEMMA MembersOfTail ==
  ASSUME NEW S, NEW s \in Seq(S), s # <<>>
  PROVE  /\ Head(s) \in S /\ Tail(s) \in Seq(S)
         /\ Members(s) = {Head(s)} \union Members(Tail(s))
<1>1. Head(s) = s[1] /\ Len(s) \in Nat \ {0} /\ Len(Tail(s)) = Len(s) - 1
  OBVIOUS
<1>2. \A i \in 1 .. Len(Tail(s)) : Tail(s)[i] = s[i + 1]
  OBVIOUS
<1>3. ASSUME NEW i \in 1 .. Len(s), i # 1 PROVE s[i] \in Members(Tail(s))
  <2>1. i - 1 \in 1 .. Len(Tail(s)) /\ Tail(s)[i - 1] = s[i]
    BY <1>1, <1>2, <1>3
  <2>2. DOMAIN Tail(s) = 1 .. Len(Tail(s))
    OBVIOUS
  <2> QED BY <2>1, <2>2 DEF Members
<1> QED BY <1>1, <1>2, <1>3 DEF Members

(* Selected is defined by recursion; there is a function that its equations  *)
(* define.                                                                   *)
KeptBy(s, T, f, n) ==
  \A i \in 0 .. n : f[i] = IF i = 0 THEN <<>>
                           ELSE IF s[i] \in T THEN Append(f[i - 1], s[i]) ELSE f[i - 1]

LEMMA KeptExists ==
  ASSUME NEW S, NEW s \in Seq(S), NEW T
  PROVE  \E f \in [0 .. Len(s) -> Seq(S \intersect T)] : KeptBy(s, T, f, Len(s))
<1> DEFINE Upto(n) == \E f \in [0 .. n -> Seq(S \intersect T)] : KeptBy(s, T, f, n)
           Good == {n \in Nat : n <= Len(s) => Upto(n)}
<1>1. 0 \in Good
  <2>1. [i \in 0 .. 0 |-> <<>>] \in [0 .. 0 -> Seq(S \intersect T)]
    OBVIOUS
  <2>2. KeptBy(s, T, [i \in 0 .. 0 |-> <<>>], 0)
    BY DEF KeptBy
  <2> QED BY <2>1, <2>2
<1>2. ASSUME NEW n \in Nat, n \in Good PROVE n + 1 \in Good
  <2>1. SUFFICES ASSUME n + 1 <= Len(s) PROVE Upto(n + 1)
    OBVIOUS
  <2>2. PICK f \in [0 .. n -> Seq(S \intersect T)] : KeptBy(s, T, f, n)
    BY <1>2, <2>1
  <2> DEFINE next == IF s[n + 1] \in T THEN Append(f[n], s[n + 1]) ELSE f[n]
             g == [i \in 0 .. n + 1 |-> IF i = n + 1 THEN next ELSE f[i]]
  <2>3. s[n + 1] \in S /\ f[n] \in Seq(S \intersect T)
    BY <2>1, <2>2
  <2>4. next \in Seq(S \intersect T)
    BY <2>3
  <2>5. g \in [0 .. n + 1 -> Seq(S \intersect T)]
    BY <2>2, <2>4
  <2>6. \A i \in 0 .. n : g[i] = f[i]
    OBVIOUS
  <2>7. g[n + 1] = next /\ g[(n + 1) - 1] = f[n]
    OBVIOUS
  <2> HIDE DEF g
  <2>8. \A i \in 0 .. n : i # 0 => g[i - 1] = f[i - 1]
    BY <2>6
  <2> DEFINE Step(f0, i) == IF i = 0 THEN <<>>
                            ELSE IF s[i] \in T THEN Append(f0[i - 1], s[i]) ELSE f0[i - 1]
  <2>9. \A i \in 0 .. n : g[i] = Step(g, i)
    BY <2>2, <2>6, <2>8 DEF KeptBy
  <2>10. g[n + 1] = Step(g, n + 1)
    BY <2>7
  <2>11. \A i \in 0 .. n + 1 : i \in 0 .. n \/ i = n + 1
    OBVIOUS
  <2>12. \A i \in 0 .. n + 1 : g[i] = Step(g, i)
    <3> HIDE DEF Step
    <3> QED BY <2>9, <2>10, <2>11
  <2>13. KeptBy(s, T, g, n + 1)
    BY <2>12 DEF KeptBy
  <2> QED BY <2>5, <2>13
<1>3. \A n \in Nat : n \in Good
  <2> HIDE DEF Good
  <2> QED BY <1>1, <1>2, SetInduction
<1> QED BY <1>3

(* What Selected keeps.                                                      *)
LEMMA SelectedMembers ==
  ASSUME NEW S, NEW s \in Seq(S), NEW T
  PROVE  /\ Selected(s, T) \in Seq(S \intersect T)
         /\ Members(Selected(s, T)) = Members(s) \intersect T
         /\ Len(Selected(s, T)) <= Len(s)
<1> DEFINE Eq(f) == f = [n \in 0 .. Len(s) |->
                          IF n = 0 THEN <<>>
                          ELSE IF s[n] \in T THEN Append(f[n - 1], s[n]) ELSE f[n - 1]]
           kept == CHOOSE f : Eq(f)
<1>1. Selected(s, T) = kept[Len(s)]
  BY DEF Selected
<1>2. \E f : Eq(f)
  <2>1. PICK f \in [0 .. Len(s) -> Seq(S \intersect T)] : KeptBy(s, T, f, Len(s))
    BY KeptExists
  <2> QED BY <2>1 DEF KeptBy
<1>3. Eq(kept)
  BY <1>2
<1> HIDE DEF kept
<1> DEFINE Upto(n) == /\ kept[n] \in Seq(S \intersect T) /\ Len(kept[n]) <= n
                      /\ Members(kept[n]) = {s[j] : j \in 1 .. n} \intersect T
           Good == {n \in Nat : n <= Len(s) => Upto(n)}
<1>4. 0 \in Good
  <2>1. kept[0] = <<>>
    BY <1>3
  <2>2. Members(<<>>) = {}
    BY DEF Members
  <2>3. {s[j] : j \in 1 .. 0} = {}
    OBVIOUS
  <2>4. <<>> \in Seq(S \intersect T) /\ Len(<<>>) = 0
    OBVIOUS
  <2>5. Members(kept[0]) = {s[j] : j \in 1 .. 0} \intersect T
    BY <2>1, <2>2, <2>3
  <2>6. Upto(0)
    BY <2>1, <2>4, <2>5
  <2> HIDE DEF Upto
  <2> QED BY <2>6
<1>5. ASSUME NEW n \in Nat, n \in Good PROVE n + 1 \in Good
  <2>1. SUFFICES ASSUME n + 1 <= Len(s) PROVE Upto(n + 1)
    <3> HIDE DEF Upto
    <3> QED OBVIOUS
  <2>2. /\ kept[n] \in Seq(S \intersect T) /\ Len(kept[n]) <= n
        /\ Members(kept[n]) = {s[j] : j \in 1 .. n} \intersect T
    BY <1>5, <2>1
  <2>3. kept[n + 1] = IF s[n + 1] \in T THEN Append(kept[n], s[n + 1]) ELSE kept[n]
    <3>1. n + 1 \in 0 .. Len(s) /\ n + 1 # 0 /\ (n + 1) - 1 = n
      BY <2>1
    <3>2. kept[n + 1] = IF s[n + 1] \in T THEN Append(kept[(n + 1) - 1], s[n + 1])
                        ELSE kept[(n + 1) - 1]
      BY <1>3, <3>1
    <3> QED BY <3>1, <3>2
  <2>4. {s[j] : j \in 1 .. n + 1} = {s[j] : j \in 1 .. n} \union {s[n + 1]}
    OBVIOUS
  <2>5. s[n + 1] \in S
    BY <2>1
  <2>6. CASE s[n + 1] \in T
    BY <2>2, <2>3, <2>4, <2>5, <2>6, MembersOfAppend
  <2>7. CASE s[n + 1] \notin T
    BY <2>2, <2>3, <2>4, <2>7
  <2> QED BY <2>6, <2>7
<1>6. \A n \in Nat : n \in Good
  <2> HIDE DEF Good
  <2> QED BY <1>4, <1>5, SetInduction
<1>7. Upto(Len(s))
  <2> HIDE DEF Upto
  <2> QED BY <1>6
<1> QED BY <1>1, <1>7 DEF Members

------------------------------------------------------------------------------
(* The inductive invariant                                                   *)

Kinds    == {"direct", "update"}
Purposes == {"attach", "replacement", "foreign"}

EventFrames(S) == [type : {"event"}, n : S, kind : Kinds]

StreamFrames(s, k) ==
  [type : {"begin"}, id : 1 .. k, purpose : Purposes]
    \union [type : {"end"}, id : 1 .. k, purpose : Purposes, n : 0 .. s]

AnswerFrames(s, k) ==
  [type : {"reattached"}, id : 0 .. k, n : 0 .. s]
    \union [type : {"messages"}, n : 0 .. s] \union [type : {"rest"}]

Frames(S, s, k) == EventFrames(S) \union StreamFrames(s, k) \union AnswerFrames(s, k)

Jobs(s, k) ==
  [do : {"gap", "read", "readFailed"}] \union [do : {"resync"}, n : 0 .. s]
    \union [do : {"reattached", "collected", "replaced"}, n : 0 .. s, id : 0 .. k]

(* The events that the daemon has not lost.                                  *)
Arriving == (1 .. seq) \ lost

DaemonTyped ==
  /\ seq \in 0 .. MaxSequence /\ lost \subseteq 1 .. seq /\ parked \in {0} \union Arriving
  /\ streams \in Nat /\ link \in BOOLEAN /\ extra \in 0 .. MaxSnapshots
  /\ wire \in Seq(Frames(Arriving, seq, streams)) /\ outbox \in Seq(StreamFrames(seq, streams))

ClientTyped ==
  /\ inChunk \in BOOLEAN /\ jobs \in Seq(Jobs(seq, streams))
  /\ closed \in {"no", "socket", "deadline", "refused", "timeout", "snapshot"}
  /\ phase \in {"none", "reconnecting", "reattaching", "collecting"}
  /\ recoveryFrames \in Seq(EventFrames(Arriving))
  /\ buffer \in Seq(StreamFrames(seq, streams))
  /\ shared \in BOOLEAN /\ waitingFor \in 0 .. streams
  /\ cursor \in 0 .. seq /\ position \in 0 .. seq
  /\ faults \in 0 .. MaxFaults

BridgeTyped ==
  /\ upto \in 0 .. seq /\ fresh \in BOOLEAN
  /\ awaiting \subseteq {"messages", "rest"} /\ read \in 0 .. seq
  /\ inFlight \in BOOLEAN /\ pending \in BOOLEAN /\ wanted \in 0 .. seq /\ stale \in BOOLEAN
  /\ base \in 0 .. seq /\ mapped \in Seq(EventFrames(Arriving)) /\ told \in 0 .. seq
  /\ abandoned \subseteq lost

Types == DaemonTyped /\ ClientTyped /\ BridgeTyped

(* A dead socket is being recovered, and nothing of it is left to handle.    *)
DeadLink ==
  ~link => /\ wire = <<>> /\ outbox = <<>> /\ phase # "none"
           /\ \A job \in Members(jobs) : job.do = "readFailed"

(* What the daemon writes: f before g.  A replacement has the events before  *)
(* it, the end of a stream is its last frame, and one reattach is answered.  *)
Follows(f, g) ==
  /\ f.type = "event" /\ g.type = "end" /\ g.purpose = "replacement" => f.n <= g.n
  /\ f.type = "end" /\ g.type \in {"begin", "end"} =>
       f.id # g.id /\ (f.purpose = "attach" => g.purpose # "attach")
  /\ ~ (f.type = "reattached" /\ g.type = "reattached")

Ordered(s) == \A i, j \in 1 .. Len(s) : i < j => Follows(s[i], s[j])

Order ==
  /\ Ordered(wire) /\ Ordered(outbox)
  /\ \A f \in Members(wire), g \in Members(outbox) : Follows(f, g)

Coming == Members(wire) \union Members(outbox)

OfAttach(f) == f.type \in {"begin", "end"} /\ f.purpose = "attach"
Ending(f, id) == f.type = "end" /\ f.id = id
Doing(job, do, id) == job.do = do /\ job.id = id

NoAttach == \A f \in Coming : ~ OfAttach(f)

(* One answer to a reattach is on the way or being dealt with, and the       *)
(* stream it names is all there is of its kind.                              *)
Reattaching ==
  /\ phase \in {"none", "reconnecting"} => NoAttach
  /\ phase = "reattaching" =>
       \/ NoAttach
       \/ \E g \in Members(wire) : g.type = "reattached"
       \/ \E job \in Members(jobs) : job.do = "reattached"
  /\ \A g \in Members(wire) : g.type = "reattached" =>
       /\ phase = "reattaching" /\ (g.id = 0 => NoAttach)
       /\ \A job \in Members(jobs) : job.do # "reattached"
  /\ \A i \in 1 .. Len(jobs) :
       /\ jobs[i].do = "reattached" => phase = "reattaching" /\ (jobs[i].id = 0 => NoAttach)
       /\ jobs[i].do = "collected" => phase = "collecting" /\ NoAttach
       /\ jobs[i].do \in {"reattached", "collected"} =>
            \A j \in 1 .. Len(jobs) : jobs[j].do = jobs[i].do => i = j

(* The events m rise from the base b, and c is the last of these numbers.    *)
Rising(m, b, c) ==
  /\ c \in {b} \union {f.n : f \in Members(m)}
  /\ \A f \in Members(m) : b < f.n /\ f.n <= c
  /\ \A i, j \in 1 .. Len(m) : i < j => m[i].n < m[j].n

Cursor == Rising(mapped, base, cursor) /\ base <= told

Covered(n) ==
  \/ told >= n \/ inFlight \/ phase # "none"
  \/ \E job \in Members(jobs) : job.do \in {"gap", "replaced"}

(* A loss is told, or will be, once an event after it was mapped and once    *)
(* the tracker has passed it.                                                *)
Losses ==
  /\ \A n \in lost \ abandoned : Exposed(n) \/ (cursor < n /\ n <= position) => Covered(n)
  /\ phase = "none" => \/ \E job \in Members(jobs) : job.do = "replaced"
                       \/ \A f \in Members(mapped) : f.n <= position

(* A replacement whose end is still to come: nothing that was handled before *)
(* is newer, and its beginning is at hand unless a recovery told its events. *)
Replacements ==
  \A e \in Coming : e.type = "end" /\ e.purpose = "replacement" =>
    /\ phase = "none" =>
         e.n <= told \/ Begin(e.id, "replacement") \in Members(buffer) \union Coming
    /\ \A f \in Members(mapped) \union Members(recoveryFrames) : f.n <= e.n
    /\ \A job \in Members(jobs) : ~ Doing(job, "replaced", e.id)

(* What is buffered has its end to come, or is about to be applied.          *)
Buffered ==
  /\ \A f \in Coming : f.type = "begin" => \E e \in Coming : Ending(e, f.id)
  /\ phase = "none" => \A g \in Members(buffer) :
       \/ \E e \in Coming : Ending(e, g.id)
       \/ \E job \in Members(jobs) : Doing(job, "replaced", g.id)

IInv ==
  /\ Types /\ DeadLink /\ Order /\ Reattaching
  /\ Cursor /\ Losses /\ Replacements /\ Buffered

------------------------------------------------------------------------------
(* The sequences of frames                                                   *)

LEMMA SeqGrows ==
  ASSUME NEW S, NEW T, S \subseteq T, NEW s \in Seq(S)
  PROVE  s \in Seq(T)
OBVIOUS

LEMMA OrderedCat ==
  ASSUME NEW S, NEW s \in Seq(S), NEW t \in Seq(S), Ordered(s), Ordered(t),
         \A f \in Members(s), g \in Members(t) : Follows(f, g)
  PROVE  Ordered(s \o t)
<1> SUFFICES ASSUME NEW i \in 1 .. Len(s \o t), NEW j \in 1 .. Len(s \o t), i < j
             PROVE  Follows((s \o t)[i], (s \o t)[j])
  BY DEF Ordered
<1>1. Len(s) \in Nat /\ Len(t) \in Nat /\ Len(s \o t) = Len(s) + Len(t)
  OBVIOUS
<1>2. \A l \in 1 .. Len(s) : (s \o t)[l] = s[l]
  OBVIOUS
<1>3. \A l \in Len(s) + 1 .. Len(s) + Len(t) :
        l - Len(s) \in 1 .. Len(t) /\ (s \o t)[l] = t[l - Len(s)]
  OBVIOUS
<1>4. CASE j <= Len(s)
  <2>1. i \in 1 .. Len(s) /\ j \in 1 .. Len(s)
    BY <1>1, <1>4
  <2> QED BY <1>2, <2>1 DEF Ordered
<1>5. CASE i > Len(s)
  <2>1. i - Len(s) \in 1 .. Len(t) /\ j - Len(s) \in 1 .. Len(t) /\ i - Len(s) < j - Len(s)
    BY <1>1, <1>5
  <2>2. (s \o t)[i] = t[i - Len(s)] /\ (s \o t)[j] = t[j - Len(s)]
    BY <1>1, <1>3, <1>5
  <2> QED BY <2>1, <2>2 DEF Ordered
<1>6. CASE i <= Len(s) /\ j > Len(s)
  <2>1. i \in 1 .. Len(s) /\ j - Len(s) \in 1 .. Len(t) /\ (s \o t)[j] = t[j - Len(s)]
    BY <1>1, <1>3, <1>6
  <2>2. s[i] \in Members(s) /\ t[j - Len(s)] \in Members(t)
    BY <2>1, MembersOf
  <2> QED BY <1>2, <2>1, <2>2
<1> QED BY <1>1, <1>4, <1>5, <1>6

LEMMA OrderedTail ==
  ASSUME NEW S, NEW s \in Seq(S), s # <<>>, Ordered(s)
  PROVE  Ordered(Tail(s)) /\ \A g \in Members(Tail(s)) : Follows(Head(s), g)
<1>1. /\ Len(s) \in Nat \ {0} /\ Len(Tail(s)) = Len(s) - 1 /\ Head(s) = s[1]
      /\ DOMAIN Tail(s) = 1 .. Len(Tail(s))
      /\ \A i \in 1 .. Len(Tail(s)) : Tail(s)[i] = s[i + 1]
  OBVIOUS
<1>2. \A i \in 1 .. Len(Tail(s)) : i + 1 \in 1 .. Len(s) /\ 1 < i + 1 /\ 1 \in 1 .. Len(s)
  BY <1>1
<1>3. \A i, j \in 1 .. Len(Tail(s)) : i < j => i + 1 < j + 1
  BY <1>1
<1> QED BY <1>1, <1>2, <1>3 DEF Ordered, Members

(* Selected keeps the order.                                                 *)
LEMMA OrderedSelected ==
  ASSUME NEW S, NEW s \in Seq(S), NEW T, Ordered(s)
  PROVE  Ordered(Selected(s, T))
<1> DEFINE Eq(f) == f = [n \in 0 .. Len(s) |->
                          IF n = 0 THEN <<>>
                          ELSE IF s[n] \in T THEN Append(f[n - 1], s[n]) ELSE f[n - 1]]
           kept == CHOOSE f : Eq(f)
<1>1. Selected(s, T) = kept[Len(s)]
  BY DEF Selected
<1>2. \E f : Eq(f)
  <2>1. PICK f \in [0 .. Len(s) -> Seq(S \intersect T)] : KeptBy(s, T, f, Len(s))
    BY KeptExists
  <2> QED BY <2>1 DEF KeptBy
<1>3. Eq(kept)
  BY <1>2
<1> HIDE DEF kept
<1> DEFINE Upto(n) == /\ kept[n] \in Seq(S) /\ Ordered(kept[n])
                      /\ \A f \in Members(kept[n]), j \in 1 .. Len(s) :
                           n < j => Follows(f, s[j])
           Good == {n \in Nat : n <= Len(s) => Upto(n)}
<1>4. 0 \in Good
  <2>1. kept[0] = <<>>
    BY <1>3
  <2>2. Members(<<>>) = {} /\ Ordered(<<>>) /\ <<>> \in Seq(S)
    BY DEF Members, Ordered
  <2>3. Upto(0)
    BY <2>1, <2>2
  <2> HIDE DEF Upto
  <2> QED BY <2>3
<1>5. ASSUME NEW n \in Nat, n \in Good PROVE n + 1 \in Good
  <2>1. SUFFICES ASSUME n + 1 <= Len(s) PROVE Upto(n + 1)
    <3> HIDE DEF Upto
    <3> QED OBVIOUS
  <2>2. /\ kept[n] \in Seq(S) /\ Ordered(kept[n])
        /\ \A f \in Members(kept[n]), j \in 1 .. Len(s) : n < j => Follows(f, s[j])
    BY <1>5, <2>1
  <2>3. kept[n + 1] = IF s[n + 1] \in T THEN Append(kept[n], s[n + 1]) ELSE kept[n]
    <3>1. n + 1 \in 0 .. Len(s) /\ n + 1 # 0 /\ (n + 1) - 1 = n
      BY <2>1
    <3>2. kept[n + 1] = IF s[n + 1] \in T THEN Append(kept[(n + 1) - 1], s[n + 1])
                        ELSE kept[(n + 1) - 1]
      BY <1>3, <3>1
    <3> QED BY <3>1, <3>2
  <2>4. n + 1 \in 1 .. Len(s) /\ s[n + 1] \in S /\ n < n + 1
    BY <2>1
  <2>5. \A j \in 1 .. Len(s) : n + 1 < j => n < j
    OBVIOUS
  <2>6. CASE s[n + 1] \notin T
    BY <2>2, <2>3, <2>5, <2>6
  <2>7. CASE s[n + 1] \in T
    <3> DEFINE x == s[n + 1]
               one == <<x>>
    <3>1. one \in Seq(S) /\ Members(one) = {x} /\ Ordered(one)
      BY <2>4 DEF Members, Ordered
    <3>2. Append(kept[n], x) = kept[n] \o one
      BY <2>2, <2>4
    <3>3. \A f \in Members(kept[n]) : Follows(f, x)
      BY <2>2, <2>4
    <3> HIDE DEF one
    <3>4. kept[n] \o one \in Seq(S) /\ Members(kept[n] \o one) = Members(kept[n]) \union {x}
      BY <2>2, <3>1, MembersOfCat
    <3>5. Ordered(kept[n] \o one)
      <4>1. \A f \in Members(kept[n]), g \in Members(one) : Follows(f, g)
        BY <3>1, <3>3
      <4> QED BY <2>2, <3>1, <4>1, OrderedCat
    <3>6. \A j \in 1 .. Len(s) : n + 1 < j => Follows(x, s[j])
      BY <2>4 DEF Ordered
    <3> QED BY <2>2, <2>3, <2>5, <2>7, <3>2, <3>4, <3>5, <3>6
  <2> QED BY <2>6, <2>7
<1>6. \A n \in Nat : n \in Good
  <2> HIDE DEF Good
  <2> QED BY <1>4, <1>5, SetInduction
<1>7. Upto(Len(s))
  <2> HIDE DEF Upto
  <2> QED BY <1>6
<1> QED BY <1>1, <1>7

LEMMA FramesGrow ==
  ASSUME NEW A, NEW B, A \subseteq B, NEW s \in Nat, NEW t \in Nat, s <= t,
         NEW k \in Nat, NEW l \in Nat, k <= l
  PROVE  /\ EventFrames(A) \subseteq EventFrames(B)
         /\ StreamFrames(s, k) \subseteq StreamFrames(t, l)
         /\ Frames(A, s, k) \subseteq Frames(B, t, l)
         /\ Jobs(s, k) \subseteq Jobs(t, l)
<1>1. 0 .. s \subseteq 0 .. t /\ 0 .. k \subseteq 0 .. l /\ 1 .. k \subseteq 1 .. l
  OBVIOUS
<1>2. EventFrames(A) \subseteq EventFrames(B)
  BY DEF EventFrames
<1>3. StreamFrames(s, k) \subseteq StreamFrames(t, l)
  BY <1>1 DEF StreamFrames
<1>4. AnswerFrames(s, k) \subseteq AnswerFrames(t, l)
  BY <1>1 DEF AnswerFrames
<1>5. Jobs(s, k) \subseteq Jobs(t, l)
  BY <1>1 DEF Jobs
<1> QED BY <1>2, <1>3, <1>4, <1>5 DEF Frames

(* What the type of a frame says of it.                                      *)
LEMMA StreamFrame ==
  ASSUME NEW s, NEW k, NEW f \in StreamFrames(s, k)
  PROVE  /\ f.type \in {"begin", "end"} /\ f.id \in 1 .. k /\ f.purpose \in Purposes
         /\ f.type = "begin" => f = Begin(f.id, f.purpose)
         /\ f.type = "end" => f.n \in 0 .. s
BY DEF StreamFrames, Begin

LEMMA AnswerFrame ==
  ASSUME NEW s, NEW k, NEW f \in AnswerFrames(s, k)
  PROVE  /\ f.type \in {"reattached", "messages", "rest"}
         /\ f.type = "reattached" => f.id \in 0 .. k /\ f.n \in 0 .. s
         /\ f.type = "messages" => f.n \in 0 .. s
BY DEF AnswerFrames

LEMMA FrameKinds ==
  ASSUME NEW A, NEW s, NEW k, NEW f \in Frames(A, s, k)
  PROVE  /\ f.type \in {"event", "begin", "end", "reattached", "messages", "rest"}
         /\ f.type = "event" => f \in EventFrames(A) /\ f.n \in A /\ f.kind \in Kinds
         /\ f.type \in {"begin", "end"} => f \in StreamFrames(s, k)
         /\ f.type \in {"reattached", "messages", "rest"} => f \in AnswerFrames(s, k)
<1>1. CASE f \in EventFrames(A)
  BY <1>1 DEF EventFrames
<1>2. CASE f \in StreamFrames(s, k)
  BY <1>2, StreamFrame
<1>3. CASE f \in AnswerFrames(s, k)
  BY <1>3, AnswerFrame
<1> QED BY <1>1, <1>2, <1>3 DEF Frames

(* A frame that is of no stream follows anything, but one answer another.    *)
LEMMA AnythingBefore ==
  ASSUME NEW f, NEW g, g.type \in {"event", "messages", "rest"}
  PROVE  Follows(f, g)
BY DEF Follows

LEMMA FollowedByAnything ==
  ASSUME NEW f, NEW g, f.type \in {"begin", "messages", "rest"}
  PROVE  Follows(f, g)
BY DEF Follows

LEMMA ComingTyped ==
  ASSUME IInv
  PROVE  /\ Members(wire) \subseteq Frames(Arriving, seq, streams)
         /\ Members(outbox) \subseteq StreamFrames(seq, streams)
         /\ Coming \subseteq Frames(Arriving, seq, streams)
<1>1. wire \in Seq(Frames(Arriving, seq, streams)) /\ outbox \in Seq(StreamFrames(seq, streams))
  BY DEF IInv, Types, DaemonTyped
<1>2. /\ Members(wire) \subseteq Frames(Arriving, seq, streams)
      /\ Members(outbox) \subseteq StreamFrames(seq, streams)
  BY <1>1, MembersOf
<1> QED BY <1>2 DEF Coming, Frames

------------------------------------------------------------------------------
(* The steps of the daemon                                                   *)

(* What the daemon does leaves the client's part of the invariant as it is,  *)
(* whatever it wrote, as long as an end is either old, or new and last.      *)
LEMMA DaemonStep ==
  ASSUME IInv, UNCHANGED <<link, client>>, DaemonTyped', Order', Reattaching',
         seq <= seq', streams <= streams', Arriving \subseteq Arriving', lost \subseteq lost',
         \A n \in lost' \ lost : n > seq,
         ~link => wire' = <<>> /\ outbox' = <<>>,
         Coming \subseteq Coming',
         \A f \in Coming' : f.type = "begin" =>
           f \in Coming \/ \E e \in Coming' : Ending(e, f.id),
         \A e \in Coming' : e.type = "end" /\ e.purpose = "replacement" =>
           \/ e \in Coming
           \/ /\ e.n = seq /\ e.id \notin 0 .. streams
              /\ Begin(e.id, "replacement") \in Coming'
  PROVE  IInv'
<1>1. /\ Types /\ DeadLink /\ Cursor /\ Losses /\ Replacements /\ Buffered
      /\ DaemonTyped /\ ClientTyped /\ BridgeTyped
  BY DEF IInv, Types
<1>2. UNCHANGED <<inChunk, jobs, closed, phase, recoveryFrames, held, shared, waitingFor,
                  buffer, cursor, position, upto, fresh, awaiting, read, inFlight, pending,
                  wanted, stale, base, mapped, told, abandoned, faults>>
  BY DEF client, recovery, snapshot, bridge, history
<1>3. /\ seq \in Nat /\ seq' \in Nat /\ streams \in Nat /\ streams' \in Nat
      /\ lost \subseteq Nat /\ lost' \subseteq Nat
  BY <1>1, DaemonConnectionAssumption DEF DaemonTyped
<1>4. /\ EventFrames(Arriving) \subseteq EventFrames(Arriving')
      /\ StreamFrames(seq, streams) \subseteq StreamFrames(seq', streams')
      /\ Jobs(seq, streams) \subseteq Jobs(seq', streams')
      /\ 0 .. seq \subseteq 0 .. seq' /\ 0 .. streams \subseteq 0 .. streams'
  <2>1. 0 .. seq \subseteq 0 .. seq' /\ 0 .. streams \subseteq 0 .. streams'
    BY <1>3
  <2> QED BY <1>3, <2>1, FramesGrow
<1>5. ClientTyped'
  <2>1. jobs \in Seq(Jobs(seq', streams'))
    BY <1>1, <1>4, SeqGrows DEF ClientTyped
  <2>2. recoveryFrames \in Seq(EventFrames(Arriving'))
    BY <1>1, <1>4, SeqGrows DEF ClientTyped
  <2>3. buffer \in Seq(StreamFrames(seq', streams'))
    BY <1>1, <1>4, SeqGrows DEF ClientTyped
  <2> QED BY <1>1, <1>2, <1>4, <2>1, <2>2, <2>3 DEF ClientTyped
<1>6. BridgeTyped'
  <2>1. mapped \in Seq(EventFrames(Arriving'))
    BY <1>1, <1>4, SeqGrows DEF BridgeTyped
  <2> QED BY <1>1, <1>2, <1>4, <2>1 DEF BridgeTyped
<1>7. DeadLink'
  BY <1>1, <1>2 DEF DeadLink
<1>8. Cursor'
  BY <1>1, <1>2 DEF Cursor
<1>9. Losses'
  <2>1. \A n : (Covered(n)' <=> Covered(n)) /\ (Exposed(n)' <=> Exposed(n))
    BY <1>2 DEF Covered, Exposed
  <2>2. ASSUME NEW n \in lost', n > seq
        PROVE  ~ Exposed(n) /\ ~ (cursor < n /\ n <= position)
    <3>1. \A f \in Members(mapped) : f.n <= seq
      <4>1. Members(mapped) \subseteq EventFrames(Arriving)
        BY <1>1, MembersOf DEF BridgeTyped
      <4> QED BY <4>1 DEF EventFrames, Arriving
    <3>2. \A i \in DOMAIN mapped : ~ (mapped[i].n > n)
      <4>1. \A i \in DOMAIN mapped : mapped[i] \in Members(mapped) /\ mapped[i].n \in Nat
        <5>1. mapped \in Seq(EventFrames(Arriving))
          BY <1>1 DEF BridgeTyped
        <5>2. \A f \in EventFrames(Arriving) : f.n \in Nat
          BY <1>3 DEF EventFrames, Arriving
        <5> QED BY <5>1, <5>2 DEF Members
      <4> QED BY <1>3, <2>2, <3>1, <4>1
    <3>3. position \in 0 .. seq
      BY <1>1 DEF ClientTyped
    <3> QED BY <1>3, <2>2, <3>2, <3>3 DEF Exposed
  <2>3. \A n \in lost' \ abandoned' :
          (Exposed(n) \/ (cursor < n /\ n <= position)) => Covered(n)
    BY <1>1, <1>2, <2>2 DEF Losses
  <2> QED BY <1>1, <1>2, <2>1, <2>3 DEF Losses
<1>10. Replacements'
  <2>1. SUFFICES ASSUME NEW e \in Coming', e.type = "end", e.purpose = "replacement"
        PROVE /\ phase' = "none" => e.n <= told'
                   \/ Begin(e.id, "replacement") \in Members(buffer') \union Coming'
              /\ \A f \in Members(mapped') \union Members(recoveryFrames') : f.n <= e.n
              /\ \A job \in Members(jobs') : ~ Doing(job, "replaced", e.id)
    BY DEF Replacements
  <2>2. CASE e \in Coming
    BY <1>1, <1>2, <2>1, <2>2 DEF Replacements
  <2>3. CASE /\ e.n = seq /\ e.id \notin 0 .. streams
             /\ Begin(e.id, "replacement") \in Coming'
    <3>1. \A f \in Members(mapped) \union Members(recoveryFrames) : f.n <= e.n
      <4>1. /\ Members(mapped) \subseteq EventFrames(Arriving)
            /\ Members(recoveryFrames) \subseteq EventFrames(Arriving)
        BY <1>1, MembersOf DEF BridgeTyped, ClientTyped
      <4> QED BY <2>3, <4>1 DEF EventFrames, Arriving
    <3>2. \A job \in Members(jobs) : ~ Doing(job, "replaced", e.id)
      <4>1. Members(jobs) \subseteq Jobs(seq, streams)
        BY <1>1, MembersOf DEF ClientTyped
      <4>2. \A job \in Jobs(seq, streams) : job.do = "replaced" => job.id \in 0 .. streams
        BY DEF Jobs
      <4> QED BY <2>3, <4>1, <4>2 DEF Doing
    <3> QED BY <1>2, <2>3, <3>1, <3>2
  <2> QED BY <2>1, <2>2, <2>3
<1>11. Buffered'
  BY <1>1, <1>2 DEF Buffered
<1> QED BY <1>5, <1>6, <1>7, <1>8, <1>9, <1>10, <1>11 DEF IInv, Types

(* Nothing that has to do with a reattach was written.                       *)
LEMMA ReattachingSame ==
  ASSUME IInv, UNCHANGED <<phase, jobs>>,
         \A f \in Coming' : OfAttach(f) => f \in Coming,
         \A g \in Members(wire) : g.type = "reattached" => g \in Members(wire'),
         \A g \in Members(wire') : g.type = "reattached" => g \in Members(wire)
  PROVE  Reattaching'
<1>1. NoAttach => NoAttach'
  BY DEF NoAttach
<1>2. Reattaching
  BY DEF IInv
<1> QED BY <1>1, <1>2 DEF Reattaching

(* Events and answers are written after what is on the way, but no event     *)
(* while a replacement is being written.                                     *)
LEMMA PlainWrites ==
  ASSUME IInv, UNCHANGED <<link, outbox, streams, extra, client>>,
         seq' \in seq .. MaxSequence, parked' \in {0} \union Arriving',
         lost \subseteq lost', lost' \subseteq 1 .. seq', \A n \in lost' \ lost : n > seq,
         NEW more \in Seq(Frames(Arriving', seq', streams')), wire' = Written(more),
         \A g \in Members(more) : \/ g.type \in {"messages", "rest"}
                                  \/ g.type = "event" /\ ~Replacing
  PROVE  IInv'
<1>1. /\ DaemonTyped /\ DeadLink /\ Order /\ seq \in Nat /\ seq' \in Nat /\ streams \in Nat
      /\ seq <= seq' /\ lost \subseteq Nat /\ streams' \in Nat /\ streams <= streams'
  BY DaemonConnectionAssumption DEF IInv, Types, DaemonTyped
<1>2. Arriving \subseteq Arriving'
  <2>1. ASSUME NEW n \in 1 .. seq, n \notin lost PROVE n \in 1 .. seq' /\ n \notin lost'
    BY <1>1, <2>1
  <2> QED BY <2>1 DEF Arriving
<1>3. wire \in Seq(Frames(Arriving', seq', streams'))
  <2>1. Frames(Arriving, seq, streams) \subseteq Frames(Arriving', seq', streams')
    BY <1>1, <1>2, FramesGrow
  <2> QED BY <1>1, <2>1, SeqGrows DEF DaemonTyped
<1>4. outbox \in Seq(StreamFrames(seq', streams'))
  <2>1. StreamFrames(seq, streams) \subseteq StreamFrames(seq', streams')
    BY <1>1, <1>2, FramesGrow
  <2> QED BY <1>1, <2>1, SeqGrows DEF DaemonTyped
<1>5. /\ wire \o more \in Seq(Frames(Arriving', seq', streams'))
      /\ Members(wire \o more) = Members(wire) \union Members(more)
  BY <1>3, MembersOfCat
<1>6. \A f, g : g \in Members(more) => Follows(f, g)
  BY AnythingBefore
<1>7. Ordered(wire \o more)
  <2>1. Ordered(more)
    BY <1>6, MembersOf DEF Ordered
  <2> QED BY <1>1, <1>3, <1>6, <2>1, OrderedCat DEF Order
<1>8. \A f \in Members(more), g \in Members(outbox) : Follows(f, g)
  <2>1. ASSUME NEW f \in Members(more), NEW g \in Members(outbox) PROVE Follows(f, g)
    <3>1. CASE f.type \in {"messages", "rest"}
      BY <3>1, FollowedByAnything
    <3>2. CASE f.type = "event" /\ ~Replacing
      BY <3>2 DEF Follows, Replacing
    <3> QED BY <2>1, <3>1, <3>2
  <2> QED BY <2>1
<1>9. /\ wire' \in Seq(Frames(Arriving', seq', streams'))
      /\ Members(wire') \in {Members(wire), Members(wire) \union Members(more)}
      /\ Members(wire) \subseteq Members(wire') /\ Ordered(wire')
      /\ ~link => wire' = <<>> /\ outbox' = <<>>
  BY <1>1, <1>3, <1>5, <1>7 DEF Written, DeadLink, Order
<1>10. \A f \in Coming' : f \in Coming \/ f \in Members(more)
  BY <1>9 DEF Coming
<1>11. Coming \subseteq Coming'
  BY <1>9 DEF Coming
<1>12. Order'
  BY <1>1, <1>8, <1>9 DEF Order
<1>13. DaemonTyped'
  BY <1>1, <1>4, <1>9 DEF DaemonTyped
<1>14. Reattaching'
  <2>1. UNCHANGED <<phase, jobs>>
    BY DEF client, recovery
  <2>2. \A f \in Members(more) : f.type \notin {"begin", "end", "reattached"}
    OBVIOUS
  <2>3. \A f \in Coming' : OfAttach(f) => f \in Coming
    BY <1>10, <2>2 DEF OfAttach
  <2>4. \A g \in Members(wire') : g.type = "reattached" => g \in Members(wire)
    BY <1>9, <2>2
  <2> QED BY <1>9, <2>1, <2>3, <2>4, ReattachingSame
<1>15. \A f \in Coming' : f.type \in {"begin", "end"} => f \in Coming
  BY <1>10
<1> QED BY <1>1, <1>2, <1>9, <1>11, <1>12, <1>13, <1>14, <1>15, DaemonStep

LEMMA EventTyped ==
  ASSUME NEW A, NEW s, NEW k, NEW n \in A, NEW kind \in Kinds
  PROVE  /\ Event(n, kind) \in Frames(A, s, k) /\ Event(n, kind).type = "event"
         /\ Event(n, kind).n = n
BY DEF Event, Frames, EventFrames

LEMMA One ==
  ASSUME NEW S, NEW x \in S
  PROVE  <<x>> \in Seq(S) /\ Members(<<x>>) = {x}
BY DEF Members

LEMMA NoneWritten ==
  ASSUME IInv
  PROVE  /\ Members(<<>>) = {} /\ wire = Written(<<>>)
         /\ \A A, s, k : <<>> \in Seq(Frames(A, s, k))
<1>1. \A A, s, k : <<>> \in Seq(Frames(A, s, k))
  OBVIOUS
<1>2. wire \o <<>> = wire
  BY DEF IInv, Types, DaemonTyped
<1> QED BY <1>1, <1>2 DEF Members, Written

LEMMA Parking ==
  ASSUME IInv, ParkUpdate \/ DropUpdates
  PROVE  IInv'
<1>1. /\ UNCHANGED <<lost, outbox, streams, link, wire, extra, client>>
      /\ seq' \in {seq, seq + 1} /\ seq' <= MaxSequence /\ parked' \in {0, seq'}
      /\ parked' = 0 \/ seq' = seq + 1
  BY DaemonConnectionAssumption DEF ParkUpdate, DropUpdates, IInv, Types, DaemonTyped
<1>2. seq \in Nat /\ lost \subseteq 1 .. seq /\ MaxSequence \in Nat
  BY DaemonConnectionAssumption DEF IInv, Types, DaemonTyped
<1>3. seq' \in seq .. MaxSequence /\ lost' \subseteq 1 .. seq' /\ parked' \in {0} \union Arriving'
  BY <1>1, <1>2 DEF Arriving
<1>4. Members(<<>>) = {} /\ wire' = Written(<<>>)
      /\ <<>> \in Seq(Frames(Arriving', seq', streams'))
  BY <1>1, NoneWritten
<1> QED BY <1>1, <1>3, <1>4, PlainWrites

LEMMA Losing ==
  ASSUME IInv, LoseEvent
  PROVE  IInv'
<1>1. /\ UNCHANGED <<parked, outbox, streams, link, wire, extra, client>>
      /\ seq' = seq + 1 /\ seq < MaxSequence /\ lost' = lost \union {seq'} /\ parked = 0
  BY DEF LoseEvent
<1>2. seq \in Nat /\ lost \subseteq 1 .. seq /\ MaxSequence \in Nat
  BY DaemonConnectionAssumption DEF IInv, Types, DaemonTyped
<1>3. seq' \in seq .. MaxSequence /\ lost' \subseteq 1 .. seq' /\ \A n \in lost' \ lost : n > seq
  BY <1>1, <1>2
<1>4. Members(<<>>) = {} /\ wire' = Written(<<>>)
      /\ <<>> \in Seq(Frames(Arriving', seq', streams'))
  BY <1>1, NoneWritten
<1> QED BY <1>1, <1>3, <1>4, PlainWrites

LEMMA ParkedTyped ==
  ASSUME IInv
  PROVE  /\ Parked \in Seq(Frames(Arriving, seq, streams))
         /\ \A g \in Members(Parked) : g.type = "event"
<1>1. CASE parked = 0
  BY <1>1 DEF Parked, Members
<1>2. CASE parked # 0
  <2> DEFINE f == Event(parked, "update")
  <2>1. f \in Frames(Arriving, seq, streams) /\ f.type = "event"
    <3>1. parked \in Arriving /\ "update" \in Kinds
      BY <1>2 DEF IInv, Types, DaemonTyped, Kinds
    <3> QED BY <3>1, EventTyped
  <2>2. Parked = <<f>>
    BY <1>2 DEF Parked
  <2> HIDE DEF f
  <2> QED BY <2>1, <2>2, One
<1> QED BY <1>1, <1>2

LEMMA Flushing ==
  ASSUME IInv, FlushUpdates
  PROVE  IInv'
<1>1. /\ UNCHANGED <<seq, lost, outbox, streams, link, extra, client>>
      /\ ~Replacing /\ parked' = 0 /\ wire' = Written(Parked)
  BY DEF FlushUpdates
<1>2. seq' \in seq .. MaxSequence /\ lost' \subseteq 1 .. seq' /\ Arriving' = Arriving
  BY <1>1, DaemonConnectionAssumption DEF IInv, Types, DaemonTyped, Arriving
<1>3. /\ Parked \in Seq(Frames(Arriving', seq', streams'))
      /\ \A g \in Members(Parked) : g.type = "event"
  BY <1>1, <1>2, ParkedTyped
<1> QED BY <1>1, <1>2, <1>3, PlainWrites

LEMMA Emitting ==
  ASSUME IInv, EmitEvent
  PROVE  IInv'
<1> DEFINE f == Event(seq', "direct")
<1>1. /\ UNCHANGED <<lost, outbox, streams, link, extra, client>>
      /\ ~Replacing /\ parked' = 0 /\ seq < MaxSequence /\ seq' = seq + 1
      /\ wire' = Written(Parked \o <<f>>)
  BY DEF EmitEvent
<1>2. /\ seq \in Nat /\ lost \subseteq 1 .. seq /\ MaxSequence \in Nat /\ streams \in Nat
      /\ seq' \in Nat /\ seq <= seq' /\ streams' \in Nat /\ streams <= streams'
  BY <1>1, DaemonConnectionAssumption DEF IInv, Types, DaemonTyped
<1>3. /\ seq' \in seq .. MaxSequence /\ lost' \subseteq 1 .. seq' /\ seq' \in Arriving'
      /\ Arriving \subseteq Arriving'
  BY <1>1, <1>2 DEF Arriving
<1>4. Frames(Arriving, seq, streams) \subseteq Frames(Arriving', seq', streams')
  BY <1>1, <1>2, <1>3, FramesGrow
<1>5. f \in Frames(Arriving', seq', streams') /\ f.type = "event"
  BY <1>3, EventTyped DEF Kinds
<1> HIDE DEF f
<1> DEFINE one == <<f>>
           more == Parked \o one
<1>6. /\ one \in Seq(Frames(Arriving', seq', streams')) /\ Members(one) = {f}
      /\ Parked \in Seq(Frames(Arriving', seq', streams'))
      /\ \A g \in Members(Parked) : g.type = "event"
  BY <1>4, <1>5, One, ParkedTyped, SeqGrows
<1>7. wire' = Written(more)
  BY <1>1
<1> HIDE DEF one
<1>8. /\ more \in Seq(Frames(Arriving', seq', streams'))
      /\ Members(more) = Members(Parked) \union {f}
  BY <1>6, MembersOfCat
<1>9. \A g \in Members(more) : g.type = "event"
  BY <1>5, <1>6, <1>8
<1> HIDE DEF more
<1> QED BY <1>1, <1>3, <1>7, <1>8, <1>9, PlainWrites

LEMMA Answering ==
  ASSUME IInv, AnswerRead
  PROVE  IInv'
<1>1. /\ UNCHANGED <<daemon, link, extra, client>> /\ link
      /\ \E answer \in {Messages(seq), Rest} : wire' = Append(wire, answer)
  BY DEF AnswerRead
<1>2. PICK answer \in {Messages(seq), Rest} : wire' = Append(wire, answer)
  BY <1>1
<1>3. /\ seq \in Nat /\ lost \subseteq 1 .. seq /\ MaxSequence \in Nat /\ seq <= MaxSequence
      /\ wire \in Seq(Frames(Arriving, seq, streams)) /\ parked \in {0} \union Arriving
  BY DaemonConnectionAssumption DEF IInv, Types, DaemonTyped
<1>4. UNCHANGED <<seq, parked, lost, outbox, streams>> /\ Arriving' = Arriving
  BY <1>1 DEF daemon, Arriving
<1>5. answer \in Frames(Arriving, seq, streams) /\ answer.type \in {"messages", "rest"}
  BY <1>3 DEF Messages, Rest, Frames, AnswerFrames
<1>6. <<answer>> \in Seq(Frames(Arriving, seq, streams)) /\ Members(<<answer>>) = {answer}
  BY <1>5, One
<1>7. wire' = Written(<<answer>>)
  BY <1>1, <1>2, <1>3, <1>5 DEF Written
<1>8. seq' \in seq .. MaxSequence /\ lost' \subseteq 1 .. seq' /\ parked' \in {0} \union Arriving'
  BY <1>3, <1>4
<1>9. \A g \in Members(<<answer>>) : g.type \in {"messages", "rest"}
  BY <1>5, <1>6
<1> QED BY <1>1, <1>4, <1>6, <1>7, <1>8, <1>9, PlainWrites

(* The two frames of a new stream.                                           *)
LEMMA NewStream ==
  ASSUME NEW s \in Nat, NEW k \in Nat, NEW A, NEW p \in Purposes
  PROVE  LET pair == <<Begin(k + 1, p), End(k + 1, p, s)>>
         IN  /\ pair \in Seq(StreamFrames(s, k + 1)) /\ pair \in Seq(Frames(A, s, k + 1))
             /\ Members(pair) = {Begin(k + 1, p), End(k + 1, p, s)} /\ Ordered(pair)
<1> DEFINE b == Begin(k + 1, p)
           e == End(k + 1, p, s)
           pair == <<b, e>>
<1>1. b \in StreamFrames(s, k + 1) /\ e \in StreamFrames(s, k + 1) /\ b.type = "begin"
  BY DEF StreamFrames, Begin, End
<1> HIDE DEF b, e
<1>2. pair \in Seq(StreamFrames(s, k + 1)) /\ pair \in Seq(Frames(A, s, k + 1))
  BY <1>1 DEF Frames
<1>3. Members(pair) = {b, e}
  BY DEF Members
<1>4. Follows(b, e)
  BY <1>1, FollowedByAnything
<1>5. Ordered(pair)
  BY <1>4 DEF Ordered
<1> QED BY <1>2, <1>3, <1>5 DEF b, e

LEMMA StreamStarts ==
  ASSUME IInv, streams' = streams + 1, UNCHANGED <<seq, parked, lost>>, NEW p \in Purposes
  PROVE  LET pair == <<Begin(streams', p), End(streams', p, seq)>>
         IN  /\ pair \in Seq(StreamFrames(seq', streams'))
             /\ pair \in Seq(Frames(Arriving', seq', streams'))
             /\ Members(pair) = {Begin(streams', p), End(streams', p, seq)} /\ Ordered(pair)
             /\ wire \in Seq(Frames(Arriving', seq', streams'))
             /\ outbox \in Seq(StreamFrames(seq', streams'))
             /\ \A f \in Coming : f.type \in {"begin", "end"} => f.id \in 1 .. streams
             /\ Arriving' = Arriving /\ seq \in Nat /\ streams \in Nat /\ streams' \in Nat
<1>1. /\ seq \in Nat /\ streams \in Nat /\ Arriving' = Arriving /\ streams' \in Nat
      /\ seq' \in Nat /\ seq <= seq' /\ streams <= streams'
      /\ wire \in Seq(Frames(Arriving, seq, streams)) /\ outbox \in Seq(StreamFrames(seq, streams))
  BY DaemonConnectionAssumption DEF IInv, Types, DaemonTyped, Arriving
<1>2. wire \in Seq(Frames(Arriving', seq', streams'))
  <2>1. Frames(Arriving, seq, streams) \subseteq Frames(Arriving', seq', streams')
    BY <1>1, FramesGrow
  <2> QED BY <1>1, <2>1, SeqGrows
<1>3. outbox \in Seq(StreamFrames(seq', streams'))
  <2>1. StreamFrames(seq, streams) \subseteq StreamFrames(seq', streams')
    BY <1>1, FramesGrow
  <2> QED BY <1>1, <2>1, SeqGrows
<1>4. \A f \in Coming : f.type \in {"begin", "end"} => f.id \in 1 .. streams
  BY ComingTyped, FrameKinds, StreamFrame
<1>5. LET pair == <<Begin(streams', p), End(streams', p, seq)>>
      IN  /\ pair \in Seq(StreamFrames(seq', streams'))
          /\ pair \in Seq(Frames(Arriving', seq', streams'))
          /\ Members(pair) = {Begin(streams', p), End(streams', p, seq)} /\ Ordered(pair)
  BY <1>1, NewStream
<1> QED BY <1>1, <1>2, <1>3, <1>4, <1>5

LEMMA ReplayTyped ==
  ASSUME IInv
  PROVE  /\ Replay \in Seq(Frames(Arriving, seq, streams))
         /\ \A f \in Members(Replay) : f.type = "event"
<1> DEFINE since == [i \in 1 .. seq - cursor |-> Event(cursor + i, "direct")]
           T == {f \in Members(since) : f.n \notin lost}
           S == {Event(n, "direct") : n \in 1 .. seq}
<1>1. seq \in Nat /\ cursor \in 0 .. seq
  BY DaemonConnectionAssumption DEF IInv, Types, DaemonTyped, ClientTyped
<1>2. since \in Seq(S)
  <2>1. \A i \in 1 .. seq - cursor : cursor + i \in 1 .. seq
    BY <1>1
  <2>2. seq - cursor \in Nat
    BY <1>1
  <2>3. \A i \in 1 .. seq - cursor : Event(cursor + i, "direct") \in S
    BY <2>1
  <2> QED BY <2>2, <2>3
<1>3. S \intersect T \subseteq {f \in EventFrames(Arriving) : f.type = "event"}
  BY DEF Event, EventFrames, Arriving, Kinds
<1>4. Replay = Selected(since, T)
  BY DEF Replay
<1> HIDE DEF since, S, T
<1>5. Replay \in Seq(S \intersect T)
  BY <1>2, <1>4, SelectedMembers
<1>6. Replay \in Seq({f \in EventFrames(Arriving) : f.type = "event"})
  BY <1>3, <1>5, SeqGrows
<1>7. \A f \in Members(Replay) : f.type = "event"
  BY <1>6, MembersOf
<1>8. Replay \in Seq(Frames(Arriving, seq, streams))
  BY <1>6, SeqGrows DEF Frames
<1> QED BY <1>7, <1>8

LEMMA AnsweredNow ==
  ASSUME IInv, link, phase = "reattaching", outbox = <<>>,
         \A f \in Members(wire) : f.type # "reattached",
         \A job \in Members(jobs) : job.do # "reattached",
         streams' = streams + 1, UNCHANGED <<seq, parked, lost, outbox, link, extra, client>>,
         NEW replay \in {<<>>, Replay},
         wire' = Append(wire, Reattached(0, seq)) \o replay
  PROVE  IInv'
<1> DEFINE r == Reattached(0, seq)
           one == <<r>>
<1>1. /\ DaemonTyped /\ Order /\ Reattaching /\ NoAttach /\ Arriving' = Arriving
      /\ seq \in Nat /\ streams \in Nat /\ streams' \in Nat /\ lost \subseteq Nat
      /\ streams <= streams' /\ seq <= seq'
  BY DaemonConnectionAssumption DEF IInv, Types, DaemonTyped, Reattaching, Arriving
<1> DEFINE F == Frames(Arriving', seq', streams')
<1>2. /\ r \in F /\ r.type = "reattached" /\ r.id = 0
  BY <1>1 DEF Frames, AnswerFrames, Reattached
<1> HIDE DEF r
<1>3. one \in Seq(F) /\ Members(one) = {r} /\ Ordered(one)
  BY <1>2 DEF Members, Ordered
<1>4. replay \in Seq(F) /\ \A f \in Members(replay) : f.type = "event"
  <2>1. Replay \in Seq(Frames(Arriving, seq, streams)) /\ \A f \in Members(Replay) : f.type = "event"
    BY ReplayTyped
  <2>2. Frames(Arriving, seq, streams) \subseteq F
    BY <1>1, FramesGrow
  <2>3. Replay \in Seq(F)
    BY <2>1, <2>2, SeqGrows
  <2>4. <<>> \in Seq(F) /\ Members(<<>>) = {}
    BY DEF Members
  <2> QED BY <2>1, <2>3, <2>4
<1>5. wire \in Seq(F) /\ outbox' \in Seq(StreamFrames(seq', streams'))
  <2>1. Frames(Arriving, seq, streams) \subseteq F
    BY <1>1, FramesGrow
  <2> QED BY <1>1, <2>1, SeqGrows DEF DaemonTyped
<1>6. Append(wire, r) = wire \o one
  BY <1>2, <1>5
<1> HIDE DEF one
<1> DEFINE most == wire \o one
<1>7. most \in Seq(F) /\ Members(most) = Members(wire) \union {r}
  BY <1>3, <1>5, MembersOfCat
<1>8. Ordered(most)
  <2>1. \A f \in Members(wire), g \in Members(one) : Follows(f, g)
    BY <1>2, <1>3 DEF Follows
  <2> QED BY <1>1, <1>3, <1>5, <2>1, OrderedCat DEF Order
<1>9. wire' = most \o replay
  BY <1>6 DEF r
<1> HIDE DEF most
<1>10. wire' \in Seq(F) /\ Members(wire') = Members(wire) \union {r} \union Members(replay)
  <2>1. most \o replay \in Seq(F) /\ Members(most \o replay) = Members(most) \union Members(replay)
    BY <1>4, <1>7, MembersOfCat
  <2> QED BY <1>7, <1>9, <2>1
<1>11. Ordered(wire')
  <2>1. \A f, g : g \in Members(replay) => Follows(f, g)
    BY <1>4, AnythingBefore
  <2>2. Ordered(replay)
    BY <1>4, <2>1, MembersOf DEF Ordered
  <2> QED BY <1>4, <1>7, <1>8, <1>9, <2>1, <2>2, OrderedCat
<1>12. /\ Coming \subseteq Coming'
       /\ \A f \in Coming' : f.type \in {"begin", "end"} => f \in Coming
  BY <1>2, <1>4, <1>10 DEF Coming
<1>13. DaemonTyped'
  BY <1>1, <1>5, <1>10 DEF DaemonTyped
<1>14. Order'
  <2>1. Members(outbox) = {} /\ Ordered(outbox)
    BY DEF Members, Ordered
  <2> QED BY <1>11, <2>1 DEF Order
<1>15. Reattaching'
  <2>1. NoAttach'
    BY <1>1, <1>12 DEF NoAttach, OfAttach
  <2>2. UNCHANGED <<phase, jobs>>
    BY DEF client, recovery
  <2> QED BY <1>1, <2>1, <2>2 DEF Reattaching
<1> QED BY <1>1, <1>12, <1>13, <1>14, <1>15, DaemonStep

LEMMA AnsweredByStream ==
  ASSUME IInv, link, phase = "reattaching", outbox = <<>>,
         \A f \in Members(wire) : f.type # "reattached",
         \A job \in Members(jobs) : job.do # "reattached",
         streams' = streams + 1, UNCHANGED <<seq, parked, lost, link, extra, client>>,
         wire' = Append(wire, Reattached(streams', seq)),
         outbox' = <<Begin(streams', "attach"), End(streams', "attach", seq)>>
  PROVE  IInv'
<1> DEFINE r == Reattached(streams', seq)
           one == <<r>>
           b == Begin(streams', "attach")
           e == End(streams', "attach", seq)
<1>1. /\ DaemonTyped /\ Order /\ Reattaching /\ NoAttach /\ Arriving' = Arriving
      /\ seq \in Nat /\ streams \in Nat /\ streams' \in Nat /\ lost \subseteq Nat
      /\ streams <= streams' /\ seq <= seq'
  BY DaemonConnectionAssumption DEF IInv, Types, DaemonTyped, Reattaching, Arriving
<1> DEFINE F == Frames(Arriving', seq', streams')
<1>2. r \in F /\ r.type = "reattached" /\ r.id = streams'
  BY <1>1 DEF Frames, AnswerFrames, Reattached
<1>3. /\ outbox' \in Seq(StreamFrames(seq', streams')) /\ Members(outbox') = {b, e}
      /\ Ordered(outbox') /\ wire \in Seq(F)
      /\ \A f \in Coming : f.type \in {"begin", "end"} => f.id \in 1 .. streams
  BY StreamStarts DEF Purposes
<1>4. /\ b.type = "begin" /\ b.id = streams' /\ b.purpose = "attach"
      /\ e.type = "end" /\ e.id = streams' /\ e.purpose = "attach"
  BY DEF Begin, End
<1> HIDE DEF r, b, e
<1>5. one \in Seq(F) /\ Members(one) = {r} /\ Ordered(one)
  BY <1>2 DEF Members, Ordered
<1>6. wire' = wire \o one
  BY <1>2, <1>3 DEF r
<1> HIDE DEF one
<1>7. wire' \in Seq(F) /\ Members(wire') = Members(wire) \union {r}
  <2>1. wire \o one \in Seq(F) /\ Members(wire \o one) = Members(wire) \union Members(one)
    BY <1>3, <1>5, MembersOfCat
  <2> QED BY <1>5, <1>6, <2>1
<1>8. Ordered(wire')
  <2>1. \A f \in Members(wire), g \in Members(one) : Follows(f, g)
    BY <1>2, <1>5 DEF Follows
  <2> QED BY <1>1, <1>3, <1>5, <1>6, <2>1, OrderedCat DEF Order
<1>9. \A f \in Members(wire'), g \in {b, e} : Follows(f, g)
  <2>1. ASSUME NEW f \in Members(wire), NEW g \in {b, e} PROVE Follows(f, g)
    <3>1. f \in Coming
      BY DEF Coming
    <3>2. f.type = "end" => f.id # g.id /\ f.purpose # "attach"
      BY <1>1, <1>3, <1>4, <3>1 DEF NoAttach, OfAttach
    <3> QED BY <1>4, <3>2 DEF Follows
  <2>2. \A g \in {b, e} : Follows(r, g)
    BY <1>2, <1>4 DEF Follows
  <2> QED BY <1>7, <2>1, <2>2
<1>10. Order'
  BY <1>3, <1>8, <1>9 DEF Order
<1>11. Coming' = Coming \union {r, b, e}
  <2>1. Members(outbox) = {}
    BY DEF Members
  <2> QED BY <1>3, <1>7, <2>1 DEF Coming
<1>12. DaemonTyped'
  BY <1>1, <1>3, <1>7 DEF DaemonTyped
<1>13. Reattaching'
  <2>1. UNCHANGED <<phase, jobs>> /\ streams' # 0
    BY <1>1 DEF client, recovery
  <2>2. jobs \in Seq(Jobs(seq, streams))
    BY DEF IInv, Types, ClientTyped
  <2>3. \A i \in 1 .. Len(jobs) : jobs[i].do \notin {"reattached", "collected"}
    BY <1>1, <2>2, MembersOf DEF Reattaching
  <2>4. \A g \in Members(wire') : g.type = "reattached" => g = r
    BY <1>7
  <2>5. \A job \in Members(jobs) : job.do # "reattached"
    OBVIOUS
  <2>6. r \in Members(wire')
    BY <1>7
  <2> QED BY <1>2, <2>1, <2>3, <2>4, <2>5, <2>6 DEF Reattaching
<1>14. \A f \in Coming' : f.type = "begin" => f \in Coming \/ \E g \in Coming' : Ending(g, f.id)
  BY <1>2, <1>4, <1>11 DEF Ending
<1>15. \A f \in Coming' : f.type = "end" /\ f.purpose = "replacement" => f \in Coming
  BY <1>2, <1>4, <1>11
<1> QED BY <1>1, <1>10, <1>11, <1>12, <1>13, <1>14, <1>15, DaemonStep

LEMMA Reanswering ==
  ASSUME IInv, AnswerReattach
  PROVE  IInv'
BY AnsweredNow, AnsweredByStream DEF AnswerReattach

LEMMA Unsolicited ==
  ASSUME IInv, link, streams' = streams + 1, extra' \in 0 .. MaxSnapshots,
         UNCHANGED <<seq, parked, lost, link, client>>,
         outbox = <<>>, UNCHANGED wire,
         outbox' = <<Begin(streams', "replacement"), End(streams', "replacement", seq)>>
  PROVE  IInv'
<1> DEFINE b == Begin(streams', "replacement")
           e == End(streams', "replacement", seq)
<1>1. /\ DaemonTyped /\ Order /\ Arriving' = Arriving
      /\ seq \in Nat /\ streams \in Nat /\ streams' \in Nat /\ lost \subseteq Nat
      /\ streams <= streams' /\ seq <= seq'
  BY DaemonConnectionAssumption DEF IInv, Types, DaemonTyped, Arriving
<1>2. /\ outbox' \in Seq(StreamFrames(seq', streams')) /\ Members(outbox') = {b, e}
      /\ Ordered(outbox') /\ wire \in Seq(Frames(Arriving', seq', streams'))
      /\ \A f \in Coming : f.type \in {"begin", "end"} => f.id \in 1 .. streams
  BY StreamStarts DEF Purposes
<1>3. /\ b.type = "begin" /\ b.id = streams' /\ b.purpose = "replacement"
      /\ e.type = "end" /\ e.id = streams' /\ e.purpose = "replacement" /\ e.n = seq
  BY DEF Begin, End
<1>4. Begin(e.id, "replacement") = b
  BY <1>3
<1> HIDE DEF b, e
<1>5. \A f \in Members(wire), g \in {b, e} : Follows(f, g)
  <2>1. SUFFICES ASSUME NEW f \in Members(wire), NEW g \in {b, e} PROVE Follows(f, g)
    OBVIOUS
  <2>2. f \in Coming
    BY DEF Coming
  <2>3. f.type = "end" => f.id # g.id
    BY <1>1, <1>2, <1>3, <2>2
  <2>4. f.type = "event" => f.n <= seq
    BY <1>1, <2>2, ComingTyped, FrameKinds DEF Arriving
  <2> QED BY <1>3, <2>3, <2>4 DEF Follows
<1>6. Order'
  BY <1>1, <1>2, <1>5 DEF Order
<1>7. Coming' = Coming \union {b, e}
  <2>1. Members(outbox) = {}
    BY DEF Members
  <2> QED BY <1>2, <2>1 DEF Coming
<1>8. DaemonTyped'
  BY <1>1, <1>2 DEF DaemonTyped
<1>9. Reattaching'
  <2>1. UNCHANGED <<phase, jobs>>
    BY DEF client, recovery
  <2> QED BY <1>3, <1>7, <2>1, ReattachingSame DEF OfAttach
<1>10. \A f \in Coming' : f.type = "begin" => f \in Coming \/ \E g \in Coming' : Ending(g, f.id)
  BY <1>3, <1>7 DEF Ending
<1>11. \A f \in Coming' : f.type = "end" /\ f.purpose = "replacement" =>
         \/ f \in Coming
         \/ /\ f.n = seq /\ f.id \notin 0 .. streams
            /\ Begin(f.id, "replacement") \in Coming'
  BY <1>1, <1>3, <1>4, <1>7
<1> QED BY <1>1, <1>6, <1>7, <1>8, <1>9, <1>10, <1>11, DaemonStep

LEMMA Foreign ==
  ASSUME IInv, link, streams' = streams + 1, extra' \in 0 .. MaxSnapshots,
         UNCHANGED <<seq, parked, lost, outbox, link, client>>,
         wire' = wire \o <<Begin(streams', "foreign"), End(streams', "foreign", seq)>>
  PROVE  IInv'
<1> DEFINE b == Begin(streams', "foreign")
           e == End(streams', "foreign", seq)
           pair == <<b, e>>
           F == Frames(Arriving', seq', streams')
<1>1. /\ DaemonTyped /\ Order /\ Arriving' = Arriving
      /\ seq \in Nat /\ streams \in Nat /\ streams' \in Nat /\ lost \subseteq Nat
      /\ streams <= streams' /\ seq <= seq'
  <2>1. DaemonTyped /\ Order
    BY DEF IInv, Types
  <2>2. seq \in Nat /\ streams \in Nat /\ lost \subseteq Nat
    BY <2>1, DaemonConnectionAssumption DEF DaemonTyped
  <2>3. Arriving' = Arriving
    BY DEF Arriving
  <2> QED BY <2>1, <2>2, <2>3
<1>2. /\ pair \in Seq(F) /\ Members(pair) = {b, e} /\ Ordered(pair)
      /\ wire \in Seq(F) /\ outbox \in Seq(StreamFrames(seq', streams'))
      /\ \A f \in Coming : f.type \in {"begin", "end"} => f.id \in 1 .. streams
  BY StreamStarts DEF Purposes
<1>3. /\ b.type = "begin" /\ b.id = streams' /\ b.purpose = "foreign"
      /\ e.type = "end" /\ e.id = streams' /\ e.purpose = "foreign"
  BY DEF Begin, End
<1>4. wire' = wire \o pair
  OBVIOUS
<1> HIDE DEF b, e, pair
<1>5. wire' \in Seq(F) /\ Members(wire') = Members(wire) \union {b, e}
  <2>1. wire \o pair \in Seq(F) /\ Members(wire \o pair) = Members(wire) \union Members(pair)
    BY <1>2, MembersOfCat
  <2> QED BY <1>2, <1>4, <2>1
<1>6. Ordered(wire')
  <2>1. ASSUME NEW f \in Members(wire), NEW g \in {b, e} PROVE Follows(f, g)
    <3>1. f.type = "end" => f.id # g.id
      BY <1>1, <1>2, <1>3 DEF Coming
    <3> QED BY <1>3, <3>1 DEF Follows
  <2> QED BY <1>1, <1>2, <1>4, <2>1, OrderedCat DEF Order
<1>7. \A f \in Members(wire'), g \in Members(outbox) : Follows(f, g)
  <2>1. ASSUME NEW f \in {b, e}, NEW g \in Members(outbox) PROVE Follows(f, g)
    <3>1. g.type \in {"begin", "end"} => f.id # g.id
      BY <1>1, <1>2, <1>3 DEF Coming
    <3> QED BY <1>3, <3>1 DEF Follows
  <2> QED BY <1>1, <1>5, <2>1 DEF Order
<1>8. Order'
  BY <1>1, <1>6, <1>7 DEF Order
<1>9. Coming' = Coming \union {b, e}
  BY <1>5 DEF Coming
<1>10. DaemonTyped'
  BY <1>1, <1>2, <1>5 DEF DaemonTyped
<1>11. Reattaching'
  <2>1. UNCHANGED <<phase, jobs>>
    BY DEF client, recovery
  <2> QED BY <1>3, <1>5, <1>9, <2>1, ReattachingSame DEF OfAttach
<1>12. \A f \in Coming' : f.type = "begin" => f \in Coming \/ \E g \in Coming' : Ending(g, f.id)
  BY <1>3, <1>9 DEF Ending
<1>13. \A f \in Coming' : f.type = "end" /\ f.purpose = "replacement" => f \in Coming
  BY <1>3, <1>9
<1> QED BY <1>1, <1>8, <1>9, <1>10, <1>11, <1>12, <1>13, DaemonStep

LEMMA Streaming ==
  ASSUME IInv, NEW purpose \in Unasked, StreamSnapshot(purpose)
  PROVE  IInv'
<1>1. /\ link /\ extra' \in 0 .. MaxSnapshots /\ streams' = streams + 1
      /\ UNCHANGED <<seq, parked, lost, link, client>>
  BY DaemonConnectionAssumption DEF StreamSnapshot, IInv, Types, DaemonTyped
<1> QED BY <1>1, Unsolicited, Foreign DEF StreamSnapshot

LEMMA Writing ==
  ASSUME IInv, WriteStream
  PROVE  IInv'
<1> DEFINE f == Head(outbox)
           one == <<f>>
<1>1. /\ link /\ outbox # <<>> /\ wire' = Append(wire, f) /\ outbox' = Tail(outbox)
      /\ UNCHANGED <<seq, parked, lost, streams, link, extra, client>>
  BY DEF WriteStream
<1>2. /\ DaemonTyped /\ Order /\ Arriving' = Arriving
      /\ seq \in Nat /\ streams \in Nat /\ lost \subseteq Nat
      /\ wire \in Seq(Frames(Arriving, seq, streams)) /\ outbox \in Seq(StreamFrames(seq, streams))
  BY <1>1, DaemonConnectionAssumption DEF IInv, Types, DaemonTyped, Arriving
<1>3. /\ f \in StreamFrames(seq, streams) /\ outbox' \in Seq(StreamFrames(seq, streams))
      /\ Members(outbox) = {f} \union Members(outbox')
      /\ Ordered(outbox') /\ \A g \in Members(outbox') : Follows(f, g)
  BY <1>1, <1>2, MembersOfTail, OrderedTail DEF Order
<1>4. f \in Frames(Arriving, seq, streams) /\ f.type \in {"begin", "end"}
  BY <1>3, StreamFrame DEF Frames
<1> HIDE DEF f
<1>5. /\ one \in Seq(Frames(Arriving, seq, streams)) /\ Members(one) = {f} /\ Ordered(one)
      /\ wire' = wire \o one
  BY <1>1, <1>2, <1>4 DEF Members, Ordered
<1> HIDE DEF one
<1>6. /\ wire' \in Seq(Frames(Arriving, seq, streams))
      /\ Members(wire') = Members(wire) \union {f}
  BY <1>2, <1>5, MembersOfCat
<1>7. \A g \in Members(wire) : Follows(g, f)
  BY <1>2, <1>3 DEF Order
<1>8. Ordered(wire')
  BY <1>2, <1>5, <1>7, OrderedCat DEF Order
<1>9. Order'
  BY <1>2, <1>3, <1>6, <1>8 DEF Order
<1>10. Coming' = Coming
  BY <1>3, <1>6 DEF Coming
<1>11. DaemonTyped'
  BY <1>1, <1>2, <1>3, <1>6 DEF DaemonTyped
<1>12. Reattaching'
  <2>1. UNCHANGED <<phase, jobs>>
    BY <1>1 DEF client, recovery
  <2> QED BY <1>4, <1>6, <1>10, <2>1, ReattachingSame
<1> QED BY <1>1, <1>2, <1>9, <1>10, <1>11, <1>12, DaemonStep

LEMMA DaemonPart ==
  ASSUME IInv, Daemon
  PROVE  IInv'
BY Parking, Flushing, Emitting, Losing, Reanswering, Writing, Answering, Streaming DEF Daemon

------------------------------------------------------------------------------
(* Frames                                                                    *)

(* What the next frame is, and what follows it.                              *)
LEMMA NextFrame ==
  ASSUME IInv, wire # <<>>, wire' = Tail(wire), UNCHANGED <<daemon, link, extra>>
  PROVE  LET f == Head(wire)
         IN  /\ f \in Frames(Arriving, seq, streams) /\ f \in Coming /\ f \in Members(wire)
             /\ Members(wire) = {f} \union Members(wire') /\ Coming = {f} \union Coming'
             /\ \A g \in Coming' : Follows(f, g)
             /\ DaemonTyped' /\ Order' /\ Arriving' = Arriving
<1>1. /\ DaemonTyped /\ Order /\ wire \in Seq(Frames(Arriving, seq, streams))
  BY DEF IInv, Types, DaemonTyped
<1>2. /\ Head(wire) \in Frames(Arriving, seq, streams)
      /\ wire' \in Seq(Frames(Arriving, seq, streams))
      /\ Members(wire) = {Head(wire)} \union Members(wire')
  BY <1>1, MembersOfTail
<1>3. Ordered(wire') /\ \A g \in Members(wire') : Follows(Head(wire), g)
  BY <1>1, OrderedTail DEF Order
<1>4. UNCHANGED <<seq, parked, lost, outbox, streams, link, extra>> /\ Arriving' = Arriving
  BY DEF daemon, Arriving
<1>5. Coming = {Head(wire)} \union Coming'
  BY <1>2, <1>4 DEF Coming
<1>6. \A g \in Coming' : Follows(Head(wire), g)
  BY <1>1, <1>2, <1>3, <1>4 DEF Coming, Order
<1>7. DaemonTyped'
  BY <1>1, <1>2, <1>4 DEF DaemonTyped
<1>8. Order'
  BY <1>1, <1>2, <1>3, <1>4 DEF Order
<1> QED BY <1>2, <1>4, <1>5, <1>6, <1>7, <1>8 DEF Coming

LEMMA JobAdded ==
  ASSUME NEW J, NEW s \in Seq(J), NEW x \in J
  PROVE  LET t == Append(s, x)
         IN  /\ t \in Seq(J) /\ Members(t) = Members(s) \union {x}
             /\ Len(s) \in Nat /\ Len(t) = Len(s) + 1 /\ t[Len(s) + 1] = x
             /\ \A i \in 1 .. Len(s) : t[i] = s[i]
BY MembersOfAppend

(* A frame was read that is no answer to a reattach, and no job queued that  *)
(* has to do with one.                                                       *)
LEMMA ReattachingKept ==
  ASSUME IInv, UNCHANGED phase, Coming' \subseteq Coming, Members(wire') \subseteq Members(wire),
         \A g \in Members(wire) : g.type = "reattached" => g \in Members(wire'),
         NEW x \in Jobs(seq, streams), x.do \notin {"reattached", "collected"},
         jobs' \in {jobs, Append(jobs, x)}
  PROVE  Reattaching'
<1>1. Reattaching /\ jobs \in Seq(Jobs(seq, streams))
  BY DEF IInv, Types, ClientTyped
<1>2. NoAttach => NoAttach'
  BY DEF NoAttach
<1>3. /\ \A i \in 1 .. Len(jobs') : jobs'[i].do \in {"reattached", "collected"} =>
           i \in 1 .. Len(jobs) /\ jobs'[i] = jobs[i]
      /\ \A job \in Members(jobs') : job \in Members(jobs) \/ job = x
      /\ Members(jobs) \subseteq Members(jobs')
  <2>1. CASE jobs' = jobs
    BY <2>1
  <2>2. CASE jobs' = Append(jobs, x)
    BY <1>1, <2>2, JobAdded
  <2> QED BY <2>1, <2>2
<1>4. phase' \in {"none", "reconnecting"} => NoAttach'
  BY <1>1, <1>2 DEF Reattaching
<1>5. phase' = "reattaching" =>
        \/ NoAttach'
        \/ \E g \in Members(wire') : g.type = "reattached"
        \/ \E job \in Members(jobs') : job.do = "reattached"
  BY <1>1, <1>2, <1>3 DEF Reattaching
<1>6. \A g \in Members(wire') : g.type = "reattached" =>
        /\ phase' = "reattaching" /\ (g.id = 0 => NoAttach')
        /\ \A job \in Members(jobs') : job.do # "reattached"
  BY <1>1, <1>2, <1>3 DEF Reattaching
<1>7. \A i \in 1 .. Len(jobs') :
        /\ jobs'[i].do = "reattached" => phase' = "reattaching" /\ (jobs'[i].id = 0 => NoAttach')
        /\ jobs'[i].do = "collected" => phase' = "collecting" /\ NoAttach'
  BY <1>1, <1>2, <1>3 DEF Reattaching
<1>8. \A i \in 1 .. Len(jobs') : jobs'[i].do \in {"reattached", "collected"} =>
        \A j \in 1 .. Len(jobs') : jobs'[j].do = jobs'[i].do => i = j
  BY <1>1, <1>3 DEF Reattaching
<1> QED BY <1>4, <1>5, <1>6, <1>7, <1>8 DEF Reattaching

(* Frames were read and jobs queued; nothing else of a replacement changed.  *)
LEMMA ReplacementsKept ==
  ASSUME IInv, Coming' \subseteq Coming, UNCHANGED <<phase, told>>,
         \A e \in Coming' : e.type = "end" /\ e.purpose = "replacement" =>
           /\ phase = "none" /\ Begin(e.id, "replacement") \in Members(buffer) \union Coming
                => Begin(e.id, "replacement") \in Members(buffer') \union Coming'
           /\ \A f \in Members(mapped') \union Members(recoveryFrames') :
                f \in Members(mapped) \union Members(recoveryFrames) \/ f.n <= e.n
           /\ \A job \in Members(jobs') : job \in Members(jobs) \/ ~ Doing(job, "replaced", e.id)
  PROVE  Replacements'
<1>1. Replacements
  BY DEF IInv
<1>2. SUFFICES ASSUME NEW e \in Coming', e.type = "end", e.purpose = "replacement"
      PROVE /\ phase' = "none" => e.n <= told'
                 \/ Begin(e.id, "replacement") \in Members(buffer') \union Coming'
            /\ \A f \in Members(mapped') \union Members(recoveryFrames') : f.n <= e.n
            /\ \A job \in Members(jobs') : ~ Doing(job, "replaced", e.id)
  BY DEF Replacements
<1>3. e \in Coming
  OBVIOUS
<1>4. /\ phase = "none" => e.n <= told
           \/ Begin(e.id, "replacement") \in Members(buffer) \union Coming
      /\ \A f \in Members(mapped) \union Members(recoveryFrames) : f.n <= e.n
      /\ \A job \in Members(jobs) : ~ Doing(job, "replaced", e.id)
  BY <1>1, <1>2, <1>3 DEF Replacements
<1> QED BY <1>2, <1>4

LEMMA CoveredKept ==
  ASSUME UNCHANGED <<told, inFlight, phase>>, Members(jobs) \subseteq Members(jobs')
  PROVE  \A n : Covered(n) => Covered(n)'
BY DEF Covered

(* An event does nothing to the rest.                                        *)
LEMMA HeldBack ==
  ASSUME IInv, ReadFrame, Head(wire).type = "event", phase # "none",
         recoveryFrames' = Append(recoveryFrames, Head(wire)),
         UNCHANGED <<position, jobs, cursor, fresh, mapped, buffer, held, shared, awaiting, read>>
  PROVE  IInv'
<1> DEFINE f == Head(wire)
<1>1. /\ wire # <<>> /\ wire' = Tail(wire) /\ link /\ inChunk' \in BOOLEAN
      /\ UNCHANGED <<daemon, link, closed, phase, waitingFor, upto, bridge, base, told,
                     abandoned, faults, extra>>
  BY DEF ReadFrame
<1>2. /\ f \in Frames(Arriving, seq, streams) /\ f \in Coming /\ f \in Members(wire)
      /\ Members(wire) = {f} \union Members(wire') /\ Coming = {f} \union Coming'
      /\ \A g \in Coming' : Follows(f, g)
      /\ DaemonTyped' /\ Order' /\ Arriving' = Arriving
  BY <1>1, NextFrame
<1>3. Types /\ ClientTyped /\ BridgeTyped /\ DeadLink /\ Cursor /\ Losses /\ Buffered
  BY DEF IInv, Types
<1>4. f \in EventFrames(Arriving) /\ f.type = "event"
  BY <1>2, FrameKinds
<1> HIDE DEF f
<1>5. /\ recoveryFrames' \in Seq(EventFrames(Arriving))
      /\ Members(recoveryFrames') = Members(recoveryFrames) \union {f}
  BY <1>3, <1>4, MembersOfAppend DEF ClientTyped, f
<1>6. UNCHANGED <<seq, parked, lost, outbox, streams, inFlight, pending, wanted, stale>>
  BY <1>1 DEF daemon, bridge
<1>7. ClientTyped' /\ BridgeTyped'
  BY <1>1, <1>2, <1>3, <1>5, <1>6 DEF ClientTyped, BridgeTyped
<1>8. DeadLink' /\ Cursor'
  BY <1>1, <1>3 DEF DeadLink, Cursor
<1>9. Reattaching'
  <2>1. [do |-> "gap"] \in Jobs(seq, streams)
    BY DEF Jobs
  <2> QED BY <1>1, <1>2, <1>4, <2>1, ReattachingKept
<1>10. Losses'
  BY <1>1, <1>3, <1>6 DEF Losses, Covered
<1>11. Replacements'
  <2>1. \A e \in Coming' : e.type = "end" /\ e.purpose = "replacement" => f.n <= e.n
    BY <1>2, <1>4 DEF Follows
  <2> QED BY <1>1, <1>2, <1>5, <2>1, ReplacementsKept
<1>12. Buffered'
  BY <1>1, <1>2, <1>3, <1>4 DEF Buffered, Ending
<1> QED BY <1>2, <1>7, <1>8, <1>9, <1>10, <1>11, <1>12 DEF IInv, Types

(* A channel: what the events of a session go through.                       *)
Channels(A, s, k) ==
  [position : 0 .. s, cursor : 0 .. s, fresh : BOOLEAN, mapped : Seq(EventFrames(A)),
   jobs : Seq(Jobs(s, k))]

LEMMA OnEventTyped ==
  ASSUME NEW s \in Nat, NEW k \in Nat, NEW A, \A n \in A : n \in 1 .. s,
         NEW c \in Channels(A, s, k), NEW f \in EventFrames(A)
  PROVE  LET d == OnEvent(c, f)
         IN  /\ d \in Channels(A, s, k)
             /\ d.position = IF f.n > c.position THEN f.n ELSE c.position
             /\ f.n <= c.cursor => d.cursor = c.cursor /\ d.mapped = c.mapped
             /\ f.n > c.cursor => d.cursor = f.n /\ d.mapped = Append(c.mapped, f)
             /\ d.jobs \in {c.jobs, Append(c.jobs, Job("gap"))}
             /\ f.n > c.position + 1 /\ f.kind # "update" => d.jobs = Append(c.jobs, Job("gap"))
             /\ Members(d.mapped) \subseteq Members(c.mapped) \union {f}
             /\ Members(d.jobs) \subseteq Members(c.jobs) \union {Job("gap")}
<1>1. f.n \in A /\ f.n \in 1 .. s
  BY DEF EventFrames
<1>2. Job("gap") \in Jobs(s, k)
  BY DEF Job, Jobs
<1>3. /\ c.position \in 0 .. s /\ c.cursor \in 0 .. s /\ c.fresh \in BOOLEAN
      /\ c.mapped \in Seq(EventFrames(A)) /\ c.jobs \in Seq(Jobs(s, k))
  BY DEF Channels
<1> DEFINE p == Observed(c, f)
           u == IF Seen(c, f) THEN c.cursor ELSE f.n
           fr == c.fresh /\ Seen(c, f)
           m == IF Seen(c, f) THEN c.mapped ELSE Append(c.mapped, f)
           j == IF Gap(c, f) THEN Append(c.jobs, Job("gap")) ELSE c.jobs
<1>4. OnEvent(c, f) = [position |-> p, cursor |-> u, fresh |-> fr, mapped |-> m, jobs |-> j]
  BY DEF OnEvent
<1>5. p \in 0 .. s /\ u \in 0 .. s
  BY <1>1, <1>3 DEF Observed
<1>6. m \in Seq(EventFrames(A)) /\ Members(m) \subseteq Members(c.mapped) \union {f}
  BY <1>3, MembersOfAppend
<1>7. j \in Seq(Jobs(s, k)) /\ Members(j) \subseteq Members(c.jobs) \union {Job("gap")}
  BY <1>2, <1>3, MembersOfAppend
<1>8. fr \in BOOLEAN
  OBVIOUS
<1> HIDE DEF p, u, fr, m, j
<1>9. OnEvent(c, f) \in Channels(A, s, k)
  BY <1>4, <1>5, <1>6, <1>7, <1>8 DEF Channels
<1>10. p = IF f.n > c.position THEN f.n ELSE c.position
  BY DEF p, Observed
<1>11. /\ f.n <= c.cursor => u = c.cursor /\ m = c.mapped
       /\ f.n > c.cursor => u = f.n /\ m = Append(c.mapped, f)
  BY <1>1, <1>3 DEF u, m, Seen
<1>12. /\ j \in {c.jobs, Append(c.jobs, Job("gap"))}
       /\ f.n > c.position + 1 /\ f.kind # "update" => j = Append(c.jobs, Job("gap"))
  BY DEF j, Gap
<1>13. /\ OnEvent(c, f).position = p /\ OnEvent(c, f).cursor = u
       /\ OnEvent(c, f).mapped = m /\ OnEvent(c, f).jobs = j
  BY <1>4
<1> QED BY <1>6, <1>7, <1>9, <1>10, <1>11, <1>12, <1>13

(* Events that rise still rise with one more.                                *)
LEMMA RisingAppend ==
  ASSUME NEW A, \A n \in A : n \in Nat, NEW m \in Seq(EventFrames(A)), NEW f \in EventFrames(A),
         NEW b \in Nat, NEW u \in Nat, Rising(m, b, u), u < f.n
  PROVE  Rising(Append(m, f), b, f.n)
<1> DEFINE t == Append(m, f)
<1>1. /\ Members(t) = Members(m) \union {f} /\ Len(m) \in Nat
      /\ Len(t) = Len(m) + 1 /\ t[Len(m) + 1] = f
      /\ \A i \in 1 .. Len(m) : t[i] = m[i] /\ m[i] \in Members(m)
  BY MembersOf, MembersOfAppend
<1> HIDE DEF t
<1>2. /\ u \in {b} \union {g.n : g \in Members(m)}
      /\ \A g \in Members(m) : b < g.n /\ g.n <= u
      /\ \A i, j \in 1 .. Len(m) : i < j => m[i].n < m[j].n
  BY DEF Rising
<1>3. \A g \in Members(m) : g.n \in Nat
  <2>1. Members(m) \subseteq EventFrames(A)
    BY MembersOf
  <2>2. \A g \in EventFrames(A) : g.n \in Nat
    BY DEF EventFrames
  <2> QED BY <2>1, <2>2
<1>4. f.n \in Nat
  BY DEF EventFrames
<1>5. b <= u
  BY <1>2, <1>3
<1>6. f.n \in {g.n : g \in Members(t)}
  BY <1>1
<1>7. \A g \in Members(t) : b < g.n /\ g.n <= f.n
  <2>1. b < f.n /\ f.n <= f.n
    BY <1>4, <1>5
  <2>2. \A g \in Members(m) : g.n <= f.n
    BY <1>2, <1>3, <1>4
  <2> QED BY <1>1, <1>2, <2>1, <2>2
<1>8. \A i, j \in 1 .. Len(t) : i < j => t[i].n < t[j].n
  <2>1. SUFFICES ASSUME NEW i \in 1 .. Len(t), NEW j \in 1 .. Len(t), i < j
                 PROVE  t[i].n < t[j].n
    OBVIOUS
  <2>2. i \in 1 .. Len(m) /\ (j \in 1 .. Len(m) \/ j = Len(m) + 1)
    BY <1>1, <2>1
  <2>3. m[i].n <= u /\ m[i].n \in Nat
    BY <1>1, <1>2, <1>3, <2>2
  <2>4. CASE j \in 1 .. Len(m)
    BY <1>1, <1>2, <2>1, <2>2, <2>4
  <2>5. CASE j = Len(m) + 1
    BY <1>1, <1>4, <2>2, <2>3, <2>5
  <2> QED BY <2>2, <2>4, <2>5
<1> QED BY <1>6, <1>7, <1>8 DEF Rising, t

LEMMA OnEventRises ==
  ASSUME NEW s \in Nat, NEW k \in Nat, NEW A, \A n \in A : n \in 1 .. s,
         NEW c \in Channels(A, s, k), NEW f \in EventFrames(A),
         NEW b \in Nat, Rising(c.mapped, b, c.cursor)
  PROVE  Rising(OnEvent(c, f).mapped, b, OnEvent(c, f).cursor)
<1> DEFINE m == c.mapped
           u == c.cursor
           n == f.n
           m2 == OnEvent(c, f).mapped
           u2 == OnEvent(c, f).cursor
<1>1. n <= u => u2 = u /\ m2 = m
  BY OnEventTyped
<1>2. n > u => u2 = n /\ m2 = Append(m, f)
  BY OnEventTyped
<1>3. m \in Seq(EventFrames(A)) /\ u \in 0 .. s /\ n \in A
  BY DEF Channels, EventFrames
<1>4. Rising(m, b, u) /\ n = f.n
  OBVIOUS
<1> SUFFICES Rising(m2, b, u2)
  OBVIOUS
<1> HIDE DEF m, u, n, m2, u2
<1>5. (\A x \in A : x \in Nat) /\ u \in Nat /\ n \in Nat
  BY <1>3
<1>6. CASE n <= u
  BY <1>1, <1>4, <1>6
<1>7. CASE n > u
  <2>1. Rising(Append(m, f), b, n)
    BY <1>3, <1>4, <1>5, <1>7, RisingAppend
  <2> QED BY <1>2, <1>7, <2>1
<1> QED BY <1>5, <1>6, <1>7

LEMMA ChannelTyped ==
  ASSUME IInv
  PROVE  /\ Channel \in Channels(Arriving, seq, streams)
         /\ seq \in Nat /\ streams \in Nat /\ base \in Nat /\ \A n \in Arriving : n \in 1 .. seq
         /\ Channel.position = position /\ Channel.cursor = cursor /\ Channel.fresh = fresh
         /\ Channel.mapped = mapped /\ Channel.jobs = jobs
BY DaemonConnectionAssumption
   DEF IInv, Types, DaemonTyped, ClientTyped, BridgeTyped, Channel, Channels, Arriving

(* What OnEvent does, once the event is not held back.                       *)
LEMMA EventTaken ==
  ASSUME IInv, NEW f \in EventFrames(Arriving), Becomes(OnEvent(Channel, f))
  PROVE  /\ position' \in 0 .. seq /\ cursor' \in 0 .. seq /\ fresh' \in BOOLEAN
         /\ mapped' \in Seq(EventFrames(Arriving)) /\ jobs' \in Seq(Jobs(seq, streams))
         /\ position' = IF f.n > position THEN f.n ELSE position
         /\ f.n <= cursor => UNCHANGED <<cursor, mapped>>
         /\ f.n > cursor => cursor' = f.n /\ mapped' = Append(mapped, f)
         /\ jobs' \in {jobs, Append(jobs, Job("gap"))}
         /\ f.n > position + 1 /\ f.kind # "update" => jobs' = Append(jobs, Job("gap"))
         /\ Rising(mapped', base, cursor')
<1> DEFINE c == Channel
           d == OnEvent(c, f)
<1>1. /\ c \in Channels(Arriving, seq, streams)
      /\ seq \in Nat /\ streams \in Nat /\ base \in Nat /\ \A n \in Arriving : n \in 1 .. seq
      /\ c.position = position /\ c.cursor = cursor
      /\ c.mapped = mapped /\ c.jobs = jobs
  BY ChannelTyped
<1>2. Rising(c.mapped, base, c.cursor)
  BY <1>1 DEF IInv, Cursor
<1>3. /\ position' = d.position /\ cursor' = d.cursor /\ fresh' = d.fresh
      /\ mapped' = d.mapped /\ jobs' = d.jobs
  BY DEF Becomes
<1> HIDE DEF c
<1>5. c \in Channels(Arriving, seq, streams) /\ \A n \in Arriving : n \in 1 .. seq
  BY <1>1
<1>6. /\ d \in Channels(Arriving, seq, streams)
      /\ d.position = IF f.n > c.position THEN f.n ELSE c.position
      /\ f.n <= c.cursor => d.cursor = c.cursor /\ d.mapped = c.mapped
      /\ f.n > c.cursor => d.cursor = f.n /\ d.mapped = Append(c.mapped, f)
      /\ d.jobs \in {c.jobs, Append(c.jobs, Job("gap"))}
      /\ f.n > c.position + 1 /\ f.kind # "update" => d.jobs = Append(c.jobs, Job("gap"))
  <2>1. seq \in Nat /\ streams \in Nat
    BY <1>1
  <2> QED BY <1>5, <2>1, OnEventTyped
<1>7. Rising(d.mapped, base, d.cursor)
  BY <1>1, <1>2, OnEventRises
<1> HIDE DEF d
<1>8. /\ d.position \in 0 .. seq /\ d.cursor \in 0 .. seq /\ d.fresh \in BOOLEAN
      /\ d.mapped \in Seq(EventFrames(Arriving)) /\ d.jobs \in Seq(Jobs(seq, streams))
  BY <1>6 DEF Channels
<1> QED BY <1>1, <1>3, <1>6, <1>7, <1>8

(* A loss is still told, or will be: a direct event that is the first to be  *)
(* mapped after it, and that the tracker had not reached, is a gap.          *)
LEMMA LossesNoticed ==
  ASSUME IInv, NEW f \in EventFrames(Arriving), Becomes(OnEvent(Channel, f)),
         UNCHANGED <<seq, lost, abandoned, told, inFlight, phase, base>>
  PROVE  Losses'
<1>1. /\ position' = IF f.n > position THEN f.n ELSE position
      /\ f.n <= cursor => UNCHANGED <<cursor, mapped>>
      /\ f.n > cursor => cursor' = f.n /\ mapped' = Append(mapped, f)
      /\ jobs' \in {jobs, Append(jobs, Job("gap"))}
      /\ f.n > position + 1 /\ f.kind # "update" => jobs' = Append(jobs, Job("gap"))
  BY EventTaken
<1>2. /\ Losses /\ Rising(mapped, base, cursor) /\ base <= told /\ told \in Nat /\ base \in Nat
      /\ lost \subseteq Nat /\ seq \in Nat
  BY DaemonConnectionAssumption
     DEF IInv, Cursor, Types, DaemonTyped, ClientTyped, BridgeTyped
<1>3. /\ cursor \in Nat /\ position \in Nat /\ mapped \in Seq(EventFrames(Arriving))
      /\ jobs \in Seq(Jobs(seq, streams))
  BY DaemonConnectionAssumption DEF IInv, Types, DaemonTyped, ClientTyped, BridgeTyped
<1>4. f.n \in Nat /\ f.n \notin lost
  BY <1>2 DEF EventFrames, Arriving
<1>5. \A g \in Members(mapped) : g.n \in Nat /\ g.n \notin lost /\ g.n <= cursor
  <2>1. Members(mapped) \subseteq EventFrames(Arriving)
    BY <1>3, MembersOf
  <2>2. \A g \in EventFrames(Arriving) : g.n \in Nat /\ g.n \notin lost
    BY <1>2 DEF EventFrames, Arriving
  <2> QED BY <1>2, <2>1, <2>2 DEF Rising
<1>6. /\ Members(jobs) \subseteq Members(jobs')
      /\ jobs' = Append(jobs, Job("gap")) => Job("gap") \in Members(jobs')
  <2>1. Job("gap") \in Jobs(seq, streams)
    BY DEF Job, Jobs
  <2>2. Members(Append(jobs, Job("gap"))) = Members(jobs) \union {Job("gap")}
    BY <1>3, <2>1, MembersOfAppend
  <2> QED BY <1>1, <2>2
<1>7. /\ Members(mapped') \subseteq Members(mapped) \union {f} /\ Len(mapped) \in Nat
      /\ f.n > cursor => /\ Len(mapped') = Len(mapped) + 1 /\ mapped'[Len(mapped) + 1] = f
                         /\ DOMAIN mapped' = 1 .. Len(mapped) + 1
                         /\ \A i \in 1 .. Len(mapped) : mapped'[i] = mapped[i]
  <2>1. Members(Append(mapped, f)) = Members(mapped) \union {f}
    BY <1>3, MembersOfAppend
  <2>2. CASE f.n <= cursor
    BY <1>1, <1>3, <1>4, <2>2
  <2>3. CASE f.n > cursor
    <3>1. mapped' = Append(mapped, f)
      BY <1>1, <2>3
    <3>2. /\ Len(Append(mapped, f)) = Len(mapped) + 1 /\ Append(mapped, f)[Len(mapped) + 1] = f
          /\ DOMAIN Append(mapped, f) = 1 .. Len(mapped) + 1 /\ Len(mapped) \in Nat
          /\ \A i \in 1 .. Len(mapped) : Append(mapped, f)[i] = mapped[i]
      BY <1>3
    <3> QED BY <2>1, <3>1, <3>2
  <2> QED BY <1>3, <1>4, <2>2, <2>3
<1>8. DOMAIN mapped = 1 .. Len(mapped) /\ \A i \in 1 .. Len(mapped) : mapped[i] \in Members(mapped)
  BY <1>3, MembersOf
<1>9. \A n : Covered(n) => Covered(n)'
  BY <1>6, CoveredKept
<1>10. ASSUME NEW n \in lost' \ abandoned', Exposed(n)' \/ (cursor' < n /\ n <= position')
       PROVE  Covered(n)'
  <2>1. n \in lost \ abandoned /\ n \in Nat
    BY <1>2
  <2>2. Exposed(n) \/ (cursor < n /\ n <= position) => Covered(n)
    BY <1>2, <2>1 DEF Losses
  <2>3. CASE f.n <= cursor
    <3>1. Exposed(n)' <=> Exposed(n)
      BY <1>1, <2>3 DEF Exposed
    <3>2. cursor' < n /\ n <= position' => cursor < n /\ n <= position
      BY <1>1, <1>3, <1>4, <2>1, <2>3
    <3> QED BY <1>9, <1>10, <2>2, <3>1, <3>2
  <2>4. CASE f.n > cursor /\ cursor' < n /\ n <= position'
    <3>1. cursor < n /\ n <= position
      BY <1>1, <1>3, <1>4, <2>1, <2>4
    <3> QED BY <1>9, <2>2, <3>1
  <2>5. CASE f.n > cursor /\ Exposed(n)'
    <3>1. PICK i \in DOMAIN mapped' :
            /\ mapped'[i].n > n /\ mapped'[i].kind = "direct"
            /\ \A j \in DOMAIN mapped' : mapped'[j].n > n => mapped'[j].n >= mapped'[i].n
      BY <2>5 DEF Exposed
    <3>2. CASE i \in 1 .. Len(mapped)
      <4>1. \A j \in 1 .. Len(mapped) : j \in DOMAIN mapped' /\ mapped'[j] = mapped[j]
        BY <1>7, <2>5
      <4>2. Exposed(n)
        BY <1>8, <3>1, <3>2, <4>1 DEF Exposed
      <4> QED BY <1>9, <2>2, <4>2
    <3>3. CASE i = Len(mapped) + 1
      <4>1. f.n > n /\ f.kind = "direct"
        BY <1>7, <2>5, <3>1, <3>3
      <4>2. ASSUME NEW g \in Members(mapped) PROVE ~ (g.n > n)
        <5>1. PICK j \in 1 .. Len(mapped) : g = mapped[j]
          BY <1>8 DEF Members
        <5>2. g.n > n => g.n >= f.n
          BY <1>7, <2>5, <3>1, <3>3, <5>1
        <5> QED BY <1>3, <1>4, <1>5, <2>1, <2>5, <5>2
      <4>3. cursor = base \/ \E g \in Members(mapped) : cursor = g.n
        BY <1>2 DEF Rising
      <4>4. CASE cursor >= n
        <5>1. cursor = base
          BY <1>3, <1>5, <2>1, <4>2, <4>3, <4>4
        <5>2. told' >= n
          BY <1>2, <1>3, <2>1, <4>4, <5>1
        <5> QED BY <5>2 DEF Covered
      <4>5. CASE cursor < n /\ n <= position
        BY <1>9, <2>2, <4>5
      <4>6. CASE position < n
        <5>1. f.n > position + 1
          BY <1>3, <1>4, <2>1, <4>1, <4>6
        <5>2. Job("gap") \in Members(jobs')
          BY <1>1, <1>6, <4>1, <5>1
        <5> QED BY <5>2 DEF Covered, Job
      <4> QED BY <1>3, <2>1, <4>4, <4>5, <4>6
    <3> QED BY <1>7, <2>5, <3>1, <3>2, <3>3
  <2> QED BY <1>3, <1>4, <1>10, <2>3, <2>4, <2>5
<1>11. phase' = "none" => \/ \E job \in Members(jobs') : job.do = "replaced"
                          \/ \A g \in Members(mapped') : g.n <= position'
  <2>1. f.n <= position' /\ position <= position' /\ position' \in Nat
    BY <1>1, <1>3, <1>4
  <2>2. (\A g \in Members(mapped) : g.n <= position) => \A g \in Members(mapped') : g.n <= position'
    BY <1>3, <1>4, <1>5, <1>7, <2>1
  <2> QED BY <1>2, <1>6, <2>2 DEF Losses
<1> QED BY <1>10, <1>11 DEF Losses

LEMMA Mapped ==
  ASSUME IInv, ReadFrame, Head(wire).type = "event", phase = "none",
         Becomes(OnEvent(Channel, Head(wire))),
         UNCHANGED <<recoveryFrames, buffer, held, shared, awaiting, read>>
  PROVE  IInv'
<1> DEFINE f == Head(wire)
<1>1. /\ wire # <<>> /\ wire' = Tail(wire) /\ link /\ inChunk' \in BOOLEAN
      /\ UNCHANGED <<daemon, link, closed, phase, waitingFor, upto, bridge, base, told,
                     abandoned, faults, extra>>
  BY DEF ReadFrame
<1>2. /\ f \in Frames(Arriving, seq, streams) /\ f \in Coming /\ f \in Members(wire)
      /\ Members(wire) = {f} \union Members(wire') /\ Coming = {f} \union Coming'
      /\ \A g \in Coming' : Follows(f, g)
      /\ DaemonTyped' /\ Order' /\ Arriving' = Arriving
  BY <1>1, NextFrame
<1>3. /\ Types /\ ClientTyped /\ BridgeTyped /\ DeadLink /\ Cursor /\ Losses /\ Buffered
      /\ seq \in Nat
  BY DaemonConnectionAssumption DEF IInv, Types, DaemonTyped
<1>4. f \in EventFrames(Arriving) /\ f.type = "event" /\ f.n \in Arriving
  BY <1>2, FrameKinds
<1>5. Becomes(OnEvent(Channel, f))
  OBVIOUS
<1> HIDE DEF f
<1>6. UNCHANGED <<seq, parked, lost, outbox, streams, inFlight, pending, wanted, stale>>
  BY <1>1 DEF daemon, bridge
<1>7. /\ position' \in 0 .. seq /\ cursor' \in 0 .. seq /\ fresh' \in BOOLEAN
      /\ mapped' \in Seq(EventFrames(Arriving)) /\ jobs' \in Seq(Jobs(seq, streams))
      /\ f.n <= cursor => UNCHANGED <<cursor, mapped>>
      /\ f.n > cursor => cursor' = f.n /\ mapped' = Append(mapped, f)
      /\ jobs' \in {jobs, Append(jobs, Job("gap"))}
      /\ Rising(mapped', base, cursor')
  BY <1>4, <1>5, EventTaken
<1>8. ClientTyped' /\ BridgeTyped'
  BY <1>1, <1>2, <1>3, <1>6, <1>7 DEF ClientTyped, BridgeTyped
<1>9. DeadLink'
  BY <1>1 DEF DeadLink
<1>10. Cursor'
  BY <1>1, <1>3, <1>7 DEF Cursor
<1>11. Reattaching'
  <2>1. Job("gap") \in Jobs(seq, streams) /\ Job("gap").do \notin {"reattached", "collected"}
    BY DEF Jobs, Job
  <2> QED BY <1>1, <1>2, <1>4, <1>7, <2>1, ReattachingKept
<1>12. Losses'
  BY <1>1, <1>4, <1>5, <1>6, LossesNoticed
<1>13. /\ Members(mapped') \subseteq Members(mapped) \union {f}
       /\ Members(jobs) \subseteq Members(jobs')
       /\ Members(jobs') \subseteq Members(jobs) \union {Job("gap")}
  <2>1. cursor \in 0 .. seq /\ f.n \in Nat
    BY <1>3, <1>4 DEF ClientTyped, Arriving
  <2>2. f.n <= cursor \/ f.n > cursor
    BY <1>3, <2>1
  <2>3. Members(mapped') \subseteq Members(mapped) \union {f}
    <3>1. Members(Append(mapped, f)) = Members(mapped) \union {f}
      BY <1>3, <1>4, MembersOfAppend DEF BridgeTyped
    <3> QED BY <1>7, <2>2, <3>1
  <2>4. Job("gap") \in Jobs(seq, streams) /\ jobs \in Seq(Jobs(seq, streams))
    BY <1>3 DEF Jobs, Job, ClientTyped
  <2>5. Members(Append(jobs, Job("gap"))) = Members(jobs) \union {Job("gap")}
    BY <2>4, MembersOfAppend
  <2> QED BY <1>7, <2>3, <2>5
<1>14. Replacements'
  <2>1. \A e \in Coming' : e.type = "end" /\ e.purpose = "replacement" => f.n <= e.n
    BY <1>2, <1>4 DEF Follows
  <2>2. \A id : Begin(id, "replacement") # f
    BY <1>4 DEF Begin
  <2>3. \A id : ~ Doing(Job("gap"), "replaced", id)
    BY DEF Doing, Job
  <2> QED BY <1>1, <1>2, <1>13, <2>1, <2>2, <2>3, ReplacementsKept
<1>15. Buffered'
  BY <1>1, <1>2, <1>3, <1>4, <1>13 DEF Buffered, Ending
<1> QED BY <1>2, <1>8, <1>9, <1>10, <1>11, <1>12, <1>14, <1>15 DEF IInv, Types

(* What holds of a step that reads a frame, whatever the frame is.           *)
LEMMA FrameRead ==
  ASSUME IInv, ReadFrame
  PROVE  LET f == Head(wire)
         IN  /\ f \in Frames(Arriving, seq, streams) /\ f \in Coming /\ f \in Members(wire)
             /\ Members(wire) = {f} \union Members(wire') /\ Coming = {f} \union Coming'
             /\ \A g \in Coming' : Follows(f, g)
             /\ DaemonTyped' /\ Order' /\ DeadLink' /\ Arriving' = Arriving
             /\ link /\ inChunk' \in BOOLEAN
             /\ UNCHANGED <<seq, parked, lost, outbox, streams, link, closed, phase, waitingFor,
                            upto, inFlight, pending, wanted, stale, base, told, abandoned,
                            faults, extra>>
<1>1. /\ wire # <<>> /\ wire' = Tail(wire) /\ link /\ inChunk' \in BOOLEAN
      /\ UNCHANGED <<daemon, link, closed, phase, waitingFor, upto, bridge, base, told,
                     abandoned, faults, extra>>
  BY DEF ReadFrame
<1>2. UNCHANGED <<seq, parked, lost, outbox, streams, inFlight, pending, wanted, stale>>
  BY <1>1 DEF daemon, bridge
<1>3. DeadLink'
  BY <1>1 DEF DeadLink
<1> QED BY <1>1, <1>2, <1>3, NextFrame

LEMMA SnapshotTyped ==
  ASSUME IInv, ReadFrame, UNCHANGED <<recoveryFrames, cursor, fresh, mapped, awaiting, read>>,
         buffer' \in Seq(StreamFrames(seq, streams)), shared' \in BOOLEAN,
         position' \in 0 .. seq, jobs' \in Seq(Jobs(seq, streams))
  PROVE  Types' /\ DeadLink' /\ Order' /\ Cursor'
<1>1. /\ DaemonTyped' /\ Order' /\ DeadLink' /\ Arriving' = Arriving
      /\ inChunk' \in BOOLEAN
      /\ UNCHANGED <<seq, parked, lost, outbox, streams, link, closed, phase, waitingFor,
                     upto, inFlight, pending, wanted, stale, base, told, abandoned,
                     faults, extra>>
  BY FrameRead
<1>2. ClientTyped /\ BridgeTyped /\ Cursor
  BY DEF IInv, Types
<1>3. ClientTyped'
  BY <1>1, <1>2 DEF ClientTyped
<1>4. BridgeTyped'
  BY <1>1, <1>2 DEF BridgeTyped
<1>5. Cursor'
  BY <1>1, <1>2 DEF Cursor
<1> QED BY <1>1, <1>3, <1>4, <1>5 DEF Types

LEMMA EvictedMembers ==
  ASSUME NEW S, buffer \in Seq(S), NEW id
  PROVE  /\ Evicted(id) \in Seq(S)
         /\ Members(Evicted(id)) = {g \in Members(buffer) : g.id # id}
<1> DEFINE T == {g \in Members(buffer) : g.id # id}
<1>1. Evicted(id) = Selected(buffer, T)
  BY DEF Evicted
<1> HIDE DEF T
<1>2. /\ Selected(buffer, T) \in Seq(S \intersect T)
      /\ Members(Selected(buffer, T)) = Members(buffer) \intersect T
  BY SelectedMembers
<1>3. Selected(buffer, T) \in Seq(S)
  <2>1. S \intersect T \subseteq S
    OBVIOUS
  <2> QED BY <1>2, <2>1, SeqGrows
<1> QED BY <1>1, <1>2, <1>3 DEF T

LEMMA Beginning ==
  ASSUME IInv, ReadFrame, Head(wire).type = "begin",
         UNCHANGED <<recoveryFrames, cursor, fresh, mapped, awaiting, read, shared, position,
                     jobs>>,
         buffer' \in {buffer, Append(buffer, Head(wire))},
         Head(wire).purpose # "foreign" => buffer' = Append(buffer, Head(wire))
  PROVE  IInv'
<1> DEFINE f == Head(wire)
<1>1. /\ f \in Frames(Arriving, seq, streams) /\ f.type = "begin"
      /\ Members(wire) = {f} \union Members(wire') /\ Coming = {f} \union Coming'
      /\ UNCHANGED <<seq, lost, streams, phase, inFlight, told, abandoned>>
  BY FrameRead
<1>2. ClientTyped /\ Losses /\ Buffered /\ shared \in BOOLEAN /\ position \in 0 .. seq
      /\ jobs \in Seq(Jobs(seq, streams)) /\ buffer \in Seq(StreamFrames(seq, streams))
  BY DEF IInv, Types, ClientTyped
<1>3. f \in StreamFrames(seq, streams)
  BY <1>1, FrameKinds
<1>4. buffer' \in {buffer, Append(buffer, f)} /\ (f.purpose # "foreign" => buffer' = Append(buffer, f))
  OBVIOUS
<1> HIDE DEF f
<1>5. /\ Append(buffer, f) \in Seq(StreamFrames(seq, streams))
      /\ Members(Append(buffer, f)) = Members(buffer) \union {f}
  BY <1>2, <1>3, MembersOfAppend
<1>6. /\ buffer' \in Seq(StreamFrames(seq, streams))
      /\ Members(buffer) \subseteq Members(buffer')
      /\ Members(buffer') \subseteq Members(buffer) \union {f}
      /\ f.purpose # "foreign" => f \in Members(buffer')
  BY <1>2, <1>4, <1>5
<1>7. Types' /\ DeadLink' /\ Order' /\ Cursor'
  BY <1>2, <1>6, SnapshotTyped
<1>8. Reattaching'
  <2>1. Job("gap") \in Jobs(seq, streams) /\ Job("gap").do \notin {"reattached", "collected"}
    BY DEF Jobs, Job
  <2> QED BY <1>1, <2>1, ReattachingKept
<1>9. Losses'
  BY <1>1, <1>2 DEF Losses, Covered, Exposed
<1>10. Replacements'
  <2>1. \A id : Begin(id, "replacement").purpose # "foreign"
    BY DEF Begin
  <2> QED BY <1>1, <1>6, <2>1, ReplacementsKept
<1>11. Buffered'
  <2>1. \A id : (\E e \in Coming : Ending(e, id)) => \E e \in Coming' : Ending(e, id)
    BY <1>1 DEF Ending
  <2>2. \A g \in Coming' : g.type = "begin" => \E e \in Coming' : Ending(e, g.id)
    BY <1>1, <1>2, <2>1 DEF Buffered
  <2>3. \E e \in Coming' : Ending(e, f.id)
    BY <1>1, <1>2, <2>1 DEF Buffered
  <2> QED BY <1>1, <1>2, <1>6, <2>1, <2>2, <2>3 DEF Buffered
<1> QED BY <1>7, <1>8, <1>9, <1>10, <1>11 DEF IInv

(* The end of a stream is the last that is seen of it.                       *)
LEMMA EndRead ==
  ASSUME IInv, ReadFrame, Head(wire).type = "end"
  PROVE  LET f == Head(wire)
         IN  /\ f \in StreamFrames(seq, streams) /\ f.id \in 1 .. streams /\ f.n \in 0 .. seq
             /\ f.purpose \in Purposes
             /\ \A g \in Coming' : g.type \in {"begin", "end"} => g.id # f.id
             /\ \A g \in Coming' : g.type = "begin" => \E e \in Coming' : Ending(e, g.id)
             /\ \A id : id # f.id /\ (\E e \in Coming : Ending(e, id))
                          => \E e \in Coming' : Ending(e, id)
<1> DEFINE f == Head(wire)
<1>1. /\ f \in Frames(Arriving, seq, streams) /\ f.type = "end" /\ Coming = {f} \union Coming'
      /\ \A g \in Coming' : Follows(f, g)
  BY FrameRead
<1> HIDE DEF f
<1>2. f \in StreamFrames(seq, streams)
  BY <1>1, FrameKinds
<1>3. f.id \in 1 .. streams /\ f.n \in 0 .. seq /\ f.purpose \in Purposes
  BY <1>1, <1>2, StreamFrame
<1>4. \A g \in Coming' : g.type \in {"begin", "end"} => g.id # f.id
  BY <1>1 DEF Follows
<1>5. \A id : id # f.id /\ (\E e \in Coming : Ending(e, id)) => \E e \in Coming' : Ending(e, id)
  BY <1>1 DEF Ending
<1>6. \A g \in Coming' : g.type = "begin" => \E e \in Coming' : Ending(e, g.id)
  <2>1. Buffered
    BY DEF IInv
  <2> QED BY <1>1, <1>4, <1>5, <2>1 DEF Buffered
<1> QED BY <1>2, <1>3, <1>4, <1>5, <1>6 DEF f

(* A snapshot that is not applied: its frames are released.                  *)
LEMMA Releasing ==
  ASSUME IInv, ReadFrame, Head(wire).type = "end",
         UNCHANGED <<recoveryFrames, cursor, fresh, mapped, awaiting, read, jobs>>,
         buffer' = Evicted(Head(wire).id), shared' = FALSE,
         \/ UNCHANGED position /\ Head(wire).purpose # "attach"
         \/ /\ Head(wire).purpose = "replacement" /\ position' = Head(wire).n
            /\ \A g \in Members(buffer) : ~ (g.type = "begin" /\ g.id = Head(wire).id)
  PROVE  IInv'
<1> DEFINE f == Head(wire)
<1>1. /\ f \in Frames(Arriving, seq, streams) /\ f.type = "end" /\ f \in Coming
      /\ Members(wire) = {f} \union Members(wire') /\ Coming = {f} \union Coming'
      /\ \A g \in Coming' : Follows(f, g)
      /\ UNCHANGED <<seq, lost, streams, phase, inFlight, told, abandoned>>
  BY FrameRead
<1>2. /\ ClientTyped /\ Losses /\ Buffered /\ Replacements /\ position \in 0 .. seq
      /\ jobs \in Seq(Jobs(seq, streams)) /\ buffer \in Seq(StreamFrames(seq, streams))
      /\ lost \subseteq Nat /\ seq \in Nat /\ told \in Nat
  BY DaemonConnectionAssumption DEF IInv, Types, ClientTyped, DaemonTyped, BridgeTyped
<1>3. /\ f \in StreamFrames(seq, streams) /\ f.n \in 0 .. seq
      /\ \A g \in Coming' : g.type \in {"begin", "end"} => g.id # f.id
      /\ \A g \in Coming' : g.type = "begin" => \E e \in Coming' : Ending(e, g.id)
      /\ \A id : id # f.id /\ (\E e \in Coming : Ending(e, id))
                   => \E e \in Coming' : Ending(e, id)
  BY EndRead
<1>4. /\ buffer' = Evicted(f.id)
      /\ \/ UNCHANGED position /\ f.purpose # "attach"
         \/ /\ f.purpose = "replacement" /\ position' = f.n
            /\ \A g \in Members(buffer) : ~ (g.type = "begin" /\ g.id = f.id)
  OBVIOUS
<1> HIDE DEF f
<1>5. /\ buffer' \in Seq(StreamFrames(seq, streams))
      /\ Members(buffer') = {g \in Members(buffer) : g.id # f.id}
  BY <1>2, <1>4, EvictedMembers
<1>6. Types' /\ DeadLink' /\ Order' /\ Cursor'
  <2>1. position' \in 0 .. seq
    BY <1>2, <1>3, <1>4
  <2> QED BY <1>2, <1>5, <2>1, SnapshotTyped
<1>7. Reattaching'
  <2>1. Job("gap") \in Jobs(seq, streams) /\ Job("gap").do \notin {"reattached", "collected"}
    BY DEF Jobs, Job
  <2> QED BY <1>1, <2>1, ReattachingKept
<1>8. Losses'
  <2>1. CASE UNCHANGED position
    BY <1>1, <1>2, <2>1 DEF Losses, Covered, Exposed
  <2>2. CASE /\ f.purpose = "replacement" /\ position' = f.n
             /\ \A g \in Members(buffer) : ~ (g.type = "begin" /\ g.id = f.id)
    <3>1. Begin(f.id, "replacement") \notin Members(buffer) \union Coming
      <4>1. Begin(f.id, "replacement").type = "begin" /\ Begin(f.id, "replacement").id = f.id
        BY DEF Begin
      <4> QED BY <1>1, <1>3, <2>2, <4>1
    <3>2. phase = "none" => f.n <= told
      BY <1>1, <1>2, <2>2, <3>1 DEF Replacements
    <3>3. \A g \in Members(mapped) : g.n <= f.n
      BY <1>1, <1>2, <2>2 DEF Replacements
    <3>4. \A n : (Covered(n)' <=> Covered(n)) /\ (Exposed(n)' <=> Exposed(n))
      BY <1>1 DEF Covered, Exposed
    <3>5. ASSUME NEW n \in lost, n <= position' PROVE Covered(n)
      BY <1>2, <1>3, <2>2, <3>2, <3>5 DEF Covered
    <3> QED BY <1>1, <1>2, <2>2, <3>3, <3>4, <3>5 DEF Losses
  <2> QED BY <1>4, <2>1, <2>2
<1>9. Replacements'
  <2>1. ASSUME NEW e \in Coming', e.type = "end", Begin(e.id, "replacement") \in Members(buffer) \union Coming
        PROVE  Begin(e.id, "replacement") \in Members(buffer') \union Coming'
    <3>1. Begin(e.id, "replacement").type = "begin" /\ Begin(e.id, "replacement").id = e.id
      BY DEF Begin
    <3>2. e.id # f.id
      BY <1>3, <2>1
    <3> QED BY <1>1, <1>5, <2>1, <3>1, <3>2
  <2> QED BY <1>1, <2>1, ReplacementsKept
<1>10. Buffered'
  BY <1>1, <1>2, <1>3, <1>5 DEF Buffered
<1> QED BY <1>6, <1>7, <1>8, <1>9, <1>10 DEF IInv

LEMMA ReplacementEnds ==
  ASSUME IInv, ReadFrame, Head(wire).type = "end", Head(wire).purpose = "replacement",
         UNCHANGED <<recoveryFrames, cursor, fresh, mapped, awaiting, read, shared>>,
         buffer' = Append(buffer, Head(wire)), position' = Head(wire).n,
         jobs' = Append(jobs, SnapshotJob("replaced", Head(wire)))
  PROVE  IInv'
<1> DEFINE f == Head(wire)
           job == SnapshotJob("replaced", f)
<1>1. /\ f \in Frames(Arriving, seq, streams) /\ f.type = "end" /\ f \in Coming
      /\ Members(wire) = {f} \union Members(wire') /\ Coming = {f} \union Coming'
      /\ UNCHANGED <<seq, lost, streams, phase, inFlight, told, abandoned>>
  BY FrameRead
<1>2. /\ ClientTyped /\ Losses /\ Buffered /\ shared \in BOOLEAN
      /\ jobs \in Seq(Jobs(seq, streams)) /\ buffer \in Seq(StreamFrames(seq, streams))
      /\ streams \in Nat
  BY DEF IInv, Types, ClientTyped, DaemonTyped
<1>3. /\ f \in StreamFrames(seq, streams) /\ f.id \in 1 .. streams /\ f.n \in 0 .. seq
      /\ \A g \in Coming' : g.type \in {"begin", "end"} => g.id # f.id
      /\ \A g \in Coming' : g.type = "begin" => \E e \in Coming' : Ending(e, g.id)
      /\ \A id : id # f.id /\ (\E e \in Coming : Ending(e, id))
                   => \E e \in Coming' : Ending(e, id)
  BY EndRead
<1>4. buffer' = Append(buffer, f) /\ position' = f.n /\ jobs' = Append(jobs, job)
  OBVIOUS
<1>5. job \in Jobs(seq, streams) /\ job.do = "replaced" /\ job.id = f.id
  BY <1>2, <1>3 DEF SnapshotJob, Jobs
<1> HIDE DEF f, job
<1>6. /\ buffer' \in Seq(StreamFrames(seq, streams))
      /\ Members(buffer') = Members(buffer) \union {f}
  <2>1. /\ Append(buffer, f) \in Seq(StreamFrames(seq, streams))
        /\ Members(Append(buffer, f)) = Members(buffer) \union {f}
    BY <1>2, <1>3, MembersOfAppend
  <2> QED BY <1>4, <2>1
<1>7. jobs' \in Seq(Jobs(seq, streams)) /\ Members(jobs') = Members(jobs) \union {job}
  <2>1. /\ Append(jobs, job) \in Seq(Jobs(seq, streams))
        /\ Members(Append(jobs, job)) = Members(jobs) \union {job}
    BY <1>2, <1>5, MembersOfAppend
  <2> QED BY <1>4, <2>1
<1>8. Types' /\ DeadLink' /\ Order' /\ Cursor'
  BY <1>2, <1>3, <1>4, <1>6, <1>7, SnapshotTyped
<1>9. Reattaching'
  BY <1>1, <1>4, <1>5, ReattachingKept
<1>10. Losses'
  BY <1>5, <1>7 DEF Losses, Covered
<1>11. Replacements'
  BY <1>1, <1>3, <1>5, <1>6, <1>7, ReplacementsKept DEF Doing
<1>12. Buffered'
  <2>1. ASSUME NEW g \in Members(buffer'), phase = "none", g.id # f.id
        PROVE  \/ \E e \in Coming' : Ending(e, g.id)
               \/ \E j \in Members(jobs') : Doing(j, "replaced", g.id)
    BY <1>2, <1>3, <1>6, <1>7, <2>1 DEF Buffered
  <2>2. job \in Members(jobs') /\ Doing(job, "replaced", f.id)
    BY <1>5, <1>7 DEF Doing
  <2> QED BY <1>1, <1>3, <2>1, <2>2 DEF Buffered
<1> QED BY <1>8, <1>9, <1>10, <1>11, <1>12 DEF IInv

(* The stream that was to be the answer to a reattach.                       *)
LEMMA AttachEnds ==
  ASSUME IInv, ReadFrame, Head(wire).type = "end", Head(wire).purpose = "attach",
         UNCHANGED <<recoveryFrames, cursor, fresh, mapped, awaiting, read>>,
         buffer' = Evicted(Head(wire).id), shared' = FALSE, position' = Head(wire).n,
         jobs' = IF phase = "collecting" /\ waitingFor = Head(wire).id
                 THEN Append(jobs, SnapshotJob("collected", Head(wire))) ELSE jobs
  PROVE  IInv'
<1> DEFINE f == Head(wire)
           job == SnapshotJob("collected", f)
<1>1. /\ f \in Frames(Arriving, seq, streams) /\ f.type = "end" /\ f \in Coming
      /\ Members(wire) = {f} \union Members(wire') /\ Coming = {f} \union Coming'
      /\ \A g \in Coming' : Follows(f, g)
      /\ UNCHANGED <<seq, lost, streams, phase, inFlight, told, abandoned>>
  BY FrameRead
<1>2. /\ ClientTyped /\ Losses /\ Buffered /\ Reattaching
      /\ jobs \in Seq(Jobs(seq, streams)) /\ buffer \in Seq(StreamFrames(seq, streams))
      /\ streams \in Nat
  BY DEF IInv, Types, ClientTyped, DaemonTyped
<1>3. /\ f \in StreamFrames(seq, streams) /\ f.id \in 1 .. streams /\ f.n \in 0 .. seq
      /\ \A g \in Coming' : g.type = "begin" => \E e \in Coming' : Ending(e, g.id)
  BY EndRead
<1>4. /\ buffer' = Evicted(f.id) /\ position' = f.n /\ f.purpose = "attach"
      /\ jobs' = jobs \/ (phase = "collecting" /\ jobs' = Append(jobs, job))
  OBVIOUS
<1>5. job \in Jobs(seq, streams) /\ job.do = "collected"
  BY <1>2, <1>3 DEF SnapshotJob, Jobs
<1> HIDE DEF f, job
<1>6. buffer' \in Seq(StreamFrames(seq, streams))
  BY <1>2, <1>4, EvictedMembers
<1>7. /\ Append(jobs, job) \in Seq(Jobs(seq, streams))
      /\ Members(Append(jobs, job)) = Members(jobs) \union {job} /\ Len(jobs) \in Nat
      /\ Len(Append(jobs, job)) = Len(jobs) + 1 /\ Append(jobs, job)[Len(jobs) + 1] = job
      /\ \A i \in 1 .. Len(jobs) : Append(jobs, job)[i] = jobs[i]
  BY <1>2, <1>5, JobAdded
<1>8. jobs' \in Seq(Jobs(seq, streams)) /\ Members(jobs') \in {Members(jobs), Members(jobs) \union {job}}
  BY <1>2, <1>4, <1>7
<1>9. Types' /\ DeadLink' /\ Order' /\ Cursor'
  BY <1>3, <1>4, <1>6, <1>8, SnapshotTyped
<1>10. ~ NoAttach /\ phase \notin {"none", "reconnecting"}
  BY <1>1, <1>2, <1>4 DEF NoAttach, OfAttach, Reattaching
<1>11. NoAttach'
  <2>1. \A g \in Coming' : g.type \in {"begin", "end"} => g.purpose # "attach"
    BY <1>1, <1>4 DEF Follows
  <2> QED BY <2>1 DEF NoAttach, OfAttach
<1>12. Reattaching'
  <2>1. \A i \in 1 .. Len(jobs) : jobs[i].do # "collected"
    BY <1>2, <1>10 DEF Reattaching
  <2>2. \A g \in Members(wire') : g \in Members(wire)
    BY <1>1
  <2>3. CASE jobs' = jobs
    BY <1>1, <1>2, <1>11, <2>2, <2>3 DEF Reattaching
  <2>4. CASE phase = "collecting" /\ jobs' = Append(jobs, job)
    <3>1. \A g \in Members(wire') : g.type # "reattached"
      BY <1>2, <2>2, <2>4 DEF Reattaching
    <3>2. \A i \in 1 .. Len(jobs) : jobs[i].do # "reattached"
      BY <1>2, <2>4 DEF Reattaching
    <3>3. \A i \in 1 .. Len(jobs') : jobs'[i].do # "reattached"
                                     /\ (jobs'[i].do = "collected" => i = Len(jobs) + 1)
      BY <1>5, <1>7, <2>1, <2>4, <3>2
    <3> QED BY <1>1, <1>11, <2>4, <3>1, <3>3 DEF Reattaching
  <2> QED BY <1>4, <2>3, <2>4
<1>13. Losses'
  BY <1>1, <1>10 DEF Losses, Covered
<1>14. Replacements'
  BY <1>1, <1>5, <1>8, <1>10, ReplacementsKept DEF Doing
<1>15. Buffered'
  BY <1>1, <1>3, <1>10 DEF Buffered
<1> QED BY <1>9, <1>12, <1>13, <1>14, <1>15 DEF IInv

LEMMA SnapshotFrame ==
  ASSUME IInv, ReadFrame, Head(wire).type \in {"begin", "end"}, ReadSnapshotFrame(Head(wire)),
         UNCHANGED <<recoveryFrames, cursor, fresh, mapped, awaiting, read>>
  PROVE  IInv'
<1> DEFINE f == Head(wire)
<1>1. CASE f.type = "begin" /\ f.purpose # "foreign" /\ Push(f) /\ UNCHANGED <<position, jobs>>
  BY <1>1, Beginning DEF Push
<1>2. CASE /\ f.type = "begin" /\ f.purpose = "foreign"
           /\ UNCHANGED <<buffer, held, shared, position, jobs>>
  BY <1>2, Beginning
<1>3. CASE /\ f.type = "end" /\ f.purpose = "foreign" /\ buffer' = Evicted(f.id)
           /\ shared' = FALSE /\ UNCHANGED <<held, position, jobs>>
  BY <1>3, Releasing
<1>4. CASE /\ f.type = "end" /\ f.purpose = "attach" /\ buffer' = Evicted(f.id)
           /\ shared' = FALSE /\ position' = f.n
           /\ jobs' = IF phase = "collecting" /\ waitingFor = f.id
                      THEN Append(jobs, SnapshotJob("collected", f)) ELSE jobs
  BY <1>4, AttachEnds
<1>5. CASE /\ f.type = "end" /\ f.purpose = "replacement"
           /\ ~ \E g \in Members(buffer) : g.type = "begin" /\ g.id = f.id
           /\ buffer' = Evicted(f.id) /\ shared' = FALSE /\ position' = f.n
           /\ UNCHANGED <<held, jobs>>
  BY <1>5, Releasing
<1>6. CASE /\ f.type = "end" /\ f.purpose = "replacement" /\ Push(f) /\ position' = f.n
           /\ jobs' = Append(jobs, SnapshotJob("replaced", f))
  BY <1>6, ReplacementEnds DEF Push
<1> QED BY <1>1, <1>2, <1>3, <1>4, <1>5, <1>6 DEF ReadSnapshotFrame

LEMMA ReattachedRead ==
  ASSUME IInv, ReadFrame, Head(wire).type = "reattached",
         jobs' = Append(jobs, SnapshotJob("reattached", Head(wire))),
         UNCHANGED <<recoveryFrames, cursor, position, fresh, mapped, buffer, held, shared,
                     awaiting, read>>
  PROVE  IInv'
<1> DEFINE f == Head(wire)
           job == SnapshotJob("reattached", f)
<1>1. /\ f \in Frames(Arriving, seq, streams) /\ f.type = "reattached" /\ f \in Coming
      /\ f \in Members(wire)
      /\ Members(wire) = {f} \union Members(wire') /\ Coming = {f} \union Coming'
      /\ \A g \in Coming' : Follows(f, g)
      /\ UNCHANGED <<seq, lost, streams, phase, inFlight, told, abandoned>>
  BY FrameRead
<1>2. /\ ClientTyped /\ Losses /\ Buffered /\ Reattaching /\ shared \in BOOLEAN
      /\ jobs \in Seq(Jobs(seq, streams)) /\ buffer \in Seq(StreamFrames(seq, streams))
      /\ position \in 0 .. seq
  BY DEF IInv, Types, ClientTyped
<1>3. job \in Jobs(seq, streams) /\ job.do = "reattached" /\ job.id = f.id
  <2>1. f \in AnswerFrames(seq, streams)
    BY <1>1, FrameKinds
  <2>2. f.id \in 0 .. streams /\ f.n \in 0 .. seq
    BY <1>1, <2>1, AnswerFrame
  <2> QED BY <2>2 DEF SnapshotJob, Jobs
<1>4. jobs' = Append(jobs, job)
  OBVIOUS
<1> HIDE DEF f, job
<1>5. /\ jobs' \in Seq(Jobs(seq, streams)) /\ Members(jobs') = Members(jobs) \union {job}
      /\ Len(jobs) \in Nat /\ Len(jobs') = Len(jobs) + 1 /\ jobs'[Len(jobs) + 1] = job
      /\ \A i \in 1 .. Len(jobs) : jobs'[i] = jobs[i]
  <2>1. /\ Append(jobs, job) \in Seq(Jobs(seq, streams))
        /\ Members(Append(jobs, job)) = Members(jobs) \union {job} /\ Len(jobs) \in Nat
        /\ Len(Append(jobs, job)) = Len(jobs) + 1 /\ Append(jobs, job)[Len(jobs) + 1] = job
        /\ \A i \in 1 .. Len(jobs) : Append(jobs, job)[i] = jobs[i]
    BY <1>2, <1>3, JobAdded
  <2> QED BY <1>4, <2>1
<1>6. Types' /\ DeadLink' /\ Order' /\ Cursor'
  BY <1>2, <1>5, SnapshotTyped
<1>7. Reattaching'
  <2>1. /\ phase = "reattaching" /\ (f.id = 0 => NoAttach)
        /\ \A j \in Members(jobs) : j.do # "reattached"
    BY <1>1, <1>2 DEF Reattaching
  <2>2. NoAttach => NoAttach'
    BY <1>1 DEF NoAttach
  <2>3. \A g \in Members(wire') : g.type # "reattached"
    BY <1>1 DEF Follows, Coming
  <2>4. \A i \in 1 .. Len(jobs) : jobs[i] \in Members(jobs)
    BY <1>2, MembersOf
  <2>5. \A i \in 1 .. Len(jobs) : jobs[i].do \notin {"reattached", "collected"}
    BY <1>2, <2>1, <2>4 DEF Reattaching
  <2>6. \A i \in 1 .. Len(jobs') :
          /\ jobs'[i].do = "reattached" => i = Len(jobs) + 1 /\ jobs'[i] = job
          /\ jobs'[i].do # "collected"
    BY <1>3, <1>5, <2>5
  <2>7. \E j \in Members(jobs') : j.do = "reattached"
    BY <1>3, <1>5
  <2> QED BY <1>1, <1>3, <2>1, <2>2, <2>3, <2>6, <2>7 DEF Reattaching
<1>8. Losses'
  BY <1>1, <1>2, <1>5 DEF Losses, Covered, Exposed
<1>9. Replacements'
  <2>1. \A id : Begin(id, "replacement") # f
    BY <1>1 DEF Begin
  <2> QED BY <1>1, <1>3, <1>5, <2>1, ReplacementsKept DEF Doing
<1>10. Buffered'
  BY <1>1, <1>2, <1>5 DEF Buffered, Ending
<1> QED BY <1>6, <1>7, <1>8, <1>9, <1>10 DEF IInv

LEMMA AnswerTaken ==
  ASSUME IInv, ReadFrame, Head(wire).type \in {"messages", "rest"}, ReadAnswer(Head(wire)),
         UNCHANGED <<recoveryFrames, cursor, position, fresh, mapped, buffer, held, shared>>
  PROVE  IInv'
<1> DEFINE f == Head(wire)
<1>1. /\ f \in Frames(Arriving, seq, streams) /\ f.type \in {"messages", "rest"} /\ f \in Coming
      /\ Members(wire) = {f} \union Members(wire') /\ Coming = {f} \union Coming'
      /\ DaemonTyped' /\ Order' /\ DeadLink' /\ Arriving' = Arriving
      /\ inChunk' \in BOOLEAN
      /\ UNCHANGED <<seq, parked, lost, outbox, streams, link, closed, phase, waitingFor,
                     upto, inFlight, pending, wanted, stale, base, told, abandoned,
                     faults, extra>>
  BY FrameRead
<1>2. /\ ClientTyped /\ BridgeTyped /\ Losses /\ Buffered /\ Cursor
      /\ jobs \in Seq(Jobs(seq, streams))
  BY DEF IInv, Types, ClientTyped
<1>3. /\ awaiting' = awaiting \ {f.type}
      /\ read' = IF f.type = "messages" THEN f.n ELSE read
      /\ jobs' \in {jobs, Append(jobs, Job("read"))}
  BY DEF ReadAnswer
<1>4. f.type = "messages" => f.n \in 0 .. seq
  <2>1. f \in AnswerFrames(seq, streams)
    BY <1>1, FrameKinds
  <2> QED BY <2>1, AnswerFrame
<1> HIDE DEF f
<1>5. Job("read") \in Jobs(seq, streams) /\ Job("read").do = "read"
  BY DEF Jobs, Job
<1>6. /\ jobs' \in Seq(Jobs(seq, streams)) /\ Members(jobs) \subseteq Members(jobs')
      /\ Members(jobs') \subseteq Members(jobs) \union {Job("read")}
  <2>1. /\ Append(jobs, Job("read")) \in Seq(Jobs(seq, streams))
        /\ Members(Append(jobs, Job("read"))) = Members(jobs) \union {Job("read")}
    BY <1>2, <1>5, MembersOfAppend
  <2> QED BY <1>2, <1>3, <2>1
<1>7. ClientTyped'
  BY <1>1, <1>2, <1>6 DEF ClientTyped
<1>8. BridgeTyped'
  <2>1. awaiting' \subseteq {"messages", "rest"} /\ read' \in 0 .. seq
    BY <1>2, <1>3, <1>4 DEF BridgeTyped
  <2> QED BY <1>1, <1>2, <2>1 DEF BridgeTyped
<1>9. Cursor'
  BY <1>1, <1>2 DEF Cursor
<1>10. Reattaching'
  BY <1>1, <1>3, <1>5, ReattachingKept
<1>11. Losses'
  BY <1>1, <1>2, <1>6 DEF Losses, Covered, Exposed
<1>12. Replacements'
  <2>1. \A id : Begin(id, "replacement") # f
    BY <1>1 DEF Begin
  <2> QED BY <1>1, <1>5, <1>6, <2>1, ReplacementsKept DEF Doing
<1>13. Buffered'
  BY <1>1, <1>2, <1>6 DEF Buffered, Ending
<1> QED BY <1>1, <1>7, <1>8, <1>9, <1>10, <1>11, <1>12, <1>13 DEF IInv, Types

LEMMA Reading ==
  ASSUME IInv, ReadFrame
  PROVE  IInv'
<1> DEFINE f == Head(wire)
<1>1. CASE /\ f.type = "event" /\ ReadEvent(f)
           /\ UNCHANGED <<buffer, held, shared, awaiting, read>>
  <2>1. CASE phase = "none" /\ Becomes(OnEvent(Channel, f)) /\ UNCHANGED recoveryFrames
    BY <1>1, <2>1, Mapped
  <2>2. CASE /\ phase # "none" /\ recoveryFrames' = Append(recoveryFrames, f)
             /\ UNCHANGED <<position, jobs, cursor, fresh, mapped>>
    BY <1>1, <2>2, HeldBack
  <2> QED BY <1>1, <2>1, <2>2 DEF ReadEvent
<1>2. CASE /\ f.type \in {"begin", "end"} /\ ReadSnapshotFrame(f)
           /\ UNCHANGED <<recoveryFrames, cursor, fresh, mapped, awaiting, read>>
  BY <1>2, SnapshotFrame
<1>3. CASE /\ f.type = "reattached" /\ jobs' = Append(jobs, SnapshotJob("reattached", f))
           /\ UNCHANGED <<recoveryFrames, cursor, position, fresh, mapped, buffer, held,
                          shared, awaiting, read>>
  BY <1>3, ReattachedRead
<1>4. CASE /\ f.type \in {"messages", "rest"} /\ ReadAnswer(f)
           /\ UNCHANGED <<recoveryFrames, cursor, position, fresh, mapped, buffer, held, shared>>
  BY <1>4, AnswerTaken
<1> QED BY <1>1, <1>2, <1>3, <1>4 DEF ReadFrame

------------------------------------------------------------------------------
(* The events that a recovery held back                                      *)

(* Delivered is defined by recursion; there is a function that its equations *)
(* define, and what OnEvent keeps holds of the channel that comes out.       *)
Through(c, frames, g, n) ==
  \A i \in 0 .. n : g[i] = IF i = 0 THEN {c} ELSE {OnEvent(b, frames[i]) : b \in g[i - 1]}

LEMMA ThroughExists ==
  ASSUME NEW Ch, NEW c \in Ch, NEW S, NEW frames \in Seq(S),
         \A b \in Ch, f \in Members(frames) : OnEvent(b, f) \in Ch
  PROVE  \E g \in [0 .. Len(frames) -> {x \in SUBSET Ch : x # {}}] : Through(c, frames, g, Len(frames))
<1> DEFINE Non == {x \in SUBSET Ch : x # {}}
           Upto(n) == \E g \in [0 .. n -> Non] : Through(c, frames, g, n)
           Good == {n \in Nat : n <= Len(frames) => Upto(n)}
<1>1. 0 \in Good
  <2>1. [i \in 0 .. 0 |-> {c}] \in [0 .. 0 -> Non]
    <3>1. {c} \in Non
      <4>1. \A x : x \subseteq Ch /\ x # {} => x \in Non
        OBVIOUS
      <4>2. {c} \subseteq Ch /\ {c} # {}
        OBVIOUS
      <4> HIDE DEF Non
      <4> QED BY <4>1, <4>2
    <3> HIDE DEF Non
    <3> QED BY <3>1
  <2>2. Through(c, frames, [i \in 0 .. 0 |-> {c}], 0)
    BY DEF Through
  <2> QED BY <2>1, <2>2
<1>2. ASSUME NEW n \in Nat, n \in Good PROVE n + 1 \in Good
  <2>1. SUFFICES ASSUME n + 1 <= Len(frames) PROVE Upto(n + 1)
    <3> HIDE DEF Upto
    <3> QED OBVIOUS
  <2>2. PICK h \in [0 .. n -> Non] : Through(c, frames, h, n)
    BY <1>2, <2>1
  <2> DEFINE next == {OnEvent(b, frames[n + 1]) : b \in h[n]}
             g == [i \in 0 .. n + 1 |-> IF i = n + 1 THEN next ELSE h[i]]
  <2>3. frames[n + 1] \in Members(frames) /\ h[n] \in Non
    BY <2>1, <2>2, MembersOf
  <2>4. next \in Non
    <3>1. next \subseteq Ch
      BY <2>3
    <3>2. next # {}
      BY <2>3
    <3> QED BY <3>1, <3>2
  <2>5. g \in [0 .. n + 1 -> Non]
    <3> HIDE DEF next, Non
    <3> QED BY <2>2, <2>4
  <2>6. \A i \in 0 .. n : g[i] = h[i]
    OBVIOUS
  <2>7. g[n + 1] = next /\ g[(n + 1) - 1] = h[n]
    OBVIOUS
  <2> HIDE DEF g
  <2>8. \A i \in 0 .. n : i # 0 => g[i - 1] = h[i - 1]
    BY <2>6
  <2> DEFINE Step(h0, i) == IF i = 0 THEN {c} ELSE {OnEvent(b, frames[i]) : b \in h0[i - 1]}
  <2>9. \A i \in 0 .. n : g[i] = Step(g, i)
    <3>1. \A i \in 0 .. n : h[i] = Step(h, i)
      BY <2>2 DEF Through
    <3>2. \A i \in 0 .. n : Step(g, i) = Step(h, i)
      BY <2>8
    <3> HIDE DEF Step
    <3> QED BY <2>6, <3>1, <3>2
  <2>10. g[n + 1] = Step(g, n + 1)
    BY <2>7
  <2>11. \A i \in 0 .. n + 1 : i \in 0 .. n \/ i = n + 1
    OBVIOUS
  <2>12. \A i \in 0 .. n + 1 : g[i] = Step(g, i)
    <3> HIDE DEF Step
    <3> QED BY <2>9, <2>10, <2>11
  <2>13. Through(c, frames, g, n + 1)
    BY <2>12 DEF Through
  <2> HIDE DEF Non
  <2> QED BY <2>5, <2>13
<1>3. \A n \in Nat : n \in Good
  <2> HIDE DEF Good
  <2> QED BY <1>1, <1>2, SetInduction
<1>4. Len(frames) \in Nat
  OBVIOUS
<1> HIDE DEF Non
<1>5. Upto(Len(frames))
  BY <1>3, <1>4
<1> QED BY <1>5 DEF Non

LEMMA DeliveredIn ==
  ASSUME NEW Ch, NEW c \in Ch, NEW S, NEW frames \in Seq(S),
         \A b \in Ch, f \in Members(frames) : OnEvent(b, f) \in Ch
  PROVE  Delivered(c, frames) \in Ch
<1> DEFINE Eq(g) == g = [i \in 0 .. Len(frames) |->
                          IF i = 0 THEN {c} ELSE {OnEvent(b, frames[i]) : b \in g[i - 1]}]
           through == CHOOSE g : Eq(g)
<1>1. Delivered(c, frames) = CHOOSE d \in through[Len(frames)] : TRUE
  BY DEF Delivered
<1>2. \E g : Eq(g)
  <2>1. PICK g \in [0 .. Len(frames) -> {x \in SUBSET Ch : x # {}}] : Through(c, frames, g, Len(frames))
    BY ThroughExists
  <2> QED BY <2>1 DEF Through
<1>3. Eq(through)
  BY <1>2
<1> HIDE DEF through
<1> DEFINE Upto(n) == through[n] \subseteq Ch /\ through[n] # {}
           Good == {n \in Nat : n <= Len(frames) => Upto(n)}
<1>4. 0 \in Good
  <2>1. through[0] = {c}
    BY <1>3
  <2> QED BY <2>1
<1>5. ASSUME NEW n \in Nat, n \in Good PROVE n + 1 \in Good
  <2>1. SUFFICES ASSUME n + 1 <= Len(frames) PROVE Upto(n + 1)
    OBVIOUS
  <2>2. Upto(n)
    BY <1>5, <2>1
  <2>3. n + 1 \in 0 .. Len(frames) /\ n + 1 # 0 /\ (n + 1) - 1 = n /\ n + 1 \in 1 .. Len(frames)
    BY <2>1
  <2>4. through[n + 1] = {OnEvent(b, frames[n + 1]) : b \in through[n]}
    BY <1>3, <2>3
  <2>5. frames[n + 1] \in Members(frames)
    BY <2>3, MembersOf
  <2> QED BY <2>2, <2>4, <2>5
<1>6. \A n \in Nat : n \in Good
  <2> HIDE DEF Good
  <2> QED BY <1>4, <1>5, SetInduction
<1>7. Len(frames) \in Nat
  OBVIOUS
<1>8. Upto(Len(frames))
  BY <1>6, <1>7
<1> QED BY <1>1, <1>8
(* What comes out of a recovery: the events that were held back follow the   *)
(* snapshot, each once and in order, and only gaps are added to the jobs.    *)
LEMMA RecoveredChannel ==
  ASSUME NEW s \in Nat, NEW k \in Nat, NEW A, \A x \in A : x \in 1 .. s,
         NEW frames \in Seq(EventFrames(A)), NEW n \in 0 .. s, NEW rest \in Seq(Jobs(s, k))
  PROVE  LET d == Delivered(Baseline(n, rest), frames)
         IN  /\ d \in Channels(A, s, k) /\ Rising(d.mapped, n, d.cursor)
             /\ d.cursor <= d.position /\ Members(d.mapped) \subseteq Members(frames)
             /\ Members(d.jobs) \subseteq Members(rest) \union {Job("gap")}
<1> DEFINE c == Baseline(n, rest)
           Ch == {d \in Channels(A, s, k) :
                    /\ Rising(d.mapped, n, d.cursor) /\ d.cursor <= d.position
                    /\ Members(d.mapped) \subseteq Members(frames)
                    /\ Members(d.jobs) \subseteq Members(rest) \union {Job("gap")}}
<1>1. c \in Ch
  <2>1. /\ c.position = n /\ c.cursor = n /\ c.fresh = TRUE /\ c.mapped = <<>> /\ c.jobs = rest
        /\ c = [position |-> n, cursor |-> n, fresh |-> TRUE, mapped |-> <<>>, jobs |-> rest]
    BY DEF Baseline
  <2>2. <<>> \in Seq(EventFrames(A)) /\ Members(<<>>) = {} /\ Len(<<>>) = 0
    BY DEF Members
  <2>3. c \in Channels(A, s, k)
    <3>1. \A m \in Seq(EventFrames(A)) :
            [position |-> n, cursor |-> n, fresh |-> TRUE, mapped |-> m, jobs |-> rest]
              \in Channels(A, s, k)
      BY DEF Channels
    <3> HIDE DEF c
    <3> QED BY <2>1, <2>2, <3>1
  <2>4. Rising(<<>>, n, n)
    BY <2>2 DEF Rising
  <2>5. c.cursor <= c.position
    BY <2>1
  <2> HIDE DEF c
  <2> QED BY <2>1, <2>2, <2>3, <2>4, <2>5
<1>2. ASSUME NEW b \in Ch, NEW f \in Members(frames) PROVE OnEvent(b, f) \in Ch
  <2> DEFINE d == OnEvent(b, f)
             p == d.position
             u == d.cursor
  <2>1. f \in EventFrames(A)
    BY MembersOf
  <2>2. /\ d \in Channels(A, s, k) /\ Members(d.mapped) \subseteq Members(b.mapped) \union {f}
        /\ Members(d.jobs) \subseteq Members(b.jobs) \union {Job("gap")}
    BY <2>1, OnEventTyped
  <2>3. /\ p = IF f.n > b.position THEN f.n ELSE b.position
        /\ f.n <= b.cursor => u = b.cursor
        /\ f.n > b.cursor => u = f.n
    BY <2>1, OnEventTyped
  <2>4. Rising(d.mapped, n, d.cursor)
    BY <2>1, OnEventRises
  <2>5. b.position \in Nat /\ b.cursor \in Nat /\ b.cursor <= b.position /\ f.n \in Nat
    <3>1. b.position \in 0 .. s /\ b.cursor \in 0 .. s
      BY DEF Channels
    <3>2. f.n \in A
      BY <2>1 DEF EventFrames
    <3> QED BY <3>1, <3>2
  <2>6. u <= p
    <3> HIDE DEF u, p
    <3> QED BY <2>3, <2>5
  <2>7. d.cursor <= d.position
    BY <2>6
  <2>8. Members(d.mapped) \subseteq Members(frames)
    BY <2>2
  <2>9. Members(d.jobs) \subseteq Members(rest) \union {Job("gap")}
    BY <2>2
  <2> HIDE DEF d
  <2>10. d \in Ch
    BY <2>2, <2>4, <2>7, <2>8, <2>9
  <2> QED BY <2>10 DEF d
<1> HIDE DEF Ch
<1>3. Delivered(c, frames) \in Ch
  <2> HIDE DEF c
  <2> QED BY <1>1, <1>2, DeliveredIn
<1> QED BY <1>3 DEF Ch

------------------------------------------------------------------------------
(* Microtasks                                                                *)

(* The place in s of the k-th of those that are left when the i-th is taken. *)
Place(i, k) == IF k < i THEN k ELSE k + 1

LEMMA JobTaken ==
  ASSUME NEW J, NEW s \in Seq(J), NEW i \in DOMAIN s
  PROVE  LET rest == RemoveAt(s, i)
         IN  /\ rest \in Seq(J) /\ Len(rest) = Len(s) - 1 /\ s[i] \in J
             /\ \A k \in 1 .. Len(rest) :
                  Place(i, k) \in 1 .. Len(s) /\ Place(i, k) # i /\ rest[k] = s[Place(i, k)]
             /\ Members(s) = {s[i]} \union Members(rest)
<1> DEFINE a == SubSeq(s, 1, i - 1)
           b == SubSeq(s, i + 1, Len(s))
           rest == RemoveAt(s, i)
<1>1. i \in 1 .. Len(s) /\ Len(s) \in Nat
  OBVIOUS
<1>2. rest = a \o b
  BY DEF RemoveAt
<1>3. a \in Seq(J) /\ Len(a) = i - 1 /\ \A k \in 1 .. i - 1 : a[k] = s[k]
  BY <1>1
<1>4. /\ b \in Seq(J) /\ Len(b) = Len(s) - i
      /\ \A k \in 1 .. Len(s) - i : b[k] = s[i + k]
  BY <1>1
<1> HIDE DEF a, b
<1>5. /\ a \o b \in Seq(J) /\ Len(a \o b) = Len(s) - 1
      /\ \A k \in 1 .. i - 1 : (a \o b)[k] = a[k]
      /\ \A k \in i .. Len(s) - 1 : (a \o b)[k] = b[k - i + 1]
  BY <1>1, <1>3, <1>4
<1> HIDE DEF rest
<1>6. rest \in Seq(J) /\ Len(rest) = Len(s) - 1
  BY <1>2, <1>5
<1>7. ASSUME NEW k \in 1 .. Len(rest)
      PROVE  Place(i, k) \in 1 .. Len(s) /\ Place(i, k) # i /\ rest[k] = s[Place(i, k)]
  <2>1. CASE k < i
    <3>1. k \in 1 .. i - 1 /\ k \in 1 .. Len(s) /\ Place(i, k) = k
      BY <1>1, <1>6, <2>1 DEF Place
    <3> QED BY <1>2, <1>3, <1>5, <2>1, <3>1
  <2>2. CASE k >= i
    <3>1. /\ k \in i .. Len(s) - 1 /\ k - i + 1 \in 1 .. Len(s) - i /\ i + (k - i + 1) = k + 1
          /\ Place(i, k) = k + 1 /\ k + 1 \in 1 .. Len(s) /\ k + 1 # i
      BY <1>1, <1>6, <2>2 DEF Place
    <3> QED BY <1>2, <1>4, <1>5, <3>1
  <2> QED BY <1>1, <1>6, <2>1, <2>2
<1>8. ASSUME NEW m \in 1 .. Len(s), m # i PROVE s[m] \in Members(rest)
  <2>1. CASE m < i
    <3>1. m \in 1 .. Len(rest) /\ Place(i, m) = m
      BY <1>1, <1>6, <2>1 DEF Place
    <3> QED BY <1>6, <1>7, <3>1, MembersOf
  <2>2. CASE m > i
    <3>1. m - 1 \in 1 .. Len(rest) /\ Place(i, m - 1) = m
      BY <1>1, <1>6, <2>2 DEF Place
    <3> QED BY <1>6, <1>7, <3>1, MembersOf
  <2> QED BY <1>1, <1>8, <2>1, <2>2
<1>9. Members(rest) \subseteq Members(s)
  BY <1>6, <1>7 DEF Members
<1>10. Members(s) = {s[i]} \union Members(rest)
  <2>1. DOMAIN s = 1 .. Len(s)
    OBVIOUS
  <2> QED BY <1>1, <1>8, <1>9, <2>1 DEF Members
<1> QED BY <1>1, <1>6, <1>7, <1>10 DEF rest

(* What the client does by itself leaves what is on the way.                 *)
LEMMA StillComing ==
  ASSUME IInv, UNCHANGED <<daemon, link, wire, extra>>
  PROVE  /\ DaemonTyped' /\ Order' /\ Coming' = Coming /\ Arriving' = Arriving
         /\ NoAttach' = NoAttach
         /\ UNCHANGED <<seq, parked, lost, outbox, streams>>
<1>1. UNCHANGED <<seq, parked, lost, outbox, streams>>
  BY DEF daemon
<1>2. DaemonTyped /\ Order
  BY DEF IInv, Types
<1>3. Arriving' = Arriving
  BY <1>1 DEF Arriving
<1>4. Coming' = Coming
  BY <1>1 DEF Coming
<1>5. NoAttach' = NoAttach
  BY <1>4 DEF NoAttach
<1>6. DaemonTyped'
  BY <1>1, <1>2, <1>3 DEF DaemonTyped
<1>7. Order'
  BY <1>1, <1>2 DEF Order
<1> QED BY <1>1, <1>3, <1>4, <1>5, <1>6, <1>7

LEMMA RestOf ==
  ASSUME IInv, NEW i \in DOMAIN jobs
  PROVE  LET rest == RemoveAt(jobs, i)
         IN  /\ rest \in Seq(Jobs(seq, streams)) /\ jobs[i] \in Jobs(seq, streams)
             /\ jobs[i] \in Members(jobs) /\ Members(jobs) = {jobs[i]} \union Members(rest)
             /\ jobs[i].do # "readFailed" => link
             /\ jobs[i].do \in {"reattached", "collected"} =>
                  \A job \in Members(rest) : job.do \notin {"reattached", "collected"}
<1> DEFINE rest == RemoveAt(jobs, i)
<1>1. jobs \in Seq(Jobs(seq, streams)) /\ DeadLink /\ Reattaching
  BY DEF IInv, Types, ClientTyped
<1>2. /\ rest \in Seq(Jobs(seq, streams)) /\ jobs[i] \in Jobs(seq, streams)
      /\ \A k \in 1 .. Len(rest) :
           Place(i, k) \in 1 .. Len(jobs) /\ Place(i, k) # i /\ rest[k] = jobs[Place(i, k)]
      /\ Members(jobs) = {jobs[i]} \union Members(rest)
  BY <1>1, JobTaken
<1> HIDE DEF rest
<1>3. i \in 1 .. Len(jobs)
  BY <1>1
<1>4. jobs[i].do # "readFailed" => link
  BY <1>2 DEF IInv, DeadLink
<1>5. ASSUME jobs[i].do \in {"reattached", "collected"}, NEW job \in Members(rest)
      PROVE  job.do \notin {"reattached", "collected"}
  <2>1. PICK k \in 1 .. Len(rest) : job = rest[k]
    BY <1>2 DEF Members
  <2>2. job.do # jobs[i].do
    BY <1>1, <1>2, <1>3, <1>5, <2>1 DEF Reattaching
  <2>3. ASSUME job.do \in {"reattached", "collected"} PROVE FALSE
    <3>1. Place(i, k) \in 1 .. Len(jobs) /\ job = jobs[Place(i, k)]
      BY <1>2, <2>1
    <3> QED BY <1>1, <1>3, <1>5, <2>2, <2>3, <3>1 DEF Reattaching
  <2> QED BY <2>3
<1> QED BY <1>2, <1>4, <1>5 DEF rest

LEMMA ReattachingLeft ==
  ASSUME IInv, NEW i \in DOMAIN jobs, jobs[i].do \notin {"reattached", "collected"},
         UNCHANGED <<daemon, link, wire, extra, phase>>,
         NEW x \in Jobs(seq, streams), x.do \notin {"reattached", "collected"},
         jobs' \in {RemoveAt(jobs, i), Append(RemoveAt(jobs, i), x)}
  PROVE  Reattaching'
<1> DEFINE rest == RemoveAt(jobs, i)
<1>1. jobs \in Seq(Jobs(seq, streams)) /\ Reattaching
  BY DEF IInv, Types, ClientTyped
<1>2. /\ rest \in Seq(Jobs(seq, streams)) /\ Len(rest) = Len(jobs) - 1
      /\ \A k \in 1 .. Len(rest) :
           Place(i, k) \in 1 .. Len(jobs) /\ Place(i, k) # i /\ rest[k] = jobs[Place(i, k)]
      /\ Members(jobs) = {jobs[i]} \union Members(rest)
  BY <1>1, JobTaken
<1>3. jobs' \in {rest, Append(rest, x)}
  OBVIOUS
<1> HIDE DEF rest
<1>4. /\ Members(Append(rest, x)) = Members(rest) \union {x} /\ Len(rest) \in Nat
      /\ Len(Append(rest, x)) = Len(rest) + 1 /\ Append(rest, x)[Len(rest) + 1] = x
      /\ \A k \in 1 .. Len(rest) : Append(rest, x)[k] = rest[k]
  BY <1>2, JobAdded
<1>5. ASSUME NEW k \in 1 .. Len(jobs'), jobs'[k].do \in {"reattached", "collected"}
      PROVE  /\ k \in 1 .. Len(rest) /\ Place(i, k) \in 1 .. Len(jobs)
             /\ jobs'[k] = jobs[Place(i, k)]
  BY <1>2, <1>3, <1>4, <1>5
<1>6. /\ \A job \in Members(jobs') : job \in Members(jobs) \/ job = x
      /\ \A job \in Members(jobs) : job.do = "reattached" => job \in Members(jobs')
  BY <1>2, <1>3, <1>4
<1>7. UNCHANGED <<wire, phase>> /\ NoAttach' = NoAttach
  BY StillComing
<1>8. phase' \in {"none", "reconnecting"} => NoAttach'
  BY <1>1, <1>7 DEF Reattaching
<1>9. phase' = "reattaching" =>
        \/ NoAttach'
        \/ \E g \in Members(wire') : g.type = "reattached"
        \/ \E job \in Members(jobs') : job.do = "reattached"
  BY <1>1, <1>6, <1>7 DEF Reattaching
<1>10. \A g \in Members(wire') : g.type = "reattached" =>
         /\ phase' = "reattaching" /\ (g.id = 0 => NoAttach')
         /\ \A job \in Members(jobs') : job.do # "reattached"
  BY <1>1, <1>6, <1>7 DEF Reattaching
<1>11. \A k \in 1 .. Len(jobs') :
         /\ jobs'[k].do = "reattached" => phase' = "reattaching" /\ (jobs'[k].id = 0 => NoAttach')
         /\ jobs'[k].do = "collected" => phase' = "collecting" /\ NoAttach'
  BY <1>1, <1>5, <1>7 DEF Reattaching
<1>12. ASSUME NEW k \in 1 .. Len(jobs'), jobs'[k].do \in {"reattached", "collected"},
              NEW l \in 1 .. Len(jobs'), jobs'[l].do = jobs'[k].do
       PROVE  k = l
  <2>1. /\ Place(i, k) \in 1 .. Len(jobs) /\ jobs'[k] = jobs[Place(i, k)]
        /\ Place(i, l) \in 1 .. Len(jobs) /\ jobs'[l] = jobs[Place(i, l)]
    BY <1>5, <1>12
  <2>2. Place(i, k) = Place(i, l)
    BY <1>1, <1>12, <2>1 DEF Reattaching
  <2>3. i \in Nat /\ k \in Nat /\ l \in Nat
    BY <1>1
  <2> QED BY <2>2, <2>3 DEF Place
<1> QED BY <1>8, <1>9, <1>10, <1>11, <1>12 DEF Reattaching

(* A step of the bridge's resync.                                            *)
LEMMA ResyncStep ==
  ASSUME IInv, NEW i \in DOMAIN jobs, jobs[i].do \in {"gap", "read", "readFailed", "resync"},
         NEW x \in Jobs(seq, streams), x.do = "resync",
         jobs' \in {RemoveAt(jobs, i), Append(RemoveAt(jobs, i), x)},
         link \/ jobs' = RemoveAt(jobs, i),
         UNCHANGED <<daemon, link, wire, inChunk, faults, extra, closed, recovery, buffer,
                     cursor, position, base, mapped>>,
         BridgeTyped', told' >= told,
         \A n \in lost \ abandoned' :
           Exposed(n) \/ (cursor < n /\ n <= position) => Covered(n)'
  PROVE  IInv'
<1> DEFINE rest == RemoveAt(jobs, i)
<1>1. /\ ClientTyped /\ BridgeTyped /\ DeadLink /\ Cursor /\ Losses /\ Replacements /\ Buffered
      /\ told \in Nat /\ base \in Nat /\ seq \in Nat
  BY DaemonConnectionAssumption DEF IInv, Types, DaemonTyped, BridgeTyped
<1>2. /\ rest \in Seq(Jobs(seq, streams)) /\ Members(jobs) = {jobs[i]} \union Members(rest)
  BY RestOf
<1>3. /\ DaemonTyped' /\ Order' /\ Coming' = Coming /\ Arriving' = Arriving
      /\ UNCHANGED <<seq, parked, lost, outbox, streams>>
  BY StillComing
<1>4. UNCHANGED <<phase, recoveryFrames, held, shared, waitingFor>>
  BY DEF recovery
<1>5. jobs' \in {rest, Append(rest, x)} /\ (link \/ jobs' = rest)
  OBVIOUS
<1> HIDE DEF rest
<1>6. /\ Append(rest, x) \in Seq(Jobs(seq, streams))
      /\ Members(Append(rest, x)) = Members(rest) \union {x}
  BY <1>2, MembersOfAppend
<1>7. /\ jobs' \in Seq(Jobs(seq, streams))
      /\ \A job \in Members(jobs') : job \in Members(jobs) \/ job = x
      /\ \A job \in Members(jobs) : job.do = "replaced" => job \in Members(jobs')
      /\ ~link => Members(jobs') \subseteq Members(jobs)
  BY <1>2, <1>5, <1>6
<1>8. ClientTyped'
  BY <1>1, <1>3, <1>4, <1>7 DEF ClientTyped
<1>9. DeadLink'
  BY <1>1, <1>3, <1>4, <1>7 DEF DeadLink
<1>10. Reattaching'
  BY <1>4, ReattachingLeft
<1>11. Cursor'
  <2>1. base <= told'
    BY <1>1 DEF Cursor, BridgeTyped
  <2> QED BY <1>1, <2>1 DEF Cursor
<1>12. Losses'
  <2>1. \A n : Exposed(n)' <=> Exposed(n)
    BY DEF Exposed
  <2>2. phase' = "none" => \/ \E job \in Members(jobs') : job.do = "replaced"
                           \/ \A f \in Members(mapped') : f.n <= position'
    BY <1>1, <1>4, <1>7 DEF Losses
  <2> QED BY <1>3, <2>1, <2>2 DEF Losses
<1>13. Replacements'
  <2>1. SUFFICES ASSUME NEW e \in Coming, e.type = "end", e.purpose = "replacement"
        PROVE /\ phase' = "none" => e.n <= told'
                   \/ Begin(e.id, "replacement") \in Members(buffer') \union Coming'
              /\ \A f \in Members(mapped') \union Members(recoveryFrames') : f.n <= e.n
              /\ \A job \in Members(jobs') : ~ Doing(job, "replaced", e.id)
    BY <1>3 DEF Replacements
  <2>2. /\ phase = "none" => e.n <= told
             \/ Begin(e.id, "replacement") \in Members(buffer) \union Coming
        /\ \A f \in Members(mapped) \union Members(recoveryFrames) : f.n <= e.n
        /\ \A job \in Members(jobs) : ~ Doing(job, "replaced", e.id)
    BY <1>1, <2>1 DEF Replacements
  <2>3. e.n \in Nat
    <3>1. e \in Frames(Arriving, seq, streams)
      BY ComingTyped
    <3>2. e \in StreamFrames(seq, streams)
      BY <2>1, <3>1, FrameKinds
    <3>3. e.n \in 0 .. seq
      BY <2>1, <3>2, StreamFrame
    <3> QED BY <1>1, <3>3
  <2>4. e.n <= told => e.n <= told'
    <3>1. told' \in Nat
      BY <1>1, <1>3 DEF BridgeTyped
    <3> QED BY <1>1, <2>3, <3>1
  <2> QED BY <1>3, <1>4, <1>7, <2>2, <2>4 DEF Doing
<1>14. Buffered'
  BY <1>1, <1>3, <1>4, <1>7 DEF Buffered, Doing
<1> QED BY <1>3, <1>8, <1>9, <1>10, <1>11, <1>12, <1>13, <1>14 DEF IInv, Types

LEMMA ResyncJob ==
  ASSUME IInv, NEW n \in 0 .. seq
  PROVE  LET x == [do |-> "resync", n |-> n]
         IN  x \in Jobs(seq, streams) /\ x.do = "resync"
BY DEF Jobs

(* A round of the resync starts.                                             *)
LEMMA RoundStarts ==
  ASSUME IInv, NEW i \in DOMAIN jobs, jobs[i].do \in {"gap", "resync"},
         StartRound(RemoveAt(jobs, i)),
         UNCHANGED <<daemon, link, wire, inChunk, faults, extra, closed, recovery, buffer,
                     cursor, position, upto, fresh, read, base, mapped, abandoned>>,
         told' \in told .. seq, stale' \in BOOLEAN
  PROVE  IInv'
<1> DEFINE rest == RemoveAt(jobs, i)
           x == [do |-> "resync", n |-> upto]
<1>1. /\ inFlight' = TRUE /\ pending' = FALSE /\ wanted' = position
      /\ jobs' \in {rest, Append(rest, x)} /\ awaiting' \in {awaiting, {"messages", "rest"}}
  BY DEF StartRound
<1>2. /\ BridgeTyped /\ position \in 0 .. seq /\ upto \in 0 .. seq /\ seq \in Nat /\ told \in 0 .. seq
  BY DaemonConnectionAssumption DEF IInv, Types, DaemonTyped, ClientTyped, BridgeTyped
<1>3. x \in Jobs(seq, streams) /\ x.do = "resync"
  BY <1>2, ResyncJob
<1>4. link
  BY RestOf
<1>5. Arriving' = Arriving /\ UNCHANGED <<seq, lost>>
  BY StillComing
<1>6. BridgeTyped'
  <2>1. awaiting' \subseteq {"messages", "rest"} /\ told' \in 0 .. seq /\ told' >= told
    BY <1>1, <1>2 DEF BridgeTyped
  <2> QED BY <1>1, <1>2, <1>5, <2>1 DEF BridgeTyped
<1>7. \A n : Covered(n)'
  BY <1>1 DEF Covered
<1>8. told' >= told
  BY <1>2
<1> HIDE DEF x
<1> QED BY <1>1, <1>3, <1>4, <1>6, <1>7, <1>8, ResyncStep

LEMMA Noticing ==
  ASSUME IInv, NEW i \in DOMAIN jobs, jobs[i].do = "gap", GapNoticed(RemoveAt(jobs, i)),
         UNCHANGED <<daemon, link, wire, inChunk, faults, extra>>
  PROVE  IInv'
<1> DEFINE rest == RemoveAt(jobs, i)
<1>1. /\ UNCHANGED <<closed, recovery, buffer, cursor, position, upto, fresh, read, stale, base,
                     mapped, told, abandoned>>
      /\ \/ /\ inFlight /\ pending' = TRUE /\ jobs' = rest
            /\ UNCHANGED <<inFlight, wanted, awaiting>>
         \/ StartRound(rest)
  BY DEF GapNoticed, history
<1>2. told \in told .. seq /\ stale \in BOOLEAN /\ told \in Nat /\ BridgeTyped
  BY DaemonConnectionAssumption DEF IInv, Types, DaemonTyped, BridgeTyped
<1>3. CASE StartRound(rest)
  BY <1>1, <1>2, <1>3, RoundStarts
<1>4. CASE /\ inFlight /\ pending' = TRUE /\ jobs' = rest
           /\ UNCHANGED <<inFlight, wanted, awaiting>>
  <2>1. Arriving' = Arriving /\ UNCHANGED <<seq, lost>>
    BY StillComing
  <2>2. BridgeTyped'
    BY <1>1, <1>2, <1>4, <2>1 DEF BridgeTyped
  <2>3. \A n : Covered(n)'
    BY <1>4 DEF Covered
  <2>4. [do |-> "resync", n |-> 0] \in Jobs(seq, streams) /\ [do |-> "resync", n |-> 0].do = "resync"
    <3>1. 0 \in 0 .. seq
      BY DaemonConnectionAssumption DEF IInv, Types, DaemonTyped
    <3> QED BY <3>1, ResyncJob
  <2>5. told' >= told
    BY <1>1, <1>2
  <2> QED BY <1>1, <1>4, <2>2, <2>3, <2>4, <2>5, ResyncStep
<1> QED BY <1>1, <1>3, <1>4

LEMMA MessagesRead ==
  ASSUME IInv, NEW i \in DOMAIN jobs, jobs[i].do = "read", SnapshotRead(RemoveAt(jobs, i)),
         UNCHANGED <<daemon, link, wire, inChunk, faults, extra>>
  PROVE  IInv'
<1> DEFINE rest == RemoveAt(jobs, i)
           x == [do |-> "resync", n |-> read]
<1>1. /\ upto' = read /\ read' = 0 /\ fresh' = TRUE /\ jobs' = Append(rest, x)
      /\ UNCHANGED <<closed, recovery, buffer, cursor, position, awaiting, inFlight, pending,
                     wanted, stale, base, mapped, told, abandoned>>
  BY DEF SnapshotRead, bridge, history
<1>2. BridgeTyped /\ read \in 0 .. seq /\ seq \in Nat /\ told \in Nat /\ Losses
  BY DaemonConnectionAssumption DEF IInv, Types, DaemonTyped, BridgeTyped
<1>3. x \in Jobs(seq, streams) /\ x.do = "resync"
  BY <1>2, ResyncJob
<1>4. /\ link /\ rest \in Seq(Jobs(seq, streams))
      /\ Members(jobs) = {jobs[i]} \union Members(rest)
  BY RestOf
<1>5. Arriving' = Arriving /\ UNCHANGED <<seq, lost>> /\ phase' = phase
  BY <1>1, StillComing DEF recovery
<1>6. BridgeTyped'
  BY <1>1, <1>2, <1>5 DEF BridgeTyped
<1> HIDE DEF rest, x
<1>7. \A n : Covered(n) => Covered(n)'
  <2>1. Members(Append(rest, x)) = Members(rest) \union {x}
    BY <1>3, <1>4, MembersOfAppend
  <2> QED BY <1>1, <1>4, <1>5, <2>1 DEF Covered
<1>8. \A n \in lost \ abandoned' : Exposed(n) \/ (cursor < n /\ n <= position) => Covered(n)'
  BY <1>1, <1>2, <1>7 DEF Losses
<1>9. told' >= told
  BY <1>1, <1>2
<1> QED BY <1>1, <1>3, <1>4, <1>6, <1>8, <1>9, ResyncStep DEF rest

LEMMA Resetting ==
  ASSUME IInv, NEW i \in DOMAIN jobs, jobs[i].do = "resync",
         Resync(jobs[i].n, RemoveAt(jobs, i)),
         UNCHANGED <<daemon, link, wire, inChunk, faults, extra>>
  PROVE  IInv'
<1> DEFINE rest == RemoveAt(jobs, i)
<1>1. /\ told' = seq
      /\ UNCHANGED <<closed, recovery, buffer, cursor, position, upto, fresh, read, base,
                     mapped, abandoned>>
      /\ \/ StartRound(rest)
         \/ /\ inFlight' = FALSE /\ wanted' = 0 /\ jobs' = rest /\ UNCHANGED <<pending, awaiting>>
  BY DEF Resync
<1>2. stale' \in BOOLEAN
  BY DEF Resync
<1>3. BridgeTyped /\ seq \in Nat /\ told \in 0 .. seq /\ lost \subseteq 1 .. seq
  BY DaemonConnectionAssumption DEF IInv, Types, DaemonTyped, BridgeTyped
<1>4. told' \in told .. seq /\ told' >= told
  BY <1>1, <1>3
<1>5. CASE StartRound(rest)
  BY <1>1, <1>2, <1>4, <1>5, RoundStarts
<1>6. CASE /\ inFlight' = FALSE /\ wanted' = 0 /\ jobs' = rest /\ UNCHANGED <<pending, awaiting>>
  <2>1. Arriving' = Arriving /\ UNCHANGED <<seq, lost>>
    BY StillComing
  <2>2. BridgeTyped'
    <3>1. 0 \in 0 .. seq /\ seq \in 0 .. seq
      BY <1>3
    <3> QED BY <1>1, <1>2, <1>3, <1>6, <2>1, <3>1 DEF BridgeTyped
  <2>3. \A n \in lost : Covered(n)'
    <3>1. \A n \in lost : told' >= n
      BY <1>1, <1>3
    <3> QED BY <3>1 DEF Covered
  <2>4. [do |-> "resync", n |-> 0] \in Jobs(seq, streams) /\ [do |-> "resync", n |-> 0].do = "resync"
    <3>1. 0 \in 0 .. seq
      BY <1>3
    <3> QED BY <3>1, ResyncJob
  <2> QED BY <1>1, <1>4, <1>6, <2>2, <2>3, <2>4, ResyncStep
<1> QED BY <1>1, <1>5, <1>6

(* A resync that fails on a live socket gives the noticed losses up; on a    *)
(* dead one a recovery is under way.                                         *)
LEMMA GivingUp ==
  ASSUME IInv, NEW i \in DOMAIN jobs, jobs[i].do = "readFailed", ReadFailed(RemoveAt(jobs, i)),
         UNCHANGED <<daemon, link, wire, inChunk, faults, extra>>
  PROVE  IInv'
<1> DEFINE rest == RemoveAt(jobs, i)
<1>1. /\ inFlight' = FALSE /\ wanted' = 0 /\ read' = 0 /\ jobs' = rest
      /\ abandoned' = IF link THEN abandoned \union {n \in lost : n <= position} ELSE abandoned
      /\ UNCHANGED <<closed, recovery, buffer, cursor, position, upto, fresh, awaiting, pending,
                     stale, base, mapped, told>>
  BY DEF ReadFailed
<1>2. /\ BridgeTyped /\ seq \in Nat /\ told \in Nat /\ lost \subseteq Nat /\ position \in Nat
      /\ Losses /\ DeadLink /\ mapped \in Seq(EventFrames(Arriving))
  <2>1. /\ BridgeTyped /\ seq \in Nat /\ told \in 0 .. seq /\ lost \subseteq 1 .. seq
        /\ position \in 0 .. seq /\ Losses /\ DeadLink /\ mapped \in Seq(EventFrames(Arriving))
    BY DaemonConnectionAssumption DEF IInv, Types, DaemonTyped, ClientTyped, BridgeTyped
  <2> QED BY <2>1
<1>3. Members(jobs) = {jobs[i]} \union Members(rest)
  BY RestOf
<1>4. Arriving' = Arriving /\ UNCHANGED <<seq, lost>> /\ phase' = phase
  BY <1>1, StillComing DEF recovery
<1>5. BridgeTyped'
  <2>1. abandoned \subseteq lost
    BY <1>2 DEF BridgeTyped
  <2>2. {n \in lost : n <= position} \subseteq lost
    OBVIOUS
  <2>3. abandoned' \subseteq lost
    BY <1>1, <2>1, <2>2
  <2>4. 0 \in 0 .. seq
    BY <1>2
  <2> QED BY <1>1, <1>2, <1>4, <2>3, <2>4 DEF BridgeTyped
<1>6. ASSUME NEW n \in lost \ abandoned', Exposed(n) \/ (cursor < n /\ n <= position)
      PROVE  Covered(n)'
  <2>1. CASE ~link
    BY <1>2, <1>4, <2>1 DEF DeadLink, Covered
  <2>2. CASE link
    <3>1. n > position
      BY <1>1, <1>2, <1>6, <2>2
    <3>2. Exposed(n)
      BY <1>2, <1>6, <3>1
    <3>3. PICK k \in DOMAIN mapped : mapped[k].n > n
      BY <3>2 DEF Exposed
    <3>4. mapped[k] \in Members(mapped) /\ mapped[k] \in EventFrames(Arriving)
      BY <1>2, MembersOf
    <3>5. mapped[k].n \in Nat
      BY <1>2, <3>4 DEF EventFrames, Arriving
    <3>6. ~ (mapped[k].n <= position)
      <4>1. \A u \in Nat : u > n => ~ (u <= position)
        BY <1>2, <3>1
      <4> QED BY <3>3, <3>5, <4>1
    <3>7. CASE phase # "none"
      BY <1>4, <3>7 DEF Covered
    <3>8. CASE phase = "none"
      <4>1. \E job \in Members(jobs) : job.do = "replaced"
        BY <1>2, <3>4, <3>6, <3>8 DEF Losses
      <4>2. \E job \in Members(jobs') : job.do = "replaced"
        BY <1>1, <1>3, <4>1
      <4> QED BY <4>2 DEF Covered
    <3> QED BY <3>7, <3>8
  <2> QED BY <2>1, <2>2
<1>7. [do |-> "resync", n |-> 0] \in Jobs(seq, streams) /\ [do |-> "resync", n |-> 0].do = "resync"
  <2>1. 0 \in 0 .. seq
    BY <1>2
  <2> QED BY <2>1, ResyncJob
<1>8. told' >= told
  BY <1>1, <1>2
<1> QED BY <1>1, <1>5, <1>6, <1>7, <1>8, ResyncStep

(* The end of a recovery.                                                    *)
LEMMA Recovering ==
  ASSUME IInv, NEW i \in DOMAIN jobs, jobs[i].do \in {"reattached", "collected"},
         NoAttach, jobs[i].n \in 0 .. seq, Recovered(jobs[i].n, RemoveAt(jobs, i)),
         UNCHANGED <<daemon, link, wire, inChunk, faults, extra>>
  PROVE  IInv'
<1> DEFINE rest == RemoveAt(jobs, i)
           n == jobs[i].n
           d == Delivered(Baseline(n, rest), recoveryFrames)
<1>1. /\ upto' = n /\ told' = seq /\ phase' = "none" /\ base' = n /\ recoveryFrames' = <<>>
      /\ buffer' = <<>> /\ shared' = FALSE /\ waitingFor' = 0
      /\ Becomes(d)
      /\ UNCHANGED <<closed, awaiting, read, inFlight, pending, wanted, stale, abandoned>>
  BY DEF Recovered, bridge
<1>2. /\ ClientTyped /\ BridgeTyped /\ Reattaching /\ Replacements /\ Buffered
      /\ seq \in Nat /\ streams \in Nat /\ recoveryFrames \in Seq(EventFrames(Arriving))
      /\ lost \subseteq 1 .. seq /\ \A x \in Arriving : x \in 1 .. seq
  <2>1. \A x \in Arriving : x \in 1 .. seq
    BY DEF Arriving
  <2>2. DaemonTyped /\ ClientTyped /\ BridgeTyped /\ Reattaching /\ Replacements /\ Buffered
    BY DEF IInv, Types
  <2>3. recoveryFrames \in Seq(EventFrames(Arriving))
    BY <2>2 DEF ClientTyped
  <2>4. /\ seq \in 0 .. MaxSequence /\ MaxSequence \in Nat /\ streams \in Nat
        /\ lost \subseteq 1 .. seq
    BY <2>2, DaemonConnectionAssumption DEF DaemonTyped
  <2> QED BY <2>1, <2>2, <2>3, <2>4
<1>3. /\ rest \in Seq(Jobs(seq, streams)) /\ link
      /\ jobs[i] \in Members(jobs) /\ Members(jobs) = {jobs[i]} \union Members(rest)
      /\ \A job \in Members(rest) : job.do \notin {"reattached", "collected"}
  BY RestOf
<1>4. /\ DaemonTyped' /\ Order' /\ Coming' = Coming /\ Arriving' = Arriving /\ NoAttach'
      /\ UNCHANGED <<seq, parked, lost, outbox, streams, wire, link>>
  BY StillComing
<1>5. n \in 0 .. seq
  OBVIOUS
<1> HIDE DEF n, rest
<1>6. /\ d \in Channels(Arriving, seq, streams) /\ Rising(d.mapped, n, d.cursor)
      /\ d.cursor <= d.position /\ Members(d.mapped) \subseteq Members(recoveryFrames)
      /\ Members(d.jobs) \subseteq Members(rest) \union {Job("gap")}
  BY <1>2, <1>3, <1>5, RecoveredChannel
<1>7. /\ position' = d.position /\ cursor' = d.cursor /\ fresh' = d.fresh
      /\ mapped' = d.mapped /\ jobs' = d.jobs
  BY <1>1 DEF Becomes
<1> HIDE DEF d
<1>8. /\ d.position \in 0 .. seq /\ d.cursor \in 0 .. seq /\ d.fresh \in BOOLEAN
      /\ d.mapped \in Seq(EventFrames(Arriving)) /\ d.jobs \in Seq(Jobs(seq, streams))
  BY <1>6 DEF Channels
<1>9. /\ position' \in 0 .. seq /\ cursor' \in 0 .. seq /\ fresh' \in BOOLEAN
      /\ mapped' \in Seq(EventFrames(Arriving)) /\ jobs' \in Seq(Jobs(seq, streams))
      /\ Rising(mapped', n, cursor') /\ cursor' <= position'
      /\ Members(mapped') \subseteq Members(recoveryFrames)
      /\ Members(jobs') \subseteq Members(rest) \union {Job("gap")}
  BY <1>6, <1>7, <1>8
<1>10. ClientTyped'
  <2>1. <<>> \in Seq(EventFrames(Arriving)) /\ <<>> \in Seq(StreamFrames(seq, streams)) /\ 0 \in 0 .. streams
    BY <1>2
  <2> QED BY <1>1, <1>2, <1>4, <1>9, <2>1 DEF ClientTyped
<1>11. BridgeTyped'
  <2>1. seq \in 0 .. seq
    BY <1>2
  <2> QED BY <1>1, <1>2, <1>4, <1>5, <1>9, <2>1 DEF BridgeTyped
<1>12. DeadLink'
  BY <1>3, <1>4 DEF DeadLink
<1>13. \A job \in Members(jobs') : job.do \notin {"reattached", "collected"}
  BY <1>3, <1>9 DEF Job
<1>14. Reattaching'
  <2>1. \A g \in Members(wire) : g.type # "reattached"
    <3>1. i \in 1 .. Len(jobs)
      BY <1>2 DEF ClientTyped
    <3>2. SUFFICES ASSUME NEW g \in Members(wire), g.type = "reattached" PROVE FALSE
      OBVIOUS
    <3>3. phase = "reattaching" /\ \A job \in Members(jobs) : job.do # "reattached"
      BY <1>2, <3>2 DEF Reattaching
    <3> QED BY <1>2, <1>3, <3>1, <3>3 DEF Reattaching
  <2>2. \A k \in 1 .. Len(jobs') : jobs'[k].do \notin {"reattached", "collected"}
    BY <1>9, <1>13, MembersOf
  <2> QED BY <1>1, <1>4, <2>1, <2>2 DEF Reattaching
<1>15. Cursor'
  BY <1>1, <1>5, <1>9, <1>2 DEF Cursor
<1>16. Losses'
  <2>1. \A m \in lost : Covered(m)'
    <3>1. \A m \in lost : told' >= m
      BY <1>1, <1>2
    <3> QED BY <3>1 DEF Covered
  <2>2. \A f \in Members(mapped') : f.n <= position'
    <3>1. Members(mapped') \subseteq EventFrames(Arriving)
      BY <1>9, MembersOf
    <3>2. \A f \in Members(mapped') : f.n \in Nat /\ f.n <= cursor'
      BY <1>2, <1>9, <3>1 DEF Rising, EventFrames
    <3> QED BY <1>2, <1>9, <3>2
  <2> QED BY <1>4, <2>1, <2>2 DEF Losses
<1>17. Replacements'
  <2>1. SUFFICES ASSUME NEW e \in Coming, e.type = "end", e.purpose = "replacement"
        PROVE /\ e.n <= told'
              /\ \A f \in Members(mapped') \union Members(recoveryFrames') : f.n <= e.n
              /\ \A job \in Members(jobs') : ~ Doing(job, "replaced", e.id)
    BY <1>4 DEF Replacements
  <2>2. /\ \A f \in Members(mapped) \union Members(recoveryFrames) : f.n <= e.n
        /\ \A job \in Members(jobs) : ~ Doing(job, "replaced", e.id)
    BY <1>2, <2>1 DEF Replacements
  <2>3. e.n <= told'
    <3>1. e \in StreamFrames(seq, streams)
      BY <2>1, ComingTyped, FrameKinds
    <3>2. e.n \in 0 .. seq
      BY <2>1, <3>1, StreamFrame
    <3> QED BY <1>1, <1>2, <3>2
  <2>4. Members(<<>>) = {}
    BY DEF Members
  <2>5. \A job \in Members(jobs') : ~ Doing(job, "replaced", e.id)
    BY <1>3, <1>9, <2>2 DEF Doing, Job
  <2> QED BY <1>1, <1>9, <2>2, <2>3, <2>4, <2>5
<1>18. Buffered'
  <2>1. Members(<<>>) = {}
    BY DEF Members
  <2> QED BY <1>1, <1>2, <1>4, <2>1 DEF Buffered
<1> QED BY <1>4, <1>10, <1>11, <1>12, <1>14, <1>15, <1>16, <1>17, <1>18 DEF IInv, Types

LEMMA SnapshotJobTyped ==
  ASSUME NEW s, NEW k, NEW job \in Jobs(s, k),
         job.do \in {"reattached", "collected", "replaced"}
  PROVE  job.n \in 0 .. s /\ job.id \in 0 .. k
BY DEF Jobs

(* The answer to reattach names a stream, or the stream is incomplete.       *)
LEMMA RecoveryGoesOn ==
  ASSUME IInv, NEW i \in DOMAIN jobs, jobs[i].do \in {"reattached", "collected"},
         jobs' = RemoveAt(jobs, i), phase' = "collecting", waitingFor' \in 0 .. streams,
         shared' \in BOOLEAN, closed' \in {"no", "snapshot"}, closed = "no",
         UNCHANGED <<daemon, link, wire, inChunk, faults, extra, recoveryFrames, buffer, cursor,
                     position, snapshot, bridge, history>>
  PROVE  IInv'
<1> DEFINE rest == RemoveAt(jobs, i)
<1>1. /\ ClientTyped /\ BridgeTyped /\ Reattaching /\ Cursor /\ Replacements /\ Buffered
  BY DEF IInv, Types
<1>2. /\ rest \in Seq(Jobs(seq, streams)) /\ link
      /\ jobs[i] \in Members(jobs) /\ Members(jobs) = {jobs[i]} \union Members(rest)
      /\ \A job \in Members(rest) : job.do \notin {"reattached", "collected"}
  BY RestOf
<1>3. /\ DaemonTyped' /\ Order' /\ Coming' = Coming /\ Arriving' = Arriving /\ NoAttach' = NoAttach
      /\ UNCHANGED <<seq, parked, lost, outbox, streams>>
  BY StillComing
<1>4. UNCHANGED <<upto, fresh, awaiting, read, inFlight, pending, wanted, stale, base, mapped,
                  told, abandoned>>
  BY DEF snapshot, bridge, history
<1>5. jobs' = rest
  OBVIOUS
<1> HIDE DEF rest
<1>6. ClientTyped'
  <2>1. UNCHANGED <<recoveryFrames, buffer, cursor, position, faults, inChunk>>
    OBVIOUS
  <2>2. jobs' \in Seq(Jobs(seq, streams))
    BY <1>2, <1>5
  <2> QED BY <1>1, <1>3, <2>1, <2>2 DEF ClientTyped
<1>7. BridgeTyped'
  BY <1>1, <1>3, <1>4 DEF BridgeTyped
<1>8. DeadLink'
  BY <1>2 DEF DeadLink
<1>9. \A g \in Members(wire) : g.type # "reattached"
  <2>1. SUFFICES ASSUME NEW g \in Members(wire), g.type = "reattached" PROVE FALSE
    OBVIOUS
  <2>2. phase = "reattaching" /\ \A job \in Members(jobs) : job.do # "reattached"
    BY <1>1, <2>1 DEF Reattaching
  <2>3. i \in 1 .. Len(jobs)
    BY <1>1 DEF ClientTyped
  <2> QED BY <1>1, <1>2, <2>2, <2>3 DEF Reattaching
<1>10. Reattaching'
  <2>1. \A k \in 1 .. Len(jobs') : jobs'[k].do \notin {"reattached", "collected"}
    BY <1>2, <1>5, MembersOf
  <2> QED BY <1>9, <2>1 DEF Reattaching
<1>11. Cursor'
  BY <1>1, <1>4 DEF Cursor
<1>12. Losses'
  <2>1. \A n : Covered(n)'
    BY DEF Covered
  <2> QED BY <2>1 DEF Losses
<1>13. Replacements'
  BY <1>1, <1>2, <1>3, <1>4, <1>5 DEF Replacements
<1>14. Buffered'
  BY <1>1, <1>3 DEF Buffered
<1> QED BY <1>3, <1>6, <1>7, <1>8, <1>10, <1>11, <1>12, <1>13, <1>14 DEF IInv, Types

LEMMA AnswerDealtWith ==
  ASSUME IInv, NEW i \in DOMAIN jobs, jobs[i].do = "reattached",
         ReattachAnswered(jobs[i], RemoveAt(jobs, i)), closed = "no",
         UNCHANGED <<daemon, link, wire, inChunk, faults, extra>>
  PROVE  IInv'
<1>1. jobs[i] \in Jobs(seq, streams)
  BY RestOf
<1>2. jobs[i].n \in 0 .. seq /\ jobs[i].id \in 0 .. streams
  BY <1>1, SnapshotJobTyped
<1>3. i \in 1 .. Len(jobs) /\ Reattaching
  BY DEF IInv, Types, ClientTyped
<1>4. CASE jobs[i].id = 0
  <2>1. NoAttach
    BY <1>3, <1>4 DEF Reattaching
  <2>2. Recovered(jobs[i].n, RemoveAt(jobs, i))
    BY <1>4 DEF ReattachAnswered
  <2> QED BY <1>2, <2>1, <2>2, Recovering
<1>5. CASE jobs[i].id # 0
  <2>1. /\ phase' = "collecting" /\ waitingFor' = jobs[i].id /\ shared' = TRUE
        /\ jobs' = RemoveAt(jobs, i)
        /\ UNCHANGED <<closed, recoveryFrames, buffer, cursor, position, snapshot, bridge, history>>
    BY <1>5 DEF ReattachAnswered
  <2> QED BY <1>2, <2>1, RecoveryGoesOn
<1> QED BY <1>4, <1>5

LEMMA StreamCollected ==
  ASSUME IInv, NEW i \in DOMAIN jobs, jobs[i].do = "collected",
         Collected(jobs[i], RemoveAt(jobs, i)), closed = "no",
         UNCHANGED <<daemon, link, wire, inChunk, faults, extra>>
  PROVE  IInv'
<1>1. jobs[i] \in Jobs(seq, streams)
  BY RestOf
<1>2. jobs[i].n \in 0 .. seq
  BY <1>1, SnapshotJobTyped
<1>3. i \in 1 .. Len(jobs) /\ Reattaching /\ ClientTyped
  BY DEF IInv, Types, ClientTyped
<1>4. phase = "collecting" /\ NoAttach
  BY <1>3 DEF Reattaching
<1>5. CASE Recovered(jobs[i].n, RemoveAt(jobs, i))
  BY <1>2, <1>4, <1>5, Recovering
<1>6. CASE /\ closed' = "snapshot" /\ jobs' = RemoveAt(jobs, i)
           /\ UNCHANGED <<recovery, buffer, cursor, position, snapshot, bridge, history>>
  <2>1. UNCHANGED <<phase, recoveryFrames, shared, waitingFor>>
    BY <1>6 DEF recovery
  <2>2. waitingFor' \in 0 .. streams /\ shared' \in BOOLEAN /\ phase' = "collecting"
    BY <1>3, <1>4, <2>1 DEF ClientTyped
  <2> QED BY <1>6, <2>1, <2>2, RecoveryGoesOn
<1> QED BY <1>5, <1>6 DEF Collected

(* A replacement is applied, and its frames are released.                    *)
LEMMA ReplacementApplied ==
  ASSUME IInv, NEW i \in DOMAIN jobs, jobs[i].do = "replaced",
         Replaced(jobs[i], RemoveAt(jobs, i)),
         UNCHANGED <<daemon, link, wire, inChunk, faults, extra>>
  PROVE  IInv'
<1> DEFINE rest == RemoveAt(jobs, i)
           n == jobs[i].n
           id == jobs[i].id
<1>1. /\ upto' = n /\ cursor' = n /\ fresh' = TRUE /\ told' = seq /\ base' = n /\ mapped' = <<>>
      /\ buffer' = Evicted(id) /\ shared' = FALSE /\ jobs' = rest
      /\ UNCHANGED <<closed, phase, recoveryFrames, held, waitingFor, position, awaiting,
                     read, inFlight, pending, wanted, stale, abandoned>>
  BY DEF Replaced, bridge
<1>2. /\ ClientTyped /\ BridgeTyped /\ Replacements /\ Buffered
      /\ seq \in Nat /\ streams \in Nat /\ buffer \in Seq(StreamFrames(seq, streams))
      /\ lost \subseteq 1 .. seq
  BY DaemonConnectionAssumption DEF IInv, Types, DaemonTyped, ClientTyped
<1>3. /\ rest \in Seq(Jobs(seq, streams)) /\ jobs[i] \in Jobs(seq, streams) /\ link
      /\ Members(jobs) = {jobs[i]} \union Members(rest)
  BY RestOf
<1>4. /\ DaemonTyped' /\ Order' /\ Coming' = Coming /\ Arriving' = Arriving
      /\ UNCHANGED <<seq, parked, lost, outbox, streams>>
  BY StillComing
<1>5. n \in 0 .. seq
  BY <1>3, SnapshotJobTyped
<1>6. Reattaching'
  <2>1. Job("gap") \in Jobs(seq, streams) /\ Job("gap").do \notin {"reattached", "collected"}
    BY DEF Job, Jobs
  <2>2. jobs[i].do \notin {"reattached", "collected"} /\ UNCHANGED phase
    BY <1>1
  <2> QED BY <1>1, <2>1, <2>2, ReattachingLeft
<1>7. /\ buffer' \in Seq(StreamFrames(seq, streams))
      /\ Members(buffer') = {g \in Members(buffer) : g.id # id}
  BY <1>1, <1>2, EvictedMembers
<1>8. \A job \in Members(jobs) : job \in Members(rest) \/ job.id = id
  BY <1>3
<1> HIDE DEF n, rest, id
<1>9. ClientTyped'
  BY <1>1, <1>2, <1>3, <1>4, <1>5, <1>7 DEF ClientTyped
<1>10. BridgeTyped'
  <2>1. <<>> \in Seq(EventFrames(Arriving)) /\ seq \in 0 .. seq
    BY <1>2
  <2> QED BY <1>1, <1>2, <1>4, <1>5, <2>1 DEF BridgeTyped
<1>11. DeadLink'
  BY <1>3 DEF DeadLink
<1>12. Members(mapped') = {} /\ Len(mapped') = 0
  BY <1>1 DEF Members
<1>13. Cursor'
  <2>1. n <= seq
    BY <1>2, <1>5
  <2> QED BY <1>1, <1>12, <2>1 DEF Cursor, Rising
<1>14. Losses'
  <2>1. \A m \in lost : Covered(m)'
    <3>1. \A m \in 1 .. seq : m \in Nat /\ seq >= m
      BY <1>2
    <3>2. told' = seq /\ \A m \in lost : m \in 1 .. seq
      BY <1>1, <1>2
    <3>3. \A m \in lost : told' >= m
      BY <3>1, <3>2
    <3> QED BY <3>3 DEF Covered
  <2> QED BY <1>4, <1>12, <2>1 DEF Losses
<1>15. Replacements'
  <2>1. SUFFICES ASSUME NEW e \in Coming, e.type = "end", e.purpose = "replacement"
        PROVE /\ e.n <= told'
              /\ \A f \in Members(mapped') \union Members(recoveryFrames') : f.n <= e.n
              /\ \A job \in Members(jobs') : ~ Doing(job, "replaced", e.id)
    BY <1>4 DEF Replacements
  <2>2. /\ \A f \in Members(mapped) \union Members(recoveryFrames) : f.n <= e.n
        /\ \A job \in Members(jobs) : ~ Doing(job, "replaced", e.id)
    BY <1>2, <2>1 DEF Replacements
  <2>3. e.n <= told'
    <3>1. e \in StreamFrames(seq, streams)
      BY <2>1, ComingTyped, FrameKinds
    <3>2. e.n \in 0 .. seq
      BY <2>1, <3>1, StreamFrame
    <3> QED BY <1>1, <1>2, <3>2
  <2> QED BY <1>1, <1>3, <1>12, <2>2, <2>3
<1>16. Buffered'
  <2>1. \A f \in Coming' : f.type = "begin" => \E e \in Coming' : Ending(e, f.id)
    BY <1>2, <1>4 DEF Buffered
  <2>2. ASSUME phase = "none", NEW g \in Members(buffer')
        PROVE  \/ \E e \in Coming' : Ending(e, g.id)
               \/ \E job \in Members(jobs') : Doing(job, "replaced", g.id)
    BY <1>1, <1>2, <1>4, <1>7, <1>8, <2>2 DEF Buffered, Doing
  <2> QED BY <1>1, <2>1, <2>2 DEF Buffered
<1> QED BY <1>4, <1>6, <1>9, <1>10, <1>11, <1>13, <1>14, <1>15, <1>16 DEF IInv, Types

LEMMA JobDone ==
  ASSUME IInv, RunJob
  PROVE  IInv'
<1>1. closed = "no" /\ UNCHANGED <<daemon, link, wire, inChunk, faults, extra>>
  BY DEF RunJob
<1>2. PICK i \in DOMAIN jobs :
        LET job == jobs[i]
            rest == RemoveAt(jobs, i)
        IN  \/ job.do = "gap" /\ GapNoticed(rest)
            \/ job.do = "read" /\ SnapshotRead(rest)
            \/ job.do = "readFailed" /\ ReadFailed(rest)
            \/ job.do = "resync" /\ Resync(job.n, rest)
            \/ job.do = "reattached" /\ ReattachAnswered(job, rest)
            \/ job.do = "collected" /\ Collected(job, rest)
            \/ job.do = "replaced" /\ Replaced(job, rest)
  BY DEF RunJob
<1>3. CASE jobs[i].do = "gap" /\ GapNoticed(RemoveAt(jobs, i))
  BY <1>1, <1>3, Noticing
<1>4. CASE jobs[i].do = "read" /\ SnapshotRead(RemoveAt(jobs, i))
  BY <1>1, <1>4, MessagesRead
<1>5. CASE jobs[i].do = "readFailed" /\ ReadFailed(RemoveAt(jobs, i))
  BY <1>1, <1>5, GivingUp
<1>6. CASE jobs[i].do = "resync" /\ Resync(jobs[i].n, RemoveAt(jobs, i))
  BY <1>1, <1>6, Resetting
<1>7. CASE jobs[i].do = "reattached" /\ ReattachAnswered(jobs[i], RemoveAt(jobs, i))
  BY <1>1, <1>7, AnswerDealtWith
<1>8. CASE jobs[i].do = "collected" /\ Collected(jobs[i], RemoveAt(jobs, i))
  BY <1>1, <1>8, StreamCollected
<1>9. CASE jobs[i].do = "replaced" /\ Replaced(jobs[i], RemoveAt(jobs, i))
  BY <1>1, <1>9, ReplacementApplied
<1> QED BY <1>2, <1>3, <1>4, <1>5, <1>6, <1>7, <1>8, <1>9

------------------------------------------------------------------------------
(* The socket and the timers                                                 *)

(* Nothing happens but that the session may be closed.                       *)
LEMMA Closing ==
  ASSUME IInv, closed' \in {"no", "socket", "deadline", "refused", "timeout", "snapshot"},
         UNCHANGED <<daemon, link, wire, inChunk, jobs, recovery, buffer, cursor, position,
                     snapshot, bridge, history, faults, extra>>
  PROVE  IInv'
<1>1. /\ ClientTyped /\ BridgeTyped /\ DeadLink /\ Reattaching /\ Cursor /\ Losses
      /\ Replacements /\ Buffered
  BY DEF IInv, Types
<1>2. /\ DaemonTyped' /\ Order' /\ Coming' = Coming /\ Arriving' = Arriving /\ NoAttach' = NoAttach
      /\ UNCHANGED <<seq, parked, lost, outbox, streams>>
  BY StillComing
<1>3. UNCHANGED <<phase, recoveryFrames, held, shared, waitingFor, upto, fresh, awaiting, read,
                  inFlight, pending, wanted, stale, base, mapped, told, abandoned>>
  BY DEF recovery, snapshot, bridge, history
<1>4. ClientTyped'
  BY <1>1, <1>2, <1>3 DEF ClientTyped
<1>5. BridgeTyped'
  BY <1>1, <1>2, <1>3 DEF BridgeTyped
<1>6. DeadLink'
  BY <1>1, <1>2, <1>3 DEF DeadLink
<1>7. Reattaching'
  BY <1>1, <1>2, <1>3 DEF Reattaching
<1>8. Cursor'
  BY <1>1, <1>3 DEF Cursor
<1>9. Losses'
  BY <1>1, <1>2, <1>3 DEF Losses, Covered, Exposed
<1>10. Replacements'
  BY <1>1, <1>2, <1>3 DEF Replacements
<1>11. Buffered'
  BY <1>1, <1>2, <1>3 DEF Buffered
<1> QED BY <1>2, <1>4, <1>5, <1>6, <1>7, <1>8, <1>9, <1>10, <1>11 DEF IInv, Types

LEMMA ReadFailedJob ==
  LET j == Job("readFailed")
  IN  /\ j.do = "readFailed" /\ \A s, k : j \in Jobs(s, k)
      /\ <<j>> = Append(<<>>, j) /\ Members(<<j>>) = {j}
      /\ \A s, k : <<j>> \in Seq(Jobs(s, k))
<1> DEFINE j == Job("readFailed")
<1>1. j.do = "readFailed" /\ \A s, k : j \in Jobs(s, k)
  BY DEF Job, Jobs
<1> HIDE DEF j
<1>2. <<j>> = Append(<<>>, j) /\ Members(<<j>>) = {j} /\ \A S : j \in S => <<j>> \in Seq(S)
  BY DEF Members
<1> QED BY <1>1, <1>2 DEF j

LEMMA Failing ==
  ASSUME IInv, SocketFails
  PROVE  IInv'
<1>1. /\ link' = FALSE /\ wire' = <<>> /\ outbox' = <<>> /\ awaiting' = {}
      /\ faults' = faults + 1 /\ faults < MaxFaults
      /\ closed' \in {"socket", "no"}
      /\ jobs' \in {<<>>, <<Job("readFailed")>>}
      /\ phase' = IF phase = "none" THEN "reconnecting" ELSE phase
      /\ UNCHANGED <<seq, parked, lost, streams, inChunk, recoveryFrames, held, shared,
                     waitingFor, buffer, cursor, position, upto, fresh, read, inFlight, pending,
                     wanted, stale, base, mapped, told, abandoned, extra>>
  BY DEF SocketFails, OnClose, bridge, history
<1>2. DaemonTyped /\ ClientTyped /\ BridgeTyped /\ Cursor
  BY DEF IInv, Types
<1>3. phase' # "none" /\ phase' \in {"reconnecting", "reattaching", "collecting"}
  BY <1>1, <1>2 DEF ClientTyped
<1>4. Arriving' = Arriving
  BY <1>1 DEF Arriving
<1>5. Members(wire') = {} /\ Members(outbox') = {} /\ Coming' = {}
  BY <1>1 DEF Members, Coming
<1>6. /\ jobs' \in Seq(Jobs(seq, streams))
      /\ \A job \in Members(jobs') : job.do = "readFailed"
      /\ \A k \in 1 .. Len(jobs') : jobs'[k].do = "readFailed"
  <2>1. <<>> \in Seq(Jobs(seq, streams)) /\ Members(<<>>) = {}
    BY DEF Members
  <2>2. /\ jobs' \in Seq(Jobs(seq, streams))
        /\ \A job \in Members(jobs') : job.do = "readFailed"
    <3> DEFINE j == Job("readFailed")
    <3>1. j.do = "readFailed" /\ Members(<<j>>) = {j} /\ <<j>> \in Seq(Jobs(seq, streams))
      BY ReadFailedJob
    <3>2. jobs' = <<>> \/ jobs' = <<j>>
      BY <1>1
    <3> HIDE DEF j
    <3>3. \A job \in {j} : job.do = "readFailed"
      BY <3>1
    <3>4. CASE jobs' = <<>>
      BY <2>1, <3>4
    <3>5. CASE jobs' = <<j>>
      BY <3>1, <3>3, <3>5
    <3> QED BY <3>2, <3>4, <3>5
  <2> QED BY <2>2, MembersOf
<1>7. DaemonTyped'
  <2>1. /\ <<>> \in Seq(Frames(Arriving, seq, streams))
        /\ <<>> \in Seq(StreamFrames(seq, streams))
    OBVIOUS
  <2> QED BY <1>1, <1>2, <1>4, <2>1 DEF DaemonTyped
<1>8. ClientTyped'
  <2>1. faults + 1 \in 0 .. MaxFaults
    BY <1>1, <1>2, DaemonConnectionAssumption DEF ClientTyped
  <2> QED BY <1>1, <1>2, <1>3, <1>4, <1>6, <2>1 DEF ClientTyped
<1>9. BridgeTyped'
  BY <1>1, <1>2, <1>4 DEF BridgeTyped
<1>10. DeadLink'
  BY <1>1, <1>3, <1>6 DEF DeadLink
<1>11. Order'
  BY <1>1, <1>5 DEF Order, Ordered
<1>12. Reattaching'
  BY <1>5, <1>6 DEF Reattaching, NoAttach
<1>13. Cursor'
  BY <1>1, <1>2 DEF Cursor
<1>14. Losses'
  BY <1>3 DEF Losses, Covered
<1>15. Replacements'
  BY <1>5 DEF Replacements
<1>16. Buffered'
  BY <1>3, <1>5 DEF Buffered
<1> QED BY <1>7, <1>8, <1>9, <1>10, <1>11, <1>12, <1>13, <1>14, <1>15, <1>16 DEF IInv, Types

LEMMA Reconnecting ==
  ASSUME IInv, Reconnect
  PROVE  IInv'
<1>1. /\ jobs = <<>> /\ phase = "reconnecting" /\ link' = TRUE /\ phase' = "reattaching"
      /\ UNCHANGED <<seq, parked, lost, outbox, streams, wire, inChunk, jobs, closed,
                     recoveryFrames, held, shared, waitingFor, buffer, cursor, position, upto,
                     fresh, awaiting, read, inFlight, pending, wanted, stale, base, mapped,
                     told, abandoned, faults, extra>>
  BY DEF Reconnect, Idle, daemon, snapshot, bridge, history
<1>2. /\ DaemonTyped /\ ClientTyped /\ BridgeTyped /\ Order /\ Reattaching /\ Cursor
      /\ Replacements /\ Buffered
  BY DEF IInv, Types
<1>3. Arriving' = Arriving /\ Coming' = Coming
  BY <1>1 DEF Arriving, Coming
<1>4. NoAttach /\ NoAttach' = NoAttach
  BY <1>1, <1>2, <1>3 DEF Reattaching, NoAttach
<1>5. \A g \in Members(wire) : g.type # "reattached"
  BY <1>1, <1>2 DEF Reattaching
<1>6. DaemonTyped'
  BY <1>1, <1>2, <1>3 DEF DaemonTyped
<1>7. ClientTyped'
  BY <1>1, <1>2, <1>3 DEF ClientTyped
<1>8. BridgeTyped'
  BY <1>1, <1>2, <1>3 DEF BridgeTyped
<1>9. DeadLink'
  BY <1>1 DEF DeadLink
<1>10. Order'
  BY <1>1, <1>2 DEF Order
<1>11. Reattaching'
  <2>1. jobs' = <<>> /\ Len(jobs') = 0
    BY <1>1
  <2>2. \A i \in 1 .. Len(jobs') : FALSE
    BY <2>1
  <2> QED BY <1>1, <1>4, <1>5, <2>2 DEF Reattaching
<1>12. Cursor'
  BY <1>1, <1>2 DEF Cursor
<1>13. Losses'
  BY <1>1 DEF Losses, Covered
<1>14. Replacements'
  BY <1>1, <1>2, <1>3 DEF Replacements
<1>15. Buffered'
  BY <1>1, <1>2, <1>3 DEF Buffered
<1> QED BY <1>6, <1>7, <1>8, <1>9, <1>10, <1>11, <1>12, <1>13, <1>14, <1>15 DEF IInv, Types

(* The answers to the requests that timed out are nobody's any more.         *)
LEMMA TimingOut ==
  ASSUME IInv, ReadTimesOut
  PROVE  IInv'
<1> DEFINE T == {f \in Members(wire) : f.type \notin {"messages", "rest"}}
           j == Job("readFailed")
<1>1. /\ jobs = <<>> /\ awaiting' = {} /\ wire' = Selected(wire, T) /\ jobs' = <<j>>
      /\ UNCHANGED <<seq, parked, lost, outbox, streams, link, inChunk, closed, phase,
                     recoveryFrames, held, shared, waitingFor, buffer, cursor, position, upto,
                     fresh, read, inFlight, pending, wanted, stale, base, mapped, told,
                     abandoned, faults, extra>>
  BY DEF ReadTimesOut, Idle, daemon, recovery, bridge, history
<1>2. /\ DaemonTyped /\ ClientTyped /\ BridgeTyped /\ DeadLink /\ Order /\ Reattaching /\ Cursor
      /\ Losses /\ Replacements /\ Buffered
  BY DEF IInv, Types
<1>3. Arriving' = Arriving
  BY <1>1 DEF Arriving
<1>4. j.do = "readFailed" /\ j \in Jobs(seq, streams) /\ <<j>> = Append(<<>>, j)
      /\ Members(<<j>>) = {j} /\ <<j>> \in Seq(Jobs(seq, streams))
  BY ReadFailedJob
<1> HIDE DEF j
<1>5. wire \in Seq(Frames(Arriving, seq, streams)) /\ Ordered(wire)
  BY <1>2 DEF DaemonTyped, Order
<1>6. /\ wire' \in Seq(Frames(Arriving, seq, streams) \intersect T)
      /\ Members(wire') = Members(wire) \intersect T
  <2> HIDE DEF T
  <2> QED BY <1>1, <1>5, SelectedMembers
<1>7. Ordered(Selected(wire, T))
  <2> HIDE DEF T
  <2> QED BY <1>5, OrderedSelected
<1>8. Members(wire') = T
  BY <1>6
<1>9. /\ Coming' \subseteq Coming /\ Members(wire') \subseteq Members(wire)
      /\ \A f \in Coming : f.type \notin {"messages", "rest"} => f \in Coming'
      /\ \A f \in Members(wire) : f.type \notin {"messages", "rest"} => f \in Members(wire')
  BY <1>1, <1>8 DEF Coming
<1>10. DaemonTyped'
  <2>1. wire' \in Seq(Frames(Arriving, seq, streams))
    <3>1. Frames(Arriving, seq, streams) \intersect T \subseteq Frames(Arriving, seq, streams)
      OBVIOUS
    <3> HIDE DEF T
    <3> QED BY <1>6, <3>1, SeqGrows
  <2> QED BY <1>1, <1>2, <1>3, <2>1 DEF DaemonTyped
<1>11. ClientTyped'
  BY <1>1, <1>2, <1>3, <1>4 DEF ClientTyped
<1>12. BridgeTyped'
  BY <1>1, <1>2, <1>3 DEF BridgeTyped
<1>13. DeadLink'
  <2>1. Members(jobs') = {j}
    BY <1>1, <1>4
  <2>2. ASSUME ~link PROVE wire' = <<>>
    <3>1. Members(wire') = {}
      BY <1>2, <1>5, <1>9, <2>2, MembersOf DEF DeadLink
    <3> QED BY <1>6, <3>1, MembersOf
  <2> QED BY <1>1, <1>2, <1>4, <2>1, <2>2 DEF DeadLink
<1>14. Order'
  <2>1. Ordered(wire)'
    BY <1>1, <1>7
  <2> QED BY <1>1, <1>2, <1>9, <2>1 DEF Order
<1>15. Reattaching'
  <2>1. \A g \in Members(wire) : g.type = "reattached" => g \in Members(wire')
    BY <1>9
  <2>2. j.do \notin {"reattached", "collected"} /\ jobs' \in {jobs, Append(jobs, j)}
    BY <1>1, <1>4
  <2> QED BY <1>1, <1>4, <1>9, <2>1, <2>2, ReattachingKept
<1>16. Cursor'
  BY <1>1, <1>2 DEF Cursor
<1>17. Members(jobs) = {} /\ Members(jobs') = {j}
  BY <1>1, <1>4 DEF Members
<1>18. Losses'
  <2>1. \A n : Covered(n) => Covered(n)'
    BY <1>1, <1>17, CoveredKept
  <2>2. \A n : Exposed(n)' <=> Exposed(n)
    BY <1>1 DEF Exposed
  <2> QED BY <1>1, <1>2, <1>17, <2>1, <2>2 DEF Losses
<1>19. Replacements'
  <2>1. \A e \in Coming' : e.type = "end" /\ e.purpose = "replacement" =>
           /\ phase = "none" /\ Begin(e.id, "replacement") \in Members(buffer) \union Coming
                => Begin(e.id, "replacement") \in Members(buffer') \union Coming'
           /\ \A f \in Members(mapped') \union Members(recoveryFrames') :
                f \in Members(mapped) \union Members(recoveryFrames) \/ f.n <= e.n
           /\ \A job \in Members(jobs') : job \in Members(jobs) \/ ~ Doing(job, "replaced", e.id)
    <3>1. \A x : Begin(x, "replacement").type = "begin"
      BY DEF Begin
    <3> QED BY <1>1, <1>4, <1>9, <1>17, <3>1 DEF Doing
  <2> QED BY <1>1, <1>9, <2>1, ReplacementsKept
<1>20. Buffered'
  <2>1. \A e, id : Ending(e, id) /\ e \in Coming => e \in Coming'
    BY <1>9 DEF Ending
  <2> QED BY <1>1, <1>2, <1>9, <1>17, <2>1 DEF Buffered
<1> QED BY <1>10, <1>11, <1>12, <1>13, <1>14, <1>15, <1>16, <1>18, <1>19, <1>20 DEF IInv, Types

------------------------------------------------------------------------------
(* The theorems                                                              *)

LEMMA Starting == Init => IInv
<1> SUFFICES ASSUME Init PROVE IInv
  OBVIOUS
<1>1. Members(<<>>) = {} /\ Len(<<>>) = 0 /\ \A S : <<>> \in Seq(S)
  BY DEF Members
<1>2. /\ 0 \in 0 .. MaxSequence /\ 0 \in 0 .. MaxFaults /\ 0 \in 0 .. MaxSnapshots /\ 0 \in 0 .. 0
  BY DaemonConnectionAssumption
<1>3. DaemonTyped
  BY <1>1, <1>2 DEF Init, DaemonTyped
<1>4. ClientTyped
  BY <1>1, <1>2 DEF Init, ClientTyped
<1>5. BridgeTyped
  BY <1>1, <1>2 DEF Init, BridgeTyped
<1>6. Coming = {}
  BY <1>1 DEF Init, Coming
<1>7. DeadLink /\ Order /\ NoAttach
  BY <1>1, <1>6 DEF Init, DeadLink, Order, Ordered, NoAttach
<1>8. Reattaching
  BY <1>1, <1>7 DEF Init, Reattaching
<1>9. Cursor
  BY <1>1 DEF Init, Cursor, Rising
<1>10. Losses
  BY <1>1 DEF Init, Losses
<1>11. Replacements /\ Buffered
  BY <1>1, <1>6 DEF Init, Replacements, Buffered
<1> QED BY <1>3, <1>4, <1>5, <1>7, <1>8, <1>9, <1>10, <1>11 DEF IInv, Types

LEMMA Inductive == IInv /\ [Next]_vars => IInv'
<1> SUFFICES ASSUME IInv, [Next]_vars PROVE IInv'
  OBVIOUS
<1>1. closed \in {"no", "socket", "deadline", "refused", "timeout", "snapshot"}
  BY DEF IInv, Types, ClientTyped
<1>2. CASE Daemon
  BY <1>2, DaemonPart
<1>3. CASE ReadFrame
  BY <1>3, Reading
<1>4. CASE RunJob
  BY <1>4, JobDone
<1>5. CASE SocketFails
  BY <1>5, Failing
<1>6. CASE Reconnect
  BY <1>6, Reconnecting
<1>7. CASE GiveUp
  <2>1. Terminate("deadline")
    BY <1>7 DEF GiveUp
  <2> QED BY <2>1, Closing DEF Terminate
<1>8. CASE ReattachFails
  <2>1. Terminate("refused")
    BY <1>8 DEF ReattachFails
  <2> QED BY <2>1, Closing DEF Terminate
<1>9. CASE CollectTimesOut
  <2>1. \E why \in {"socket", "timeout", "snapshot"} : Terminate(why)
    BY <1>9 DEF CollectTimesOut
  <2> QED BY <2>1, Closing DEF Terminate
<1>10. CASE ReadTimesOut
  BY <1>10, TimingOut
<1>11. CASE UNCHANGED vars
  BY <1>1, <1>11, Closing DEF vars
<1> QED BY <1>2, <1>3, <1>4, <1>5, <1>6, <1>7, <1>8, <1>9, <1>10, <1>11 DEF Next, Timers

LEMMA Invariance == Spec => []IInv
BY Starting, Inductive, PTL DEF Spec

(* Type correctness: in particular the tracker, the cursor and what was      *)
(* snapshot never run ahead of what the daemon consumed, and only lost       *)
(* events are given up.                                                      *)
THEOREM TypeCorrect == Spec => []TypeOK
<1>1. IInv => TypeOK
  <2> SUFFICES ASSUME IInv PROVE TypeOK
    OBVIOUS
  <2>1. DaemonTyped /\ ClientTyped /\ BridgeTyped /\ seq \in 0 .. MaxSequence
    BY DEF IInv, Types, DaemonTyped
  <2>2. seq \in Nat /\ MaxSequence \in Nat
    BY <2>1, DaemonConnectionAssumption
  <2>3. \A x \in Arriving : x \in 0 .. MaxSequence /\ x \in 0 .. seq /\ x # 0
    BY <2>1, <2>2 DEF Arriving
  <2>4. EventFrames(Arriving) \subseteq EventFrame
    BY <2>3 DEF EventFrames, EventFrame, Sequence, Kinds
  <2>5. recoveryFrames \in Seq(EventFrame) /\ mapped \in Seq(EventFrame)
    BY <2>1, <2>4, SeqGrows DEF ClientTyped, BridgeTyped
  <2>6. parked \in 0 .. seq
    BY <2>1, <2>2, <2>3 DEF DaemonTyped
  <2> QED BY <2>1, <2>5, <2>6 DEF TypeOK, DaemonTyped, ClientTyped, BridgeTyped, Sequence
<1> QED BY <1>1, Invariance, PTL

(* However a recovery, the frames it holds back, replays and replacements    *)
(* move the cursor, no event reaches the mapper that the snapshot announced  *)
(* last has, and none twice or out of order.                                 *)
THEOREM AppliedInOrder == Spec => []InOrderOnce
<1>1. IInv => InOrderOnce
  <2> SUFFICES ASSUME IInv, NEW i \in DOMAIN mapped
               PROVE  mapped[i].n > IF i = 1 THEN base ELSE mapped[i - 1].n
    BY DEF InOrderOnce
  <2>1. mapped \in Seq(EventFrames(Arriving)) /\ Rising(mapped, base, cursor) /\ base \in Nat
    BY DaemonConnectionAssumption
       DEF IInv, Types, DaemonTyped, BridgeTyped, Cursor
  <2>2. /\ i \in 1 .. Len(mapped) /\ mapped[i] \in Members(mapped)
        /\ mapped[i] \in EventFrames(Arriving)
    BY <2>1, MembersOf
  <2>3. mapped[i].n \in Nat
    BY <2>2, DaemonConnectionAssumption DEF EventFrames, Arriving, IInv, Types, DaemonTyped
  <2>4. CASE i = 1
    <3> DEFINE u == mapped[i].n
    <3>1. base < u /\ u \in Nat
      BY <2>1, <2>2, <2>3 DEF Rising
    <3> HIDE DEF u
    <3>2. u > base
      BY <2>1, <3>1
    <3> QED BY <2>4, <3>2 DEF u
  <2>5. CASE i # 1
    <3> DEFINE u == mapped[i].n
               v == mapped[i - 1].n
    <3>1. i - 1 \in 1 .. Len(mapped) /\ i - 1 < i
      BY <2>2, <2>5
    <3>2. v < u
      BY <2>1, <2>2, <3>1 DEF Rising
    <3>3. mapped[i - 1] \in EventFrames(Arriving)
      BY <2>1, <3>1
    <3>4. v \in Nat
      BY <3>3, DaemonConnectionAssumption DEF EventFrames, Arriving, IInv, Types, DaemonTyped
    <3>5. u \in Nat
      BY <2>3
    <3> HIDE DEF u, v
    <3>6. u > v
      BY <3>2, <3>4, <3>5
    <3> QED BY <2>5, <3>6 DEF u, v
  <2> QED BY <2>4, <2>5
<1> QED BY <1>1, Invariance, PTL

(* An event the daemon lost, after which one went out directly, is noticed:  *)
(* a reset was emitted since, or what will emit one is under way, unless a   *)
(* resync failed on a live socket and gave the loss up.                      *)
THEOREM LossIsNoticed == Spec => []NoSilentLoss
<1>1. IInv => NoSilentLoss
  BY DEF IInv, Losses, Covered, NoSilentLoss
<1> QED BY <1>1, Invariance, PTL

(* A session whose socket died is being recovered, or was closed.            *)
THEOREM DeathIsNoticed == Spec => []DeadSocketNoticed
<1>1. IInv => DeadSocketNoticed
  BY DEF IInv, DeadLink, DeadSocketNoticed
<1> QED BY <1>1, Invariance, PTL

(* Once a snapshot has been dealt with, whatever it was for, and however     *)
(* its frames fell among the others, none of them is still buffered.         *)
THEOREM FramesReleased == Spec => []BuffersReleased
<1>1. IInv => BuffersReleased
  <2> SUFFICES ASSUME IInv, jobs = <<>>, wire = <<>>, outbox = <<>>, phase = "none"
               PROVE  buffer = <<>>
    BY DEF BuffersReleased, Idle
  <2>1. Buffered /\ buffer \in Seq(StreamFrames(seq, streams))
    BY DEF IInv, Types, ClientTyped
  <2>2. Members(<<>>) = {}
    BY DEF Members
  <2>3. Members(buffer) = {}
    BY <2>1, <2>2 DEF Buffered, Coming
  <2> QED BY <2>1, <2>3, MembersOf
<1> QED BY <1>1, Invariance, PTL
==============================================================================
