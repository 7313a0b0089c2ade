-------------------------- MODULE RunTranscriptProofs --------------------------
(***************************************************************************)
(* Theorems about RunTranscript, for any number of blocks and resyncs: the *)
(* values of the run, the mapper and the bubble, and that a bubble shows   *)
(* the whole run when the run is over.                                     *)
(*                                                                         *)
(* The recursive functions of the module (Shown, Building, Weaving) are    *)
(* unfolded by SetInduction, which speaks of a set where a principle of    *)
(* induction would speak of an operator.                                   *)
(***************************************************************************)
EXTENDS RunTranscript, FiniteSetTheorems, TLAPS

------------------------------------------------------------------------------
(* The inductive invariant of a run                                        *)

(* The values of blocks and of parts.  No part of a call is nameless.      *)
Blocks == [kind : {"text", "thinking", "tool"}, n : 1 .. MaxBlocks]

TextParts      == [kind : {"text"}, text : Seq(Nat)]
ReasoningParts == [kind : {"reasoning"}, index : Nat, text : Seq(Nat),
                   state : {"streaming", "complete"}]
CallParts      == [kind : {"tool"}, n : Nat, named : {TRUE},
                   state : {"running", "available", "error"}]
Parts          == TextParts \union ReasoningParts \union CallParts \union {SummaryPart, ErrorPart}

(* Of these kinds a part stands for something: for the text of the run,    *)
(* for an episode of thinking, or for a call.                              *)
Kinds == {"text", "reasoning", "tool"}

(* Two parts of these kinds stand for the same thing.                      *)
SameThing(p, q) ==
  /\ p.kind = q.kind
  /\ p.kind = "reasoning" => p.index = q.index
  /\ p.kind = "tool" => p.n = q.n

(* No two parts of these kinds are the same thing.                         *)
Keyed(parts, kinds) ==
  \A i, j \in DOMAIN parts : parts[i].kind \in kinds /\ SameThing(parts[i], parts[j]) => i = j

(* A finite function on numbers: a Map of the mapper.                      *)
Indexed(f, S) == f \in [DOMAIN f -> S] /\ DOMAIN f \subseteq Nat /\ IsFiniteSet(DOMAIN f)

(* The blocks of a message are numbered in their order.                    *)
Rising(blocks) == \A j, k \in DOMAIN blocks : j < k => blocks[j].n < blocks[k].n

RunRecords ==
  [at : {"idle", "message", "over"}, streams : BOOLEAN, announces : BOOLEAN,
   message : Seq(Blocks), open : {"none", "started", "told"}, blocks : 0 .. MaxBlocks,
   calls : SUBSET Nat, running : SUBSET Nat, resyncs : Nat]

RunTyped ==
  /\ run \in RunRecords
  /\ said \in Seq(Range(Word)) /\ spoken \subseteq Seq(Nat) /\ echoed \in BOOLEAN
  /\ thought \subseteq 1 .. run.blocks
  /\ Indexed(outcome, {"available", "error"}) /\ DOMAIN outcome \subseteq 1 .. run.blocks
  /\ upset \in BOOLEAN

(* The runtime: only the last block of a message is open and it is a       *)
(* thought, calls are executed between messages, and no call is executed   *)
(* twice.                                                                  *)
RunSound ==
  /\ Rising(run.message) /\ \A k \in DOMAIN run.message : run.message[k].n \in 1 .. run.blocks
  /\ run.at # "message" => run.open = "none"
  /\ run.open # "none" =>
       run.streams /\ run.message # <<>> /\ Last(run.message).kind = "thinking"
  /\ run.calls \subseteq CallsIn(run.message) /\ run.running \subseteq run.calls
  /\ run.at # "idle" => run.calls = {}
  /\ run.calls \intersect DOMAIN outcome = {}
  /\ run.at = "message" => \A k \in DOMAIN run.message : run.message[k].n \notin DOMAIN outcome
  /\ ~run.streams => thought = {}

(* The mapper, also after a resync: an index that it gave to an episode is *)
(* never given again, and a call has one tool.                             *)
MapperFields == {"text", "reasoning", "claimed", "next", "active", "indexOf", "message", "tools",
                 "starts", "failed"}

MapperRecord(m) == m = [f \in MapperFields |-> m[f]]

MapperTyped(m) ==
  /\ MapperRecord(m)
  /\ m.text \in Seq(Nat) /\ m.message \in Seq(Blocks) /\ m.tools \in Seq(CallParts)
  /\ Indexed(m.reasoning, Seq(Nat)) /\ Indexed(m.active, Nat) /\ Indexed(m.indexOf, Nat)
  /\ m.claimed \subseteq Nat /\ IsFiniteSet(m.claimed) /\ m.next \in Nat
  /\ m.starts \subseteq Nat /\ m.failed \in BOOLEAN

MapperSound(m) ==
  /\ MapperTyped(m)
  /\ \A i \in m.claimed : i < m.next
  /\ DOMAIN m.reasoning \subseteq m.claimed
  /\ \A r \in DOMAIN m.active : m.active[r] \in m.claimed
  /\ Keyed(m.tools, {"tool"})
  /\ Rising(m.message)

(* The bubble, also after a resync or a failed message.                    *)
BubbleSound == bubble \in Seq(Parts) /\ Keyed(bubble, {"tool"})

(* A text that tells what was said, unless a message repeated the run, and *)
(* what the messages said that ended.                                      *)
Tells(text) ==
  /\ text = <<>> <=> said = <<>>
  /\ ~echoed => text = said

(* What was said is in the mapper, or still in the message that is sent.   *)
TextKept ==
  /\ IsSuffix(Texts(run.message), said)
  /\ run.streams => ~echoed
  /\ \A text \in spoken : Within(text, mapper.text)
  /\ run.at = "idle" => mapper.message = run.message
  /\ run.at = "idle" \/ run.streams =>
       IsSuffix(Texts(run.message), mapper.text) /\ Tells(mapper.text)
  /\ run.at # "idle" /\ ~run.streams => Tells(mapper.text \o Texts(run.message))

(* A call that ended is in the tools of the run.                           *)
CallsKept == \A n \in DOMAIN outcome : ToolPart(n, TRUE, outcome[n]) \in Range(mapper.tools)

Thinking(p) == p.kind = "reasoning"

(* What a bubble tells of its episodes, and those that are streaming.      *)
Told(parts) == {<<p.index, p.text>> : p \in {q \in Range(parts) : Thinking(q)}}
Live(parts) == {p.index : p \in {q \in Range(parts) : Thinking(q) /\ q.state = "streaming"}}

(* The bubble shows the episodes of the mapper, and every thought once.    *)
ThoughtsShown ==
  /\ \A e \in Told(bubble) : /\ e[1] \in mapper.claimed
                             /\ e[2] = <<>> \/ \E n \in thought : e[2] = <<n>>
  /\ \A d, e \in Told(bubble) : d[2] = e[2] /\ d[2] # <<>> => d[1] = e[1]
  /\ \A n \in thought : \E e \in Told(bubble) : e[2] = <<n>>
  /\ \A i \in DOMAIN mapper.reasoning : <<i, mapper.reasoning[i]>> \in Told(bubble)

(* What is active is still streaming in the bubble.  With providers that   *)
(* announce their messages it is of the message that streams.              *)
EpisodesActive ==
  /\ \A r, q \in DOMAIN mapper.active : mapper.active[r] = mapper.active[q] => r = q
  /\ \A r \in DOMAIN mapper.active :
       /\ mapper.active[r] \in DOMAIN mapper.reasoning
       /\ mapper.active[r] \in Live(bubble)
  /\ run.announces /\ run.at = "message" =>
       \A r \in DOMAIN mapper.active : r < Len(run.message)

(* The thoughts of the message that the runtime streams.                   *)
MessageThoughts ==
  /\ run.streams => \A k \in At(run.message, "thinking") :
       k - 1 \in DOMAIN mapper.indexOf /\ mapper.indexOf[k - 1] \in DOMAIN mapper.reasoning
  /\ run.open # "none" => Last0 \in DOMAIN mapper.active
  /\ run.open = "started" =>
       mapper.reasoning[mapper.active[Last0]] = <<>> /\ Last(run.message).n \notin thought
  /\ run.open = "told" => mapper.reasoning[mapper.active[Last0]] = <<Last(run.message).n>>

(* What holds until something starts over.                                 *)
Calm ==
  /\ ~mapper.failed
  /\ Keyed(bubble, Kinds)
  /\ said = <<>> => \A p \in Range(bubble) : p.kind = "text" => p.text = <<>>
  /\ TextKept /\ CallsKept /\ ThoughtsShown /\ EpisodesActive /\ MessageThoughts

(* What always holds.                                                      *)
Sound ==
  /\ RunTyped /\ RunSound
  /\ MapperSound(mapper) /\ run.running \subseteq mapper.starts
  /\ BubbleSound

(* What the bubble shows in the end rests on what the mapper and the       *)
(* bubble agree on before: a calm state is what each event hands on to the *)
(* next.                                                                   *)
RInv ==
  /\ Sound
  /\ ~upset /\ run.at # "over" => Calm
  /\ DoneShowsTheRun

------------------------------------------------------------------------------
(* Sets of numbers                                                         *)

(* A set with zero, and with the successor of each of its numbers, has     *)
(* every natural number.                                                   *)
LEMMA SetInduction ==
  ASSUME NEW S, 0 \in S, \A n \in Nat : n \in S => n + 1 \in S
  PROVE  \A n \in Nat : n \in S
<1> DEFINE rest == Nat \ S
<1>1. SUFFICES ASSUME rest # {} PROVE FALSE
  OBVIOUS
<1>2. PICK x \in rest : \A y \in rest : ~ (<<y, x>> \in OpToRel(<, Nat))
  BY <1>1, NatLessThanWellFounded, WFMin
<1>3. \A y \in rest : ~ (y < x)
  BY <1>2 DEF OpToRel
<1>4. x \in Nat /\ x \notin S /\ x # 0
  BY <1>2
<1>5. x - 1 \in Nat /\ x - 1 < x /\ (x - 1) + 1 = x
  BY <1>4
<1>6. x - 1 \in S
  BY <1>3, <1>5
<1> QED BY <1>4, <1>5, <1>6

(* A set of natural numbers that is not empty has a least one.             *)
LEMMA LeastIs ==
  ASSUME NEW S, S \subseteq Nat, S # {}
  PROVE  Least(S) \in S /\ \A y \in S : Least(S) <= y
<1>1. PICK x \in S : \A y \in S : ~ (<<y, x>> \in OpToRel(<, Nat))
  BY NatLessThanWellFounded, WFMin
<1>2. \A y \in S : x \in Nat /\ y \in Nat
  OBVIOUS
<1>3. \A y \in S : ~ (y < x)
  BY <1>1, <1>2 DEF OpToRel
<1>4. \A y \in S : x <= y
  BY <1>2, <1>3
<1> QED BY <1>4 DEF Least

(* A set of positions has a greatest one.                                  *)
LEMMA GreatestIs ==
  ASSUME NEW n \in Nat, NEW S, S \subseteq 1 .. n, S # {}
  PROVE  Greatest(S) \in S /\ \A y \in S : y <= Greatest(S)
<1> DEFINE T == {m \in Nat : \A y \in S : y <= m}
<1>1. n \in T
  OBVIOUS
<1>2. Least(T) \in T /\ \A m \in T : Least(T) <= m
  BY <1>1, LeastIs
<1> DEFINE top == Least(T)
<1> HIDE DEF top
<1>3. top \in Nat /\ (\A y \in S : y <= top) /\ \A m \in T : top <= m
  BY <1>2 DEF top
<1>4. top \in S
  <2>1. SUFFICES ASSUME top \notin S PROVE FALSE
    OBVIOUS
  <2>2. \A y \in S : y <= top - 1 /\ top - 1 \in Nat
    BY <1>3, <2>1
  <2>3. top - 1 \in T
    BY <2>2
  <2> QED BY <1>3, <2>3
<1> QED BY <1>3, <1>4 DEF Greatest

(* What findIndex returns.                                                 *)
LEMMA FirstIs ==
  ASSUME NEW n \in Nat, NEW S, S \subseteq 1 .. n
  PROVE  /\ S = {} => First(S) = 0
         /\ S # {} => First(S) \in S /\ First(S) # 0
         /\ First(S) \in 0 .. n
<1>1. CASE S = {}
  BY <1>1 DEF First
<1>2. CASE S # {}
  <2>1. S \subseteq Nat /\ \A x \in S : x # 0 /\ x \in 0 .. n
    OBVIOUS
  <2>2. Least(S) \in S
    BY <1>2, <2>1, LeastIs
  <2> QED BY <1>2, <2>1, <2>2 DEF First
<1> QED BY <1>1, <1>2

(* How many members of a set come no later.                                *)
Rank(S, x) == Cardinality({y \in S : y <= x})

LEMMA RankGrows ==
  ASSUME NEW S, S \subseteq Nat, IsFiniteSet(S), NEW x \in Nat, NEW y \in S, x < y
  PROVE  Rank(S, x) < Rank(S, y)
<1> DEFINE A == {z \in S : z <= x}
           B == {z \in S : z <= y}
<1>1. IsFiniteSet(A) /\ IsFiniteSet(B)
  BY FS_Subset
<1>2. A \subseteq B /\ y \in B /\ y \notin A
  <2>1. y \in Nat /\ \A z \in S : z \in Nat
    OBVIOUS
  <2>2. \A z \in S : z <= x => z <= y
    BY <2>1
  <2>3. y <= y /\ ~(y <= x)
    BY <2>1
  <2> QED BY <2>2, <2>3
<1>3. Cardinality(A) <= Cardinality(B) /\ (Cardinality(B) = Cardinality(A) => B = A)
  BY <1>1, <1>2, FS_Subset
<1>4. Cardinality(A) \in Nat /\ Cardinality(B) \in Nat
  BY <1>1, FS_CardinalityType
<1>5. Rank(S, x) = Cardinality(A) /\ Rank(S, y) = Cardinality(B)
  BY DEF Rank
<1> HIDE DEF A, B
<1> QED BY <1>2, <1>3, <1>4, <1>5

LEMMA RankIn ==
  ASSUME NEW S, S \subseteq Nat, IsFiniteSet(S), NEW x \in S
  PROVE  Rank(S, x) \in 1 .. Cardinality(S)
<1> DEFINE A == {z \in S : z <= x}
<1>1. IsFiniteSet(A) /\ A \subseteq S /\ x \in A
  BY FS_Subset
<1>2. Cardinality(A) <= Cardinality(S) /\ Cardinality(A) \in Nat /\ Cardinality(S) \in Nat
  BY <1>1, FS_Subset, FS_CardinalityType
<1>3. Cardinality(A) # 0
  BY <1>1, FS_EmptySet
<1>4. Rank(S, x) = Cardinality(A)
  BY DEF Rank
<1> HIDE DEF A
<1> QED BY <1>2, <1>3, <1>4

(* Each position up to the number of members is the rank of one.           *)
LEMMA RankOnto ==
  ASSUME NEW S, S \subseteq Nat, IsFiniteSet(S), NEW k \in 1 .. Cardinality(S)
  PROVE  \E x \in S : Rank(S, x) = k
<1> DEFINE f == [x \in S |-> Rank(S, x)]
           T == 1 .. Cardinality(S)
<1>1. Cardinality(S) \in Nat
  BY FS_CardinalityType
<1>2. f \in [S -> T]
  BY RankIn
<1>3. \A x, y \in S : f[x] = f[y] => x = y
  <2>1. SUFFICES ASSUME NEW x \in S, NEW y \in S, f[x] = f[y], x # y PROVE FALSE
    OBVIOUS
  <2>2. Rank(S, x) \in Nat /\ Rank(S, y) \in Nat /\ Rank(S, x) = Rank(S, y)
    <3>1. Rank(S, x) \in 1 .. Cardinality(S) /\ Rank(S, y) \in 1 .. Cardinality(S)
      BY RankIn
    <3> QED BY <1>1, <2>1, <3>1
  <2>3. x \in Nat /\ y \in Nat
    OBVIOUS
  <2>4. x < y => Rank(S, x) < Rank(S, y)
    BY <2>3, RankGrows
  <2>5. y < x => Rank(S, y) < Rank(S, x)
    BY <2>3, RankGrows
  <2> QED BY <2>1, <2>2, <2>3, <2>4, <2>5
<1>4. f \in Injection(S, T)
  BY <1>2, <1>3 DEF Injection, IsInjective
<1>5. IsFiniteSet(T) /\ Cardinality(T) = Cardinality(S)
  BY <1>1, FS_Interval
<1>6. f \in Surjection(S, T)
  <2> HIDE DEF f, T
  <2> QED BY <1>4, <1>5, FS_Injection
<1>7. \E x \in S : f[x] = k
  BY <1>6 DEF Surjection
<1> QED BY <1>7

LEMMA SeqsGrow ==
  ASSUME NEW S, NEW T, S \subseteq T
  PROVE  Seq(S) \subseteq Seq(T)
<1>1. SUFFICES ASSUME NEW s \in Seq(S) PROVE s \in Seq(T)
  OBVIOUS
<1>2. s \in [1 .. Len(s) -> S] /\ Len(s) \in Nat
  OBVIOUS
<1>3. s \in [1 .. Len(s) -> T]
  BY <1>2
<1> QED BY <1>2, <1>3

(* The members of a set in their order.                                    *)
LEMMA AscendingIs ==
  ASSUME NEW S, S \subseteq Nat, IsFiniteSet(S)
  PROVE  /\ Ascending(S) \in Seq(S) /\ Len(Ascending(S)) = Cardinality(S)
         /\ Cardinality(S) \in Nat
         /\ \A k \in 1 .. Cardinality(S) :
              Ascending(S)[k] \in S /\ Rank(S, Ascending(S)[k]) = k
         /\ \A x \in S : Rank(S, x) \in 1 .. Cardinality(S) /\ Ascending(S)[Rank(S, x)] = x
<1>1. Cardinality(S) \in Nat
  BY FS_CardinalityType
<1>2. \A k \in 1 .. Cardinality(S) : Ascending(S)[k] = CHOOSE x \in S : Rank(S, x) = k
  BY DEF Ascending, Rank
<1>3. \A k \in 1 .. Cardinality(S) :
        Ascending(S)[k] \in S /\ Rank(S, Ascending(S)[k]) = k
  BY <1>2, RankOnto
<1>4. DOMAIN Ascending(S) = 1 .. Cardinality(S)
  BY DEF Ascending
<1>5. Ascending(S) = [k \in 1 .. Cardinality(S) |-> Ascending(S)[k]]
  BY DEF Ascending
<1>6. Ascending(S) \in [1 .. Cardinality(S) -> S]
  BY <1>3, <1>5
<1>7. Ascending(S) \in Seq(S) /\ Len(Ascending(S)) = Cardinality(S)
  BY <1>1, <1>6
<1>8. \A x, y \in S : Rank(S, x) = Rank(S, y) => x = y
  <2>1. SUFFICES ASSUME NEW x \in S, NEW y \in S, Rank(S, x) = Rank(S, y), x # y PROVE FALSE
    OBVIOUS
  <2>2. Rank(S, x) \in Nat /\ x \in Nat /\ y \in Nat
    <3>1. Rank(S, x) \in 1 .. Cardinality(S)
      BY RankIn
    <3> QED BY <1>1, <3>1
  <2>3. x < y \/ y < x
    BY <2>1, <2>2
  <2>4. x < y => Rank(S, x) < Rank(S, y)
    BY <2>2, RankGrows
  <2>5. y < x => Rank(S, y) < Rank(S, x)
    BY <2>2, RankGrows
  <2> QED BY <2>1, <2>2, <2>3, <2>4, <2>5
<1>9. \A x \in S : Rank(S, x) \in 1 .. Cardinality(S) /\ Ascending(S)[Rank(S, x)] = x
  BY <1>3, <1>8, RankIn
<1> QED BY <1>1, <1>3, <1>7, <1>9

(* Two members of a set with one rank are the same.                        *)
LEMMA RankOne ==
  ASSUME NEW S, S \subseteq Nat, IsFiniteSet(S), NEW x \in S, NEW y \in S,
         Rank(S, x) = Rank(S, y)
  PROVE  x = y
<1>1. Ascending(S)[Rank(S, x)] = x
  BY AscendingIs
<1>2. Ascending(S)[Rank(S, y)] = y
  BY AscendingIs
<1> QED BY <1>1, <1>2

(* A number beyond the members of a set comes after them.                  *)
LEMMA AscendingAppend ==
  ASSUME NEW S, S \subseteq Nat, IsFiniteSet(S), NEW n \in Nat, \A x \in S : x < n
  PROVE  Ascending(S \union {n}) = Append(Ascending(S), n)
<1> DEFINE T == S \union {n}
           m == Cardinality(S)
<1>1. T \subseteq Nat /\ IsFiniteSet(T) /\ Cardinality(T) = m + 1 /\ m \in Nat
  BY FS_AddElement, FS_CardinalityType
<1>2. \A x \in S : Rank(T, x) = Rank(S, x)
  <2>1. SUFFICES ASSUME NEW x \in S PROVE Rank(T, x) = Rank(S, x)
    OBVIOUS
  <2>2. {y \in T : y <= x} = {y \in S : y <= x}
    OBVIOUS
  <2> QED BY <2>2 DEF Rank
<1>3. Rank(T, n) = m + 1
  <2>1. {y \in T : y <= n} = T
    <3>1. \A y \in T : y \in Nat /\ y <= n
      BY <1>1
    <3> HIDE DEF T
    <3> QED BY <3>1
  <2> QED BY <1>1, <2>1 DEF Rank
<1> HIDE DEF T
<1>4. S \subseteq T /\ n \in T
  BY DEF T
<1>5. \A k \in 1 .. m : Ascending(T)[k] = Ascending(S)[k]
  <2>1. SUFFICES ASSUME NEW k \in 1 .. m PROVE Ascending(T)[k] = Ascending(S)[k]
    OBVIOUS
  <2>2. Ascending(S)[k] \in S /\ Rank(S, Ascending(S)[k]) = k
    BY AscendingIs
  <2>3. Ascending(T)[Rank(T, Ascending(S)[k])] = Ascending(S)[k]
    BY <1>1, <1>4, <2>2, AscendingIs
  <2> QED BY <1>2, <2>2, <2>3
<1>6. Ascending(T)[m + 1] = n
  BY <1>1, <1>3, <1>4, AscendingIs
<1>7. /\ Ascending(T) \in Seq(Nat) /\ Len(Ascending(T)) = m + 1
      /\ Ascending(S) \in Seq(Nat) /\ Len(Ascending(S)) = m
  <2>1. Ascending(T) \in Seq(T) /\ Len(Ascending(T)) = m + 1
    BY <1>1, AscendingIs
  <2>2. Ascending(S) \in Seq(S) /\ Len(Ascending(S)) = m
    BY AscendingIs
  <2>3. Seq(T) \subseteq Seq(Nat) /\ Seq(S) \subseteq Seq(Nat)
    BY <1>1, SeqsGrow
  <2> QED BY <1>1, <2>1, <2>2, <2>3
<1> HIDE DEF m
<1> DEFINE a == Ascending(T)
           b == Ascending(S)
<1>8. \A k \in 1 .. m + 1 : a[k] = Append(b, n)[k]
  <2> HIDE DEF a, b
  <2>1. \A k \in 1 .. m : a[k] = b[k]
    BY <1>5 DEF a, b
  <2>2. a[m + 1] = n /\ b \in Seq(Nat) /\ Len(b) = m
    BY <1>6, <1>7 DEF a, b
  <2> QED BY <1>1, <2>1, <2>2
<1>9. a = Append(b, n)
  <2> HIDE DEF a, b
  <2>1. a \in Seq(Nat) /\ Len(a) = m + 1 /\ b \in Seq(Nat) /\ Len(b) = m
    BY <1>7 DEF a, b
  <2> QED BY <1>1, <1>8, <2>1
<1> QED BY <1>9 DEF T

------------------------------------------------------------------------------
(* Sequences, and their members                                            *)

LEMMA RangeIs ==
  ASSUME NEW T, NEW s \in Seq(T)
  PROVE  Range(s) \subseteq T /\ \A x : x \in Range(s) <=> \E i \in 1 .. Len(s) : s[i] = x
BY DEF Range

LEMMA AppendIs ==
  ASSUME NEW T, NEW s \in Seq(T), NEW e \in T
  PROVE  /\ Append(s, e) \in Seq(T) /\ Range(Append(s, e)) = Range(s) \union {e}
         /\ Len(Append(s, e)) = Len(s) + 1
         /\ \A i \in 1 .. Len(s) : Append(s, e)[i] = s[i]
         /\ Append(s, e)[Len(s) + 1] = e
<1>1. /\ Append(s, e) \in Seq(T) /\ Len(Append(s, e)) = Len(s) + 1 /\ Len(s) \in Nat
      /\ \A i \in 1 .. Len(s) : Append(s, e)[i] = s[i]
      /\ Append(s, e)[Len(s) + 1] = e
  OBVIOUS
<1> DEFINE a == Append(s, e)
<1> HIDE DEF a
<1>2. \A i \in 1 .. Len(s) + 1 : i \in 1 .. Len(s) \/ i = Len(s) + 1
  BY <1>1
<1>3. \A i \in 1 .. Len(s) : i \in 1 .. Len(s) + 1 /\ Len(s) + 1 \in 1 .. Len(s) + 1
  BY <1>1
<1>4. Len(s) + 1 \in 1 .. Len(s) + 1
  BY <1>1
<1>5. /\ \A i \in 1 .. Len(s) : a[i] = s[i]
      /\ a[Len(s) + 1] = e /\ a \in Seq(T) /\ Len(a) = Len(s) + 1
  BY <1>1 DEF a
<1>6. \A x : x \in Range(a) <=> \E i \in 1 .. Len(s) + 1 : a[i] = x
  BY <1>5, RangeIs
<1>7. \A x : x \in Range(a) <=> x \in Range(s) \/ x = e
  BY <1>2, <1>3, <1>4, <1>5, <1>6, RangeIs
<1>8. Range(a) = Range(s) \union {e}
  BY <1>7
<1> QED BY <1>1, <1>8 DEF a

LEMMA ConcatIs ==
  ASSUME NEW T, NEW s \in Seq(T), NEW t \in Seq(T)
  PROVE  /\ s \o t \in Seq(T) /\ Range(s \o t) = Range(s) \union Range(t)
         /\ Len(s \o t) = Len(s) + Len(t)
         /\ \A i \in 1 .. Len(s) : (s \o t)[i] = s[i]
         /\ \A i \in 1 .. Len(t) : (s \o t)[Len(s) + i] = t[i]
<1>1. /\ s \o t \in Seq(T) /\ Len(s \o t) = Len(s) + Len(t) /\ Len(s) \in Nat /\ Len(t) \in Nat
      /\ \A i \in 1 .. Len(s) : (s \o t)[i] = s[i]
      /\ \A i \in 1 .. Len(t) : (s \o t)[Len(s) + i] = t[i]
  OBVIOUS
<1> DEFINE a == s \o t
<1> HIDE DEF a
<1>2. \A i \in 1 .. Len(s) + Len(t) :
        i \in 1 .. Len(s) \/ (i - Len(s) \in 1 .. Len(t) /\ Len(s) + (i - Len(s)) = i)
  BY <1>1
<1>3. \A i \in 1 .. Len(s) : i \in 1 .. Len(s) + Len(t)
  BY <1>1
<1>4. \A i \in 1 .. Len(t) : Len(s) + i \in 1 .. Len(s) + Len(t)
  BY <1>1
<1>5. /\ \A i \in 1 .. Len(s) : a[i] = s[i]
      /\ \A i \in 1 .. Len(t) : a[Len(s) + i] = t[i]
      /\ a \in Seq(T) /\ Len(a) = Len(s) + Len(t)
  BY <1>1 DEF a
<1>6. \A x : x \in Range(a) <=> \E i \in 1 .. Len(s) + Len(t) : a[i] = x
  <2>1. \A x : x \in Range(a) <=> \E i \in 1 .. Len(a) : a[i] = x
    BY <1>5, RangeIs
  <2>2. 1 .. Len(a) = 1 .. Len(s) + Len(t)
    BY <1>5
  <2> QED BY <2>1, <2>2
<1>7. \A x : x \in Range(a) => x \in Range(s) \/ x \in Range(t)
  <2>1. SUFFICES ASSUME NEW i \in 1 .. Len(s) + Len(t) PROVE a[i] \in Range(s) \/ a[i] \in Range(t)
    BY <1>6
  <2>2. CASE i \in 1 .. Len(s)
    BY <1>5, <2>2, RangeIs
  <2>3. CASE i - Len(s) \in 1 .. Len(t) /\ Len(s) + (i - Len(s)) = i
    <3>1. a[i] = t[i - Len(s)]
      BY <1>5, <2>3
    <3> QED BY <2>3, <3>1, RangeIs
  <2> QED BY <1>2, <2>2, <2>3
<1>8. \A x : x \in Range(s) => x \in Range(a)
  <2>1. SUFFICES ASSUME NEW i \in 1 .. Len(s) PROVE s[i] \in Range(a)
    BY RangeIs
  <2> QED BY <1>3, <1>5, <1>6
<1>9. \A x : x \in Range(t) => x \in Range(a)
  <2>1. SUFFICES ASSUME NEW i \in 1 .. Len(t) PROVE t[i] \in Range(a)
    BY RangeIs
  <2> QED BY <1>4, <1>5, <1>6
<1>10. Range(a) = Range(s) \union Range(t)
  BY <1>7, <1>8, <1>9
<1> QED BY <1>1, <1>10 DEF a

LEMMA ReplaceIs ==
  ASSUME NEW T, NEW s \in Seq(T), NEW e \in T, NEW k \in 1 .. Len(s)
  PROVE  /\ ReplaceAt(s, k, e) \in Seq(T) /\ Len(ReplaceAt(s, k, e)) = Len(s)
         /\ \A i \in 1 .. Len(s) : ReplaceAt(s, k, e)[i] = IF i = k THEN e ELSE s[i]
BY DEF ReplaceAt

(* A part that is inserted is at its position, and the others around it.   *)
LEMMA InsertIs ==
  ASSUME NEW T, NEW s \in Seq(T), NEW e \in T, NEW k \in 1 .. Len(s)
  PROVE  /\ InsertAt(s, k, e) \in Seq(T) /\ Len(InsertAt(s, k, e)) = Len(s) + 1
         /\ \A i \in 1 .. Len(s) + 1 : InsertAt(s, k, e)[i] =
              IF i < k THEN s[i] ELSE IF i = k THEN e ELSE s[i - 1]
<1> DEFINE a == SubSeq(s, 1, k - 1)
           b == SubSeq(s, k, Len(s))
           c == a \o <<e>>
<1>1. a \in Seq(T) /\ Len(a) = k - 1 /\ \A i \in 1 .. k - 1 : a[i] = s[i]
  OBVIOUS
<1>2. b \in Seq(T) /\ Len(b) = Len(s) - k + 1 /\ \A i \in 1 .. Len(s) - k + 1 : b[i] = s[k + i - 1]
  OBVIOUS
<1>3. <<e>> \in Seq(T) /\ Len(<<e>>) = 1 /\ <<e>>[1] = e
  OBVIOUS
<1> HIDE DEF a, b
<1>4. c \in Seq(T) /\ Len(c) = k /\ (\A i \in 1 .. k - 1 : c[i] = s[i]) /\ c[k] = e
  <2>1. Len(c) = (k - 1) + 1 /\ c \in Seq(T)
    BY <1>1, <1>3, ConcatIs
  <2>2. \A i \in 1 .. k - 1 : c[i] = a[i]
    BY <1>1, <1>3, ConcatIs
  <2>3. c[(k - 1) + 1] = e
    BY <1>1, <1>3, ConcatIs
  <2> QED BY <1>1, <2>1, <2>2, <2>3
<1> HIDE DEF c
<1> DEFINE d == c \o b
<1>5. d \in Seq(T) /\ Len(d) = Len(s) + 1
  <2>1. d \in Seq(T) /\ Len(d) = Len(c) + Len(b)
    BY <1>2, <1>4, ConcatIs
  <2> QED BY <1>2, <1>4, <2>1
<1>6. \A i \in 1 .. k : d[i] = c[i]
  BY <1>2, <1>4, ConcatIs
<1>7. \A i \in 1 .. Len(s) - k + 1 : d[k + i] = b[i]
  BY <1>2, <1>4, ConcatIs
<1> HIDE DEF d
<1>8. ASSUME NEW i \in 1 .. Len(s) + 1
      PROVE  d[i] = IF i < k THEN s[i] ELSE IF i = k THEN e ELSE s[i - 1]
  <2>1. CASE i < k
    BY <1>4, <1>6, <2>1
  <2>2. CASE i = k
    BY <1>4, <1>6, <2>2
  <2>3. CASE i > k
    <3> DEFINE j == i - k
    <3>1. j \in 1 .. Len(s) - k + 1 /\ k + j = i /\ k + j - 1 = i - 1
      BY <2>3
    <3>2. d[k + j] = b[j] /\ b[j] = s[k + j - 1]
      BY <1>2, <1>7, <3>1
    <3> HIDE DEF j
    <3> QED BY <2>3, <3>1, <3>2
  <2> QED BY <2>1, <2>2, <2>3
<1>9. InsertAt(s, k, e) = d
  BY DEF InsertAt, a, b, c, d
<1> QED BY <1>5, <1>8, <1>9

LEMMA PutIs ==
  ASSUME NEW T, NEW s \in Seq(T), NEW e \in T, NEW k \in 0 .. Len(s)
  PROVE  /\ PutBefore(s, k, e) \in Seq(T) /\ Range(PutBefore(s, k, e)) = Range(s) \union {e}
         /\ \E at \in 1 .. Len(s) + 1 :
              /\ Len(PutBefore(s, k, e)) = Len(s) + 1
              /\ \A i \in 1 .. Len(s) + 1 : PutBefore(s, k, e)[i] =
                   IF i < at THEN s[i] ELSE IF i = at THEN e ELSE s[i - 1]
<1> DEFINE p == PutBefore(s, k, e)
           Placing(at) == \A i \in 1 .. Len(s) + 1 : p[i] =
                            IF i < at THEN s[i] ELSE IF i = at THEN e ELSE s[i - 1]
<1>1. p \in Seq(T) /\ Len(p) = Len(s) + 1 /\ \E at \in 1 .. Len(s) + 1 : Placing(at)
  <2>1. CASE k = 0
    <3>1. p = Append(s, e)
      BY <2>1 DEF PutBefore
    <3>2. Len(s) \in Nat
      OBVIOUS
    <3>3. Placing(Len(s) + 1)
      BY <3>1, <3>2, AppendIs
    <3> QED BY <3>1, <3>2, <3>3, AppendIs
  <2>2. CASE k # 0
    <3>1. p = InsertAt(s, k, e) /\ k \in 1 .. Len(s)
      BY <2>2 DEF PutBefore
    <3>2. k \in 1 .. Len(s) + 1
      BY <3>1
    <3> DEFINE ins == InsertAt(s, k, e)
    <3>3. /\ ins \in Seq(T) /\ Len(ins) = Len(s) + 1
          /\ \A i \in 1 .. Len(s) + 1 :
               ins[i] = IF i < k THEN s[i] ELSE IF i = k THEN e ELSE s[i - 1]
      BY <3>1, InsertIs
    <3> HIDE DEF ins
    <3>4. p = ins
      BY <3>1 DEF ins
    <3> HIDE DEF p
    <3>5. Placing(k)
      BY <3>3, <3>4
    <3> QED BY <3>2, <3>3, <3>4, <3>5
  <2> QED BY <2>1, <2>2
<1> HIDE DEF p
<1>2. PICK at \in 1 .. Len(s) + 1 : Placing(at)
  BY <1>1
<1>3. Len(s) \in Nat
  OBVIOUS
<1>4. \A x : x \in Range(p) <=> \E i \in 1 .. Len(s) + 1 : p[i] = x
  BY <1>1, RangeIs
<1>5. \A i \in 1 .. Len(s) + 1 : p[i] \in Range(s) \/ p[i] = e
  <2>1. SUFFICES ASSUME NEW i \in 1 .. Len(s) + 1 PROVE p[i] \in Range(s) \/ p[i] = e
    OBVIOUS
  <2>2. CASE i < at
    <3>1. p[i] = s[i] /\ i \in 1 .. Len(s)
      BY <1>2, <1>3, <2>2
    <3> QED BY <3>1, RangeIs
  <2>3. CASE i = at
    BY <1>2, <2>3
  <2>4. CASE i > at
    <3>1. p[i] = s[i - 1] /\ i - 1 \in 1 .. Len(s)
      BY <1>2, <1>3, <2>4
    <3> QED BY <3>1, RangeIs
  <2> QED BY <2>2, <2>3, <2>4
<1>6. \A i \in 1 .. Len(s) : s[i] \in Range(p)
  <2>1. SUFFICES ASSUME NEW i \in 1 .. Len(s) PROVE s[i] \in Range(p)
    OBVIOUS
  <2>2. CASE i < at
    <3>1. p[i] = s[i] /\ i \in 1 .. Len(s) + 1
      BY <1>2, <1>3, <2>2
    <3> QED BY <1>4, <3>1
  <2>3. CASE ~(i < at)
    <3> DEFINE j == i + 1
    <3>1. j \in 1 .. Len(s) + 1 /\ ~(j < at) /\ j # at /\ j - 1 = i
      BY <1>3, <2>3
    <3> HIDE DEF j
    <3>2. p[j] = s[i]
      BY <1>2, <3>1
    <3> QED BY <1>4, <3>1, <3>2
  <2> QED BY <2>2, <2>3
<1>7. e \in Range(p)
  BY <1>2, <1>4
<1>8. Range(p) = Range(s) \union {e}
  <2>1. \A x : x \in Range(s) => x \in Range(p)
    BY <1>6, RangeIs
  <2>2. \A x : x \in Range(p) => x \in Range(s) \/ x = e
    BY <1>4, <1>5
  <2> QED BY <1>7, <2>1, <2>2
<1> QED BY <1>1, <1>8 DEF p

(* The members of a sequence at some positions.                            *)
LEMMA PickedIs ==
  ASSUME NEW T, NEW s \in Seq(T), NEW S, S \subseteq 1 .. Len(s)
  PROVE  /\ Picked(s, S) \in Seq(T) /\ Len(Picked(s, S)) = Cardinality(S)
         /\ Range(Picked(s, S)) = {s[i] : i \in S}
         /\ IsFiniteSet(S) /\ Cardinality(S) \in Nat
<1>1. S \subseteq Nat /\ IsFiniteSet(S) /\ Len(s) \in Nat
  <2>1. Len(s) \in Nat /\ S \subseteq Nat
    OBVIOUS
  <2>2. IsFiniteSet(1 .. Len(s))
    BY <2>1, FS_Interval
  <2> QED BY <2>1, <2>2, FS_Subset
<1> DEFINE a == Ascending(S)
           m == Cardinality(S)
           p == Picked(s, S)
<1>2. /\ m \in Nat
      /\ \A k \in 1 .. m : a[k] \in S /\ Rank(S, a[k]) = k
      /\ \A x \in S : Rank(S, x) \in 1 .. m /\ a[Rank(S, x)] = x
  BY <1>1, AscendingIs
<1>3. p = [k \in 1 .. m |-> s[a[k]]]
  BY DEF Picked
<1> HIDE DEF a, m, p
<1>4. \A k \in 1 .. m : p[k] = s[a[k]] /\ s[a[k]] \in T
  <2>1. \A i \in S : i \in 1 .. Len(s) /\ s[i] \in T
    OBVIOUS
  <2> QED BY <1>2, <1>3, <2>1
<1>5. p \in [1 .. m -> T]
  BY <1>3, <1>4
<1>6. p \in Seq(T) /\ Len(p) = m
  BY <1>2, <1>5
<1>7. Range(p) = {s[i] : i \in S}
  <2>1. \A x : x \in Range(p) <=> \E k \in 1 .. m : p[k] = x
    BY <1>6, RangeIs
  <2>2. \A x : x \in Range(p) => \E i \in S : s[i] = x
    <3>1. SUFFICES ASSUME NEW k \in 1 .. m PROVE \E i \in S : s[i] = p[k]
      BY <2>1
    <3>2. a[k] \in S /\ p[k] = s[a[k]]
      BY <1>2, <1>4
    <3> QED BY <3>2
  <2>3. \A i \in S : s[i] \in Range(p)
    <3>1. SUFFICES ASSUME NEW i \in S PROVE s[i] \in Range(p)
      OBVIOUS
    <3>2. Rank(S, i) \in 1 .. m /\ p[Rank(S, i)] = s[i]
      BY <1>2, <1>4
    <3> QED BY <2>1, <3>2
  <2> QED BY <2>2, <2>3
<1> QED BY <1>1, <1>2, <1>6, <1>7 DEF p, m

------------------------------------------------------------------------------
(* One part for each thing                                                 *)

LEMMA SameThingIs ==
  /\ \A p : SameThing(p, p)
  /\ \A p, q : SameThing(p, q) => SameThing(q, p)
  /\ \A p, q, r : SameThing(p, q) /\ SameThing(q, r) => SameThing(p, r)
  /\ \A p, q : SameThing(p, q) => p.kind = q.kind
BY DEF SameThing

LEMMA KeyedMember ==
  ASSUME NEW T, NEW s \in Seq(T), NEW K, Keyed(s, K),
         NEW p \in Range(s), NEW q \in Range(s), p.kind \in K, SameThing(p, q)
  PROVE  p = q
<1>1. PICK i \in 1 .. Len(s) : s[i] = p
  BY RangeIs
<1>2. PICK j \in 1 .. Len(s) : s[j] = q
  BY RangeIs
<1>3. DOMAIN s = 1 .. Len(s)
  OBVIOUS
<1>4. i = j
  BY <1>1, <1>2, <1>3 DEF Keyed
<1> QED BY <1>1, <1>2, <1>4

LEMMA KeyedLess ==
  ASSUME NEW s, NEW K, NEW L, Keyed(s, K), L \subseteq K
  PROVE  Keyed(s, L)
BY DEF Keyed

LEMMA KeyedAlike ==
  ASSUME NEW s, NEW t, NEW K, Keyed(s, K), DOMAIN t = DOMAIN s,
         \A i \in DOMAIN s : SameThing(s[i], t[i])
  PROVE  Keyed(t, K)
<1>1. SUFFICES ASSUME NEW i \in DOMAIN s, NEW j \in DOMAIN s, t[i].kind \in K, SameThing(t[i], t[j])
               PROVE i = j
  BY DEF Keyed
<1>2. SameThing(s[i], t[i]) /\ SameThing(s[j], t[j])
  OBVIOUS
<1>3. SameThing(s[i], s[j]) /\ s[i].kind = t[i].kind
  BY <1>1, <1>2, SameThingIs
<1> QED BY <1>1, <1>3 DEF Keyed

LEMMA KeyedReplace ==
  ASSUME NEW T, NEW s \in Seq(T), NEW e \in T, NEW k \in 1 .. Len(s), NEW K, Keyed(s, K),
         SameThing(s[k], e)
  PROVE  /\ ReplaceAt(s, k, e) \in Seq(T) /\ Keyed(ReplaceAt(s, k, e), K)
         /\ e.kind \in K => Range(ReplaceAt(s, k, e)) = (Range(s) \ {s[k]}) \union {e}
<1> DEFINE t == ReplaceAt(s, k, e)
<1>1. /\ t \in Seq(T) /\ Len(t) = Len(s) /\ DOMAIN s = 1 .. Len(s) /\ DOMAIN t = 1 .. Len(s)
      /\ \A i \in 1 .. Len(s) : t[i] = IF i = k THEN e ELSE s[i]
  <2>1. t \in Seq(T) /\ Len(t) = Len(s)
    BY ReplaceIs
  <2>2. \A i \in 1 .. Len(s) : t[i] = IF i = k THEN e ELSE s[i]
    BY ReplaceIs
  <2> HIDE DEF t
  <2> QED BY <2>1, <2>2
<1> HIDE DEF t
<1>2. \A i \in 1 .. Len(s) : SameThing(s[i], t[i])
  BY <1>1, SameThingIs
<1>3. Keyed(t, K)
  BY <1>1, <1>2, KeyedAlike
<1>4. ASSUME e.kind \in K PROVE Range(t) = (Range(s) \ {s[k]}) \union {e}
  <2>1. s[k].kind \in K
    BY <1>4, SameThingIs
  <2>2. \A i \in 1 .. Len(s) : i # k => s[i] # s[k]
    BY <1>1, <2>1, SameThingIs DEF Keyed
  <2>3. \A x : x \in Range(t) <=> \E i \in 1 .. Len(s) : t[i] = x
    BY <1>1, RangeIs
  <2>4. \A x : x \in Range(s) <=> \E i \in 1 .. Len(s) : s[i] = x
    BY RangeIs
  <2>5. \A x : x \in Range(t) => x \in (Range(s) \ {s[k]}) \union {e}
    <3>1. SUFFICES ASSUME NEW i \in 1 .. Len(s) PROVE t[i] \in (Range(s) \ {s[k]}) \union {e}
      BY <2>3
    <3>2. s[i] \in Range(s)
      BY <2>4
    <3> QED BY <1>1, <2>2, <3>2
  <2>6. \A x : x \in Range(s) /\ x # s[k] => x \in Range(t)
    <3>1. SUFFICES ASSUME NEW i \in 1 .. Len(s), s[i] # s[k] PROVE s[i] \in Range(t)
      BY <2>4
    <3>2. t[i] = s[i]
      BY <1>1, <3>1
    <3> QED BY <2>3, <3>2
  <2>7. e \in Range(t)
    BY <1>1, <2>3
  <2> QED BY <2>5, <2>6, <2>7
<1> QED BY <1>1, <1>3, <1>4 DEF t

LEMMA KeyedPut ==
  ASSUME NEW T, NEW s \in Seq(T), NEW e \in T, NEW k \in 0 .. Len(s), NEW K, Keyed(s, K),
         e.kind \in K => \A q \in Range(s) : ~SameThing(q, e)
  PROVE  Keyed(PutBefore(s, k, e), K)
<1> DEFINE p == PutBefore(s, k, e)
<1>1. PICK at \in 1 .. Len(s) + 1 :
        /\ Len(p) = Len(s) + 1
        /\ \A i \in 1 .. Len(s) + 1 : p[i] =
             IF i < at THEN s[i] ELSE IF i = at THEN e ELSE s[i - 1]
  BY PutIs
<1>2. p \in Seq(T)
  BY PutIs
<1> HIDE DEF p
<1>3. DOMAIN p = 1 .. Len(s) + 1 /\ DOMAIN s = 1 .. Len(s) /\ Len(s) \in Nat
  BY <1>1, <1>2
<1> DEFINE old(i) == IF i < at THEN i ELSE i - 1
<1>4. \A i \in 1 .. Len(s) + 1 : i # at => old(i) \in 1 .. Len(s) /\ p[i] = s[old(i)]
  BY <1>1, <1>3
<1>5. p[at] = e
  BY <1>1
<1>6. \A i, j \in 1 .. Len(s) + 1 : i # at /\ j # at /\ old(i) = old(j) => i = j
  BY <1>3
<1> HIDE DEF old
<1>7. \A i \in 1 .. Len(s) + 1 : i # at => p[i] \in Range(s)
  BY <1>4, RangeIs
<1>8. SUFFICES ASSUME NEW i \in 1 .. Len(s) + 1, NEW j \in 1 .. Len(s) + 1,
                      p[i].kind \in K, SameThing(p[i], p[j])
               PROVE i = j
  BY <1>3 DEF Keyed, p
<1>9. CASE i # at /\ j # at
  <2>1. old(i) = old(j)
    BY <1>3, <1>4, <1>8, <1>9 DEF Keyed
  <2> QED BY <1>6, <1>9, <2>1
<1>10. CASE i = at /\ j # at
  <2>1. p[j] \in Range(s) /\ SameThing(p[j], e) /\ e.kind \in K
    BY <1>5, <1>7, <1>8, <1>10, SameThingIs
  <2> QED BY <2>1
<1>11. CASE i # at /\ j = at
  <2>1. p[i] \in Range(s) /\ SameThing(p[i], e) /\ e.kind \in K
    BY <1>5, <1>7, <1>8, <1>11, SameThingIs
  <2> QED BY <2>1
<1> QED BY <1>9, <1>10, <1>11

LEMMA KeyedAppend ==
  ASSUME NEW T, NEW s \in Seq(T), NEW e \in T, NEW K, Keyed(s, K),
         e.kind \in K => \A q \in Range(s) : ~SameThing(q, e)
  PROVE  Keyed(Append(s, e), K)
<1>1. 0 \in 0 .. Len(s) /\ PutBefore(s, 0, e) = Append(s, e)
  BY DEF PutBefore
<1> QED BY <1>1, KeyedPut

LEMMA KeyedConcat ==
  ASSUME NEW T, NEW s \in Seq(T), NEW t \in Seq(T), NEW K, Keyed(s, K), Keyed(t, K),
         \A p \in Range(s), q \in Range(t) : p.kind \in K => ~SameThing(p, q)
  PROVE  Keyed(s \o t, K)
<1> DEFINE a == s \o t
<1>1. /\ a \in Seq(T) /\ Len(a) = Len(s) + Len(t)
      /\ \A i \in 1 .. Len(s) : a[i] = s[i]
      /\ \A i \in 1 .. Len(t) : a[Len(s) + i] = t[i]
  BY ConcatIs
<1> HIDE DEF a
<1>2. /\ DOMAIN a = 1 .. Len(s) + Len(t) /\ DOMAIN s = 1 .. Len(s) /\ DOMAIN t = 1 .. Len(t)
      /\ Len(s) \in Nat /\ Len(t) \in Nat
  BY <1>1
<1> DEFINE late(i) == i - Len(s)
<1>3. \A i \in DOMAIN a : i \in 1 .. Len(s) \/ (late(i) \in 1 .. Len(t) /\ Len(s) + late(i) = i)
  BY <1>2
<1>4. \A i \in DOMAIN a : late(i) \in 1 .. Len(t) /\ Len(s) + late(i) = i => a[i] = t[late(i)]
  BY <1>1
<1>5. \A i, j \in DOMAIN a : late(i) = late(j) => i = j
  BY <1>2
<1> HIDE DEF late
<1>6. SUFFICES ASSUME NEW i \in DOMAIN a, NEW j \in DOMAIN a, a[i].kind \in K, SameThing(a[i], a[j])
               PROVE i = j
  BY DEF Keyed, a
<1>7. CASE i \in 1 .. Len(s) /\ j \in 1 .. Len(s)
  BY <1>1, <1>2, <1>6, <1>7 DEF Keyed
<1>8. CASE i \in 1 .. Len(s) /\ j \notin 1 .. Len(s)
  <2>1. a[i] \in Range(s)
    BY <1>1, <1>8, RangeIs
  <2>2. a[j] = t[late(j)] /\ late(j) \in 1 .. Len(t)
    BY <1>3, <1>4, <1>8
  <2>3. a[j] \in Range(t)
    BY <2>2, RangeIs
  <2> QED BY <1>6, <2>1, <2>3
<1>9. CASE i \notin 1 .. Len(s) /\ j \in 1 .. Len(s)
  <2>1. a[j] \in Range(s) /\ a[j].kind \in K /\ SameThing(a[j], a[i])
    BY <1>1, <1>6, <1>9, RangeIs, SameThingIs
  <2>2. a[i] = t[late(i)] /\ late(i) \in 1 .. Len(t)
    BY <1>3, <1>4, <1>9
  <2>3. a[i] \in Range(t)
    BY <2>2, RangeIs
  <2> QED BY <2>1, <2>3
<1>10. CASE i \notin 1 .. Len(s) /\ j \notin 1 .. Len(s)
  <2>1. /\ a[i] = t[late(i)] /\ late(i) \in 1 .. Len(t)
        /\ a[j] = t[late(j)] /\ late(j) \in 1 .. Len(t)
    BY <1>3, <1>4, <1>10
  <2>2. late(i) = late(j)
    BY <1>2, <1>6, <2>1 DEF Keyed
  <2> QED BY <1>5, <2>2
<1> QED BY <1>7, <1>8, <1>9, <1>10

LEMMA KeyedPicked ==
  ASSUME NEW T, NEW s \in Seq(T), NEW S, S \subseteq 1 .. Len(s), NEW K, Keyed(s, K)
  PROVE  Keyed(Picked(s, S), K)
<1> DEFINE p == Picked(s, S)
           m == Cardinality(S)
           a == Ascending(S)
<1>1. p \in Seq(T) /\ Len(p) = m /\ S \subseteq Nat /\ IsFiniteSet(S)
  <2>1. S \subseteq Nat
    OBVIOUS
  <2> QED BY <2>1, PickedIs
<1>a. \A k \in 1 .. m : p[k] = s[a[k]]
  BY DEF Picked
<1>b. \A k \in 1 .. m : a[k] \in S /\ Rank(S, a[k]) = k
  BY <1>1, AscendingIs
<1> HIDE DEF p, m, a
<1>2. DOMAIN p = 1 .. m /\ DOMAIN s = 1 .. Len(s)
  BY <1>1
<1>3. SUFFICES ASSUME NEW k \in 1 .. m, NEW l \in 1 .. m, p[k].kind \in K, SameThing(p[k], p[l])
               PROVE k = l
  BY <1>2 DEF Keyed, p
<1>4. a[k] \in DOMAIN s /\ a[l] \in DOMAIN s /\ p[k] = s[a[k]] /\ p[l] = s[a[l]]
  BY <1>2, <1>a, <1>b
<1>5. a[k] = a[l]
  BY <1>3, <1>4 DEF Keyed
<1> QED BY <1>5, <1>b

------------------------------------------------------------------------------
(* Frame by frame, block by block, part by part                            *)

ShownBy(g, parts, frames, n) ==
  g = [i \in 0 .. n |-> IF i = 0 THEN parts ELSE Folded(g[i - 1], frames[i])]

(* What is defined by recursion over frames exists.                        *)
LEMMA ShownExists ==
  ASSUME NEW parts, NEW frames, NEW n \in Nat
  PROVE  \E g : ShownBy(g, parts, frames, n)
<1> DEFINE Step(g, i) == IF i = 0 THEN parts ELSE Folded(g[i - 1], frames[i])
           Upto(j) == \E g : g = [i \in 0 .. j |-> Step(g, i)]
           Good == {j \in Nat : Upto(j)}
<1>1. 0 \in Good
  <2> DEFINE g == [i \in 0 .. 0 |-> parts]
  <2>1. \A i \in 0 .. 0 : Step(g, i) = parts
    OBVIOUS
  <2>2. g = [i \in 0 .. 0 |-> Step(g, i)]
    <3> HIDE DEF Step
    <3> QED BY <2>1
  <2> HIDE DEF g
  <2> QED BY <2>2
<1>2. ASSUME NEW j \in Nat, j \in Good PROVE j + 1 \in Good
  <2>1. PICK h : h = [i \in 0 .. j |-> Step(h, i)]
    <3> HIDE DEF Step
    <3> QED BY <1>2
  <2> DEFINE last == Folded(h[j], frames[j + 1])
             g == [i \in 0 .. j + 1 |-> IF i = j + 1 THEN last ELSE h[i]]
  <2>2. \A i \in 0 .. j : g[i] = h[i]
    OBVIOUS
  <2>3. g[j + 1] = last /\ g[(j + 1) - 1] = h[j]
    OBVIOUS
  <2>4. \A i \in 0 .. j : i # 0 => g[i - 1] = h[i - 1]
    BY <2>2
  <2> HIDE DEF g
  <2>5. \A i \in 0 .. j : g[i] = Step(g, i)
    <3>1. \A i \in 0 .. j : Step(g, i) = Step(h, i)
      BY <2>4
    <3>2. \A i \in 0 .. j : h[i] = Step(h, i)
      <4> HIDE DEF Step
      <4> QED BY <2>1
    <3> HIDE DEF Step
    <3> QED BY <2>2, <3>1, <3>2
  <2>6. g[j + 1] = Step(g, j + 1)
    BY <2>3
  <2>7. \A i \in 0 .. j + 1 : i \in 0 .. j \/ i = j + 1
    OBVIOUS
  <2>8. g = [i \in 0 .. j + 1 |-> Step(g, i)]
    <3> HIDE DEF Step
    <3>1. \A i \in 0 .. j + 1 : g[i] = Step(g, i)
      BY <2>5, <2>6, <2>7
    <3>2. g = [i \in 0 .. j + 1 |-> g[i]]
      BY DEF g
    <3> QED BY <3>1, <3>2
  <2>9. Upto(j + 1)
    <3> HIDE DEF Step
    <3> QED BY <2>8
  <2> HIDE DEF Upto
  <2> QED BY <2>9
<1>3. \A j \in Nat : j \in Good
  <2> HIDE DEF Good
  <2> QED BY <1>1, <1>2, SetInduction
<1>4. Upto(n)
  <2> HIDE DEF Upto
  <2> QED BY <1>3
<1> HIDE DEF Step
<1>5. PICK g : g = [i \in 0 .. n |-> Step(g, i)]
  BY <1>4
<1>6. ShownBy(g, parts, frames, n)
  BY <1>5 DEF ShownBy, Step
<1> QED BY <1>6

(* What holds of a bubble, and is handed on by each frame, holds of what   *)
(* is shown after them.                                                    *)
LEMMA ShownIn ==
  ASSUME NEW parts, NEW frames, Len(frames) \in Nat, NEW Ch,
         parts \in Ch[0],
         \A i \in 1 .. Len(frames) : \A b \in Ch[i - 1] : Folded(b, frames[i]) \in Ch[i]
  PROVE  Shown(parts, frames) \in Ch[Len(frames)]
<1> DEFINE m == Len(frames)
           Eq(g) == ShownBy(g, parts, frames, m)
           through == CHOOSE g : Eq(g)
<1>1. Shown(parts, frames) = through[m]
  BY DEF Shown, ShownBy
<1>2. m \in Nat
  OBVIOUS
<1>3. \E g : Eq(g)
  <2> HIDE DEF m
  <2> QED BY <1>2, ShownExists
<1>4. Eq(through)
  <2> HIDE DEF Eq
  <2> QED BY <1>3
<1> HIDE DEF through
<1> DEFINE Good == {n \in Nat : n <= m => through[n] \in Ch[n]}
<1>5. 0 \in Good
  <2>1. through[0] = parts
    BY <1>2, <1>4 DEF ShownBy
  <2> QED BY <2>1
<1>6. ASSUME NEW n \in Nat, n \in Good PROVE n + 1 \in Good
  <2>1. SUFFICES ASSUME n + 1 <= m PROVE through[n + 1] \in Ch[n + 1]
    OBVIOUS
  <2>2. through[n] \in Ch[n] /\ n + 1 \in 1 .. m /\ n + 1 \in 0 .. m /\ n + 1 # 0 /\ (n + 1) - 1 = n
    BY <1>2, <1>6, <2>1
  <2>3. through[n + 1] = Folded(through[n], frames[n + 1])
    <3> HIDE DEF m
    <3> QED BY <1>4, <2>2 DEF ShownBy
  <2> QED BY <2>2, <2>3
<1>7. \A n \in Nat : n \in Good
  <2> HIDE DEF Good
  <2> QED BY <1>5, <1>6, SetInduction
<1> QED BY <1>1, <1>2, <1>7

(* What is defined by recursion over the blocks of a message exists.       *)
LEMMA BuiltExists ==
  ASSUME NEW m, NEW n \in Nat
  PROVE  \E g : g = [i \in 0 .. n |-> IF i = 0 THEN [m |-> m, parts |-> <<>>] ELSE Finalized(g[i - 1], i)]
<1> DEFINE Step(g, i) == IF i = 0 THEN [m |-> m, parts |-> <<>>] ELSE Finalized(g[i - 1], i)
           Upto(j) == \E g : g = [i \in 0 .. j |-> Step(g, i)]
           Good == {j \in Nat : Upto(j)}
<1>1. 0 \in Good
  <2> DEFINE g == [i \in 0 .. 0 |-> [m |-> m, parts |-> <<>>]]
  <2>1. \A i \in 0 .. 0 : Step(g, i) = [m |-> m, parts |-> <<>>]
    OBVIOUS
  <2>2. g = [i \in 0 .. 0 |-> Step(g, i)]
    <3> HIDE DEF Step
    <3> QED BY <2>1
  <2> HIDE DEF g
  <2> QED BY <2>2
<1>2. ASSUME NEW j \in Nat, j \in Good PROVE j + 1 \in Good
  <2>1. PICK h : h = [i \in 0 .. j |-> Step(h, i)]
    <3> HIDE DEF Step
    <3> QED BY <1>2
  <2> DEFINE last == Finalized(h[j], j + 1)
             g == [i \in 0 .. j + 1 |-> IF i = j + 1 THEN last ELSE h[i]]
  <2>2. \A i \in 0 .. j : g[i] = h[i]
    OBVIOUS
  <2>3. g[j + 1] = last /\ g[(j + 1) - 1] = h[j]
    OBVIOUS
  <2>4. \A i \in 0 .. j : i # 0 => g[i - 1] = h[i - 1]
    BY <2>2
  <2> HIDE DEF g
  <2>5. \A i \in 0 .. j : g[i] = Step(g, i)
    <3>1. \A i \in 0 .. j : Step(g, i) = Step(h, i)
      BY <2>4
    <3>2. \A i \in 0 .. j : h[i] = Step(h, i)
      <4> HIDE DEF Step
      <4> QED BY <2>1
    <3> HIDE DEF Step
    <3> QED BY <2>2, <3>1, <3>2
  <2>6. g[j + 1] = Step(g, j + 1)
    BY <2>3
  <2>7. \A i \in 0 .. j + 1 : i \in 0 .. j \/ i = j + 1
    OBVIOUS
  <2>8. g = [i \in 0 .. j + 1 |-> Step(g, i)]
    <3> HIDE DEF Step
    <3>1. \A i \in 0 .. j + 1 : g[i] = Step(g, i)
      BY <2>5, <2>6, <2>7
    <3>2. g = [i \in 0 .. j + 1 |-> g[i]]
      BY DEF g
    <3> QED BY <3>1, <3>2
  <2>9. Upto(j + 1)
    <3> HIDE DEF Step
    <3> QED BY <2>8
  <2> HIDE DEF Upto
  <2> QED BY <2>9
<1>3. \A j \in Nat : j \in Good
  <2> HIDE DEF Good
  <2> QED BY <1>1, <1>2, SetInduction
<1> QED BY <1>3

(* So for what is built from the blocks of a message.                      *)
LEMMA BuiltSteps ==
  ASSUME NEW s, Len(s.message) \in Nat
  PROVE  \E g : /\ g[0] = [m |-> s, parts |-> <<>>]
                /\ \A i \in 1 .. Len(s.message) : g[i] = Finalized(g[i - 1], i)
                /\ Building(s) = g[Len(s.message)]
<1> DEFINE n == Len(s.message)
           Eq(g) == g = [i \in 0 .. n |->
               IF i = 0 THEN [m |-> s, parts |-> <<>>] ELSE Finalized(g[i - 1], i)]
           through == CHOOSE g : Eq(g)
<1>1. Building(s) = through[n]
  BY DEF Building
<1>2. n \in Nat
  OBVIOUS
<1>3. \E g : Eq(g)
  <2> HIDE DEF n
  <2> QED BY <1>2, BuiltExists
<1>4. Eq(through)
  <2> HIDE DEF Eq
  <2> QED BY <1>3
<1> HIDE DEF through, n
<1>5. through[0] = [m |-> s, parts |-> <<>>]
  BY <1>2, <1>4
<1>6. \A i \in 1 .. n : through[i] = Finalized(through[i - 1], i)
  BY <1>2, <1>4
<1> QED BY <1>1, <1>5, <1>6 DEF n

WovenBy(g, streamed, final, n) ==
  g = [i \in 0 .. n |-> IF i = 0 THEN <<>> ELSE Append(g[i - 1] \o Carried(streamed, final, i), final[i])]

(* What is defined by recursion over the parts of `done` exists.           *)
LEMMA WovenExists ==
  ASSUME NEW streamed, NEW final, NEW n \in Nat
  PROVE  \E g : WovenBy(g, streamed, final, n)
<1> DEFINE Step(g, i) == IF i = 0 THEN <<>> ELSE Append(g[i - 1] \o Carried(streamed, final, i), final[i])
           Upto(j) == \E g : g = [i \in 0 .. j |-> Step(g, i)]
           Good == {j \in Nat : Upto(j)}
<1>1. 0 \in Good
  <2> DEFINE g == [i \in 0 .. 0 |-> <<>>]
  <2>1. \A i \in 0 .. 0 : Step(g, i) = <<>>
    OBVIOUS
  <2>2. g = [i \in 0 .. 0 |-> Step(g, i)]
    <3> HIDE DEF Step
    <3> QED BY <2>1
  <2> HIDE DEF g
  <2> QED BY <2>2
<1>2. ASSUME NEW j \in Nat, j \in Good PROVE j + 1 \in Good
  <2>1. PICK h : h = [i \in 0 .. j |-> Step(h, i)]
    <3> HIDE DEF Step
    <3> QED BY <1>2
  <2> DEFINE last == Append(h[j] \o Carried(streamed, final, j + 1), final[j + 1])
             g == [i \in 0 .. j + 1 |-> IF i = j + 1 THEN last ELSE h[i]]
  <2>a. last = Append(h[j] \o Carried(streamed, final, j + 1), final[j + 1])
    OBVIOUS
  <2> HIDE DEF last
  <2>2. \A i \in 0 .. j : g[i] = h[i]
    OBVIOUS
  <2>b. j + 1 \in 0 .. j + 1 /\ (j + 1) - 1 = j /\ j \in 0 .. j /\ j + 1 # 0
    OBVIOUS
  <2>3. g[j + 1] = last /\ g[(j + 1) - 1] = h[j]
    BY <2>2, <2>b
  <2>4. \A i \in 0 .. j : i # 0 => g[i - 1] = h[i - 1]
    BY <2>2
  <2> HIDE DEF g
  <2>5. \A i \in 0 .. j : g[i] = Step(g, i)
    <3>1. \A i \in 0 .. j : Step(g, i) = Step(h, i)
      BY <2>4
    <3>2. \A i \in 0 .. j : h[i] = Step(h, i)
      <4> HIDE DEF Step
      <4> QED BY <2>1
    <3> HIDE DEF Step
    <3> QED BY <2>2, <3>1, <3>2
  <2>6. g[j + 1] = Step(g, j + 1)
    BY <2>3, <2>a, <2>b
  <2>7. \A i \in 0 .. j + 1 : i \in 0 .. j \/ i = j + 1
    OBVIOUS
  <2>8. g = [i \in 0 .. j + 1 |-> Step(g, i)]
    <3> HIDE DEF Step
    <3>1. \A i \in 0 .. j + 1 : g[i] = Step(g, i)
      BY <2>5, <2>6, <2>7
    <3>2. g = [i \in 0 .. j + 1 |-> g[i]]
      BY DEF g
    <3> QED BY <3>1, <3>2
  <2>9. Upto(j + 1)
    <3> HIDE DEF Step
    <3> QED BY <2>8
  <2> HIDE DEF Upto
  <2> QED BY <2>9
<1>3. \A j \in Nat : j \in Good
  <2> HIDE DEF Good
  <2> QED BY <1>1, <1>2, SetInduction
<1>4. Upto(n)
  <2> HIDE DEF Upto
  <2> QED BY <1>3
<1> HIDE DEF Step
<1>5. PICK g : g = [i \in 0 .. n |-> Step(g, i)]
  BY <1>4
<1>6. WovenBy(g, streamed, final, n)
  BY <1>5 DEF WovenBy, Step
<1> QED BY <1>6

(* So for what is woven of a bubble and the parts of `done`.               *)
LEMMA WovenIn ==
  ASSUME NEW streamed, NEW final, Len(final) \in Nat, NEW Ch,
         <<>> \in Ch[0],
         \A i \in 1 .. Len(final) :
             \A b \in Ch[i - 1] : Append(b \o Carried(streamed, final, i), final[i]) \in Ch[i]
  PROVE  Weaving(streamed, final) \in Ch[Len(final)]
<1> DEFINE m == Len(final)
           Eq(g) == WovenBy(g, streamed, final, m)
           through == CHOOSE g : Eq(g)
<1>1. Weaving(streamed, final) = through[m]
  BY DEF Weaving, WovenBy
<1>2. m \in Nat
  OBVIOUS
<1>3. \E g : Eq(g)
  <2> HIDE DEF m
  <2> QED BY <1>2, WovenExists
<1>4. Eq(through)
  <2> HIDE DEF Eq
  <2> QED BY <1>3
<1> HIDE DEF through
<1> DEFINE Good == {n \in Nat : n <= m => through[n] \in Ch[n]}
<1>5. 0 \in Good
  <2>1. through[0] = <<>>
    BY <1>2, <1>4 DEF WovenBy
  <2> QED BY <2>1
<1>6. ASSUME NEW n \in Nat, n \in Good PROVE n + 1 \in Good
  <2>1. SUFFICES ASSUME n + 1 <= m PROVE through[n + 1] \in Ch[n + 1]
    OBVIOUS
  <2>2. through[n] \in Ch[n] /\ n + 1 \in 1 .. m /\ n + 1 \in 0 .. m /\ n + 1 # 0 /\ (n + 1) - 1 = n
    BY <1>2, <1>6, <2>1
  <2>3. through[n + 1] = Append(through[n] \o Carried(streamed, final, n + 1), final[n + 1])
    <3> HIDE DEF m
    <3> QED BY <1>4, <2>2 DEF WovenBy
  <2> QED BY <2>2, <2>3
<1>7. \A n \in Nat : n \in Good
  <2> HIDE DEF Good
  <2> QED BY <1>5, <1>6, SetInduction
<1> QED BY <1>1, <1>2, <1>7

LEMMA ShownSteps ==
  ASSUME NEW parts, NEW frames, Len(frames) \in Nat
  PROVE  \E g : /\ g[0] = parts
                /\ \A i \in 1 .. Len(frames) : g[i] = Folded(g[i - 1], frames[i])
                /\ Shown(parts, frames) = g[Len(frames)]
<1> DEFINE m == Len(frames)
<1>1. PICK g : ShownBy(g, parts, frames, m)
  BY ShownExists
<1>2. g[0] = parts
  BY <1>1 DEF ShownBy
<1>3. \A i \in 1 .. m : g[i] = Folded(g[i - 1], frames[i])
  BY <1>1 DEF ShownBy
<1> DEFINE Ch == [i \in 0 .. m |-> {g[i]}]
<1>4. \A i \in 0 .. m : Ch[i] = {g[i]}
  OBVIOUS
<1> HIDE DEF Ch
<1>5. 0 \in 0 .. m /\ m \in 0 .. m /\ \A i \in 1 .. m : i \in 0 .. m /\ i - 1 \in 0 .. m
  OBVIOUS
<1>6. parts \in Ch[0]
  BY <1>2, <1>4, <1>5
<1>7. \A i \in 1 .. m : \A b \in Ch[i - 1] : Folded(b, frames[i]) \in Ch[i]
  BY <1>3, <1>4, <1>5
<1>8. Shown(parts, frames) \in Ch[m]
  BY <1>6, <1>7, ShownIn
<1>9. Shown(parts, frames) = g[m]
  BY <1>4, <1>5, <1>8
<1> QED BY <1>2, <1>3, <1>9

(* The frames of an event, one at a time.                                  *)
LEMMA ShownNone ==
  ASSUME NEW parts
  PROVE  Shown(parts, <<>>) = parts
<1>1. Len(<<>>) = 0
  OBVIOUS
<1>2. PICK g : g[0] = parts /\ Shown(parts, <<>>) = g[0]
  BY <1>1, ShownSteps
<1> QED BY <1>2

LEMMA ShownAppend ==
  ASSUME NEW parts, NEW F, NEW frames \in Seq(F), NEW f \in F
  PROVE  Shown(parts, Append(frames, f)) = Folded(Shown(parts, frames), f)
<1> DEFINE m == Len(frames)
           more == Append(frames, f)
           end == Folded(Shown(parts, frames), f)
<1>1. /\ m \in Nat /\ Len(more) = m + 1
      /\ \A i \in 1 .. m : more[i] = frames[i]
      /\ more[m + 1] = f
  BY AppendIs
<1>2. PICK g : /\ g[0] = parts
               /\ \A i \in 1 .. m : g[i] = Folded(g[i - 1], frames[i])
               /\ Shown(parts, frames) = g[m]
  BY <1>1, ShownSteps
<1> DEFINE Ch == [i \in 0 .. m + 1 |-> IF i = m + 1 THEN {end} ELSE {g[i]}]
<1> HIDE DEF more, end, m
<1>3. \A i \in 0 .. m : Ch[i] = {g[i]}
  BY <1>1
<1>4. Ch[m + 1] = {end}
  BY <1>1
<1> HIDE DEF Ch
<1>5. /\ 0 \in 0 .. m /\ m \in 0 .. m /\ (m + 1) - 1 = m
      /\ \A i \in 1 .. m : i \in 0 .. m /\ i - 1 \in 0 .. m
      /\ \A i \in 1 .. m + 1 : i \in 1 .. m \/ i = m + 1
  BY <1>1
<1>6. parts \in Ch[0]
  BY <1>2, <1>3, <1>5
<1>7. ASSUME NEW i \in 1 .. Len(more) PROVE \A b \in Ch[i - 1] : Folded(b, more[i]) \in Ch[i]
  <2>1. CASE i \in 1 .. m
    <3>1. Ch[i - 1] = {g[i - 1]} /\ Ch[i] = {g[i]}
      BY <1>3, <1>5, <2>1
    <3>2. Folded(g[i - 1], more[i]) = g[i]
      BY <1>1, <1>2, <2>1
    <3> QED BY <3>1, <3>2
  <2>2. CASE i = m + 1
    <3>1. Ch[i - 1] = {Shown(parts, frames)}
      BY <1>2, <1>3, <1>5, <2>2
    <3> QED BY <1>1, <1>4, <2>2, <3>1 DEF end
  <2> QED BY <1>1, <1>5, <2>1, <2>2
<1>8. Shown(parts, more) \in Ch[Len(more)]
  <2>1. Len(more) \in Nat
    BY <1>1
  <2> QED BY <1>6, <1>7, <2>1, ShownIn
<1> QED BY <1>1, <1>4, <1>8 DEF more, end

LEMMA ShownOne ==
  ASSUME NEW parts, NEW f
  PROVE  Shown(parts, <<f>>) = Folded(parts, f)
<1>1. <<>> \in Seq({f}) /\ Append(<<>>, f) = <<f>>
  OBVIOUS
<1>2. Shown(parts, Append(<<>>, f)) = Folded(Shown(parts, <<>>), f)
  BY <1>1, ShownAppend
<1> QED BY <1>1, <1>2, ShownNone

LEMMA ShownBoth ==
  ASSUME NEW parts, NEW e, NEW f
  PROVE  Shown(parts, Append(<<e>>, f)) = Folded(Folded(parts, e), f)
<1> DEFINE F == {e, f}
<1>1. <<e>> \in Seq(F) /\ f \in F
  OBVIOUS
<1> HIDE DEF F
<1>2. Shown(parts, Append(<<e>>, f)) = Folded(Shown(parts, <<e>>), f)
  BY <1>1, ShownAppend
<1> QED BY <1>2, ShownOne

LEMMA ShownTwo ==
  ASSUME NEW parts, NEW e, NEW f
  PROVE  Shown(parts, <<e, f>>) = Folded(Folded(parts, e), f)
<1> DEFINE F == {e, f}
           a == Append(<<e>>, f)
           c == <<e, f>>
<1>1. e \in F /\ f \in F
  OBVIOUS
<1> HIDE DEF F
<1>2. <<e>> \in Seq(F) /\ Len(<<e>>) = 1 /\ <<e>>[1] = e
  BY <1>1
<1>3. a \in Seq(F) /\ Len(a) = 2 /\ a[1] = e /\ a[2] = f
  BY <1>1, <1>2, AppendIs
<1>4. c \in Seq(F) /\ Len(c) = 2 /\ c[1] = e /\ c[2] = f
  BY <1>1
<1> HIDE DEF a, c
<1>5. a = c
  BY <1>3, <1>4
<1>6. Shown(parts, a) = Folded(Folded(parts, e), f)
  BY ShownBoth DEF a
<1>7. Shown(parts, c) = Folded(Folded(parts, e), f)
  BY <1>5, <1>6
<1> QED BY <1>7 DEF c

------------------------------------------------------------------------------
(* The parts                                                               *)

LEMMA KindsOfParts ==
  /\ \A p \in TextParts : p.kind = "text" /\ p.text \in Seq(Nat)
  /\ \A p \in ReasoningParts : /\ p.kind = "reasoning" /\ p.index \in Nat /\ p.text \in Seq(Nat)
                               /\ p.state \in {"streaming", "complete"}
                               /\ p = ReasoningPart(p.index, p.text, p.state)
  /\ \A p \in CallParts : /\ p.kind = "tool" /\ p.n \in Nat /\ p.named = TRUE
                          /\ p.state \in {"running", "available", "error"}
                          /\ p = ToolPart(p.n, TRUE, p.state)
  /\ SummaryPart.kind = "summary" /\ ErrorPart.kind = "error"
<1>1. \A p \in TextParts : p.kind = "text" /\ p.text \in Seq(Nat)
  BY DEF TextParts
<1>2. \A p \in ReasoningParts : /\ p.kind = "reasoning" /\ p.index \in Nat /\ p.text \in Seq(Nat)
                                 /\ p.state \in {"streaming", "complete"}
                                 /\ p = ReasoningPart(p.index, p.text, p.state)
  BY DEF ReasoningParts, ReasoningPart
<1>3. \A p \in CallParts : /\ p.kind = "tool" /\ p.n \in Nat /\ p.named = TRUE
                            /\ p.state \in {"running", "available", "error"}
                            /\ p = ToolPart(p.n, TRUE, p.state)
  <2>1. SUFFICES ASSUME NEW p \in CallParts
                 PROVE  /\ p.kind = "tool" /\ p.n \in Nat /\ p.named = TRUE
                        /\ p.state \in {"running", "available", "error"}
                        /\ p = ToolPart(p.n, TRUE, p.state)
    OBVIOUS
  <2>2. /\ p.kind = "tool" /\ p.n \in Nat /\ p.named = TRUE
        /\ p.state \in {"running", "available", "error"}
    BY DEF CallParts
  <2>3. p = [kind |-> p.kind, n |-> p.n, named |-> p.named, state |-> p.state]
    BY DEF CallParts
  <2> QED BY <2>2, <2>3 DEF ToolPart
<1>4. SummaryPart.kind = "summary" /\ ErrorPart.kind = "error"
  BY DEF SummaryPart, ErrorPart
<1> QED BY <1>1, <1>2, <1>3, <1>4

LEMMA PartsByKind ==
  ASSUME NEW p \in Parts
  PROVE  /\ p.kind \in {"text", "reasoning", "tool", "summary", "error"}
         /\ p.kind = "text" <=> p \in TextParts
         /\ p.kind = "reasoning" <=> p \in ReasoningParts
         /\ p.kind = "tool" <=> p \in CallParts
         /\ p.kind = "summary" <=> p = SummaryPart
         /\ p.kind = "error" <=> p = ErrorPart
BY KindsOfParts DEF Parts

LEMMA PartsMade ==
  /\ \A t \in Seq(Nat) : TextPart(t) \in TextParts /\ TextPart(t) \in Parts
  /\ \A i \in Nat, t \in Seq(Nat), s \in {"streaming", "complete"} :
       ReasoningPart(i, t, s) \in ReasoningParts /\ ReasoningPart(i, t, s) \in Parts
  /\ \A n \in Nat, s \in {"running", "available", "error"} :
       ToolPart(n, TRUE, s) \in CallParts /\ ToolPart(n, TRUE, s) \in Parts
  /\ SummaryPart \in Parts /\ ErrorPart \in Parts
BY DEF TextParts, ReasoningParts, CallParts, Parts, TextPart, ReasoningPart, ToolPart

LEMMA AtIs ==
  ASSUME NEW T, NEW s \in Seq(T), NEW kind
  PROVE  At(s, kind) \subseteq 1 .. Len(s)
    /\ \A i \in 1 .. Len(s) : i \in At(s, kind) <=> s[i].kind = kind
BY DEF At

------------------------------------------------------------------------------
(* The merge of `done` over a bubble                                       *)

Completed(p) == IF p.kind = "reasoning" THEN [p EXCEPT !.state = "complete"] ELSE p

KeptAt(s, final) == {i \in 1 .. Len(s) : Taken(s, final)[i] = 0 /\ s[i] # TextPart(<<>>)}

AnchorAt(s, final, i) ==
  LET later == {j \in 1 .. Len(s) : j > i /\ Taken(s, final)[j] # 0}
  IN  IF later = {} THEN Len(final) + 1 ELSE Taken(s, final)[Least(later)]

LEMMA CompletedIs ==
  ASSUME NEW p \in Parts
  PROVE  /\ Completed(p) \in Parts /\ Completed(p).kind = p.kind /\ SameThing(p, Completed(p))
         /\ p.kind = "reasoning" => /\ Completed(p).state = "complete"
                                    /\ Completed(p).text = p.text
                                    /\ Completed(p).index = p.index
<1>1. CASE p.kind # "reasoning"
  BY <1>1, SameThingIs DEF Completed
<1>2. CASE p.kind = "reasoning"
  <2>1. PICK i \in Nat, t \in Seq(Nat), e \in {"streaming", "complete"} : p = ReasoningPart(i, t, e)
    BY <1>2, PartsByKind, KindsOfParts
  <2>2. Completed(p) = ReasoningPart(i, t, "complete")
    BY <1>2, <2>1 DEF Completed, ReasoningPart
  <2>3. Completed(p) \in Parts
    BY <2>2, PartsMade
  <2> QED BY <1>2, <2>1, <2>2, <2>3 DEF ReasoningPart, SameThing
<1> QED BY <1>1, <1>2

LEMMA MatchesIs ==
  ASSUME NEW p \in Parts, NEW q \in Parts, p.kind \in Kinds
  PROVE  Matches(p, q) <=> SameThing(p, q)
<1>1. p.kind = "tool" => p.named = TRUE
  BY PartsByKind, KindsOfParts
<1>2. q.kind = "tool" => q.named = TRUE
  BY PartsByKind, KindsOfParts
<1> QED BY <1>1, <1>2 DEF Matches, SameThing, Kinds

(* A streamed part takes a part of `done` that matches it, or none; of a   *)
(* kind that has one part for each thing, it takes one if there is one.    *)
LEMMA TakenIs ==
  ASSUME NEW s \in Seq(Parts), NEW final \in Seq(Parts), NEW i \in 1 .. Len(s)
  PROVE  /\ Taken(s, final)[i] \in 0 .. Len(final)
         /\ \A K : K \subseteq Kinds /\ s[i].kind \in K /\ Keyed(s, K) =>
              (Taken(s, final)[i] = 0 <=> \A q \in Range(final) : ~SameThing(s[i], q))
<1> DEFINE before  == {j \in 1 .. i - 1 : Matches(s[j], s[i])}
           matches == {t \in DOMAIN final : Matches(s[i], final[t])}
           at == Taken(s, final)
<1>1. /\ DOMAIN s = 1 .. Len(s) /\ DOMAIN final = 1 .. Len(final)
      /\ Len(s) \in Nat /\ Len(final) \in Nat
  OBVIOUS
<1>2. at[i] = IF Cardinality(before) < Cardinality(matches)
              THEN Ascending(matches)[Cardinality(before) + 1] ELSE 0
  BY <1>1 DEF Taken
<1>3. matches \subseteq 1 .. Len(final) /\ before \subseteq 1 .. Len(s)
  BY <1>1
<1>4. matches \subseteq Nat /\ IsFiniteSet(matches) /\ IsFiniteSet(before)
  <2>1. IsFiniteSet(1 .. Len(final)) /\ IsFiniteSet(1 .. Len(s))
    BY <1>1, FS_Interval
  <2>2. 1 .. Len(final) \subseteq Nat
    OBVIOUS
  <2> HIDE DEF matches, before
  <2> QED BY <1>3, <2>1, <2>2, FS_Subset
<1>5. Cardinality(matches) \in Nat /\ Cardinality(before) \in Nat
  BY <1>4, FS_CardinalityType
<1>6. \A k \in 1 .. Cardinality(matches) : Ascending(matches)[k] \in matches
  BY <1>4, AscendingIs
<1>7. \A t \in matches : t \in 1 .. Len(final) /\ Matches(s[i], final[t])
  BY <1>1
<1>8. \A t \in 1 .. Len(final) : Matches(s[i], final[t]) => t \in matches
  BY <1>1
<1>9. \A j \in before : j \in 1 .. i - 1 /\ Matches(s[j], s[i])
  OBVIOUS
<1> HIDE DEF before, matches, at
<1>10. /\ at[i] = 0 \/ at[i] \in matches
       /\ Cardinality(before) < Cardinality(matches) => at[i] \in matches
  <2>1. CASE Cardinality(before) < Cardinality(matches)
    <3>1. Cardinality(before) + 1 \in 1 .. Cardinality(matches)
      BY <1>5, <2>1
    <3> QED BY <1>2, <1>6, <2>1, <3>1
  <2> QED BY <1>2, <2>1
<1>11. at[i] \in 0 .. Len(final)
  BY <1>1, <1>7, <1>10
<1>12. ASSUME NEW K, K \subseteq Kinds, s[i].kind \in K, Keyed(s, K)
       PROVE  at[i] = 0 <=> \A q \in Range(final) : ~SameThing(s[i], q)
  <2>1. s[i] \in Parts /\ s[i].kind \in Kinds
    BY <1>12
  <2>2. before = {}
    <3>1. SUFFICES ASSUME NEW j \in before PROVE FALSE
      OBVIOUS
    <3>2. j \in 1 .. i - 1 /\ j \in 1 .. Len(s) /\ j # i /\ Matches(s[j], s[i]) /\ s[j] \in Parts
      BY <1>1, <1>9
    <3>3. s[j].kind = s[i].kind
      BY <3>2 DEF Matches
    <3>4. SameThing(s[j], s[i])
      BY <2>1, <3>2, <3>3, MatchesIs
    <3> QED BY <1>1, <1>12, <3>2, <3>3, <3>4 DEF Keyed
  <2>3. Cardinality(before) = 0
    BY <2>2, FS_EmptySet
  <2>4. at[i] = 0 <=> matches = {}
    <3>1. Cardinality(matches) = 0 <=> matches = {}
      BY <1>4, FS_EmptySet
    <3>2. 0 \notin matches
      BY <1>7
    <3>3. matches # {} => Cardinality(before) < Cardinality(matches)
      BY <1>5, <2>3, <3>1
    <3> QED BY <1>10, <3>2, <3>3
  <2>5. \A t \in 1 .. Len(final) : Matches(s[i], final[t]) <=> SameThing(s[i], final[t])
    <3>1. \A t \in 1 .. Len(final) : final[t] \in Parts
      OBVIOUS
    <3> QED BY <2>1, <3>1, MatchesIs
  <2>6. matches = {} <=> \A t \in 1 .. Len(final) : ~SameThing(s[i], final[t])
    BY <1>7, <1>8, <2>5
  <2>7. \A q : q \in Range(final) <=> \E t \in 1 .. Len(final) : final[t] = q
    BY RangeIs
  <2> QED BY <2>4, <2>6, <2>7
<1> QED BY <1>11, <1>12 DEF at

(* What is carried to a position.                                          *)
CarriedTo(s, final, t) ==
  {Completed(s[i]) : i \in {j \in KeptAt(s, final) : AnchorAt(s, final, j) = t}}

LEMMA AnchorIs ==
  ASSUME NEW s \in Seq(Parts), NEW final \in Seq(Parts), NEW i \in 1 .. Len(s)
  PROVE  AnchorAt(s, final, i) \in 1 .. Len(final) + 1
<1> DEFINE later == {j \in 1 .. Len(s) : j > i /\ Taken(s, final)[j] # 0}
<1>1. AnchorAt(s, final, i) = IF later = {} THEN Len(final) + 1 ELSE Taken(s, final)[Least(later)]
  BY DEF AnchorAt
<1>2. Len(final) \in Nat /\ later \subseteq Nat /\ \A j \in later : j \in 1 .. Len(s)
        /\ Taken(s, final)[j] # 0
  OBVIOUS
<1> HIDE DEF later
<1>3. CASE later # {}
  <2>1. Least(later) \in later
    BY <1>2, <1>3, LeastIs
  <2>2. Taken(s, final)[Least(later)] \in 0 .. Len(final)
    BY <1>2, <2>1, TakenIs
  <2>3. Taken(s, final)[Least(later)] # 0
    BY <1>2, <2>1
  <2>4. AnchorAt(s, final, i) = Taken(s, final)[Least(later)]
    BY <1>1, <1>3
  <2>5. \A x \in 0 .. Len(final) : x # 0 => x \in 1 .. Len(final) + 1
    BY <1>2
  <2> QED BY <2>2, <2>3, <2>4, <2>5
<1> QED BY <1>1, <1>2, <1>3

(* The parts that are carried to a position.                               *)
LEMMA CarriedIs ==
  ASSUME NEW s \in Seq(Parts), NEW final \in Seq(Parts), NEW t,
         NEW K, Keyed(s, K)
  PROVE  /\ Carried(s, final, t) \in Seq(Parts) /\ Keyed(Carried(s, final, t), K)
         /\ Range(Carried(s, final, t)) = CarriedTo(s, final, t)
<1> DEFINE d == [i \in DOMAIN s |-> Completed(s[i])]
           S == {j \in KeptAt(s, final) : AnchorAt(s, final, j) = t}
<1>1. DOMAIN s = 1 .. Len(s) /\ Len(s) \in Nat /\ \A i \in 1 .. Len(s) : s[i] \in Parts
  OBVIOUS
<1>2. DOMAIN Taken(s, final) = 1 .. Len(s)
  BY <1>1 DEF Taken
<1>3. Carried(s, final, t) = Picked(d, S)
  BY <1>1, <1>2 DEF Carried, Completed, KeptAt, AnchorAt
<1>4. \A i \in 1 .. Len(s) : Completed(s[i]) \in Parts /\ SameThing(s[i], Completed(s[i]))
  BY <1>1, CompletedIs
<1>5. d \in Seq(Parts) /\ Len(d) = Len(s) /\ DOMAIN d = DOMAIN s
        /\ \A i \in 1 .. Len(s) : d[i] = Completed(s[i])
  BY <1>1, <1>4
<1>6. S \subseteq 1 .. Len(s)
  BY DEF KeptAt
<1> HIDE DEF d, S
<1>7. Keyed(d, K)
  BY <1>1, <1>4, <1>5, KeyedAlike
<1>8. Picked(d, S) \in Seq(Parts) /\ Range(Picked(d, S)) = {d[i] : i \in S}
  BY <1>5, <1>6, PickedIs
<1>9. Keyed(Picked(d, S), K)
  BY <1>5, <1>6, <1>7, KeyedPicked
<1>10. {d[i] : i \in S} = {Completed(s[i]) : i \in S}
  BY <1>5, <1>6
<1>11. CarriedTo(s, final, t) = {Completed(s[i]) : i \in S}
  BY DEF CarriedTo, S
<1> QED BY <1>3, <1>8, <1>9, <1>10, <1>11

(* The parts of `done` up to a position, and what is carried up to it.     *)
WovenTo(s, final, t) ==
  {final[u] : u \in 1 .. t}
    \union {Completed(s[i]) : i \in {j \in KeptAt(s, final) : AnchorAt(s, final, j) \in 1 .. t}}

(* Nothing that is carried is the same thing as a part of `done`, or as    *)
(* something carried from elsewhere in the bubble.                         *)
LEMMA CarriedApart ==
  ASSUME NEW s \in Seq(Parts), NEW final \in Seq(Parts), NEW K, K \subseteq Kinds, Keyed(s, K),
         NEW i \in KeptAt(s, final), s[i].kind \in K
  PROVE  /\ \A q \in Range(final) : ~SameThing(Completed(s[i]), q)
         /\ \A j \in KeptAt(s, final) : SameThing(Completed(s[i]), Completed(s[j])) => i = j
<1>1. /\ i \in 1 .. Len(s) /\ Taken(s, final)[i] = 0 /\ s[i] \in Parts /\ DOMAIN s = 1 .. Len(s)
      /\ \A j \in KeptAt(s, final) : j \in 1 .. Len(s) /\ s[j] \in Parts
  BY DEF KeptAt
<1>2. \A q \in Range(final) : ~SameThing(s[i], q)
  BY <1>1, TakenIs
<1>3. SameThing(s[i], Completed(s[i]))
  BY <1>1, CompletedIs
<1>4. \A q \in Range(final) : ~SameThing(Completed(s[i]), q)
  BY <1>2, <1>3, SameThingIs
<1>5. ASSUME NEW j \in KeptAt(s, final), SameThing(Completed(s[i]), Completed(s[j])) PROVE i = j
  <2>1. SameThing(s[j], Completed(s[j])) /\ j \in DOMAIN s
    BY <1>1, CompletedIs
  <2>2. SameThing(s[i], s[j])
    BY <1>3, <1>5, <2>1, SameThingIs
  <2> QED BY <1>1, <2>1, <2>2 DEF Keyed
<1> QED BY <1>4, <1>5

LEMMA WovenStep ==
  ASSUME NEW s \in Seq(Parts), NEW final \in Seq(Parts), NEW K, K \subseteq Kinds,
         Keyed(s, K), Keyed(final, K), NEW t \in 1 .. Len(final) + 1,
         NEW b \in Seq(Parts), Keyed(b, K), Range(b) = WovenTo(s, final, t - 1)
  PROVE  /\ b \o Carried(s, final, t) \in Seq(Parts) /\ Keyed(b \o Carried(s, final, t), K)
         /\ Range(b \o Carried(s, final, t)) = Range(b) \union
              {Completed(s[i]) : i \in {j \in KeptAt(s, final) : AnchorAt(s, final, j) = t}}
         /\ t <= Len(final) =>
              /\ Append(b \o Carried(s, final, t), final[t]) \in Seq(Parts)
              /\ Keyed(Append(b \o Carried(s, final, t), final[t]), K)
              /\ Range(Append(b \o Carried(s, final, t), final[t])) = WovenTo(s, final, t)
<1> DEFINE c == Carried(s, final, t)
           a == b \o c
           S == {j \in KeptAt(s, final) : AnchorAt(s, final, j) = t}
           B == {j \in KeptAt(s, final) : AnchorAt(s, final, j) \in 1 .. t - 1}
           A == {j \in KeptAt(s, final) : AnchorAt(s, final, j) \in 1 .. t}
<1>1. c \in Seq(Parts) /\ Keyed(c, K) /\ Range(c) = {Completed(s[i]) : i \in S}
  <2>1. c \in Seq(Parts)
    BY CarriedIs
  <2>2. Keyed(c, K)
    BY CarriedIs
  <2>3. Range(c) = CarriedTo(s, final, t)
    BY CarriedIs
  <2>4. CarriedTo(s, final, t) = {Completed(s[i]) : i \in S}
    BY DEF CarriedTo
  <2> HIDE DEF c, S
  <2> QED BY <2>1, <2>2, <2>3, <2>4
<1>2. Range(b) = {final[u] : u \in 1 .. t - 1} \union {Completed(s[i]) : i \in B}
  BY DEF WovenTo
<1>3. \A i \in KeptAt(s, final) : s[i] \in Parts /\ Completed(s[i]).kind = s[i].kind
  BY CompletedIs DEF KeptAt
<1>4. \A u \in 1 .. Len(final) : final[u] \in Range(final)
  BY RangeIs
<1>5. Len(final) \in Nat /\ t \in Nat /\ DOMAIN final = 1 .. Len(final)
  OBVIOUS
<1>6. /\ \A i \in S : i \in KeptAt(s, final) /\ AnchorAt(s, final, i) = t
      /\ \A i \in B : i \in KeptAt(s, final) /\ AnchorAt(s, final, i) # t
      /\ A = B \union S
  BY <1>5
<1> HIDE DEF S, B, A, c
<1>7. ASSUME NEW p \in Range(b), NEW q \in Range(c), p.kind \in K PROVE ~SameThing(p, q)
  <2>1. SUFFICES ASSUME SameThing(p, q) PROVE FALSE
    OBVIOUS
  <2>2. PICK i \in S : q = Completed(s[i])
    BY <1>1
  <2>3. s[i].kind \in K /\ i \in KeptAt(s, final)
    BY <1>3, <1>6, <1>7, <2>1, <2>2, SameThingIs
  <2>4. CASE \E u \in 1 .. t - 1 : p = final[u]
    <3>1. p \in Range(final)
      BY <1>4, <1>5, <2>4
    <3>2. SameThing(Completed(s[i]), p)
      BY <2>1, <2>2, SameThingIs
    <3> QED BY <2>3, <3>1, <3>2, CarriedApart
  <2>5. CASE \E j \in B : p = Completed(s[j])
    <3>1. PICK j \in B : p = Completed(s[j])
      BY <2>5
    <3>2. SameThing(Completed(s[i]), Completed(s[j])) /\ j \in KeptAt(s, final)
      BY <1>6, <2>1, <2>2, <3>1, SameThingIs
    <3>3. i = j
      BY <2>3, <3>2, CarriedApart
    <3> QED BY <1>6, <3>3
  <2> QED BY <1>2, <2>4, <2>5
<1>8. a \in Seq(Parts) /\ Range(a) = Range(b) \union Range(c)
  BY <1>1, ConcatIs
<1>9. Keyed(a, K)
  BY <1>1, <1>7, KeyedConcat
<1>10. Range(a) = Range(b) \union {Completed(s[i]) : i \in S}
  BY <1>1, <1>8
<1> HIDE DEF a
<1>11. ASSUME t <= Len(final)
       PROVE  /\ Append(a, final[t]) \in Seq(Parts) /\ Keyed(Append(a, final[t]), K)
              /\ Range(Append(a, final[t])) = WovenTo(s, final, t)
  <2>1. t \in 1 .. Len(final) /\ final[t] \in Parts /\ final[t] \in Range(final)
    BY <1>4, <1>5, <1>11
  <2>2. Append(a, final[t]) \in Seq(Parts) /\ Range(Append(a, final[t])) = Range(a) \union {final[t]}
    BY <1>8, <2>1, AppendIs
  <2>3. ASSUME NEW q \in Range(a), final[t].kind \in K PROVE ~SameThing(q, final[t])
    <3>1. SUFFICES ASSUME SameThing(q, final[t]) PROVE FALSE
      OBVIOUS
    <3>2. CASE \E u \in 1 .. t - 1 : q = final[u]
      <4>1. PICK u \in 1 .. t - 1 : q = final[u]
        BY <3>2
      <4>2. u \in DOMAIN final /\ t \in DOMAIN final /\ u # t /\ final[u].kind \in K
        BY <1>5, <2>1, <2>3, <3>1, <4>1, SameThingIs
      <4> QED BY <3>1, <4>1, <4>2 DEF Keyed
    <3>3. CASE \E i \in B \union S : q = Completed(s[i])
      <4>1. PICK i \in B \union S : q = Completed(s[i])
        BY <3>3
      <4>2. i \in KeptAt(s, final) /\ s[i].kind \in K
        BY <1>3, <1>6, <2>3, <3>1, <4>1, SameThingIs
      <4> QED BY <2>1, <3>1, <4>1, <4>2, CarriedApart
    <3> QED BY <1>2, <1>10, <3>2, <3>3
  <2>4. Keyed(Append(a, final[t]), K)
    BY <1>8, <1>9, <2>1, <2>3, KeyedAppend
  <2>5. WovenTo(s, final, t) = {final[u] : u \in 1 .. t} \union {Completed(s[i]) : i \in A}
    BY DEF WovenTo, A
  <2>6. {final[u] : u \in 1 .. t} = {final[u] : u \in 1 .. t - 1} \union {final[t]}
    <3>1. 1 .. t = (1 .. t - 1) \union {t}
      BY <1>5
    <3> QED BY <3>1
  <2>7. {Completed(s[i]) : i \in A} = {Completed(s[i]) : i \in B} \union {Completed(s[i]) : i \in S}
    BY <1>6
  <2> QED BY <1>2, <1>10, <2>2, <2>4, <2>5, <2>6, <2>7
<1> QED BY <1>8, <1>9, <1>10, <1>11 DEF a, c, S

(* What the merge shows: every part of `done`, and of the streamed parts   *)
(* those for which it has none, completed; each thing once.                *)
LEMMA MergedIs ==
  ASSUME NEW s \in Seq(Parts), NEW final \in Seq(Parts), NEW K, K \subseteq Kinds,
         Keyed(s, K), Keyed(final, K)
  PROVE  /\ Merged(s, final) \in Seq(Parts) /\ Keyed(Merged(s, final), K)
         /\ Range(final) \subseteq Range(Merged(s, final))
         /\ \A p \in Range(Merged(s, final)) : p \in Range(final) \/
              \E q \in Range(s) : /\ p = Completed(q) /\ q # TextPart(<<>>)
                                  /\ q.kind \in K => \A f \in Range(final) : ~SameThing(q, f)
         /\ \A q \in Range(s) : q.kind \in K /\ q # TextPart(<<>>) =>
              Completed(q) \in Range(Merged(s, final)) \/ \E f \in Range(final) : SameThing(q, f)
<1> DEFINE m == Len(final)
           Ch == [t \in 0 .. m |-> {b \in Seq(Parts) : Keyed(b, K) /\ Range(b) = WovenTo(s, final, t)}]
           w == Weaving(s, final)
           M == Merged(s, final)
<1>1. m \in Nat /\ DOMAIN final = 1 .. m /\ DOMAIN s = 1 .. Len(s) /\ Len(s) \in Nat
  OBVIOUS
<1>2. \A t \in 0 .. m : Ch[t] = {b \in Seq(Parts) : Keyed(b, K) /\ Range(b) = WovenTo(s, final, t)}
  OBVIOUS
<1> HIDE DEF Ch
<1>3. <<>> \in Ch[0]
  <2>1. <<>> \in Seq(Parts) /\ Keyed(<<>>, K) /\ Range(<<>>) = {}
    BY DEF Keyed, Range
  <2>2. 1 .. 0 = {} /\ 0 \in 0 .. m
    BY <1>1
  <2>3. WovenTo(s, final, 0) = {}
    BY <2>2 DEF WovenTo
  <2> QED BY <1>2, <2>1, <2>2, <2>3
<1>4. ASSUME NEW t \in 1 .. m, NEW b \in Ch[t - 1]
      PROVE  Append(b \o Carried(s, final, t), final[t]) \in Ch[t]
  <2>1. t - 1 \in 0 .. m /\ t \in 0 .. m /\ t \in 1 .. m + 1 /\ t <= Len(final)
    BY <1>1
  <2>2. b \in Seq(Parts) /\ Keyed(b, K) /\ Range(b) = WovenTo(s, final, t - 1)
    BY <1>2, <2>1
  <2>3. /\ Append(b \o Carried(s, final, t), final[t]) \in Seq(Parts)
        /\ Keyed(Append(b \o Carried(s, final, t), final[t]), K)
        /\ Range(Append(b \o Carried(s, final, t), final[t])) = WovenTo(s, final, t)
    BY <2>1, <2>2, WovenStep
  <2> QED BY <1>2, <2>1, <2>3
<1>5. w \in Ch[m]
  BY <1>1, <1>3, <1>4, WovenIn
<1>6. w \in Seq(Parts) /\ Keyed(w, K) /\ Range(w) = WovenTo(s, final, m)
  BY <1>1, <1>2, <1>5
<1> HIDE DEF w
<1>7. M = w \o Carried(s, final, m + 1)
  BY DEF Merged, w
<1> DEFINE S == {j \in KeptAt(s, final) : AnchorAt(s, final, j) = m + 1}
<1>8. M \in Seq(Parts) /\ Keyed(M, K) /\ Range(M) = Range(w) \union {Completed(s[i]) : i \in S}
  <2>1. m + 1 \in 1 .. Len(final) + 1 /\ (m + 1) - 1 = m
    BY <1>1
  <2> HIDE DEF M
  <2> QED BY <1>6, <1>7, <2>1, WovenStep
<1> HIDE DEF M
<1>9. \A i \in KeptAt(s, final) : /\ i \in 1 .. Len(s) /\ Taken(s, final)[i] = 0
                                 /\ s[i] # TextPart(<<>>) /\ s[i] \in Range(s) /\ s[i] \in Parts
                                 /\ AnchorAt(s, final, i) \in 1 .. m + 1
  BY AnchorIs, RangeIs DEF KeptAt
<1>10. Range(M) = Range(final) \union {Completed(s[i]) : i \in KeptAt(s, final)}
  <2>1. {final[u] : u \in 1 .. m} = Range(final)
    BY <1>1 DEF Range
  <2> DEFINE A == {j \in KeptAt(s, final) : AnchorAt(s, final, j) \in 1 .. m}
  <2>2. KeptAt(s, final) = A \union S
    BY <1>1, <1>9
  <2>3. Range(w) = Range(final) \union {Completed(s[i]) : i \in A}
    BY <1>6, <2>1 DEF WovenTo
  <2> HIDE DEF A, S
  <2> QED BY <1>8, <2>2, <2>3
<1>11. ASSUME NEW p \in Range(M), p \notin Range(final)
       PROVE  \E q \in Range(s) : /\ p = Completed(q) /\ q # TextPart(<<>>)
                                  /\ q.kind \in K => \A f \in Range(final) : ~SameThing(q, f)
  <2>1. PICK i \in KeptAt(s, final) : p = Completed(s[i])
    BY <1>10, <1>11
  <2>2. s[i].kind \in K => \A f \in Range(final) : ~SameThing(s[i], f)
    BY <1>9, TakenIs
  <2> QED BY <1>9, <2>1, <2>2
<1>12. ASSUME NEW q \in Range(s), q.kind \in K, q # TextPart(<<>>),
              \A f \in Range(final) : ~SameThing(q, f)
       PROVE  Completed(q) \in Range(M)
  <2>1. PICK i \in 1 .. Len(s) : s[i] = q
    BY RangeIs
  <2>2. Taken(s, final)[i] = 0
    BY <1>12, <2>1, TakenIs
  <2>3. i \in KeptAt(s, final)
    BY <1>12, <2>1, <2>2 DEF KeptAt
  <2> QED BY <1>10, <2>1, <2>3
<1> QED BY <1>8, <1>10, <1>11, <1>12 DEF M

------------------------------------------------------------------------------
(* Frames on a bubble                                                      *)

LEMMA PartsIn ==
  ASSUME NEW parts \in Seq(Parts)
  PROVE  /\ \A p \in Range(parts) : p \in Parts
         /\ \A i \in 1 .. Len(parts) : parts[i] \in Parts /\ parts[i] \in Range(parts)
         /\ Len(parts) \in Nat /\ DOMAIN parts = 1 .. Len(parts)
BY RangeIs

LEMMA ReplaceOthers ==
  ASSUME NEW T, NEW s \in Seq(T), NEW e \in T, NEW k \in 1 .. Len(s), NEW p, p # e, p # s[k]
  PROVE  p \in Range(ReplaceAt(s, k, e)) <=> p \in Range(s)
<1> DEFINE t == ReplaceAt(s, k, e)
<1>1. t \in Seq(T) /\ Len(t) = Len(s)
  BY ReplaceIs
<1>2. \A i \in 1 .. Len(s) : t[i] = IF i = k THEN e ELSE s[i]
  BY ReplaceIs
<1> HIDE DEF t
<1>3. p \in Range(t) <=> \E i \in 1 .. Len(s) : t[i] = p
  BY <1>1, RangeIs
<1>4. p \in Range(s) <=> \E i \in 1 .. Len(s) : s[i] = p
  BY RangeIs
<1> QED BY <1>2, <1>3, <1>4 DEF t

LEMMA AppendedIs ==
  ASSUME NEW parts \in Seq(Parts), NEW K, Keyed(parts, K), NEW text \in Seq(Nat)
  PROVE  /\ Appended(parts, text) \in Seq(Parts) /\ Keyed(Appended(parts, text), K)
         /\ \A p : p.kind # "text" => (p \in Range(Appended(parts, text)) <=> p \in Range(parts))
<1> DEFINE i == First(At(parts, "text"))
<1>1. At(parts, "text") \subseteq 1 .. Len(parts) /\ Len(parts) \in Nat
  BY AtIs
<1>2. CASE At(parts, "text") = {}
  <2>1. i = 0
    BY <1>1, <1>2, FirstIs
  <2>2. Appended(parts, text) = Append(parts, TextPart(text))
    BY <2>1 DEF Appended
  <2>3. TextPart(text) \in Parts /\ TextPart(text).kind = "text"
    BY PartsMade DEF TextPart
  <2>4. ASSUME NEW q \in Range(parts) PROVE ~SameThing(q, TextPart(text))
    <3>1. PICK j \in 1 .. Len(parts) : parts[j] = q
      BY RangeIs
    <3>2. q.kind # "text"
      BY <1>2, <3>1, AtIs
    <3> QED BY <2>3, <3>2 DEF SameThing
  <2>5. Keyed(Append(parts, TextPart(text)), K)
    BY <2>3, <2>4, KeyedAppend
  <2>6. Append(parts, TextPart(text)) \in Seq(Parts)
    BY <2>3
  <2>7. Range(Append(parts, TextPart(text))) = Range(parts) \union {TextPart(text)}
    BY <2>3, AppendIs
  <2> QED BY <2>2, <2>3, <2>5, <2>6, <2>7
<1>3. CASE At(parts, "text") # {}
  <2>1. i \in 1 .. Len(parts) /\ i # 0 /\ parts[i].kind = "text"
    BY <1>1, <1>3, FirstIs, AtIs
  <2> HIDE DEF i
  <2>2. parts[i] \in Parts /\ parts[i].text \in Seq(Nat)
    BY <2>1, PartsByKind, KindsOfParts
  <2> DEFINE part == TextPart(parts[i].text \o text)
  <2>3. Appended(parts, text) = ReplaceAt(parts, i, part)
    BY <2>1 DEF Appended, i
  <2>4. part \in Parts /\ part.kind = "text"
    <3>1. parts[i].text \o text \in Seq(Nat)
      BY <2>2
    <3> QED BY <3>1, PartsMade DEF TextPart
  <2>5. SameThing(parts[i], part)
    BY <2>1, <2>4 DEF SameThing
  <2> HIDE DEF part
  <2>6. ReplaceAt(parts, i, part) \in Seq(Parts) /\ Keyed(ReplaceAt(parts, i, part), K)
    BY <2>1, <2>4, <2>5, KeyedReplace
  <2>7. ASSUME NEW p, p.kind # "text"
        PROVE  p \in Range(ReplaceAt(parts, i, part)) <=> p \in Range(parts)
    BY <2>1, <2>4, <2>7, ReplaceOthers
  <2> QED BY <2>3, <2>6, <2>7
<1> QED BY <1>2, <1>3

LEMMA PlacedIs ==
  ASSUME NEW parts \in Seq(Parts), NEW K, Keyed(parts, K), NEW part \in Parts,
         part.kind \in K => \A q \in Range(parts) : ~SameThing(q, part)
  PROVE  /\ Placed(parts, part) \in Seq(Parts) /\ Keyed(Placed(parts, part), K)
         /\ Range(Placed(parts, part)) = Range(parts) \union {part}
<1>1. At(parts, "text") \subseteq 1 .. Len(parts) /\ Len(parts) \in Nat
  BY AtIs
<1>2. First(At(parts, "text")) \in 0 .. Len(parts)
  BY <1>1, FirstIs
<1>3. Placed(parts, part) = PutBefore(parts, First(At(parts, "text")), part)
  BY DEF Placed
<1>4. Keyed(Placed(parts, part), K)
  BY <1>2, <1>3, KeyedPut
<1>5. Placed(parts, part) \in Seq(Parts)
  BY <1>2, <1>3, PutIs
<1>6. Range(Placed(parts, part)) = Range(parts) \union {part}
  <2> DEFINE k == First(At(parts, "text"))
  <2>1. k \in 0 .. Len(parts) /\ Placed(parts, part) = PutBefore(parts, k, part)
    BY <1>2, <1>3
  <2> HIDE DEF k
  <2>2. ASSUME NEW gap \in 0 .. Len(parts)
        PROVE  Range(PutBefore(parts, gap, part)) = Range(parts) \union {part}
    BY PutIs
  <2>3. Range(PutBefore(parts, k, part)) = Range(parts) \union {part}
    BY <2>1, <2>2
  <2> QED BY <2>1, <2>3
<1> QED BY <1>4, <1>5, <1>6

LEMMA SummaryShownIs ==
  ASSUME NEW parts \in Seq(Parts), NEW K, K \subseteq Kinds, Keyed(parts, K)
  PROVE  /\ SummaryShown(parts) \in Seq(Parts) /\ Keyed(SummaryShown(parts), K)
         /\ Range(SummaryShown(parts)) = Range(parts) \union {SummaryPart}
<1>1. SummaryPart \in Parts /\ SummaryPart.kind \notin K
  BY PartsMade, KindsOfParts DEF Kinds
<1>2. CASE SummaryPart \in Range(parts)
  BY <1>2 DEF SummaryShown
<1>3. CASE SummaryPart \notin Range(parts)
  <2>1. SummaryShown(parts) = Placed(parts, SummaryPart)
    BY <1>3 DEF SummaryShown
  <2> QED BY <1>1, <2>1, PlacedIs
<1> QED BY <1>2, <1>3

LEMMA ToolShownIs ==
  ASSUME NEW parts \in Seq(Parts), NEW K, Keyed(parts, K), NEW part \in CallParts
  PROVE  /\ ToolShown(parts, part) \in Seq(Parts) /\ Keyed(ToolShown(parts, part), K)
         /\ \A p : p.kind # "tool" => (p \in Range(ToolShown(parts, part)) <=> p \in Range(parts))
<1> DEFINE S == {j \in At(parts, "tool") : parts[j].n = part.n /\ parts[j].named = part.named}
           i == First(S)
<1>1. S \subseteq 1 .. Len(parts) /\ Len(parts) \in Nat
  BY AtIs
<1>2. part \in Parts /\ part.kind = "tool" /\ part.named = TRUE
  BY KindsOfParts DEF Parts
<1>3. \A j \in 1 .. Len(parts) : j \in S <=> SameThing(parts[j], part)
  <2>1. SUFFICES ASSUME NEW j \in 1 .. Len(parts) PROVE j \in S <=> SameThing(parts[j], part)
    OBVIOUS
  <2>2. parts[j] \in Parts
    OBVIOUS
  <2>3. parts[j].kind = "tool" => parts[j].named = TRUE
    BY <2>2, PartsByKind, KindsOfParts
  <2>4. j \in At(parts, "tool") <=> parts[j].kind = "tool"
    BY AtIs
  <2> QED BY <1>2, <2>3, <2>4 DEF SameThing
<1>4. ToolShown(parts, part) = IF i # 0 THEN ReplaceAt(parts, i, part) ELSE Placed(parts, part)
  BY DEF ToolShown
<1> HIDE DEF S
<1>5. CASE S = {}
  <2>1. ToolShown(parts, part) = Placed(parts, part)
    BY <1>1, <1>4, <1>5, FirstIs
  <2>2. \A q \in Range(parts) : ~SameThing(q, part)
    BY <1>3, <1>5, RangeIs
  <2> QED BY <1>2, <2>1, <2>2, PlacedIs
<1>6. CASE S # {}
  <2>1. i \in S /\ i # 0
    BY <1>1, <1>6, FirstIs
  <2>2. i \in 1 .. Len(parts) /\ ToolShown(parts, part) = ReplaceAt(parts, i, part)
    BY <1>1, <1>4, <2>1
  <2> HIDE DEF i
  <2>3. SameThing(parts[i], part) /\ parts[i].kind = "tool"
    BY <1>2, <1>3, <2>1, <2>2, SameThingIs
  <2>4. ReplaceAt(parts, i, part) \in Seq(Parts) /\ Keyed(ReplaceAt(parts, i, part), K)
    BY <1>2, <2>2, <2>3, KeyedReplace
  <2>5. ASSUME NEW p, p.kind # "tool"
        PROVE  p \in Range(ReplaceAt(parts, i, part)) <=> p \in Range(parts)
    BY <1>2, <2>2, <2>3, <2>5, ReplaceOthers
  <2> QED BY <2>2, <2>4, <2>5
<1> QED BY <1>5, <1>6

(* The text and the state of an episode after a frame of it.               *)
TextAfter(phase, old, text) ==
  CASE phase = "start" -> text
    [] phase = "delta" -> old \o text
    [] OTHER -> IF text = <<>> THEN old ELSE text

StateAfter(phase) == IF phase = "end" THEN "complete" ELSE "streaming"

Phases == {"start", "delta", "end"}

EpisodeAt(parts, index, state) ==
  {i \in At(parts, "reasoning") : parts[i].index = index /\ parts[i].state = state}

LEMMA TextAfterIs ==
  ASSUME NEW phase \in Phases, NEW old \in Seq(Nat), NEW text \in Seq(Nat)
  PROVE  TextAfter(phase, old, text) \in Seq(Nat)
BY DEF TextAfter, Phases

LEMMA EpisodeAtIs ==
  ASSUME NEW parts \in Seq(Parts), NEW index, NEW state
  PROVE  /\ EpisodeAt(parts, index, state) \subseteq 1 .. Len(parts)
         /\ \A i \in 1 .. Len(parts) : i \in EpisodeAt(parts, index, state) <=>
              parts[i].kind = "reasoning" /\ parts[i].index = index /\ parts[i].state = state
         /\ \A i \in EpisodeAt(parts, index, state) :
              parts[i] = ReasoningPart(index, parts[i].text, state)
<1>1. /\ EpisodeAt(parts, index, state) \subseteq 1 .. Len(parts)
      /\ \A i \in 1 .. Len(parts) : i \in EpisodeAt(parts, index, state) <=>
           parts[i].kind = "reasoning" /\ parts[i].index = index /\ parts[i].state = state
  BY AtIs DEF EpisodeAt
<1>2. ASSUME NEW i \in EpisodeAt(parts, index, state)
      PROVE  parts[i] = ReasoningPart(index, parts[i].text, state)
  <2>1. parts[i] \in Parts /\ parts[i].kind = "reasoning" /\ parts[i].index = index
          /\ parts[i].state = state
    BY <1>1
  <2> QED BY <2>1, PartsByKind, KindsOfParts
<1> QED BY <1>1, <1>2

(* What a reasoning frame does, by the parts of its episode.               *)
LEMMA ReasonedBy ==
  ASSUME NEW parts \in Seq(Parts), NEW phase \in Phases, NEW index \in Nat, NEW text \in Seq(Nat)
  PROVE  LET live   == EpisodeAt(parts, index, "streaming")
             over   == EpisodeAt(parts, index, "complete")
             result == Reasoned(parts, Reasoning(phase, index, text))
             Part(old) == ReasoningPart(index, TextAfter(phase, old, text), StateAfter(phase))
         IN  /\ live # {} => result = ReplaceAt(parts, Greatest(live), Part(parts[Greatest(live)].text))
             /\ live = {} /\ over # {} /\ phase = "end" => result = parts
             /\ live = {} /\ (over = {} \/ phase # "end") =>
                  \E gap \in 0 .. Len(parts) : result = PutBefore(parts, gap, Part(<<>>))
<1> DEFINE f      == Reasoning(phase, index, text)
           live   == EpisodeAt(parts, index, "streaming")
           over   == EpisodeAt(parts, index, "complete")
           result == Reasoned(parts, f)
           Part(old) == ReasoningPart(index, TextAfter(phase, old, text), StateAfter(phase))
           gaps   == {i \in At(parts, "text") : parts[i].text = <<>>}
           completed == IF phase = "delta" THEN {} ELSE over
           found     == IF live # {} THEN live ELSE completed
           anew      == found = {} \/ (phase = "start" /\ live = {})
           previous  == IF anew THEN <<>> ELSE parts[Greatest(found)].text
<1>1. f.phase = phase /\ f.index = index /\ f.text = text
  BY DEF Reasoning
<1> HIDE DEF f
<1>2. result = IF phase = "end" /\ live = {} /\ completed # {} THEN parts
               ELSE IF ~anew THEN ReplaceAt(parts, Greatest(found), Part(previous))
               ELSE PutBefore(parts, First(gaps), Part(previous))
  BY <1>1 DEF Reasoned, EpisodeAt, TextAfter, StateAfter
<1>3. First(gaps) \in 0 .. Len(parts)
  <2>1. gaps \subseteq 1 .. Len(parts) /\ Len(parts) \in Nat
    BY AtIs
  <2> HIDE DEF gaps
  <2> QED BY <2>1, FirstIs
<1> HIDE DEF result, live, over, gaps, Part
<1>4. live # {} => result = ReplaceAt(parts, Greatest(live), Part(parts[Greatest(live)].text))
  BY <1>2
<1>5. live = {} /\ over # {} /\ phase = "end" => result = parts
  BY <1>2
<1>6. live = {} /\ (over = {} \/ phase # "end") => result = PutBefore(parts, First(gaps), Part(<<>>))
  BY <1>2 DEF Phases
<1> QED BY <1>3, <1>4, <1>5, <1>6 DEF result, live, over, Part, f

(* A frame of a streaming episode changes its part.                        *)
LEMMA ReasonedLive ==
  ASSUME NEW parts \in Seq(Parts), NEW phase \in Phases, NEW index \in Nat, NEW text \in Seq(Nat),
         NEW K, "reasoning" \in K, Keyed(parts, K),
         NEW old, ReasoningPart(index, old, "streaming") \in Range(parts)
  PROVE  LET result == Reasoned(parts, Reasoning(phase, index, text))
             p      == ReasoningPart(index, old, "streaming")
             new    == ReasoningPart(index, TextAfter(phase, old, text), StateAfter(phase))
         IN  /\ result \in Seq(Parts) /\ Keyed(result, K)
             /\ Range(result) = (Range(parts) \ {p}) \union {new}
<1> DEFINE p    == ReasoningPart(index, old, "streaming")
           new  == ReasoningPart(index, TextAfter(phase, old, text), StateAfter(phase))
           live == EpisodeAt(parts, index, "streaming")
           k    == Greatest(live)
<1>1. PICK i \in 1 .. Len(parts) : parts[i] = p
  BY RangeIs
<1>2. i \in live
  <2>1. p.kind = "reasoning" /\ p.index = index /\ p.state = "streaming"
    BY DEF ReasoningPart
  <2> HIDE DEF p
  <2> QED BY <1>1, <2>1, EpisodeAtIs
<1>3. live \subseteq 1 .. Len(parts) /\ Len(parts) \in Nat
  BY EpisodeAtIs
<1> HIDE DEF live
<1>4. k \in live
  BY <1>2, <1>3, GreatestIs
<1> HIDE DEF k
<1>5. k \in 1 .. Len(parts) /\ parts[k].kind = "reasoning" /\ parts[k].index = index
  BY <1>3, <1>4, EpisodeAtIs DEF live
<1>6. k = i
  <2>1. parts[i].kind = "reasoning" /\ parts[i].index = index
    BY <1>1 DEF ReasoningPart
  <2>2. SameThing(parts[k], parts[i])
    BY <1>5, <2>1 DEF SameThing
  <2>3. k \in DOMAIN parts /\ i \in DOMAIN parts
    BY <1>5
  <2> QED BY <1>5, <2>2, <2>3 DEF Keyed
<1>7. parts[k] = p /\ parts[k].text = old /\ p \in Parts
  BY <1>1, <1>6 DEF ReasoningPart
<1>8. old \in Seq(Nat)
  BY <1>5, <1>7, PartsByKind, KindsOfParts
<1>9. new \in Parts /\ new.kind = "reasoning" /\ SameThing(parts[k], new)
  <2>1. TextAfter(phase, old, text) \in Seq(Nat) /\ StateAfter(phase) \in {"streaming", "complete"}
    BY <1>8, TextAfterIs DEF StateAfter
  <2>2. new \in Parts
    BY <2>1, PartsMade
  <2>3. new.kind = "reasoning" /\ new.index = index
    BY DEF ReasoningPart
  <2> HIDE DEF new
  <2> QED BY <1>5, <2>2, <2>3 DEF SameThing
<1>10. Reasoned(parts, Reasoning(phase, index, text)) = ReplaceAt(parts, k, new)
  BY <1>2, <1>7, ReasonedBy DEF live, k
<1> HIDE DEF new, p
<1>11. ReplaceAt(parts, k, new) \in Seq(Parts) /\ Keyed(ReplaceAt(parts, k, new), K)
  BY <1>5, <1>9, KeyedReplace
<1>12. Range(ReplaceAt(parts, k, new)) = (Range(parts) \ {parts[k]}) \union {new}
  BY <1>5, <1>9, KeyedReplace
<1> QED BY <1>7, <1>10, <1>11, <1>12 DEF new, p

(* The end of an episode that is complete changes nothing.                 *)
LEMMA ReasonedOver ==
  ASSUME NEW parts \in Seq(Parts), NEW index \in Nat, NEW text \in Seq(Nat),
         NEW K, "reasoning" \in K, Keyed(parts, K),
         NEW old, ReasoningPart(index, old, "complete") \in Range(parts)
  PROVE  Reasoned(parts, Reasoning("end", index, text)) = parts
<1> DEFINE p    == ReasoningPart(index, old, "complete")
           live == EpisodeAt(parts, index, "streaming")
           over == EpisodeAt(parts, index, "complete")
<1>1. PICK i \in 1 .. Len(parts) : parts[i] = p
  BY RangeIs
<1>2. parts[i].kind = "reasoning" /\ parts[i].index = index /\ parts[i].state = "complete"
  BY <1>1 DEF ReasoningPart
<1>3. i \in over
  BY <1>2, EpisodeAtIs
<1>4. live = {}
  <2>1. SUFFICES ASSUME NEW k \in live PROVE FALSE
    OBVIOUS
  <2>2. k \in 1 .. Len(parts) /\ parts[k].kind = "reasoning" /\ parts[k].index = index
        /\ parts[k].state = "streaming"
    BY EpisodeAtIs
  <2>3. SameThing(parts[k], parts[i])
    BY <1>2, <2>2 DEF SameThing
  <2>4. k \in DOMAIN parts /\ i \in DOMAIN parts
    BY <2>2
  <2>5. k = i
    BY <2>2, <2>3, <2>4 DEF Keyed
  <2> QED BY <1>2, <2>2, <2>5
<1>5. "end" \in Phases
  BY DEF Phases
<1> HIDE DEF live, over
<1> QED BY <1>3, <1>4, <1>5, ReasonedBy DEF live, over

(* A frame of an episode that has no part puts one.                        *)
LEMMA ReasonedAnew ==
  ASSUME NEW parts \in Seq(Parts), NEW phase \in Phases, NEW index \in Nat, NEW text \in Seq(Nat),
         NEW K, Keyed(parts, K), \A q \in Range(parts) : q.kind = "reasoning" => q.index # index
  PROVE  LET result == Reasoned(parts, Reasoning(phase, index, text))
             new    == ReasoningPart(index, TextAfter(phase, <<>>, text), StateAfter(phase))
         IN  /\ result \in Seq(Parts) /\ Keyed(result, K)
             /\ Range(result) = Range(parts) \union {new}
<1> DEFINE new  == ReasoningPart(index, TextAfter(phase, <<>>, text), StateAfter(phase))
           live == EpisodeAt(parts, index, "streaming")
           over == EpisodeAt(parts, index, "complete")
<1>1. ASSUME NEW state PROVE EpisodeAt(parts, index, state) = {}
  <2>1. \A i \in EpisodeAt(parts, index, state) :
          parts[i] \in Range(parts) /\ parts[i].kind = "reasoning" /\ parts[i].index = index
    BY EpisodeAtIs, RangeIs
  <2> QED BY <2>1
<1>2. new \in Parts /\ new.kind = "reasoning" /\ new.index = index
  <2>0. <<>> \in Seq(Nat)
    OBVIOUS
  <2>1. TextAfter(phase, <<>>, text) \in Seq(Nat) /\ StateAfter(phase) \in {"streaming", "complete"}
    BY <2>0, TextAfterIs DEF StateAfter
  <2> QED BY <2>1, PartsMade DEF ReasoningPart
<1> HIDE DEF new
<1>3. PICK gap \in 0 .. Len(parts) :
        Reasoned(parts, Reasoning(phase, index, text)) = PutBefore(parts, gap, new)
  <2>1. live = {} /\ over = {}
    BY <1>1
  <2> HIDE DEF live, over
  <2> QED BY <2>1, ReasonedBy DEF live, over, new
<1>4. \A q \in Range(parts) : ~SameThing(q, new)
  BY <1>2 DEF SameThing
<1>5. PutBefore(parts, gap, new) \in Seq(Parts)
  BY <1>2, PutIs
<1>6. Range(PutBefore(parts, gap, new)) = Range(parts) \union {new}
  BY <1>2, PutIs
<1>7. Keyed(PutBefore(parts, gap, new), K)
  BY <1>2, <1>4, KeyedPut
<1> QED BY <1>3, <1>5, <1>6, <1>7 DEF new

(* A reasoning frame leaves the other parts, whatever the episodes.        *)
LEMMA ReasonedKeeps ==
  ASSUME NEW parts \in Seq(Parts), NEW phase \in Phases, NEW index \in Nat, NEW text \in Seq(Nat),
         NEW K, "reasoning" \notin K, Keyed(parts, K)
  PROVE  LET result == Reasoned(parts, Reasoning(phase, index, text))
         IN  result \in Seq(Parts) /\ Keyed(result, K)
<1> DEFINE live == EpisodeAt(parts, index, "streaming")
           over == EpisodeAt(parts, index, "complete")
           k == Greatest(live)
           Part(old) == ReasoningPart(index, TextAfter(phase, old, text), StateAfter(phase))
           result == Reasoned(parts, Reasoning(phase, index, text))
<1>1. \A old \in Seq(Nat) : Part(old) \in Parts /\ Part(old).kind = "reasoning" /\ Part(old).index = index
  <2>1. StateAfter(phase) \in {"streaming", "complete"}
    BY DEF StateAfter
  <2>2. \A old \in Seq(Nat) : TextAfter(phase, old, text) \in Seq(Nat)
    BY TextAfterIs
  <2> QED BY <2>1, <2>2, PartsMade DEF ReasoningPart
<1>2. /\ live # {} => result = ReplaceAt(parts, k, Part(parts[k].text))
      /\ live = {} /\ over # {} /\ phase = "end" => result = parts
      /\ live = {} /\ (over = {} \/ phase # "end") =>
           \E gap \in 0 .. Len(parts) : result = PutBefore(parts, gap, Part(<<>>))
  BY ReasonedBy
<1>3. \A i \in live : i \in 1 .. Len(parts) /\ parts[i].kind = "reasoning" /\ parts[i].index = index
  BY EpisodeAtIs
<1>4. live \subseteq 1 .. Len(parts) /\ Len(parts) \in Nat
  BY EpisodeAtIs
<1> HIDE DEF live, over, Part, result
<1>5. ASSUME live # {} PROVE result \in Seq(Parts) /\ Keyed(result, K)
  <2>1. k \in live
    BY <1>4, <1>5, GreatestIs
  <2> HIDE DEF k
  <2>2. k \in 1 .. Len(parts) /\ parts[k].kind = "reasoning" /\ parts[k].index = index
    BY <1>3, <2>1
  <2>3. parts[k] \in Parts
    BY <2>2
  <2>4. parts[k].text \in Seq(Nat)
    BY <2>2, <2>3, PartsByKind, KindsOfParts
  <2> DEFINE new == Part(parts[k].text)
  <2>5. new \in Parts /\ new.kind = "reasoning" /\ new.index = index
    BY <1>1, <2>4
  <2>6. result = ReplaceAt(parts, k, new)
    BY <1>2, <1>5
  <2> HIDE DEF new
  <2>7. SameThing(parts[k], new)
    BY <2>2, <2>5 DEF SameThing
  <2> QED BY <2>2, <2>5, <2>6, <2>7, KeyedReplace
<1>6. ASSUME live = {} /\ over # {} /\ phase = "end" PROVE result \in Seq(Parts) /\ Keyed(result, K)
  BY <1>2, <1>6
<1>7. ASSUME live = {} /\ (over = {} \/ phase # "end")
      PROVE  result \in Seq(Parts) /\ Keyed(result, K)
  <2>1. PICK gap \in 0 .. Len(parts) : result = PutBefore(parts, gap, Part(<<>>))
    BY <1>2, <1>7
  <2>2. <<>> \in Seq(Nat)
    OBVIOUS
  <2>3. Part(<<>>) \in Parts /\ Part(<<>>).kind \notin K
    BY <1>1, <2>2
  <2>4. PutBefore(parts, gap, Part(<<>>)) \in Seq(Parts)
    BY <2>3, PutIs
  <2>5. Keyed(PutBefore(parts, gap, Part(<<>>)), K)
    BY <2>3, KeyedPut
  <2> QED BY <2>1, <2>4, <2>5
<1> QED BY <1>5, <1>6, <1>7 DEF result

------------------------------------------------------------------------------
(* What a bubble tells                                                     *)

Frames ==
  [type : {"delta"}, text : Seq(Nat)]
    \union [type : {"reasoning_text"}, phase : Phases, index : Nat, text : Seq(Nat)]
    \union [type : {"tool"}, part : CallParts]
    \union {SummaryFrame}
    \union [type : {"message", "done"}, parts : {p \in Seq(Parts) : Keyed(p, {"tool"})}]

(* A frame keeps one part for each call, in a run that was upset too.      *)
LEMMA FoldedSound ==
  ASSUME NEW parts \in Seq(Parts), Keyed(parts, {"tool"}), NEW f \in Frames
  PROVE  Folded(parts, f) \in Seq(Parts) /\ Keyed(Folded(parts, f), {"tool"})
<1>1. CASE f \in [type : {"delta"}, text : Seq(Nat)]
  <2>1. f.type = "delta" /\ f.text \in Seq(Nat)
    BY <1>1
  <2>2. Folded(parts, f) = Appended(parts, f.text)
    BY <2>1 DEF Folded
  <2> QED BY <2>1, <2>2, AppendedIs
<1>2. CASE f \in [type : {"reasoning_text"}, phase : Phases, index : Nat, text : Seq(Nat)]
  <2>1. f.type = "reasoning_text" /\ f.phase \in Phases /\ f.index \in Nat /\ f.text \in Seq(Nat)
        /\ f = Reasoning(f.phase, f.index, f.text)
    BY <1>2 DEF Reasoning
  <2>2. Folded(parts, f) = Reasoned(parts, Reasoning(f.phase, f.index, f.text))
    BY <2>1 DEF Folded
  <2> QED BY <2>1, <2>2, ReasonedKeeps
<1>3. CASE f \in [type : {"tool"}, part : CallParts]
  <2>1. f.type = "tool" /\ f.part \in CallParts
    BY <1>3
  <2>2. Folded(parts, f) = ToolShown(parts, f.part)
    BY <2>1 DEF Folded
  <2> QED BY <2>1, <2>2, ToolShownIs
<1>4. CASE f = SummaryFrame
  <2>1. Folded(parts, f) = SummaryShown(parts)
    BY <1>4 DEF Folded, SummaryFrame
  <2>2. {"tool"} \subseteq Kinds
    BY DEF Kinds
  <2> QED BY <2>1, <2>2, SummaryShownIs
<1>5. CASE f \in [type : {"message", "done"}, parts : {p \in Seq(Parts) : Keyed(p, {"tool"})}]
  <2>1. f.type \in {"message", "done"} /\ f.parts \in Seq(Parts) /\ Keyed(f.parts, {"tool"})
    BY <1>5
  <2>2. CASE f.type = "message"
    BY <2>1, <2>2 DEF Folded
  <2>3. CASE f.type = "done"
    <3>1. Folded(parts, f) = Merged(parts, f.parts)
      BY <2>3 DEF Folded
    <3>2. {"tool"} \subseteq Kinds
      BY DEF Kinds
    <3> QED BY <2>1, <3>1, <3>2, MergedIs
  <2> QED BY <2>1, <2>2, <2>3
<1> QED BY <1>1, <1>2, <1>3, <1>4, <1>5 DEF Frames

LEMMA ShownSound ==
  ASSUME NEW parts \in Seq(Parts), Keyed(parts, {"tool"}), NEW frames \in Seq(Frames)
  PROVE  Shown(parts, frames) \in Seq(Parts) /\ Keyed(Shown(parts, frames), {"tool"})
<1> DEFINE Ch == [i \in 0 .. Len(frames) |-> {b \in Seq(Parts) : Keyed(b, {"tool"})}]
<1>1. Len(frames) \in Nat /\ \A i \in 1 .. Len(frames) : frames[i] \in Frames
  OBVIOUS
<1>2. \A i \in 0 .. Len(frames) : Ch[i] = {b \in Seq(Parts) : Keyed(b, {"tool"})}
  OBVIOUS
<1> HIDE DEF Ch
<1>3. /\ 0 \in 0 .. Len(frames) /\ Len(frames) \in 0 .. Len(frames)
      /\ \A i \in 1 .. Len(frames) : i \in 0 .. Len(frames) /\ i - 1 \in 0 .. Len(frames)
  BY <1>1
<1>4. parts \in Ch[0]
  BY <1>2, <1>3
<1>5. ASSUME NEW i \in 1 .. Len(frames), NEW b \in Ch[i - 1] PROVE Folded(b, frames[i]) \in Ch[i]
  <2>1. b \in Seq(Parts) /\ Keyed(b, {"tool"}) /\ frames[i] \in Frames
    BY <1>1, <1>2, <1>3
  <2>2. Folded(b, frames[i]) \in Seq(Parts) /\ Keyed(Folded(b, frames[i]), {"tool"})
    BY <2>1, FoldedSound
  <2> QED BY <1>2, <1>3, <2>2
<1>6. Shown(parts, frames) \in Ch[Len(frames)]
  BY <1>1, <1>4, <1>5, ShownIn
<1> QED BY <1>2, <1>3, <1>6

LEMMA ReasoningPartIs ==
  \A i, t, s, j, u, r : ReasoningPart(i, t, s) = ReasoningPart(j, u, r) <=> i = j /\ t = u /\ s = r
<1>1. \A i, t, s : ReasoningPart(i, t, s).index = i /\ ReasoningPart(i, t, s).text = t
                   /\ ReasoningPart(i, t, s).state = s /\ ReasoningPart(i, t, s).kind = "reasoning"
  BY DEF ReasoningPart
<1> QED BY <1>1

LEMMA ToldIs ==
  ASSUME NEW parts \in Seq(Parts)
  PROVE  /\ \A e \in Told(parts) : e = <<e[1], e[2]>> /\ e[1] \in Nat /\ e[2] \in Seq(Nat)
         /\ \A i, t : <<i, t>> \in Told(parts) <=>
              \/ ReasoningPart(i, t, "streaming") \in Range(parts)
              \/ ReasoningPart(i, t, "complete") \in Range(parts)
         /\ \A i : i \in Live(parts) <=> \E t : ReasoningPart(i, t, "streaming") \in Range(parts)
         /\ \A i \in Live(parts) : i \in Nat
<1>1. \A p \in Range(parts) : Thinking(p) =>
        p = ReasoningPart(p.index, p.text, p.state) /\ p.state \in {"streaming", "complete"}
        /\ p.index \in Nat /\ p.text \in Seq(Nat)
  BY PartsIn, PartsByKind, KindsOfParts DEF Thinking
<1>2. \A i, t, s : LET p == ReasoningPart(i, t, s)
                   IN  Thinking(p) /\ p.index = i /\ p.text = t /\ p.state = s
  BY DEF Thinking, ReasoningPart
<1>3. \A e : e \in Told(parts) <=> \E p \in Range(parts) : Thinking(p) /\ e = <<p.index, p.text>>
  BY DEF Told
<1>4. \A i : i \in Live(parts) <=>
        \E p \in Range(parts) : Thinking(p) /\ p.state = "streaming" /\ i = p.index
  BY DEF Live
<1>5. \A e \in Told(parts) : e = <<e[1], e[2]>> /\ e[1] \in Nat /\ e[2] \in Seq(Nat)
  <2>1. SUFFICES ASSUME NEW p \in Range(parts), Thinking(p)
                 PROVE  LET e == <<p.index, p.text>>
                        IN  e = <<e[1], e[2]>> /\ e[1] \in Nat /\ e[2] \in Seq(Nat)
    BY <1>3
  <2> QED BY <1>1, <2>1
<1>6. \A i, t : <<i, t>> \in Told(parts) <=>
        \/ ReasoningPart(i, t, "streaming") \in Range(parts)
        \/ ReasoningPart(i, t, "complete") \in Range(parts)
  <2>1. SUFFICES ASSUME NEW i, NEW t
                 PROVE <<i, t>> \in Told(parts) <=>
                         \/ ReasoningPart(i, t, "streaming") \in Range(parts)
                         \/ ReasoningPart(i, t, "complete") \in Range(parts)
    OBVIOUS
  <2>2. <<i, t>> \in Told(parts) <=> \E p \in Range(parts) : Thinking(p) /\ p.index = i /\ p.text = t
    <3>1. \A p : <<i, t>> = <<p.index, p.text>> <=> p.index = i /\ p.text = t
      OBVIOUS
    <3> QED BY <1>3, <3>1
  <2> QED BY <1>1, <1>2, <2>2
<1>7. \A i : i \in Live(parts) <=> \E t : ReasoningPart(i, t, "streaming") \in Range(parts)
  BY <1>1, <1>2, <1>4
<1>8. \A i \in Live(parts) : i \in Nat
  BY <1>1, <1>4
<1> QED BY <1>5, <1>6, <1>7, <1>8

(* An episode is told once.                                                *)
LEMMA ToldOnce ==
  ASSUME NEW parts \in Seq(Parts), NEW K, "reasoning" \in K, Keyed(parts, K)
  PROVE  /\ \A i, t, u, s, r : ReasoningPart(i, t, s) \in Range(parts)
                               /\ ReasoningPart(i, u, r) \in Range(parts) => t = u /\ s = r
         /\ \A i, t, u : <<i, t>> \in Told(parts) /\ <<i, u>> \in Told(parts) => t = u
<1>1. ASSUME NEW i, NEW t, NEW u, NEW s, NEW r, ReasoningPart(i, t, s) \in Range(parts),
             ReasoningPart(i, u, r) \in Range(parts)
      PROVE  t = u /\ s = r
  <2>1. SameThing(ReasoningPart(i, t, s), ReasoningPart(i, u, r))
        /\ ReasoningPart(i, t, s).kind = "reasoning"
    BY DEF SameThing, ReasoningPart
  <2>2. ReasoningPart(i, t, s) = ReasoningPart(i, u, r)
    <3> DEFINE p == ReasoningPart(i, t, s)
               q == ReasoningPart(i, u, r)
    <3>1. p \in Range(parts) /\ q \in Range(parts) /\ p.kind \in K /\ SameThing(p, q)
      BY <1>1, <2>1
    <3> HIDE DEF p, q
    <3>2. p = q
      BY <3>1, KeyedMember
    <3> QED BY <3>2 DEF p, q
  <2> QED BY <2>2, ReasoningPartIs
<1> QED BY <1>1, ToldIs

LEMMA ToldLike ==
  ASSUME NEW a \in Seq(Parts), NEW b \in Seq(Parts),
         \A p : p.kind = "reasoning" => (p \in Range(a) <=> p \in Range(b))
  PROVE  Told(a) = Told(b) /\ Live(a) = Live(b)
<1>1. \A p : p \in Range(a) /\ Thinking(p) <=> p \in Range(b) /\ Thinking(p)
  BY DEF Thinking
<1>2. {p \in Range(a) : Thinking(p)} = {p \in Range(b) : Thinking(p)}
  BY <1>1
<1>3. {p \in Range(a) : Thinking(p) /\ p.state = "streaming"}
        = {p \in Range(b) : Thinking(p) /\ p.state = "streaming"}
  BY <1>1
<1> QED BY <1>2, <1>3 DEF Told, Live

(* A frame of a streaming episode, and the first frame of one.             *)
LEMMA ToldLive ==
  ASSUME NEW parts \in Seq(Parts), Keyed(parts, Kinds),
         NEW phase \in Phases, NEW index \in Live(parts), NEW text \in Seq(Nat),
         NEW old, <<index, old>> \in Told(parts)
  PROVE  LET result == Reasoned(parts, Reasoning(phase, index, text))
         IN  /\ result \in Seq(Parts) /\ Keyed(result, Kinds)
             /\ Told(result) = (Told(parts) \ {<<index, old>>})
                                 \union {<<index, TextAfter(phase, old, text)>>}
             /\ Live(result) = IF phase = "end" THEN Live(parts) \ {index} ELSE Live(parts)
             /\ \A p : p.kind # "reasoning" => (p \in Range(result) <=> p \in Range(parts))
<1> DEFINE result == Reasoned(parts, Reasoning(phase, index, text))
           t == TextAfter(phase, old, text)
           s == StateAfter(phase)
<1>1. "reasoning" \in Kinds /\ index \in Nat
  BY ToldIs DEF Kinds
<1>2. ReasoningPart(index, old, "streaming") \in Range(parts)
  <2>1. PICK u : ReasoningPart(index, u, "streaming") \in Range(parts)
    BY ToldIs
  <2>2. <<index, u>> \in Told(parts)
    BY <2>1, ToldIs
  <2>3. u = old
    BY <1>1, <2>2, ToldOnce
  <2> QED BY <2>1, <2>3
<1>3. /\ result \in Seq(Parts) /\ Keyed(result, Kinds)
      /\ Range(result) = (Range(parts) \ {ReasoningPart(index, old, "streaming")})
                           \union {ReasoningPart(index, t, s)}
  BY <1>1, <1>2, ReasonedLive
<1>4. s = IF phase = "end" THEN "complete" ELSE "streaming"
  BY DEF StateAfter
<1> HIDE DEF result, t, s
<1>5. \A i, u, r : ReasoningPart(i, u, r) \in Range(result) <=>
        \/ ReasoningPart(i, u, r) \in Range(parts) /\ ~(i = index /\ u = old /\ r = "streaming")
        \/ i = index /\ u = t /\ r = s
  <2>1. SUFFICES ASSUME NEW i, NEW u, NEW r
                 PROVE  ReasoningPart(i, u, r) \in Range(result) <=>
                          \/ /\ ReasoningPart(i, u, r) \in Range(parts)
                             /\ ~(i = index /\ u = old /\ r = "streaming")
                          \/ i = index /\ u = t /\ r = s
    OBVIOUS
  <2>2. ReasoningPart(i, u, r) = ReasoningPart(index, old, "streaming") <=>
            i = index /\ u = old /\ r = "streaming"
    BY ReasoningPartIs
  <2>3. ReasoningPart(i, u, r) = ReasoningPart(index, t, s) <=> i = index /\ u = t /\ r = s
    BY ReasoningPartIs
  <2> QED BY <1>3, <2>2, <2>3
<1>6. \A u, r : ReasoningPart(index, u, r) \in Range(parts) => u = old /\ r = "streaming"
  BY <1>1, <1>2, ToldOnce
<1>7. \A i, u : <<i, u>> \in Told(result) <=>
        \/ <<i, u>> \in Told(parts) /\ ~(i = index /\ u = old)
        \/ i = index /\ u = t
  <2>1. \A i, u : <<i, u>> \in Told(result) <=> \/ ReasoningPart(i, u, "streaming") \in Range(result)
                                                \/ ReasoningPart(i, u, "complete") \in Range(result)
    BY <1>3, ToldIs
  <2>2. \A i, u : <<i, u>> \in Told(parts) <=> \/ ReasoningPart(i, u, "streaming") \in Range(parts)
                                               \/ ReasoningPart(i, u, "complete") \in Range(parts)
    BY ToldIs
  <2> QED BY <1>4, <1>5, <1>6, <2>1, <2>2
<1>8. Told(result) = (Told(parts) \ {<<index, old>>}) \union {<<index, t>>}
  <2>1. \A i, u : <<i, u>> = <<index, old>> <=> i = index /\ u = old
    OBVIOUS
  <2>2. \A i, u : <<i, u>> = <<index, t>> <=> i = index /\ u = t
    OBVIOUS
  <2>3. \A e : e \in Told(result) => e = <<e[1], e[2]>>
    BY <1>3, ToldIs
  <2>4. \A e : e \in Told(parts) => e = <<e[1], e[2]>>
    BY ToldIs
  <2>5. \A e : e \in Told(result) => e \in (Told(parts) \ {<<index, old>>}) \union {<<index, t>>}
    BY <1>7, <2>1, <2>2, <2>3
  <2>6. \A e : e \in Told(parts) /\ e # <<index, old>> => e \in Told(result)
    BY <1>7, <2>1, <2>4
  <2>7. <<index, t>> \in Told(result)
    BY <1>7
  <2> QED BY <2>5, <2>6, <2>7
<1>9. Live(result) = IF phase = "end" THEN Live(parts) \ {index} ELSE Live(parts)
  <2>1. \A i : i \in Live(result) <=> \E u : ReasoningPart(i, u, "streaming") \in Range(result)
    BY <1>3, ToldIs
  <2>2. \A i : i \in Live(parts) <=> \E u : ReasoningPart(i, u, "streaming") \in Range(parts)
    BY ToldIs
  <2>3. \A i : i # index => (i \in Live(result) <=> i \in Live(parts))
    BY <1>5, <2>1, <2>2
  <2>4. index \in Live(result) <=> phase # "end"
    BY <1>4, <1>5, <1>6, <2>1
  <2>5. index \in Live(parts)
    OBVIOUS
  <2>6. CASE phase = "end"
    <3>1. \A i : i \in Live(result) <=> i \in Live(parts) \ {index}
      BY <2>3, <2>4, <2>6
    <3> QED BY <2>6, <3>1
  <2>7. CASE phase # "end"
    <3>1. \A i : i \in Live(result) <=> i \in Live(parts)
      BY <2>3, <2>4, <2>5, <2>7
    <3> QED BY <2>7, <3>1
  <2> QED BY <2>6, <2>7
<1>10. ASSUME NEW p, p.kind # "reasoning" PROVE p \in Range(result) <=> p \in Range(parts)
  <2>1. \A u, r : ReasoningPart(index, u, r).kind = "reasoning"
    BY DEF ReasoningPart
  <2> QED BY <1>3, <1>10, <2>1
<1> QED BY <1>3, <1>8, <1>9, <1>10 DEF result, t

LEMMA ToldAnew ==
  ASSUME NEW parts \in Seq(Parts), Keyed(parts, Kinds), NEW index \in Nat,
         \A e \in Told(parts) : e[1] # index
  PROVE  LET result == Reasoned(parts, Reasoning("start", index, <<>>))
         IN  /\ result \in Seq(Parts) /\ Keyed(result, Kinds)
             /\ Told(result) = Told(parts) \union {<<index, <<>>>>}
             /\ Live(result) = Live(parts) \union {index}
             /\ \A p : p.kind # "reasoning" => (p \in Range(result) <=> p \in Range(parts))
<1> DEFINE result == Reasoned(parts, Reasoning("start", index, <<>>))
           none == <<>>
           new == ReasoningPart(index, none, "streaming")
<1>1. "start" \in Phases /\ none \in Seq(Nat) /\ TextAfter("start", <<>>, none) = none
      /\ StateAfter("start") = "streaming"
  BY DEF Phases, TextAfter, StateAfter
<1>2. \A q \in Range(parts) : q.kind = "reasoning" => q.index # index
  <2>1. SUFFICES ASSUME NEW q \in Range(parts), q.kind = "reasoning", q.index = index PROVE FALSE
    OBVIOUS
  <2>2. <<q.index, q.text>> \in Told(parts)
    BY <2>1 DEF Told, Thinking
  <2>3. <<q.index, q.text>>[1] = q.index
    OBVIOUS
  <2> QED BY <2>1, <2>2, <2>3
<1>3. result \in Seq(Parts) /\ Keyed(result, Kinds) /\ Range(result) = Range(parts) \union {new}
  <2>1. result \in Seq(Parts) /\ Keyed(result, Kinds)
    BY <1>1, <1>2, ReasonedAnew
  <2>2. Range(result)
          = Range(parts) \union
              {ReasoningPart(index, TextAfter("start", <<>>, <<>>), StateAfter("start"))}
    <3>1. ASSUME NEW phase \in Phases, NEW text \in Seq(Nat)
          PROVE  Range(Reasoned(parts, Reasoning(phase, index, text)))
                   = Range(parts) \union
                       {ReasoningPart(index, TextAfter(phase, <<>>, text), StateAfter(phase))}
      BY <1>2, ReasonedAnew
    <3> QED BY <1>1, <3>1
  <2> QED BY <1>1, <2>1, <2>2
<1> HIDE DEF result, none
<1>4. \A i, u, r : ReasoningPart(i, u, r) \in Range(result) <=>
        ReasoningPart(i, u, r) \in Range(parts) \/ (i = index /\ u = none /\ r = "streaming")
  <2>1. \A i, u, r : ReasoningPart(i, u, r) = new <=> i = index /\ u = none /\ r = "streaming"
    BY ReasoningPartIs
  <2> HIDE DEF new
  <2> QED BY <1>3, <2>1
<1>5. \A i, u : <<i, u>> \in Told(result) <=> <<i, u>> \in Told(parts) \/ (i = index /\ u = none)
  <2>1. \A i, u : <<i, u>> \in Told(result) <=> \/ ReasoningPart(i, u, "streaming") \in Range(result)
                                                \/ ReasoningPart(i, u, "complete") \in Range(result)
    BY <1>3, ToldIs
  <2>2. \A i, u : <<i, u>> \in Told(parts) <=> \/ ReasoningPart(i, u, "streaming") \in Range(parts)
                                               \/ ReasoningPart(i, u, "complete") \in Range(parts)
    BY ToldIs
  <2> QED BY <1>4, <2>1, <2>2
<1>6. Told(result) = Told(parts) \union {<<index, none>>}
  <2>1. \A i, u : <<i, u>> = <<index, none>> <=> i = index /\ u = none
    OBVIOUS
  <2>2. \A e : e \in Told(result) => e = <<e[1], e[2]>>
    BY <1>3, ToldIs
  <2>3. \A e : e \in Told(parts) => e = <<e[1], e[2]>>
    BY ToldIs
  <2>4. \A e : e \in Told(result) => e \in Told(parts) \union {<<index, none>>}
    BY <1>5, <2>1, <2>2
  <2>5. \A e : e \in Told(parts) => e \in Told(result)
    BY <1>5, <2>3
  <2>6. <<index, none>> \in Told(result)
    BY <1>5
  <2> QED BY <2>4, <2>5, <2>6
<1>7. Live(result) = Live(parts) \union {index}
  <2>1. \A i : i \in Live(result) <=> \E u : ReasoningPart(i, u, "streaming") \in Range(result)
    BY <1>3, ToldIs
  <2>2. \A i : i \in Live(parts) <=> \E u : ReasoningPart(i, u, "streaming") \in Range(parts)
    BY ToldIs
  <2>3. \A i : i \in Live(result) <=> i \in Live(parts) \/ i = index
    BY <1>4, <2>1, <2>2
  <2> QED BY <2>3
<1>8. ASSUME NEW p, p.kind # "reasoning" PROVE p \in Range(result) <=> p \in Range(parts)
  <2>1. new.kind = "reasoning"
    BY DEF ReasoningPart
  <2> HIDE DEF new
  <2> QED BY <1>3, <1>8, <2>1
<1> QED BY <1>3, <1>6, <1>7, <1>8 DEF result, none

------------------------------------------------------------------------------
(* The mapper                                                              *)

WithAt(S, f, x, y) ==
  /\ Indexed(With(f, x, y), S) /\ DOMAIN With(f, x, y) = DOMAIN f \union {x}
  /\ With(f, x, y)[x] = y
  /\ \A z \in DOMAIN f : z # x => With(f, x, y)[z] = f[z]

LEMMA WithHas ==
  ASSUME NEW S, NEW f, Indexed(f, S), NEW x \in Nat, NEW y \in S
  PROVE  WithAt(S, f, x, y)
<1> DEFINE g == With(f, x, y)
<1>1. /\ DOMAIN g = DOMAIN f \union {x} /\ g[x] = y
      /\ \A z \in DOMAIN f : z # x => g[z] = f[z]
      /\ g = [z \in DOMAIN f \union {x} |-> g[z]]
  BY DEF With
<1> HIDE DEF g
<1>2. f \in [DOMAIN f -> S] /\ DOMAIN f \subseteq Nat /\ IsFiniteSet(DOMAIN f)
  BY DEF Indexed
<1>3. \A z \in DOMAIN f \union {x} : g[z] \in S
  BY <1>1, <1>2
<1>4. g \in [DOMAIN g -> S]
  BY <1>1, <1>3
<1>5. IsFiniteSet(DOMAIN g) /\ DOMAIN g \subseteq Nat
  BY <1>1, <1>2, FS_AddElement
<1>6. Indexed(g, S)
  BY <1>4, <1>5 DEF Indexed
<1> QED BY <1>1, <1>6 DEF g, WithAt

WithoutAt(S, f, x) ==
  /\ Indexed(Without(f, x), S) /\ DOMAIN Without(f, x) = DOMAIN f \ {x}
  /\ \A z \in DOMAIN f : z # x => Without(f, x)[z] = f[z]

LEMMA WithoutHas ==
  ASSUME NEW S, NEW f, Indexed(f, S), NEW x
  PROVE  WithoutAt(S, f, x)
<1> DEFINE g == Without(f, x)
<1>1. /\ DOMAIN g = DOMAIN f \ {x} /\ \A z \in DOMAIN f : z # x => g[z] = f[z]
      /\ g = [z \in DOMAIN f \ {x} |-> g[z]]
  BY DEF Without
<1> HIDE DEF g
<1>2. f \in [DOMAIN f -> S] /\ DOMAIN f \subseteq Nat /\ IsFiniteSet(DOMAIN f)
  BY DEF Indexed
<1>3. \A z \in DOMAIN f \ {x} : g[z] \in S
  BY <1>1, <1>2
<1>4. g \in [DOMAIN g -> S]
  BY <1>1, <1>3
<1>5. IsFiniteSet(DOMAIN g) /\ DOMAIN g \subseteq Nat
  BY <1>1, <1>2, FS_Subset
<1>6. Indexed(g, S)
  BY <1>4, <1>5 DEF Indexed
<1> QED BY <1>1, <1>6 DEF g, WithoutAt

LEMMA NothingIs ==
  ASSUME NEW S
  PROVE  Indexed(Nothing, S) /\ DOMAIN Nothing = {}
BY FS_EmptySet DEF Indexed, Nothing

(* A fresh index is one that no part has.                                  *)
LEMMA FreshIs ==
  ASSUME NEW m, MapperSound(m), NEW r \in Nat
  PROVE  FreshIndex(m, r) \in Nat /\ FreshIndex(m, r) \notin m.claimed
<1>1. m.claimed \subseteq Nat /\ IsFiniteSet(m.claimed) /\ m.next \in Nat
      /\ \A i \in m.claimed : i < m.next
  BY DEF MapperSound, MapperTyped
<1> DEFINE from == IF m.next > r THEN m.next ELSE r + 1
           free == {i \in from .. from + Cardinality(m.claimed) : i \notin m.claimed}
<1>2. from \in Nat /\ from >= m.next
  BY <1>1
<1>3. Cardinality(m.claimed) \in Nat
  BY <1>1, FS_CardinalityType
<1>4. FreshIndex(m, r) = IF r \notin m.claimed THEN r ELSE Least(free)
  BY DEF FreshIndex
<1> HIDE DEF from
<1>5. from \in free
  BY <1>1, <1>2, <1>3
<1>6. free \subseteq Nat /\ \A i \in free : i \notin m.claimed
  BY <1>2, <1>3
<1> HIDE DEF free
<1>7. Least(free) \in free
  BY <1>5, <1>6, LeastIs
<1> QED BY <1>4, <1>6, <1>7

LEMMA ClaimedIs ==
  ASSUME NEW m, MapperSound(m), NEW r \in Nat, NEW index \in Nat
  PROVE  LET c == Claimed(m, r, index)
         IN  /\ MapperSound(c)
             /\ c.claimed = m.claimed \union {index} /\ c.indexOf = With(m.indexOf, r, index)
             /\ c.text = m.text /\ c.reasoning = m.reasoning /\ c.active = m.active
             /\ c.message = m.message /\ c.tools = m.tools /\ c.starts = m.starts
             /\ c.failed = m.failed
<1> DEFINE c == Claimed(m, r, index)
           next == IF m.next > index THEN m.next ELSE index + 1
           indexOf == With(m.indexOf, r, index)
<1>1. MapperTyped(m)
  BY DEF MapperSound
<1>2. /\ MapperRecord(c)
      /\ c.claimed = m.claimed \union {index} /\ c.next = next /\ c.indexOf = indexOf
      /\ c.text = m.text /\ c.reasoning = m.reasoning /\ c.active = m.active
      /\ c.message = m.message /\ c.tools = m.tools /\ c.starts = m.starts
      /\ c.failed = m.failed
  <2>1. MapperRecord(m)
    BY <1>1 DEF MapperTyped
  <2> QED BY ONLY <2>1 DEF Claimed, MapperRecord, MapperFields
<1>3. Indexed(indexOf, Nat)
  BY <1>1, WithHas DEF MapperTyped, WithAt
<1>4. IsFiniteSet(m.claimed \union {index})
  BY <1>1, FS_AddElement DEF MapperTyped
<1>5. m.next \in Nat /\ \A i \in m.claimed : i < m.next /\ i \in Nat
  BY <1>1 DEF MapperSound, MapperTyped
<1>6. next \in Nat /\ \A i \in m.claimed \union {index} : i < next
  BY <1>5
<1> HIDE DEF c, next, indexOf
<1>7. MapperTyped(c)
  BY <1>1, <1>2, <1>3, <1>4, <1>6 DEF MapperTyped
<1>8. MapperSound(c)
  BY <1>2, <1>6, <1>7 DEF MapperSound
<1> QED BY <1>2, <1>8 DEF c, indexOf

(* What an event sets of the episodes.                                     *)
LEMMA EpisodesSet ==
  ASSUME NEW m, MapperSound(m), NEW reasoning, NEW active, NEW indexOf,
         Indexed(reasoning, Seq(Nat)), DOMAIN reasoning \subseteq m.claimed,
         Indexed(active, Nat), \A r \in DOMAIN active : active[r] \in m.claimed,
         Indexed(indexOf, Nat)
  PROVE  MapperSound([m EXCEPT !.reasoning = reasoning, !.active = active, !.indexOf = indexOf])
<1> DEFINE s == [m EXCEPT !.reasoning = reasoning, !.active = active, !.indexOf = indexOf]
<1>1. /\ MapperRecord(s)
      /\ s.reasoning = reasoning /\ s.active = active /\ s.indexOf = indexOf
      /\ s.text = m.text /\ s.claimed = m.claimed /\ s.next = m.next
      /\ s.message = m.message /\ s.tools = m.tools /\ s.starts = m.starts
      /\ s.failed = m.failed
  <2>1. MapperRecord(m)
    BY DEF MapperSound, MapperTyped
  <2> QED BY ONLY <2>1 DEF MapperRecord, MapperFields
<1> HIDE DEF s
<1>2. MapperTyped(s)
  BY <1>1 DEF MapperSound, MapperTyped
<1>3. MapperSound(s)
  BY <1>1, <1>2 DEF MapperSound
<1> QED BY <1>3 DEF s

LEMMA OpenedIs ==
  ASSUME NEW m, MapperSound(m), NEW r \in Nat
  PROVE  LET o == Opened(m, r)
             i == FreshIndex(m, r)
         IN  /\ MapperSound(o) /\ i \in Nat /\ i \notin m.claimed
             /\ o.claimed = m.claimed \union {i} /\ o.indexOf = With(m.indexOf, r, i)
             /\ o.active = With(m.active, r, i) /\ o.active[r] = i
             /\ o.text = m.text /\ o.reasoning = m.reasoning
             /\ o.message = m.message /\ o.tools = m.tools /\ o.starts = m.starts
             /\ o.failed = m.failed
<1> DEFINE o == Opened(m, r)
           i == FreshIndex(m, r)
           c == Claimed(m, r, i)
           active == With(m.active, r, i)
<1>1. i \in Nat /\ i \notin m.claimed
  BY FreshIs
<1> HIDE DEF i
<1>2. /\ MapperSound(c)
      /\ c.claimed = m.claimed \union {i} /\ c.indexOf = With(m.indexOf, r, i)
      /\ c.text = m.text /\ c.reasoning = m.reasoning /\ c.active = m.active
      /\ c.message = m.message /\ c.tools = m.tools /\ c.starts = m.starts
      /\ c.failed = m.failed
  BY <1>1, ClaimedIs
<1> HIDE DEF c
<1>3. o = [c EXCEPT !.active = With(@, r, i)]
  BY DEF Opened, i, c
<1> HIDE DEF o
<1>4. MapperRecord(c) /\ Indexed(c.active, Nat)
  BY <1>2 DEF MapperSound, MapperTyped
<1>5. Indexed(active, Nat) /\ DOMAIN active = DOMAIN m.active \union {r} /\ active[r] = i
      /\ \A z \in DOMAIN m.active : z # r => active[z] = m.active[z]
  <2>1. Indexed(m.active, Nat)
    BY <1>2, <1>4
  <2>2. Indexed(active, Nat)
    BY <1>1, <2>1, WithHas DEF WithAt
  <2>3. DOMAIN active = DOMAIN m.active \union {r} /\ active[r] = i
    BY DEF With
  <2>4. \A z \in DOMAIN m.active : z # r => active[z] = m.active[z]
    BY DEF With
  <2> HIDE DEF active
  <2> QED BY <2>2, <2>3, <2>4
<1> HIDE DEF active
<1>6. /\ MapperRecord(o) /\ o.active = active
      /\ o.reasoning = c.reasoning /\ o.indexOf = c.indexOf /\ o.next = c.next
      /\ o.text = c.text /\ o.claimed = c.claimed
      /\ o.message = c.message /\ o.tools = c.tools /\ o.starts = c.starts
      /\ o.failed = c.failed
  BY <1>2, <1>3, <1>4 DEF MapperRecord, MapperFields, active
<1>7. \A z \in DOMAIN active : active[z] \in c.claimed
  BY <1>2, <1>5 DEF MapperSound
<1>8. MapperTyped(o)
  BY <1>2, <1>5, <1>6 DEF MapperSound, MapperTyped
<1>9. MapperSound(o)
  BY <1>2, <1>6, <1>7, <1>8 DEF MapperSound
<1> QED BY <1>1, <1>2, <1>5, <1>6, <1>9 DEF o, i, active

(* The episode that a frame of a block belongs to.                         *)
LEMMA ResolvedIs ==
  ASSUME NEW m, MapperSound(m), NEW r \in Nat
  PROVE  LET o == Resolved(m, r)
         IN  /\ MapperSound(o) /\ o.active[r] \in o.claimed /\ o.active[r] \in Nat
             /\ DOMAIN o.active = DOMAIN m.active \union {r}
             /\ o.text = m.text /\ o.reasoning = m.reasoning
             /\ o.message = m.message /\ o.tools = m.tools /\ o.starts = m.starts
             /\ o.failed = m.failed
<1>1. CASE r \in DOMAIN m.active
  <2>1. Resolved(m, r) = m
    BY <1>1 DEF Resolved
  <2>2. m.active[r] \in m.claimed /\ m.claimed \subseteq Nat
    BY <1>1 DEF MapperSound, MapperTyped
  <2> QED BY <1>1, <2>1, <2>2
<1>2. CASE r \notin DOMAIN m.active
  <2> DEFINE i == FreshIndex(m, r)
             o == Opened(m, r)
  <2>1. /\ MapperSound(o) /\ i \in Nat
        /\ o.claimed = m.claimed \union {i}
        /\ o.active = With(m.active, r, i) /\ o.active[r] = i
        /\ o.text = m.text /\ o.reasoning = m.reasoning
        /\ o.message = m.message /\ o.tools = m.tools /\ o.starts = m.starts
        /\ o.failed = m.failed
    BY OpenedIs
  <2>2. Resolved(m, r) = o
    BY <1>2 DEF Resolved
  <2> HIDE DEF i, o
  <2>3. DOMAIN With(m.active, r, i) = DOMAIN m.active \union {r}
    BY DEF With
  <2> QED BY <2>1, <2>2, <2>3
<1> QED BY <1>1, <1>2

LEMMA ClosedIs ==
  ASSUME NEW m, MapperSound(m)
  PROVE  LET c == Closed(m)
         IN  /\ MapperSound(c) /\ c.active = Nothing
             /\ c.reasoning = m.reasoning /\ c.indexOf = m.indexOf /\ c.next = m.next
             /\ c.text = m.text /\ c.claimed = m.claimed
             /\ c.message = m.message /\ c.tools = m.tools /\ c.starts = m.starts
             /\ c.failed = m.failed
<1> DEFINE c == Closed(m)
<1>1. MapperRecord(m)
  BY DEF MapperSound, MapperTyped
<1>2. /\ MapperRecord(c) /\ c.active = Nothing
      /\ c.reasoning = m.reasoning /\ c.indexOf = m.indexOf /\ c.next = m.next
      /\ c.text = m.text /\ c.claimed = m.claimed
      /\ c.message = m.message /\ c.tools = m.tools /\ c.starts = m.starts
      /\ c.failed = m.failed
  BY <1>1 DEF MapperRecord, MapperFields, Closed
<1> HIDE DEF c
<1>3. Indexed(Nothing, Nat) /\ DOMAIN Nothing = {}
  BY NothingIs
<1>4. MapperTyped(c)
  BY <1>2, <1>3 DEF MapperSound, MapperTyped
<1>5. MapperSound(c)
  BY <1>2, <1>3, <1>4 DEF MapperSound
<1> QED BY <1>2, <1>5 DEF c

LEMMA TextOfIs ==
  ASSUME NEW m, MapperSound(m), NEW index
  PROVE  /\ TextOf(m, index) \in Seq(Nat)
         /\ index \in DOMAIN m.reasoning => TextOf(m, index) = m.reasoning[index]
<1>1. \A i \in DOMAIN m.reasoning : m.reasoning[i] \in Seq(Nat)
  BY DEF MapperSound, MapperTyped, Indexed
<1>2. <<>> \in Seq(Nat)
  OBVIOUS
<1> QED BY <1>1, <1>2 DEF TextOf

LEMMA FramesMade ==
  /\ \A phase \in Phases, index \in Nat, text \in Seq(Nat) : Reasoning(phase, index, text) \in Frames
  /\ \A text \in Seq(Nat) : Delta(text) \in Frames
  /\ \A part \in CallParts : ToolFrame(part) \in Frames
  /\ SummaryFrame \in Frames
  /\ \A type \in {"message", "done"}, parts \in Seq(Parts) :
       Keyed(parts, {"tool"}) => [type |-> type, parts |-> parts] \in Frames
BY DEF Frames, Reasoning, Delta, ToolFrame, SummaryFrame

(* The frames that end what is active.                                     *)
LEMMA ClosingIs ==
  ASSUME NEW m, MapperSound(m)
  PROVE  /\ Closing(m) \in Seq(Frames)
         /\ \A i \in 1 .. Len(Closing(m)) : \E r \in DOMAIN m.active :
              Closing(m)[i] = Reasoning("end", m.active[r], TextOf(m, m.active[r]))
<1> DEFINE A == DOMAIN m.active
           c == Closing(m)
           n == Cardinality(A)
<1>1. A \subseteq Nat /\ IsFiniteSet(A) /\ \A r \in A : m.active[r] \in Nat
  BY DEF MapperSound, MapperTyped, Indexed
<1>2. n \in Nat /\ \A k \in 1 .. n : Ascending(A)[k] \in A
  BY <1>1, AscendingIs
<1>3. c = [k \in 1 .. n |->
          Reasoning("end", m.active[Ascending(A)[k]], TextOf(m, m.active[Ascending(A)[k]]))]
  BY DEF Closing
<1> HIDE DEF A, c, n
<1>4. \A r \in A : Reasoning("end", m.active[r], TextOf(m, m.active[r])) \in Frames
  <2>1. \A r \in A : TextOf(m, m.active[r]) \in Seq(Nat)
    BY TextOfIs
  <2>2. "end" \in Phases
    BY DEF Phases
  <2> QED BY <1>1, <2>1, <2>2, FramesMade
<1>5. \A k \in 1 .. n : c[k] \in Frames
        /\ \E r \in A : c[k] = Reasoning("end", m.active[r], TextOf(m, m.active[r]))
  BY <1>2, <1>3, <1>4
<1>6. c \in [1 .. n -> Frames]
  BY <1>3, <1>5
<1>7. c \in Seq(Frames) /\ Len(c) = n
  BY <1>2, <1>6
<1> QED BY <1>5, <1>7 DEF c, A

(* They change nothing that a calm bubble tells.                           *)
LEMMA ClosingShown ==
  ASSUME NEW m, MapperSound(m), NEW parts \in Seq(Parts), Keyed(parts, Kinds),
         \A r \in DOMAIN m.active : m.active[r] \in DOMAIN m.reasoning,
         \A i \in DOMAIN m.reasoning : <<i, m.reasoning[i]>> \in Told(parts)
  PROVE  LET b == Shown(parts, Closing(m))
         IN  /\ b \in Seq(Parts) /\ Keyed(b, Kinds) /\ Told(b) = Told(parts)
             /\ \A p : p.kind # "reasoning" => (p \in Range(b) <=> p \in Range(parts))
<1> DEFINE frames == Closing(m)
           n == Len(frames)
           Alike(b) == /\ b \in Seq(Parts) /\ Keyed(b, Kinds) /\ Told(b) = Told(parts)
                       /\ \A p : p.kind # "reasoning" => (p \in Range(b) <=> p \in Range(parts))
           Ch == [i \in 0 .. n |-> {b \in Seq(Parts) : Alike(b)}]
<1>1. /\ frames \in Seq(Frames) /\ n \in Nat
      /\ \A i \in 1 .. n : \E r \in DOMAIN m.active :
           frames[i] = Reasoning("end", m.active[r], TextOf(m, m.active[r]))
  <2>1. frames \in Seq(Frames)
    BY ClosingIs
  <2> QED BY <2>1, ClosingIs
<1> HIDE DEF frames, n
<1>2. \A i \in 0 .. n : \A b : b \in Ch[i] <=> Alike(b)
  OBVIOUS
<1>3. Alike(parts)
  OBVIOUS
<1> HIDE DEF Ch
<1>4. /\ 0 \in 0 .. n /\ n \in 0 .. n /\ \A i \in 1 .. n : i \in 0 .. n /\ i - 1 \in 0 .. n
  BY <1>1
<1>5. ASSUME NEW b, Alike(b), NEW r \in DOMAIN m.active
      PROVE  Alike(Folded(b, Reasoning("end", m.active[r], TextOf(m, m.active[r]))))
  <2> DEFINE index == m.active[r]
             text == TextOf(m, index)
  <2>1. Folded(b, Reasoning("end", index, text)) = Reasoned(b, Reasoning("end", index, text))
    BY DEF Folded, Reasoning
  <2>2. text \in Seq(Nat) /\ <<index, text>> \in Told(b) /\ index \in Nat
    <3>1. index \in DOMAIN m.reasoning /\ text = m.reasoning[index]
      BY TextOfIs
    <3>2. index \in Nat
      BY DEF MapperSound, MapperTyped, Indexed
    <3> QED BY <1>5, <3>1, <3>2, TextOfIs
  <2> HIDE DEF index, text
  <2>3. CASE ReasoningPart(index, text, "complete") \in Range(b)
    <3>1. "reasoning" \in Kinds
      BY DEF Kinds
    <3>2. Reasoned(b, Reasoning("end", index, text)) = b
      BY <1>5, <2>2, <2>3, <3>1, ReasonedOver
    <3> QED BY <1>5, <2>1, <3>2 DEF index, text
  <2>4. CASE ReasoningPart(index, text, "streaming") \in Range(b)
    <3> DEFINE result == Reasoned(b, Reasoning("end", index, text))
    <3>1. index \in Live(b) /\ "end" \in Phases /\ TextAfter("end", text, text) = text
      <4>1. index \in Live(b)
        BY <1>5, <2>4, ToldIs
      <4> QED BY <4>1 DEF Phases, TextAfter
    <3>2. /\ result \in Seq(Parts) /\ Keyed(result, Kinds)
          /\ Told(result) = (Told(b) \ {<<index, text>>}) \union {<<index, TextAfter("end", text, text)>>}
          /\ \A p : p.kind # "reasoning" => (p \in Range(result) <=> p \in Range(b))
      BY <1>5, <2>2, <3>1, ToldLive
    <3> HIDE DEF result
    <3>3. Told(result) = Told(b)
      BY <2>2, <3>1, <3>2
    <3>4. Alike(result)
      BY <1>5, <3>2, <3>3
    <3> QED BY <2>1, <3>4 DEF result, index, text
  <2> QED BY <1>5, <2>2, <2>3, <2>4, ToldIs
<1> HIDE DEF Alike
<1>6. parts \in Ch[0]
  BY <1>2, <1>3, <1>4
<1>7. \A i \in 1 .. n : \A b \in Ch[i - 1] : Folded(b, frames[i]) \in Ch[i]
  BY <1>1, <1>2, <1>4, <1>5
<1>8. Shown(parts, frames) \in Ch[n]
  BY <1>1, <1>6, <1>7, ShownIn DEF n
<1>9. Alike(Shown(parts, frames))
  BY <1>2, <1>4, <1>8
<1> QED BY <1>9 DEF Alike, frames

------------------------------------------------------------------------------
(* The tools of a run                                                      *)

LEMMA CallPartsAre ==
  /\ \A n \in Nat, s \in {"running", "available", "error"} :
       /\ ToolPart(n, TRUE, s) \in CallParts
       /\ ToolPart(n, TRUE, s).n = n /\ ToolPart(n, TRUE, s).state = s
       /\ ToolPart(n, TRUE, s).kind = "tool"
  /\ \A p \in CallParts : /\ p.kind = "tool" /\ p.n \in Nat /\ p.named = TRUE /\ p \in Parts
                          /\ p.state \in {"running", "available", "error"}
                          /\ p = ToolPart(p.n, TRUE, p.state)
  /\ \A p, q \in CallParts : SameThing(p, q) <=> p.n = q.n
<1>1. \A n \in Nat, s \in {"running", "available", "error"} :
        /\ ToolPart(n, TRUE, s) \in CallParts
        /\ ToolPart(n, TRUE, s).n = n /\ ToolPart(n, TRUE, s).state = s
        /\ ToolPart(n, TRUE, s).kind = "tool"
  BY DEF CallParts, ToolPart
<1>2. \A p \in CallParts : /\ p.kind = "tool" /\ p.n \in Nat /\ p.named = TRUE /\ p \in Parts
                           /\ p.state \in {"running", "available", "error"}
                           /\ p = ToolPart(p.n, TRUE, p.state)
  BY KindsOfParts DEF Parts
<1>3. \A p, q \in CallParts : SameThing(p, q) <=> p.n = q.n
  BY <1>2 DEF SameThing
<1> QED BY <1>1, <1>2, <1>3

LEMMA ToolMade ==
  ASSUME NEW n \in Nat, NEW s \in {"running", "available", "error"}
  PROVE  /\ ToolPart(n, TRUE, s) \in CallParts
         /\ ToolPart(n, TRUE, s).n = n /\ ToolPart(n, TRUE, s).state = s
         /\ ToolPart(n, TRUE, s).kind = "tool"
BY DEF CallParts, ToolPart

LEMMA ToolAtIs ==
  ASSUME NEW tools \in Seq(CallParts), NEW n
  PROVE  /\ ToolAt(tools, n) \in 0 .. Len(tools)
         /\ ToolAt(tools, n) # 0 => ToolAt(tools, n) \in 1 .. Len(tools) /\ tools[ToolAt(tools, n)].n = n
         /\ ToolAt(tools, n) = 0 <=> \A p \in Range(tools) : p.n # n
<1> DEFINE S == {i \in DOMAIN tools : tools[i].n = n}
<1>1. S \subseteq 1 .. Len(tools) /\ Len(tools) \in Nat
  OBVIOUS
<1>2. ToolAt(tools, n) = First(S)
  BY DEF ToolAt
<1>3. \A i : i \in S <=> i \in 1 .. Len(tools) /\ tools[i].n = n
  OBVIOUS
<1>4. S = {} <=> \A p \in Range(tools) : p.n # n
  BY <1>3, RangeIs
<1> HIDE DEF S
<1>5. CASE S = {}
  BY <1>1, <1>2, <1>4, <1>5, FirstIs
<1>6. CASE S # {}
  <2>1. First(S) \in S /\ First(S) # 0 /\ First(S) \in 0 .. Len(tools)
    BY <1>1, <1>6, FirstIs
  <2> QED BY <1>2, <1>3, <1>4, <1>6, <2>1
<1> QED BY <1>5, <1>6

LEMMA UpsertedIs ==
  ASSUME NEW tools \in Seq(CallParts), Keyed(tools, {"tool"}), NEW part \in CallParts
  PROVE  /\ Upserted(tools, part) \in Seq(CallParts) /\ Keyed(Upserted(tools, part), {"tool"})
         /\ part \in Range(Upserted(tools, part))
         /\ \A p \in Range(tools) : p.n # part.n => p \in Range(Upserted(tools, part))
<1> DEFINE i == ToolAt(tools, part.n)
<1>1. /\ i # 0 => i \in 1 .. Len(tools) /\ tools[i].n = part.n
      /\ i = 0 <=> \A p \in Range(tools) : p.n # part.n
  BY ToolAtIs
<1>2. Upserted(tools, part) = IF i = 0 THEN Append(tools, part) ELSE ReplaceAt(tools, i, part)
  BY DEF Upserted
<1> HIDE DEF i
<1>3. \A p \in Range(tools) : p \in CallParts
  BY RangeIs
<1>4. CASE i = 0
  <2>1. \A q \in Range(tools) : ~SameThing(q, part)
    BY <1>1, <1>3, <1>4, CallPartsAre
  <2>2. Keyed(Append(tools, part), {"tool"})
    BY <2>1, KeyedAppend
  <2>3. Append(tools, part) \in Seq(CallParts)
    OBVIOUS
  <2>4. Range(Append(tools, part)) = Range(tools) \union {part}
    BY AppendIs
  <2> QED BY <1>2, <1>4, <2>2, <2>3, <2>4
<1>5. CASE i # 0
  <2>1. i \in 1 .. Len(tools) /\ tools[i].n = part.n
    BY <1>1, <1>5
  <2>2. tools[i] \in CallParts
    BY <2>1
  <2>3. SameThing(tools[i], part) /\ part.kind \in {"tool"}
    BY <2>1, <2>2, CallPartsAre
  <2>4. ReplaceAt(tools, i, part) \in Seq(CallParts) /\ Keyed(ReplaceAt(tools, i, part), {"tool"})
    BY <2>1, <2>3, KeyedReplace
  <2>5. Range(ReplaceAt(tools, i, part)) = (Range(tools) \ {tools[i]}) \union {part}
    BY <2>1, <2>3, KeyedReplace
  <2>6. \A p \in Range(tools) : p.n # part.n => p # tools[i]
    BY <2>1
  <2> QED BY <1>2, <1>5, <2>4, <2>5, <2>6
<1> QED BY <1>4, <1>5

------------------------------------------------------------------------------
(* The texts of a message                                                  *)

LEMMA WordIs ==
  /\ \A n \in 1 .. MaxBlocks : n \in Nat /\ Word[n] \in Nat /\ Word[n] \in Range(Word)
  /\ Range(Word) \subseteq Nat
BY RunTranscriptAssumption DEF Range

LEMMA BlocksAre ==
  ASSUME NEW blocks \in Seq(Blocks)
  PROVE  /\ \A k \in 1 .. Len(blocks) : /\ blocks[k] \in Blocks /\ blocks[k].n \in Nat
                                       /\ blocks[k].kind \in {"text", "thinking", "tool"}
                                       /\ Word[blocks[k].n] \in Nat
         /\ Len(blocks) \in Nat /\ DOMAIN blocks = 1 .. Len(blocks)
<1>1. \A b \in Blocks : b.n \in Nat /\ b.kind \in {"text", "thinking", "tool"} /\ Word[b.n] \in Nat
  BY WordIs DEF Blocks
<1>2. Len(blocks) \in Nat /\ DOMAIN blocks = 1 .. Len(blocks)
        /\ \A k \in 1 .. Len(blocks) : blocks[k] \in Blocks
  OBVIOUS
<1> QED BY <1>1, <1>2

LEMMA TextsIs ==
  ASSUME NEW blocks \in Seq(Blocks)
  PROVE  /\ Texts(blocks) \in Seq(Nat) /\ Len(Texts(blocks)) = Cardinality(At(blocks, "text"))
         /\ \A k \in 1 .. Len(Texts(blocks)) :
              Texts(blocks)[k] = Word[blocks[Ascending(At(blocks, "text"))[k]].n]
         /\ IsFiniteSet(At(blocks, "text")) /\ At(blocks, "text") \subseteq 1 .. Len(blocks)
<1> DEFINE S == At(blocks, "text")
           p == Picked(blocks, S)
           t == Texts(blocks)
           m == Cardinality(S)
<1>1. S \subseteq 1 .. Len(blocks)
  BY AtIs
<1>2. p \in Seq(Blocks) /\ Len(p) = m /\ Range(p) = {blocks[i] : i \in S} /\ IsFiniteSet(S) /\ m \in Nat
  <2>1. p \in Seq(Blocks) /\ Len(p) = m
    BY <1>1, PickedIs
  <2>2. Range(p) = {blocks[i] : i \in S} /\ IsFiniteSet(S) /\ m \in Nat
    BY <1>1, PickedIs
  <2> QED BY <2>1, <2>2
<1>3. t = [k \in DOMAIN p |-> Word[p[k].n]]
  BY DEF Texts
<1>4. p = [k \in 1 .. m |-> blocks[Ascending(S)[k]]]
  BY DEF Picked
<1> HIDE DEF p, t
<1>5. DOMAIN p = 1 .. m /\ \A k \in 1 .. m : p[k] \in Blocks /\ Word[p[k].n] \in Nat
  BY <1>2, BlocksAre
<1>6. t \in [1 .. m -> Nat]
  BY <1>3, <1>5
<1>7. t \in Seq(Nat) /\ Len(t) = m
  BY <1>2, <1>6
<1>8. \A k \in 1 .. m : t[k] = Word[blocks[Ascending(S)[k]].n]
  BY <1>3, <1>4, <1>5
<1> QED BY <1>1, <1>2, <1>7, <1>8 DEF t

(* The texts of a message that goes on.                                    *)
LEMMA TextsAppend ==
  ASSUME NEW blocks \in Seq(Blocks), NEW b \in Blocks
  PROVE  Texts(Append(blocks, b)) =
           IF b.kind = "text" THEN Append(Texts(blocks), Word[b.n]) ELSE Texts(blocks)
<1> DEFINE more == Append(blocks, b)
           n == Len(blocks)
           S == At(blocks, "text")
           R == At(more, "text")
<1>1. /\ more \in Seq(Blocks) /\ Len(more) = n + 1 /\ n \in Nat
      /\ \A i \in 1 .. n : more[i] = blocks[i]
      /\ more[n + 1] = b /\ Word[b.n] \in Nat
  BY AppendIs, WordIs DEF Blocks
<1>2. S \subseteq 1 .. n /\ \A i \in 1 .. n : i \in S <=> blocks[i].kind = "text"
  BY AtIs
<1>3. R \subseteq 1 .. n + 1 /\ \A i \in 1 .. n + 1 : i \in R <=> more[i].kind = "text"
  <2>1. 1 .. Len(more) = 1 .. n + 1
    BY <1>1
  <2>2. R \subseteq 1 .. Len(more)
    BY <1>1, AtIs
  <2>3. ASSUME NEW s \in Seq(Blocks) PROVE \A i \in 1 .. Len(s) : i \in At(s, "text") <=> s[i].kind = "text"
    BY AtIs
  <2>4. \A i \in 1 .. Len(more) : i \in R <=> more[i].kind = "text"
    BY <1>1, <2>3
  <2> HIDE DEF more, R, n
  <2> QED BY <2>1, <2>2, <2>4
<1>4. IsFiniteSet(S) /\ IsFiniteSet(R)
  BY <1>1, TextsIs
<1>5. /\ Texts(blocks) \in Seq(Nat) /\ Len(Texts(blocks)) = Cardinality(S)
      /\ \A k \in 1 .. Len(Texts(blocks)) : Texts(blocks)[k] = Word[blocks[Ascending(S)[k]].n]
  BY TextsIs
<1>6. /\ Texts(more) \in Seq(Nat) /\ Len(Texts(more)) = Cardinality(R)
      /\ \A k \in 1 .. Len(Texts(more)) : Texts(more)[k] = Word[more[Ascending(R)[k]].n]
  BY <1>1, TextsIs
<1> HIDE DEF more, n, S, R
<1>7. S \subseteq Nat /\ Cardinality(S) \in Nat /\ \A k \in 1 .. Cardinality(S) : Ascending(S)[k] \in S
  <2>1. S \subseteq Nat
    BY <1>1, <1>2
  <2> QED BY <1>4, <2>1, AscendingIs
<1> DEFINE c == Cardinality(S)
<1>8. CASE b.kind = "text"
  <2>1. R = S \union {n + 1}
    <3>1. \A i \in 1 .. n + 1 : i \in 1 .. n \/ i = n + 1
      BY <1>1
    <3>2. (\A i \in 1 .. n : i \in 1 .. n + 1) /\ n + 1 \in 1 .. n + 1
      BY <1>1
    <3>3. \A i \in R : i \in S \union {n + 1}
      BY <1>1, <1>2, <1>3, <3>1
    <3>4. \A i \in S : i \in R
      BY <1>1, <1>2, <1>3, <3>2
    <3>5. n + 1 \in R
      BY <1>1, <1>3, <1>8, <3>2
    <3> QED BY <3>3, <3>4, <3>5
  <2>2. Ascending(R) = Append(Ascending(S), n + 1) /\ Cardinality(R) = c + 1
    <3>1. n + 1 \in Nat /\ \A x \in S : x < n + 1
      BY <1>1, <1>2
    <3>2. n + 1 \notin S
      BY <1>1, <1>2
    <3>3. Ascending(R) = Append(Ascending(S), n + 1)
      BY <1>4, <1>7, <2>1, <3>1, AscendingAppend
    <3> QED BY <1>4, <2>1, <3>2, <3>3, FS_AddElement
  <2>3. Ascending(S) \in Seq(Nat) /\ Len(Ascending(S)) = c
    <3>1. Ascending(S) \in Seq(S) /\ Len(Ascending(S)) = c
      BY <1>4, <1>7, AscendingIs
    <3>2. Seq(S) \subseteq Seq(Nat)
      BY <1>7, SeqsGrow
    <3> QED BY <3>1, <3>2
  <2>4. \A k \in 1 .. c : Ascending(R)[k] = Ascending(S)[k]
    BY <1>1, <2>2, <2>3, AppendIs
  <2>5. Ascending(R)[c + 1] = n + 1
    BY <1>1, <2>2, <2>3, AppendIs
  <2> HIDE DEF c
  <2> DEFINE t == Texts(blocks)
             u == Texts(more)
  <2>6. /\ t \in Seq(Nat) /\ Len(t) = c /\ u \in Seq(Nat) /\ Len(u) = c + 1 /\ c \in Nat
        /\ u[c + 1] = Word[b.n]
    <3>1. t \in Seq(Nat) /\ Len(t) = c /\ u \in Seq(Nat) /\ Len(u) = c + 1 /\ c \in Nat
      BY <1>5, <1>6, <1>7, <2>2 DEF c
    <3>2. c + 1 \in 1 .. Len(u)
      BY <3>1
    <3>3. u[c + 1] = Word[more[Ascending(R)[c + 1]].n]
      BY <1>6, <3>2
    <3> QED BY <1>1, <2>5, <3>1, <3>3
  <2>7. \A k \in 1 .. c : u[k] = t[k]
    <3>1. SUFFICES ASSUME NEW k \in 1 .. c PROVE u[k] = t[k]
      OBVIOUS
    <3>2. k \in 1 .. Len(u) /\ k \in 1 .. Len(t) /\ Ascending(S)[k] \in 1 .. n
      <4>1. Ascending(S)[k] \in S
        BY <1>7 DEF c
      <4>2. Ascending(S)[k] \in 1 .. n
        BY <1>2, <4>1
      <4> HIDE DEF t, u, S
      <4>3. k \in 1 .. c + 1
        BY <2>6
      <4> QED BY <2>6, <4>2, <4>3
    <3>3. u[k] = Word[more[Ascending(R)[k]].n] /\ t[k] = Word[blocks[Ascending(S)[k]].n]
      BY <1>5, <1>6, <3>2
    <3> QED BY <1>1, <2>4, <3>2, <3>3
  <2> HIDE DEF t, u
  <2>8. u = Append(t, Word[b.n])
    <3> DEFINE a == Append(t, Word[b.n])
    <3>1. a \in Seq(Nat) /\ Len(a) = c + 1 /\ (\A i \in 1 .. c : a[i] = t[i]) /\ a[c + 1] = Word[b.n]
      BY <1>1, <2>6, AppendIs
    <3>2. \A i \in 1 .. c + 1 : i \in 1 .. c \/ i = c + 1
      BY <2>6
    <3> HIDE DEF a
    <3>3. u = a
      BY <2>6, <2>7, <3>1, <3>2
    <3> QED BY <3>3 DEF a
  <2> QED BY <1>8, <2>8 DEF t, u, more
<1>9. CASE b.kind # "text"
  <2>1. R = S
    <3>1. \A i \in 1 .. n + 1 : i \in 1 .. n \/ i = n + 1
      BY <1>1
    <3>2. \A i \in 1 .. n : i \in 1 .. n + 1
      BY <1>1
    <3>3. \A i \in R : i \in S
      BY <1>1, <1>2, <1>3, <1>9, <3>1
    <3>4. \A i \in S : i \in R
      BY <1>1, <1>2, <1>3, <3>2
    <3> QED BY <3>3, <3>4
  <2> DEFINE t == Texts(blocks)
             u == Texts(more)
  <2>2. \A k \in 1 .. c : u[k] = t[k]
    <3>1. SUFFICES ASSUME NEW k \in 1 .. c PROVE u[k] = t[k]
      OBVIOUS
    <3>2. k \in 1 .. Len(u) /\ k \in 1 .. Len(t) /\ Ascending(S)[k] \in 1 .. n
      BY <1>2, <1>5, <1>6, <1>7, <2>1
    <3>3. u[k] = Word[more[Ascending(S)[k]].n] /\ t[k] = Word[blocks[Ascending(S)[k]].n]
      BY <1>5, <1>6, <2>1, <3>2
    <3> QED BY <1>1, <3>2, <3>3
  <2>3. t \in Seq(Nat) /\ Len(t) = c /\ u \in Seq(Nat) /\ Len(u) = c
    BY <1>5, <1>6, <2>1
  <2> HIDE DEF t, u, c
  <2>4. u = t
    BY <2>2, <2>3
  <2> QED BY <1>9, <2>4 DEF t, u, more
<1> QED BY <1>8, <1>9

LEMMA SuffixIs ==
  ASSUME NEW s \in Seq(Nat), NEW t \in Seq(Nat)
  PROVE  IsSuffix(s, t) <=> /\ Len(s) <= Len(t)
                            /\ \A i \in 1 .. Len(s) : s[i] = t[Len(t) - Len(s) + i]
<1> DEFINE a == Reverse(s)
           b == Reverse(t)
           m == Len(s)
           n == Len(t)
<1>1. m \in Nat /\ n \in Nat
  OBVIOUS
<1>2. /\ a \in Seq(Nat) /\ Len(a) = m /\ \A i \in 1 .. m : a[i] = s[(m - i) + 1]
      /\ b \in Seq(Nat) /\ Len(b) = n /\ \A i \in 1 .. n : b[i] = t[(n - i) + 1]
  <2>1. \A i \in 1 .. m : (m - i) + 1 \in 1 .. m
    BY <1>1
  <2>2. \A i \in 1 .. n : (n - i) + 1 \in 1 .. n
    BY <1>1
  <2>3. a = [i \in 1 .. m |-> s[(m - i) + 1]] /\ b = [i \in 1 .. n |-> t[(n - i) + 1]]
    BY DEF Reverse
  <2>4. a \in [1 .. m -> Nat] /\ b \in [1 .. n -> Nat]
    BY <2>1, <2>2, <2>3
  <2> HIDE DEF a, b, m, n
  <2>5. a \in Seq(Nat) /\ Len(a) = m
    BY <1>1, <2>4
  <2>6. b \in Seq(Nat) /\ Len(b) = n
    BY <1>1, <2>4
  <2> QED BY <2>3, <2>5, <2>6
<1>3. IsSuffix(s, t) <=> Len(a) <= Len(b) /\ SubSeq(a, 1, Len(a)) = SubSeq(b, 1, Len(a))
  BY DEF IsSuffix, IsPrefix
<1> HIDE DEF a, b, m, n
<1>4. ASSUME m <= n
      PROVE  SubSeq(a, 1, m) = SubSeq(b, 1, m) <=> \A i \in 1 .. m : a[i] = b[i]
  <2>1. /\ SubSeq(a, 1, m) \in Seq(Nat) /\ Len(SubSeq(a, 1, m)) = m
        /\ \A i \in 1 .. m : SubSeq(a, 1, m)[i] = a[i]
    BY <1>1, <1>2
  <2>2. /\ SubSeq(b, 1, m) \in Seq(Nat) /\ Len(SubSeq(b, 1, m)) = m
        /\ \A i \in 1 .. m : SubSeq(b, 1, m)[i] = b[i]
    BY <1>1, <1>2, <1>4
  <2> DEFINE p == SubSeq(a, 1, m)
             q == SubSeq(b, 1, m)
  <2> HIDE DEF p, q
  <2>3. p = q <=> \A i \in 1 .. m : p[i] = q[i]
    BY <1>1, <2>1, <2>2 DEF p, q
  <2> QED BY <2>1, <2>2, <2>3 DEF p, q
<1>5. ASSUME m <= n
      PROVE  (\A i \in 1 .. m : a[i] = b[i]) <=> \A i \in 1 .. m : s[i] = t[n - m + i]
  <2>1. ASSUME \A i \in 1 .. m : a[i] = b[i], NEW i \in 1 .. m PROVE s[i] = t[n - m + i]
    <3> DEFINE j == (m - i) + 1
    <3>1. j \in 1 .. m /\ j \in 1 .. n /\ (m - j) + 1 = i /\ (n - j) + 1 = n - m + i
      BY <1>1, <1>5
    <3> HIDE DEF j
    <3>2. a[j] = s[(m - j) + 1] /\ b[j] = t[(n - j) + 1] /\ a[j] = b[j]
      BY <1>2, <2>1, <3>1
    <3> QED BY <3>1, <3>2
  <2>2. ASSUME \A i \in 1 .. m : s[i] = t[n - m + i], NEW i \in 1 .. m PROVE a[i] = b[i]
    <3> DEFINE j == (m - i) + 1
    <3>1. j \in 1 .. m /\ i \in 1 .. n /\ n - m + j = (n - i) + 1
      BY <1>1, <1>5
    <3>2. a[i] = s[j] /\ b[i] = t[(n - i) + 1]
      BY <1>2, <3>1
    <3> HIDE DEF j
    <3>3. s[j] = t[n - m + j]
      BY <2>2, <3>1
    <3> QED BY <3>1, <3>2, <3>3
  <2> QED BY <2>1, <2>2
<1> QED BY <1>1, <1>2, <1>3, <1>4, <1>5 DEF m, n

LEMMA SuffixAppend ==
  ASSUME NEW s \in Seq(Nat), NEW t \in Seq(Nat), NEW n \in Nat, IsSuffix(s, t)
  PROVE  IsSuffix(Append(s, n), Append(t, n))
<1> DEFINE a == Append(s, n)
           b == Append(t, n)
<1>1. /\ a \in Seq(Nat) /\ Len(a) = Len(s) + 1 /\ (\A i \in 1 .. Len(s) : a[i] = s[i])
           /\ a[Len(s) + 1] = n
  BY AppendIs
<1>2. /\ b \in Seq(Nat) /\ Len(b) = Len(t) + 1 /\ (\A i \in 1 .. Len(t) : b[i] = t[i])
           /\ b[Len(t) + 1] = n
  BY AppendIs
<1>3. /\ Len(s) <= Len(t) /\ Len(s) \in Nat /\ Len(t) \in Nat
      /\ \A i \in 1 .. Len(s) : s[i] = t[Len(t) - Len(s) + i]
  BY SuffixIs
<1> HIDE DEF a, b
<1>4. \A i \in 1 .. Len(a) : a[i] = b[Len(b) - Len(a) + i]
  <2>1. SUFFICES ASSUME NEW i \in 1 .. Len(a) PROVE a[i] = b[Len(b) - Len(a) + i]
    OBVIOUS
  <2>2. Len(b) - Len(a) + i = Len(t) - Len(s) + i
    BY <1>1, <1>2, <1>3
  <2>3. CASE i \in 1 .. Len(s)
    <3>1. Len(t) - Len(s) + i \in 1 .. Len(t)
      BY <1>3, <2>3
    <3> QED BY <1>1, <1>2, <1>3, <2>2, <2>3, <3>1
  <2>4. CASE i = Len(s) + 1
    <3>1. Len(t) - Len(s) + i = Len(t) + 1
      BY <1>3, <2>4
    <3> QED BY <1>1, <1>2, <2>2, <2>4, <3>1
  <2>5. i \in 1 .. Len(s) \/ i = Len(s) + 1
    BY <1>1, <1>3
  <2> QED BY <2>3, <2>4, <2>5
<1>5. Len(a) <= Len(b)
  BY <1>1, <1>2, <1>3
<1>6. IsSuffix(a, b)
  BY <1>1, <1>2, <1>4, <1>5, SuffixIs
<1> QED BY <1>6 DEF a, b

LEMMA SameSeq ==
  ASSUME NEW s \in Seq(Nat), NEW t \in Seq(Nat), Len(s) = Len(t),
         \A i \in 1 .. Len(s) : s[i] = t[i]
  PROVE  s = t
OBVIOUS

LEMMA AppendSome ==
  ASSUME NEW s \in Seq(Nat), NEW n \in Nat
  PROVE  Append(s, n) # <<>>
OBVIOUS

LEMMA PartIs ==
  ASSUME NEW s \in Seq(Nat), NEW i \in Nat, NEW n \in Nat, i + n <= Len(s)
  PROVE  /\ SubSeq(s, i + 1, i + n) \in Seq(Nat) /\ Len(SubSeq(s, i + 1, i + n)) = n
         /\ \A k \in 1 .. n : SubSeq(s, i + 1, i + n)[k] = s[i + k]
OBVIOUS

(* Two texts, one after the other.                                         *)
LEMMA JoinIs ==
  ASSUME NEW s \in Seq(Nat), NEW t \in Seq(Nat)
  PROVE  /\ t = <<>> => s \o t = s
         /\ s = <<>> => s \o t = t
         /\ s \o t = <<>> <=> s = <<>> /\ t = <<>>
<1> DEFINE a == s \o t
<1>1. /\ a \in Seq(Nat) /\ Len(a) = Len(s) + Len(t)
      /\ \A i \in 1 .. Len(s) : a[i] = s[i]
      /\ \A i \in 1 .. Len(t) : a[Len(s) + i] = t[i]
  BY ConcatIs
<1>2. /\ Len(s) \in Nat /\ Len(t) \in Nat
      /\ s = <<>> <=> Len(s) = 0
      /\ t = <<>> <=> Len(t) = 0
  OBVIOUS
<1> HIDE DEF a
<1>3. a = <<>> <=> Len(a) = 0
  BY <1>1
<1>4. ASSUME t = <<>> PROVE a = s
  <2>1. Len(a) = Len(s)
    BY <1>1, <1>2, <1>4
  <2> QED BY <1>1, <2>1, SameSeq
<1>5. ASSUME s = <<>> PROVE a = t
  <2>1. Len(a) = Len(t) /\ \A i \in 1 .. Len(t) : Len(s) + i = i
    BY <1>1, <1>2, <1>5
  <2>2. \A i \in 1 .. Len(t) : a[i] = t[i]
    BY <1>1, <2>1
  <2> QED BY <1>1, <2>1, <2>2, SameSeq
<1>6. a = <<>> <=> s = <<>> /\ t = <<>>
  BY <1>1, <1>2, <1>3
<1> QED BY <1>4, <1>5, <1>6 DEF a

LEMMA JoinAppend ==
  ASSUME NEW s \in Seq(Nat), NEW t \in Seq(Nat), NEW n \in Nat
  PROVE  /\ Append(s, n) = s \o <<n>>
         /\ s \o Append(t, n) = Append(s \o t, n)
<1> DEFINE a == Append(s, n)
           b == s \o <<n>>
           c == Append(t, n)
           d == s \o c
           e == s \o t
           f == Append(e, n)
<1>1. /\ a \in Seq(Nat) /\ Len(a) = Len(s) + 1 /\ (\A i \in 1 .. Len(s) : a[i] = s[i])
      /\ a[Len(s) + 1] = n
  BY AppendIs
<1>2. <<n>> \in Seq(Nat) /\ Len(<<n>>) = 1 /\ <<n>>[1] = n /\ 1 \in 1 .. 1
  OBVIOUS
<1>3. /\ b \in Seq(Nat) /\ Len(b) = Len(s) + 1 /\ (\A i \in 1 .. Len(s) : b[i] = s[i])
      /\ b[Len(s) + 1] = n
  BY <1>2, ConcatIs
<1>4. /\ c \in Seq(Nat) /\ Len(c) = Len(t) + 1 /\ (\A i \in 1 .. Len(t) : c[i] = t[i])
      /\ c[Len(t) + 1] = n
  BY AppendIs
<1> HIDE DEF c
<1>5. /\ d \in Seq(Nat) /\ Len(d) = Len(s) + Len(c) /\ (\A i \in 1 .. Len(s) : d[i] = s[i])
      /\ \A i \in 1 .. Len(c) : d[Len(s) + i] = c[i]
  <2>1. c \in Seq(Nat)
    BY <1>4
  <2> QED BY <2>1, ConcatIs
<1>6. /\ e \in Seq(Nat) /\ Len(e) = Len(s) + Len(t) /\ (\A i \in 1 .. Len(s) : e[i] = s[i])
      /\ \A i \in 1 .. Len(t) : e[Len(s) + i] = t[i]
  BY ConcatIs
<1> HIDE DEF e
<1>7. /\ f \in Seq(Nat) /\ Len(f) = Len(e) + 1 /\ (\A i \in 1 .. Len(e) : f[i] = e[i])
      /\ f[Len(e) + 1] = n
  BY <1>6, AppendIs
<1>8. Len(s) \in Nat /\ Len(t) \in Nat
  OBVIOUS
<1> HIDE DEF a, b, d, f
<1>9. \A i \in 1 .. Len(a) : a[i] = b[i]
  <2>1. \A i \in 1 .. Len(a) : i \in 1 .. Len(s) \/ i = Len(s) + 1
    BY <1>1, <1>8
  <2> QED BY <1>1, <1>3, <2>1
<1>10. a = b
  BY <1>1, <1>3, <1>9, SameSeq
<1>11. \A i \in 1 .. Len(d) : d[i] = f[i]
  <2>1. SUFFICES ASSUME NEW i \in 1 .. Len(d) PROVE d[i] = f[i]
    OBVIOUS
  <2>2. CASE i \in 1 .. Len(s)
    <3>1. i \in 1 .. Len(e)
      BY <1>6, <1>8, <2>2
    <3> QED BY <1>5, <1>6, <1>7, <2>2, <3>1
  <2>3. CASE i - Len(s) \in 1 .. Len(t)
    <3> DEFINE j == i - Len(s)
    <3>1. j \in 1 .. Len(t) /\ j \in 1 .. Len(c) /\ i = Len(s) + j /\ Len(s) + j \in 1 .. Len(e)
      BY <1>4, <1>6, <1>8, <2>1, <2>3
    <3> HIDE DEF j
    <3>2. d[Len(s) + j] = c[j] /\ c[j] = t[j] /\ e[Len(s) + j] = t[j]
          /\ f[Len(s) + j] = e[Len(s) + j]
      BY <1>4, <1>5, <1>6, <1>7, <3>1
    <3> QED BY <3>1, <3>2
  <2>4. CASE i = Len(s) + (Len(t) + 1)
    <3>1. Len(t) + 1 \in 1 .. Len(c) /\ Len(e) + 1 = Len(s) + (Len(t) + 1)
      BY <1>4, <1>6, <1>8
    <3> QED BY <1>4, <1>5, <1>7, <2>4, <3>1
  <2>5. i \in 1 .. Len(s) \/ i - Len(s) \in 1 .. Len(t) \/ i = Len(s) + (Len(t) + 1)
    BY <1>4, <1>5, <1>8, <2>1
  <2> QED BY <2>2, <2>3, <2>4, <2>5
<1>12. d = f
  <2>1. Len(d) = Len(f)
    BY <1>4, <1>5, <1>6, <1>7, <1>8
  <2> QED BY <1>5, <1>7, <1>11, <2>1, SameSeq
<1> QED BY <1>10, <1>12 DEF a, b, c, d, e, f

LEMMA FinalTextIs ==
  ASSUME NEW text \in Seq(Nat), NEW final \in Seq(Nat)
  PROVE  FinalText(text, final) \in Seq(Nat)
BY DEF FinalText

(* What was said already is not said twice, what was not is added.         *)
LEMMA FinalTextSaid ==
  ASSUME NEW text \in Seq(Nat), NEW final \in Seq(Nat), IsSuffix(final, text)
  PROVE  FinalText(text, final) = text
BY DEF FinalText

(* Whatever it does, the text goes on and ends with the last message; and  *)
(* a message that does not repeat it is added.                             *)
LEMMA FinalTextAdds ==
  ASSUME NEW text \in Seq(Nat), NEW final \in Seq(Nat),
         NEW u, u = FinalText(text, final)
  PROVE  /\ u \in Seq(Nat) /\ IsSuffix(final, u)
         /\ \E rest \in Seq(Nat) : u = text \o rest
         /\ u = <<>> <=> text \o final = <<>>
         /\ \/ text = <<>> \/ final = <<>>
            \/ ~IsSuffix(final, text) /\ ~IsPrefix(text, final)
            => u = text \o final
<1> DEFINE m == Len(text)
           n == Len(final)
           both == text \o final
<1>1. m \in Nat /\ n \in Nat /\ (text = <<>> <=> m = 0) /\ (final = <<>> <=> n = 0)
  OBVIOUS
<1>2. /\ both \in Seq(Nat) /\ Len(both) = m + n
      /\ \A i \in 1 .. n : both[m + i] = final[i]
      /\ final = <<>> => both = text
      /\ text = <<>> => both = final
  BY ConcatIs, JoinIs
<1>3. both = <<>> <=> m = 0 /\ n = 0
  BY <1>1, <1>2
<1>4. CASE IsSuffix(final, text)
  <2>1. u = text
    BY <1>4 DEF FinalText
  <2>2. n <= m
    BY <1>4, SuffixIs
  <2>3. <<>> \in Seq(Nat) /\ text = text \o <<>>
    OBVIOUS
  <2>4. text = <<>> => final = <<>>
    BY <1>1, <2>2
  <2> HIDE DEF both
  <2> QED BY <1>1, <1>2, <1>3, <1>4, <2>1, <2>2, <2>3, <2>4 DEF both
<1>5. CASE ~IsSuffix(final, text) /\ IsPrefix(text, final)
  <2>1. u = final
    BY <1>5 DEF FinalText
  <2>2. m <= n /\ SubSeq(text, 1, m) = SubSeq(final, 1, m)
    BY <1>5 DEF IsPrefix
  <2>3. IsSuffix(final, final)
    BY SuffixIs
  <2> DEFINE rest == SubSeq(final, m + 1, n)
             whole == text \o rest
  <2>4. /\ rest \in Seq(Nat) /\ Len(rest) = n - m
        /\ \A i \in 1 .. n - m : rest[i] = final[m + i]
    BY <1>1, <2>2
  <2>5. \A i \in 1 .. m : text[i] = final[i]
    <3>1. \A i \in 1 .. m : SubSeq(text, 1, m)[i] = text[i] /\ SubSeq(final, 1, m)[i] = final[i]
      BY <1>1, <2>2
    <3> QED BY <2>2, <3>1
  <2> HIDE DEF rest
  <2>6. /\ whole \in Seq(Nat) /\ Len(whole) = n
        /\ \A i \in 1 .. m : whole[i] = text[i]
        /\ \A i \in 1 .. n - m : whole[m + i] = rest[i]
    BY <1>1, <2>2, <2>4
  <2>7. \A i \in 1 .. n : whole[i] = final[i]
    <3>1. SUFFICES ASSUME NEW i \in 1 .. n PROVE whole[i] = final[i]
      OBVIOUS
    <3>2. CASE i <= m
      <4>1. i \in 1 .. m
        BY <1>1, <3>2
      <4> QED BY <2>5, <2>6, <4>1
    <3>3. CASE ~(i <= m)
      <4>1. i - m \in 1 .. n - m /\ m + (i - m) = i
        BY <1>1, <3>3
      <4> HIDE DEF whole
      <4>2. whole[m + (i - m)] = rest[i - m] /\ rest[i - m] = final[m + (i - m)]
        BY <2>4, <2>6, <4>1
      <4> QED BY <4>1, <4>2
    <3> QED BY <3>2, <3>3
  <2> HIDE DEF whole
  <2>8. whole = final
    <3>1. final \in Seq(Nat) /\ Len(final) = n
      OBVIOUS
    <3> QED BY <2>6, <2>7, <3>1, SameSeq
  <2>9. final = <<>> => text = <<>>
    BY <1>1, <2>2
  <2> HIDE DEF both
  <2> QED BY <1>1, <1>2, <1>3, <1>5, <2>1, <2>3, <2>4, <2>8, <2>9 DEF whole, both
<1>6. CASE ~IsSuffix(final, text) /\ ~IsPrefix(text, final)
  <2>1. u = both
    BY <1>6 DEF FinalText
  <2> HIDE DEF both
  <2>2. IsSuffix(final, both)
    <3>1. n <= Len(both) /\ \A i \in 1 .. n : final[i] = both[Len(both) - n + i]
      <4>1. \A i \in 1 .. n : Len(both) - n + i = m + i
        BY <1>1, <1>2
      <4> QED BY <1>1, <1>2, <4>1
    <3> QED BY <1>2, <3>1, SuffixIs
  <2> QED BY <1>2, <2>1, <2>2 DEF both
<1> QED BY <1>4, <1>5, <1>6

(* What is read in a text is read in it when it goes on.                   *)
LEMMA WithinGrows ==
  ASSUME NEW t \in Seq(Nat), NEW u \in Seq(Nat), NEW v \in Seq(Nat), Within(t, u)
  PROVE  Within(t, u \o v)
<1> DEFINE w == u \o v
<1>1. PICK i \in 0 .. Len(u) - Len(t) : SubSeq(u, i + 1, i + Len(t)) = t
  BY DEF Within
<1>2. /\ w \in Seq(Nat) /\ Len(w) = Len(u) + Len(v) /\ \A j \in 1 .. Len(u) : w[j] = u[j]
      /\ Len(u) \in Nat /\ Len(v) \in Nat /\ Len(t) \in Nat
  OBVIOUS
<1> HIDE DEF w
<1>3. i \in 0 .. Len(w) - Len(t) /\ i \in Nat /\ i + Len(t) <= Len(u)
  BY <1>2
<1>4. SubSeq(w, i + 1, i + Len(t)) = SubSeq(u, i + 1, i + Len(t))
  <2> DEFINE p == SubSeq(w, i + 1, i + Len(t))
             q == SubSeq(u, i + 1, i + Len(t))
  <2>1. /\ p \in Seq(Nat) /\ Len(p) = Len(t) /\ (\A k \in 1 .. Len(t) : p[k] = w[i + k])
        /\ q \in Seq(Nat) /\ Len(q) = Len(t) /\ (\A k \in 1 .. Len(t) : q[k] = u[i + k])
    <3>1. i + Len(t) <= Len(w) /\ i + Len(t) <= Len(u) /\ i \in Nat /\ Len(t) \in Nat
      BY <1>2, <1>3
    <3> QED BY <1>2, <3>1, PartIs
  <2> HIDE DEF p, q
  <2>2. \A k \in 1 .. Len(t) : i + k \in 1 .. Len(u)
    BY <1>2, <1>3
  <2>3. \A k \in 1 .. Len(p) : p[k] = q[k]
    BY <1>2, <2>1, <2>2
  <2>4. p = q
    BY <2>1, <2>3, SameSeq
  <2> QED BY <2>4 DEF p, q
<1>5. i \in 0 .. Len(w) - Len(t) /\ SubSeq(w, i + 1, i + Len(t)) = t
  BY <1>1, <1>3, <1>4
<1>6. Within(t, w)
  BY <1>5 DEF Within
<1> QED BY <1>6 DEF w

LEMMA WithinSuffix ==
  ASSUME NEW t \in Seq(Nat), NEW u \in Seq(Nat), IsSuffix(t, u)
  PROVE  Within(t, u)
<1> DEFINE i == Len(u) - Len(t)
<1>1. /\ Len(t) \in Nat /\ Len(u) \in Nat /\ Len(t) <= Len(u)
      /\ \A k \in 1 .. Len(t) : t[k] = u[i + k]
  BY SuffixIs
<1>2. i \in 0 .. Len(u) - Len(t) /\ i \in Nat /\ i + Len(t) = Len(u)
  BY <1>1
<1> DEFINE part == SubSeq(u, i + 1, i + Len(t))
<1> HIDE DEF i
<1>3. /\ part \in Seq(Nat) /\ Len(part) = Len(t)
      /\ \A k \in 1 .. Len(t) : part[k] = u[i + k]
  BY <1>1, <1>2
<1> HIDE DEF part
<1>4. part = t
  BY <1>1, <1>3, SameSeq
<1> QED BY <1>2, <1>4 DEF Within, part

------------------------------------------------------------------------------
(* A message that ended                                                    *)

LEMMA CallsInIs ==
  ASSUME NEW blocks \in Seq(Blocks)
  PROVE  /\ CallsIn(blocks) \subseteq Nat
         /\ \A n : n \in CallsIn(blocks) <=>
                \E k \in 1 .. Len(blocks) : blocks[k].kind = "tool" /\ blocks[k].n = n
<1>1. \A n : n \in CallsIn(blocks) <=> \E k \in At(blocks, "tool") : blocks[k].n = n
  BY DEF CallsIn
<1>2. \A k : k \in At(blocks, "tool") <=> k \in 1 .. Len(blocks) /\ blocks[k].kind = "tool"
  BY DEF At
<1>3. \A k \in 1 .. Len(blocks) : blocks[k].n \in Nat
  BY BlocksAre
<1> QED BY <1>1, <1>2, <1>3

LEMMA SettledIs ==
  ASSUME NEW tools \in Seq(CallParts), NEW n
  PROVE  /\ SettledState(tools, n) \in {"available", "error"}
         /\ \A p \in Range(tools) : Keyed(tools, {"tool"}) /\ p.n = n
              /\ p.state \in {"available", "error"}
                                    => SettledState(tools, n) = p.state
<1> DEFINE i == ToolAt(tools, n)
<1>1. SettledState(tools, n) = IF i # 0 /\ tools[i].state = "error" THEN "error" ELSE "available"
  BY DEF SettledState
<1>2. /\ i # 0 => i \in 1 .. Len(tools) /\ tools[i].n = n
      /\ i = 0 <=> \A p \in Range(tools) : p.n # n
  BY ToolAtIs
<1> HIDE DEF i
<1>3. ASSUME NEW p \in Range(tools), Keyed(tools, {"tool"}), p.n = n, p.state \in {"available", "error"}
      PROVE  SettledState(tools, n) = p.state
  <2>1. i # 0 /\ i \in 1 .. Len(tools) /\ tools[i].n = n
    BY <1>2, <1>3
  <2>2. tools[i] \in Range(tools) /\ tools[i] \in CallParts /\ p \in CallParts
    BY <2>1, RangeIs
  <2>3. SameThing(tools[i], p) /\ tools[i].kind \in {"tool"}
    <3>1. ASSUME NEW q \in CallParts, q.n = p.n PROVE SameThing(q, p) /\ q.kind = "tool"
      BY <2>2, <3>1, CallPartsAre
    <3>2. tools[i].n = p.n
      BY <1>3, <2>1
    <3> QED BY <2>2, <3>1, <3>2
  <2>4. tools[i] = p
    BY <1>3, <2>2, <2>3, KeyedMember
  <2> QED BY <1>1, <1>3, <2>1, <2>4
<1> QED BY <1>1, <1>3

(* The tools of the run after a message: those that were known, and the    *)
(* calls of the message that were not.                                     *)
LEMMA RememberedTools ==
  ASSUME NEW m, MapperSound(m), NEW blocks \in Seq(Blocks), Rising(blocks), NEW failed
  PROVE  LET tools == Remembered(m, blocks, failed).tools
         IN  /\ tools \in Seq(CallParts) /\ Keyed(tools, {"tool"})
             /\ \A p \in Range(m.tools) : p.state \in {"available", "error"} => p \in Range(tools)
<1> DEFINE st(n) == SettledState(m.tools, n)
           known == [i \in DOMAIN m.tools |->
                       IF m.tools[i].n \in CallsIn(blocks)
                       THEN ToolPart(m.tools[i].n, TRUE, st(m.tools[i].n)) ELSE m.tools[i]]
           S     == {k \in At(blocks, "tool") : ToolAt(m.tools, blocks[k].n) = 0}
           new   == Picked(blocks, S)
           more  == [k \in DOMAIN new |-> ToolPart(new[k].n, TRUE, st(new[k].n))]
           all   == [k \in 1 .. Len(blocks) |-> ToolPart(blocks[k].n, TRUE, st(blocks[k].n))]
<1>1. /\ m.tools \in Seq(CallParts) /\ Keyed(m.tools, {"tool"}) /\ MapperRecord(m)
      /\ DOMAIN m.tools = 1 .. Len(m.tools) /\ Len(m.tools) \in Nat
  <2>1. m.tools \in Seq(CallParts) /\ Keyed(m.tools, {"tool"}) /\ MapperRecord(m)
    BY DEF MapperSound, MapperTyped
  <2> QED BY <2>1
<1>2. Remembered(m, blocks, failed).tools = known \o more
  BY <1>1 DEF Remembered, MapperRecord, MapperFields
<1>3. \A n : st(n) \in {"available", "error"}
  BY <1>1, SettledIs
<1>4. \A i \in 1 .. Len(m.tools) : m.tools[i] \in CallParts /\ m.tools[i] \in Range(m.tools)
  BY <1>1, RangeIs
<1>5. /\ known \in Seq(CallParts) /\ Len(known) = Len(m.tools)
      /\ \A i \in 1 .. Len(m.tools) : known[i] \in CallParts /\ known[i].n = m.tools[i].n
      /\ \A i \in 1 .. Len(m.tools) : m.tools[i].state \in {"available", "error"} => known[i] = m.tools[i]
  <2> HIDE DEF st
  <2>1. \A i \in 1 .. Len(m.tools) : known[i] \in CallParts /\ known[i].n = m.tools[i].n
    <3>1. SUFFICES ASSUME NEW i \in 1 .. Len(m.tools)
                   PROVE  known[i] \in CallParts /\ known[i].n = m.tools[i].n
      OBVIOUS
    <3>2. m.tools[i] \in CallParts /\ m.tools[i].n \in Nat
      BY <1>4, CallPartsAre
    <3>3. st(m.tools[i].n) \in {"running", "available", "error"}
      BY <1>3
    <3> DEFINE settled == ToolPart(m.tools[i].n, TRUE, st(m.tools[i].n))
    <3>4. settled \in CallParts /\ settled.n = m.tools[i].n
      BY <3>2, <3>3, ToolMade
    <3>5. known[i] = IF m.tools[i].n \in CallsIn(blocks) THEN settled ELSE m.tools[i]
      BY <1>1
    <3> HIDE DEF settled, known
    <3> QED BY <3>2, <3>4, <3>5
  <2>2. known \in [1 .. Len(m.tools) -> CallParts]
    BY <1>1, <2>1
  <2>3. known \in Seq(CallParts) /\ Len(known) = Len(m.tools)
    <3> HIDE DEF known
    <3> QED BY <1>1, <2>2
  <2>4. ASSUME NEW i \in 1 .. Len(m.tools), m.tools[i].state \in {"available", "error"}
        PROVE  known[i] = m.tools[i]
    <3>1. st(m.tools[i].n) = m.tools[i].state
      BY <1>1, <1>4, <2>4, SettledIs DEF st
    <3>2. m.tools[i] = ToolPart(m.tools[i].n, TRUE, m.tools[i].state)
      BY <1>4, CallPartsAre
    <3> QED BY <1>1, <3>1, <3>2
  <2> HIDE DEF known
  <2> QED BY <2>1, <2>3, <2>4
<1>6. S \subseteq 1 .. Len(blocks) /\ \A k \in S : ToolAt(m.tools, blocks[k].n) = 0 /\ blocks[k].n \in Nat
  BY BlocksAre DEF At
<1>7. /\ new \in Seq(Blocks) /\ Len(new) = Cardinality(S) /\ Cardinality(S) \in Nat
      /\ Range(new) = {blocks[i] : i \in S}
  BY <1>6, PickedIs
<1>8. /\ all \in Seq(CallParts) /\ Len(all) = Len(blocks)
      /\ \A k \in 1 .. Len(blocks) : all[k] \in CallParts /\ all[k].n = blocks[k].n
  <2> HIDE DEF st
  <2>1. Len(blocks) \in Nat /\ \A k \in 1 .. Len(blocks) : blocks[k].n \in Nat
    BY BlocksAre
  <2>2. \A k \in 1 .. Len(blocks) : all[k] \in CallParts /\ all[k].n = blocks[k].n
    <3>1. SUFFICES ASSUME NEW k \in 1 .. Len(blocks) PROVE all[k] \in CallParts /\ all[k].n = blocks[k].n
      OBVIOUS
    <3>2. blocks[k].n \in Nat /\ st(blocks[k].n) \in {"running", "available", "error"}
      BY <1>3, <2>1
    <3>3. all[k] = ToolPart(blocks[k].n, TRUE, st(blocks[k].n))
      OBVIOUS
    <3>4. ToolPart(blocks[k].n, TRUE, st(blocks[k].n)) \in CallParts
          /\ ToolPart(blocks[k].n, TRUE, st(blocks[k].n)).n = blocks[k].n
      BY <3>2, ToolMade
    <3> HIDE DEF all
    <3> QED BY <3>3, <3>4
  <2>3. all \in [1 .. Len(blocks) -> CallParts]
    BY <2>2
  <2> HIDE DEF all
  <2> QED BY <2>1, <2>2, <2>3
<1>9. Keyed(all, {"tool"})
  <2> HIDE DEF all
  <2>1. SUFFICES ASSUME NEW i \in 1 .. Len(blocks), NEW j \in 1 .. Len(blocks), SameThing(all[i], all[j])
                 PROVE i = j
    BY <1>8 DEF Keyed
  <2>2. blocks[i].n = blocks[j].n
    BY <1>8, <2>1, CallPartsAre
  <2>3. blocks[i].n \in Nat /\ i \in DOMAIN blocks /\ j \in DOMAIN blocks /\ i \in Nat /\ j \in Nat
    BY BlocksAre
  <2>4. i < j => blocks[i].n < blocks[j].n
    BY <2>3 DEF Rising
  <2>5. j < i => blocks[j].n < blocks[i].n
    BY <2>3 DEF Rising
  <2> QED BY <2>2, <2>3, <2>4, <2>5
<1>10. more = Picked(all, S)
  <2> DEFINE A == Ascending(S)
  <2>1. new = [k \in 1 .. Cardinality(S) |-> blocks[A[k]]]
    BY DEF Picked
  <2>2. Picked(all, S) = [k \in 1 .. Cardinality(S) |-> all[A[k]]]
    BY DEF Picked
  <2>3. \A k \in 1 .. Cardinality(S) : A[k] \in 1 .. Len(blocks)
    <3>1. S \subseteq Nat /\ IsFiniteSet(S)
      BY <1>6, PickedIs
    <3>2. \A k \in 1 .. Cardinality(S) : A[k] \in S
      BY <3>1, AscendingIs
    <3> QED BY <1>6, <3>2
  <2>4. \A k \in 1 .. Len(blocks) : all[k] = ToolPart(blocks[k].n, TRUE, st(blocks[k].n))
    OBVIOUS
  <2> HIDE DEF A, all, st, S
  <2>5. DOMAIN new = 1 .. Cardinality(S) /\ \A k \in 1 .. Cardinality(S) : new[k] = blocks[A[k]]
    <3> HIDE DEF new
    <3> QED BY <2>1
  <2>6. more = [k \in 1 .. Cardinality(S) |-> ToolPart(new[k].n, TRUE, st(new[k].n))]
    <3> HIDE DEF new
    <3> QED BY <2>5
  <2> HIDE DEF new, more
  <2>7. \A k \in 1 .. Cardinality(S) : ToolPart(new[k].n, TRUE, st(new[k].n)) = all[A[k]]
    BY <2>3, <2>4, <2>5
  <2> QED BY <2>2, <2>6, <2>7
<1> HIDE DEF all, more, known, st
<1>11. more \in Seq(CallParts) /\ Keyed(more, {"tool"}) /\ Range(more) = {all[i] : i \in S}
  <2>1. S \subseteq 1 .. Len(all)
    BY <1>6, <1>8
  <2>2. Keyed(Picked(all, S), {"tool"})
    BY <1>8, <1>9, <2>1, KeyedPicked
  <2> HIDE DEF S
  <2>3. Picked(all, S) \in Seq(CallParts)
    BY <1>8, <2>1, PickedIs
  <2>4. Range(Picked(all, S)) = {all[i] : i \in S}
    BY <1>8, <2>1, PickedIs
  <2> QED BY <1>10, <2>2, <2>3, <2>4
<1> HIDE DEF S
<1>12. Keyed(known, {"tool"})
  <2>1. \A i \in DOMAIN m.tools : SameThing(m.tools[i], known[i])
    BY <1>1, <1>4, <1>5, CallPartsAre
  <2>2. DOMAIN known = DOMAIN m.tools
    BY <1>1, <1>5
  <2> QED BY <1>1, <2>1, <2>2, KeyedAlike
<1>13. ASSUME NEW p \in Range(known), NEW q \in Range(more) PROVE ~SameThing(p, q)
  <2>1. PICK i \in 1 .. Len(m.tools) : p = known[i]
    BY <1>5, RangeIs
  <2>2. PICK k \in S : q = all[k]
    BY <1>11
  <2>3. k \in 1 .. Len(blocks) /\ \A r \in Range(m.tools) : r.n # blocks[k].n
    BY <1>1, <1>6, ToolAtIs
  <2>4. p \in CallParts /\ q \in CallParts /\ p.n = m.tools[i].n /\ q.n = blocks[k].n
    BY <1>5, <1>8, <2>1, <2>2, <2>3
  <2> QED BY <1>4, <2>3, <2>4, CallPartsAre
<1>14. Keyed(known \o more, {"tool"})
  BY <1>5, <1>11, <1>12, <1>13, KeyedConcat
<1>15. known \o more \in Seq(CallParts)
  BY <1>5, <1>11, ConcatIs
<1>16. Range(known \o more) = Range(known) \union Range(more)
  BY <1>5, <1>11, ConcatIs
<1>17. \A p \in Range(m.tools) : p.state \in {"available", "error"} => p \in Range(known)
  <2>1. SUFFICES ASSUME NEW i \in 1 .. Len(m.tools), m.tools[i].state \in {"available", "error"}
                 PROVE  m.tools[i] \in Range(known)
    BY <1>1, RangeIs
  <2> QED BY <1>5, <2>1, RangeIs
<1> QED BY <1>2, <1>14, <1>15, <1>16, <1>17

LEMMA RememberedIs ==
  ASSUME NEW m, MapperSound(m), NEW blocks \in Seq(Blocks), Rising(blocks), NEW failed \in BOOLEAN
  PROVE  LET s == Remembered(m, blocks, failed)
         IN  /\ MapperSound(s) /\ s.message = blocks /\ s.failed = failed
             /\ s.text = FinalText(m.text, Texts(blocks))
             /\ s.reasoning = m.reasoning /\ s.claimed = m.claimed /\ s.active = m.active
             /\ s.indexOf = m.indexOf /\ s.starts = m.starts /\ s.next = m.next
             /\ \A p \in Range(m.tools) : p.state \in {"available", "error"} => p \in Range(s.tools)
<1> DEFINE s == Remembered(m, blocks, failed)
           tools == s.tools
<1>1. MapperTyped(m) /\ MapperRecord(m)
  BY DEF MapperSound, MapperTyped
<1>2. /\ tools \in Seq(CallParts) /\ Keyed(tools, {"tool"})
      /\ \A p \in Range(m.tools) : p.state \in {"available", "error"} => p \in Range(tools)
  BY RememberedTools
<1>3. /\ MapperRecord(s) /\ s.message = blocks /\ s.failed = failed
      /\ s.text = FinalText(m.text, Texts(blocks))
      /\ s.reasoning = m.reasoning /\ s.claimed = m.claimed /\ s.active = m.active
      /\ s.indexOf = m.indexOf /\ s.starts = m.starts /\ s.next = m.next
  BY <1>1 DEF Remembered, MapperRecord, MapperFields
<1>4. s.text \in Seq(Nat)
  BY <1>1, <1>3, TextsIs, FinalTextIs DEF MapperTyped
<1> HIDE DEF s
<1>5. MapperTyped(s)
  BY <1>1, <1>2, <1>3, <1>4 DEF MapperTyped
<1>6. MapperSound(s)
  BY <1>2, <1>3, <1>5 DEF MapperSound
<1> QED BY <1>2, <1>3, <1>6 DEF s

LEMMA TextMade ==
  ASSUME NEW text \in Seq(Nat)
  PROVE  /\ TextPart(text) \in Parts /\ TextPart(text).kind = "text" /\ TextPart(text).text = text
<1>1. TextPart(text) \in Parts
  BY PartsMade
<1> QED BY <1>1 DEF TextPart

LEMMA ReasoningMade ==
  ASSUME NEW index \in Nat, NEW text \in Seq(Nat), NEW state \in {"streaming", "complete"}
  PROVE  /\ ReasoningPart(index, text, state) \in ReasoningParts
         /\ ReasoningPart(index, text, state) \in Parts
         /\ ReasoningPart(index, text, state).kind = "reasoning"
         /\ ReasoningPart(index, text, state).index = index
         /\ ReasoningPart(index, text, state).text = text
         /\ ReasoningPart(index, text, state).state = state
<1>1. ReasoningPart(index, text, state) \in ReasoningParts /\ ReasoningPart(index, text, state) \in Parts
  BY PartsMade
<1> QED BY <1>1 DEF ReasoningPart

(* The parts of some episodes, in their order.                             *)
EpisodeParts(f, S) ==
  [k \in DOMAIN Ascending(S) |-> ReasoningPart(Ascending(S)[k], f[Ascending(S)[k]], "complete")]

LEMMA EpisodePartsAre ==
  ASSUME NEW f, Indexed(f, Seq(Nat)), NEW S, S \subseteq DOMAIN f
  PROVE  /\ EpisodeParts(f, S) \in Seq(ReasoningParts) /\ EpisodeParts(f, S) \in Seq(Parts)
         /\ Keyed(EpisodeParts(f, S), Kinds)
         /\ Range(EpisodeParts(f, S)) = {ReasoningPart(i, f[i], "complete") : i \in S}
<1> DEFINE A == Ascending(S)
           n == Cardinality(S)
           e == EpisodeParts(f, S)
<1>1. S \subseteq Nat /\ IsFiniteSet(S) /\ \A i \in S : f[i] \in Seq(Nat)
  <2>1. DOMAIN f \subseteq Nat /\ IsFiniteSet(DOMAIN f) /\ \A i \in DOMAIN f : f[i] \in Seq(Nat)
    BY DEF Indexed
  <2> QED BY <2>1, FS_Subset
<1>2. A \in Seq(S) /\ Len(A) = n /\ n \in Nat
  BY <1>1, AscendingIs
<1>3. \A k \in 1 .. n : A[k] \in S /\ Rank(S, A[k]) = k
  BY <1>1, AscendingIs
<1>4. \A x \in S : Rank(S, x) \in 1 .. n /\ A[Rank(S, x)] = x
  BY <1>1, AscendingIs
<1>5. e = [k \in DOMAIN A |-> ReasoningPart(A[k], f[A[k]], "complete")]
  BY DEF EpisodeParts
<1>6. \A i \in S : ReasoningPart(i, f[i], "complete") \in ReasoningParts
  BY <1>1, PartsMade
<1> HIDE DEF A, n, e
<1>7. DOMAIN A = 1 .. n
  BY <1>2
<1>8. \A k \in 1 .. n : e[k] = ReasoningPart(A[k], f[A[k]], "complete") /\ e[k] \in ReasoningParts
  BY <1>3, <1>5, <1>6, <1>7
<1>9. e \in [1 .. n -> ReasoningParts]
  BY <1>5, <1>7, <1>8
<1>10. e \in Seq(ReasoningParts) /\ Len(e) = n
  BY <1>2, <1>9
<1>11. e \in Seq(Parts)
  <2>1. ReasoningParts \subseteq Parts
    BY DEF Parts
  <2> QED BY <1>10, <2>1, SeqsGrow
<1>12. Keyed(e, Kinds)
  <2>1. DOMAIN e = 1 .. n
    BY <1>10
  <2>2. SUFFICES ASSUME NEW i \in 1 .. n, NEW j \in 1 .. n, SameThing(e[i], e[j]) PROVE i = j
    BY <2>1 DEF Keyed
  <2>3. \A k \in 1 .. n : e[k].index = A[k]
    <3>1. \A x, t, s : ReasoningPart(x, t, s).index = x
      BY DEF ReasoningPart
    <3> QED BY <1>8, <3>1
  <2>5. \A k \in 1 .. n : e[k].kind = "reasoning"
    BY <1>8, KindsOfParts
  <2>4. A[i] = A[j]
    BY <2>2, <2>3, <2>5 DEF SameThing
  <2> QED BY <1>3, <2>4
<1>13. Range(e) = {ReasoningPart(i, f[i], "complete") : i \in S}
  <2>1. \A x : x \in Range(e) <=> \E k \in 1 .. n : e[k] = x
    BY <1>10, RangeIs
  <2>2. \A k \in 1 .. n : \E i \in S : e[k] = ReasoningPart(i, f[i], "complete")
    BY <1>3, <1>8
  <2>3. \A i \in S : ReasoningPart(i, f[i], "complete") \in Range(e)
    <3>1. SUFFICES ASSUME NEW i \in S PROVE ReasoningPart(i, f[i], "complete") \in Range(e)
      OBVIOUS
    <3>2. Rank(S, i) \in 1 .. n /\ e[Rank(S, i)] = ReasoningPart(i, f[i], "complete")
      BY <1>4, <1>8
    <3> QED BY <2>1, <3>2
  <2> QED BY <2>1, <2>2, <2>3
<1> QED BY <1>10, <1>11, <1>12, <1>13 DEF e

(* A message that is sent as it is.                                        *)
LEMMA MessagePartsAre ==
  ASSUME NEW m, MapperSound(m), NEW blocks \in Seq(Blocks), Rising(blocks)
  PROVE  MessageParts(m, blocks) \in Seq(Parts) /\ Keyed(MessageParts(m, blocks), {"tool"})
<1> DEFINE indexAt(k) == IF (k - 1) \in DOMAIN m.indexOf THEN m.indexOf[k - 1] ELSE k - 1
           textAt(k)  == IF indexAt(k) \in DOMAIN m.reasoning THEN m.reasoning[indexAt(k)]
                         ELSE <<blocks[k].n>>
           own == [k \in DOMAIN blocks |->
                     CASE blocks[k].kind = "text" -> TextPart(<<Word[blocks[k].n]>>)
                       [] blocks[k].kind = "tool" -> ToolPart(blocks[k].n, TRUE, "available")
                       [] OTHER -> ReasoningPart(indexAt(k), textAt(k), "complete")]
           S    == DOMAIN m.reasoning \ {own[k].index : k \in At(own, "reasoning")}
           more == EpisodeParts(m.reasoning, S)
           last == <<ErrorPart>>
<1>1. /\ Indexed(m.reasoning, Seq(Nat)) /\ Indexed(m.indexOf, Nat)
      /\ \A i \in DOMAIN m.reasoning : m.reasoning[i] \in Seq(Nat)
      /\ \A i \in DOMAIN m.indexOf : m.indexOf[i] \in Nat
  BY DEF MapperSound, MapperTyped, Indexed
<1>2. MessageParts(m, blocks) = (own \o more) \o last
  BY DEF MessageParts, EpisodeParts
<1>3. /\ DOMAIN blocks = 1 .. Len(blocks) /\ Len(blocks) \in Nat
      /\ \A k \in 1 .. Len(blocks) : blocks[k].n \in Nat /\ Word[blocks[k].n] \in Nat
           /\ blocks[k].kind \in {"text", "thinking", "tool"}
  BY BlocksAre
<1>4. \A k \in 1 .. Len(blocks) : indexAt(k) \in Nat /\ textAt(k) \in Seq(Nat)
  <2>1. SUFFICES ASSUME NEW k \in 1 .. Len(blocks) PROVE indexAt(k) \in Nat /\ textAt(k) \in Seq(Nat)
    OBVIOUS
  <2>2. indexAt(k) \in Nat
    BY <1>1, <1>3
  <2>3. <<blocks[k].n>> \in Seq(Nat)
    BY <1>3
  <2> QED BY <1>1, <2>2, <2>3
<1> HIDE DEF indexAt, textAt
<1>5. \A k \in 1 .. Len(blocks) : own[k] \in Parts /\ (own[k].kind = "tool" => own[k].n = blocks[k].n)
  <2>1. SUFFICES ASSUME NEW k \in 1 .. Len(blocks)
                 PROVE  own[k] \in Parts /\ (own[k].kind = "tool" => own[k].n = blocks[k].n)
    OBVIOUS
  <2>2. own[k] = CASE blocks[k].kind = "text" -> TextPart(<<Word[blocks[k].n]>>)
                   [] blocks[k].kind = "tool" -> ToolPart(blocks[k].n, TRUE, "available")
                   [] OTHER -> ReasoningPart(indexAt(k), textAt(k), "complete")
    BY <1>3
  <2> HIDE DEF own
  <2>3. CASE blocks[k].kind = "text"
    <3>1. own[k] = TextPart(<<Word[blocks[k].n]>>) /\ <<Word[blocks[k].n]>> \in Seq(Nat)
      BY <1>3, <2>2, <2>3
    <3>2. own[k] \in Parts /\ own[k].kind = "text"
      BY <3>1, TextMade
    <3> QED BY <3>2
  <2>4. CASE blocks[k].kind = "tool"
    <3>1. own[k] = ToolPart(blocks[k].n, TRUE, "available")
      BY <2>2, <2>4
    <3>3. "available" \in {"running", "available", "error"} /\ blocks[k].n \in Nat
      BY <1>3
    <3> DEFINE x == blocks[k].n
    <3>4. ToolPart(x, TRUE, "available") \in CallParts /\ ToolPart(x, TRUE, "available").n = x
      <4> HIDE DEF x
      <4> QED BY <3>3, ToolMade DEF x
    <3>2. own[k] \in CallParts /\ own[k].n = blocks[k].n
      BY <3>1, <3>4
    <3> QED BY <3>2 DEF Parts
  <2>5. CASE blocks[k].kind = "thinking"
    <3>1. own[k] = ReasoningPart(indexAt(k), textAt(k), "complete")
      BY <2>2, <2>5
    <3>3. "complete" \in {"streaming", "complete"} /\ indexAt(k) \in Nat /\ textAt(k) \in Seq(Nat)
      BY <1>4
    <3>2. own[k] \in Parts /\ own[k].kind = "reasoning"
      BY <3>1, <3>3, ReasoningMade
    <3> QED BY <3>2
  <2> QED BY <1>3, <2>3, <2>4, <2>5
<1>6. own \in Seq(Parts) /\ Len(own) = Len(blocks)
  <2>1. own \in [1 .. Len(blocks) -> Parts]
    <3>1. own = [k \in 1 .. Len(blocks) |-> own[k]]
      BY <1>3
    <3> HIDE DEF own
    <3> QED BY <1>5, <3>1
  <2> HIDE DEF own
  <2> QED BY <1>3, <2>1
<1> HIDE DEF own
<1>7. Keyed(own, {"tool"})
  <2>1. SUFFICES ASSUME NEW i \in 1 .. Len(blocks), NEW j \in 1 .. Len(blocks),
                        own[i].kind = "tool", SameThing(own[i], own[j])
                 PROVE i = j
    BY <1>6 DEF Keyed
  <2>2. blocks[i].n = blocks[j].n
    BY <1>5, <2>1 DEF SameThing
  <2>3. blocks[i].n \in Nat /\ i \in DOMAIN blocks /\ j \in DOMAIN blocks /\ i \in Nat /\ j \in Nat
    BY <1>3
  <2>4. i < j => blocks[i].n < blocks[j].n
    BY <2>3 DEF Rising
  <2>5. j < i => blocks[j].n < blocks[i].n
    BY <2>3 DEF Rising
  <2> QED BY <2>2, <2>3, <2>4, <2>5
<1>8. /\ more \in Seq(Parts) /\ Keyed(more, {"tool"})
      /\ Range(more) = {ReasoningPart(i, m.reasoning[i], "complete") : i \in S}
  <2>1. S \subseteq DOMAIN m.reasoning /\ {"tool"} \subseteq Kinds
    BY DEF Kinds
  <2> HIDE DEF S
  <2>2. more \in Seq(Parts) /\ Keyed(more, Kinds)
    BY <1>1, <2>1, EpisodePartsAre
  <2>3. Range(more) = {ReasoningPart(i, m.reasoning[i], "complete") : i \in S}
    BY <1>1, <2>1, EpisodePartsAre
  <2> HIDE DEF more
  <2> QED BY <2>1, <2>2, <2>3, KeyedLess
<1>9. \A q \in Range(more) : q.kind = "reasoning"
  <2> HIDE DEF more, S
  <2> QED BY <1>8 DEF ReasoningPart
<1> HIDE DEF more
<1>10. Keyed(own \o more, {"tool"})
  <2>1. \A p \in Range(own), q \in Range(more) : p.kind \in {"tool"} => ~SameThing(p, q)
    BY <1>9 DEF SameThing
  <2> QED BY <1>6, <1>7, <1>8, <2>1, KeyedConcat
<1>11. own \o more \in Seq(Parts)
  BY <1>6, <1>8, ConcatIs
<1>12. last \in Seq(Parts) /\ Keyed(last, {"tool"}) /\ \A q \in Range(last) : q.kind = "error"
  <2>1. ErrorPart \in Parts /\ ErrorPart.kind = "error"
    BY PartsMade, KindsOfParts
  <2>2. last \in Seq(Parts) /\ Len(last) = 1 /\ last[1] = ErrorPart
    BY <2>1
  <2> HIDE DEF last
  <2>3. Range(last) = {ErrorPart}
    BY <2>2, RangeIs
  <2>4. \A i \in DOMAIN last : last[i].kind = "error"
    BY <2>1, <2>2
  <2> QED BY <2>1, <2>2, <2>3, <2>4 DEF Keyed
<1> HIDE DEF last
<1>13. Keyed((own \o more) \o last, {"tool"})
  <2>1. \A p \in Range(own \o more), q \in Range(last) : p.kind \in {"tool"} => ~SameThing(p, q)
    BY <1>12 DEF SameThing
  <2> QED BY <1>10, <1>11, <1>12, <2>1, KeyedConcat
<1>14. (own \o more) \o last \in Seq(Parts)
  BY <1>11, <1>12, ConcatIs
<1> QED BY <1>2, <1>13, <1>14

LEMMA HasReasoningIs ==
  ASSUME NEW parts \in Seq(Parts), NEW index
  PROVE  HasReasoning(parts, index) <=> \E p \in Range(parts) : p.kind = "reasoning" /\ p.index = index
<1>1. \A i \in 1 .. Len(parts) : i \in At(parts, "reasoning") <=> parts[i].kind = "reasoning"
  BY AtIs
<1>2. At(parts, "reasoning") \subseteq 1 .. Len(parts)
  BY AtIs
<1>3. \A p : p \in Range(parts) <=> \E i \in 1 .. Len(parts) : parts[i] = p
  BY RangeIs
<1> QED BY <1>1, <1>2, <1>3 DEF HasReasoning

(* The episodes that no part shows yet are put behind the parts.           *)
Episode(m, p) == \E i \in DOMAIN m.reasoning : p = ReasoningPart(i, m.reasoning[i], "complete")

LEMMA EpisodeIs ==
  ASSUME NEW m, MapperSound(m), NEW p, Episode(m, p)
  PROVE  /\ p \in Parts /\ p.kind = "reasoning" /\ p.state = "complete"
         /\ p.index \in DOMAIN m.reasoning /\ p.text = m.reasoning[p.index]
<1>1. PICK i \in DOMAIN m.reasoning : p = ReasoningPart(i, m.reasoning[i], "complete")
  BY DEF Episode
<1>2. i \in Nat /\ m.reasoning[i] \in Seq(Nat) /\ "complete" \in {"streaming", "complete"}
  BY DEF MapperSound, MapperTyped, Indexed
<1> DEFINE t == m.reasoning[i]
<1>3. /\ ReasoningPart(i, t, "complete") \in Parts
      /\ ReasoningPart(i, t, "complete").kind = "reasoning"
      /\ ReasoningPart(i, t, "complete").index = i
      /\ ReasoningPart(i, t, "complete").text = t
      /\ ReasoningPart(i, t, "complete").state = "complete"
  <2> HIDE DEF t
  <2> QED BY <1>2, ReasoningMade DEF t
<1> QED BY <1>1, <1>3

LEMMA PendingIs ==
  ASSUME NEW m, MapperSound(m), NEW parts \in Seq(Parts), Keyed(parts, Kinds), NEW below
  PROVE  LET new == parts \o Pending(m, parts, below)
         IN  /\ new \in Seq(Parts) /\ Keyed(new, Kinds)
             /\ Range(parts) \subseteq Range(new)
             /\ \A p \in Range(new) : p \in Range(parts) \/ Episode(m, p)
<1> DEFINE S == {i \in DOMAIN m.reasoning : i < below /\ ~HasReasoning(parts, i)}
           e == EpisodeParts(m.reasoning, S)
<1>1. Indexed(m.reasoning, Seq(Nat)) /\ S \subseteq DOMAIN m.reasoning
  BY DEF MapperSound, MapperTyped
<1>2. Pending(m, parts, below) = e
  BY DEF Pending, EpisodeParts
<1>3. \A i \in S : \A p \in Range(parts) : p.kind = "reasoning" => p.index # i
  BY HasReasoningIs
<1> HIDE DEF S
<1>4. e \in Seq(Parts) /\ Keyed(e, Kinds)
        /\ Range(e) = {ReasoningPart(i, m.reasoning[i], "complete") : i \in S}
  BY <1>1, EpisodePartsAre
<1> HIDE DEF e
<1>5. \A q \in Range(e) : \E i \in S : q = ReasoningPart(i, m.reasoning[i], "complete")
  BY <1>4
<1>6. \A q \in Range(e) : Episode(m, q)
  BY <1>1, <1>5 DEF Episode
<1>7. \A q \in Range(e) : q.kind = "reasoning" /\ q.index \in S
  <2>1. \A i, t, s : ReasoningPart(i, t, s).kind = "reasoning" /\ ReasoningPart(i, t, s).index = i
    BY DEF ReasoningPart
  <2> QED BY <1>5, <2>1
<1>8. \A p \in Range(parts), q \in Range(e) : p.kind \in Kinds => ~SameThing(p, q)
  BY <1>3, <1>7 DEF SameThing
<1>9. Keyed(parts \o e, Kinds)
  BY <1>4, <1>8, KeyedConcat
<1>10. parts \o e \in Seq(Parts) /\ Range(parts \o e) = Range(parts) \union Range(e)
  BY <1>4, ConcatIs
<1> QED BY <1>2, <1>6, <1>9, <1>10

(* What the message of `done` is made of.  Each thinking block is known    *)
(* when its episode was streamed.                                          *)
AllKnown(m) ==
  \A k \in At(m.message, "thinking") :
    k - 1 \in DOMAIN m.indexOf /\ m.indexOf[k - 1] \in DOMAIN m.reasoning

Fits(m, p) ==
  /\ p.kind = "text" => IF m.text # <<>> THEN p.text = m.text ELSE At(m.message, "text") # {}
  /\ p.kind = "reasoning" =>
       /\ p.state = "complete"
       /\ AllKnown(m) => p.index \in DOMAIN m.reasoning /\ p.text = m.reasoning[p.index]
  /\ p.kind = "tool" => p \in Range(m.tools)

(* The state with the parts of the first k blocks.                         *)
BuiltSound(m, b, k) ==
  /\ b = [m |-> b.m, parts |-> b.parts]
  /\ MapperSound(b.m)
  /\ b.m.text = m.text /\ b.m.reasoning = m.reasoning /\ b.m.message = m.message /\ b.m.tools = m.tools
  /\ AllKnown(m) => b.m.indexOf = m.indexOf
  /\ b.parts \in Seq(Parts) /\ Keyed(b.parts, Kinds)
  /\ \A p \in Range(b.parts) : Fits(m, p)
  /\ \A p \in Range(b.parts) : p.kind = "tool" =>
         \E j \in 1 .. k : m.message[j].kind = "tool" /\ p.n = m.message[j].n
  /\ \A p \in Range(m.tools), j \in 1 .. k :
       m.message[j].kind = "tool" /\ p.n = m.message[j].n => p \in Range(b.parts)

LEMMA EpisodeFits ==
  ASSUME NEW m, MapperSound(m), NEW p, Episode(m, p)
  PROVE  Fits(m, p)
BY EpisodeIs DEF Fits

LEMMA BuiltText ==
  ASSUME NEW m, MapperSound(m), NEW k \in 1 .. Len(m.message), m.message[k].kind = "text",
         NEW b, BuiltSound(m, b, k - 1)
  PROVE  BuiltSound(m, WithText(b, m.message[k].n), k)
<1> DEFINE n == m.message[k].n
           t == IF b.m.text = <<>> THEN <<Word[n]>> ELSE b.m.text
           c == WithText(b, n)
<1>1. m.message \in Seq(Blocks) /\ k \in Nat
  BY DEF MapperSound, MapperTyped
<1>2. n \in Nat /\ Word[n] \in Nat /\ k \in DOMAIN m.message
  BY <1>1, BlocksAre
<1>3. m.text \in Seq(Nat) /\ b.m.text = m.text
  BY DEF MapperSound, MapperTyped, BuiltSound
<1>4. t \in Seq(Nat)
  BY <1>2, <1>3
<1>5. At(m.message, "text") # {}
  BY <1>2 DEF At
<1>6. b.parts \in Seq(Parts) /\ Keyed(b.parts, Kinds)
  BY DEF BuiltSound
<1>7. TextPart(t) \in Parts /\ TextPart(t).kind = "text" /\ TextPart(t).text = t
  <2> HIDE DEF t
  <2> QED BY <1>4, TextMade
<1>8. Fits(m, TextPart(t))
  BY <1>3, <1>5, <1>7 DEF Fits
<1>9. ASSUME NEW p \in Range(m.tools), NEW j \in 1 .. k,
             m.message[j].kind = "tool", p.n = m.message[j].n
      PROVE  p \in Range(b.parts)
  <2>1. j # k
    BY <1>9
  <2>2. j \in 1 .. k - 1
    BY <1>1, <2>1
  <2> QED BY <1>9, <2>2 DEF BuiltSound
<1>10. \A p \in Range(b.parts) : p.kind = "tool" =>
           \E j \in 1 .. k : m.message[j].kind = "tool" /\ p.n = m.message[j].n
  <2>1. 1 .. k - 1 \subseteq 1 .. k
    BY <1>1
  <2>2. \A p \in Range(b.parts) : p.kind = "tool" =>
            \E j \in 1 .. k - 1 : m.message[j].kind = "tool" /\ p.n = m.message[j].n
    BY DEF BuiltSound
  <2> QED BY <2>1, <2>2
<1>11. CASE At(b.parts, "text") # {}
  <2>1. c = b
    BY <1>11 DEF WithText
  <2> HIDE DEF c, n, t
  <2>2. BuiltSound(m, b, k)
    BY <1>9, <1>10 DEF BuiltSound
  <2> QED BY <2>1, <2>2 DEF c, n
<1>12. CASE At(b.parts, "text") = {}
  <2> DEFINE new == Append(b.parts, TextPart(t))
  <2>1. c = [m |-> b.m, parts |-> new]
    BY <1>12 DEF WithText, BuiltSound
  <2>2. new \in Seq(Parts) /\ Range(new) = Range(b.parts) \union {TextPart(t)}
    BY <1>6, <1>7, AppendIs
  <2>3. \A q \in Range(b.parts) : ~SameThing(q, TextPart(t))
    <3>1. \A i \in 1 .. Len(b.parts) : b.parts[i].kind # "text"
      BY <1>6, <1>12, AtIs
    <3>2. \A q \in Range(b.parts) : q.kind # "text"
      BY <1>6, <3>1, RangeIs
    <3> QED BY <1>7, <3>2 DEF SameThing
  <2>4. Keyed(new, Kinds)
    BY <1>6, <1>7, <2>3, KeyedAppend
  <2> HIDE DEF c, n, t, new
  <2>5. c.m = b.m /\ c.parts = new /\ c = [m |-> c.m, parts |-> c.parts]
    BY <2>1
  <2>6. \A p \in Range(new) : Fits(m, p)
    BY <1>8, <2>2 DEF BuiltSound
  <2>7. \A p \in Range(new) : p.kind = "tool" =>
            \E j \in 1 .. k : m.message[j].kind = "tool" /\ p.n = m.message[j].n
    BY <1>7, <1>10, <2>2
  <2>8. \A p \in Range(m.tools), j \in 1 .. k :
          m.message[j].kind = "tool" /\ p.n = m.message[j].n => p \in Range(new)
    BY <1>9, <2>2
  <2>9. BuiltSound(m, c, k)
    BY <2>2, <2>4, <2>5, <2>6, <2>7, <2>8 DEF BuiltSound
  <2> QED BY <2>9 DEF c, n
<1> QED BY <1>11, <1>12

LEMMA BuiltCall ==
  ASSUME NEW m, MapperSound(m), NEW k \in 1 .. Len(m.message), m.message[k].kind = "tool",
         NEW b, BuiltSound(m, b, k - 1)
  PROVE  BuiltSound(m, WithCall(b, m.message[k].n), k)
<1> DEFINE n == m.message[k].n
           i == ToolAt(m.tools, n)
           c == WithCall(b, n)
<1>1. m.message \in Seq(Blocks) /\ k \in Nat /\ m.tools \in Seq(CallParts) /\ Keyed(m.tools, {"tool"})
  BY DEF MapperSound, MapperTyped
<1>2. n \in Nat /\ k \in DOMAIN m.message /\ DOMAIN m.message = 1 .. Len(m.message)
  BY <1>1, BlocksAre
<1>3. b.m.tools = m.tools /\ b.parts \in Seq(Parts) /\ Keyed(b.parts, Kinds)
  BY DEF BuiltSound
<1>4. /\ i # 0 => i \in 1 .. Len(m.tools) /\ m.tools[i].n = n
      /\ i = 0 => \A p \in Range(m.tools) : p.n # n
  BY <1>1, ToolAtIs
<1>5. \A p \in Range(b.parts) : p.kind = "tool" => p.n # n
  <2>1. SUFFICES ASSUME NEW p \in Range(b.parts), p.kind = "tool" PROVE p.n # n
    OBVIOUS
  <2>2. PICK j \in 1 .. k - 1 : m.message[j].kind = "tool" /\ p.n = m.message[j].n
    BY <2>1 DEF BuiltSound
  <2>3. j \in DOMAIN m.message /\ j < k
    BY <1>1, <1>2, <2>2
  <2>4. m.message[j].n < m.message[k].n
    BY <1>2, <2>3 DEF MapperSound, Rising
  <2>5. m.message[j].n \in Nat
    BY <1>1, <1>2, <2>3, BlocksAre
  <2> QED BY <1>2, <2>2, <2>4, <2>5
<1>6. \A j \in 1 .. k : j \in 1 .. k - 1 \/ j = k
  BY <1>1
<1>7. 1 .. k - 1 \subseteq 1 .. k /\ k \in 1 .. k
  BY <1>1
<1>8. \A p \in Range(b.parts) : p.kind = "tool" =>
          \E j \in 1 .. k : m.message[j].kind = "tool" /\ p.n = m.message[j].n
  BY <1>7 DEF BuiltSound
<1>9. \A p \in Range(m.tools), j \in 1 .. k - 1 :
        m.message[j].kind = "tool" /\ p.n = m.message[j].n => p \in Range(b.parts)
  BY DEF BuiltSound
<1>10. CASE i = 0
  <2>1. c = b
    BY <1>3, <1>10 DEF WithCall
  <2>2. \A p \in Range(m.tools), j \in 1 .. k :
          m.message[j].kind = "tool" /\ p.n = m.message[j].n => p \in Range(b.parts)
    BY <1>4, <1>6, <1>9, <1>10
  <2> HIDE DEF c, n, i
  <2>3. BuiltSound(m, b, k)
    BY <1>8, <2>2 DEF BuiltSound
  <2> QED BY <2>1, <2>3 DEF c, n
<1>11. CASE i # 0
  <2> DEFINE part == m.tools[i]
             new == Append(b.parts, part)
  <2>1. c = [m |-> b.m, parts |-> new]
    BY <1>3, <1>11 DEF WithCall, BuiltSound
  <2>2. part \in CallParts /\ part \in Range(m.tools) /\ part.n = n
    <3>1. part \in CallParts /\ part.n = n
      BY <1>1, <1>4, <1>11
    <3>2. part \in Range(m.tools)
      BY <1>1, <1>4, <1>11, RangeIs
    <3> QED BY <3>1, <3>2
  <2> HIDE DEF c, n, i, part
  <2>3. part \in Parts /\ part.kind = "tool"
    BY <2>2, CallPartsAre
  <2>4. new \in Seq(Parts) /\ Range(new) = Range(b.parts) \union {part}
    BY <1>3, <2>3, AppendIs
  <2>5. \A q \in Range(b.parts) : ~SameThing(q, part)
    BY <1>5, <2>2, <2>3 DEF SameThing
  <2>6. Keyed(new, Kinds)
    BY <1>3, <2>3, <2>5, KeyedAppend
  <2> HIDE DEF new
  <2>7. c.m = b.m /\ c.parts = new /\ c = [m |-> c.m, parts |-> c.parts]
    BY <2>1
  <2>8. Fits(m, part)
    BY <2>2, <2>3 DEF Fits
  <2>9. \A p \in Range(new) : Fits(m, p)
    BY <2>8, <2>4 DEF BuiltSound
  <2>10. \A p \in Range(new) : p.kind = "tool" =>
             \E j \in 1 .. k : m.message[j].kind = "tool" /\ p.n = m.message[j].n
    <3>1. m.message[k].kind = "tool" /\ part.n = m.message[k].n
      BY <2>2 DEF n
    <3> QED BY <1>7, <1>8, <2>4, <3>1
  <2>11. \A p \in Range(m.tools) : p.n = n => p = part
    <3>1. \A p \in Range(m.tools) : p \in CallParts
      BY <1>1, RangeIs
    <3>2. \A p \in Range(m.tools) : p.n = n => SameThing(p, part) /\ p.kind \in {"tool"}
      BY <2>2, <3>1, CallPartsAre
    <3> QED BY <1>1, <2>2, <3>2, KeyedMember
  <2>12. \A p \in Range(m.tools), j \in 1 .. k :
          m.message[j].kind = "tool" /\ p.n = m.message[j].n => p \in Range(new)
    <3>1. \A p \in Range(m.tools) : p.n = m.message[k].n => p = part
      BY <2>11 DEF n
    <3> QED BY <1>6, <1>9, <2>4, <3>1
  <2>13. BuiltSound(m, c, k)
    BY <2>4, <2>6, <2>7, <2>9, <2>10, <2>12 DEF BuiltSound
  <2> QED BY <2>13 DEF c, n
<1> QED BY <1>10, <1>11

LEMMA BuiltThought ==
  ASSUME NEW m, MapperSound(m), NEW k \in 1 .. Len(m.message), m.message[k].kind = "thinking",
         NEW b, BuiltSound(m, b, k - 1)
  PROVE  BuiltSound(m, WithThought(b, k - 1, m.message[k].n), k)
<1> DEFINE n == m.message[k].n
           r == k - 1
           known == r \in DOMAIN b.m.indexOf
           index == IF known THEN b.m.indexOf[r] ELSE FreshIndex(b.m, r)
           more  == b.parts \o Pending(b.m, b.parts, index)
           text  == IF index \in DOMAIN b.m.reasoning THEN b.m.reasoning[index] ELSE <<n>>
           part  == ReasoningPart(index, text, "complete")
           state == IF known THEN b.m ELSE Claimed(b.m, r, index)
           new   == IF HasReasoning(more, index) THEN more ELSE Append(more, part)
           c     == WithThought(b, r, n)
<1>1. m.message \in Seq(Blocks) /\ k \in Nat /\ r \in Nat
  BY DEF MapperSound, MapperTyped
<1>2. n \in Nat /\ k \in DOMAIN m.message
  BY <1>1, BlocksAre
<1>3. /\ MapperSound(b.m) /\ b.m.text = m.text /\ b.m.reasoning = m.reasoning
      /\ b.m.message = m.message /\ b.m.tools = m.tools
      /\ b.parts \in Seq(Parts) /\ Keyed(b.parts, Kinds)
  BY DEF BuiltSound
<1>4. /\ Indexed(b.m.indexOf, Nat) /\ \A i \in DOMAIN b.m.indexOf : b.m.indexOf[i] \in Nat
      /\ \A i \in DOMAIN b.m.reasoning : b.m.reasoning[i] \in Seq(Nat)
  BY <1>3 DEF MapperSound, MapperTyped, Indexed
<1>5. c = [m |-> state, parts |-> new]
  BY DEF WithThought
<1>6. index \in Nat
  <2>1. FreshIndex(b.m, r) \in Nat
    BY <1>1, <1>3, FreshIs
  <2> QED BY <1>4, <2>1
<1>7. AllKnown(m) => /\ known /\ index \in DOMAIN m.reasoning /\ index \in DOMAIN b.m.reasoning
                     /\ text = m.reasoning[index]
  <2>1. k \in At(m.message, "thinking")
    BY <1>2 DEF At
  <2>2. AllKnown(m) => b.m.indexOf = m.indexOf
    BY DEF BuiltSound
  <2> QED BY <1>3, <2>1, <2>2 DEF AllKnown
<1>8. text \in Seq(Nat)
  BY <1>2, <1>4
<1>9. /\ MapperSound(state)
      /\ state.text = m.text /\ state.reasoning = m.reasoning
      /\ state.message = m.message /\ state.tools = m.tools
      /\ AllKnown(m) => state.indexOf = m.indexOf
  <2>1. CASE known
    <3>1. state = b.m
      BY <2>1
    <3>2. AllKnown(m) => b.m.indexOf = m.indexOf
      BY DEF BuiltSound
    <3> HIDE DEF state
    <3> QED BY <1>3, <3>1, <3>2
  <2>2. CASE ~known
    <3>1. ~AllKnown(m)
      BY <1>7, <2>2
    <3>2. state = Claimed(b.m, r, index)
      BY <2>2
    <3> HIDE DEF state, index, known
    <3>3. /\ MapperSound(Claimed(b.m, r, index))
          /\ Claimed(b.m, r, index).text = b.m.text /\ Claimed(b.m, r, index).reasoning = b.m.reasoning
          /\ Claimed(b.m, r, index).message = b.m.message /\ Claimed(b.m, r, index).tools = b.m.tools
      <4> DEFINE x == b.m
      <4>1. MapperSound(x) /\ r \in Nat /\ index \in Nat
        BY <1>1, <1>3, <1>6
      <4> HIDE DEF x, r
      <4>2. /\ MapperSound(Claimed(x, r, index))
            /\ Claimed(x, r, index).text = x.text /\ Claimed(x, r, index).reasoning = x.reasoning
            /\ Claimed(x, r, index).message = x.message /\ Claimed(x, r, index).tools = x.tools
        BY <4>1, ClaimedIs
      <4> QED BY <4>2 DEF x
    <3> QED BY <1>3, <3>1, <3>2, <3>3
  <2> QED BY <2>1, <2>2
<1> HIDE DEF state, c
<1>10. /\ more \in Seq(Parts) /\ Keyed(more, Kinds) /\ Range(b.parts) \subseteq Range(more)
       /\ \A p \in Range(more) : p \in Range(b.parts) \/ Episode(b.m, p)
  BY <1>3, PendingIs
<1> HIDE DEF more
<1>11. /\ part \in Parts /\ part.kind = "reasoning" /\ part.index = index
       /\ part.text = text /\ part.state = "complete"
  <2>1. "complete" \in {"streaming", "complete"}
    OBVIOUS
  <2> HIDE DEF index, text
  <2> QED BY <1>6, <1>8, <2>1, ReasoningMade
<1>12. Fits(m, part)
  <2> HIDE DEF part, index, text, known
  <2> QED BY <1>7, <1>11 DEF Fits
<1> HIDE DEF part
<1>13. \A p : Episode(b.m, p) => p.kind = "reasoning" /\ Fits(m, p)
  <2>1. \A p : Episode(b.m, p) => Episode(m, p)
    BY <1>3 DEF Episode
  <2> QED BY <2>1, EpisodeFits, EpisodeIs
<1>14. \A p \in Range(more) : p \in Range(b.parts) \/ (p.kind = "reasoning" /\ Fits(m, p))
  BY <1>10, <1>13
<1>15. /\ new \in Seq(Parts) /\ Keyed(new, Kinds) /\ Range(more) \subseteq Range(new)
       /\ \A p \in Range(new) : p \in Range(more) \/ p = part
  <2>1. CASE HasReasoning(more, index)
    <3>1. new = more
      BY <2>1
    <3> QED BY <1>10, <3>1
  <2>2. CASE ~HasReasoning(more, index)
    <3>1. new = Append(more, part)
      BY <2>2
    <3>2. \A q \in Range(more) : q.kind = "reasoning" => q.index # index
      BY <1>10, <2>2, HasReasoningIs
    <3>3. \A q \in Range(more) : ~SameThing(q, part)
      BY <1>11, <3>2 DEF SameThing
    <3>4. Keyed(Append(more, part), Kinds)
      BY <1>10, <1>11, <3>3, KeyedAppend
    <3>5. Append(more, part) \in Seq(Parts) /\ Range(Append(more, part)) = Range(more) \union {part}
      BY <1>10, <1>11, AppendIs
    <3> QED BY <3>1, <3>4, <3>5
  <2> QED BY <2>1, <2>2
<1> HIDE DEF new, index, text, known
<1>16. c.m = state /\ c.parts = new /\ c = [m |-> c.m, parts |-> c.parts]
  BY <1>5
<1>17. \A p \in Range(new) : p \in Range(b.parts) \/ (p.kind = "reasoning" /\ Fits(m, p))
  BY <1>11, <1>12, <1>14, <1>15
<1>18. \A p \in Range(new) : Fits(m, p)
  BY <1>17 DEF BuiltSound
<1>19. \A p \in Range(new) : p.kind = "tool" =>
           \E j \in 1 .. k : m.message[j].kind = "tool" /\ p.n = m.message[j].n
  <2>1. 1 .. k - 1 \subseteq 1 .. k
    BY <1>1
  <2>2. \A p \in Range(b.parts) : p.kind = "tool" =>
            \E j \in 1 .. k - 1 : m.message[j].kind = "tool" /\ p.n = m.message[j].n
    BY DEF BuiltSound
  <2> QED BY <1>17, <2>1, <2>2
<1>20. \A p \in Range(m.tools), j \in 1 .. k :
         m.message[j].kind = "tool" /\ p.n = m.message[j].n => p \in Range(new)
  <2>1. \A j \in 1 .. k : j # k => j \in 1 .. k - 1
    BY <1>1
  <2>2. \A p \in Range(m.tools), j \in 1 .. k - 1 :
          m.message[j].kind = "tool" /\ p.n = m.message[j].n => p \in Range(b.parts)
    BY DEF BuiltSound
  <2>3. m.message[k].kind # "tool"
    OBVIOUS
  <2> QED BY <1>10, <1>15, <2>1, <2>2, <2>3
<1>21. BuiltSound(m, c, k)
  BY <1>9, <1>15, <1>16, <1>18, <1>19, <1>20 DEF BuiltSound
<1> QED BY <1>21 DEF c, r, n

(* The parts of `done`.                                                    *)
LEMMA BuildingIs ==
  ASSUME NEW m, MapperSound(m)
  PROVE  BuiltSound(m, Building(m), Len(m.message))
<1> DEFINE n == Len(m.message)
<1>1. m.message \in Seq(Blocks) /\ n \in Nat
  BY DEF MapperSound, MapperTyped
<1>2. \A k \in 1 .. n : m.message[k].kind \in {"text", "thinking", "tool"}
  BY <1>1, BlocksAre
<1>3. PICK g : /\ g[0] = [m |-> m, parts |-> <<>>]
               /\ \A k \in 1 .. n : g[k] = Finalized(g[k - 1], k)
               /\ Building(m) = g[n]
  BY <1>1, BuiltSteps
<1> DEFINE first == g[0]
<1>4. BuiltSound(m, first, 0)
  <2>1. first.m = m /\ first.parts = <<>> /\ first = [m |-> first.m, parts |-> first.parts]
    BY <1>3
  <2>2. first.parts \in Seq(Parts) /\ Keyed(first.parts, Kinds) /\ Range(first.parts) = {}
    <3>1. Range(<<>>) = {} /\ <<>> \in Seq(Parts) /\ Keyed(<<>>, Kinds)
      BY DEF Keyed, Range
    <3> QED BY <2>1, <3>1
  <2> HIDE DEF first
  <2>3. 1 .. 0 = {}
    OBVIOUS
  <2> QED BY <2>1, <2>2, <2>3 DEF BuiltSound
<1>5. ASSUME NEW k \in 1 .. n, BuiltSound(m, g[k - 1], k - 1) PROVE BuiltSound(m, g[k], k)
  <2> DEFINE b == g[k - 1]
  <2>1. b.m.message = m.message /\ BuiltSound(m, b, k - 1)
    BY <1>5 DEF BuiltSound
  <2>2. g[k] = Finalized(b, k)
    BY <1>3
  <2> HIDE DEF b
  <2>3. CASE m.message[k].kind = "text"
    <3>1. g[k] = WithText(b, m.message[k].n)
      BY <2>1, <2>2, <2>3 DEF Finalized
    <3> QED BY <2>1, <2>3, <3>1, BuiltText
  <2>4. CASE m.message[k].kind = "thinking"
    <3>1. g[k] = WithThought(b, k - 1, m.message[k].n)
      BY <2>1, <2>2, <2>4 DEF Finalized
    <3> QED BY <2>1, <2>4, <3>1, BuiltThought
  <2>5. CASE m.message[k].kind = "tool"
    <3>1. g[k] = WithCall(b, m.message[k].n)
      BY <2>1, <2>2, <2>5 DEF Finalized
    <3> QED BY <2>1, <2>5, <3>1, BuiltCall
  <2> QED BY <1>2, <2>3, <2>4, <2>5
<1> DEFINE Good == {k \in Nat : k <= n => BuiltSound(m, g[k], k)}
<1> HIDE DEF n
<1>6. 0 \in Good
  BY <1>4
<1>7. ASSUME NEW k \in Nat, k \in Good PROVE k + 1 \in Good
  <2>1. SUFFICES ASSUME k + 1 <= n PROVE BuiltSound(m, g[k + 1], k + 1)
    OBVIOUS
  <2>2. k + 1 \in 1 .. n /\ (k + 1) - 1 = k /\ BuiltSound(m, g[k], k)
    BY <1>1, <1>7, <2>1
  <2> QED BY <1>5, <2>2
<1>8. \A k \in Nat : k \in Good
  <2> HIDE DEF Good
  <2> QED BY <1>6, <1>7, SetInduction
<1> QED BY <1>1, <1>3, <1>8 DEF n

LEMMA KeyedCalls ==
  ASSUME NEW s \in Seq(CallParts), Keyed(s, {"tool"})
  PROVE  s \in Seq(Parts) /\ Keyed(s, Kinds)
<1>1. CallParts \subseteq Parts
  BY DEF Parts
<1>2. s \in Seq(Parts)
  BY <1>1, SeqsGrow
<1>3. \A i \in DOMAIN s : s[i].kind = "tool"
  <2>1. \A i \in DOMAIN s : s[i] \in CallParts
    OBVIOUS
  <2> QED BY <2>1, CallPartsAre
<1> QED BY <1>2, <1>3 DEF Keyed

LEMMA OtherToolsAre ==
  ASSUME NEW m, MapperSound(m)
  PROVE  /\ OtherTools(m) \in Seq(Parts) /\ Keyed(OtherTools(m), Kinds)
         /\ \A p : p \in Range(OtherTools(m)) <=> p \in Range(m.tools) /\ p.n \notin CallsIn(m.message)
<1> DEFINE tools == m.tools
           S == {i \in DOMAIN tools : tools[i].n \notin CallsIn(m.message)}
           o == Picked(tools, S)
<1>1. tools \in Seq(CallParts) /\ Keyed(tools, {"tool"})
  BY DEF MapperSound, MapperTyped
<1>2. OtherTools(m) = o
  BY DEF OtherTools
<1> HIDE DEF tools
<1>3. S \subseteq 1 .. Len(tools)
  BY <1>1
<1>4. o \in Seq(CallParts) /\ Range(o) = {tools[i] : i \in S} /\ Keyed(o, {"tool"})
  <2> HIDE DEF S
  <2> QED BY <1>1, <1>3, PickedIs, KeyedPicked
<1>5. \A p : p \in Range(tools) <=> \E i \in 1 .. Len(tools) : tools[i] = p
  BY <1>1, RangeIs
<1>6. \A p : p \in Range(o) <=> \E i \in S : p = tools[i]
  <2> HIDE DEF o
  <2> QED BY <1>4
<1>7. \A p : p \in Range(o) <=> p \in Range(tools) /\ p.n \notin CallsIn(m.message)
  <2> HIDE DEF o
  <2>1. DOMAIN tools = 1 .. Len(tools)
    BY <1>1
  <2> QED BY <1>5, <1>6, <2>1
<1>8. o \in Seq(Parts) /\ Keyed(o, Kinds)
  <2> HIDE DEF o
  <2> QED BY <1>4, KeyedCalls
<1> QED BY <1>2, <1>7, <1>8 DEF tools

(* The text of the run is a part unless it is empty, every call is one,    *)
(* and no two parts are the same thing.                                    *)
LEMMA DonePartsAre ==
  ASSUME NEW m, MapperSound(m)
  PROVE  /\ DoneParts(m) \in Seq(Parts) /\ Keyed(DoneParts(m), Kinds)
         /\ \A p \in Range(DoneParts(m)) : Fits(m, p)
         /\ Range(m.tools) \subseteq Range(DoneParts(m))
         /\ m.text # <<>> => TextPart(m.text) \in Range(DoneParts(m))
<1> DEFINE parts == Building(m).parts
           told  == IF m.text = <<>> \/ At(parts, "text") # {} THEN parts
                    ELSE Append(parts, TextPart(m.text))
           shown == told \o Pending(m, told, m.next)
           all   == shown \o OtherTools(m)
           tail  == IF m.failed THEN <<ErrorPart>> ELSE <<>>
<1>1. DoneParts(m) = all \o tail
  BY DEF DoneParts
<1>2. /\ parts \in Seq(Parts) /\ Keyed(parts, Kinds)
      /\ \A p \in Range(parts) : Fits(m, p)
      /\ \A p \in Range(parts) : p.kind = "tool" =>
             \E j \in 1 .. Len(m.message) : m.message[j].kind = "tool" /\ p.n = m.message[j].n
      /\ \A p \in Range(m.tools), j \in 1 .. Len(m.message) :
           m.message[j].kind = "tool" /\ p.n = m.message[j].n => p \in Range(parts)
  BY BuildingIs DEF BuiltSound
<1>3. m.text \in Seq(Nat) /\ m.message \in Seq(Blocks) /\ m.tools \in Seq(CallParts)
  BY DEF MapperSound, MapperTyped
<1> HIDE DEF parts
<1> DEFINE text == TextPart(m.text)
<1>4. text \in Parts /\ text.kind = "text" /\ text.text = m.text
  <2> DEFINE x == m.text
  <2>1. x \in Seq(Nat)
    BY <1>3
  <2>2. TextPart(x) \in Parts /\ TextPart(x).kind = "text" /\ TextPart(x).text = x
    <3> HIDE DEF x
    <3> QED BY <2>1, TextMade
  <2> QED BY <2>2
<1>5. \A p \in Range(parts) : p \in Parts
  BY <1>2, PartsIn
<1> HIDE DEF text
<1>6. /\ told \in Seq(Parts) /\ Keyed(told, Kinds) /\ Range(parts) \subseteq Range(told)
      /\ \A p \in Range(told) : p \in Range(parts) \/ (m.text # <<>> /\ p = text)
      /\ m.text # <<>> => text \in Range(told)
  <2>1. CASE m.text = <<>>
    <3>1. told = parts
      BY <2>1
    <3> QED BY <1>2, <2>1, <3>1
  <2>2. CASE m.text # <<>> /\ At(parts, "text") # {}
    <3>1. told = parts
      BY <2>2
    <3>2. PICK i \in 1 .. Len(parts) : parts[i].kind = "text"
      BY <1>2, <2>2, AtIs
    <3>3. parts[i] \in Range(parts) /\ parts[i] \in Parts
      BY <1>2, PartsIn
    <3>4. parts[i].text = m.text
      BY <1>2, <2>2, <3>2, <3>3 DEF Fits
    <3>5. parts[i] = text
      <4>1. \A p \in TextParts : p = TextPart(p.text)
        BY DEF TextParts, TextPart
      <4>2. parts[i] \in TextParts
        BY <3>2, <3>3, PartsByKind
      <4> QED BY <3>4, <4>1, <4>2 DEF text
    <3> QED BY <1>2, <3>1, <3>3, <3>5
  <2>3. CASE m.text # <<>> /\ At(parts, "text") = {}
    <3>1. told = Append(parts, text)
      BY <2>3 DEF text
    <3>2. \A q \in Range(parts) : q.kind # "text"
      <4>1. \A i \in 1 .. Len(parts) : parts[i].kind # "text"
        BY <1>2, <2>3, AtIs
      <4> QED BY <1>2, <4>1, RangeIs
    <3>3. \A q \in Range(parts) : ~SameThing(q, text)
      BY <1>4, <3>2 DEF SameThing
    <3>4. Append(parts, text) \in Seq(Parts) /\ Range(Append(parts, text)) = Range(parts) \union {text}
      BY <1>2, <1>4, AppendIs
    <3>5. Keyed(Append(parts, text), Kinds)
      BY <1>2, <1>4, <3>3, KeyedAppend
    <3> QED BY <2>3, <3>1, <3>4, <3>5
  <2> QED BY <2>1, <2>2, <2>3
<1> HIDE DEF told
<1>7. /\ shown \in Seq(Parts) /\ Keyed(shown, Kinds) /\ Range(told) \subseteq Range(shown)
      /\ \A p \in Range(shown) : p \in Range(told) \/ Episode(m, p)
  BY <1>6, PendingIs
<1> HIDE DEF shown
<1> DEFINE others == OtherTools(m)
<1>8. /\ others \in Seq(Parts) /\ Keyed(others, Kinds)
      /\ \A p : p \in Range(others) <=> p \in Range(m.tools) /\ p.n \notin CallsIn(m.message)
  BY OtherToolsAre
<1>9. \A p \in Range(m.tools) : p \in CallParts /\ p.kind = "tool"
  <2>1. \A p \in Range(m.tools) : p \in CallParts
    BY <1>3, RangeIs
  <2> QED BY <2>1, CallPartsAre
<1>10. \A p \in Range(shown) : p \in Range(parts) \/ (p = text /\ m.text # <<>>) \/ Episode(m, p)
  BY <1>6, <1>7
<1>11. \A p \in Range(shown) : p.kind = "tool" => p \in Range(parts)
  <2>1. \A p : Episode(m, p) => p.kind = "reasoning"
    BY EpisodeIs
  <2> QED BY <1>4, <1>10, <2>1
<1>12. \A p \in Range(shown) : p.kind = "tool" => p.n \in CallsIn(m.message)
  <2>1. SUFFICES ASSUME NEW p \in Range(shown), p.kind = "tool" PROVE p.n \in CallsIn(m.message)
    OBVIOUS
  <2>2. p \in Range(parts)
    BY <1>11, <2>1
  <2>3. PICK j \in 1 .. Len(m.message) : m.message[j].kind = "tool" /\ p.n = m.message[j].n
    BY <1>2, <2>1, <2>2
  <2> QED BY <1>3, <2>3, CallsInIs
<1>13. /\ all \in Seq(Parts) /\ Keyed(all, Kinds)
       /\ \A p : p \in Range(all) <=> p \in Range(shown) \/ p \in Range(others)
  <2>1. \A p \in Range(shown), q \in Range(others) : p.kind \in Kinds => ~SameThing(p, q)
    BY <1>8, <1>9, <1>12 DEF SameThing
  <2> HIDE DEF others
  <2>2. Keyed(shown \o others, Kinds)
    BY <1>7, <1>8, <2>1, KeyedConcat
  <2>3. shown \o others \in Seq(Parts) /\ Range(shown \o others) = Range(shown) \union Range(others)
    BY <1>7, <1>8, ConcatIs
  <2>4. all = shown \o others
    BY DEF others
  <2> QED BY <2>2, <2>3, <2>4
<1> HIDE DEF all, others
<1>14. /\ tail \in Seq(Parts) /\ \A p \in Range(tail) : p = ErrorPart
       /\ Keyed(tail, Kinds)
  <2>1. tail = <<>> \/ tail = <<ErrorPart>>
    OBVIOUS
  <2> HIDE DEF tail
  <2>2. CASE tail = <<>>
    BY <2>2 DEF Keyed, Range
  <2>3. CASE tail = <<ErrorPart>>
    <3>1. ErrorPart \in Parts
      BY PartsMade
    <3>2. tail \in Seq(Parts) /\ Len(tail) = 1 /\ tail[1] = ErrorPart
      BY <2>3, <3>1
    <3> QED BY <3>2, RangeIs DEF Keyed
  <2> QED BY <2>1, <2>2, <2>3
<1> HIDE DEF tail
<1>15. /\ all \o tail \in Seq(Parts) /\ Keyed(all \o tail, Kinds)
       /\ Range(all \o tail) = Range(all) \union Range(tail)
  <2>1. \A q \in Range(tail) : q.kind = "error"
    BY <1>14, KindsOfParts
  <2>2. "error" \notin Kinds
    BY DEF Kinds
  <2>3. \A p \in Range(all), q \in Range(tail) : p.kind \in Kinds => ~SameThing(p, q)
    BY <2>1, <2>2 DEF SameThing
  <2>4. Keyed(all \o tail, Kinds)
    BY <1>13, <1>14, <2>3, KeyedConcat
  <2> QED BY <1>13, <1>14, <2>4, ConcatIs
<1>16. \A p \in Range(all \o tail) : Fits(m, p)
  <2>1. SUFFICES ASSUME NEW p \in Range(all \o tail) PROVE Fits(m, p)
    OBVIOUS
  <2>2. p \in Range(parts) \/ (p = text /\ m.text # <<>>) \/ Episode(m, p) \/ p \in Range(others)
        \/ p = ErrorPart
    BY <1>10, <1>13, <1>14, <1>15, <2>1
  <2>3. CASE p \in Range(parts)
    BY <1>2, <2>3
  <2>4. CASE p = text /\ m.text # <<>>
    BY <1>4, <2>4 DEF Fits
  <2>5. CASE Episode(m, p)
    BY <2>5, EpisodeFits
  <2>6. CASE p \in Range(others)
    BY <1>8, <1>9, <2>6 DEF Fits
  <2>7. CASE p = ErrorPart
    BY <2>7, KindsOfParts DEF Fits
  <2> QED BY <2>2, <2>3, <2>4, <2>5, <2>6, <2>7
<1>17. Range(m.tools) \subseteq Range(all \o tail)
  <2>1. SUFFICES ASSUME NEW p \in Range(m.tools) PROVE p \in Range(all \o tail)
    OBVIOUS
  <2>2. CASE p.n \in CallsIn(m.message)
    <3>1. PICK j \in 1 .. Len(m.message) : m.message[j].kind = "tool" /\ m.message[j].n = p.n
      BY <1>3, <2>2, CallsInIs
    <3>2. p \in Range(parts)
      BY <1>2, <2>1, <3>1
    <3> QED BY <1>6, <1>7, <1>13, <1>15, <3>2
  <2>3. CASE p.n \notin CallsIn(m.message)
    BY <1>8, <1>13, <1>15, <2>1, <2>3
  <2> QED BY <2>2, <2>3
<1>18. m.text # <<>> => text \in Range(all \o tail)
  BY <1>6, <1>7, <1>13, <1>15
<1> QED BY <1>1, <1>15, <1>16, <1>17, <1>18 DEF text

------------------------------------------------------------------------------
(* The runtime                                                             *)

(* The name of a tool that runs is known.                                  *)
LEMMA NameKnownIs ==
  ASSUME NEW m, NEW n, n \in m.starts
  PROVE  NameKnown(m, n) = TRUE
BY DEF NameKnown

LEMMA BlocksAppend ==
  ASSUME NEW blocks \in Seq(Blocks), NEW b \in Blocks
  PROVE  LET new == Append(blocks, b)
         IN  /\ new \in Seq(Blocks) /\ Len(new) = Len(blocks) + 1 /\ new # <<>>
             /\ DOMAIN new = 1 .. Len(blocks) + 1
             /\ Last(new) = b /\ new[Len(blocks) + 1] = b
             /\ \A k \in 1 .. Len(blocks) : new[k] = blocks[k]
             /\ Rising(blocks) /\ (\A k \in 1 .. Len(blocks) : blocks[k].n < b.n) => Rising(new)
             /\ CallsIn(new) = CallsIn(blocks) \union (IF b.kind = "tool" THEN {b.n} ELSE {})
             /\ \A kind : At(new, kind) =
                  At(blocks, kind) \union (IF b.kind = kind THEN {Len(blocks) + 1} ELSE {})
<1> DEFINE new == Append(blocks, b)
           n   == Len(blocks)
<1>1. n \in Nat /\ DOMAIN blocks = 1 .. n
  OBVIOUS
<1>2. /\ new \in Seq(Blocks) /\ Len(new) = n + 1 /\ DOMAIN new = 1 .. n + 1
      /\ new[n + 1] = b
      /\ \A k \in 1 .. n : new[k] = blocks[k]
  OBVIOUS
<1>3. new # <<>> /\ Last(new) = b
  BY <1>1, <1>2 DEF Last
<1>4. \A k : k \in 1 .. n + 1 <=> k \in 1 .. n \/ k = n + 1
  BY <1>1
<1> HIDE DEF new
<1>5. \A kind : At(new, kind) = At(blocks, kind) \union (IF b.kind = kind THEN {n + 1} ELSE {})
  <2>1. SUFFICES ASSUME NEW kind
                 PROVE  At(new, kind) = At(blocks, kind) \union (IF b.kind = kind THEN {n + 1} ELSE {})
    OBVIOUS
  <2>2. \A k : k \in At(new, kind) <=> k \in 1 .. n + 1 /\ new[k].kind = kind
    BY <1>2 DEF At
  <2>3. \A k : k \in At(blocks, kind) <=> k \in 1 .. n /\ blocks[k].kind = kind
    BY <1>1 DEF At
  <2> HIDE DEF n
  <2> QED BY <1>2, <1>4, <2>2, <2>3
<1>6. CallsIn(new) = CallsIn(blocks) \union (IF b.kind = "tool" THEN {b.n} ELSE {})
  <2>1. \A x : x \in CallsIn(new) <=> \E k \in 1 .. n + 1 : new[k].kind = "tool" /\ new[k].n = x
    BY <1>2, CallsInIs
  <2>2. \A x : x \in CallsIn(blocks) <=> \E k \in 1 .. n : blocks[k].kind = "tool" /\ blocks[k].n = x
    BY CallsInIs
  <2> HIDE DEF n
  <2> QED BY <1>2, <1>4, <2>1, <2>2
<1>7. ASSUME Rising(blocks), \A k \in 1 .. n : blocks[k].n < b.n PROVE Rising(new)
  <2>1. SUFFICES ASSUME NEW j \in 1 .. n + 1, NEW k \in 1 .. n + 1, j < k PROVE new[j].n < new[k].n
    BY <1>2 DEF Rising
  <2>2. j \in 1 .. n
    BY <1>1, <2>1
  <2>3. k \in 1 .. n => blocks[j].n < blocks[k].n
    BY <1>1, <1>7, <2>1, <2>2 DEF Rising
  <2> HIDE DEF n
  <2> QED BY <1>2, <1>4, <1>7, <2>2, <2>3
<1> QED BY <1>2, <1>3, <1>5, <1>6, <1>7 DEF new

(* Outside the last step a bubble with one part for each call is enough.   *)
LEMMA CallsNamed ==
  ASSUME NEW parts \in Seq(Parts), Keyed(parts, {"tool"})
  PROVE  \A i, j \in At(parts, "tool") :
           parts[i].named /\ (parts[i].n = parts[j].n => i = j)
<1>1. SUFFICES ASSUME NEW i \in At(parts, "tool"), NEW j \in At(parts, "tool")
               PROVE  parts[i].named /\ (parts[i].n = parts[j].n => i = j)
  OBVIOUS
<1>2. i \in DOMAIN parts /\ j \in DOMAIN parts /\ parts[i].kind = "tool" /\ parts[j].kind = "tool"
  BY <1>1 DEF At
<1>3. parts[i] \in Parts
  BY <1>2
<1>4. parts[i].named
  BY <1>2, <1>3, PartsByKind, KindsOfParts
<1>5. parts[i].n = parts[j].n => SameThing(parts[i], parts[j])
  BY <1>2 DEF SameThing
<1> QED BY <1>2, <1>4, <1>5 DEF Keyed

LEMMA NotOver ==
  ASSUME run'.at # "over", BubbleSound'
  PROVE  DoneShowsTheRun'
<1>1. bubble' \in Seq(Parts) /\ Keyed(bubble', {"tool"})
  BY DEF BubbleSound
<1> QED BY <1>1, CallsNamed DEF DoneShowsTheRun

LEMMA RunAdds ==
  ASSUME RunTyped, RunSound, HasNext,
         NEW kind \in {"text", "thinking", "tool"}, NEW open \in {"none", "started", "told"},
         Adding(kind, open), open # "none" => run.streams /\ kind = "thinking",
         said' \in {said, Append(said, Word[NextBlock])}, spoken' = spoken, echoed' = echoed,
         thought' = thought \/ (thought' = thought \union {NextBlock} /\ run.streams),
         outcome' = outcome, upset' = upset
  PROVE  /\ RunTyped' /\ RunSound'
         /\ NextBlock \in 1 .. MaxBlocks /\ NextBlock \in Nat /\ Block(kind, NextBlock) \in Blocks
         /\ run'.at = "message" /\ run'.streams = run.streams /\ run'.announces = run.announces
         /\ run'.message = Append(run.message, Block(kind, NextBlock)) /\ run'.open = open
         /\ run'.running = {} /\ run'.calls = {}
         /\ \A k \in 1 .. Len(run.message) : run.message[k].n < NextBlock
<1> DEFINE n == NextBlock
           b == Block(kind, n)
           new == Append(run.message, b)
<1>1. run \in RunRecords
  BY DEF RunTyped
<1>2. run.at = "message" /\ run.blocks < MaxBlocks
  BY DEF HasNext
<1>3. run.message \in Seq(Blocks) /\ run.blocks \in Nat /\ MaxBlocks \in Nat
  BY <1>1, RunTranscriptAssumption DEF RunRecords
<1>4. n \in Nat /\ n = run.blocks + 1 /\ n \in 0 .. MaxBlocks /\ n \in 1 .. MaxBlocks
  BY <1>2, <1>3 DEF NextBlock
<1>5. b \in Blocks /\ b.n = n /\ b.kind = kind
  BY <1>4 DEF Block, Blocks
<1>6. run' = [run EXCEPT !.blocks = n, !.open = open, !.message = new]
  BY DEF Adding
<1>7. \A k \in 1 .. Len(run.message) : run.message[k].n \in 1 .. run.blocks
  BY <1>3 DEF RunSound
<1>8. \A k \in 1 .. Len(run.message) : run.message[k].n < n
  BY <1>3, <1>4, <1>7
<1> HIDE DEF b, n
<1>9. /\ new \in Seq(Blocks) /\ Rising(new) /\ Last(new) = b /\ new # <<>>
      /\ DOMAIN new = 1 .. Len(run.message) + 1 /\ new[Len(run.message) + 1] = b
      /\ \A k \in 1 .. Len(run.message) : new[k] = run.message[k]
  <2>1. Rising(run.message)
    BY DEF RunSound
  <2> QED BY <1>3, <1>5, <1>8, <2>1, BlocksAppend
<1> HIDE DEF new
<1>10. /\ run'.at = "message" /\ run'.streams = run.streams /\ run'.announces = run.announces
       /\ run'.message = new /\ run'.open = open /\ run'.blocks = n
       /\ run'.running = run.running /\ run'.calls = run.calls
  BY <1>1, <1>2, <1>6 DEF RunRecords
<1>11. run.calls = {} /\ run.running = {}
  BY <1>2 DEF RunSound
<1>12. run' \in RunRecords
  BY <1>1, <1>4, <1>6, <1>9 DEF RunRecords
<1>13. 1 .. run.blocks \subseteq 1 .. n /\ n \in 1 .. n
  BY <1>3, <1>4
<1>14. said' \in Seq(Range(Word)) /\ spoken' \subseteq Seq(Nat) /\ echoed' \in BOOLEAN
  <2>1. said \in Seq(Range(Word)) /\ spoken \subseteq Seq(Nat) /\ echoed \in BOOLEAN
    BY DEF RunTyped
  <2>2. Word[n] \in Range(Word)
    BY <1>4, WordIs DEF n
  <2> DEFINE S == Range(Word)
  <2> HIDE DEF S
  <2>3. Append(said, Word[n]) \in Seq(S)
    BY <2>1, <2>2 DEF S
  <2> QED BY <2>1, <2>3 DEF n, S
<1>15. thought' \subseteq 1 .. n
  <2>1. thought \subseteq 1 .. n
    BY <1>13 DEF RunTyped
  <2> QED BY <1>13, <2>1 DEF n
<1>16. Indexed(outcome', {"available", "error"}) /\ DOMAIN outcome' \subseteq 1 .. n /\ upset' \in BOOLEAN
  <2>1. Indexed(outcome, {"available", "error"}) /\ DOMAIN outcome \subseteq 1 .. run.blocks
          /\ upset \in BOOLEAN
    BY DEF RunTyped
  <2> QED BY <1>13, <2>1
<1>17. RunTyped'
  BY <1>10, <1>12, <1>14, <1>15, <1>16 DEF RunTyped
<1>18. \A k \in DOMAIN new : new[k].n \in 1 .. n
  <2>1. \A k \in DOMAIN new : k \in 1 .. Len(run.message) \/ k = Len(run.message) + 1
    BY <1>3, <1>9
  <2> QED BY <1>5, <1>7, <1>9, <1>13, <2>1
<1>19. \A k \in DOMAIN new : new[k].n \notin DOMAIN outcome
  <2>1. \A k \in DOMAIN new : k \in 1 .. Len(run.message) \/ k = Len(run.message) + 1
    BY <1>3, <1>9
  <2>2. \A k \in 1 .. Len(run.message) : run.message[k].n \notin DOMAIN outcome
    BY <1>2, <1>3 DEF RunSound
  <2>3. n \notin DOMAIN outcome
    BY <1>3, <1>4 DEF RunTyped
  <2> QED BY <1>5, <1>9, <2>1, <2>2, <2>3
<1>20. ~run.streams => thought' = {}
  BY DEF RunSound
<1>21. open # "none" => run'.streams /\ new # <<>> /\ Last(new).kind = "thinking"
  BY <1>5, <1>9, <1>10
<1>22. RunSound'
  <2>1. Rising(run'.message) /\ \A k \in DOMAIN run'.message : run'.message[k].n \in 1 .. run'.blocks
    BY <1>9, <1>10, <1>18
  <2>2. run'.open # "none" => run'.streams /\ run'.message # <<>> /\ Last(run'.message).kind = "thinking"
    BY <1>10, <1>21
  <2>3. run'.calls \subseteq CallsIn(run'.message) /\ run'.running \subseteq run'.calls
        /\ run'.calls = {} /\ run'.calls \intersect DOMAIN outcome' = {}
    BY <1>10, <1>11
  <2>4. \A k \in DOMAIN run'.message : run'.message[k].n \notin DOMAIN outcome'
    BY <1>10, <1>19
  <2> QED BY <1>10, <1>20, <2>1, <2>2, <2>3, <2>4 DEF RunSound
<1> QED BY <1>4, <1>5, <1>8, <1>10, <1>11, <1>17, <1>22 DEF new, b, n

LEMMA SaidIs ==
  ASSUME RunTyped
  PROVE  said \in Seq(Nat) /\ spoken \subseteq Seq(Nat) /\ echoed \in BOOLEAN
<1>1. said \in Seq(Range(Word)) /\ spoken \subseteq Seq(Nat) /\ echoed \in BOOLEAN
  BY DEF RunTyped
<1>2. Seq(Range(Word)) \subseteq Seq(Nat)
  BY WordIs, SeqsGrow
<1> QED BY <1>1, <1>2

LEMMA TextsNone == Texts(<<>>) = <<>>
<1>1. <<>> \in Seq(Blocks) /\ Len(<<>>) = 0
  OBVIOUS
<1>2. At(<<>>, "text") = {}
  BY DEF At
<1>3. Cardinality({}) = 0
  BY FS_EmptySet
<1>4. Texts(<<>>) \in Seq(Nat) /\ Len(Texts(<<>>)) = 0
  BY <1>1, <1>2, <1>3, TextsIs
<1> QED BY <1>4

(* A mapper that only forgets its episodes, and one that forgets nothing.  *)
LEMMA MessageStartsKeeps ==
  ASSUME Sound, MessageStarts
  PROVE  /\ Sound' /\ run'.at # "over"
         /\ Calm /\ ~upset => Calm'
<1>1. run \in RunRecords
  BY DEF Sound, RunTyped
<1>2. run.at = "idle" /\ run.calls = {} /\ run.running = {}
  BY DEF Sound, RunSound, MessageStarts
<1>3. run' = [run EXCEPT !.at = "message", !.message = <<>>, !.open = "none"]
  BY DEF MessageStarts
<1>4. /\ run'.at = "message" /\ run'.message = <<>> /\ run'.open = "none"
      /\ run'.streams = run.streams /\ run'.announces = run.announces /\ run'.blocks = run.blocks
      /\ run'.calls = {} /\ run'.running = {}
  BY <1>1, <1>2, <1>3 DEF RunRecords
<1>5. run' \in RunRecords
  <2>1. <<>> \in Seq(Blocks)
    OBVIOUS
  <2> QED BY <1>1, <1>3, <2>1 DEF RunRecords
<1>6. said' = said /\ spoken' = spoken /\ echoed' = echoed /\ thought' = thought /\ outcome' = outcome /\ upset' = upset
  BY DEF MessageStarts
<1>7. RunTyped'
  BY <1>4, <1>5, <1>6 DEF Sound, RunTyped
<1>8. RunSound'
  <2>1. Rising(<<>>) /\ DOMAIN <<>> = {}
    BY DEF Rising
  <2> QED BY <1>4, <1>6, <2>1 DEF Sound, RunSound
<1>9. bubble' = bubble
  BY ShownNone DEF MessageStarts, Says
<1> DEFINE new == [mapper EXCEPT !.reasoning = Nothing, !.active = Nothing, !.indexOf = Nothing]
<1>10. mapper' = IF run.announces THEN new ELSE mapper
  BY DEF MessageStarts, Says
<1>11. MapperSound(mapper) /\ MapperRecord(mapper)
  BY DEF Sound, MapperSound, MapperTyped
<1>12. MapperSound(new)
  <2>1. /\ Indexed(Nothing, Seq(Nat)) /\ DOMAIN Nothing \subseteq mapper.claimed
        /\ Indexed(Nothing, Nat) /\ \A r \in DOMAIN Nothing : Nothing[r] \in mapper.claimed
    BY NothingIs
  <2> QED BY <1>11, <2>1, EpisodesSet
<1>13. /\ new.text = mapper.text /\ new.claimed = mapper.claimed /\ new.tools = mapper.tools
       /\ new.failed = mapper.failed /\ new.message = mapper.message
       /\ new.reasoning = Nothing /\ new.active = Nothing
  BY <1>11 DEF MapperRecord, MapperFields
<1> HIDE DEF new
<1>14. /\ MapperSound(mapper')
       /\ mapper'.text = mapper.text /\ mapper'.claimed = mapper.claimed
       /\ mapper'.tools = mapper.tools /\ mapper'.failed = mapper.failed
       /\ mapper'.reasoning = mapper.reasoning \/ mapper'.reasoning = Nothing
       /\ \/ ~run.announces /\ mapper'.active = mapper.active /\ mapper'.reasoning = mapper.reasoning
          \/ mapper'.active = Nothing
  BY <1>10, <1>11, <1>12, <1>13
<1>15. Sound'
  BY <1>4, <1>7, <1>8, <1>9, <1>14 DEF Sound, BubbleSound
<1>16. ASSUME Calm, ~upset PROVE Calm'
  <2>1. DOMAIN Nothing = {}
    BY NothingIs
  <2>2. TextKept'
    <3>1. TextKept /\ mapper.text \in Seq(Nat)
      BY <1>11, <1>16 DEF Calm, MapperSound, MapperTyped
    <3>2. said \in Seq(Nat)
      BY SaidIs DEF Sound
    <3>3. ASSUME NEW text \in Seq(Nat) PROVE IsSuffix(<<>>, text) /\ text \o <<>> = text
      <4> DEFINE none == <<>>
      <4>1. none \in Seq(Nat) /\ Len(none) = 0 /\ Len(text) \in Nat
        OBVIOUS
      <4> HIDE DEF none
      <4>2. Len(none) <= Len(text) /\ 1 .. Len(none) = {}
        BY <4>1
      <4>3. IsSuffix(none, text)
        BY <4>1, <4>2, SuffixIs
      <4> QED BY <4>3 DEF none
    <3>4. IsSuffix(<<>>, said) /\ IsSuffix(<<>>, mapper.text) /\ mapper.text \o <<>> = mapper.text
      BY <3>1, <3>2, <3>3
    <3> QED BY <1>2, <1>4, <1>6, <1>14, <3>1, <3>4, TextsNone DEF TextKept, Tells
  <2>3. CallsKept'
    BY <1>6, <1>14, <1>16 DEF Calm, CallsKept
  <2>4. ThoughtsShown'
    <3>1. \A i \in DOMAIN mapper'.reasoning : <<i, mapper'.reasoning[i]>> \in Told(bubble)
      BY <1>14, <1>16, <2>1 DEF Calm, ThoughtsShown
    <3> QED BY <1>6, <1>9, <1>14, <1>16, <3>1 DEF Calm, ThoughtsShown
  <2>5. EpisodesActive'
    <3>1. CASE mapper'.active = Nothing
      BY <2>1, <3>1 DEF EpisodesActive
    <3>2. CASE ~run.announces /\ mapper'.active = mapper.active /\ mapper'.reasoning = mapper.reasoning
      BY <1>4, <1>9, <1>16, <3>2 DEF Calm, EpisodesActive
    <3> QED BY <1>14, <3>1, <3>2
  <2>6. MessageThoughts'
    <3>1. At(<<>>, "thinking") = {}
      BY DEF At
    <3> QED BY <1>4, <3>1 DEF MessageThoughts
  <2> QED BY <1>6, <1>9, <1>14, <1>16, <2>2, <2>3, <2>4, <2>5, <2>6 DEF Calm
<1> QED BY <1>4, <1>15, <1>16

------------------------------------------------------------------------------
(* Episodes                                                                *)

(* What the bubble tells is what was streamed, and each active episode is  *)
(* still open in it.                                                       *)
Episodes(claimed, reasoning, active, parts, seen) ==
  /\ parts \in Seq(Parts) /\ Keyed(parts, Kinds)
  /\ Indexed(reasoning, Seq(Nat)) /\ Indexed(active, Nat) /\ seen \subseteq Nat
  /\ \A e \in Told(parts) : /\ e[1] \in claimed
                            /\ e[2] = <<>> \/ \E n \in seen : e[2] = <<n>>
  /\ \A d, e \in Told(parts) : d[2] = e[2] /\ d[2] # <<>> => d[1] = e[1]
  /\ \A n \in seen : \E e \in Told(parts) : e[2] = <<n>>
  /\ \A i \in DOMAIN reasoning : <<i, reasoning[i]>> \in Told(parts)
  /\ \A r, q \in DOMAIN active : active[r] = active[q] => r = q
  /\ \A r \in DOMAIN active : active[r] \in DOMAIN reasoning /\ active[r] \in Live(parts)

SameOthers(parts, new) ==
  \A p : p.kind # "reasoning" => (p \in Range(new) <=> p \in Range(parts))

LEMMA WithAgain ==
  ASSUME NEW f, NEW x, NEW y
  PROVE  With(Without(f, x), x, y) = With(f, x, y)
<1> DEFINE g == Without(f, x)
<1>1. DOMAIN g = DOMAIN f \ {x} /\ \A z \in DOMAIN g : g[z] = f[z]
  BY DEF Without
<1> HIDE DEF g
<1>2. DOMAIN g \union {x} = DOMAIN f \union {x}
  BY <1>1
<1>3. \A z \in DOMAIN f \union {x} : (IF z = x THEN y ELSE g[z]) = (IF z = x THEN y ELSE f[z])
  BY <1>1
<1>4. With(g, x, y) = With(f, x, y)
  BY <1>2, <1>3 DEF With
<1> QED BY <1>4 DEF g

(* An episode that is ended as it is.                                      *)
LEMMA EpisodeEnds ==
  ASSUME NEW claimed, NEW reasoning, NEW active, NEW parts, NEW seen,
         Episodes(claimed, reasoning, active, parts, seen), NEW r \in DOMAIN active
  PROVE  LET new == Reasoned(parts, Reasoning("end", active[r], reasoning[active[r]]))
         IN  Episodes(claimed, reasoning, Without(active, r), new, seen) /\ SameOthers(parts, new)
<1> DEFINE i == active[r]
           t == reasoning[i]
           new == Reasoned(parts, Reasoning("end", i, t))
           less == Without(active, r)
<1>1. i \in DOMAIN reasoning /\ i \in Live(parts) /\ <<i, t>> \in Told(parts)
  BY DEF Episodes
<1>2. i \in Nat /\ t \in Seq(Nat)
  BY <1>1 DEF Episodes, Indexed
<1>3. parts \in Seq(Parts) /\ Keyed(parts, Kinds) /\ Indexed(active, Nat) /\ "end" \in Phases
  BY DEF Episodes, Phases
<1>4. TextAfter("end", t, t) = t
  BY DEF TextAfter
<1> HIDE DEF i, t
<1>5. /\ new \in Seq(Parts) /\ Keyed(new, Kinds)
      /\ Told(new) = (Told(parts) \ {<<i, t>>}) \union {<<i, TextAfter("end", t, t)>>}
      /\ Live(new) = Live(parts) \ {i}
      /\ SameOthers(parts, new)
  BY <1>1, <1>2, <1>3, ToldLive DEF SameOthers
<1>6. Told(new) = Told(parts)
  BY <1>1, <1>4, <1>5
<1> HIDE DEF new
<1>7. /\ Indexed(less, Nat) /\ DOMAIN less = DOMAIN active \ {r}
      /\ \A z \in DOMAIN less : less[z] = active[z]
  BY <1>3, WithoutHas DEF WithoutAt
<1> HIDE DEF less
<1>8. \A z \in DOMAIN less : less[z] \in DOMAIN reasoning /\ less[z] \in Live(new)
  <2>1. \A z \in DOMAIN less : active[z] # i
    BY <1>7 DEF Episodes, i
  <2> QED BY <1>5, <1>7, <2>1 DEF Episodes
<1>9. \A z, q \in DOMAIN less : less[z] = less[q] => z = q
  BY <1>7 DEF Episodes
<1>10. Episodes(claimed, reasoning, less, new, seen)
  BY <1>5, <1>6, <1>7, <1>8, <1>9 DEF Episodes
<1> QED BY <1>5, <1>10 DEF new, less, i, t

(* One that begins, at an index no part has.                               *)
LEMMA EpisodeBegins ==
  ASSUME NEW claimed, NEW reasoning, NEW active, NEW parts, NEW seen,
         Episodes(claimed, reasoning, active, parts, seen), NEW r \in Nat, r \notin DOMAIN active,
         NEW i \in Nat, i \notin claimed
  PROVE  LET new == Reasoned(parts, Reasoning("start", i, <<>>))
         IN  /\ Episodes(claimed \union {i}, With(reasoning, i, <<>>), With(active, r, i), new, seen)
             /\ SameOthers(parts, new)
<1> DEFINE new  == Reasoned(parts, Reasoning("start", i, <<>>))
           text == With(reasoning, i, <<>>)
           more == With(active, r, i)
<1>1. /\ parts \in Seq(Parts) /\ Keyed(parts, Kinds) /\ Indexed(active, Nat)
      /\ Indexed(reasoning, Seq(Nat)) /\ <<>> \in Seq(Nat)
  BY DEF Episodes
<1>2. \A e \in Told(parts) : e[1] # i
  BY DEF Episodes
<1>3. /\ new \in Seq(Parts) /\ Keyed(new, Kinds)
      /\ Told(new) = Told(parts) \union {<<i, <<>>>>}
      /\ Live(new) = Live(parts) \union {i}
      /\ SameOthers(parts, new)
  BY <1>1, <1>2, ToldAnew DEF SameOthers
<1>4. /\ Indexed(text, Seq(Nat)) /\ DOMAIN text = DOMAIN reasoning \union {i} /\ text[i] = <<>>
      /\ \A z \in DOMAIN reasoning : z # i => text[z] = reasoning[z]
  <2> DEFINE none == <<>>
  <2>1. none \in Seq(Nat)
    OBVIOUS
  <2> HIDE DEF none
  <2>2. WithAt(Seq(Nat), reasoning, i, none)
    BY <1>1, <2>1, WithHas
  <2> QED BY <2>2 DEF none, WithAt
<1>5. /\ Indexed(more, Nat) /\ DOMAIN more = DOMAIN active \union {r} /\ more[r] = i
      /\ \A z \in DOMAIN active : z # r => more[z] = active[z]
  <2>1. WithAt(Nat, active, r, i)
    BY <1>1, WithHas
  <2> QED BY <2>1 DEF WithAt
<1> HIDE DEF new, text, more
<1>6. \A e \in Told(new) : e \in Told(parts) \/ (e[1] = i /\ e[2] = <<>>)
  BY <1>3
<1>7. \A z \in DOMAIN active : active[z] \in claimed /\ active[z] # i
  <2>1. \A z \in DOMAIN active : active[z] \in DOMAIN reasoning
    BY DEF Episodes
  <2>2. \A j \in DOMAIN reasoning : <<j, reasoning[j]>> \in Told(parts)
    BY DEF Episodes
  <2>3. \A j \in DOMAIN reasoning : j \in claimed
    <3>1. \A j, t : <<j, t>>[1] = j
      OBVIOUS
    <3> QED BY <2>2, <3>1 DEF Episodes
  <2> QED BY <2>1, <2>3
<1>8. \A z \in DOMAIN more : more[z] \in DOMAIN text /\ more[z] \in Live(new)
  BY <1>3, <1>4, <1>5 DEF Episodes
<1>9. \A z, q \in DOMAIN more : more[z] = more[q] => z = q
  <2>1. \A z \in DOMAIN more : z = r \/ (z \in DOMAIN active /\ more[z] = active[z] /\ more[z] # i)
    BY <1>5, <1>7
  <2> QED BY <1>5, <2>1 DEF Episodes
<1>10. \A j \in DOMAIN text : <<j, text[j]>> \in Told(new)
  <2>1. <<i, text[i]>> \in Told(new)
    BY <1>3, <1>4
  <2>2. \A j \in DOMAIN reasoning : j # i => <<j, text[j]>> \in Told(new)
    BY <1>3, <1>4 DEF Episodes
  <2> QED BY <1>4, <2>1, <2>2
<1>11. \A e \in Told(new) : e[1] \in claimed \union {i} /\ (e[2] = <<>> \/ \E n \in seen : e[2] = <<n>>)
  BY <1>6 DEF Episodes
<1>12. \A d, e \in Told(new) : d[2] = e[2] /\ d[2] # <<>> => d[1] = e[1]
  BY <1>6 DEF Episodes
<1>13. \A n \in seen : \E e \in Told(new) : e[2] = <<n>>
  BY <1>3 DEF Episodes
<1>14. Episodes(claimed \union {i}, text, more, new, seen)
  BY <1>3, <1>4, <1>5, <1>8, <1>9, <1>10, <1>11, <1>12, <1>13 DEF Episodes
<1> QED BY <1>3, <1>14 DEF new, text, more

(* One that is told its thought, by a delta or again with its end.         *)
LEMMA EpisodeTells ==
  ASSUME NEW claimed, NEW reasoning, NEW active, NEW parts, NEW seen,
         Episodes(claimed, reasoning, active, parts, seen), NEW r \in DOMAIN active,
         NEW n \in Nat, NEW phase \in {"delta", "end"},
         \/ reasoning[active[r]] = <<>> /\ n \notin seen
         \/ reasoning[active[r]] = <<n>> /\ phase = "end"
  PROVE  LET new == Reasoned(parts, Reasoning(phase, active[r], <<n>>))
         IN  /\ Episodes(claimed, With(reasoning, active[r], <<n>>),
                         IF phase = "end" THEN Without(active, r) ELSE active, new, seen \union {n})
             /\ SameOthers(parts, new)
<1> DEFINE i == active[r]
           t == reasoning[i]
           u == <<n>>
           new  == Reasoned(parts, Reasoning(phase, i, u))
           text == With(reasoning, i, u)
           left == IF phase = "end" THEN Without(active, r) ELSE active
<1>1. i \in DOMAIN reasoning /\ i \in Live(parts) /\ <<i, t>> \in Told(parts)
  BY DEF Episodes
<1>2. i \in Nat /\ t \in Seq(Nat) /\ u \in Seq(Nat) /\ u # <<>>
  BY <1>1 DEF Episodes, Indexed
<1>3. /\ parts \in Seq(Parts) /\ Keyed(parts, Kinds) /\ Indexed(active, Nat)
      /\ Indexed(reasoning, Seq(Nat)) /\ phase \in Phases
  BY DEF Episodes, Phases
<1>4. TextAfter(phase, t, u) = u
  <2>1. CASE phase = "delta"
    <3>1. t = <<>>
      BY <2>1
    <3>2. <<>> \o u = u
      BY <1>2
    <3> QED BY <2>1, <3>1, <3>2 DEF TextAfter
  <2>2. CASE phase = "end"
    BY <1>2, <2>2 DEF TextAfter
  <2> QED BY <2>1, <2>2
<1>5. (t = <<>> /\ n \notin seen) \/ t = u
  OBVIOUS
<1>6. \A x : <<x>> = u <=> x = n
  OBVIOUS
<1> HIDE DEF t, u
<1>7. i = active[r]
  OBVIOUS
<1> HIDE DEF i
<1>8. /\ new \in Seq(Parts) /\ Keyed(new, Kinds)
      /\ Told(new) = (Told(parts) \ {<<i, t>>}) \union {<<i, TextAfter(phase, t, u)>>}
      /\ Live(new) = IF phase = "end" THEN Live(parts) \ {i} ELSE Live(parts)
      /\ SameOthers(parts, new)
  BY <1>1, <1>2, <1>3, ToldLive DEF SameOthers
<1>9. Told(new) = (Told(parts) \ {<<i, t>>}) \union {<<i, u>>}
  BY <1>4, <1>8
<1> HIDE DEF new
<1>10. /\ Indexed(text, Seq(Nat)) /\ DOMAIN text = DOMAIN reasoning /\ text[i] = u
       /\ \A z \in DOMAIN reasoning : z # i => text[z] = reasoning[z]
  <2>1. DOMAIN reasoning \union {i} = DOMAIN reasoning
    BY <1>1
  <2>2. WithAt(Seq(Nat), reasoning, i, u)
    BY <1>2, <1>3, WithHas
  <2> QED BY <2>1, <2>2 DEF WithAt
<1> HIDE DEF text
<1>11. /\ Indexed(left, Nat) /\ DOMAIN left \subseteq DOMAIN active
       /\ \A z \in DOMAIN left : left[z] = active[z]
       /\ phase = "end" => r \notin DOMAIN left
  <2>1. /\ Indexed(Without(active, r), Nat) /\ DOMAIN Without(active, r) = DOMAIN active \ {r}
        /\ \A z \in DOMAIN active : z # r => Without(active, r)[z] = active[z]
    <3>1. Indexed(active, Nat)
      BY <1>3
    <3> QED BY <3>1, WithoutHas DEF WithoutAt
  <2> QED BY <1>3, <2>1
<1> HIDE DEF left
<1>12. \A z \in DOMAIN left : left[z] \in DOMAIN text /\ left[z] \in Live(new)
  <2>1. SUFFICES ASSUME NEW z \in DOMAIN left PROVE left[z] \in DOMAIN text /\ left[z] \in Live(new)
    OBVIOUS
  <2>2. z \in DOMAIN active /\ left[z] = active[z] /\ active[z] \in DOMAIN reasoning
          /\ active[z] \in Live(parts)
    BY <1>11 DEF Episodes
  <2>3. phase = "end" => active[z] # i
    <3>1. active[z] = active[r] => z = r
      BY <2>2 DEF Episodes
    <3> QED BY <1>7, <1>11, <3>1
  <2> QED BY <1>8, <1>10, <2>2, <2>3
<1>13. \A z, q \in DOMAIN left : left[z] = left[q] => z = q
  <2>1. \A z, q \in DOMAIN active : active[z] = active[q] => z = q
    BY DEF Episodes
  <2> QED BY <1>11, <2>1
<1>14. \A e \in Told(parts) : e[1] = i => e = <<i, t>>
  <2>1. \A e \in Told(parts) : e = <<e[1], e[2]>>
    BY <1>3, ToldIs
  <2>2. \A j, x, y : <<j, x>> \in Told(parts) /\ <<j, y>> \in Told(parts) => x = y
    <3>1. "reasoning" \in Kinds
      BY DEF Kinds
    <3> QED BY <1>3, <3>1, ToldOnce
  <2>3. SUFFICES ASSUME NEW e \in Told(parts), e[1] = i PROVE e = <<i, t>>
    OBVIOUS
  <2>4. <<i, e[2]>> \in Told(parts) /\ e = <<i, e[2]>>
    BY <2>1, <2>3
  <2> QED BY <1>1, <2>2, <2>4
<1>15. \A e \in Told(new) : (e \in Told(parts) /\ e # <<i, t>> /\ e[1] # i) \/ e = <<i, u>>
  BY <1>9, <1>14
<1>16. \A j \in DOMAIN text : <<j, text[j]>> \in Told(new)
  <2>1. <<i, text[i]>> \in Told(new)
    BY <1>9, <1>10
  <2>2. \A j \in DOMAIN reasoning : j # i => <<j, reasoning[j]>> \in Told(parts)
          /\ <<j, reasoning[j]>> # <<i, t>>
    BY DEF Episodes
  <2>3. \A j \in DOMAIN reasoning : j # i => <<j, text[j]>> \in Told(new)
    BY <1>9, <1>10, <2>2
  <2> QED BY <1>10, <2>1, <2>3
<1>17. <<i, u>>[1] = i /\ <<i, u>>[2] = u /\ <<i, t>>[1] = i /\ <<i, t>>[2] = t
  OBVIOUS
<1>18. i \in claimed
  BY <1>1, <1>17 DEF Episodes
<1>19. \A e \in Told(new) : e[1] \in claimed /\ (e[2] = <<>> \/ \E x \in seen \union {n} : e[2] = <<x>>)
  <2>1. SUFFICES ASSUME NEW e \in Told(new)
                 PROVE  e[1] \in claimed /\ (e[2] = <<>> \/ \E x \in seen \union {n} : e[2] = <<x>>)
    OBVIOUS
  <2>2. CASE e \in Told(parts)
    BY <2>2 DEF Episodes
  <2>3. CASE e = <<i, u>>
    BY <1>6, <1>17, <1>18, <2>3
  <2> QED BY <1>15, <2>2, <2>3
<1>20. \A e \in Told(parts) : e[1] # i => e[2] # u
  <2>1. SUFFICES ASSUME NEW e \in Told(parts), e[1] # i, e[2] = u PROVE FALSE
    OBVIOUS
  <2>2. CASE t = u
    <3>1. <<i, t>>[2] = e[2] /\ e[2] # <<>> /\ <<i, t>>[1] # e[1]
      BY <1>2, <1>17, <2>1, <2>2
    <3> QED BY <1>1, <3>1 DEF Episodes
  <2>3. CASE n \notin seen
    <3>1. \E x \in seen : e[2] = <<x>>
      BY <1>2, <2>1 DEF Episodes
    <3> QED BY <1>6, <2>1, <2>3, <3>1
  <2> QED BY <1>5, <2>2, <2>3
<1>21. \A d, e \in Told(new) : d[2] = e[2] /\ d[2] # <<>> => d[1] = e[1]
  <2>1. \A d, e \in Told(parts) : d[2] = e[2] /\ d[2] # <<>> => d[1] = e[1]
    BY DEF Episodes
  <2> QED BY <1>15, <1>17, <1>20, <2>1
<1>22. \A x \in seen \union {n} : \E e \in Told(new) : e[2] = <<x>>
  <2>1. SUFFICES ASSUME NEW x \in seen \union {n} PROVE \E e \in Told(new) : e[2] = <<x>>
    OBVIOUS
  <2>2. CASE x = n
    BY <1>6, <1>9, <1>17, <2>2
  <2>3. CASE x # n
    <3>1. PICK e \in Told(parts) : e[2] = <<x>>
      BY <2>1, <2>3 DEF Episodes
    <3>2. e # <<i, t>>
      <4>1. t # <<x>>
        BY <1>5, <1>6, <2>3
      <4> QED BY <1>17, <3>1, <4>1
    <3> QED BY <1>9, <3>1, <3>2
  <2> QED BY <2>2, <2>3
<1>23. seen \union {n} \subseteq Nat
  BY DEF Episodes
<1>24. Episodes(claimed, text, left, new, seen \union {n})
  BY <1>8, <1>10, <1>11, <1>12, <1>13, <1>16, <1>19, <1>21, <1>22, <1>23 DEF Episodes
<1> QED BY <1>8, <1>24 DEF new, text, left, i, t, u

LEMMA ReasoningSet ==
  ASSUME NEW m, MapperSound(m), NEW f, Indexed(f, Seq(Nat)), DOMAIN f \subseteq m.claimed
  PROVE  LET x == [m EXCEPT !.reasoning = f]
         IN  /\ MapperSound(x) /\ x.reasoning = f /\ x.active = m.active
             /\ x.indexOf = m.indexOf /\ x.claimed = m.claimed /\ x.text = m.text
             /\ x.message = m.message /\ x.tools = m.tools /\ x.starts = m.starts
             /\ x.failed = m.failed
<1> DEFINE x == [m EXCEPT !.reasoning = f]
<1>1. MapperTyped(m) /\ MapperRecord(m)
  BY DEF MapperSound, MapperTyped
<1>2. /\ MapperRecord(x) /\ x.reasoning = f /\ x.active = m.active
      /\ x.indexOf = m.indexOf /\ x.claimed = m.claimed /\ x.text = m.text
      /\ x.message = m.message /\ x.tools = m.tools /\ x.starts = m.starts
      /\ x.failed = m.failed /\ x.next = m.next
  BY <1>1 DEF MapperRecord, MapperFields
<1> HIDE DEF x
<1>3. MapperTyped(x)
  BY <1>1, <1>2 DEF MapperTyped
<1>4. MapperSound(x)
  BY <1>2, <1>3 DEF MapperSound
<1> QED BY <1>2, <1>4 DEF x

EndedMapper(m, f, g) == [m EXCEPT !.reasoning = f, !.active = g]

LEMMA ReasoningEnded ==
  ASSUME NEW m, MapperSound(m), NEW f, Indexed(f, Seq(Nat)), DOMAIN f \subseteq m.claimed,
         NEW g, Indexed(g, Nat), \A r \in DOMAIN g : g[r] \in m.claimed,
         NEW x, x = EndedMapper(m, f, g)
  PROVE  /\ MapperSound(x) /\ x.reasoning = f /\ x.active = g
         /\ x.indexOf = m.indexOf /\ x.claimed = m.claimed /\ x.text = m.text
         /\ x.message = m.message /\ x.tools = m.tools /\ x.starts = m.starts
         /\ x.failed = m.failed
<1>1. MapperTyped(m) /\ MapperRecord(m)
  BY DEF MapperSound, MapperTyped
<1>2. /\ MapperRecord(x) /\ x.reasoning = f /\ x.active = g
      /\ x.indexOf = m.indexOf /\ x.claimed = m.claimed /\ x.text = m.text
      /\ x.message = m.message /\ x.tools = m.tools /\ x.starts = m.starts
      /\ x.failed = m.failed /\ x.next = m.next
  BY <1>1 DEF MapperRecord, MapperFields, EndedMapper
<1>3. MapperTyped(x)
  BY <1>1, <1>2 DEF MapperTyped
<1>4. MapperSound(x)
  BY <1>2, <1>3 DEF MapperSound
<1> QED BY <1>2, <1>4

LEMMA CalmEpisodes ==
  ASSUME Sound, Calm
  PROVE  Episodes(mapper.claimed, mapper.reasoning, mapper.active, bubble, thought)
<1>1. bubble \in Seq(Parts) /\ Keyed(bubble, Kinds) /\ thought \subseteq Nat
  <2>1. 1 .. run.blocks \subseteq Nat
    OBVIOUS
  <2> QED BY <2>1 DEF Sound, BubbleSound, Calm, RunTyped
<1>2. Indexed(mapper.reasoning, Seq(Nat)) /\ Indexed(mapper.active, Nat)
  BY DEF Sound, MapperSound, MapperTyped
<1>3. ThoughtsShown /\ EpisodesActive
  BY DEF Calm
<1> QED BY <1>1, <1>2, <1>3 DEF Episodes, ThoughtsShown, EpisodesActive

(* What is left of a calm state when a thinking event keeps the rest.      *)
LEMMA ThinkingCalm ==
  ASSUME Sound, Calm, run.streams, Sound',
         run'.streams = run.streams, run'.announces = run.announces,
         run'.at = "message", run.at = "message",
         Texts(run'.message) = Texts(run.message),
         mapper'.text = mapper.text, mapper'.tools = mapper.tools, mapper'.failed = mapper.failed,
         said' = said /\ spoken' = spoken /\ echoed' = echoed, outcome' = outcome,
         Episodes(mapper'.claimed, mapper'.reasoning, mapper'.active, bubble', thought'),
         SameOthers(bubble, bubble'), MessageThoughts',
         run'.announces => \A r \in DOMAIN mapper'.active : r < Len(run'.message)
  PROVE  Calm'
<1>1. TextKept'
  <2>1. TextKept
    BY DEF Calm
  <2> QED BY <2>1 DEF TextKept, Tells
<1>2. CallsKept'
  BY DEF Calm, CallsKept
<1>3. ThoughtsShown' /\ EpisodesActive'
  BY DEF Episodes, ThoughtsShown, EpisodesActive
<1>4. said' = <<>> => \A p \in Range(bubble') : p.kind = "text" => p.text = <<>>
  BY DEF SameOthers, Calm
<1>5. Keyed(bubble', Kinds) /\ ~mapper'.failed
  BY DEF Episodes, Calm
<1> QED BY <1>1, <1>2, <1>3, <1>4, <1>5 DEF Calm

(* What thinking_start and the first delta do to the mapper.               *)
LEMMA OpenedSet ==
  ASSUME NEW m, MapperSound(m), NEW r \in Nat
  PROVE  LET i == FreshIndex(m, r)
             o == Opened(m, r)
             x == [o EXCEPT !.reasoning = With(@, o.active[r], <<>>)]
         IN  /\ MapperSound(x) /\ i \in Nat /\ i \notin m.claimed /\ o.active[r] = i
             /\ x.reasoning = With(m.reasoning, i, <<>>) /\ x.active = With(m.active, r, i)
             /\ x.indexOf = With(m.indexOf, r, i) /\ x.claimed = m.claimed \union {i}
             /\ x.text = m.text /\ x.message = m.message /\ x.tools = m.tools
             /\ x.starts = m.starts /\ x.failed = m.failed
<1> DEFINE i == FreshIndex(m, r)
           o == Opened(m, r)
           f == With(o.reasoning, o.active[r], <<>>)
           x == [o EXCEPT !.reasoning = f]
<1>1. /\ MapperSound(o) /\ i \in Nat /\ i \notin m.claimed
      /\ o.claimed = m.claimed \union {i} /\ o.indexOf = With(m.indexOf, r, i)
      /\ o.active = With(m.active, r, i) /\ o.active[r] = i
      /\ o.text = m.text /\ o.reasoning = m.reasoning
      /\ o.message = m.message /\ o.tools = m.tools /\ o.starts = m.starts
      /\ o.failed = m.failed
  BY OpenedIs
<1> HIDE DEF o, i
<1>2. f = With(m.reasoning, i, <<>>)
  BY <1>1
<1> HIDE DEF f
<1>3. Indexed(f, Seq(Nat)) /\ DOMAIN f = DOMAIN m.reasoning \union {i}
  <2> DEFINE none == <<>>
  <2>1. none \in Seq(Nat) /\ Indexed(m.reasoning, Seq(Nat))
    BY DEF MapperSound, MapperTyped
  <2> HIDE DEF none
  <2>2. WithAt(Seq(Nat), m.reasoning, i, none)
    BY <1>1, <2>1, WithHas
  <2>3. f = With(m.reasoning, i, none)
    BY <1>2 DEF none
  <2> QED BY <2>2, <2>3 DEF WithAt
<1>4. DOMAIN f \subseteq o.claimed
  <2>1. DOMAIN m.reasoning \subseteq m.claimed
    BY DEF MapperSound
  <2> QED BY <1>1, <1>3, <2>1
<1>5. /\ MapperSound(x) /\ x.reasoning = f /\ x.active = o.active
      /\ x.indexOf = o.indexOf /\ x.claimed = o.claimed /\ x.text = o.text
      /\ x.message = o.message /\ x.tools = o.tools /\ x.starts = o.starts
      /\ x.failed = o.failed
  BY <1>1, <1>3, <1>4, ReasoningSet
<1>6. x = [o EXCEPT !.reasoning = With(@, o.active[r], <<>>)]
  BY DEF f
<1> HIDE DEF x
<1> QED BY <1>1, <1>2, <1>5, <1>6 DEF o, i

(* The thinking blocks of a message that grows by one.                     *)
LEMMA ThinkingGrows ==
  ASSUME NEW blocks \in Seq(Blocks), NEW n \in 1 .. MaxBlocks
  PROVE  LET new == Append(blocks, Block("thinking", n))
         IN  /\ new \in Seq(Blocks) /\ Len(new) = Len(blocks) + 1 /\ Len(blocks) \in Nat
             /\ Texts(new) = Texts(blocks) /\ Last(new).n = n
             /\ At(new, "thinking") = At(blocks, "thinking") \union {Len(blocks) + 1}
             /\ \A k \in At(blocks, "thinking") : k \in Nat /\ k - 1 < Len(blocks)
             /\ new[Len(blocks) + 1].n = n
<1> DEFINE b == Block("thinking", n)
           new == Append(blocks, b)
<1>1. b \in Blocks /\ b.kind = "thinking" /\ b.n = n
  BY DEF Block, Blocks
<1>2. Len(blocks) \in Nat /\ DOMAIN blocks = 1 .. Len(blocks)
  OBVIOUS
<1> HIDE DEF b
<1>3. /\ new \in Seq(Blocks) /\ Len(new) = Len(blocks) + 1 /\ Last(new) = b /\ new[Len(blocks) + 1] = b
      /\ At(new, "thinking") = At(blocks, "thinking") \union
             (IF b.kind = "thinking" THEN {Len(blocks) + 1} ELSE {})
  BY <1>1, BlocksAppend
<1>4. Texts(new) = Texts(blocks)
  BY <1>1, TextsAppend
<1>5. \A k \in At(blocks, "thinking") : k \in Nat /\ k - 1 < Len(blocks)
  BY <1>2 DEF At
<1> HIDE DEF new
<1> QED BY <1>1, <1>2, <1>3, <1>4, <1>5 DEF new, b

LEMMA NextInBounds ==
  ASSUME Sound, HasNext
  PROVE  NextBlock \in 1 .. MaxBlocks /\ NextBlock \in Nat
<1>1. run.blocks \in 0 .. MaxBlocks /\ run.blocks < MaxBlocks /\ MaxBlocks \in Nat
  BY RunTranscriptAssumption DEF Sound, RunTyped, RunRecords, HasNext
<1> QED BY <1>1 DEF NextBlock

LEMMA ThinkingStartsKeeps ==
  ASSUME Sound, ThinkingStarts
  PROVE  /\ Sound' /\ run'.at # "over"
         /\ Calm /\ ~upset => Calm'
<1> DEFINE r == Len(run.message)
           i == FreshIndex(mapper, r)
           o == Opened(mapper, r)
           x == [o EXCEPT !.reasoning = With(@, o.active[r], <<>>)]
           end == Reasoning("end", mapper.active[r], TextOf(mapper, mapper.active[r]))
           ended == IF r \in DOMAIN mapper.active THEN <<end>> ELSE <<>>
           start == Reasoning("start", i, <<>>)
<1>1. run.message \in Seq(Blocks) /\ r \in Nat /\ MapperSound(mapper)
  BY DEF Sound, RunTyped, RunRecords
<1>2. /\ HasNext /\ run.streams /\ Adding("thinking", "started")
      /\ said' = said /\ spoken' = spoken /\ echoed' = echoed /\ thought' = thought /\ outcome' = outcome /\ upset' = upset
  BY DEF ThinkingStarts
<1>3. /\ RunTyped' /\ RunSound' /\ NextBlock \in Nat
      /\ run'.at = "message" /\ run'.streams = run.streams /\ run'.announces = run.announces
      /\ run'.message = Append(run.message, Block("thinking", NextBlock)) /\ run'.open = "started"
      /\ run'.running = {} /\ run'.calls = {}
  <2>1. "thinking" \in {"text", "thinking", "tool"} /\ "started" \in {"none", "started", "told"}
    OBVIOUS
  <2>2. said' \in {said, Append(said, Word[NextBlock])}
    BY <1>2
  <2>3. RunTyped /\ RunSound
    BY DEF Sound
  <2> QED BY <1>2, <2>1, <2>2, <2>3, RunAdds
<1>4. /\ MapperSound(x) /\ i \in Nat /\ i \notin mapper.claimed /\ o.active[r] = i
      /\ x.reasoning = With(mapper.reasoning, i, <<>>) /\ x.active = With(mapper.active, r, i)
      /\ x.indexOf = With(mapper.indexOf, r, i) /\ x.claimed = mapper.claimed \union {i}
      /\ x.text = mapper.text /\ x.message = mapper.message /\ x.tools = mapper.tools
      /\ x.starts = mapper.starts /\ x.failed = mapper.failed
  BY <1>1, OpenedSet
<1>5. mapper' = x /\ bubble' = Shown(bubble, ended \o <<start>>)
  BY <1>4 DEF ThinkingStarts, Says
<1> HIDE DEF x, o, i
<1>6. start \in Frames
  <2>1. "start" \in Phases
    BY DEF Phases
  <2>2. <<>> \in Seq(Nat)
    OBVIOUS
  <2> QED BY <1>4, <2>1, <2>2, FramesMade
<1>7. r \in DOMAIN mapper.active => end \in Frames
  <2>1. SUFFICES ASSUME r \in DOMAIN mapper.active PROVE end \in Frames
    OBVIOUS
  <2>2. mapper.active[r] \in Nat /\ TextOf(mapper, mapper.active[r]) \in Seq(Nat)
    <3>1. mapper.active[r] \in Nat
      BY <1>1, <2>1 DEF MapperSound, MapperTyped, Indexed
    <3> QED BY <1>1, <3>1, TextOfIs
  <2>3. "end" \in Phases
    BY DEF Phases
  <2> QED BY <2>2, <2>3, FramesMade
<1> HIDE DEF end, start, r
<1>8. ended \o <<start>> \in Seq(Frames)
  BY <1>6, <1>7
<1>9. BubbleSound'
  BY <1>5, <1>8, ShownSound DEF Sound, BubbleSound
<1>10. Sound'
  BY <1>3, <1>4, <1>5, <1>9 DEF Sound
<1>11. ASSUME Calm PROVE Calm'
  <2>1. Episodes(mapper.claimed, mapper.reasoning, mapper.active, bubble, thought)
    BY <1>11, CalmEpisodes
  <2> DEFINE mid == Shown(bubble, ended)
             left == Without(mapper.active, r)
  <2>2. Episodes(mapper.claimed, mapper.reasoning, left, mid, thought) /\ SameOthers(bubble, mid)
    <3>1. CASE r \in DOMAIN mapper.active
      <4>1. mapper.active[r] \in DOMAIN mapper.reasoning
        BY <2>1, <3>1 DEF Episodes
      <4>2. TextOf(mapper, mapper.active[r]) = mapper.reasoning[mapper.active[r]]
        BY <4>1 DEF TextOf
      <4>3. ended = <<end>>
        BY <3>1
      <4>4. mid = Folded(bubble, end)
        BY <4>3, ShownOne
      <4>5. Folded(bubble, end) = Reasoned(bubble, end)
        BY DEF Folded, end, Reasoning
      <4>6. end = Reasoning("end", mapper.active[r], mapper.reasoning[mapper.active[r]])
        BY <4>2 DEF end
      <4>7. /\ Episodes(mapper.claimed, mapper.reasoning, left, Reasoned(bubble, end), thought)
            /\ SameOthers(bubble, Reasoned(bubble, end))
        BY <2>1, <3>1, <4>6, EpisodeEnds
      <4> QED BY <4>4, <4>5, <4>7
    <3>2. CASE r \notin DOMAIN mapper.active
      <4>1. mid = bubble
        BY <3>2, ShownNone
      <4>2. left = mapper.active
        <5>1. DOMAIN mapper.active \ {r} = DOMAIN mapper.active
          BY <3>2
        <5>2. mapper.active = [z \in DOMAIN mapper.active |-> mapper.active[z]]
          BY <1>1 DEF MapperSound, MapperTyped, Indexed
        <5> QED BY <5>1, <5>2 DEF Without
      <4>3. SameOthers(bubble, bubble)
        BY DEF SameOthers
      <4> QED BY <2>1, <4>1, <4>2, <4>3
    <3> QED BY <3>1, <3>2
  <2>3. bubble' = Reasoned(mid, start)
    <3>1. ended \in Seq(Frames)
      BY <1>7
    <3>2. Append(ended, start) = ended \o <<start>>
      BY <1>6, <3>1
    <3>3. bubble' = Folded(mid, start)
      <4> HIDE DEF ended
      <4>1. Shown(bubble, Append(ended, start)) = Folded(Shown(bubble, ended), start)
        BY <1>6, <3>1, ShownAppend
      <4> QED BY <1>5, <3>2, <4>1
    <3> QED BY <3>3 DEF Folded, start, Reasoning
  <2>4. r \notin DOMAIN left
    BY DEF Without
  <2> DEFINE active == With(left, r, i)
  <2>5. active = x.active
    BY <1>4, WithAgain
  <2> HIDE DEF mid, left, ended
  <2>6. /\ Episodes(mapper.claimed \union {i}, With(mapper.reasoning, i, <<>>), active, bubble', thought)
        /\ SameOthers(mid, bubble')
    BY <1>1, <1>4, <2>2, <2>3, <2>4, EpisodeBegins DEF start, r
  <2> HIDE DEF active
  <2>7. /\ Episodes(mapper'.claimed, mapper'.reasoning, mapper'.active, bubble', thought')
        /\ SameOthers(bubble, bubble')
    <3>1. SameOthers(bubble, bubble')
      BY <2>2, <2>6 DEF SameOthers
    <3> QED BY <1>2, <1>4, <1>5, <2>5, <2>6, <3>1
  <2>8. /\ run'.message \in Seq(Blocks) /\ Len(run'.message) = r + 1
        /\ Texts(run'.message) = Texts(run.message) /\ Last(run'.message).n = NextBlock
        /\ At(run'.message, "thinking") = At(run.message, "thinking") \union {r + 1}
        /\ \A k \in At(run.message, "thinking") : k \in Nat /\ k - 1 < r
    BY <1>1, <1>2, <1>3, NextInBounds, ThinkingGrows DEF r
  <2>9. /\ DOMAIN mapper'.active = DOMAIN mapper.active \union {r} /\ mapper'.active[r] = i
        /\ \A q \in DOMAIN mapper.active : q # r => mapper'.active[q] = mapper.active[q]
    <3>1. WithAt(Nat, mapper.active, r, i)
      <4>1. Indexed(mapper.active, Nat) /\ r \in Nat
        BY <1>1 DEF MapperSound, MapperTyped, r
      <4> QED BY <1>4, <4>1, WithHas
    <3> QED BY <1>4, <1>5, <3>1 DEF WithAt
  <2>10. /\ DOMAIN mapper'.reasoning = DOMAIN mapper.reasoning \union {i} /\ mapper'.reasoning[i] = <<>>
         /\ DOMAIN mapper'.indexOf = DOMAIN mapper.indexOf \union {r} /\ mapper'.indexOf[r] = i
         /\ \A q \in DOMAIN mapper.indexOf : q # r => mapper'.indexOf[q] = mapper.indexOf[q]
    <3>1. WithAt(Nat, mapper.indexOf, r, i)
      <4>1. Indexed(mapper.indexOf, Nat) /\ r \in Nat
        BY <1>1 DEF MapperSound, MapperTyped, r
      <4> QED BY <1>4, <4>1, WithHas
    <3>2. DOMAIN With(mapper.reasoning, i, <<>>) = DOMAIN mapper.reasoning \union {i}
      BY DEF With
    <3>3. With(mapper.reasoning, i, <<>>)[i] = <<>>
      BY DEF With
    <3> QED BY <1>4, <1>5, <3>1, <3>2, <3>3 DEF WithAt
  <2>11. MessageThoughts'
    <3>1. \A k \in At(run.message, "thinking") :
            k - 1 \in DOMAIN mapper.indexOf /\ mapper.indexOf[k - 1] \in DOMAIN mapper.reasoning
      BY <1>2, <1>11 DEF Calm, MessageThoughts
    <3>2. \A k \in At(run'.message, "thinking") :
            k - 1 \in DOMAIN mapper'.indexOf /\ mapper'.indexOf[k - 1] \in DOMAIN mapper'.reasoning
      <4>1. SUFFICES ASSUME NEW k \in At(run'.message, "thinking")
                     PROVE  /\ k - 1 \in DOMAIN mapper'.indexOf
                            /\ mapper'.indexOf[k - 1] \in DOMAIN mapper'.reasoning
        OBVIOUS
      <4>2. r \in Nat
        BY <1>1 DEF r
      <4>3. CASE k = r + 1
        <5>1. k - 1 = r
          BY <4>2, <4>3
        <5> QED BY <2>10, <5>1
      <4>4. CASE k \in At(run.message, "thinking")
        <5>1. k - 1 # r
          BY <2>8, <4>2, <4>4
        <5> QED BY <2>10, <3>1, <4>4, <5>1
      <4> QED BY <2>8, <4>1, <4>3, <4>4
    <3>3. Last0' = r
      <4>1. r \in Nat
        BY <1>1 DEF r
      <4>2. (r + 1) - 1 = r
        BY <4>1
      <4>3. Len(run'.message) = r + 1
        BY <2>8
      <4> QED BY <4>2, <4>3 DEF Last0
    <3>4. NextBlock \notin thought
      BY DEF Sound, RunTyped, RunRecords, NextBlock
    <3> QED BY <1>2, <1>3, <2>8, <2>9, <2>10, <3>2, <3>3, <3>4 DEF MessageThoughts
  <2>12. run'.announces => \A q \in DOMAIN mapper'.active : q < Len(run'.message)
    <3>1. run.at = "message"
      BY <1>2 DEF HasNext
    <3>2. run.announces => \A q \in DOMAIN mapper.active : q < r
      BY <1>11, <3>1 DEF Calm, EpisodesActive, r
    <3>3. \A q \in DOMAIN mapper.active : q \in Nat
      BY <1>1 DEF MapperSound, MapperTyped, Indexed
    <3>4. r \in Nat
      BY <1>1 DEF r
    <3> QED BY <1>3, <2>8, <2>9, <3>2, <3>3, <3>4
  <2> QED BY <1>2, <1>3, <1>4, <1>5, <1>10, <1>11, <2>7, <2>8, <2>11, <2>12, ThinkingCalm DEF HasNext
<1> QED BY <1>3, <1>10, <1>11

LEMMA ThoughtsIndexed ==
  ASSUME NEW blocks \in Seq(Blocks), NEW n \in 1 .. MaxBlocks, NEW f, Indexed(f, Nat), NEW i \in Nat,
         NEW D, NEW E, D \subseteq E, i \in E,
         \A k \in At(blocks, "thinking") : k - 1 \in DOMAIN f /\ f[k - 1] \in D
  PROVE  LET g == With(f, Len(blocks), i)
         IN  \A k \in At(Append(blocks, Block("thinking", n)), "thinking") :
               k - 1 \in DOMAIN g /\ g[k - 1] \in E
<1> DEFINE g == With(f, Len(blocks), i)
           new == Append(blocks, Block("thinking", n))
           r == Len(blocks)
<1>1. r \in Nat /\ (r + 1) - 1 = r
  OBVIOUS
<1>2. WithAt(Nat, f, r, i)
  BY <1>1, WithHas
<1>3. /\ DOMAIN g = DOMAIN f \union {r} /\ g[r] = i
      /\ \A z \in DOMAIN f : z # r => g[z] = f[z]
  BY <1>2 DEF WithAt
<1>4. /\ At(new, "thinking") = At(blocks, "thinking") \union {r + 1}
      /\ \A k \in At(blocks, "thinking") : k \in Nat /\ k - 1 < r
  BY ThinkingGrows
<1> HIDE DEF g, new, r
<1>5. \A k \in At(new, "thinking") : k - 1 \in DOMAIN g /\ g[k - 1] \in E
  <2>1. SUFFICES ASSUME NEW k \in At(new, "thinking") PROVE k - 1 \in DOMAIN g /\ g[k - 1] \in E
    OBVIOUS
  <2>2. CASE k = r + 1
    BY <1>1, <1>3, <2>2
  <2>3. CASE k \in At(blocks, "thinking")
    <3>1. k - 1 # r
      BY <1>1, <1>4, <2>3
    <3> QED BY <1>3, <2>3, <3>1
  <2> QED BY <1>4, <2>2, <2>3
<1> QED BY <1>5 DEF g, new, r

LEMMA WithTwice ==
  ASSUME NEW f, NEW x, NEW y, NEW z
  PROVE  With(With(f, x, y), x, z) = With(f, x, z)
<1> DEFINE g == With(f, x, y)
<1>1. DOMAIN g = DOMAIN f \union {x} /\ \A u \in DOMAIN g : u # x => g[u] = f[u]
  BY DEF With
<1> HIDE DEF g
<1>2. DOMAIN g \union {x} = DOMAIN f \union {x}
  BY <1>1
<1>3. \A u \in DOMAIN f \union {x} : (IF u = x THEN z ELSE g[u]) = (IF u = x THEN z ELSE f[u])
  BY <1>1
<1>4. With(g, x, z) = With(f, x, z)
  BY <1>2, <1>3 DEF With
<1> QED BY <1>4 DEF g

(* The runtime's part of a delta.                                          *)
LEMMA DeltaRun ==
  ASSUME Sound, ThinkingDelta
  PROVE  LET r == Len(run'.message) - 1
             n == run'.message[r + 1].n
         IN  /\ RunTyped' /\ RunSound' /\ r \in Nat /\ n \in Nat /\ Last(run'.message).n = n
             /\ run'.streams = run.streams /\ run'.announces = run.announces
             /\ run.at = "message" /\ run'.at = "message" /\ run'.running = {} /\ run'.open = "told"
             /\ Texts(run'.message) = Texts(run.message)
             /\ \/ /\ run.announces /\ n = NextBlock /\ r = Len(run.message)
                   /\ run'.message = Append(run.message, Block("thinking", n))
                \/ run.open = "started" /\ r = Last0 /\ run'.message = run.message
<1> DEFINE r == Len(run'.message) - 1
           n == run'.message[r + 1].n
<1>1. run.message \in Seq(Blocks) /\ run \in RunRecords /\ RunTyped /\ RunSound
  BY DEF Sound, RunTyped, RunRecords
<1>2. /\ run.streams /\ thought' = thought \union {n}
      /\ said' = said /\ spoken' = spoken /\ echoed' = echoed /\ outcome' = outcome /\ upset' = upset
  BY DEF ThinkingDelta
<1>3. CASE HasNext /\ run.announces /\ Adding("thinking", "told")
  <2>1. run'.message = Append(run.message, Block("thinking", NextBlock)) /\ NextBlock \in Nat
    <3>1. run' = [run EXCEPT !.blocks = NextBlock, !.open = "told",
                             !.message = Append(@, Block("thinking", NextBlock))]
      BY <1>3 DEF Adding
    <3>2. run'.message = Append(run.message, Block("thinking", NextBlock))
      BY <1>1, <3>1 DEF RunRecords
    <3>3. NextBlock \in Nat
      BY <1>1 DEF RunRecords, NextBlock
    <3> QED BY <3>2, <3>3
  <2>2. /\ run'.message \in Seq(Blocks) /\ Len(run'.message) = Len(run.message) + 1
        /\ Len(run.message) \in Nat
        /\ Texts(run'.message) = Texts(run.message) /\ Last(run'.message).n = NextBlock
        /\ run'.message[Len(run.message) + 1].n = NextBlock
    BY <1>1, <1>3, <2>1, NextInBounds, ThinkingGrows
  <2>3. r = Len(run.message) /\ n = NextBlock
    BY <2>2
  <2> HIDE DEF n, r
  <2>4. thought' = thought \union {NextBlock}
    BY <1>2, <2>3
  <2>5. /\ RunTyped' /\ RunSound' /\ run'.at = "message" /\ run'.streams = run.streams
        /\ run'.announces = run.announces /\ run'.open = "told" /\ run'.running = {}
    <3>1. "thinking" \in {"text", "thinking", "tool"} /\ "told" \in {"none", "started", "told"}
      OBVIOUS
    <3>2. said' \in {said, Append(said, Word[NextBlock])}
      BY <1>2
    <3> QED BY <1>1, <1>2, <1>3, <2>4, <3>1, <3>2, RunAdds
  <2>6. run.at = "message"
    BY <1>3 DEF HasNext
  <2> QED BY <1>3, <2>1, <2>2, <2>3, <2>5, <2>6 DEF n, r
<1>4. CASE run.open = "started" /\ run' = [run EXCEPT !.open = "told"]
  <2>1. /\ run'.message = run.message /\ run'.streams = run.streams /\ run'.open = "told"
        /\ run'.announces = run.announces /\ run'.at = run.at /\ run'.calls = run.calls
        /\ run'.running = run.running /\ run'.blocks = run.blocks
    BY <1>1, <1>4 DEF RunRecords
  <2>2. run' \in RunRecords
    BY <1>1, <1>4 DEF RunRecords
  <2>3. run.at = "message" /\ run.message # <<>> /\ run.calls = {} /\ run.running = {}
    BY <1>1, <1>4 DEF RunSound, RunRecords
  <2>4. Len(run.message) \in Nat \ {0}
    BY <1>1, <2>3
  <2>5. r = Last0 /\ r \in Nat /\ r + 1 = Len(run.message)
    BY <2>1, <2>4 DEF Last0
  <2>6. n = Last(run.message).n
    BY <2>1, <2>5 DEF Last
  <2>7. n \in 1 .. run.blocks
    <3>1. Len(run.message) \in DOMAIN run.message
      BY <1>1, <2>4
    <3> QED BY <1>1, <2>1, <2>5, <3>1 DEF RunSound
  <2>8. run.blocks \in Nat /\ n \in Nat
    BY <1>1, <2>7 DEF RunRecords
  <2> HIDE DEF n, r
  <2>9. RunTyped'
    BY <1>1, <1>2, <2>1, <2>2, <2>7 DEF RunTyped
  <2>10. RunSound'
    <3>1. Last(run.message).kind = "thinking"
      BY <1>1, <1>4 DEF RunSound
    <3> QED BY <1>1, <1>2, <2>1, <2>3, <3>1 DEF RunSound
  <2> QED BY <1>4, <2>1, <2>3, <2>5, <2>6, <2>8, <2>9, <2>10 DEF n, r
<1>5. \/ HasNext /\ run.announces /\ Adding("thinking", "told")
      \/ run.open = "started" /\ run' = [run EXCEPT !.open = "told"]
  BY DEF ThinkingDelta
<1> QED BY <1>3, <1>4, <1>5

LEMMA ThinkingDeltaKeeps ==
  ASSUME Sound, ThinkingDelta
  PROVE  /\ Sound' /\ run'.at # "over"
         /\ Calm /\ ~upset => Calm'
<1> DEFINE r == Len(run'.message) - 1
           n == run'.message[r + 1].n
           m == Resolved(mapper, r)
           index == m.active[r]
           begun == IF r \in DOMAIN mapper.active THEN <<>> ELSE <<Reasoning("start", index, <<>>)>>
           delta == Reasoning("delta", index, <<n>>)
           old == TextOf(m, index)
           text == With(m.reasoning, index, Append(old, n))
           x == [m EXCEPT !.reasoning = text]
<1>1. /\ RunTyped' /\ RunSound' /\ r \in Nat /\ n \in Nat /\ Last(run'.message).n = n
      /\ run'.streams = run.streams /\ run'.announces = run.announces
      /\ run.at = "message" /\ run'.at = "message" /\ run'.running = {} /\ run'.open = "told"
      /\ Texts(run'.message) = Texts(run.message)
      /\ \/ /\ run.announces /\ n = NextBlock /\ r = Len(run.message)
            /\ run'.message = Append(run.message, Block("thinking", n))
         \/ run.open = "started" /\ r = Last0 /\ run'.message = run.message
  BY DeltaRun
<1>2. /\ mapper' = x /\ bubble' = Shown(bubble, Append(begun, delta))
      /\ thought' = thought \union {n} /\ said' = said /\ spoken' = spoken /\ echoed' = echoed /\ outcome' = outcome /\ upset' = upset
      /\ run.streams
  BY DEF ThinkingDelta, Says
<1>20. r = Len(run'.message) - 1
  OBVIOUS
<1>24. n \in 1 .. MaxBlocks
  <2>1. run'.message \in Seq(Blocks)
    BY <1>1 DEF RunTyped, RunRecords
  <2>2. r + 1 = Len(run'.message) /\ r + 1 \in 1 .. Len(run'.message)
    BY <1>1, <2>1
  <2>3. run'.message[r + 1] \in Blocks
    <3> HIDE DEF r
    <3> QED BY <2>1, <2>2
  <2> QED BY <2>3 DEF Blocks
<1> HIDE DEF r, n
<1>3. MapperSound(mapper) /\ run.message \in Seq(Blocks)
  BY DEF Sound, RunTyped, RunRecords
<1>4. /\ MapperSound(m) /\ index \in m.claimed /\ index \in Nat
      /\ m.text = mapper.text /\ m.reasoning = mapper.reasoning
      /\ m.message = mapper.message /\ m.tools = mapper.tools /\ m.starts = mapper.starts
      /\ m.failed = mapper.failed
  BY <1>1, <1>3, ResolvedIs
<1>21. m = Resolved(mapper, r) /\ index = m.active[r]
  OBVIOUS
<1> HIDE DEF m
<1>5. old \in Seq(Nat) /\ Append(old, n) \in Seq(Nat)
  <2>1. old \in Seq(Nat)
    BY <1>4, TextOfIs
  <2> HIDE DEF old
  <2> QED BY <1>1, <2>1
<1>22. old = TextOf(m, index)
  OBVIOUS
<1> HIDE DEF old, index
<1>6. /\ Indexed(text, Seq(Nat)) /\ DOMAIN text = DOMAIN m.reasoning \union {index}
      /\ text[index] = Append(old, n)
  <2>1. Indexed(m.reasoning, Seq(Nat))
    BY <1>4 DEF MapperSound, MapperTyped
  <2> DEFINE told == Append(old, n)
  <2>2. told \in Seq(Nat)
    BY <1>5
  <2> HIDE DEF told
  <2>3. WithAt(Seq(Nat), m.reasoning, index, told)
    BY <1>4, <2>1, <2>2, WithHas
  <2> QED BY <2>3 DEF WithAt, told
<1>23. text = With(m.reasoning, index, Append(old, n))
  OBVIOUS
<1> HIDE DEF text
<1>7. /\ MapperSound(x) /\ x.reasoning = text /\ x.active = m.active
      /\ x.indexOf = m.indexOf /\ x.claimed = m.claimed /\ x.text = m.text
      /\ x.message = m.message /\ x.tools = m.tools /\ x.starts = m.starts
      /\ x.failed = m.failed
  <2>1. DOMAIN text \subseteq m.claimed
    BY <1>4, <1>6 DEF MapperSound
  <2> QED BY <1>4, <1>6, <2>1, ReasoningSet
<1> HIDE DEF x
<1>8. delta \in Frames /\ Reasoning("start", index, <<>>) \in Frames
  <2>1. "start" \in Phases /\ "delta" \in Phases
    BY DEF Phases
  <2>2. <<>> \in Seq(Nat) /\ <<n>> \in Seq(Nat)
    BY <1>1
  <2> QED BY <1>4, <2>1, <2>2, FramesMade
<1>9. begun \in Seq(Frames) /\ Append(begun, delta) \in Seq(Frames)
  <2>1. begun \in Seq(Frames)
    BY <1>8
  <2> HIDE DEF begun, delta
  <2> QED BY <1>8, <2>1
<1>10. BubbleSound'
  <2> HIDE DEF begun, delta
  <2> QED BY <1>2, <1>9, ShownSound DEF Sound, BubbleSound
<1>11. Sound'
  BY <1>1, <1>2, <1>4, <1>7, <1>10 DEF Sound
<1>12. ASSUME Calm PROVE Calm'
  <2>1. Episodes(mapper.claimed, mapper.reasoning, mapper.active, bubble, thought)
    BY <1>12, CalmEpisodes
  <2>2. \A k \in At(run.message, "thinking") :
          k - 1 \in DOMAIN mapper.indexOf /\ mapper.indexOf[k - 1] \in DOMAIN mapper.reasoning
    BY <1>2, <1>12 DEF Calm, MessageThoughts
  <2>3. run.announces => \A q \in DOMAIN mapper.active : q < Len(run.message)
    BY <1>1, <1>12 DEF Calm, EpisodesActive
  <2>4. \A q \in DOMAIN mapper.active : q \in Nat
    BY <1>3 DEF MapperSound, MapperTyped, Indexed
  <2> DEFINE Goal == /\ Episodes(mapper'.claimed, mapper'.reasoning, mapper'.active, bubble', thought')
                     /\ SameOthers(bubble, bubble')
                     /\ r \in DOMAIN mapper'.active
                     /\ mapper'.reasoning[mapper'.active[r]] = <<n>>
                     /\ \A k \in At(run'.message, "thinking") :
                          k - 1 \in DOMAIN mapper'.indexOf
                            /\ mapper'.indexOf[k - 1] \in DOMAIN mapper'.reasoning
                     /\ run'.announces => \A q \in DOMAIN mapper'.active : q < Len(run'.message)
  <2>5. ASSUME run.announces, n = NextBlock, r = Len(run.message),
               run'.message = Append(run.message, Block("thinking", n))
        PROVE  Goal
    <3> DEFINE i == FreshIndex(mapper, r)
               mid == Folded(bubble, Reasoning("start", i, <<>>))
    <3>1. r \notin DOMAIN mapper.active
      BY <1>1, <2>3, <2>4, <2>5
    <3>2. m = Opened(mapper, r)
      BY <1>21, <3>1 DEF Resolved
    <3>3. /\ i \in Nat /\ i \notin mapper.claimed
          /\ m.claimed = mapper.claimed \union {i} /\ m.indexOf = With(mapper.indexOf, r, i)
          /\ m.active = With(mapper.active, r, i) /\ m.active[r] = i
      <4> DEFINE o == Opened(mapper, r)
      <4>1. /\ i \in Nat /\ i \notin mapper.claimed
            /\ o.claimed = mapper.claimed \union {i} /\ o.indexOf = With(mapper.indexOf, r, i)
            /\ o.active = With(mapper.active, r, i) /\ o.active[r] = i
        <5>1. MapperSound(mapper) /\ r \in Nat
          BY <1>1, <1>3
        <5> QED BY ONLY <5>1, OpenedIs
      <4> HIDE DEF i
      <4> QED BY <3>2, <4>1
    <3>4. index = i
      BY <1>21, <3>3
    <3> HIDE DEF i
    <3>5. i \notin DOMAIN mapper.reasoning
      BY <1>3, <3>3 DEF MapperSound
    <3>6. old = <<>>
      BY <1>4, <1>22, <3>4, <3>5 DEF TextOf
    <3>7. Append(old, n) = <<n>>
      BY <1>1, <3>6
    <3>8. bubble' = Folded(mid, delta)
      <4>1. begun = <<Reasoning("start", i, <<>>)>>
        BY <3>1, <3>4
      <4> DEFINE start == Reasoning("start", i, <<>>)
      <4> HIDE DEF start, delta
      <4>2. Shown(bubble, Append(<<start>>, delta)) = Folded(Folded(bubble, start), delta)
        BY ShownBoth
      <4>3. bubble' = Folded(Folded(bubble, start), delta)
        BY <1>2, <4>1, <4>2 DEF start
      <4> QED BY <4>3 DEF start
    <3>9. mid = Reasoned(bubble, Reasoning("start", i, <<>>))
      BY DEF Folded, Reasoning
    <3>10. Folded(mid, delta) = Reasoned(mid, Reasoning("delta", i, <<n>>))
      <4>1. delta = Reasoning("delta", i, <<n>>) /\ delta.type = "reasoning_text"
        BY <3>4 DEF Reasoning
      <4> HIDE DEF delta, mid
      <4> QED BY <4>1 DEF Folded
    <3> HIDE DEF mid, delta, begun
    <3> DEFINE f == With(mapper.reasoning, i, <<>>)
               g == With(mapper.active, r, i)
    <3>11. Episodes(mapper.claimed \union {i}, f, g, mid, thought) /\ SameOthers(bubble, mid)
      BY <1>1, <2>1, <3>1, <3>3, <3>9, EpisodeBegins
    <3>12. WithAt(Nat, mapper.active, r, i)
      <4>1. Indexed(mapper.active, Nat)
        BY <1>3 DEF MapperSound, MapperTyped
      <4> QED BY <1>1, <3>3, <4>1, WithHas
    <3>13. /\ DOMAIN g = DOMAIN mapper.active \union {r} /\ g[r] = i
      BY <3>12 DEF WithAt
    <3>14. f[i] = <<>> /\ DOMAIN f = DOMAIN mapper.reasoning \union {i}
      BY DEF With
    <3>15. With(f, i, <<n>>) = With(mapper.reasoning, i, <<n>>)
      BY WithTwice
    <3> HIDE DEF f, g
    <3>16. n \notin thought
      BY <2>5 DEF Sound, RunTyped, RunRecords, NextBlock
    <3> DEFINE last == Reasoned(mid, Reasoning("delta", g[r], <<n>>))
               h == With(f, g[r], <<n>>)
    <3>17. /\ Episodes(mapper.claimed \union {i}, h,
                       IF "delta" = "end" THEN Without(g, r) ELSE g, last, thought \union {n})
           /\ SameOthers(mid, last)
      <4>1. r \in DOMAIN g /\ f[g[r]] = <<>> /\ "delta" \in {"delta", "end"}
        BY <3>13, <3>14
      <4> QED BY <1>1, <3>11, <3>16, <4>1, EpisodeTells
    <3>18. last = bubble' /\ h = mapper'.reasoning /\ g = mapper'.active
           /\ mapper'.claimed = mapper.claimed \union {i} /\ mapper'.indexOf = With(mapper.indexOf, r, i)
      <4>1. last = bubble'
        BY <3>8, <3>10, <3>13
      <4>2. h = mapper'.reasoning
        BY <1>2, <1>4, <1>7, <1>23, <3>4, <3>7, <3>13, <3>15
      <4>3. g = mapper'.active
        BY <1>2, <1>7, <3>3 DEF g
      <4> QED BY <1>2, <1>7, <3>3, <4>1, <4>2, <4>3
    <3> HIDE DEF last, h
    <3>19. /\ Episodes(mapper'.claimed, mapper'.reasoning, mapper'.active, bubble', thought')
           /\ SameOthers(mid, bubble')
      BY <1>2, <3>17, <3>18
    <3>20. SameOthers(bubble, bubble')
      BY <3>11, <3>19 DEF SameOthers
    <3>21. mapper'.reasoning[mapper'.active[r]] = <<n>> /\ r \in DOMAIN mapper'.active
      BY <1>2, <1>6, <1>7, <3>4, <3>7, <3>13, <3>18
    <3>22. \A k \in At(run'.message, "thinking") :
             k - 1 \in DOMAIN mapper'.indexOf /\ mapper'.indexOf[k - 1] \in DOMAIN mapper'.reasoning
      <4>1. DOMAIN mapper.reasoning \subseteq DOMAIN mapper'.reasoning /\ i \in DOMAIN mapper'.reasoning
        BY <1>2, <1>4, <1>6, <1>7, <3>4
      <4>2. Indexed(mapper.indexOf, Nat)
        BY <1>3 DEF MapperSound, MapperTyped
      <4>3. \A k \in At(Append(run.message, Block("thinking", n)), "thinking") :
              k - 1 \in DOMAIN With(mapper.indexOf, Len(run.message), i)
              /\ With(mapper.indexOf, Len(run.message), i)[k - 1] \in DOMAIN mapper'.reasoning
        <5> DEFINE idx == mapper.indexOf
                   D == DOMAIN mapper.reasoning
                   E == DOMAIN mapper'.reasoning
                   blocks == run.message
        <5>1. /\ D \subseteq E /\ i \in E /\ Indexed(idx, Nat) /\ i \in Nat /\ n \in 1 .. MaxBlocks
              /\ blocks \in Seq(Blocks)
              /\ \A k \in At(blocks, "thinking") : k - 1 \in DOMAIN idx /\ idx[k - 1] \in D
          BY <1>1, <1>3, <1>24, <2>2, <3>3, <4>1, <4>2
        <5> HIDE DEF idx, D, E, blocks
        <5>2. \A k \in At(Append(blocks, Block("thinking", n)), "thinking") :
                k - 1 \in DOMAIN With(idx, Len(blocks), i) /\ With(idx, Len(blocks), i)[k - 1] \in E
          BY <5>1, ThoughtsIndexed
        <5> QED BY <5>2 DEF idx, E, blocks
      <4> QED BY <2>5, <3>18, <4>3
    <3>23. \A q \in DOMAIN mapper'.active : q < Len(run'.message)
      <4>1. Len(run'.message) = r + 1
        BY <1>1, <1>3, <1>24, <2>5, ThinkingGrows
      <4> QED BY <1>1, <2>3, <2>4, <2>5, <3>13, <3>18, <4>1
    <3> QED BY <3>19, <3>20, <3>21, <3>22, <3>23
  <2>6. ASSUME run.open = "started", r = Last0, run'.message = run.message PROVE Goal
    <3>1. /\ r \in DOMAIN mapper.active /\ mapper.reasoning[mapper.active[r]] = <<>>
          /\ Last(run.message).n \notin thought
      BY <1>12, <2>6 DEF Calm, MessageThoughts
    <3>2. n \notin thought
      BY <1>1, <2>6, <3>1
    <3>3. m = mapper
      BY <1>21, <3>1 DEF Resolved
    <3>4. index = mapper.active[r] /\ index \in DOMAIN mapper.reasoning
      BY <1>21, <2>1, <3>1, <3>3 DEF Episodes
    <3>5. old = <<>>
      BY <1>22, <3>1, <3>3, <3>4 DEF TextOf
    <3>6. Append(old, n) = <<n>>
      BY <1>1, <3>5
    <3>7. bubble' = Reasoned(bubble, Reasoning("delta", mapper.active[r], <<n>>))
      <4>1. begun = <<>>
        BY <3>1
      <4>2. Append(<<>>, delta) = <<delta>>
        OBVIOUS
      <4>3. delta = Reasoning("delta", mapper.active[r], <<n>>) /\ delta.type = "reasoning_text"
        BY <3>4 DEF Reasoning
      <4> HIDE DEF delta, begun
      <4>4. bubble' = Folded(bubble, delta)
        BY <1>2, <4>1, <4>2, ShownOne
      <4> QED BY <4>3, <4>4 DEF Folded
    <3> HIDE DEF delta, begun
    <3> DEFINE last == Reasoned(bubble, Reasoning("delta", mapper.active[r], <<n>>))
               h == With(mapper.reasoning, mapper.active[r], <<n>>)
    <3>8. /\ Episodes(mapper.claimed, h,
                      IF "delta" = "end" THEN Without(mapper.active, r) ELSE mapper.active, last,
                      thought \union {n})
          /\ SameOthers(bubble, last)
      <4>1. "delta" \in {"delta", "end"}
        OBVIOUS
      <4> QED BY <1>1, <2>1, <3>1, <3>2, <4>1, EpisodeTells
    <3>9. last = bubble' /\ h = mapper'.reasoning /\ mapper'.active = mapper.active
          /\ mapper'.claimed = mapper.claimed /\ mapper'.indexOf = mapper.indexOf
      BY <1>2, <1>7, <1>23, <3>3, <3>4, <3>6, <3>7
    <3> HIDE DEF last, h
    <3>10. /\ Episodes(mapper'.claimed, mapper'.reasoning, mapper'.active, bubble', thought')
           /\ SameOthers(bubble, bubble')
      BY <1>2, <3>8, <3>9
    <3>11. r \in DOMAIN mapper'.active /\ mapper'.reasoning[mapper'.active[r]] = <<n>>
      BY <1>2, <1>6, <1>7, <3>1, <3>4, <3>6, <3>9
    <3>12. DOMAIN mapper'.reasoning = DOMAIN mapper.reasoning
      BY <1>2, <1>6, <1>7, <3>3, <3>4
    <3>13. \A k \in At(run'.message, "thinking") :
             k - 1 \in DOMAIN mapper'.indexOf /\ mapper'.indexOf[k - 1] \in DOMAIN mapper'.reasoning
      BY <2>2, <2>6, <3>9, <3>12
    <3>14. run'.announces => \A q \in DOMAIN mapper'.active : q < Len(run'.message)
      BY <1>1, <2>3, <2>6, <3>9
    <3> QED BY <3>10, <3>11, <3>13, <3>14
  <2>7. Goal
    BY <1>1, <2>5, <2>6
  <2>8. Last0' = r
    BY <1>20 DEF Last0
  <2>9. MessageThoughts'
    BY <1>1, <2>7, <2>8 DEF MessageThoughts
  <2>10. /\ mapper'.text = mapper.text /\ mapper'.tools = mapper.tools /\ mapper'.failed = mapper.failed
    BY <1>2, <1>4, <1>7
  <2> QED BY <1>1, <1>2, <1>11, <1>12, <2>7, <2>9, <2>10, ThinkingCalm
<1> QED BY <1>1, <1>11, <1>12

LEMMA ThinkingEndsKeeps ==
  ASSUME Sound, ThinkingEnds
  PROVE  /\ Sound' /\ run'.at # "over"
         /\ Calm /\ ~upset => Calm'
<1> DEFINE r == Last0
           n == Last(run.message).n
           m == Resolved(mapper, r)
           index == m.active[r]
           end == Reasoning("end", index, <<n>>)
           text == With(m.reasoning, index, <<n>>)
           left == Without(m.active, r)
           x == [m EXCEPT !.reasoning = text, !.active = left]
<1>1. run.message \in Seq(Blocks) /\ run \in RunRecords /\ RunTyped /\ RunSound /\ MapperSound(mapper)
  BY DEF Sound, RunTyped, RunRecords
<1>2. /\ mapper' = x /\ bubble' = Shown(bubble, <<end>>)
      /\ run.open \in {"started", "told"} /\ run' = [run EXCEPT !.open = "none"]
      /\ thought' = thought \union {n} /\ said' = said /\ spoken' = spoken /\ echoed' = echoed /\ outcome' = outcome /\ upset' = upset
  BY DEF ThinkingEnds, Says
<1>3. /\ run'.message = run.message /\ run'.streams = run.streams /\ run'.open = "none"
      /\ run'.announces = run.announces /\ run'.at = run.at /\ run'.calls = run.calls
      /\ run'.running = run.running /\ run'.blocks = run.blocks
  BY <1>1, <1>2 DEF RunRecords
<1>4. run' \in RunRecords
  BY <1>1, <1>2 DEF RunRecords
<1>5. /\ run.at = "message" /\ run.message # <<>> /\ run.calls = {} /\ run.running = {}
      /\ run.streams
  BY <1>1, <1>2 DEF RunSound, RunRecords
<1>6. Len(run.message) \in Nat \ {0} /\ r \in Nat
  <2>1. Len(run.message) \in Nat \ {0}
    BY <1>1, <1>5
  <2> QED BY <2>1 DEF Last0
<1>7. n \in 1 .. run.blocks /\ n \in Nat
  <2>1. Len(run.message) \in DOMAIN run.message
    BY <1>1, <1>6
  <2>2. n = run.message[Len(run.message)].n
    BY DEF Last
  <2>3. n \in 1 .. run.blocks
    BY <1>1, <2>1, <2>2 DEF RunSound
  <2>4. run.blocks \in Nat
    BY <1>1 DEF RunRecords
  <2> QED BY <2>3, <2>4
<1> HIDE DEF r, n
<1>8. RunTyped'
  BY <1>1, <1>2, <1>3, <1>4, <1>7 DEF RunTyped
<1>9. RunSound'
  BY <1>1, <1>2, <1>3, <1>5 DEF RunSound
<1>10. /\ MapperSound(m) /\ index \in m.claimed /\ index \in Nat
       /\ m.text = mapper.text /\ m.reasoning = mapper.reasoning
       /\ m.message = mapper.message /\ m.tools = mapper.tools /\ m.starts = mapper.starts
       /\ m.failed = mapper.failed
  BY <1>1, <1>6, ResolvedIs
<1>11. m = Resolved(mapper, r) /\ index = m.active[r]
  OBVIOUS
<1> HIDE DEF m, index
<1>12. /\ Indexed(text, Seq(Nat)) /\ DOMAIN text = DOMAIN m.reasoning \union {index}
  <2> DEFINE told == <<n>>
  <2>1. told \in Seq(Nat) /\ Indexed(m.reasoning, Seq(Nat))
    BY <1>7, <1>10 DEF MapperSound, MapperTyped
  <2> HIDE DEF told
  <2>2. WithAt(Seq(Nat), m.reasoning, index, told)
    BY <1>10, <2>1, WithHas
  <2> QED BY <2>2 DEF WithAt, told
<1>13. /\ Indexed(left, Nat) /\ DOMAIN left = DOMAIN m.active \ {r}
       /\ \A z \in DOMAIN left : left[z] = m.active[z]
  <2>1. Indexed(m.active, Nat)
    BY <1>10 DEF MapperSound, MapperTyped
  <2>2. WithoutAt(Nat, m.active, r)
    BY <2>1, WithoutHas
  <2> QED BY <2>2 DEF WithoutAt
<1>14. text = With(m.reasoning, index, <<n>>) /\ left = Without(m.active, r)
  OBVIOUS
<1> HIDE DEF text, left
<1>15. /\ MapperSound(x) /\ x.reasoning = text /\ x.active = left
       /\ x.indexOf = m.indexOf /\ x.claimed = m.claimed /\ x.text = m.text
       /\ x.message = m.message /\ x.tools = m.tools /\ x.starts = m.starts
       /\ x.failed = m.failed
  <2>1. DOMAIN text \subseteq m.claimed
    BY <1>10, <1>12 DEF MapperSound
  <2>2. \A z \in DOMAIN left : left[z] \in m.claimed
    BY <1>10, <1>13 DEF MapperSound
  <2>3. /\ MapperSound(m) /\ Indexed(text, Seq(Nat)) /\ DOMAIN text \subseteq m.claimed
        /\ Indexed(left, Nat) /\ \A z \in DOMAIN left : left[z] \in m.claimed
    BY <1>10, <1>12, <1>13, <2>1, <2>2
  <2>4. x = EndedMapper(m, text, left)
    BY DEF EndedMapper
  <2> HIDE DEF x
  <2> QED BY ONLY <2>3, <2>4, ReasoningEnded
<1> HIDE DEF x
<1>16. end \in Frames
  <2>1. "end" \in Phases
    BY DEF Phases
  <2>2. <<n>> \in Seq(Nat)
    BY <1>7
  <2> QED BY <1>10, <2>1, <2>2, FramesMade
<1>17. BubbleSound'
  <2> HIDE DEF end
  <2>1. <<end>> \in Seq(Frames)
    BY <1>16
  <2> QED BY <1>2, <2>1, ShownSound DEF Sound, BubbleSound
<1>18. Sound'
  BY <1>2, <1>3, <1>5, <1>8, <1>9, <1>15, <1>17 DEF Sound
<1>19. ASSUME Calm PROVE Calm'
  <2>1. Episodes(mapper.claimed, mapper.reasoning, mapper.active, bubble, thought)
    BY <1>19, CalmEpisodes
  <2>2. /\ r \in DOMAIN mapper.active
        /\ \/ mapper.reasoning[mapper.active[r]] = <<>> /\ n \notin thought
           \/ mapper.reasoning[mapper.active[r]] = <<n>> /\ "end" = "end"
    BY <1>2, <1>19 DEF Calm, MessageThoughts, r, n
  <2>3. m = mapper
    BY <1>11, <2>2 DEF Resolved
  <2>4. index = mapper.active[r] /\ index \in DOMAIN mapper.reasoning
    BY <1>11, <2>1, <2>2, <2>3 DEF Episodes
  <2>5. bubble' = Reasoned(bubble, Reasoning("end", mapper.active[r], <<n>>))
    <3>1. end = Reasoning("end", mapper.active[r], <<n>>) /\ end.type = "reasoning_text"
      BY <2>4 DEF Reasoning
    <3> HIDE DEF end
    <3>2. bubble' = Folded(bubble, end)
      BY <1>2, ShownOne
    <3> QED BY <3>1, <3>2 DEF Folded
  <2> HIDE DEF end
  <2> DEFINE last == Reasoned(bubble, Reasoning("end", mapper.active[r], <<n>>))
             h == With(mapper.reasoning, mapper.active[r], <<n>>)
  <2>6. /\ Episodes(mapper.claimed, h,
                    IF "end" = "end" THEN Without(mapper.active, r) ELSE mapper.active, last,
                    thought \union {n})
        /\ SameOthers(bubble, last)
    <3>1. "end" \in {"delta", "end"}
      OBVIOUS
    <3> QED BY <1>7, <2>1, <2>2, <3>1, EpisodeTells
  <2>7. /\ last = bubble' /\ h = mapper'.reasoning /\ mapper'.active = Without(mapper.active, r)
        /\ mapper'.claimed = mapper.claimed /\ mapper'.indexOf = mapper.indexOf
    BY <1>2, <1>14, <1>15, <2>3, <2>4, <2>5
  <2> HIDE DEF last, h
  <2>8. /\ Episodes(mapper'.claimed, mapper'.reasoning, mapper'.active, bubble', thought')
        /\ SameOthers(bubble, bubble')
    BY <1>2, <2>6, <2>7
  <2>9. DOMAIN mapper'.reasoning = DOMAIN mapper.reasoning
    BY <1>2, <1>12, <1>15, <2>3, <2>4
  <2>10. MessageThoughts'
    <3>1. \A k \in At(run.message, "thinking") :
            k - 1 \in DOMAIN mapper.indexOf /\ mapper.indexOf[k - 1] \in DOMAIN mapper.reasoning
      BY <1>5, <1>19 DEF Calm, MessageThoughts
    <3> QED BY <1>3, <2>7, <2>9, <3>1 DEF MessageThoughts
  <2>11. run'.announces => \A q \in DOMAIN mapper'.active : q < Len(run'.message)
    <3>1. run.announces => \A q \in DOMAIN mapper.active : q < Len(run.message)
      BY <1>5, <1>19 DEF Calm, EpisodesActive
    <3> QED BY <1>2, <1>3, <1>13, <1>15, <2>3, <3>1
  <2>12. /\ mapper'.text = mapper.text /\ mapper'.tools = mapper.tools /\ mapper'.failed = mapper.failed
    BY <1>2, <1>10, <1>15
  <2>13. run'.at = "message" /\ Texts(run'.message) = Texts(run.message)
    BY <1>3, <1>5
  <2> QED BY <1>2, <1>3, <1>5, <1>18, <1>19, <2>8, <2>10, <2>11, <2>12, <2>13, ThinkingCalm
<1> QED BY <1>3, <1>5, <1>18, <1>19

------------------------------------------------------------------------------
(* Texts and calls                                                         *)

(* A block that begins keeps the texts in step.                            *)
LEMMA TextKeptAdds ==
  ASSUME Sound, TextKept, run.at = "message", NEW kind \in {"text", "thinking", "tool"},
         NEW n \in 1 .. MaxBlocks,
         run'.message = Append(run.message, Block(kind, n)),
         run'.at = "message", run'.streams = run.streams,
         said' = IF kind = "text" THEN Append(said, Word[n]) ELSE said,
         spoken' = spoken, echoed' = echoed,
         mapper'.text = IF kind = "text" /\ run.streams THEN Append(mapper.text, Word[n])
                        ELSE mapper.text
  PROVE  TextKept'
<1> DEFINE b == Block(kind, n)
           T == Texts(run.message)
           U == Texts(run'.message)
           x == mapper.text
           w == Word[n]
<1>1. run.message \in Seq(Blocks) /\ run.streams \in BOOLEAN /\ w \in Nat
  BY WordIs DEF Sound, RunTyped, RunRecords
<1>2. b \in Blocks /\ b.kind = kind /\ b.n = n
  BY DEF Block, Blocks
<1>3. said \in Seq(Nat) /\ x \in Seq(Nat) /\ T \in Seq(Nat) /\ spoken \subseteq Seq(Nat)
  <2>1. x \in Seq(Nat)
    BY DEF Sound, MapperSound, MapperTyped
  <2> QED BY <1>1, <2>1, SaidIs, TextsIs DEF Sound
<1>4. U = IF kind = "text" THEN Append(T, w) ELSE T
  BY <1>1, <1>2, TextsAppend
<1>5. IsSuffix(T, said) /\ (run.streams => ~echoed /\ IsSuffix(T, x) /\ Tells(x))
      /\ (~run.streams => Tells(x \o T)) /\ \A t \in spoken : Within(t, x)
  BY DEF TextKept
<1>6. said' = (IF kind = "text" THEN Append(said, w) ELSE said)
      /\ mapper'.text = (IF kind = "text" /\ run.streams THEN Append(x, w) ELSE x)
  OBVIOUS
<1> HIDE DEF T, U, x, b, w
<1>7. IsSuffix(U, said')
  <2>1. CASE kind = "text"
    BY <1>1, <1>3, <1>4, <1>5, <1>6, <2>1, SuffixAppend
  <2>2. CASE kind # "text"
    BY <1>4, <1>5, <1>6, <2>2
  <2> QED BY <2>1, <2>2
<1>8. \A t \in spoken : Within(t, mapper'.text)
  <2>1. SUFFICES ASSUME NEW t \in spoken PROVE Within(t, mapper'.text)
    OBVIOUS
  <2>2. <<w>> \in Seq(Nat) /\ Append(x, w) = x \o <<w>> /\ t \in Seq(Nat) /\ Within(t, x)
    BY <1>1, <1>3, <1>5, JoinAppend
  <2> QED BY <1>3, <1>6, <2>2, WithinGrows
<1>9. ASSUME run.streams PROVE IsSuffix(U, mapper'.text) /\ Tells(mapper.text)'
  <2>1. CASE kind = "text"
    <3>1. mapper'.text = Append(x, w) /\ said' = Append(said, w) /\ U = Append(T, w)
      BY <1>4, <1>6, <1>9, <2>1
    <3>2. IsSuffix(U, mapper'.text)
      BY <1>1, <1>3, <1>5, <1>9, <3>1, SuffixAppend
    <3>3. Append(x, w) # <<>> /\ Append(said, w) # <<>>
      BY <1>1, <1>3, AppendSome
    <3> QED BY <1>5, <1>9, <3>1, <3>2, <3>3 DEF Tells
  <2>2. CASE kind # "text"
    BY <1>4, <1>5, <1>6, <1>9, <2>2 DEF Tells
  <2> QED BY <2>1, <2>2
<1>10. ASSUME ~run.streams PROVE Tells(mapper.text \o Texts(run.message))'
  <2>1. mapper'.text = x
    BY <1>6, <1>10
  <2>2. CASE kind = "text"
    <3>1. x \o Append(T, w) = Append(x \o T, w) /\ x \o T \in Seq(Nat)
      BY <1>1, <1>3, JoinAppend, ConcatIs
    <3>2. Append(x \o T, w) # <<>> /\ Append(said, w) # <<>>
      BY <1>1, <1>3, <3>1, AppendSome
    <3>3. x \o U = Append(x \o T, w) /\ said' = Append(said, w)
      BY <1>4, <1>6, <2>2, <3>1
    <3>4. ~echoed' => x \o U = said'
      BY <1>5, <1>10, <3>3 DEF Tells
    <3> QED BY <2>1, <3>2, <3>3, <3>4 DEF Tells, U
  <2>3. CASE kind # "text"
    BY <1>4, <1>5, <1>6, <1>10, <2>1, <2>3 DEF Tells, U
  <2> QED BY <2>2, <2>3
<1> QED BY <1>1, <1>5, <1>7, <1>8, <1>9, <1>10 DEF TextKept, U

(* And the rest, when the episodes go on or are all closed.                *)
LEMMA BlockCalm ==
  ASSUME Sound, Calm, Sound', run.at = "message", NEW kind \in {"text", "thinking", "tool"},
         kind = "thinking" => ~run.streams, NEW n \in 1 .. MaxBlocks,
         run'.message = Append(run.message, Block(kind, n)), run'.at = "message",
         run'.streams = run.streams, run'.announces = run.announces, run'.open = "none",
         mapper'.claimed = mapper.claimed, mapper'.reasoning = mapper.reasoning,
         mapper'.indexOf = mapper.indexOf, mapper'.tools = mapper.tools,
         mapper'.failed = mapper.failed,
         mapper'.active = Nothing \/ (mapper'.active = mapper.active /\ bubble' = bubble),
         Told(bubble') = Told(bubble), Keyed(bubble', Kinds),
         thought' = thought, outcome' = outcome,
         said' = <<>> => said = <<>> /\ SameOthers(bubble, bubble'),
         TextKept'
  PROVE  Calm'
<1> DEFINE b == Block(kind, n)
<1>1. run.message \in Seq(Blocks) /\ run.streams \in BOOLEAN
  BY DEF Sound, RunTyped, RunRecords
<1>2. b \in Blocks /\ b.kind = kind
  BY DEF Block, Blocks
<1>3. Len(run'.message) = Len(run.message) + 1 /\ Len(run.message) \in Nat
  BY <1>1, <1>2, BlocksAppend
<1>4. At(run'.message, "thinking") = At(run.message, "thinking") \union
                                       (IF b.kind = "thinking" THEN {Len(run.message) + 1} ELSE {})
  BY <1>1, <1>2, BlocksAppend
<1>5. run.streams => At(run'.message, "thinking") = At(run.message, "thinking")
  BY <1>2, <1>4
<1> HIDE DEF b
<1>6. ThoughtsShown'
  <2>1. ThoughtsShown
    BY DEF Calm
  <2>2. \A i \in DOMAIN mapper'.reasoning : <<i, mapper'.reasoning[i]>> \in Told(bubble')
    BY <2>1 DEF ThoughtsShown
  <2>3. \A e \in Told(bubble') : /\ e[1] \in mapper'.claimed
                                 /\ e[2] = <<>> \/ \E x \in thought' : e[2] = <<x>>
    BY <2>1 DEF ThoughtsShown
  <2>4. \A x \in thought' : \E e \in Told(bubble') : e[2] = <<x>>
    BY <2>1 DEF ThoughtsShown
  <2>5. \A d, e \in Told(bubble') : d[2] = e[2] /\ d[2] # <<>> => d[1] = e[1]
    BY <2>1 DEF ThoughtsShown
  <2> QED BY <2>2, <2>3, <2>4, <2>5 DEF ThoughtsShown
<1>7. EpisodesActive'
  <2>1. CASE mapper'.active = Nothing
    <3>1. DOMAIN Nothing = {}
      BY NothingIs
    <3> QED BY <2>1, <3>1 DEF EpisodesActive
  <2>2. CASE mapper'.active = mapper.active /\ bubble' = bubble
    <3>1. run.announces => \A r \in DOMAIN mapper.active : r < Len(run.message)
      BY DEF Calm, EpisodesActive
    <3>2. \A r \in DOMAIN mapper.active : r \in Nat
      BY DEF Sound, MapperSound, MapperTyped, Indexed
    <3>3. run.announces => \A r \in DOMAIN mapper.active : r < Len(run'.message)
      BY <1>3, <3>1, <3>2
    <3> QED BY <2>2, <3>3 DEF Calm, EpisodesActive
  <2> QED BY <2>1, <2>2
<1>8. MessageThoughts'
  BY <1>5 DEF Calm, MessageThoughts
<1>9. CallsKept'
  BY DEF Calm, CallsKept
<1>10. said' = <<>> => \A p \in Range(bubble') : p.kind = "text" => p.text = <<>>
  BY DEF Calm, SameOthers
<1> QED BY <1>6, <1>7, <1>8, <1>9, <1>10 DEF Calm

LEMMA TextToldIs ==
  ASSUME NEW m, MapperSound(m), NEW n \in Nat
  PROVE  LET x == [Closed(m) EXCEPT !.text = Append(@, n)]
         IN  /\ MapperSound(x) /\ x.active = Nothing /\ x.text = Append(m.text, n)
             /\ x.reasoning = m.reasoning /\ x.indexOf = m.indexOf /\ x.claimed = m.claimed
             /\ x.message = m.message /\ x.tools = m.tools /\ x.starts = m.starts
             /\ x.failed = m.failed
<1> DEFINE c == Closed(m)
           t == Append(c.text, n)
           x == [c EXCEPT !.text = t]
<1>1. /\ MapperSound(c) /\ c.active = Nothing
      /\ c.reasoning = m.reasoning /\ c.indexOf = m.indexOf /\ c.next = m.next
      /\ c.text = m.text /\ c.claimed = m.claimed
      /\ c.message = m.message /\ c.tools = m.tools /\ c.starts = m.starts
      /\ c.failed = m.failed
  BY ClosedIs
<1> HIDE DEF c
<1>2. MapperTyped(c) /\ MapperRecord(c)
  BY <1>1 DEF MapperSound, MapperTyped
<1>3. t \in Seq(Nat) /\ t = Append(m.text, n)
  BY <1>1, <1>2 DEF MapperTyped
<1> HIDE DEF t
<1>4. /\ MapperRecord(x) /\ x.text = t /\ x.reasoning = c.reasoning /\ x.active = c.active
      /\ x.indexOf = c.indexOf /\ x.claimed = c.claimed
      /\ x.message = c.message /\ x.tools = c.tools /\ x.starts = c.starts
      /\ x.failed = c.failed /\ x.next = c.next
  BY <1>2 DEF MapperRecord, MapperFields
<1>5. x = [c EXCEPT !.text = Append(@, n)]
  BY DEF t
<1> HIDE DEF x
<1>6. MapperTyped(x)
  BY <1>2, <1>3, <1>4 DEF MapperTyped
<1>7. MapperSound(x)
  BY <1>1, <1>4, <1>6 DEF MapperSound
<1> QED BY <1>1, <1>3, <1>4, <1>5, <1>7 DEF c

(* The episodes that an event closes, before its own frame.                *)
LEMMA ClosingCalm ==
  ASSUME Sound, Calm
  PROVE  LET b == Shown(bubble, Closing(mapper))
         IN  /\ b \in Seq(Parts) /\ Keyed(b, Kinds) /\ Told(b) = Told(bubble)
             /\ SameOthers(bubble, b)
<1>1. MapperSound(mapper) /\ bubble \in Seq(Parts) /\ Keyed(bubble, Kinds)
  BY DEF Sound, BubbleSound, Calm
<1>2. \A r \in DOMAIN mapper.active : mapper.active[r] \in DOMAIN mapper.reasoning
  BY DEF Calm, EpisodesActive
<1>3. \A i \in DOMAIN mapper.reasoning : <<i, mapper.reasoning[i]>> \in Told(bubble)
  BY DEF Calm, ThoughtsShown
<1> QED BY <1>1, <1>2, <1>3, ClosingShown DEF SameOthers

LEMMA TextKeeps ==
  ASSUME Sound, Text
  PROVE  /\ Sound' /\ run'.at # "over"
         /\ Calm /\ ~upset => Calm'
<1> DEFINE n == NextBlock
           w == Word[n]
           x == [Closed(mapper) EXCEPT !.text = Append(@, w)]
           delta == Delta(<<w>>)
           frames == Append(Closing(mapper), delta)
<1>1. run.message \in Seq(Blocks) /\ RunTyped /\ RunSound /\ MapperSound(mapper)
        /\ run.streams \in BOOLEAN
      /\ run \in RunRecords
  BY DEF Sound, RunTyped, RunRecords
<1>2. /\ HasNext /\ Adding("text", "none") /\ run.at = "message"
      /\ said' = Append(said, w) /\ spoken' = spoken /\ echoed' = echoed /\ thought' = thought /\ outcome' = outcome /\ upset' = upset
  BY DEF Text, HasNext
<1>3. /\ run.streams => mapper' = x /\ bubble' = Shown(bubble, frames)
      /\ ~run.streams => mapper' = mapper /\ bubble' = bubble
  BY DEF Text, Says
<1>4. /\ RunTyped' /\ RunSound' /\ n \in 1 .. MaxBlocks /\ w \in Nat
      /\ run'.at = "message" /\ run'.streams = run.streams /\ run'.announces = run.announces
      /\ run'.message = Append(run.message, Block("text", n)) /\ run'.open = "none"
      /\ run'.running = {} /\ run'.calls = {}
  <2>1. "text" \in {"text", "thinking", "tool"} /\ "none" \in {"none", "started", "told"}
    OBVIOUS
  <2>2. said' \in {said, Append(said, Word[NextBlock])}
    BY <1>2
  <2>3. /\ RunTyped' /\ RunSound' /\ n \in 1 .. MaxBlocks
        /\ run'.at = "message" /\ run'.streams = run.streams /\ run'.announces = run.announces
        /\ run'.message = Append(run.message, Block("text", n)) /\ run'.open = "none"
        /\ run'.running = {} /\ run'.calls = {}
    BY <1>1, <1>2, <2>1, <2>2, RunAdds
  <2> QED BY <2>3, WordIs
<1> HIDE DEF n, w
<1>6. /\ MapperSound(x) /\ x.active = Nothing /\ x.text = Append(mapper.text, w)
      /\ x.reasoning = mapper.reasoning /\ x.indexOf = mapper.indexOf /\ x.claimed = mapper.claimed
      /\ x.message = mapper.message /\ x.tools = mapper.tools /\ x.starts = mapper.starts
      /\ x.failed = mapper.failed
  BY <1>1, <1>4, TextToldIs
<1> HIDE DEF x
<1>7. delta \in Frames /\ <<w>> \in Seq(Nat)
  <2>1. <<w>> \in Seq(Nat)
    BY <1>4
  <2> QED BY <2>1, FramesMade
<1>8. Closing(mapper) \in Seq(Frames)
  BY <1>1, ClosingIs
<1>9. BubbleSound'
  <2>1. CASE run.streams
    <3> HIDE DEF delta
    <3>1. frames \in Seq(Frames)
      BY <1>7, <1>8
    <3> HIDE DEF frames
    <3> QED BY <1>3, <2>1, <3>1, ShownSound DEF Sound, BubbleSound
  <2>2. CASE ~run.streams
    BY <1>3, <2>2 DEF Sound, BubbleSound
  <2> QED BY <2>1, <2>2
<1>10. Sound'
  BY <1>1, <1>3, <1>4, <1>6, <1>9 DEF Sound
<1>11. ASSUME Calm PROVE Calm'
  <2>1. TextKept
    BY <1>11 DEF Calm
  <2>2. mapper'.text = IF "text" = "text" /\ run.streams THEN Append(mapper.text, Word[n]) ELSE mapper.text
    BY <1>1, <1>3, <1>6 DEF w
  <2>3. TextKept'
    <3>1. "text" \in {"text", "thinking", "tool"}
            /\ said' = IF "text" = "text" THEN Append(said, Word[n]) ELSE said
      BY <1>2 DEF w
    <3> QED BY <1>2, <1>4, <2>1, <2>2, <3>1, TextKeptAdds
  <2>4. said' # <<>>
    <3>1. said \in Seq(Nat)
      BY <1>1, SaidIs
    <3> QED BY <1>2, <3>1
  <2> DEFINE mid == Shown(bubble, Closing(mapper))
  <2>5. /\ mid \in Seq(Parts) /\ Keyed(mid, Kinds) /\ Told(mid) = Told(bubble)
    BY <1>11, ClosingCalm
  <2>6. Told(bubble') = Told(bubble) /\ Keyed(bubble', Kinds)
        /\ (mapper'.active = Nothing \/ (mapper'.active = mapper.active /\ bubble' = bubble))
    <3>1. CASE run.streams
      <4>1. bubble' = Folded(mid, delta)
        <5> HIDE DEF delta
        <5>1. Shown(bubble, Append(Closing(mapper), delta)) = Folded(Shown(bubble, Closing(mapper)), delta)
          BY <1>7, <1>8, ShownAppend
        <5> QED BY <1>3, <3>1, <5>1
      <4>2. Folded(mid, delta) = Appended(mid, <<w>>)
        BY DEF Folded, Delta
      <4> HIDE DEF mid
      <4>3. /\ Appended(mid, <<w>>) \in Seq(Parts) /\ Keyed(Appended(mid, <<w>>), Kinds)
            /\ \A p : p.kind # "text" => (p \in Range(Appended(mid, <<w>>)) <=> p \in Range(mid))
        <5> DEFINE t == <<w>>
        <5>1. t \in Seq(Nat)
          BY <1>7
        <5> HIDE DEF t
        <5>2. /\ Appended(mid, t) \in Seq(Parts) /\ Keyed(Appended(mid, t), Kinds)
              /\ \A p : p.kind # "text" => (p \in Range(Appended(mid, t)) <=> p \in Range(mid))
          BY <2>5, <5>1, AppendedIs
        <5> QED BY <5>2 DEF t
      <4>4. Told(Appended(mid, <<w>>)) = Told(mid)
        BY <2>5, <4>3, ToldLike
      <4> QED BY <1>3, <1>6, <2>5, <3>1, <4>1, <4>2, <4>3, <4>4
    <3>2. CASE ~run.streams
      BY <1>3, <1>11, <3>2 DEF Calm
    <3> QED BY <3>1, <3>2
  <2>7. /\ mapper'.claimed = mapper.claimed /\ mapper'.reasoning = mapper.reasoning
        /\ mapper'.indexOf = mapper.indexOf /\ mapper'.tools = mapper.tools
        /\ mapper'.failed = mapper.failed
    BY <1>1, <1>3, <1>6
  <2>8. "text" \in {"text", "thinking", "tool"} /\ "text" # "thinking"
    OBVIOUS
  <2> QED BY <1>2, <1>4, <1>10, <1>11, <2>3, <2>4, <2>6, <2>7, <2>8, BlockCalm
<1> QED BY <1>4, <1>10, <1>11

LEMMA CallKeeps ==
  ASSUME Sound, Call
  PROVE  /\ Sound' /\ run'.at # "over"
         /\ Calm /\ ~upset => Calm'
<1> DEFINE n == NextBlock
           x == Closed(mapper)
<1>1. run.message \in Seq(Blocks) /\ RunTyped /\ RunSound /\ MapperSound(mapper)
        /\ run.streams \in BOOLEAN
      /\ run \in RunRecords
  BY DEF Sound, RunTyped, RunRecords
<1>2. /\ HasNext /\ Adding("tool", "none") /\ run.at = "message"
      /\ said' = said /\ spoken' = spoken /\ echoed' = echoed /\ thought' = thought /\ outcome' = outcome /\ upset' = upset
  BY DEF Call, HasNext
<1>3. /\ run.streams => mapper' = x /\ bubble' = Shown(bubble, Closing(mapper))
      /\ ~run.streams => mapper' = mapper /\ bubble' = bubble
  BY DEF Call, Says
<1>4. /\ RunTyped' /\ RunSound' /\ n \in 1 .. MaxBlocks
      /\ run'.at = "message" /\ run'.streams = run.streams /\ run'.announces = run.announces
      /\ run'.message = Append(run.message, Block("tool", n)) /\ run'.open = "none"
      /\ run'.running = {} /\ run'.calls = {}
  <2>1. "tool" \in {"text", "thinking", "tool"} /\ "none" \in {"none", "started", "told"}
    OBVIOUS
  <2>2. said' \in {said, Append(said, Word[NextBlock])}
    BY <1>2
  <2> QED BY <1>1, <1>2, <2>1, <2>2, RunAdds
<1> HIDE DEF n
<1>6. /\ MapperSound(x) /\ x.active = Nothing /\ x.text = mapper.text
      /\ x.reasoning = mapper.reasoning /\ x.indexOf = mapper.indexOf /\ x.claimed = mapper.claimed
      /\ x.message = mapper.message /\ x.tools = mapper.tools /\ x.starts = mapper.starts
      /\ x.failed = mapper.failed
  BY <1>1, ClosedIs
<1> HIDE DEF x
<1>7. Closing(mapper) \in Seq(Frames)
  BY <1>1, ClosingIs
<1>8. BubbleSound'
  BY <1>1, <1>3, <1>7, ShownSound DEF Sound, BubbleSound
<1>9. Sound'
  BY <1>1, <1>3, <1>4, <1>6, <1>8 DEF Sound
<1>10. ASSUME Calm PROVE Calm'
  <2>1. TextKept
    BY <1>10 DEF Calm
  <2>2. mapper'.text = IF "tool" = "text" /\ run.streams THEN Append(mapper.text, Word[n]) ELSE mapper.text
    BY <1>1, <1>3, <1>6
  <2>3. TextKept'
    <3>1. "tool" \in {"text", "thinking", "tool"}
            /\ said' = IF "tool" = "text" THEN Append(said, Word[n]) ELSE said
      BY <1>2
    <3> QED BY <1>2, <1>4, <2>1, <2>2, <3>1, TextKeptAdds
  <2>4. /\ Shown(bubble, Closing(mapper)) \in Seq(Parts)
        /\ Keyed(Shown(bubble, Closing(mapper)), Kinds)
        /\ Told(Shown(bubble, Closing(mapper))) = Told(bubble)
        /\ SameOthers(bubble, Shown(bubble, Closing(mapper)))
    BY <1>10, ClosingCalm
  <2>5. Told(bubble') = Told(bubble) /\ Keyed(bubble', Kinds) /\ SameOthers(bubble, bubble')
        /\ (mapper'.active = Nothing \/ (mapper'.active = mapper.active /\ bubble' = bubble))
    <3>1. SameOthers(bubble, bubble) /\ Keyed(bubble, Kinds)
      BY <1>10 DEF SameOthers, Calm
    <3> QED BY <1>1, <1>3, <1>6, <2>4, <3>1
  <2>6. /\ mapper'.claimed = mapper.claimed /\ mapper'.reasoning = mapper.reasoning
        /\ mapper'.indexOf = mapper.indexOf /\ mapper'.tools = mapper.tools
        /\ mapper'.failed = mapper.failed
    BY <1>1, <1>3, <1>6
  <2>7. "tool" \in {"text", "thinking", "tool"} /\ "tool" # "thinking"
    OBVIOUS
  <2> QED BY <1>2, <1>4, <1>9, <1>10, <2>3, <2>5, <2>6, <2>7, BlockCalm
<1> QED BY <1>4, <1>9, <1>10

LEMMA SilentThoughtKeeps ==
  ASSUME Sound, SilentThought
  PROVE  /\ Sound' /\ run'.at # "over"
         /\ Calm /\ ~upset => Calm'
<1> DEFINE n == NextBlock
<1>1. run.message \in Seq(Blocks) /\ RunTyped /\ RunSound /\ run \in RunRecords
  BY DEF Sound, RunTyped, RunRecords
<1>2. /\ HasNext /\ Adding("thinking", "none") /\ run.at = "message" /\ ~run.streams
      /\ mapper' = mapper /\ bubble' = bubble
      /\ said' = said /\ spoken' = spoken /\ echoed' = echoed /\ thought' = thought /\ outcome' = outcome /\ upset' = upset
  BY DEF SilentThought, HasNext
<1>3. /\ RunTyped' /\ RunSound' /\ n \in 1 .. MaxBlocks
      /\ run'.at = "message" /\ run'.streams = run.streams /\ run'.announces = run.announces
      /\ run'.message = Append(run.message, Block("thinking", n)) /\ run'.open = "none"
      /\ run'.running = {} /\ run'.calls = {}
  <2>1. "thinking" \in {"text", "thinking", "tool"} /\ "none" \in {"none", "started", "told"}
    OBVIOUS
  <2>2. said' \in {said, Append(said, Word[NextBlock])}
    BY <1>2
  <2> QED BY <1>1, <1>2, <2>1, <2>2, RunAdds
<1> HIDE DEF n
<1>5. Sound'
  BY <1>2, <1>3 DEF Sound, BubbleSound
<1>6. ASSUME Calm PROVE Calm'
  <2>1. TextKept /\ Keyed(bubble, Kinds)
    BY <1>6 DEF Calm
  <2>2. TextKept'
    <3>1. /\ "thinking" \in {"text", "thinking", "tool"}
          /\ said' = IF "thinking" = "text" THEN Append(said, Word[n]) ELSE said
          /\ mapper'.text = IF "thinking" = "text" /\ run.streams
                            THEN Append(mapper.text, Word[n]) ELSE mapper.text
      BY <1>2
    <3> QED BY <1>2, <1>3, <2>1, <3>1, TextKeptAdds
  <2>3. SameOthers(bubble, bubble')
    BY <1>2 DEF SameOthers
  <2>4. "thinking" \in {"text", "thinking", "tool"}
    OBVIOUS
  <2> QED BY <1>2, <1>3, <1>5, <1>6, <2>1, <2>2, <2>3, <2>4, BlockCalm
<1> QED BY <1>3, <1>5, <1>6

------------------------------------------------------------------------------
(* Message ends                                                            *)

(* With `done` a message is remembered twice, which makes no difference.   *)
LEMMA RememberedAgain ==
  ASSUME NEW m, MapperSound(m), NEW blocks \in Seq(Blocks), Rising(blocks),
         NEW failed \in BOOLEAN, NEW done \in BOOLEAN,
         NEW s, s = Remembered(IF done THEN Remembered(m, blocks, failed) ELSE m, blocks, failed)
  PROVE  /\ MapperSound(s) /\ s.message = blocks /\ s.failed = failed
         /\ s.reasoning = m.reasoning /\ s.claimed = m.claimed /\ s.active = m.active
         /\ s.indexOf = m.indexOf /\ s.starts = m.starts
         /\ \A p \in Range(m.tools) : p.state \in {"available", "error"} => p \in Range(s.tools)
         /\ IsSuffix(Texts(blocks), FinalText(m.text, Texts(blocks))) =>
              s.text = FinalText(m.text, Texts(blocks))
<1> DEFINE f == IF done THEN Remembered(m, blocks, failed) ELSE m
           T == Texts(blocks)
           u == FinalText(m.text, T)
<1>1. /\ MapperSound(f)
      /\ f.reasoning = m.reasoning /\ f.claimed = m.claimed /\ f.active = m.active
      /\ f.indexOf = m.indexOf /\ f.starts = m.starts
      /\ \A p \in Range(m.tools) : p.state \in {"available", "error"} => p \in Range(f.tools)
      /\ f.text = IF done THEN u ELSE m.text
  <2>1. CASE done
    <3> DEFINE x == Remembered(m, blocks, failed)
    <3>1. /\ MapperSound(x) /\ x.text = u
          /\ x.reasoning = m.reasoning /\ x.claimed = m.claimed /\ x.active = m.active
          /\ x.indexOf = m.indexOf /\ x.starts = m.starts
          /\ \A p \in Range(m.tools) : p.state \in {"available", "error"} => p \in Range(x.tools)
      BY RememberedIs
    <3>2. f = x
      BY <2>1
    <3> HIDE DEF x, f, u
    <3> QED BY <2>1, <3>1, <3>2
  <2>2. CASE ~done
    <3>1. f = m
      BY <2>2
    <3> HIDE DEF f, u
    <3> QED BY <2>2, <3>1
  <2> QED BY <2>1, <2>2
<1>2. s = Remembered(f, blocks, failed)
  OBVIOUS
<1> HIDE DEF f
<1>3. /\ MapperSound(s) /\ s.message = blocks /\ s.failed = failed
      /\ s.text = FinalText(f.text, T)
      /\ s.reasoning = f.reasoning /\ s.claimed = f.claimed /\ s.active = f.active
      /\ s.indexOf = f.indexOf /\ s.starts = f.starts
      /\ \A p \in Range(f.tools) : p.state \in {"available", "error"} => p \in Range(s.tools)
  <2> DEFINE x == Remembered(f, blocks, failed)
  <2>1. /\ MapperSound(x) /\ x.message = blocks /\ x.failed = failed
        /\ x.text = FinalText(f.text, T)
        /\ x.reasoning = f.reasoning /\ x.claimed = f.claimed /\ x.active = f.active
        /\ x.indexOf = f.indexOf /\ x.starts = f.starts
        /\ \A p \in Range(f.tools) : p.state \in {"available", "error"} => p \in Range(x.tools)
    BY <1>1, RememberedIs
  <2>2. s = x
    BY <1>2
  <2> HIDE DEF x
  <2> QED BY <2>1, <2>2
<1>4. IsSuffix(T, u) => s.text = u
  <2>1. m.text \in Seq(Nat) /\ T \in Seq(Nat)
    BY TextsIs DEF MapperSound, MapperTyped
  <2> HIDE DEF T
  <2>2. u \in Seq(Nat)
    BY <2>1, FinalTextIs
  <2>3. u = FinalText(m.text, T)
    OBVIOUS
  <2> HIDE DEF u
  <2>4. IsSuffix(T, u) => FinalText(u, T) = u
    BY <2>1, <2>2, FinalTextSaid
  <2> QED BY <1>1, <1>3, <2>3, <2>4
<1> QED BY <1>1, <1>3, <1>4

(* When a message ends its texts have been said.                           *)
LEMMA SaidAtEnd ==
  ASSUME Sound, TextKept, run.at = "message", said' = said,
         spoken' = spoken \union {Texts(run.message)},
         echoed' = (echoed \/ (~run.streams /\ Echoes(Texts(run.message)))),
         NEW u, u = FinalText(mapper.text, Texts(run.message))
  PROVE  /\ u \in Seq(Nat) /\ IsSuffix(Texts(run.message), u)
         /\ u = <<>> <=> said' = <<>>
         /\ ~echoed' => u = said'
         /\ \A t \in spoken' : Within(t, u)
         /\ run.streams => ~echoed'
<1> DEFINE T == Texts(run.message)
           x == mapper.text
<1>1. run.message \in Seq(Blocks) /\ said \in Seq(Nat) /\ x \in Seq(Nat) /\ T \in Seq(Nat)
      /\ spoken \subseteq Seq(Nat) /\ run.streams \in BOOLEAN
  <2>1. run.message \in Seq(Blocks) /\ x \in Seq(Nat) /\ run.streams \in BOOLEAN
    BY DEF Sound, RunTyped, RunRecords, MapperSound, MapperTyped
  <2> QED BY <2>1, SaidIs, TextsIs DEF Sound
<1>2. IsSuffix(T, said) /\ (run.streams => ~echoed /\ IsSuffix(T, x) /\ Tells(x))
      /\ (~run.streams => Tells(x \o T)) /\ \A t \in spoken : Within(t, x)
  BY DEF TextKept
<1>3. u = FinalText(x, T) /\ spoken' = spoken \union {T}
      /\ echoed' = (echoed \/ (~run.streams /\ Echoes(T)))
  OBVIOUS
<1> HIDE DEF T, x
<1>4. /\ u \in Seq(Nat) /\ IsSuffix(T, u)
      /\ \E rest \in Seq(Nat) : u = x \o rest
      /\ u = <<>> <=> x \o T = <<>>
      /\ \/ x = <<>> \/ T = <<>>
         \/ ~IsSuffix(T, x) /\ ~IsPrefix(x, T)
         => u = x \o T
  BY <1>1, <1>3, FinalTextAdds
<1>5. \A t \in spoken' : Within(t, u)
  <2>1. PICK rest \in Seq(Nat) : u = x \o rest
    BY <1>4
  <2>2. \A t \in spoken : Within(t, x \o rest)
    BY <1>1, <1>2, WithinGrows
  <2>3. Within(T, u)
    BY <1>1, <1>4, WithinSuffix
  <2> QED BY <1>3, <2>1, <2>2, <2>3
<1>6. CASE run.streams
  <2>1. u = x
    BY <1>1, <1>2, <1>3, <1>6, FinalTextSaid
  <2> QED BY <1>2, <1>3, <1>4, <1>5, <1>6, <2>1 DEF Tells, T
<1>7. CASE ~run.streams
  <2>1. u = <<>> <=> said = <<>>
    BY <1>2, <1>4, <1>7 DEF Tells
  <2>2. ASSUME ~echoed' PROVE u = said
    <3>1. said = x \o T /\ ~Echoes(T)
      BY <1>2, <1>3, <1>7, <2>2 DEF Tells
    <3> DEFINE before == SubSeq(said, 1, Len(said) - Len(T))
    <3>2. before = x
      <4>1. /\ Len(said) = Len(x) + Len(T) /\ Len(x) \in Nat /\ Len(T) \in Nat
            /\ \A i \in 1 .. Len(x) : said[i] = x[i]
        BY <1>1, <3>1
      <4>2. Len(said) - Len(T) = Len(x)
        BY <4>1
      <4>3. SubSeq(said, 1, Len(x)) \in Seq(Nat) /\ Len(SubSeq(said, 1, Len(x))) = Len(x)
            /\ \A i \in 1 .. Len(x) : SubSeq(said, 1, Len(x))[i] = said[i]
        BY <1>1, <4>1
      <4> DEFINE y == SubSeq(said, 1, Len(x))
      <4>4. before = y
        BY <4>2
      <4>5. y \in Seq(Nat) /\ Len(y) = Len(x) /\ \A i \in 1 .. Len(y) : y[i] = x[i]
        BY <4>1, <4>3
      <4> HIDE DEF y
      <4>6. y = x
        BY <1>1, <4>5, SameSeq
      <4> QED BY <4>4, <4>6
    <3>3. T = <<>> \/ x = <<>> \/ (~IsSuffix(T, x) /\ ~IsPrefix(x, T))
      BY <3>1, <3>2 DEF Echoes
    <3> QED BY <1>4, <3>1, <3>3
  <2> QED BY <1>4, <1>5, <1>7, <2>1, <2>2 DEF T
<1> QED BY <1>1, <1>6, <1>7

LEMMA MessageEndsKeeps ==
  ASSUME Sound, NEW done \in BOOLEAN, NEW failed \in BOOLEAN, MessageEnds(done, failed)
  PROVE  /\ Sound' /\ run'.at # "over"
         /\ ~upset' => ~upset
         /\ Calm /\ ~upset' => Calm'
<1> DEFINE m == Remembered(IF done THEN Remembered(mapper, run.message, failed) ELSE mapper,
                           run.message, failed)
           calls == IF failed THEN {} ELSE CallsIn(run.message)
           frame == [type |-> "message", parts |-> MessageParts(m, run.message)]
           frames == IF failed THEN <<frame>> ELSE <<>>
<1>1. /\ run.message \in Seq(Blocks) /\ Rising(run.message) /\ RunTyped /\ RunSound
      /\ MapperSound(mapper) /\ run \in RunRecords
  BY DEF Sound, RunTyped, RunRecords, RunSound
<1>2. /\ mapper' = m /\ bubble' = Shown(bubble, frames)
      /\ run' = [run EXCEPT !.at = "idle", !.open = "none", !.calls = calls]
      /\ run.at = "message" /\ upset' = (upset \/ failed)
      /\ said' = said /\ thought' = thought /\ outcome' = outcome
      /\ spoken' = spoken \union {Texts(run.message)}
      /\ echoed' = (echoed \/ (~run.streams /\ Echoes(Texts(run.message))))
  BY DEF MessageEnds, Says
<1>3. m = Remembered(IF done THEN Remembered(mapper, run.message, failed) ELSE mapper,
                     run.message, failed)
  OBVIOUS
<1> HIDE DEF m
<1>4. /\ MapperSound(m) /\ m.message = run.message /\ m.failed = failed
      /\ m.reasoning = mapper.reasoning /\ m.claimed = mapper.claimed /\ m.active = mapper.active
      /\ m.indexOf = mapper.indexOf /\ m.starts = mapper.starts
      /\ \A p \in Range(mapper.tools) : p.state \in {"available", "error"} => p \in Range(m.tools)
      /\ IsSuffix(Texts(run.message), FinalText(mapper.text, Texts(run.message))) =>
           m.text = FinalText(mapper.text, Texts(run.message))
  BY <1>1, <1>3, RememberedAgain
<1>5. calls \subseteq CallsIn(run.message) /\ calls \subseteq Nat
  BY <1>1, CallsInIs
<1>6. \A n \in calls : n \notin DOMAIN outcome
  <2>1. SUFFICES ASSUME NEW n \in calls PROVE n \notin DOMAIN outcome
    OBVIOUS
  <2>2. n \in CallsIn(run.message)
    BY <1>5, <2>1
  <2>3. PICK k \in 1 .. Len(run.message) : run.message[k].n = n
    BY <1>1, <2>2, CallsInIs
  <2>4. k \in DOMAIN run.message
    BY <1>1
  <2> QED BY <1>1, <1>2, <2>3, <2>4 DEF RunSound
<1> HIDE DEF calls
<1>7. /\ run'.at = "idle" /\ run'.message = run.message /\ run'.streams = run.streams
           /\ run'.open = "none"
      /\ run'.announces = run.announces /\ run'.calls = calls
      /\ run'.running = run.running /\ run'.blocks = run.blocks
  BY <1>1, <1>2 DEF RunRecords
<1>8. run' \in RunRecords
  BY <1>1, <1>2, <1>5 DEF RunRecords
<1>9. run.running = {}
  BY <1>1, <1>2 DEF RunSound
<1>10. RunTyped'
  <2>1. Texts(run.message) \in Seq(Nat)
    BY <1>1, TextsIs
  <2>2. spoken' \subseteq Seq(Nat) /\ echoed' \in BOOLEAN
    <3> HIDE DEF m
    <3> QED BY <1>1, <1>2, <2>1 DEF RunTyped, Echoes
  <2> QED BY <1>1, <1>2, <1>7, <1>8, <2>2 DEF RunTyped
<1>11. RunSound'
  <2>1. run'.calls \intersect DOMAIN outcome' = {}
    BY <1>2, <1>6, <1>7
  <2> QED BY <1>1, <1>2, <1>5, <1>7, <1>9, <2>1 DEF RunSound
<1>12. frame \in Frames
  <2> DEFINE parts == MessageParts(m, run.message)
  <2>1. parts \in Seq(Parts) /\ Keyed(parts, {"tool"})
    BY <1>1, <1>4, MessagePartsAre
  <2>2. "message" \in {"message", "done"}
    OBVIOUS
  <2> HIDE DEF parts
  <2>3. [type |-> "message", parts |-> parts] \in Frames
    BY <2>1, <2>2, FramesMade
  <2> QED BY <2>3 DEF parts
<1> HIDE DEF frame
<1>13. frames \in Seq(Frames)
  BY <1>12
<1>14. BubbleSound'
  <2> HIDE DEF frames
  <2> QED BY <1>2, <1>13, ShownSound DEF Sound, BubbleSound
<1>15. Sound'
  BY <1>2, <1>4, <1>7, <1>9, <1>10, <1>11, <1>14 DEF Sound
<1>16. ~upset' => ~upset
  BY <1>2
<1>17. ASSUME Calm, ~upset' PROVE Calm'
  <2>1. failed = FALSE
    BY <1>2, <1>17
  <2>2. bubble' = bubble
    <3>1. frames = <<>>
      BY <2>1
    <3> QED BY <1>2, <3>1, ShownNone
  <2>3. TextKept'
    <3>1. TextKept
      BY <1>17 DEF Calm
    <3> DEFINE u == FinalText(mapper.text, Texts(run.message))
    <3>2. u = FinalText(mapper.text, Texts(run.message))
      OBVIOUS
    <3> HIDE DEF u
    <3>3. /\ u \in Seq(Nat) /\ IsSuffix(Texts(run.message), u)
          /\ u = <<>> <=> said' = <<>>
          /\ ~echoed' => u = said'
          /\ \A t \in spoken' : Within(t, u)
          /\ run.streams => ~echoed'
      BY <1>2, <3>1, <3>2, SaidAtEnd
    <3>4. m.text = u
      BY <1>4, <3>2, <3>3
    <3>5. IsSuffix(Texts(run.message), said)
      BY <3>1 DEF TextKept
    <3> QED BY <1>2, <1>4, <1>7, <3>3, <3>4, <3>5 DEF TextKept, Tells
  <2>4. CallsKept'
    <3>1. \A n \in DOMAIN outcome : ToolPart(n, TRUE, outcome[n]) \in Range(m.tools)
      <4>1. SUFFICES ASSUME NEW n \in DOMAIN outcome
                PROVE ToolPart(n, TRUE, outcome[n]) \in Range(m.tools)
        OBVIOUS
      <4>2. ToolPart(n, TRUE, outcome[n]) \in Range(mapper.tools)
        BY <1>17 DEF Calm, CallsKept
      <4>3. outcome[n] \in {"available", "error"}
        BY <1>1 DEF RunTyped, Indexed
      <4>4. ToolPart(n, TRUE, outcome[n]).state = outcome[n]
        BY DEF ToolPart
      <4> QED BY <1>4, <4>2, <4>3, <4>4
    <3> QED BY <1>2, <3>1 DEF CallsKept
  <2>5. ThoughtsShown'
    BY <1>2, <1>4, <1>17, <2>2 DEF Calm, ThoughtsShown
  <2>6. EpisodesActive'
    BY <1>2, <1>4, <1>7, <1>17, <2>2 DEF Calm, EpisodesActive
  <2>7. MessageThoughts'
    BY <1>2, <1>4, <1>7, <1>17 DEF Calm, MessageThoughts
  <2>8. ~mapper'.failed
    BY <1>2, <1>4, <2>1
  <2> QED BY <1>2, <1>17, <2>2, <2>3, <2>4, <2>5, <2>6, <2>7, <2>8 DEF Calm
<1> QED BY <1>7, <1>15, <1>16, <1>17

------------------------------------------------------------------------------
(* Tools                                                                   *)

NotedMapper(m, S, part) == [m EXCEPT !.starts = S, !.tools = Upserted(@, part)]

Noted(m, S, part, x) ==
  /\ MapperSound(x) /\ x.active = m.active /\ x.starts = S
  /\ x.reasoning = m.reasoning /\ x.indexOf = m.indexOf /\ x.claimed = m.claimed
  /\ x.message = m.message /\ x.text = m.text /\ x.failed = m.failed
  /\ part \in Range(x.tools)
  /\ \A p \in Range(m.tools) : p.n # part.n => p \in Range(x.tools)

LEMMA ToolNoted ==
  ASSUME NEW m, MapperSound(m), NEW part \in CallParts, NEW S, S \subseteq Nat
  PROVE  Noted(m, S, part, NotedMapper(m, S, part))
<1> DEFINE x == NotedMapper(m, S, part)
<1> DEFINE t == Upserted(m.tools, part)
<1>1. MapperTyped(m) /\ MapperRecord(m) /\ m.tools \in Seq(CallParts) /\ Keyed(m.tools, {"tool"})
  BY DEF MapperSound, MapperTyped
<1>2. /\ t \in Seq(CallParts) /\ Keyed(t, {"tool"}) /\ part \in Range(t)
      /\ \A p \in Range(m.tools) : p.n # part.n => p \in Range(t)
  BY <1>1, UpsertedIs
<1>3. x = [m EXCEPT !.starts = S, !.tools = t]
  BY DEF NotedMapper
<1> HIDE DEF t, x
<1>4. /\ MapperRecord(x) /\ x.text = m.text /\ x.reasoning = m.reasoning /\ x.active = m.active
      /\ x.indexOf = m.indexOf /\ x.claimed = m.claimed
      /\ x.message = m.message /\ x.tools = t /\ x.starts = S
      /\ x.failed = m.failed /\ x.next = m.next
  BY ONLY <1>1, <1>3 DEF MapperRecord, MapperFields
<1>5. MapperTyped(x)
  BY <1>1, <1>2, <1>4 DEF MapperTyped
<1>6. MapperSound(x)
  BY <1>2, <1>4, <1>5 DEF MapperSound
<1>7. Noted(m, S, part, x)
  BY <1>2, <1>4, <1>6 DEF Noted
<1> QED BY <1>7 DEF x

(* What a frame of a tool leaves as it is.                                 *)
LEMMA ToolCalm ==
  ASSUME Calm, run.at = "idle", run'.at = "idle", run'.message = run.message,
         run'.streams = run.streams, run'.open = "none",
         mapper'.claimed = mapper.claimed, mapper'.reasoning = mapper.reasoning,
         mapper'.indexOf = mapper.indexOf, mapper'.text = mapper.text,
         mapper'.message = mapper.message, mapper'.failed = mapper.failed,
         mapper'.active = Nothing \/ (mapper'.active = mapper.active /\ Live(bubble') = Live(bubble)),
         Told(bubble') = Told(bubble), Keyed(bubble', Kinds),
         \A p : p.kind = "text" => (p \in Range(bubble') <=> p \in Range(bubble)),
         thought' = thought, said' = said /\ spoken' = spoken /\ echoed' = echoed, CallsKept'
  PROVE  Calm'
<1>1. TextKept'
  BY DEF Calm, TextKept, Tells
<1>2. ThoughtsShown'
  <2>1. ThoughtsShown
    BY DEF Calm
  <2>2. \A i \in DOMAIN mapper'.reasoning : <<i, mapper'.reasoning[i]>> \in Told(bubble')
    BY <2>1 DEF ThoughtsShown
  <2>3. \A e \in Told(bubble') : /\ e[1] \in mapper'.claimed
                                 /\ e[2] = <<>> \/ \E x \in thought' : e[2] = <<x>>
    BY <2>1 DEF ThoughtsShown
  <2>4. \A x \in thought' : \E e \in Told(bubble') : e[2] = <<x>>
    BY <2>1 DEF ThoughtsShown
  <2>5. \A d, e \in Told(bubble') : d[2] = e[2] /\ d[2] # <<>> => d[1] = e[1]
    BY <2>1 DEF ThoughtsShown
  <2> QED BY <2>2, <2>3, <2>4, <2>5 DEF ThoughtsShown
<1>3. EpisodesActive'
  <2>1. CASE mapper'.active = Nothing
    <3>1. DOMAIN Nothing = {}
      BY NothingIs
    <3> QED BY <2>1, <3>1 DEF EpisodesActive
  <2>2. CASE mapper'.active = mapper.active /\ Live(bubble') = Live(bubble)
    BY <2>2 DEF Calm, EpisodesActive
  <2> QED BY <2>1, <2>2
<1>4. MessageThoughts'
  BY DEF Calm, MessageThoughts
<1>5. said' = <<>> => \A p \in Range(bubble') : p.kind = "text" => p.text = <<>>
  BY DEF Calm
<1> QED BY <1>1, <1>2, <1>3, <1>4, <1>5 DEF Calm

(* The call of a tool is of the last message, and the name of one that     *)
(* runs is known.                                                          *)
LEMMA ToolRuns ==
  ASSUME Sound, NEW n \in run.calls
  PROVE  /\ n \in Nat /\ n \in 1 .. run.blocks /\ n \notin DOMAIN outcome
         /\ run.at = "idle" /\ run.open = "none"
         /\ n \in run.running => NameKnown(mapper, n) = TRUE
<1>1. RunTyped /\ RunSound /\ run.message \in Seq(Blocks) /\ run \in RunRecords
      /\ run.running \subseteq mapper.starts
  BY DEF Sound, RunTyped, RunRecords
<1>2. n \in CallsIn(run.message) /\ n \notin DOMAIN outcome /\ run.at = "idle" /\ run.open = "none"
  BY <1>1 DEF RunSound
<1>3. PICK k \in 1 .. Len(run.message) : run.message[k].n = n
  BY <1>1, <1>2, CallsInIs
<1>4. n \in 1 .. run.blocks
  <2>1. k \in DOMAIN run.message
    BY <1>1
  <2> QED BY <1>1, <1>3, <2>1 DEF RunSound
<1>5. n \in run.running => NameKnown(mapper, n) = TRUE
  BY <1>1, NameKnownIs
<1> QED BY <1>1, <1>2, <1>4, <1>5 DEF RunRecords

LEMMA ToolStartsKeeps ==
  ASSUME Sound, NEW n, ToolStarts(n)
  PROVE  /\ Sound' /\ run'.at # "over"
         /\ Calm /\ ~upset => Calm'
<1> DEFINE part == ToolPart(n, TRUE, "running")
           c == Closed(mapper)
           x == [c EXCEPT !.starts = mapper.starts \union {n}, !.tools = Upserted(@, part)]
           frame == ToolFrame(part)
           mid == Shown(bubble, Closing(mapper))
<1>1. RunTyped /\ RunSound /\ MapperSound(mapper) /\ run \in RunRecords /\ mapper.starts \subseteq Nat
  BY DEF Sound, RunTyped, MapperSound, MapperTyped
<1>2. n \in Nat /\ run.at = "idle" /\ run.open = "none" /\ n \notin DOMAIN outcome
  BY ToolRuns DEF ToolStarts
<1>3. /\ run' = [run EXCEPT !.running = @ \union {n}] /\ n \in run.calls
      /\ said' = said /\ spoken' = spoken /\ echoed' = echoed /\ thought' = thought /\ outcome' = outcome /\ upset' = upset
  BY DEF ToolStarts
<1>4. /\ MapperSound(c) /\ c.active = Nothing
      /\ c.reasoning = mapper.reasoning /\ c.indexOf = mapper.indexOf
      /\ c.text = mapper.text /\ c.claimed = mapper.claimed
      /\ c.message = mapper.message /\ c.tools = mapper.tools /\ c.starts = mapper.starts
      /\ c.failed = mapper.failed
  BY <1>1, ClosedIs
<1>5. mapper' = x /\ bubble' = Shown(bubble, Append(Closing(mapper), frame))
  BY <1>4 DEF ToolStarts, Says
<1>6. part \in CallParts /\ part.n = n
  BY <1>2, ToolMade
<1> HIDE DEF part, c
<1>7. /\ MapperSound(x) /\ x.active = c.active /\ x.starts = mapper.starts \union {n}
      /\ x.reasoning = c.reasoning /\ x.indexOf = c.indexOf /\ x.claimed = c.claimed
      /\ x.message = c.message /\ x.text = c.text /\ x.failed = c.failed
      /\ \A p \in Range(c.tools) : p.n # part.n => p \in Range(x.tools)
  <2> DEFINE S == mapper.starts \union {n}
  <2>1. S \subseteq Nat
    BY <1>1, <1>2
  <2>2. x = NotedMapper(c, S, part)
    BY DEF NotedMapper
  <2> HIDE DEF x, S
  <2>3. Noted(c, S, part, NotedMapper(c, S, part))
    BY <1>4, <1>6, <2>1, ToolNoted
  <2> QED BY <2>1, <2>2, <2>3 DEF S, Noted
<1> HIDE DEF x
<1>8. Closing(mapper) \in Seq(Frames) /\ frame \in Frames
  BY <1>1, <1>6, ClosingIs, FramesMade
<1> HIDE DEF frame
<1>9. BubbleSound'
  <2>1. Append(Closing(mapper), frame) \in Seq(Frames)
    BY <1>8
  <2> QED BY <1>5, <2>1, ShownSound DEF Sound, BubbleSound
<1>10. /\ run' \in RunRecords /\ run'.at = run.at /\ run'.message = run.message /\ run'.open = run.open
       /\ run'.streams = run.streams /\ run'.calls = run.calls /\ run'.blocks = run.blocks
       /\ run'.running = run.running \union {n}
  BY <1>1, <1>2, <1>3 DEF RunRecords
<1>11. RunTyped' /\ RunSound'
  BY <1>1, <1>3, <1>10 DEF RunTyped, RunSound
<1>12. Sound'
  <2>1. run'.running \subseteq mapper'.starts
    BY <1>5, <1>7, <1>10 DEF Sound
  <2> QED BY <1>5, <1>7, <1>9, <1>11, <2>1 DEF Sound
<1>13. ASSUME Calm PROVE Calm'
  <2>1. /\ mid \in Seq(Parts) /\ Keyed(mid, Kinds) /\ Told(mid) = Told(bubble)
        /\ SameOthers(bubble, mid)
    BY <1>13, ClosingCalm
  <2>2. bubble' = ToolShown(mid, part)
    <3>1. bubble' = Folded(mid, frame)
      BY <1>5, <1>8, ShownAppend
    <3>2. Folded(mid, frame) = ToolShown(mid, part)
      BY DEF Folded, frame, ToolFrame
    <3> QED BY <3>1, <3>2
  <2> HIDE DEF mid
  <2>3. /\ bubble' \in Seq(Parts) /\ Keyed(bubble', Kinds)
        /\ \A p : p.kind # "tool" => (p \in Range(bubble') <=> p \in Range(mid))
    BY <1>6, <2>1, <2>2, ToolShownIs
  <2>4. Told(bubble') = Told(mid)
    BY <2>1, <2>3, ToldLike
  <2>5. \A p : p.kind = "text" => (p \in Range(bubble') <=> p \in Range(bubble))
    BY <2>1, <2>3 DEF SameOthers
  <2>6. CallsKept'
    <3>1. SUFFICES ASSUME NEW k \in DOMAIN outcome
              PROVE ToolPart(k, TRUE, outcome[k]) \in Range(mapper'.tools)
      BY <1>3 DEF CallsKept
    <3>2. ToolPart(k, TRUE, outcome[k]) \in Range(mapper.tools)
      BY <1>13 DEF Calm, CallsKept
    <3>3. ToolPart(k, TRUE, outcome[k]).n = k /\ k # n
      BY <1>2 DEF ToolPart
    <3> QED BY <1>4, <1>5, <1>6, <1>7, <3>2, <3>3
  <2> QED BY <1>2, <1>3, <1>4, <1>5, <1>7, <1>10, <1>13, <2>1, <2>3, <2>4, <2>5, <2>6, ToolCalm
<1> QED BY <1>2, <1>10, <1>12, <1>13

LEMMA ToolReportsKeeps ==
  ASSUME Sound, NEW n, ToolReports(n)
  PROVE  /\ Sound' /\ run'.at # "over"
         /\ Calm /\ ~upset => Calm'
<1> DEFINE part == ToolPart(n, TRUE, "running")
           x == [mapper EXCEPT !.tools = Upserted(@, part)]
           frame == ToolFrame(part)
<1>1. RunTyped /\ RunSound /\ MapperSound(mapper) /\ mapper.starts \subseteq Nat
      /\ MapperRecord(mapper)
  BY DEF Sound, RunTyped, MapperSound, MapperTyped
<1>2. /\ n \in Nat /\ run.at = "idle" /\ run.open = "none" /\ n \notin DOMAIN outcome
      /\ NameKnown(mapper, n) = TRUE
  <2>1. n \in run.calls /\ n \in run.running
    BY <1>1 DEF ToolReports, RunSound
  <2> QED BY <2>1, ToolRuns
<1>3. /\ run' = run /\ said' = said /\ spoken' = spoken /\ echoed' = echoed /\ thought' = thought /\ outcome' = outcome /\ upset' = upset
  BY DEF ToolReports
<1>4. mapper' = x /\ bubble' = Shown(bubble, <<frame>>)
  BY <1>2 DEF ToolReports, Says
<1>5. part \in CallParts /\ part.n = n
  BY <1>2, ToolMade
<1> HIDE DEF part
<1>6. /\ MapperSound(x) /\ x.active = mapper.active /\ x.starts = mapper.starts
      /\ x.reasoning = mapper.reasoning /\ x.indexOf = mapper.indexOf /\ x.claimed = mapper.claimed
      /\ x.message = mapper.message /\ x.text = mapper.text /\ x.failed = mapper.failed
      /\ \A p \in Range(mapper.tools) : p.n # part.n => p \in Range(x.tools)
  <2> DEFINE S == mapper.starts
             t == Upserted(mapper.tools, part)
  <2>1. x = NotedMapper(mapper, S, part)
    <3>1. x = [mapper EXCEPT !.tools = t]
      OBVIOUS
    <3>2. NotedMapper(mapper, S, part) = [mapper EXCEPT !.starts = mapper.starts, !.tools = t]
      BY DEF NotedMapper
    <3> HIDE DEF x, t, S
    <3>3. [mapper EXCEPT !.starts = mapper.starts, !.tools = t] = [mapper EXCEPT !.tools = t]
      BY <1>1 DEF MapperRecord, MapperFields
    <3> QED BY <3>1, <3>2, <3>3
  <2>2. S \subseteq Nat
    BY <1>1
  <2> HIDE DEF x, S
  <2>3. Noted(mapper, S, part, NotedMapper(mapper, S, part))
    BY <1>1, <1>5, <2>1, <2>2, ToolNoted
  <2> QED BY <2>1, <2>2, <2>3 DEF S, Noted
<1> HIDE DEF x
<1>7. frame \in Frames
  BY <1>5, FramesMade
<1>8. bubble' = ToolShown(bubble, part)
  <2>1. bubble' = Folded(bubble, frame)
    BY <1>4, ShownOne
  <2>2. Folded(bubble, frame) = ToolShown(bubble, part)
    BY DEF Folded, ToolFrame
  <2> QED BY <2>1, <2>2
<1>9. BubbleSound'
  BY <1>5, <1>8, ToolShownIs DEF Sound, BubbleSound
<1>10. Sound'
  BY <1>3, <1>4, <1>6, <1>9 DEF Sound, RunTyped, RunSound, HasNext, Last0
<1>11. ASSUME Calm PROVE Calm'
  <2>1. bubble \in Seq(Parts) /\ Keyed(bubble, Kinds)
    BY <1>11 DEF Sound, BubbleSound, Calm
  <2>2. /\ bubble' \in Seq(Parts) /\ Keyed(bubble', Kinds)
        /\ \A p : p.kind # "tool" => (p \in Range(bubble') <=> p \in Range(bubble))
    BY <1>5, <1>8, <2>1, ToolShownIs
  <2>3. Told(bubble') = Told(bubble) /\ Live(bubble') = Live(bubble)
    BY <2>1, <2>2, ToldLike
  <2>4. CallsKept'
    <3>1. SUFFICES ASSUME NEW k \in DOMAIN outcome
              PROVE ToolPart(k, TRUE, outcome[k]) \in Range(mapper'.tools)
      BY <1>3 DEF CallsKept
    <3>2. ToolPart(k, TRUE, outcome[k]) \in Range(mapper.tools)
      BY <1>11 DEF Calm, CallsKept
    <3>3. ToolPart(k, TRUE, outcome[k]).n = k /\ k # n
      BY <1>2 DEF ToolPart
    <3> QED BY <1>4, <1>5, <1>6, <3>2, <3>3
  <2> QED BY <1>2, <1>3, <1>4, <1>6, <1>11, <2>2, <2>3, <2>4, ToolCalm
<1> QED BY <1>2, <1>3, <1>10, <1>11

LEMMA ToolEndsKeeps ==
  ASSUME Sound, NEW n, NEW state \in {"available", "error"}, ToolEnds(n, state)
  PROVE  /\ Sound' /\ run'.at # "over"
         /\ Calm /\ ~upset => Calm'
<1> DEFINE part == ToolPart(n, TRUE, state)
           x == [mapper EXCEPT !.starts = @ \ {n}, !.tools = Upserted(@, part)]
           frame == ToolFrame(part)
<1>1. RunTyped /\ RunSound /\ MapperSound(mapper) /\ mapper.starts \subseteq Nat
      /\ run \in RunRecords
  BY DEF Sound, RunTyped, MapperSound, MapperTyped
<1>2. /\ n \in Nat /\ run.at = "idle" /\ run.open = "none" /\ n \notin DOMAIN outcome
      /\ NameKnown(mapper, n) = TRUE /\ n \in 1 .. run.blocks
  <2>1. n \in run.calls /\ n \in run.running
    BY <1>1 DEF ToolEnds, RunSound
  <2> QED BY <2>1, ToolRuns
<1>3. /\ run' = [run EXCEPT !.running = @ \ {n}, !.calls = @ \ {n}]
      /\ said' = said /\ spoken' = spoken /\ echoed' = echoed /\ thought' = thought /\ upset' = upset
      /\ outcome' = With(outcome, n, state)
  BY DEF ToolEnds
<1>4. mapper' = x /\ bubble' = Shown(bubble, <<frame>>)
  BY <1>2 DEF ToolEnds, Says
<1>5. part \in CallParts /\ part.n = n
  <2>1. state \in {"running", "available", "error"}
    OBVIOUS
  <2> QED BY <1>2, <2>1, ToolMade
<1>6. part = ToolPart(n, TRUE, state)
  OBVIOUS
<1> HIDE DEF part
<1>7. /\ MapperSound(x) /\ x.active = mapper.active /\ x.starts = mapper.starts \ {n}
      /\ x.reasoning = mapper.reasoning /\ x.indexOf = mapper.indexOf /\ x.claimed = mapper.claimed
      /\ x.message = mapper.message /\ x.text = mapper.text /\ x.failed = mapper.failed
      /\ part \in Range(x.tools)
      /\ \A p \in Range(mapper.tools) : p.n # part.n => p \in Range(x.tools)
  <2> DEFINE S == mapper.starts \ {n}
  <2>1. S \subseteq Nat
    BY <1>1
  <2>2. x = NotedMapper(mapper, S, part)
    BY DEF NotedMapper
  <2> HIDE DEF x, S
  <2>3. Noted(mapper, S, part, NotedMapper(mapper, S, part))
    BY <1>1, <1>5, <2>1, ToolNoted
  <2> QED BY <2>2, <2>3 DEF S, Noted
<1> HIDE DEF x
<1>8. bubble' = ToolShown(bubble, part)
  <2>1. bubble' = Folded(bubble, frame)
    BY <1>4, ShownOne
  <2>2. Folded(bubble, frame) = ToolShown(bubble, part)
    BY DEF Folded, ToolFrame
  <2> QED BY <2>1, <2>2
<1>9. BubbleSound'
  BY <1>5, <1>8, ToolShownIs DEF Sound, BubbleSound
<1>10. /\ run' \in RunRecords /\ run'.at = run.at /\ run'.message = run.message /\ run'.open = run.open
       /\ run'.streams = run.streams /\ run'.calls = run.calls \ {n} /\ run'.blocks = run.blocks
       /\ run'.running = run.running \ {n}
  BY <1>1, <1>2, <1>3 DEF RunRecords
<1>11. WithAt({"available", "error"}, outcome, n, state)
  BY <1>1, <1>2, WithHas DEF RunTyped
<1>12. RunTyped'
  <2>1. Indexed(outcome', {"available", "error"}) /\ DOMAIN outcome' \subseteq 1 .. run.blocks
    BY <1>1, <1>2, <1>3, <1>11 DEF WithAt, RunTyped
  <2> QED BY <1>1, <1>3, <1>10, <2>1 DEF RunTyped
<1>13. RunSound'
  <2>1. run'.calls \intersect DOMAIN outcome' = {}
    BY <1>1, <1>3, <1>10, <1>11 DEF WithAt, RunSound
  <2> QED BY <1>1, <1>2, <1>3, <1>10, <2>1 DEF RunSound
<1>14. Sound'
  <2>1. run'.running \subseteq mapper'.starts
    BY <1>4, <1>7, <1>10 DEF Sound
  <2> QED BY <1>4, <1>7, <1>9, <1>12, <1>13, <2>1 DEF Sound
<1>15. ASSUME Calm PROVE Calm'
  <2>1. bubble \in Seq(Parts) /\ Keyed(bubble, Kinds)
    BY <1>15 DEF Sound, BubbleSound, Calm
  <2>2. /\ bubble' \in Seq(Parts) /\ Keyed(bubble', Kinds)
        /\ \A p : p.kind # "tool" => (p \in Range(bubble') <=> p \in Range(bubble))
    BY <1>5, <1>8, <2>1, ToolShownIs
  <2>3. Told(bubble') = Told(bubble) /\ Live(bubble') = Live(bubble)
    BY <2>1, <2>2, ToldLike
  <2>4. CallsKept'
    <3>1. SUFFICES ASSUME NEW k \in DOMAIN outcome'
                   PROVE  ToolPart(k, TRUE, outcome'[k]) \in Range(mapper'.tools)
      BY DEF CallsKept
    <3>2. CASE k = n
      <4>1. outcome'[k] = state
        BY <1>3, <1>11, <3>2 DEF WithAt
      <4> QED BY <1>4, <1>6, <1>7, <3>2, <4>1
    <3>3. CASE k # n
      <4>1. k \in DOMAIN outcome /\ outcome'[k] = outcome[k]
        BY <1>3, <1>11, <3>1, <3>3 DEF WithAt
      <4>2. ToolPart(k, TRUE, outcome[k]) \in Range(mapper.tools)
        BY <1>15, <4>1 DEF Calm, CallsKept
      <4>3. ToolPart(k, TRUE, outcome[k]).n = k
        BY DEF ToolPart
      <4> QED BY <1>4, <1>5, <1>7, <3>3, <4>1, <4>2, <4>3
    <3> QED BY <3>2, <3>3
  <2> QED BY <1>2, <1>3, <1>4, <1>7, <1>10, <1>15, <2>2, <2>3, <2>4, ToolCalm
<1> QED BY <1>2, <1>10, <1>14, <1>15

------------------------------------------------------------------------------
(* The run ends                                                            *)

LEMMA StartsSet ==
  ASSUME NEW m, MapperSound(m), NEW S, S \subseteq Nat
  PROVE  MapperSound([m EXCEPT !.starts = S]) /\ [m EXCEPT !.starts = S].starts = S
<1> DEFINE x == [m EXCEPT !.starts = S]
<1>1. MapperTyped(m) /\ MapperRecord(m)
  BY DEF MapperSound, MapperTyped
<1>2. /\ MapperRecord(x) /\ x.text = m.text /\ x.reasoning = m.reasoning /\ x.active = m.active
      /\ x.indexOf = m.indexOf /\ x.claimed = m.claimed
      /\ x.message = m.message /\ x.tools = m.tools /\ x.starts = S
      /\ x.failed = m.failed /\ x.next = m.next
  BY <1>1 DEF MapperRecord, MapperFields
<1> HIDE DEF x
<1>3. MapperTyped(x)
  BY <1>1, <1>2 DEF MapperTyped
<1>4. MapperSound(x)
  BY <1>2, <1>3 DEF MapperSound
<1> QED BY <1>2, <1>4 DEF x

(* The part that is the only one of its kind or call.                      *)
LEMMA OnlyPart ==
  ASSUME NEW parts \in Seq(Parts), Keyed(parts, Kinds), NEW p \in Range(parts), p.kind \in Kinds,
         NEW S, S \subseteq DOMAIN parts, \A i \in DOMAIN parts : i \in S <=> parts[i] = p
  PROVE  \E i \in DOMAIN parts : S = {i} /\ parts[i] = p
<1>1. PICK i \in 1 .. Len(parts) : parts[i] = p
  BY RangeIs
<1>2. DOMAIN parts = 1 .. Len(parts)
  OBVIOUS
<1>3. ASSUME NEW j \in DOMAIN parts, parts[j] = p PROVE j = i
  <2>1. SameThing(parts[i], parts[j])
    BY <1>1, <1>3, SameThingIs
  <2> QED BY <1>1, <1>2, <1>3, <2>1 DEF Keyed
<1>4. S = {i}
  BY <1>1, <1>2, <1>3
<1> QED BY <1>1, <1>2, <1>4

(* What is known of a calm run when its last message has ended, also if    *)
(* the end of the run repeats that message.                                *)
Ending(m) ==
  /\ Sound /\ Calm /\ run.at = "idle"
  /\ MapperSound(m) /\ m.text = mapper.text /\ m.message = run.message
  /\ m.reasoning = mapper.reasoning /\ m.indexOf = mapper.indexOf
  /\ \A p \in Range(mapper.tools) : p.state \in {"available", "error"} => p \in Range(m.tools)

LastBubble(m) == Merged(SummaryShown(bubble), DoneParts(m))

LEMMA LastBubbleIs ==
  ASSUME NEW m, Ending(m)
  PROVE  /\ LastBubble(m) \in Seq(Parts) /\ Keyed(LastBubble(m), Kinds)
         /\ Range(DoneParts(m)) \subseteq Range(LastBubble(m))
         /\ \A p \in Range(LastBubble(m)) : p \in Range(DoneParts(m)) \/
              \E q \in Range(bubble) \union {SummaryPart} : p = Completed(q) /\ q # TextPart(<<>>)
         /\ \A q \in Range(bubble) : q.kind \in Kinds /\ q # TextPart(<<>>) =>
              \/ Completed(q) \in Range(LastBubble(m))
              \/ \E f \in Range(DoneParts(m)) : SameThing(q, f)
<1> DEFINE s == SummaryShown(bubble)
           final == DoneParts(m)
<1>1. bubble \in Seq(Parts) /\ Keyed(bubble, Kinds)
  BY DEF Ending, Sound, BubbleSound, Calm
<1>2. s \in Seq(Parts) /\ Keyed(s, Kinds) /\ Range(s) = Range(bubble) \union {SummaryPart}
  BY <1>1, SummaryShownIs
<1>3. final \in Seq(Parts) /\ Keyed(final, Kinds)
  BY DonePartsAre DEF Ending
<1> HIDE DEF s, final
<1> DEFINE b == Merged(s, final)
<1>4. /\ b \in Seq(Parts) /\ Keyed(b, Kinds) /\ Range(final) \subseteq Range(b)
      /\ \A p \in Range(b) : p \in Range(final) \/
           \E q \in Range(s) : /\ p = Completed(q) /\ q # TextPart(<<>>)
                               /\ q.kind \in Kinds => \A f \in Range(final) : ~SameThing(q, f)
      /\ \A q \in Range(s) : q.kind \in Kinds /\ q # TextPart(<<>>) =>
           Completed(q) \in Range(b) \/ \E f \in Range(final) : SameThing(q, f)
  BY <1>2, <1>3, MergedIs
<1>5. LastBubble(m) = b
  BY DEF LastBubble, s, final
<1> HIDE DEF b
<1>6. \A p \in Range(b) : p \in Range(final) \/
        \E q \in Range(bubble) \union {SummaryPart} : p = Completed(q) /\ q # TextPart(<<>>)
  BY <1>2, <1>4
<1>7. \A q \in Range(bubble) : q.kind \in Kinds /\ q # TextPart(<<>>) =>
        Completed(q) \in Range(b) \/ \E f \in Range(final) : SameThing(q, f)
  BY <1>2, <1>4
<1> QED BY <1>4, <1>5, <1>6, <1>7 DEF final

LEMMA LastTexts ==
  ASSUME NEW m, Ending(m)
  PROVE  IF said = <<>> THEN \A p \in Range(LastBubble(m)) : p.kind # "text"
         ELSE /\ TextPart(mapper.text) \in Range(LastBubble(m))
              /\ \A p \in Range(LastBubble(m)) : p.kind = "text" => p = TextPart(mapper.text)
<1> DEFINE b == LastBubble(m)
           final == DoneParts(m)
<1>1. /\ b \in Seq(Parts) /\ Keyed(b, Kinds) /\ Range(final) \subseteq Range(b)
      /\ \A p \in Range(b) : p \in Range(final) \/
           \E q \in Range(bubble) \union {SummaryPart} : p = Completed(q) /\ q # TextPart(<<>>)
  BY LastBubbleIs
<1>2. /\ final \in Seq(Parts) /\ \A p \in Range(final) : Fits(m, p)
      /\ m.text # <<>> => TextPart(m.text) \in Range(final)
  BY DonePartsAre DEF Ending
<1>3. m.text = mapper.text /\ m.message = run.message /\ m.message \in Seq(Blocks)
      /\ m.text \in Seq(Nat) /\ bubble \in Seq(Parts) /\ (m.text = <<>> <=> said = <<>>)
      /\ said \in Seq(Nat)
  BY SaidIs DEF Ending, MapperSound, MapperTyped, Sound, BubbleSound, Calm, TextKept, Tells
<1> HIDE DEF b, final
<1>4. ASSUME said = <<>>, NEW p \in Range(b), p.kind = "text" PROVE FALSE
  <2>1. CASE p \in Range(final)
    <3>1. At(run.message, "text") # {}
      BY <1>2, <1>3, <1>4, <2>1 DEF Fits
    <3>2. Texts(run.message) \in Seq(Nat)
            /\ Len(Texts(run.message)) = Cardinality(At(run.message, "text"))
          /\ IsFiniteSet(At(run.message, "text"))
      BY <1>3, TextsIs
    <3>3. IsSuffix(Texts(run.message), said)
      BY DEF Ending, Calm, TextKept
    <3>4. Len(Texts(run.message)) <= Len(said) /\ said \in Seq(Nat)
      BY <1>3, <3>2, <3>3, SuffixIs
    <3>5. Cardinality(At(run.message, "text")) = 0
      BY <1>4, <3>2, <3>4
    <3> QED BY <3>1, <3>2, <3>5, FS_EmptySet
  <2>2. ASSUME NEW q \in Range(bubble) \union {SummaryPart}, p = Completed(q), q # TextPart(<<>>)
        PROVE  FALSE
    <3>1. q \in Parts
      BY <1>3, PartsIn, PartsMade
    <3>2. q.kind = "text"
      BY <1>4, <2>2, <3>1, CompletedIs
    <3>3. q \in TextParts /\ q # SummaryPart
      BY <3>1, <3>2, PartsByKind DEF SummaryPart
    <3>4. q.text = <<>>
      BY <1>4, <3>2, <3>3 DEF Ending, Calm
    <3>5. q = TextPart(q.text)
      BY <3>3 DEF TextParts, TextPart
    <3> QED BY <2>2, <3>4, <3>5
  <2> QED BY <1>1, <2>1, <2>2
<1>5. ASSUME said # <<>>
      PROVE  /\ TextPart(mapper.text) \in Range(b)
             /\ \A p \in Range(b) : p.kind = "text" => p = TextPart(mapper.text)
  <2> DEFINE t == TextPart(mapper.text)
  <2>1. t \in Range(b)
    BY <1>1, <1>2, <1>3, <1>5
  <2>2. t.kind = "text"
    BY DEF TextPart
  <2> HIDE DEF t
  <2>3. ASSUME NEW p \in Range(b), p.kind = "text" PROVE p = t
    <3>1. SameThing(p, t) /\ p.kind \in Kinds
      BY <2>2, <2>3 DEF SameThing, Kinds
    <3> QED BY <1>1, <2>1, <2>3, <3>1, KeyedMember
  <2> QED BY <2>1, <2>3 DEF t
<1> QED BY <1>4, <1>5 DEF b

(* Every thought part is an episode that was told.                         *)
LEMMA LastTold ==
  ASSUME NEW m, Ending(m), thought # {}, NEW p \in Range(LastBubble(m)), p.kind = "reasoning"
  PROVE  p.state = "complete" /\ <<p.index, p.text>> \in Told(bubble)
<1> DEFINE b == LastBubble(m)
           final == DoneParts(m)
<1>1. \/ p \in Range(final)
      \/ \E q \in Range(bubble) \union {SummaryPart} : p = Completed(q) /\ q # TextPart(<<>>)
  BY LastBubbleIs
<1>2. \A f \in Range(final) : Fits(m, f)
  BY DonePartsAre DEF Ending
<1>3. bubble \in Seq(Parts) /\ MapperSound(m) /\ m.message = run.message
      /\ m.reasoning = mapper.reasoning /\ m.indexOf = mapper.indexOf
  BY DEF Ending, Sound, BubbleSound
<1>4. AllKnown(m)
  <2>1. run.streams
    BY DEF Ending, Sound, RunSound
  <2> QED BY <1>3, <2>1 DEF Ending, Calm, MessageThoughts, AllKnown
<1>5. CASE p \in Range(final)
  <2>1. p.state = "complete" /\ p.index \in DOMAIN m.reasoning /\ p.text = m.reasoning[p.index]
    BY <1>2, <1>4, <1>5 DEF Fits
  <2>2. \A i \in DOMAIN mapper.reasoning : <<i, mapper.reasoning[i]>> \in Told(bubble)
    BY DEF Ending, Calm, ThoughtsShown
  <2> QED BY <1>3, <2>1, <2>2
<1>6. ASSUME NEW q \in Range(bubble) \union {SummaryPart}, p = Completed(q)
      PROVE  p.state = "complete" /\ <<p.index, p.text>> \in Told(bubble)
  <2>1. q \in Parts
    BY <1>3, PartsIn, PartsMade
  <2>2. q.kind = "reasoning"
    BY <1>6, <2>1, CompletedIs
  <2>3. p.state = "complete" /\ p.text = q.text /\ p.index = q.index
    BY <1>6, <2>1, <2>2, CompletedIs
  <2>4. q \in Range(bubble)
    BY <2>2 DEF SummaryPart
  <2>5. <<q.index, q.text>> \in Told(bubble)
    BY <2>2, <2>4 DEF Told, Thinking
  <2> QED BY <2>3, <2>5
<1> QED BY <1>1, <1>5, <1>6

LEMMA LastThoughts ==
  ASSUME NEW m, Ending(m), NEW n \in thought
  PROVE  \E p \in Range(LastBubble(m)) :
           /\ p.kind = "reasoning" /\ p.state = "complete" /\ p.text = <<n>>
           /\ \A q \in Range(LastBubble(m)) : q.kind = "reasoning" /\ q.text = <<n>> => q = p
<1> DEFINE b == LastBubble(m)
           final == DoneParts(m)
           t == <<n>>
<1>1. /\ b \in Seq(Parts) /\ Keyed(b, Kinds) /\ Range(final) \subseteq Range(b)
      /\ \A q \in Range(bubble) : q.kind \in Kinds /\ q # TextPart(<<>>) =>
           Completed(q) \in Range(b) \/ \E f \in Range(final) : SameThing(q, f)
  BY LastBubbleIs
<1>2. \A p \in Range(b) : p.kind = "reasoning" =>
        p.state = "complete" /\ <<p.index, p.text>> \in Told(bubble)
  BY LastTold
<1>3. bubble \in Seq(Parts) /\ Keyed(bubble, Kinds) /\ ThoughtsShown
  BY DEF Ending, Sound, BubbleSound, Calm
<1>4. t # <<>>
  OBVIOUS
<1>5. PICK e \in Told(bubble) : e[2] = t
  BY <1>3 DEF ThoughtsShown
<1> HIDE DEF b, final, t
<1>6. PICK q \in Range(bubble) : q.kind = "reasoning" /\ e = <<q.index, q.text>>
  BY DEF Told, Thinking
<1>7. q.text = t
  BY <1>5, <1>6
<1>8. q \in Parts /\ q # TextPart(<<>>)
  BY <1>3, <1>6, PartsIn DEF TextPart
<1>9. \E p \in Range(b) : p.kind = "reasoning" /\ p.text = t
  <2>1. CASE Completed(q) \in Range(b)
    BY <1>6, <1>7, <1>8, <2>1, CompletedIs
  <2>2. ASSUME NEW f \in Range(final), SameThing(q, f)
        PROVE  f \in Range(b) /\ f.kind = "reasoning" /\ f.text = t
    <3>1. f.kind = "reasoning" /\ f.index = q.index
      BY <1>6, <2>2 DEF SameThing
    <3>2. f \in Range(b)
      BY <1>1, <2>2
    <3>3. <<f.index, f.text>> \in Told(bubble) /\ <<f.index, t>> \in Told(bubble)
      BY <1>2, <1>6, <1>7, <3>1, <3>2
    <3>4. "reasoning" \in Kinds
      BY DEF Kinds
    <3>5. f.text = t
      BY <1>3, <3>3, <3>4, ToldOnce
    <3> QED BY <3>1, <3>2, <3>5
  <2>3. q.kind \in Kinds
    BY <1>6 DEF Kinds
  <2> QED BY <1>1, <1>8, <2>1, <2>2, <2>3
<1>10. PICK p \in Range(b) : p.kind = "reasoning" /\ p.text = t
  BY <1>9
<1>11. ASSUME NEW r \in Range(b), r.kind = "reasoning", r.text = t PROVE r = p
  <2>1. <<r.index, t>> \in Told(bubble) /\ <<p.index, t>> \in Told(bubble)
    BY <1>2, <1>10, <1>11
  <2>2. r.index = p.index
    <3> DEFINE d == <<r.index, t>>
               g == <<p.index, t>>
    <3>1. d[2] = t /\ g[2] = t /\ d[1] = r.index /\ g[1] = p.index
      OBVIOUS
    <3> HIDE DEF d, g
    <3>2. d \in Told(bubble) /\ g \in Told(bubble)
      BY <2>1 DEF d, g
    <3>3. \A x, y \in Told(bubble) : x[2] = y[2] /\ x[2] # <<>> => x[1] = y[1]
      BY <1>3 DEF ThoughtsShown
    <3> QED BY <1>4, <3>1, <3>2, <3>3
  <2>3. SameThing(r, p) /\ r.kind \in Kinds
    BY <1>10, <1>11, <2>2 DEF SameThing, Kinds
  <2> QED BY <1>1, <1>10, <1>11, <2>3, KeyedMember
<1> QED BY <1>2, <1>10, <1>11 DEF b, t

LEMMA LastCalls ==
  ASSUME NEW m, Ending(m), NEW n \in DOMAIN outcome
  PROVE  /\ ToolPart(n, TRUE, outcome[n]) \in Range(LastBubble(m))
         /\ \A q \in Range(LastBubble(m)) :
              q.kind = "tool" /\ q.n = n => q = ToolPart(n, TRUE, outcome[n])
<1> DEFINE b == LastBubble(m)
           p == ToolPart(n, TRUE, outcome[n])
<1>1. b \in Seq(Parts) /\ Keyed(b, Kinds) /\ Range(DoneParts(m)) \subseteq Range(b)
  BY LastBubbleIs
<1>2. Range(m.tools) \subseteq Range(DoneParts(m))
  BY DonePartsAre DEF Ending
<1>3. p \in Range(mapper.tools)
  BY DEF Ending, Calm, CallsKept
<1>4. outcome[n] \in {"available", "error"}
  BY DEF Ending, Sound, RunTyped, Indexed
<1>5. p.state = outcome[n] /\ p.kind = "tool" /\ p.n = n
  BY DEF ToolPart
<1> HIDE DEF b, p
<1>6. p \in Range(b)
  BY <1>1, <1>2, <1>3, <1>4, <1>5 DEF Ending
<1>7. ASSUME NEW q \in Range(b), q.kind = "tool", q.n = n PROVE q = p
  <2>1. SameThing(q, p) /\ q.kind \in Kinds
    BY <1>5, <1>7 DEF SameThing, Kinds
  <2> QED BY <1>1, <1>6, <1>7, <2>1, KeyedMember
<1> QED BY <1>6, <1>7 DEF b, p

LEMMA LastShows ==
  ASSUME NEW m, Ending(m), bubble' = LastBubble(m),
         said' = said /\ spoken' = spoken /\ echoed' = echoed, thought' = thought, outcome' = outcome
  PROVE  /\ TextsTold'
         /\ \A n \in thought' : \E i \in DOMAIN bubble' :
              Thoughts(n)' = {i} /\ bubble'[i].state = "complete"
         /\ \A n \in DOMAIN outcome' : Only(Calls(n), ToolPart(n, TRUE, outcome[n]))'
<1> DEFINE b == LastBubble(m)
<1>1. b \in Seq(Parts) /\ Keyed(b, Kinds)
  BY LastBubbleIs
<1>2. \A i \in DOMAIN b : b[i] \in Range(b)
  BY <1>1, RangeIs
<1>3. IF said = <<>> THEN \A p \in Range(b) : p.kind # "text"
      ELSE /\ TextPart(mapper.text) \in Range(b)
           /\ \A p \in Range(b) : p.kind = "text" => p = TextPart(mapper.text)
  BY LastTexts
<1>4. \A n \in thought : \E p \in Range(b) :
        /\ p.kind = "reasoning" /\ p.state = "complete" /\ p.text = <<n>>
        /\ \A q \in Range(b) : q.kind = "reasoning" /\ q.text = <<n>> => q = p
  BY LastThoughts
<1>5. \A n \in DOMAIN outcome :
        /\ ToolPart(n, TRUE, outcome[n]) \in Range(b)
        /\ \A q \in Range(b) : q.kind = "tool" /\ q.n = n => q = ToolPart(n, TRUE, outcome[n])
  BY LastCalls
<1> HIDE DEF b
<1>6. bubble' = b
  BY DEF b
<1>7. said = <<>> => At(b, "text") = {}
  BY <1>2, <1>3 DEF At
<1>8. TextsTold'
  <2>1. CASE said = <<>>
    BY <1>6, <1>7, <2>1 DEF TextsTold
  <2>2. CASE said # <<>>
    <3> DEFINE p == TextPart(mapper.text)
    <3>1. p \in Range(b) /\ \A q \in Range(b) : q.kind = "text" => q = p
      BY <1>3, <2>2
    <3>2. p.kind = "text" /\ p.kind \in Kinds /\ p.text = mapper.text
      BY DEF TextPart, Kinds
    <3> HIDE DEF p
    <3>3. At(b, "text") \subseteq DOMAIN b /\ \A i \in DOMAIN b : i \in At(b, "text") <=> b[i] = p
      BY <1>2, <3>1, <3>2 DEF At
    <3>4. PICK i \in DOMAIN b : At(b, "text") = {i} /\ b[i] = p
      BY <1>1, <3>1, <3>2, <3>3, OnlyPart
    <3>5. /\ \A text \in spoken : Within(text, b[i].text)
          /\ ~echoed => b[i].text = said
      BY <3>2, <3>4 DEF Ending, Calm, TextKept, Tells
    <3> QED BY <1>6, <2>2, <3>4, <3>5 DEF TextsTold
  <2> QED BY <2>1, <2>2
<1>9. ASSUME NEW n \in thought
      PROVE  \E i \in DOMAIN bubble' : Thoughts(n)' = {i} /\ bubble'[i].state = "complete"
  <2> DEFINE S == {i \in At(b, "reasoning") : b[i].text = <<n>>}
  <2>1. PICK p \in Range(b) :
          /\ p.kind = "reasoning" /\ p.state = "complete" /\ p.text = <<n>>
          /\ \A q \in Range(b) : q.kind = "reasoning" /\ q.text = <<n>> => q = p
    BY <1>4
  <2>2. S \subseteq DOMAIN b /\ \A i \in DOMAIN b : i \in S <=> b[i] = p
    BY <1>2, <2>1 DEF At
  <2>3. p.kind \in Kinds
    BY <2>1 DEF Kinds
  <2>4. Thoughts(n)' = S
    BY <1>6 DEF Thoughts
  <2> HIDE DEF S
  <2>5. \E i \in DOMAIN b : S = {i} /\ b[i] = p
    BY <1>1, <2>1, <2>2, <2>3, OnlyPart
  <2> QED BY <1>6, <2>1, <2>4, <2>5
<1>10. ASSUME NEW n \in DOMAIN outcome PROVE Only(Calls(n), ToolPart(n, TRUE, outcome[n]))'
  <2> DEFINE S == {i \in At(b, "tool") : b[i].n = n}
             p == ToolPart(n, TRUE, outcome[n])
  <2>1. p \in Range(b) /\ \A q \in Range(b) : q.kind = "tool" /\ q.n = n => q = p
    BY <1>5
  <2>2. p.kind = "tool" /\ p.n = n /\ p.kind \in Kinds
    BY DEF ToolPart, Kinds
  <2> HIDE DEF p
  <2>3. S \subseteq DOMAIN b /\ \A i \in DOMAIN b : i \in S <=> b[i] = p
    BY <1>2, <2>1, <2>2 DEF At
  <2>4. Calls(n)' = S
    BY <1>6 DEF Calls
  <2> HIDE DEF S
  <2>5. \E i \in DOMAIN b : S = {i} /\ b[i] = p
    BY <1>1, <2>1, <2>2, <2>3, OnlyPart
  <2> QED BY <1>6, <2>4, <2>5 DEF Only, p
<1> QED BY <1>6, <1>7, <1>8, <1>9, <1>10

LEMMA RunEndsKeeps ==
  ASSUME Sound, NEW listed \in BOOLEAN, RunEnds(listed), ~upset => Calm
  PROVE  Sound' /\ run'.at = "over" /\ DoneShowsTheRun'
<1> DEFINE m == IF listed THEN Remembered(mapper, run.message, mapper.failed) ELSE mapper
           x == [m EXCEPT !.starts = {}]
           final == DoneParts(m)
           done == [type |-> "done", parts |-> final]
<1>1. /\ RunTyped /\ RunSound /\ MapperSound(mapper) /\ run \in RunRecords
      /\ run.message \in Seq(Blocks) /\ Rising(run.message) /\ mapper.failed \in BOOLEAN
      /\ bubble \in Seq(Parts) /\ Keyed(bubble, {"tool"}) /\ mapper.tools \in Seq(CallParts)
  BY DEF Sound, RunTyped, RunRecords, RunSound, MapperSound, MapperTyped, BubbleSound
<1>2. /\ run.at = "idle" /\ run.running = {} /\ run' = [run EXCEPT !.at = "over", !.calls = {}]
      /\ mapper' = x /\ bubble' = Shown(bubble, <<SummaryFrame, done>>)
      /\ said' = said /\ spoken' = spoken /\ echoed' = echoed /\ thought' = thought /\ outcome' = outcome /\ upset' = upset
  BY DEF RunEnds, Says
<1>3. /\ MapperSound(m)
      /\ m.reasoning = mapper.reasoning /\ m.indexOf = mapper.indexOf
      /\ \A p \in Range(mapper.tools) : p.state \in {"available", "error"} => p \in Range(m.tools)
      /\ Calm => m.text = mapper.text /\ m.message = run.message
  <2>1. CASE listed
    <3> DEFINE s == Remembered(mapper, run.message, mapper.failed)
    <3>1. /\ MapperSound(s) /\ s.message = run.message
          /\ s.text = FinalText(mapper.text, Texts(run.message))
          /\ s.reasoning = mapper.reasoning /\ s.indexOf = mapper.indexOf
          /\ \A p \in Range(mapper.tools) : p.state \in {"available", "error"} => p \in Range(s.tools)
      BY <1>1, RememberedIs
    <3>2. ASSUME Calm PROVE s.text = mapper.text
      <4>1. IsSuffix(Texts(run.message), mapper.text)
        BY <1>2, <3>2 DEF Calm, TextKept
      <4>2. mapper.text \in Seq(Nat) /\ Texts(run.message) \in Seq(Nat)
        BY <1>1, TextsIs DEF MapperSound, MapperTyped
      <4> HIDE DEF s
      <4> QED BY <3>1, <4>1, <4>2, FinalTextSaid
    <3>3. m = s
      BY <2>1
    <3> HIDE DEF s, m
    <3> QED BY <3>1, <3>2, <3>3
  <2>2. CASE ~listed
    <3>1. m = mapper
      BY <2>2
    <3> HIDE DEF m
    <3>2. Calm => mapper.message = run.message
      BY <1>2 DEF Calm, TextKept
    <3> QED BY <1>1, <3>1, <3>2
  <2> QED BY <2>1, <2>2
<1> HIDE DEF m
<1>4. MapperSound(x) /\ x.starts = {}
  BY <1>3, StartsSet
<1> HIDE DEF x
<1>5. final \in Seq(Parts) /\ Keyed(final, Kinds)
  BY <1>3, DonePartsAre
<1>6. bubble' = Merged(SummaryShown(bubble), final)
  <2>1. Folded(bubble, SummaryFrame) = SummaryShown(bubble)
    BY DEF Folded, SummaryFrame
  <2>2. Folded(SummaryShown(bubble), done) = Merged(SummaryShown(bubble), final)
    <3> HIDE DEF final
    <3> QED BY DEF Folded
  <2> HIDE DEF done
  <2>3. Shown(bubble, <<SummaryFrame, done>>) = Folded(Folded(bubble, SummaryFrame), done)
    <3> DEFINE start == SummaryFrame
    <3> HIDE DEF start
    <3>1. Shown(bubble, <<start, done>>) = Folded(Folded(bubble, start), done)
      BY ShownTwo
    <3> QED BY <3>1 DEF start
  <2> QED BY <1>2, <2>1, <2>2, <2>3
<1> HIDE DEF final
<1>7. BubbleSound'
  <2>1. {"tool"} \subseteq Kinds
    BY DEF Kinds
  <2>2. SummaryShown(bubble) \in Seq(Parts) /\ Keyed(SummaryShown(bubble), {"tool"})
    BY <1>1, <2>1, SummaryShownIs
  <2>3. Keyed(final, {"tool"})
    BY <1>5, <2>1, KeyedLess
  <2>4. Merged(SummaryShown(bubble), final) \in Seq(Parts)
        /\ Keyed(Merged(SummaryShown(bubble), final), {"tool"})
    BY <1>5, <2>1, <2>2, <2>3, MergedIs
  <2> QED BY <1>6, <2>4 DEF BubbleSound
<1>8. /\ run' \in RunRecords /\ run'.at = "over" /\ run'.message = run.message
      /\ run'.open = run.open /\ run'.streams = run.streams /\ run'.calls = {}
      /\ run'.blocks = run.blocks /\ run'.running = {}
  BY <1>1, <1>2 DEF RunRecords
<1>9. Sound'
  <2>1. RunTyped' /\ RunSound'
    BY <1>1, <1>2, <1>8 DEF RunTyped, RunSound
  <2> QED BY <1>2, <1>4, <1>7, <1>8, <2>1 DEF Sound
<1>10. DoneShowsTheRun'
  <2>1. ASSUME ~upset'
        PROVE  /\ TextsTold'
               /\ \A n \in thought' : \E i \in DOMAIN bubble' :
                    Thoughts(n)' = {i} /\ bubble'[i].state = "complete"
               /\ \A n \in DOMAIN outcome' : Only(Calls(n), ToolPart(n, TRUE, outcome[n]))'
    <3>1. Calm
      BY <1>2, <2>1
    <3>2. Ending(m)
      BY <1>2, <1>3, <3>1 DEF Ending
    <3>3. bubble' = LastBubble(m)
      BY <1>6 DEF LastBubble, final
    <3> QED BY <1>2, <3>2, <3>3, LastShows
  <2>2. \A i, j \in At(bubble', "tool") :
          bubble'[i].named /\ (bubble'[i].n = bubble'[j].n => i = j)
    BY <1>7, CallsNamed DEF BubbleSound
  <2> QED BY <2>1, <2>2 DEF DoneShowsTheRun
<1> QED BY <1>8, <1>9, <1>10

------------------------------------------------------------------------------
(* Resync, and where the run begins                                        *)

LEMMA ResetIs == MapperSound(Reset)
<1>1. /\ MapperRecord(Reset) /\ Reset.text = <<>> /\ Reset.reasoning = Nothing /\ Reset.claimed = {}
      /\ Reset.next = 0 /\ Reset.active = Nothing /\ Reset.indexOf = Nothing
      /\ Reset.message = <<>> /\ Reset.tools = <<>> /\ Reset.starts = {} /\ Reset.failed = FALSE
  BY DEF Reset, MapperRecord, MapperFields
<1>2. Indexed(Nothing, Seq(Nat)) /\ Indexed(Nothing, Nat) /\ DOMAIN Nothing = {}
  BY NothingIs
<1>3. MapperTyped(Reset)
  <2> DEFINE x == Reset
  <2>1. x.text \in Seq(Nat) /\ x.message \in Seq(Blocks) /\ x.tools \in Seq(CallParts)
    BY <1>1
  <2>2. x.claimed \subseteq Nat /\ IsFiniteSet(x.claimed) /\ x.next \in Nat
    BY <1>1, FS_EmptySet
  <2>3. x.starts \subseteq Nat /\ x.failed \in BOOLEAN
    BY <1>1
  <2>4. Indexed(x.reasoning, Seq(Nat)) /\ Indexed(x.active, Nat) /\ Indexed(x.indexOf, Nat)
    BY <1>1, <1>2
  <2>5. MapperRecord(x)
    BY <1>1
  <2> HIDE DEF x
  <2>6. MapperTyped(x)
    BY <2>1, <2>2, <2>3, <2>4, <2>5 DEF MapperTyped
  <2> QED BY <2>6 DEF x
<1>4. Keyed(Reset.tools, {"tool"}) /\ Rising(Reset.message)
  BY <1>1 DEF Keyed, Rising
<1> QED BY <1>1, <1>2, <1>3, <1>4 DEF MapperSound

LEMMA ResyncKeeps ==
  ASSUME Sound, Resync
  PROVE  Sound' /\ run'.at # "over" /\ upset'
<1> DEFINE x == [Reset EXCEPT !.starts = Seeded(run.message)]
<1>1. RunTyped /\ RunSound /\ run \in RunRecords /\ run.message \in Seq(Blocks) /\ BubbleSound
  BY DEF Sound, RunTyped, RunRecords
<1>2. /\ run' = [run EXCEPT !.resyncs = @ + 1] /\ run.at # "over"
      /\ mapper' = x /\ bubble' = Shown(bubble, <<>>) /\ upset' = TRUE
      /\ said' = said /\ spoken' = spoken /\ echoed' = echoed /\ thought' = thought /\ outcome' = outcome
  BY DEF Resync, Says
<1>3. bubble' = bubble
  BY <1>2, ShownNone
<1>4. Seeded(run.message) = CallsIn(run.message) /\ CallsIn(run.message) \subseteq Nat
  BY <1>1, CallsInIs DEF Seeded
<1>5. MapperSound(x) /\ x.starts = CallsIn(run.message)
  BY <1>4, ResetIs, StartsSet
<1> HIDE DEF x
<1>6. /\ run' \in RunRecords /\ run'.at = run.at /\ run'.message = run.message /\ run'.open = run.open
      /\ run'.streams = run.streams /\ run'.calls = run.calls /\ run'.blocks = run.blocks
      /\ run'.running = run.running
  BY <1>1, <1>2 DEF RunRecords
<1>7. RunTyped' /\ RunSound'
  BY <1>1, <1>2, <1>6 DEF RunTyped, RunSound
<1>8. run'.running \subseteq mapper'.starts
  BY <1>1, <1>2, <1>5, <1>6 DEF RunSound
<1>9. BubbleSound'
  BY <1>1, <1>3 DEF BubbleSound
<1> QED BY <1>2, <1>5, <1>6, <1>7, <1>8, <1>9 DEF Sound

LEMMA RunBegins ==
  ASSUME RunInit
  PROVE  RInv
<1>1. /\ run \in RunRecords /\ run.at = "idle" /\ run.message = <<>> /\ run.open = "none"
      /\ run.blocks = 0 /\ run.calls = {} /\ run.running = {}
  <2>1. MaxBlocks \in Nat
    BY RunTranscriptAssumption
  <2>2. /\ 0 \in 0 .. MaxBlocks /\ <<>> \in Seq(Blocks) /\ {} \in SUBSET Nat /\ 0 \in Nat
        /\ "idle" \in {"idle", "message", "over"} /\ "none" \in {"none", "started", "told"}
    BY <2>1
  <2>3. run \in [at : {"idle"}, streams : BOOLEAN, announces : BOOLEAN, message : {<<>>},
               open : {"none"}, blocks : {0}, calls : {{}}, running : {{}}, resyncs : {0}]
    BY DEF RunInit
  <2>4. /\ run.at = "idle" /\ run.message = <<>> /\ run.open = "none"
        /\ run.blocks = 0 /\ run.calls = {} /\ run.running = {} /\ run.resyncs = 0
        /\ run.streams \in BOOLEAN /\ run.announces \in BOOLEAN
    BY <2>3
  <2>5. run \in RunRecords
    BY <2>2, <2>3 DEF RunRecords
  <2> QED BY <2>4, <2>5
<1>2. mapper = Reset /\ bubble = <<SummaryPart, TextPart(<<>>)>>
      /\ said = <<>> /\ spoken = {} /\ echoed = FALSE
      /\ thought = {} /\ outcome = Nothing /\ upset = FALSE
  BY DEF RunInit
<1>3. /\ Reset.text = <<>> /\ Reset.message = <<>> /\ Reset.failed = FALSE /\ Reset.reasoning = Nothing
      /\ Reset.active = Nothing /\ Reset.indexOf = Nothing
  BY DEF Reset
<1>4. DOMAIN Nothing = {} /\ Indexed(Nothing, {"available", "error"})
  BY NothingIs
<1>5. RunTyped /\ RunSound
  <2>1. RunTyped
    <3>1. /\ <<>> \in Seq(Range(Word)) /\ {} \subseteq 1 .. run.blocks
          /\ {} \subseteq Seq(Nat) /\ FALSE \in BOOLEAN
      OBVIOUS
    <3> QED BY <1>1, <1>2, <1>4, <3>1 DEF RunTyped
  <2>2. Rising(run.message) /\ CallsIn(run.message) = {}
    BY <1>1 DEF Rising, CallsIn, At
  <2> QED BY <1>1, <1>2, <1>4, <2>1, <2>2 DEF RunSound
<1> DEFINE a == SummaryPart
           t == TextPart(<<>>)
<1>6. a \in Parts /\ t \in Parts /\ a.kind = "summary" /\ t.kind = "text" /\ t.text = <<>>
  <2>1. <<>> \in Seq(Nat)
    OBVIOUS
  <2> QED BY <2>1, PartsMade, TextMade, KindsOfParts
<1>7. bubble = <<a, t>>
  BY <1>2
<1> HIDE DEF a, t
<1>8. bubble \in Seq(Parts) /\ Len(bubble) = 2 /\ bubble[1] = a /\ bubble[2] = t
  BY <1>6, <1>7
<1>9. Range(bubble) = {a, t}
  <2>1. \A x : x \in Range(bubble) <=> \E i \in 1 .. 2 : bubble[i] = x
    BY <1>8, RangeIs
  <2> QED BY <1>8, <2>1
<1>10. Keyed(bubble, Kinds) /\ Keyed(bubble, {"tool"})
  <2>1. DOMAIN bubble = 1 .. 2
    BY <1>8
  <2>2. \A i, j \in DOMAIN bubble : bubble[i].kind \in Kinds /\ SameThing(bubble[i], bubble[j]) => i = j
    BY <1>6, <1>8, <2>1 DEF Kinds, SameThing
  <2>3. Keyed(bubble, Kinds)
    BY <2>2 DEF Keyed
  <2>4. {"tool"} \subseteq Kinds
    BY DEF Kinds
  <2> QED BY <2>3, <2>4, KeyedLess
<1>11. Sound
  BY <1>1, <1>2, <1>5, <1>8, <1>10, ResetIs DEF Sound, BubbleSound
<1>12. Calm
  <2>1. said = <<>> => \A p \in Range(bubble) : p.kind = "text" => p.text = <<>>
    BY <1>6, <1>9
  <2>2. Told(bubble) = {}
    BY <1>6, <1>9 DEF Told, Thinking
  <2>3. TextKept
    <3>1. IsSuffix(Texts(run.message), said) /\ IsSuffix(Texts(run.message), mapper.text)
      <4>1. Texts(run.message) = <<>> /\ said = <<>> /\ mapper.text = <<>>
        BY <1>1, <1>2, <1>3, TextsNone
      <4> DEFINE e == <<>>
      <4>2. e \in Seq(Nat) /\ Len(e) = 0
        OBVIOUS
      <4> HIDE DEF e
      <4>3. IsSuffix(e, e)
        <5>1. Len(e) <= Len(e) /\ \A i \in 1 .. Len(e) : e[i] = e[Len(e) - Len(e) + i]
          BY <4>2
        <5>2. IsSuffix(e, e) <=> /\ Len(e) <= Len(e)
                                 /\ \A i \in 1 .. Len(e) : e[i] = e[Len(e) - Len(e) + i]
          BY <4>2, SuffixIs
        <5> QED BY <5>1, <5>2
      <4> QED BY <4>1, <4>3 DEF e
    <3> QED BY <1>1, <1>2, <1>3, <3>1 DEF TextKept, Tells
  <2>4. CallsKept
    BY <1>2, <1>4 DEF CallsKept
  <2>5. ThoughtsShown
    BY <1>2, <1>3, <1>4, <2>2 DEF ThoughtsShown
  <2>6. EpisodesActive
    BY <1>2, <1>3, <1>4 DEF EpisodesActive
  <2>7. MessageThoughts
    <3>1. At(run.message, "thinking") = {}
      BY <1>1 DEF At
    <3> QED BY <1>1, <3>1 DEF MessageThoughts
  <2> QED BY <1>2, <1>3, <1>10, <2>1, <2>3, <2>4, <2>5, <2>6, <2>7 DEF Calm
<1>13. DoneShowsTheRun
  BY <1>1, <1>8, <1>10, CallsNamed DEF DoneShowsTheRun
<1> QED BY <1>11, <1>12, <1>13 DEF RInv

LEMMA Kept ==
  ASSUME Sound', run'.at # "over", ~upset' => Calm'
  PROVE  RInv'
<1>1. BubbleSound'
  BY DEF Sound
<1> QED BY <1>1, NotOver DEF RInv

LEMMA RunContinues ==
  ASSUME RInv, RunNext
  PROVE  RInv'
<1>1. Sound /\ RunSound
  BY DEF RInv, Sound
<1>2. run.at # "over"
  <2>1. ASSUME run.at = "over" PROVE run.calls = {} /\ run.running = {} /\ run.open = "none"
    BY <1>1, <2>1 DEF RunSound
  <2> QED BY <2>1 DEF RunNext, MessageStarts, ThinkingStarts, ThinkingDelta, ThinkingEnds, Text, Call,
            SilentThought, HasNext, MessageEnds, ToolStarts, ToolReports, ToolEnds, RunEnds, Resync
<1>3. ~upset => Calm
  BY <1>2 DEF RInv
<1>4. CASE MessageStarts
  <2>1. upset' = upset
    BY <1>4 DEF MessageStarts
  <2> QED BY <1>1, <1>3, <1>4, <2>1, MessageStartsKeeps, Kept
<1>5. CASE ThinkingStarts
  <2>1. upset' = upset
    BY <1>5 DEF ThinkingStarts
  <2> QED BY <1>1, <1>3, <1>5, <2>1, ThinkingStartsKeeps, Kept
<1>6. CASE ThinkingDelta
  <2>1. upset' = upset
    BY <1>6 DEF ThinkingDelta
  <2> QED BY <1>1, <1>3, <1>6, <2>1, ThinkingDeltaKeeps, Kept
<1>7. CASE ThinkingEnds
  <2>1. upset' = upset
    BY <1>7 DEF ThinkingEnds
  <2> QED BY <1>1, <1>3, <1>7, <2>1, ThinkingEndsKeeps, Kept
<1>8. CASE Text
  <2>1. upset' = upset
    BY <1>8 DEF Text
  <2> QED BY <1>1, <1>3, <1>8, <2>1, TextKeeps, Kept
<1>9. CASE Call
  <2>1. upset' = upset
    BY <1>9 DEF Call
  <2> QED BY <1>1, <1>3, <1>9, <2>1, CallKeeps, Kept
<1>10. CASE SilentThought
  <2>1. upset' = upset
    BY <1>10 DEF SilentThought
  <2> QED BY <1>1, <1>3, <1>10, <2>1, SilentThoughtKeeps, Kept
<1>11. ASSUME NEW done \in BOOLEAN, NEW failed \in BOOLEAN, MessageEnds(done, failed) PROVE RInv'
  <2>1. /\ Sound' /\ run'.at # "over"
        /\ ~upset' => ~upset
        /\ Calm /\ ~upset' => Calm'
    BY <1>1, <1>11, MessageEndsKeeps
  <2> QED BY <1>3, <2>1, Kept
<1>12. ASSUME NEW n \in 1 .. MaxBlocks, ToolStarts(n) PROVE RInv'
  <2>1. upset' = upset
    BY <1>12 DEF ToolStarts
  <2>2. Sound' /\ run'.at # "over" /\ (Calm /\ ~upset => Calm')
    BY <1>1, <1>12, ToolStartsKeeps
  <2> QED BY <1>3, <2>1, <2>2, Kept
<1>13. ASSUME NEW n \in 1 .. MaxBlocks, ToolReports(n) PROVE RInv'
  <2>1. upset' = upset
    BY <1>13 DEF ToolReports
  <2>2. Sound' /\ run'.at # "over" /\ (Calm /\ ~upset => Calm')
    BY <1>1, <1>13, ToolReportsKeeps
  <2> QED BY <1>3, <2>1, <2>2, Kept
<1>14. ASSUME NEW n \in 1 .. MaxBlocks, NEW state \in {"available", "error"}, ToolEnds(n, state)
       PROVE  RInv'
  <2>1. upset' = upset
    BY <1>14 DEF ToolEnds
  <2>2. Sound' /\ run'.at # "over" /\ (Calm /\ ~upset => Calm')
    BY <1>1, <1>14, ToolEndsKeeps
  <2> QED BY <1>3, <2>1, <2>2, Kept
<1>15. ASSUME NEW listed \in BOOLEAN, RunEnds(listed) PROVE RInv'
  <2>1. Sound' /\ run'.at = "over" /\ DoneShowsTheRun'
    BY <1>1, <1>3, <1>15, RunEndsKeeps
  <2> QED BY <2>1 DEF RInv
<1>16. CASE Resync
  BY <1>1, <1>16, ResyncKeeps, Kept
<1> QED BY <1>4, <1>5, <1>6, <1>7, <1>8, <1>9, <1>10, <1>11, <1>12, <1>13, <1>14, <1>15, <1>16 DEF RunNext

LEMMA RunStays ==
  ASSUME RInv, UNCHANGED runVars
  PROVE  RInv'
<1>1. /\ run' = run /\ mapper' = mapper /\ bubble' = bubble
      /\ said' = said /\ spoken' = spoken /\ echoed' = echoed /\ thought' = thought /\ outcome' = outcome /\ upset' = upset
  BY DEF runVars
<1>2. Sound'
  <2>1. RunTyped'
    BY <1>1 DEF RInv, Sound, RunTyped
  <2>2. RunSound'
    BY <1>1 DEF RInv, Sound, RunSound
  <2>3. BubbleSound'
    BY <1>1 DEF RInv, Sound, BubbleSound
  <2> QED BY <1>1, <2>1, <2>2, <2>3 DEF RInv, Sound
<1>3. Calm => Calm'
  <2> SUFFICES ASSUME Calm PROVE Calm'
    OBVIOUS
  <2>1. TextKept'
    BY <1>1 DEF Calm, TextKept, Tells
  <2>2. CallsKept'
    BY <1>1 DEF Calm, CallsKept
  <2>3. ThoughtsShown'
    BY <1>1 DEF Calm, ThoughtsShown
  <2>4. EpisodesActive'
    BY <1>1 DEF Calm, EpisodesActive
  <2>5. MessageThoughts'
    BY <1>1 DEF Calm, MessageThoughts, Last0
  <2> QED BY <1>1, <2>1, <2>2, <2>3, <2>4, <2>5 DEF Calm
<1>4. DoneShowsTheRun'
  BY <1>1 DEF RInv, DoneShowsTheRun, TextsTold, Only, Thoughts, Calls
<1> QED BY <1>1, <1>2, <1>3, <1>4 DEF RInv

(* Every event of the runtime keeps the inductive invariant.               *)
LEMMA RunInvariant == RunSpec => []RInv
<1>1. RunInit => RInv
  BY RunBegins
<1>2. RInv /\ [RunNext]_runVars => RInv'
  BY RunContinues, RunStays
<1> QED BY <1>1, <1>2, PTL DEF RunSpec

(* The values of the state: the mapper's episodes are among those it       *)
(* claimed and below the next index it gives out, the browser shows no     *)
(* part of an unknown kind, and what runs was called.                      *)
THEOREM RunTypes == RunSpec => []RunTypeOK
<1>1. ASSUME RInv PROVE RunTypeOK
  <2>1. /\ RunTyped /\ RunSound /\ MapperSound(mapper) /\ bubble \in Seq(Parts) /\ run \in RunRecords
    BY <1>1 DEF RInv, Sound, RunTyped, BubbleSound
  <2>2. run.at \in {"idle", "message", "over"} /\ run.blocks \in 0 .. MaxBlocks
    BY <2>1 DEF RunRecords
  <2>3. run.running \subseteq run.calls
    BY <2>1 DEF RunSound
  <2>4. /\ \A r \in DOMAIN mapper.active : mapper.active[r] \in mapper.claimed
        /\ \A i \in mapper.claimed : i < mapper.next
    BY <2>1 DEF MapperSound
  <2>5. \A i \in DOMAIN bubble : bubble[i].kind \in {"text", "reasoning", "tool", "summary", "error"}
    BY <2>1, PartsByKind
  <2>6. Range(said) \subseteq Range(Word) /\ thought \subseteq 1 .. MaxBlocks
    <3>1. 1 .. run.blocks \subseteq 1 .. MaxBlocks
      BY <2>2, RunTranscriptAssumption
    <3>2. said \in Seq(Range(Word)) /\ thought \subseteq 1 .. run.blocks
      BY <2>1 DEF RunTyped
    <3>3. Range(said) \subseteq Range(Word)
      BY <3>2, RangeIs
    <3> QED BY <3>1, <3>2, <3>3
  <2> QED BY <2>2, <2>3, <2>4, <2>5, <2>6 DEF RunTypeOK
<1>2. RInv => RunTypeOK
  BY <1>1
<1> QED BY <1>2, RunInvariant, PTL

(* When a run is over its bubble shows the whole run, whatever its texts   *)
(* say: the text of every message without a break, every text once and in  *)
(* order unless one that was not streamed repeats the run, the thoughts    *)
(* that were streamed, complete, and the calls with what became of them,   *)
(* as mapAgentEvent and applyChatStreamEvent leave them; and no call is    *)
(* ever shown nameless or twice, not even across a resync.                 *)
THEOREM DoneShowsAlways == RunSpec => []DoneShowsTheRun
<1>1. RInv => DoneShowsTheRun
  BY DEF RInv
<1> QED BY <1>1, RunInvariant, PTL
=============================================================================
