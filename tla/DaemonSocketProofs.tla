-------------------------- MODULE DaemonSocketProofs --------------------------
(***************************************************************************)
(* Theorems about DaemonSocket, for any number of commands, any number of  *)
(* remembered outcomes and any number of faults: types, what the daemon's  *)
(* records are kept for, the greeting, and that the client implements      *)
(* CommandOutcome.                                                         *)
(***************************************************************************)
EXTENDS DaemonSocket, Integers, WellFoundedInduction, TLAPS

------------------------------------------------------------------------------
(* Sequences                                                                 *)

(* Induction over the naturals for a set: what contains 0 and with n also    *)
(* n + 1 contains them all.                                                  *)
LEMMA SetInduction ==
  ASSUME NEW S, 0 \in S, \A n \in Nat : n \in S => n + 1 \in S
  PROVE  \A n \in Nat : n \in S
<1> DEFINE rest == Nat \ S
<1>1. SUFFICES ASSUME rest # {} PROVE FALSE
  OBVIOUS
<1>2. PICK x \in rest : \A y \in rest : ~ (<<y, x>> \in OpToRel(<, Nat))
  BY <1>1, NatLessThanWellFounded, WFMin
<1>3. \A y \in rest : ~ (y < x)
  BY <1>2 DEF OpToRel
<1>4. x \in Nat /\ x \notin S /\ x # 0
  BY <1>2
<1>5. x - 1 \in Nat /\ x - 1 < x /\ (x - 1) + 1 = x
  BY <1>4
<1>6. x - 1 \in S
  BY <1>3, <1>5
<1> QED BY <1>4, <1>5, <1>6

LEMMA MembersOf ==
  ASSUME NEW S, NEW s \in Seq(S)
  PROVE  /\ Members(s) \subseteq S
         /\ \A i \in 1 .. Len(s) : s[i] \in Members(s)
         /\ s = <<>> <=> Members(s) = {}
BY DEF Members

LEMMA MembersOfAppend ==
  ASSUME NEW S, NEW s \in Seq(S), NEW x \in S
  PROVE  Members(Append(s, x)) = Members(s) \union {x}
<1>1. /\ Append(s, x) \in Seq(S) /\ Len(Append(s, x)) = Len(s) + 1
      /\ \A i \in 1 .. Len(s) : Append(s, x)[i] = s[i]
      /\ Append(s, x)[Len(s) + 1] = x
  OBVIOUS
<1> DEFINE t == Append(s, x)
<1>2. DOMAIN t = 1 .. Len(s) + 1 /\ DOMAIN s = 1 .. Len(s) /\ Len(s) \in Nat
  BY <1>1
<1> HIDE DEF t
<1>3. \A i \in 1 .. Len(s) : t[i] = s[i] /\ i \in 1 .. Len(s) + 1
  BY <1>1, <1>2 DEF t
<1>4. t[Len(s) + 1] = x /\ Len(s) + 1 \in 1 .. Len(s) + 1
  BY <1>1, <1>2 DEF t
<1>5. \A i \in 1 .. Len(s) + 1 : i \in 1 .. Len(s) \/ i = Len(s) + 1
  BY <1>2
<1>6. Members(t) = Members(s) \union {x}
  BY <1>2, <1>3, <1>4, <1>5 DEF Members
<1> QED BY <1>6 DEF t

LEMMA MembersOfCat ==
  ASSUME NEW S, NEW s \in Seq(S), NEW t \in Seq(S)
  PROVE  s \o t \in Seq(S) /\ Members(s \o t) = Members(s) \union Members(t)
<1>1. \A y \in Members(s) : y \in Members(s \o t)
  BY DEF Members
<1>2. ASSUME NEW j \in 1 .. Len(t) PROVE t[j] \in Members(s \o t)
  <2>1. Len(s) + j \in 1 .. Len(s \o t) /\ (s \o t)[Len(s) + j] = t[j]
    OBVIOUS
  <2> QED BY <2>1 DEF Members
<1> QED BY <1>1, <1>2 DEF Members

LEMMA MembersOfTail ==
  ASSUME NEW S, NEW s \in Seq(S), s # <<>>
  PROVE  /\ Head(s) \in S /\ Tail(s) \in Seq(S)
         /\ Members(s) = {Head(s)} \union Members(Tail(s))
<1>1. Head(s) = s[1] /\ Len(s) \in Nat \ {0} /\ Len(Tail(s)) = Len(s) - 1
  OBVIOUS
<1>2. \A i \in 1 .. Len(Tail(s)) : Tail(s)[i] = s[i + 1]
  OBVIOUS
<1>3. ASSUME NEW i \in 1 .. Len(s), i # 1 PROVE s[i] \in Members(Tail(s))
  <2>1. i - 1 \in 1 .. Len(Tail(s)) /\ Tail(s)[i - 1] = s[i]
    BY <1>1, <1>2, <1>3
  <2>2. DOMAIN Tail(s) = 1 .. Len(Tail(s))
    OBVIOUS
  <2> QED BY <2>1, <2>2 DEF Members
<1> QED BY <1>1, <1>2, <1>3 DEF Members

(* Selected is defined by recursion; there is a function that its equations  *)
(* define.                                                                   *)
KeptBy(s, T, f, n) ==
  \A i \in 0 .. n : f[i] = IF i = 0 THEN <<>>
                           ELSE IF s[i] \in T THEN Append(f[i - 1], s[i]) ELSE f[i - 1]

LEMMA KeptExists ==
  ASSUME NEW S, NEW s \in Seq(S), NEW T
  PROVE  \E f \in [0 .. Len(s) -> Seq(S \intersect T)] : KeptBy(s, T, f, Len(s))
<1> DEFINE Upto(n) == \E f \in [0 .. n -> Seq(S \intersect T)] : KeptBy(s, T, f, n)
           Good == {n \in Nat : n <= Len(s) => Upto(n)}
<1>1. 0 \in Good
  <2>1. [i \in 0 .. 0 |-> <<>>] \in [0 .. 0 -> Seq(S \intersect T)]
    OBVIOUS
  <2>2. KeptBy(s, T, [i \in 0 .. 0 |-> <<>>], 0)
    BY DEF KeptBy
  <2> QED BY <2>1, <2>2
<1>2. ASSUME NEW n \in Nat, n \in Good PROVE n + 1 \in Good
  <2>1. SUFFICES ASSUME n + 1 <= Len(s) PROVE Upto(n + 1)
    OBVIOUS
  <2>2. PICK f \in [0 .. n -> Seq(S \intersect T)] : KeptBy(s, T, f, n)
    BY <1>2, <2>1
  <2> DEFINE next == IF s[n + 1] \in T THEN Append(f[n], s[n + 1]) ELSE f[n]
             g == [i \in 0 .. n + 1 |-> IF i = n + 1 THEN next ELSE f[i]]
  <2>3. s[n + 1] \in S /\ f[n] \in Seq(S \intersect T)
    BY <2>1, <2>2
  <2>4. next \in Seq(S \intersect T)
    BY <2>3
  <2>5. g \in [0 .. n + 1 -> Seq(S \intersect T)]
    BY <2>2, <2>4
  <2>6. \A i \in 0 .. n : g[i] = f[i]
    OBVIOUS
  <2>7. g[n + 1] = next /\ g[(n + 1) - 1] = f[n]
    OBVIOUS
  <2> HIDE DEF g
  <2>8. \A i \in 0 .. n : i # 0 => g[i - 1] = f[i - 1]
    BY <2>6
  <2> DEFINE Step(f0, i) == IF i = 0 THEN <<>>
                            ELSE IF s[i] \in T THEN Append(f0[i - 1], s[i]) ELSE f0[i - 1]
  <2>9. \A i \in 0 .. n : g[i] = Step(g, i)
    BY <2>2, <2>6, <2>8 DEF KeptBy
  <2>10. g[n + 1] = Step(g, n + 1)
    BY <2>7
  <2>11. \A i \in 0 .. n + 1 : i \in 0 .. n \/ i = n + 1
    OBVIOUS
  <2>12. \A i \in 0 .. n + 1 : g[i] = Step(g, i)
    <3> HIDE DEF Step
    <3> QED BY <2>9, <2>10, <2>11
  <2>13. KeptBy(s, T, g, n + 1)
    BY <2>12 DEF KeptBy
  <2> QED BY <2>5, <2>13
<1>3. \A n \in Nat : n \in Good
  <2> HIDE DEF Good
  <2> QED BY <1>1, <1>2, SetInduction
<1> QED BY <1>3

(* What Selected keeps.                                                      *)
LEMMA SelectedMembers ==
  ASSUME NEW S, NEW s \in Seq(S), NEW T
  PROVE  /\ Selected(s, T) \in Seq(S \intersect T)
         /\ Members(Selected(s, T)) = Members(s) \intersect T
         /\ Len(Selected(s, T)) <= Len(s)
<1> DEFINE Eq(f) == f = [n \in 0 .. Len(s) |->
                          IF n = 0 THEN <<>>
                          ELSE IF s[n] \in T THEN Append(f[n - 1], s[n]) ELSE f[n - 1]]
           kept == CHOOSE f : Eq(f)
<1>1. Selected(s, T) = kept[Len(s)]
  BY DEF Selected
<1>2. \E f : Eq(f)
  <2>1. PICK f \in [0 .. Len(s) -> Seq(S \intersect T)] : KeptBy(s, T, f, Len(s))
    BY KeptExists
  <2> QED BY <2>1 DEF KeptBy
<1>3. Eq(kept)
  BY <1>2
<1> HIDE DEF kept
<1> DEFINE Upto(n) == /\ kept[n] \in Seq(S \intersect T) /\ Len(kept[n]) <= n
                      /\ Members(kept[n]) = {s[j] : j \in 1 .. n} \intersect T
           Good == {n \in Nat : n <= Len(s) => Upto(n)}
<1>4. 0 \in Good
  <2>1. kept[0] = <<>>
    BY <1>3
  <2>2. Members(<<>>) = {}
    BY DEF Members
  <2>3. {s[j] : j \in 1 .. 0} = {}
    OBVIOUS
  <2>4. <<>> \in Seq(S \intersect T) /\ Len(<<>>) = 0
    OBVIOUS
  <2>5. Members(kept[0]) = {s[j] : j \in 1 .. 0} \intersect T
    BY <2>1, <2>2, <2>3
  <2>6. Upto(0)
    BY <2>1, <2>4, <2>5
  <2> HIDE DEF Upto
  <2> QED BY <2>6
<1>5. ASSUME NEW n \in Nat, n \in Good PROVE n + 1 \in Good
  <2>1. SUFFICES ASSUME n + 1 <= Len(s) PROVE Upto(n + 1)
    <3> HIDE DEF Upto
    <3> QED OBVIOUS
  <2>2. /\ kept[n] \in Seq(S \intersect T) /\ Len(kept[n]) <= n
        /\ Members(kept[n]) = {s[j] : j \in 1 .. n} \intersect T
    BY <1>5, <2>1
  <2>3. kept[n + 1] = IF s[n + 1] \in T THEN Append(kept[n], s[n + 1]) ELSE kept[n]
    <3>1. n + 1 \in 0 .. Len(s) /\ n + 1 # 0 /\ (n + 1) - 1 = n
      BY <2>1
    <3>2. kept[n + 1] = IF s[n + 1] \in T THEN Append(kept[(n + 1) - 1], s[n + 1])
                        ELSE kept[(n + 1) - 1]
      BY <1>3, <3>1
    <3> QED BY <3>1, <3>2
  <2>4. {s[j] : j \in 1 .. n + 1} = {s[j] : j \in 1 .. n} \union {s[n + 1]}
    OBVIOUS
  <2>5. s[n + 1] \in S
    BY <2>1
  <2>6. CASE s[n + 1] \in T
    BY <2>2, <2>3, <2>4, <2>5, <2>6, MembersOfAppend
  <2>7. CASE s[n + 1] \notin T
    BY <2>2, <2>3, <2>4, <2>7
  <2> QED BY <2>6, <2>7
<1>6. \A n \in Nat : n \in Good
  <2> HIDE DEF Good
  <2> QED BY <1>4, <1>5, SetInduction
<1>7. Upto(Len(s))
  <2> HIDE DEF Upto
  <2> QED BY <1>6
<1> QED BY <1>1, <1>7 DEF Members

LEMMA WithoutMembers ==
  ASSUME NEW S, NEW s \in Seq(S), NEW c
  PROVE  /\ Without(s, c) \in Seq(S) /\ Len(Without(s, c)) <= Len(s)
         /\ Members(Without(s, c)) = Members(s) \ {c}
<1>1. /\ Len(Without(s, c)) <= Len(s)
      /\ Without(s, c) \in Seq(S \intersect (Members(s) \ {c}))
      /\ Members(Without(s, c)) = Members(s) \intersect (Members(s) \ {c})
  BY SelectedMembers DEF Without
<1>2. \A q \in Seq(S \intersect (Members(s) \ {c})) : q \in Seq(S)
  OBVIOUS
<1> QED BY <1>1, <1>2

(* The newest outcomes are among those that were to be remembered.           *)
LEMMA BoundedMembers ==
  ASSUME NEW S, NEW s \in Seq(S)
  PROVE  /\ Bounded(s) \in Seq(S) /\ Len(Bounded(s)) <= OutcomeLimit
         /\ Members(Bounded(s)) \subseteq Members(s)
<1>1. CASE Len(s) > OutcomeLimit
  <2> DEFINE from == Len(s) - OutcomeLimit + 1
  <2>1. from \in 1 .. Len(s) /\ Bounded(s) = SubSeq(s, from, Len(s))
    BY <1>1, DaemonSocketAssumption DEF Bounded
  <2>2. /\ Bounded(s) \in Seq(S) /\ Len(Bounded(s)) = OutcomeLimit
        /\ \A i \in 1 .. OutcomeLimit : Bounded(s)[i] = s[from + i - 1]
    BY <2>1, DaemonSocketAssumption
  <2> QED BY <2>1, <2>2, DaemonSocketAssumption DEF Members
<1>2. CASE ~ (Len(s) > OutcomeLimit)
  BY <1>2, DaemonSocketAssumption DEF Bounded
<1> QED BY <1>1, <1>2

(* The lines on the way to the daemon.                                       *)
CommandsIn(s) == {m.of : m \in {n \in Members(s) : n.type = "command"}}
AcksIn(s)     == {m.of : m \in {n \in Members(s) : n.type = "ack"}}

(* A command is written once.                                                *)
Once(s) ==
  \A i, j \in 1 .. Len(s) :
    s[i].type = "command" /\ s[j].type = "command" /\ s[i].of = s[j].of => i = j

LEMMA LinesEmpty ==
  CommandsIn(<<>>) = {} /\ AcksIn(<<>>) = {} /\ Once(<<>>)
BY DEF CommandsIn, AcksIn, Once, Members

LEMMA LinesTyped ==
  ASSUME NEW s \in Seq(Request)
  PROVE  CommandsIn(s) \subseteq Commands /\ AcksIn(s) \subseteq Commands
<1>1. Members(s) \subseteq Request
  BY MembersOf
<1>2. \A m \in Request : m.of \in Commands
  BY DEF Request
<1> QED BY <1>1, <1>2 DEF CommandsIn, AcksIn

LEMMA CommandWritten ==
  ASSUME NEW s \in Seq(Request), NEW c \in Commands, c \notin CommandsIn(s), Once(s)
  PROVE  LET t == Append(s, [type |-> "command", of |-> c])
         IN  /\ t \in Seq(Request) /\ Once(t) /\ AcksIn(t) = AcksIn(s)
             /\ CommandsIn(t) = CommandsIn(s) \union {c}
<1> DEFINE line == [type |-> "command", of |-> c]
           t == Append(s, line)
<1>1. line \in Request
  BY DEF Request
<1>2. Members(t) = Members(s) \union {line} /\ t \in Seq(Request)
  BY <1>1, MembersOfAppend
<1>3. line.type = "command" /\ line.of = c
  OBVIOUS
<1>4. /\ Len(t) = Len(s) + 1 /\ Len(s) \in Nat
      /\ \A i \in 1 .. Len(s) : t[i] = s[i] /\ s[i] \in Members(s)
      /\ t[Len(s) + 1] = line
  BY <1>1, MembersOf
<1> HIDE DEF line, t
<1>5. \A i \in 1 .. Len(s) : s[i].type = "command" => s[i].of # c
  BY <1>4 DEF CommandsIn
<1>6. Once(t)
  BY <1>3, <1>4, <1>5 DEF Once
<1>7. AcksIn(t) = AcksIn(s) /\ CommandsIn(t) = CommandsIn(s) \union {c}
  BY <1>2, <1>3 DEF AcksIn, CommandsIn
<1> QED BY <1>2, <1>6, <1>7 DEF t, line

LEMMA AckWritten ==
  ASSUME NEW s \in Seq(Request), NEW c \in Commands, Once(s)
  PROVE  LET t == Append(s, [type |-> "ack", of |-> c])
         IN  /\ t \in Seq(Request) /\ Once(t) /\ CommandsIn(t) = CommandsIn(s)
             /\ AcksIn(t) = AcksIn(s) \union {c}
<1> DEFINE line == [type |-> "ack", of |-> c]
           t == Append(s, line)
<1>1. line \in Request
  BY DEF Request
<1>2. Members(t) = Members(s) \union {line} /\ t \in Seq(Request)
  BY <1>1, MembersOfAppend
<1>3. line.type = "ack" /\ line.of = c
  OBVIOUS
<1>4. /\ Len(t) = Len(s) + 1 /\ Len(s) \in Nat
      /\ \A i \in 1 .. Len(s) : t[i] = s[i]
      /\ t[Len(s) + 1] = line
  BY <1>1
<1> HIDE DEF line, t
<1>5. Once(t)
  BY <1>3, <1>4 DEF Once
<1>6. AcksIn(t) = AcksIn(s) \union {c} /\ CommandsIn(t) = CommandsIn(s)
  BY <1>2, <1>3 DEF AcksIn, CommandsIn
<1> QED BY <1>2, <1>5, <1>6 DEF t, line

LEMMA LineTaken ==
  ASSUME NEW s \in Seq(Request), s # <<>>, Once(s)
  PROVE  /\ Head(s) \in Request /\ Tail(s) \in Seq(Request) /\ Once(Tail(s))
         /\ Head(s).type = "command" =>
              /\ AcksIn(Tail(s)) = AcksIn(s)
              /\ Head(s).of \in CommandsIn(s)
              /\ CommandsIn(Tail(s)) = CommandsIn(s) \ {Head(s).of}
         /\ Head(s).type = "ack" =>
              /\ CommandsIn(Tail(s)) = CommandsIn(s)
              /\ AcksIn(s) = AcksIn(Tail(s)) \union {Head(s).of}
<1> DEFINE m == Head(s)
           t == Tail(s)
<1>1. /\ m \in Request /\ t \in Seq(Request) /\ Members(s) = {m} \union Members(t)
  BY MembersOfTail
<1>2. /\ Len(s) \in Nat \ {0} /\ Len(t) = Len(s) - 1 /\ m = s[1]
      /\ \A i \in 1 .. Len(t) : t[i] = s[i + 1]
      /\ DOMAIN t = 1 .. Len(t)
  OBVIOUS
<1> HIDE DEF m, t
<1>3. Once(t)
  <2>1. SUFFICES ASSUME NEW i \in 1 .. Len(t), NEW j \in 1 .. Len(t),
                        t[i].type = "command", t[j].type = "command", t[i].of = t[j].of
                 PROVE  i = j
    BY DEF Once
  <2>2. i + 1 \in 1 .. Len(s) /\ j + 1 \in 1 .. Len(s)
    BY <1>2
  <2>3. i + 1 = j + 1
    BY <1>2, <2>1, <2>2 DEF Once
  <2> QED BY <2>3
<1>4. ASSUME m.type = "command"
      PROVE  m.of \notin CommandsIn(t)
  <2>1. SUFFICES ASSUME NEW i \in 1 .. Len(t), t[i].type = "command", t[i].of = m.of
                 PROVE  FALSE
    BY <1>2 DEF CommandsIn, Members
  <2>2. i + 1 \in 1 .. Len(s) /\ 1 \in 1 .. Len(s) /\ t[i] = s[i + 1]
    BY <1>2
  <2>3. i + 1 = 1
    BY <1>2, <1>4, <2>1, <2>2 DEF Once
  <2> QED BY <2>3
<1>5. m.type = "command" =>
        /\ AcksIn(t) = AcksIn(s)
        /\ m.of \in CommandsIn(s)
        /\ CommandsIn(s) = CommandsIn(t) \union {m.of}
  BY <1>1 DEF AcksIn, CommandsIn
<1>6. m.type = "ack" =>
        /\ CommandsIn(t) = CommandsIn(s)
        /\ AcksIn(s) = AcksIn(t) \union {m.of}
  BY <1>1 DEF AcksIn, CommandsIn
<1> QED BY <1>1, <1>3, <1>4, <1>5, <1>6 DEF m, t

------------------------------------------------------------------------------
(* The inductive invariant                                                   *)

ResponsesIn(s) == {m.of : m \in {n \in Members(s) : n.type = "response"}}

(* A client whose socket has failed has no socket, nobody waiting, and may   *)
(* have the beginning of a line in its buffer, which only Reconnect clears;  *)
(* a socket is quiet until it is open, and begins with the hello.            *)
Sockets ==
  /\ closedError => link = "none" /\ pending = <<>>
  /\ garbled => closedError
  /\ link = "none" => toDaemon = <<>>
  /\ link # "open" => toFleet = <<>>
  /\ link = "open" => hello \/ [type |-> "hello"] \in Members(toFleet)

Waiters == \A c \in Commands : c \in Members(pending) <=> verdict[c] = "waiting"

(* A command is on the wire or has run, once; its caller was not told that   *)
(* it failed.                                                                *)
Sent ==
  /\ Once(toDaemon)
  /\ CommandsIn(toDaemon) \intersect executed = {}
  /\ \A c \in CommandsIn(toDaemon) \union executed :
       verdict[c] # "none" /\ (c \in Mutating => verdict[c] # "failed")

(* Answers are of commands that ran.                                         *)
Answers ==
  /\ ResponsesIn(toFleet) \subseteq executed
  /\ \A c \in Commands : verdict[c] = "answered" => c \in executed
  /\ records \subseteq executed

(* An outcome is remembered while it is unknown, and acknowledged after.     *)
Released ==
  /\ \A c \in Members(unknown) : verdict[c] = "unknown"
  /\ AcksIn(toDaemon) \union ackLost \subseteq executed \intersect Mutating
  /\ \A c \in AcksIn(toDaemon) \union ((executed \intersect Mutating) \ records) :
       verdict[c] \in {"answered", "unknown"} /\ c \notin Members(unknown)

(* Whatever was settled is remembered, forgotten for lack of room,           *)
(* acknowledged, or its record is gone.                                      *)
Settled ==
  \A c \in Mutating :
    verdict[c] \in {"answered", "unknown"} =>
      \/ verdict[c] = "unknown" /\ c \in Members(unknown) \union forgotten
      \/ c \in AcksIn(toDaemon) \union ackLost \union (executed \ records)

Ledger == Sent /\ Answers /\ Released /\ Settled

IInv == SocketTypeOK /\ Sockets /\ Waiters /\ Ledger

------------------------------------------------------------------------------
(* What the shared steps do, in terms of the sets the invariant speaks of    *)

(* The callers of the commands in D are told that they failed, mutating ones *)
(* that the outcome is unknown, which is remembered.                         *)
Doubted(D) ==
  /\ Members(unknown)' \subseteq Members(unknown) \union (D \intersect Mutating)
  /\ Members(unknown) \union (D \intersect Mutating) \subseteq Members(unknown)' \union forgotten'
  /\ forgotten \subseteq forgotten'
  /\ \A c \in Commands :
       /\ c \notin D => verdict'[c] = verdict[c]
       /\ c \in D => verdict'[c] \in {"failed", "unknown"}
                     /\ (c \in Mutating => verdict'[c] = "unknown")

DoubtTyped ==
  /\ unknown' \in Seq(Mutating) /\ Len(unknown') <= OutcomeLimit
  /\ forgotten' \subseteq Mutating
  /\ verdict' \in [Commands -> Outcome!Verdicts]

LEMMA RememberEffect ==
  ASSUME SocketTypeOK, NEW cs \in Seq(Mutating), Remember(cs)
  PROVE  /\ unknown' \in Seq(Mutating) /\ Len(unknown') <= OutcomeLimit
         /\ forgotten' \subseteq Mutating /\ forgotten \subseteq forgotten'
         /\ Members(unknown)' \subseteq Members(unknown) \union Members(cs)
         /\ Members(unknown) \union Members(cs) \subseteq Members(unknown)' \union forgotten'
<1> DEFINE all == unknown \o cs
<1>1. all \in Seq(Mutating) /\ Members(all) = Members(unknown) \union Members(cs)
  BY MembersOfCat DEF SocketTypeOK
<1>2. /\ Bounded(all) \in Seq(Mutating) /\ Len(Bounded(all)) <= OutcomeLimit
      /\ Members(Bounded(all)) \subseteq Members(all)
  BY <1>1, BoundedMembers
<1>3. /\ unknown' = Bounded(all)
      /\ forgotten' = forgotten \union (Members(all) \ Members(Bounded(all)))
  BY DEF Remember
<1>4. Members(unknown)' = Members(Bounded(all))
  BY <1>3 DEF Members
<1>5. Members(all) \subseteq Mutating /\ forgotten \subseteq Mutating
  BY <1>1, MembersOf DEF SocketTypeOK
<1> HIDE DEF all
<1> QED BY <1>1, <1>2, <1>3, <1>4, <1>5

LEMMA FailEffect ==
  ASSUME SocketTypeOK, Sockets, Waiters, Fail
  PROVE  /\ Doubted({c \in Commands : verdict[c] = "waiting"}) /\ DoubtTyped
         /\ pending' = <<>> /\ closedError' = TRUE
         /\ waiter' \in {"idle", "waiting", "greeted", "failed"}
<1> DEFINE D == {c \in Commands : verdict[c] = "waiting"}
<1>1. CASE closedError
  <2>1. pending = <<>> /\ Members(pending) = {}
    BY <1>1 DEF Sockets, Members
  <2>2. D = {}
    BY <2>1 DEF Waiters
  <2>3. UNCHANGED <<closedError, waiter, verdict, pending, unknown, forgotten>>
    BY <1>1 DEF Fail
  <2>4. Members(unknown)' = Members(unknown)
    BY <2>3 DEF Members
  <2>5. DoubtTyped
    BY <2>3 DEF SocketTypeOK, DoubtTyped
  <2> QED BY <1>1, <2>1, <2>2, <2>3, <2>4, <2>5 DEF Doubted, SocketTypeOK
<1>2. CASE ~closedError
  <2> DEFINE cs == Selected(pending, Mutating)
  <2>1. /\ closedError' = TRUE /\ pending' = <<>> /\ Remember(cs)
        /\ waiter' = IF waiter = "waiting" THEN "failed" ELSE waiter
        /\ verdict' = [c \in Commands |-> IF c \in Members(pending) THEN Rejected(c)
                                          ELSE verdict[c]]
    BY <1>2 DEF Fail
  <2>2. Members(pending) = D
    BY MembersOf DEF Waiters, SocketTypeOK
  <2>3. cs \in Seq(Commands \intersect Mutating)
        /\ Members(cs) = Members(pending) \intersect Mutating
    BY SelectedMembers DEF SocketTypeOK
  <2>4. Commands \intersect Mutating = Mutating
    BY DaemonSocketAssumption
  <2>5. cs \in Seq(Mutating)
    BY <2>3, <2>4
  <2> HIDE DEF cs, D
  <2>6. /\ unknown' \in Seq(Mutating) /\ Len(unknown') <= OutcomeLimit
        /\ forgotten' \subseteq Mutating /\ forgotten \subseteq forgotten'
        /\ Members(unknown)' \subseteq Members(unknown) \union Members(cs)
        /\ Members(unknown) \union Members(cs) \subseteq Members(unknown)' \union forgotten'
    BY <2>1, <2>5, RememberEffect
  <2>7. verdict' \in [Commands -> Outcome!Verdicts]
    BY <2>1 DEF SocketTypeOK, Rejected, Outcome!Verdicts, Outcome!Open
  <2>8. Doubted(D)
    BY <2>1, <2>2, <2>3, <2>6 DEF Doubted, Rejected
  <2>9. DoubtTyped
    BY <2>6, <2>7 DEF DoubtTyped
  <2> QED BY <2>1, <2>8, <2>9 DEF SocketTypeOK, D
<1> QED BY <1>1, <1>2

LEMMA TimeoutEffect ==
  ASSUME SocketTypeOK, NEW c \in Commands, RequestTimesOut(c)
  PROVE  /\ Doubted({c}) /\ DoubtTyped
         /\ pending' \in Seq(Commands) /\ Members(pending)' = Members(pending) \ {c}
         /\ c \in Members(pending)
<1>1. /\ c \in Members(pending) /\ pending' = Without(pending, c)
      /\ verdict' = [verdict EXCEPT ![c] = Rejected(c)]
      /\ IF c \in Mutating THEN Remember(<<c>>) ELSE UNCHANGED <<unknown, forgotten>>
  BY DEF RequestTimesOut
<1>2. pending' \in Seq(Commands) /\ Members(pending') = Members(pending) \ {c}
  BY <1>1, WithoutMembers DEF SocketTypeOK
<1>3. Members(pending)' = Members(pending')
  BY DEF Members
<1>4. Members(<<c>>) = {c} /\ (c \in Mutating => <<c>> \in Seq(Mutating))
  BY DEF Members
<1>5. /\ unknown' \in Seq(Mutating) /\ Len(unknown') <= OutcomeLimit
      /\ forgotten' \subseteq Mutating /\ forgotten \subseteq forgotten'
      /\ Members(unknown)' \subseteq Members(unknown) \union ({c} \intersect Mutating)
      /\ Members(unknown) \union ({c} \intersect Mutating)
           \subseteq Members(unknown)' \union forgotten'
  <2>1. CASE c \in Mutating
    BY <1>1, <1>4, <2>1, RememberEffect
  <2>2. CASE c \notin Mutating
    <3>1. UNCHANGED <<unknown, forgotten>>
      BY <1>1, <2>2
    <3>2. Members(unknown)' = Members(unknown)
      BY <3>1 DEF Members
    <3> QED BY <2>2, <3>1, <3>2 DEF SocketTypeOK
  <2> QED BY <2>1, <2>2
<1>6. verdict' \in [Commands -> Outcome!Verdicts]
  BY <1>1 DEF SocketTypeOK, Rejected, Outcome!Verdicts, Outcome!Open
<1>7. \A d \in Commands : /\ d # c => verdict'[d] = verdict[d]
                          /\ d = c => verdict'[d] = Rejected(c)
  BY <1>1 DEF SocketTypeOK
<1>8. Doubted({c})
  BY <1>5, <1>7 DEF Doubted, Rejected
<1> QED BY <1>1, <1>2, <1>3, <1>5, <1>6, <1>8 DEF DoubtTyped

LEMMA WriteFailsEffect ==
  ASSUME SocketTypeOK, NEW c \in Commands, WriteFails(c)
  PROVE  Doubted({c}) /\ DoubtTyped
<1>1. /\ verdict' = [verdict EXCEPT ![c] = "unknown"]
      /\ IF c \in Mutating THEN Remember(<<c>>) ELSE UNCHANGED <<unknown, forgotten>>
  BY DEF WriteFails
<1>2. Members(<<c>>) = {c} /\ (c \in Mutating => <<c>> \in Seq(Mutating))
  BY DEF Members
<1>3. /\ unknown' \in Seq(Mutating) /\ Len(unknown') <= OutcomeLimit
      /\ forgotten' \subseteq Mutating /\ forgotten \subseteq forgotten'
      /\ Members(unknown)' \subseteq Members(unknown) \union ({c} \intersect Mutating)
      /\ Members(unknown) \union ({c} \intersect Mutating)
           \subseteq Members(unknown)' \union forgotten'
  <2>1. CASE c \in Mutating
    BY <1>1, <1>2, <2>1, RememberEffect
  <2>2. CASE c \notin Mutating
    <3>1. UNCHANGED <<unknown, forgotten>>
      BY <1>1, <2>2
    <3>2. Members(unknown)' = Members(unknown)
      BY <3>1 DEF Members
    <3> QED BY <2>2, <3>1, <3>2 DEF SocketTypeOK
  <2> QED BY <2>1, <2>2
<1>4. verdict' \in [Commands -> Outcome!Verdicts]
  BY <1>1 DEF SocketTypeOK, Outcome!Verdicts, Outcome!Open
<1>5. \A d \in Commands : /\ d # c => verdict'[d] = verdict[d]
                          /\ d = c => verdict'[d] = "unknown"
  BY <1>1 DEF SocketTypeOK
<1>6. Doubted({c})
  BY <1>3, <1>5 DEF Doubted
<1> QED BY <1>3, <1>4, <1>6 DEF DoubtTyped

(* The lines on a lost socket are gone, the acknowledgements among them lost.*)
LEMMA LoseSocketEffect ==
  ASSUME SocketTypeOK, LoseSocket
  PROVE  /\ link' = "none" /\ toDaemon' = <<>> /\ toFleet' = <<>>
         /\ ackLost' = ackLost \union AcksIn(toDaemon)
         /\ garbled' \in BOOLEAN
<1>1. Acks = AcksIn(toDaemon)
  BY DEF Acks, AcksIn
<1> QED BY <1>1 DEF LoseSocket, SocketTypeOK

------------------------------------------------------------------------------
(* Types                                                                     *)

LEMMA HelloTyped == <<[type |-> "hello"]>> \in Seq(Frame) /\ [type |-> "hello"] \in Frame
BY DEF Frame

LEMMA ResponseTyped ==
  ASSUME NEW c \in Commands PROVE [type |-> "response", of |-> c] \in Frame
BY DEF Frame



(* A prime of what these operators return is of their argument.              *)
LEMMA Primes ==
  /\ Members(pending)' = Members(pending') /\ Members(unknown)' = Members(unknown')
  /\ Members(toFleet)' = Members(toFleet')
  /\ CommandsIn(toDaemon)' = CommandsIn(toDaemon') /\ AcksIn(toDaemon)' = AcksIn(toDaemon')
  /\ Once(toDaemon)' = Once(toDaemon') /\ ResponsesIn(toFleet)' = ResponsesIn(toFleet')
BY DEF Members, CommandsIn, AcksIn, Once, ResponsesIn

LEMMA ResponsesOf ==
  ASSUME NEW s \in Seq(Frame)
  PROVE  /\ ResponsesIn(s) \subseteq Commands
         /\ \A f \in Frame :
              ResponsesIn(Append(s, f)) =
                ResponsesIn(s) \union (IF f.type = "response" THEN {f.of} ELSE {})
         /\ s # <<>> => /\ Head(s) \in Frame /\ Tail(s) \in Seq(Frame)
                        /\ ResponsesIn(Tail(s)) \subseteq ResponsesIn(s)
                        /\ Head(s).type = "response" => Head(s).of \in ResponsesIn(s)
<1>1. Members(s) \subseteq Frame
  BY MembersOf
<1>2. \A f \in Frame : f.type = "response" => f.of \in Commands
  BY DEF Frame
<1>3. \A f \in Frame : Members(Append(s, f)) = Members(s) \union {f}
  BY MembersOfAppend
<1>4. s # <<>> => Head(s) \in Frame /\ Tail(s) \in Seq(Frame)
                  /\ Members(s) = {Head(s)} \union Members(Tail(s))
  BY MembersOfTail
<1>5. ResponsesIn(s) \subseteq Commands
  BY <1>1, <1>2 DEF ResponsesIn
<1>6. ASSUME NEW f \in Frame
      PROVE  ResponsesIn(Append(s, f)) =
               ResponsesIn(s) \union (IF f.type = "response" THEN {f.of} ELSE {})
  BY <1>3 DEF ResponsesIn
<1>7. s # <<>> => /\ ResponsesIn(Tail(s)) \subseteq ResponsesIn(s)
                  /\ Head(s).type = "response" => Head(s).of \in ResponsesIn(s)
  BY <1>4 DEF ResponsesIn
<1> QED BY <1>4, <1>5, <1>6, <1>7

(* A step that touches nothing the ledger is about.                          *)
LEMMA LedgerSame ==
  ASSUME Ledger, UNCHANGED <<verdict, unknown, toDaemon, executed, records, forgotten, ackLost>>,
         ResponsesIn(toFleet') \subseteq executed
  PROVE  Ledger'
<1>1. Sent'
  BY DEF Ledger, Sent, Once, CommandsIn, Members
<1>2. Answers'
  BY Primes DEF Ledger, Answers
<1>3. Released'
  BY Primes DEF Ledger, Released
<1>4. Settled'
  BY Primes DEF Ledger, Settled
<1> QED BY <1>1, <1>2, <1>3, <1>4 DEF Ledger

(* A step that tells callers of a failure.                                   *)
LEMMA LedgerDoubted ==
  ASSUME SocketTypeOK, Ledger, NEW D \in SUBSET Commands,
         \A c \in D : verdict[c] \in {"none", "waiting"},
         Doubted(D), UNCHANGED <<executed, records>>,
         Once(toDaemon'), CommandsIn(toDaemon') \subseteq CommandsIn(toDaemon),
         AcksIn(toDaemon') \subseteq AcksIn(toDaemon),
         AcksIn(toDaemon') \union ackLost' = AcksIn(toDaemon) \union ackLost,
         ResponsesIn(toFleet') \subseteq ResponsesIn(toFleet)
  PROVE  Ledger'
<1>1. /\ CommandsIn(toDaemon) \subseteq Commands /\ AcksIn(toDaemon) \subseteq Commands
      /\ executed \subseteq Commands /\ Mutating \subseteq Commands
      /\ Members(unknown) \subseteq Mutating
  BY LinesTyped, MembersOf, DaemonSocketAssumption DEF SocketTypeOK
<1>2. \A c \in Commands : /\ c \notin D => verdict'[c] = verdict[c]
                          /\ c \in D => verdict'[c] \in {"failed", "unknown"}
                                        /\ (c \in Mutating => verdict'[c] = "unknown")
  BY DEF Doubted
<1>3. Sent'
  BY <1>1, <1>2, Primes DEF Ledger, Sent
<1>4. Answers'
  BY <1>1, <1>2, Primes DEF Ledger, Answers
<1>5. \A c \in D : c \notin AcksIn(toDaemon) \union ((executed \intersect Mutating) \ records)
  BY DEF Ledger, Released
<1>6. Released'
  <2>1. \A c \in Members(unknown)' : verdict'[c] = "unknown"
    BY <1>1, <1>2, Primes DEF Ledger, Released, Doubted
  <2>2. AcksIn(toDaemon') \union ackLost' \subseteq executed \intersect Mutating
    BY DEF Ledger, Released
  <2>3. \A c \in AcksIn(toDaemon') \union ((executed \intersect Mutating) \ records) :
          verdict'[c] \in {"answered", "unknown"} /\ c \notin Members(unknown)'
    BY <1>1, <1>2, <1>5 DEF Ledger, Released, Doubted
  <2> QED BY <2>1, <2>2, <2>3, Primes DEF Released
<1>7. Settled'
  <2>1. SUFFICES ASSUME NEW c \in Mutating, verdict'[c] \in {"answered", "unknown"}
                 PROVE  \/ verdict'[c] = "unknown" /\ c \in Members(unknown)' \union forgotten'
                        \/ c \in AcksIn(toDaemon') \union ackLost' \union (executed \ records)
    BY Primes DEF Settled
  <2>2. CASE c \in D
    BY <1>1, <1>2, <2>1, <2>2 DEF Doubted
  <2>3. CASE c \notin D
    BY <1>1, <1>2, <2>1, <2>3 DEF Doubted, Ledger, Settled
  <2> QED BY <2>2, <2>3
<1> QED BY <1>3, <1>4, <1>6, <1>7 DEF Ledger

------------------------------------------------------------------------------
(* The steps                                                                 *)

LEMMA Initially ==
  ASSUME SocketInit
  PROVE  IInv
<1>1. Members(<<>>) = {} /\ ResponsesIn(<<>>) = {}
  BY DEF Members, ResponsesIn
<1>2. SocketTypeOK
  <2>1. verdict \in [Commands -> Outcome!Verdicts]
    BY DEF SocketInit, Outcome!Verdicts, Outcome!Open
  <2>2. pending \in Seq(Commands) /\ toDaemon \in Seq(Request) /\ toFleet \in Seq(Frame)
    BY DEF SocketInit
  <2>3. unknown \in Seq(Mutating) /\ Len(unknown) = 0
    BY DEF SocketInit
  <2>4. Len(unknown) <= OutcomeLimit
    BY <2>3, DaemonSocketAssumption
  <2>5. /\ closedError \in BOOLEAN /\ permanent \in BOOLEAN
        /\ hello \in BOOLEAN /\ garbled \in BOOLEAN
        /\ waiter \in {"idle", "waiting", "greeted", "failed"}
        /\ link \in {"none", "connecting", "open"}
    BY DEF SocketInit
  <2>6. /\ executed \subseteq Commands /\ owed \subseteq executed /\ records \subseteq Mutating
        /\ forgotten \subseteq Mutating /\ ackLost \subseteq Mutating /\ faults \in Nat
    BY DEF SocketInit
  <2> QED BY <2>1, <2>2, <2>3, <2>4, <2>5, <2>6 DEF SocketTypeOK
<1>3. Sockets /\ Waiters
  BY <1>1 DEF SocketInit, Sockets, Waiters
<1>4. Sent /\ Answers /\ Released /\ Settled
  BY <1>1, LinesEmpty, DaemonSocketAssumption DEF SocketInit, Sent, Answers, Released, Settled
<1> QED BY <1>2, <1>3, <1>4 DEF IInv, Ledger

LEMMA Opening ==
  ASSUME IInv, Connect \/ Reconnect \/ Opened \/ WaitForHello \/ HelloTimesOut
  PROVE  IInv'
<1>1. /\ UNCHANGED <<permanent, verdict, pending, unknown, toDaemon, daemon, forgotten,
                     ackLost, faults>>
      /\ SocketTypeOK /\ Sockets /\ Waiters /\ Ledger
  BY DEF Connect, Reconnect, Opened, WaitForHello, HelloTimesOut, IInv, daemon
<1>2. Members(<<[type |-> "hello"]>>) = {[type |-> "hello"]}
  BY DEF Members
<1>3. ResponsesIn(<<[type |-> "hello"]>>) = {}
  BY <1>2 DEF ResponsesIn
<1>4. toFleet' = toFleet \/ toFleet' = <<[type |-> "hello"]>>
  BY DEF Connect, Reconnect, Opened, WaitForHello, HelloTimesOut
<1>5. SocketTypeOK'
  <2>1. toFleet' \in Seq(Frame)
    BY <1>1, <1>4, HelloTyped DEF SocketTypeOK
  <2>2. /\ link' \in {"none", "connecting", "open"}
        /\ closedError' \in BOOLEAN /\ hello' \in BOOLEAN /\ garbled' \in BOOLEAN
        /\ waiter' \in {"idle", "waiting", "greeted", "failed"}
    BY <1>1 DEF Connect, Reconnect, Opened, WaitForHello, HelloTimesOut, SocketTypeOK
  <2> QED BY <1>1, <2>1, <2>2 DEF SocketTypeOK, daemon
<1>6. Sockets'
  <2>1. CASE Connect
    BY <1>1, <2>1, Primes DEF Connect, Sockets
  <2>2. CASE Reconnect
    BY <1>1, <2>2, Primes DEF Reconnect, Sockets
  <2>3. CASE Opened
    BY <1>1, <1>2, <2>3, Primes DEF Opened, Sockets
  <2>4. CASE WaitForHello \/ HelloTimesOut
    BY <1>1, <2>4, Primes DEF WaitForHello, HelloTimesOut, Sockets
  <2> QED BY <2>1, <2>2, <2>3, <2>4
<1>7. Waiters'
  BY <1>1 DEF Waiters, Members
<1>8. Ledger'
  <2>1. ResponsesIn(toFleet') \subseteq executed
    BY <1>1, <1>3, <1>4 DEF Ledger, Answers
  <2> QED BY <1>1, <2>1, LedgerSame DEF daemon
<1> QED BY <1>5, <1>6, <1>7, <1>8 DEF IInv

LEMMA Failing ==
  ASSUME IInv, SocketFails \/ Close
  PROVE  IInv'
<1>1. /\ Fail /\ LoseSocket /\ UNCHANGED <<hello, daemon>>
      /\ permanent' \in BOOLEAN /\ faults' \in Nat
      /\ SocketTypeOK /\ Sockets /\ Waiters /\ Ledger
  <2>1. CASE SocketFails
    BY <2>1 DEF SocketFails, IInv, SocketTypeOK
  <2>2. CASE Close
    BY <2>2 DEF Close, IInv, SocketTypeOK
  <2> QED BY <2>1, <2>2
<1> DEFINE D == {c \in Commands : verdict[c] = "waiting"}
<1>2. /\ Doubted(D) /\ DoubtTyped
      /\ pending' = <<>> /\ closedError' = TRUE
      /\ waiter' \in {"idle", "waiting", "greeted", "failed"}
  BY <1>1, FailEffect
<1>3. /\ link' = "none" /\ toDaemon' = <<>> /\ toFleet' = <<>>
      /\ ackLost' = ackLost \union AcksIn(toDaemon)
      /\ garbled' \in BOOLEAN
  BY <1>1, LoseSocketEffect
<1>4. AcksIn(toDaemon) \subseteq Mutating
  BY <1>1 DEF Ledger, Released
<1>5. SocketTypeOK'
  BY <1>1, <1>2, <1>3, <1>4 DEF SocketTypeOK, DoubtTyped, daemon
<1>6. Sockets'
  BY <1>2, <1>3 DEF Sockets
<1>7. Waiters'
  <2>1. Members(pending)' = {}
    BY <1>2 DEF Members
  <2>2. \A c \in Commands : verdict'[c] # "waiting"
    BY <1>2 DEF Doubted
  <2> QED BY <2>1, <2>2 DEF Waiters
<1>8. Ledger'
  <2>1. ResponsesIn(toFleet') = {}
    BY <1>3 DEF ResponsesIn, Members
  <2>2. \A c \in D : verdict[c] \in {"none", "waiting"}
    OBVIOUS
  <2>3. /\ Once(toDaemon') /\ CommandsIn(toDaemon') = {} /\ AcksIn(toDaemon') = {}
        /\ UNCHANGED <<executed, records>> /\ D \in SUBSET Commands
    BY <1>1, <1>3, LinesEmpty DEF daemon
  <2> HIDE DEF D
  <2> QED BY <1>1, <1>2, <1>3, <2>1, <2>2, <2>3, LedgerDoubted
<1> QED BY <1>5, <1>6, <1>7, <1>8 DEF IInv

LEMMA Timing ==
  ASSUME IInv, NEW c \in Commands, RequestTimesOut(c)
  PROVE  IInv'
<1>1. SocketTypeOK /\ Sockets /\ Waiters /\ Ledger
  BY DEF IInv
<1>2. /\ Doubted({c}) /\ DoubtTyped
      /\ pending' \in Seq(Commands) /\ Members(pending)' = Members(pending) \ {c}
      /\ c \in Members(pending)
  BY <1>1, TimeoutEffect
<1>3. UNCHANGED <<client, toDaemon, toFleet, daemon, ackLost, faults>>
  BY DEF RequestTimesOut
<1>4. SocketTypeOK'
  BY <1>1, <1>2, <1>3 DEF SocketTypeOK, DoubtTyped, client, daemon
<1>5. pending # <<>>
  BY <1>2 DEF Members
<1>6. Sockets'
  BY <1>1, <1>3, <1>5, Primes DEF Sockets, client
<1>7. Waiters'
  BY <1>1, <1>2 DEF Waiters, Doubted
<1>8. Ledger'
  <2>1. \A d \in {c} : verdict[d] \in {"none", "waiting"}
    BY <1>1, <1>2 DEF Waiters
  <2>2. /\ Once(toDaemon') /\ CommandsIn(toDaemon') = CommandsIn(toDaemon)
        /\ AcksIn(toDaemon') = AcksIn(toDaemon) /\ ResponsesIn(toFleet') = ResponsesIn(toFleet)
        /\ UNCHANGED <<executed, records, ackLost>>
    BY <1>1, <1>3 DEF Ledger, Sent, daemon
  <2> QED BY <1>1, <1>2, <2>1, <2>2, LedgerDoubted
<1> QED BY <1>4, <1>6, <1>7, <1>8 DEF IInv

LEMMA Throwing ==
  ASSUME IInv, NEW c \in Commands, WriteFails(c)
  PROVE  IInv'
<1>1. SocketTypeOK /\ Sockets /\ Waiters /\ Ledger
  BY DEF IInv
<1>2. Doubted({c}) /\ DoubtTyped
  BY <1>1, WriteFailsEffect
<1>3. /\ UNCHANGED <<client, pending, toDaemon, toFleet, daemon, ackLost>>
      /\ faults' = faults + 1 /\ verdict[c] = "none"
  BY DEF WriteFails
<1>4. SocketTypeOK'
  BY <1>1, <1>2, <1>3 DEF SocketTypeOK, DoubtTyped, client, daemon
<1>5. Sockets'
  BY <1>1, <1>3, Primes DEF Sockets, client
<1>6. Waiters'
  BY <1>1, <1>2, <1>3, Primes DEF Waiters, Doubted
<1>7. Ledger'
  <2>1. /\ Once(toDaemon') /\ CommandsIn(toDaemon') = CommandsIn(toDaemon)
        /\ AcksIn(toDaemon') = AcksIn(toDaemon) /\ ResponsesIn(toFleet') = ResponsesIn(toFleet)
        /\ UNCHANGED <<executed, records, ackLost>>
    BY <1>1, <1>3 DEF Ledger, Sent, daemon
  <2> QED BY <1>1, <1>2, <1>3, <2>1, LedgerDoubted
<1> QED BY <1>4, <1>5, <1>6, <1>7 DEF IInv

LEMMA Sending ==
  ASSUME IInv, NEW c \in Commands, SendRequest(c)
  PROVE  IInv'
<1>1. SocketTypeOK /\ Sockets /\ Waiters /\ Ledger
  BY DEF IInv
<1>2. /\ verdict[c] = "none"
      /\ UNCHANGED <<client, unknown, toFleet, daemon, forgotten, ackLost, faults>>
  BY DEF SendRequest
<1>3. c \notin CommandsIn(toDaemon) \union executed
  BY <1>1, <1>2 DEF Ledger, Sent
<1>4. /\ CommandsIn(toDaemon) \subseteq Commands /\ AcksIn(toDaemon) \subseteq Commands
      /\ executed \subseteq Commands /\ Mutating \subseteq Commands
      /\ Members(unknown) \subseteq Mutating
  BY <1>1, LinesTyped, MembersOf, DaemonSocketAssumption DEF SocketTypeOK
<1>5. CASE verdict' = [verdict EXCEPT ![c] = "failed"] /\ (link = "none" \/ closedError)
             /\ UNCHANGED <<pending, toDaemon>>
  <2>1. link = "none" /\ toDaemon = <<>>
    BY <1>1, <1>5 DEF Sockets
  <2>2. \A d \in Commands : verdict'[d] = IF d = c THEN "failed" ELSE verdict[d]
    BY <1>1, <1>5 DEF SocketTypeOK
  <2>3. SocketTypeOK'
    BY <1>1, <1>2, <1>5 DEF SocketTypeOK, client, daemon, Outcome!Verdicts, Outcome!Open
  <2>4. Sockets'
    BY <1>1, <1>2, <1>5, Primes DEF Sockets, client
  <2>5. Waiters'
    BY <1>1, <1>2, <1>5, <2>2, Primes DEF Waiters
  <2>6. Sent'
    BY <1>1, <1>2, <1>3, <1>4, <1>5, <2>2, Primes DEF Ledger, Sent, daemon
  <2>7. Answers'
    BY <1>1, <1>2, <1>5, <2>2, Primes DEF Ledger, Answers, daemon
  <2>8. Released'
    BY <1>1, <1>2, <1>3, <1>4, <1>5, <2>2, Primes DEF Ledger, Released, daemon
  <2>9. Settled'
    BY <1>1, <1>2, <1>4, <1>5, <2>2, Primes DEF Ledger, Settled, daemon
  <2> QED BY <2>3, <2>4, <2>5, <2>6, <2>7, <2>8, <2>9 DEF IInv, Ledger
<1>6. CASE verdict' = [verdict EXCEPT ![c] = "waiting"] /\ link # "none" /\ ~closedError
             /\ pending' = Append(pending, c)
             /\ toDaemon' = Append(toDaemon, [type |-> "command", of |-> c])
  <2>1. /\ toDaemon' \in Seq(Request) /\ Once(toDaemon')
        /\ AcksIn(toDaemon') = AcksIn(toDaemon)
        /\ CommandsIn(toDaemon') = CommandsIn(toDaemon) \union {c}
    BY <1>1, <1>3, <1>6, CommandWritten DEF Ledger, Sent, SocketTypeOK
  <2>2. pending' \in Seq(Commands) /\ Members(pending') = Members(pending) \union {c}
    BY <1>1, <1>6, MembersOfAppend DEF SocketTypeOK
  <2>3. \A d \in Commands : verdict'[d] = IF d = c THEN "waiting" ELSE verdict[d]
    BY <1>1, <1>6 DEF SocketTypeOK
  <2>4. SocketTypeOK'
    BY <1>1, <1>2, <1>6, <2>1, <2>2 DEF SocketTypeOK, client, daemon, Outcome!Verdicts, Outcome!Open
  <2>5. Sockets'
    BY <1>1, <1>2, <1>6, Primes DEF Sockets, client
  <2>6. Waiters'
    BY <1>1, <2>2, <2>3, Primes DEF Waiters
  <2>7. Sent'
    BY <1>1, <1>2, <1>3, <1>4, <2>1, <2>3, Primes DEF Ledger, Sent, daemon
  <2>8. Answers'
    BY <1>1, <1>2, <2>3, Primes DEF Ledger, Answers, daemon
  <2>9. Released'
    BY <1>1, <1>2, <1>3, <1>4, <2>1, <2>3, Primes DEF Ledger, Released, daemon
  <2>10. Settled'
    BY <1>1, <1>2, <1>4, <2>1, <2>3, Primes DEF Ledger, Settled, daemon
  <2> QED BY <2>4, <2>5, <2>6, <2>7, <2>8, <2>9, <2>10 DEF IInv, Ledger
<1> QED BY <1>5, <1>6 DEF SendRequest

(* A response of a command that ran: to its caller, late, or to nobody.      *)
LEMMA Responding ==
  ASSUME IInv, NEW c \in executed, ReadResponse(c),
         toFleet' \in Seq(Frame), ResponsesIn(toFleet') \subseteq executed,
         UNCHANGED <<link, closedError, permanent, hello, waiter, daemon, forgotten, ackLost,
                     faults>>,
         link = "open", ~closedError, garbled' = FALSE,
         hello \/ [type |-> "hello"] \in Members(toFleet')
  PROVE  IInv'
<1>1. SocketTypeOK /\ Sockets /\ Waiters /\ Ledger
  BY DEF IInv
<1>2. /\ CommandsIn(toDaemon) \subseteq Commands /\ AcksIn(toDaemon) \subseteq Commands
      /\ executed \subseteq Commands /\ Mutating \subseteq Commands /\ c \in Commands
      /\ Members(unknown) \subseteq Mutating
  BY <1>1, LinesTyped, MembersOf, DaemonSocketAssumption DEF SocketTypeOK
<1>3. /\ Without(unknown, c) \in Seq(Mutating) /\ Len(Without(unknown, c)) <= Len(unknown)
      /\ Members(Without(unknown, c)) = Members(unknown) \ {c}
      /\ Without(pending, c) \in Seq(Commands)
      /\ Members(Without(pending, c)) = Members(pending) \ {c}
  BY <1>1, WithoutMembers DEF SocketTypeOK
<1>4. LET t == Append(toDaemon, [type |-> "ack", of |-> c])
      IN  /\ t \in Seq(Request) /\ Once(t) /\ CommandsIn(t) = CommandsIn(toDaemon)
          /\ AcksIn(t) = AcksIn(toDaemon) \union {c}
  BY <1>1, <1>2, AckWritten DEF SocketTypeOK, Ledger, Sent
<1>5. Sockets'
  BY <1>1, Primes DEF Sockets
<1>6. CASE /\ c \in Members(pending) /\ pending' = Without(pending, c)
           /\ verdict' = [verdict EXCEPT ![c] = "answered"]
           /\ toDaemon' = IF c \in Mutating THEN Append(toDaemon, [type |-> "ack", of |-> c])
                          ELSE toDaemon
           /\ UNCHANGED unknown
  <2>1. verdict[c] = "waiting" /\ c \notin Members(unknown)
    BY <1>1, <1>2, <1>6 DEF Waiters, Ledger, Released
  <2>2. \A d \in Commands : verdict'[d] = IF d = c THEN "answered" ELSE verdict[d]
    BY <1>1, <1>6 DEF SocketTypeOK
  <2>3. /\ toDaemon' \in Seq(Request) /\ Once(toDaemon')
        /\ CommandsIn(toDaemon') = CommandsIn(toDaemon)
        /\ AcksIn(toDaemon') = AcksIn(toDaemon) \union ({c} \intersect Mutating)
    BY <1>1, <1>4, <1>6 DEF SocketTypeOK, Ledger, Sent
  <2>4. SocketTypeOK'
    BY <1>1, <1>3, <1>6, <2>3 DEF SocketTypeOK, daemon, Outcome!Verdicts, Outcome!Open
  <2>5. Waiters'
    BY <1>1, <1>3, <1>6, <2>2, Primes DEF Waiters
  <2>6. Sent'
    BY <1>1, <1>2, <2>2, <2>3, Primes DEF Ledger, Sent, daemon
  <2>7. Answers'
    BY <1>1, <1>2, <2>2, Primes DEF Ledger, Answers, daemon
  <2>8. Released'
    BY <1>1, <1>2, <1>6, <2>1, <2>2, <2>3, Primes DEF Ledger, Released, daemon
  <2>9. Settled'
    BY <1>1, <1>2, <1>6, <2>2, <2>3, Primes DEF Ledger, Settled, daemon
  <2> QED BY <1>5, <2>4, <2>5, <2>6, <2>7, <2>8, <2>9 DEF IInv, Ledger
<1>7. CASE /\ c \notin Members(pending) /\ c \in Members(unknown) /\ ReadLate(c)
           /\ UNCHANGED <<pending, verdict>>
  <2>1. verdict[c] = "unknown" /\ c \in Mutating /\ unknown' = Without(unknown, c)
    BY <1>1, <1>2, <1>7 DEF Ledger, Released, ReadLate
  <2>2. Members(unknown') = Members(unknown) \ {c}
    BY <1>3, <2>1
  <2>3. /\ toDaemon' \in Seq(Request) /\ Once(toDaemon')
        /\ CommandsIn(toDaemon') = CommandsIn(toDaemon)
        /\ AcksIn(toDaemon') = AcksIn(toDaemon) \union {c}
    BY <1>4, <1>7 DEF ReadLate
  <2>4. SocketTypeOK'
    <3>1. unknown' \in Seq(Mutating) /\ Len(unknown') <= Len(unknown)
      BY <1>3, <2>1
    <3>2. Len(unknown') <= OutcomeLimit
      BY <1>1, <3>1, DaemonSocketAssumption DEF SocketTypeOK
    <3> QED BY <1>1, <1>7, <2>3, <3>1, <3>2 DEF SocketTypeOK, daemon
  <2>5. Waiters'
    BY <1>1, <1>7, Primes DEF Waiters
  <2>6. Sent'
    BY <1>1, <1>7, <2>3, Primes DEF Ledger, Sent, daemon
  <2>7. Answers'
    BY <1>1, <1>7, Primes DEF Ledger, Answers, daemon
  <2>8. Released'
    BY <1>1, <1>2, <1>7, <2>1, <2>2, <2>3, Primes DEF Ledger, Released, daemon
  <2>9. Settled'
    BY <1>1, <1>2, <1>7, <2>1, <2>2, <2>3, Primes DEF Ledger, Settled, daemon
  <2> QED BY <1>5, <2>4, <2>5, <2>6, <2>7, <2>8, <2>9 DEF IInv, Ledger
<1>8. CASE UNCHANGED <<pending, verdict, unknown, toDaemon>>
  <2>1. SocketTypeOK'
    BY <1>1, <1>8 DEF SocketTypeOK, daemon
  <2>2. Waiters'
    BY <1>1, <1>8, Primes DEF Waiters
  <2>3. Ledger'
    BY <1>1, <1>8, LedgerSame DEF daemon
  <2> QED BY <1>5, <2>1, <2>2, <2>3 DEF IInv
<1> QED BY <1>6, <1>7, <1>8 DEF ReadResponse

LEMMA Reading ==
  ASSUME IInv, ReadFrame
  PROVE  IInv'
<1>1. SocketTypeOK /\ Sockets /\ Waiters /\ Ledger
  BY DEF IInv
<1> DEFINE frame == Head(toFleet)
<1>2. /\ link = "open" /\ toFleet # <<>> /\ toFleet' = Tail(toFleet) /\ garbled' = FALSE
      /\ UNCHANGED <<link, closedError, permanent, daemon, forgotten, ackLost, faults>>
  BY DEF ReadFrame
<1>3. ~closedError /\ ~garbled
  BY <1>1, <1>2 DEF Sockets
<1>4. /\ frame \in Frame /\ toFleet' \in Seq(Frame)
      /\ Members(toFleet) = {frame} \union Members(toFleet')
  BY <1>1, <1>2, MembersOfTail DEF SocketTypeOK
<1>5. /\ ResponsesIn(toFleet') \subseteq ResponsesIn(toFleet)
      /\ frame.type = "response" => frame.of \in ResponsesIn(toFleet)
  BY <1>1, <1>2, ResponsesOf DEF SocketTypeOK
<1>6. ResponsesIn(toFleet') \subseteq executed
  BY <1>1, <1>5 DEF Ledger, Answers
<1>7. CASE /\ frame.type = "hello" /\ hello' = TRUE
           /\ waiter' = IF waiter = "waiting" THEN "greeted" ELSE waiter
           /\ UNCHANGED <<pending, verdict, unknown, toDaemon>>
  <2>1. SocketTypeOK'
    BY <1>1, <1>2, <1>4, <1>7 DEF SocketTypeOK, daemon
  <2>2. Sockets'
    BY <1>1, <1>2, <1>3, <1>7, Primes DEF Sockets
  <2>3. Waiters'
    BY <1>1, <1>7, Primes DEF Waiters
  <2>4. Ledger'
    BY <1>1, <1>2, <1>6, <1>7, LedgerSame DEF daemon
  <2> QED BY <2>1, <2>2, <2>3, <2>4 DEF IInv
<1>8. CASE /\ frame.type = "response" /\ ReadResponse(frame.of)
           /\ UNCHANGED <<hello, waiter>>
  <2>1. frame.of \in executed
    BY <1>1, <1>5, <1>8 DEF Ledger, Answers
  <2>2. frame # [type |-> "hello"]
    BY <1>8
  <2>3. hello \/ [type |-> "hello"] \in Members(toFleet')
    BY <1>1, <1>2, <1>4, <2>2 DEF Sockets
  <2> HIDE DEF frame
  <2> QED BY <1>2, <1>3, <1>4, <1>6, <1>8, <2>1, <2>3, Responding
<1> QED BY <1>3, <1>7, <1>8 DEF ReadFrame

LEMMA Taking ==
  ASSUME IInv, DaemonTakes
  PROVE  IInv'
<1>1. SocketTypeOK /\ Sockets /\ Waiters /\ Ledger
  BY DEF IInv
<1> DEFINE m == Head(toDaemon)
<1>2. /\ link = "open" /\ toDaemon # <<>> /\ toDaemon' = Tail(toDaemon)
      /\ UNCHANGED <<client, verdict, pending, unknown, toFleet, forgotten, ackLost, faults>>
  BY DEF DaemonTakes
<1>3. /\ m \in Request /\ toDaemon' \in Seq(Request) /\ Once(toDaemon')
      /\ m.type = "command" =>
           /\ AcksIn(toDaemon') = AcksIn(toDaemon)
           /\ m.of \in CommandsIn(toDaemon)
           /\ CommandsIn(toDaemon') = CommandsIn(toDaemon) \ {m.of}
      /\ m.type = "ack" =>
           /\ CommandsIn(toDaemon') = CommandsIn(toDaemon)
           /\ AcksIn(toDaemon) = AcksIn(toDaemon') \union {m.of}
  BY <1>1, <1>2, LineTaken DEF SocketTypeOK, Ledger, Sent
<1>4. /\ CommandsIn(toDaemon) \subseteq Commands /\ AcksIn(toDaemon) \subseteq Commands
      /\ executed \subseteq Commands /\ Mutating \subseteq Commands
      /\ Members(unknown) \subseteq Mutating
  BY <1>1, LinesTyped, MembersOf, DaemonSocketAssumption DEF SocketTypeOK
<1>5. Sockets' /\ Waiters'
  BY <1>1, <1>2, Primes DEF Sockets, Waiters, client
<1>6. CASE /\ m.type = "command"
           /\ executed' = executed \union {m.of} /\ owed' = owed \union {m.of}
           /\ records' = IF m.of \in Mutating THEN records \union {m.of} ELSE records
  <2> DEFINE c == m.of
  <2>1. c \in CommandsIn(toDaemon) /\ c \notin executed /\ c \in Commands
    BY <1>1, <1>3, <1>4, <1>6 DEF Ledger, Sent
  <2>2. AcksIn(toDaemon') = AcksIn(toDaemon) /\ CommandsIn(toDaemon') = CommandsIn(toDaemon) \ {c}
    BY <1>3, <1>6
  <2>3. /\ executed' = executed \union {c} /\ owed' = owed \union {c}
        /\ records' = IF c \in Mutating THEN records \union {c} ELSE records
    BY <1>6
  <2> HIDE DEF c, m
  <2>4. SocketTypeOK'
    BY <1>1, <1>2, <1>3, <2>1, <2>3 DEF SocketTypeOK, client
  <2>5. Sent'
    BY <1>1, <1>2, <1>3, <2>1, <2>2, <2>3, Primes DEF Ledger, Sent
  <2>6. Answers'
    BY <1>1, <1>2, <2>1, <2>3, Primes DEF Ledger, Answers
  <2>7. Released'
    BY <1>1, <1>2, <1>4, <2>1, <2>2, <2>3, Primes DEF Ledger, Released
  <2>8. Settled'
    BY <1>1, <1>2, <1>4, <2>1, <2>2, <2>3, Primes DEF Ledger, Settled, Answers
  <2> QED BY <1>5, <2>4, <2>5, <2>6, <2>7, <2>8 DEF IInv, Ledger
<1>7. CASE /\ m.type = "ack" /\ records' = records \ {m.of} /\ UNCHANGED <<executed, owed>>
  <2> DEFINE c == m.of
  <2>1. AcksIn(toDaemon) = AcksIn(toDaemon') \union {c} /\ CommandsIn(toDaemon') = CommandsIn(toDaemon)
    BY <1>3, <1>7
  <2>2. records' = records \ {c} /\ UNCHANGED <<executed, owed>>
    BY <1>7
  <2> HIDE DEF c, m
  <2>3. c \in AcksIn(toDaemon) /\ c \in executed /\ c \in Mutating
    BY <1>1, <2>1 DEF Ledger, Released
  <2>4. SocketTypeOK'
    BY <1>1, <1>2, <1>3, <2>2 DEF SocketTypeOK, client
  <2>5. Sent'
    BY <1>1, <1>2, <1>3, <2>1, <2>2, Primes DEF Ledger, Sent
  <2>6. Answers'
    BY <1>1, <1>2, <2>2, Primes DEF Ledger, Answers
  <2>7. Released'
    BY <1>1, <1>2, <1>4, <2>1, <2>2, <2>3, Primes DEF Ledger, Released
  <2>8. Settled'
    BY <1>1, <1>2, <1>4, <2>1, <2>2, <2>3, Primes DEF Ledger, Settled
  <2> QED BY <1>5, <2>4, <2>5, <2>6, <2>7, <2>8 DEF IInv, Ledger
<1> QED BY <1>6, <1>7 DEF DaemonTakes

LEMMA Answering ==
  ASSUME IInv, NEW c \in Commands, DaemonAnswers(c) \/ DaemonReplays(c)
  PROVE  IInv'
<1>1. SocketTypeOK /\ Sockets /\ Waiters /\ Ledger
  BY DEF IInv
<1> DEFINE response == [type |-> "response", of |-> c]
<1>2. /\ UNCHANGED <<client, verdict, pending, unknown, toDaemon, executed, records, forgotten,
                     ackLost, faults>>
      /\ owed' \subseteq owed /\ c \in executed
      /\ toFleet' = toFleet \/ (link = "open" /\ toFleet' = Append(toFleet, response))
  BY <1>1 DEF DaemonAnswers, DaemonReplays, daemon, SocketTypeOK, Ledger, Answers
<1>3. response \in Frame /\ response.type = "response" /\ response.of = c
  BY ResponseTyped
<1> HIDE DEF response
<1>4. /\ toFleet' \in Seq(Frame) /\ Members(toFleet) \subseteq Members(toFleet')
      /\ ResponsesIn(toFleet') \subseteq ResponsesIn(toFleet) \union {c}
  <2>1. CASE toFleet' = toFleet
    BY <1>1, <2>1 DEF SocketTypeOK
  <2>2. CASE toFleet' = Append(toFleet, response)
    BY <1>1, <1>3, <2>2, ResponsesOf, MembersOfAppend DEF SocketTypeOK
  <2> QED BY <1>2, <2>1, <2>2
<1>5. SocketTypeOK'
  BY <1>1, <1>2, <1>4 DEF SocketTypeOK, client
<1>6. Sockets'
  BY <1>1, <1>2, <1>4, Primes DEF Sockets, client
<1>7. Waiters'
  BY <1>1, <1>2, Primes DEF Waiters
<1>8. Ledger'
  <2>1. ResponsesIn(toFleet') \subseteq executed
    BY <1>1, <1>2, <1>4 DEF Ledger, Answers
  <2> QED BY <1>1, <1>2, <2>1, LedgerSame
<1> QED BY <1>5, <1>6, <1>7, <1>8 DEF IInv

LEMMA Stuttering ==
  ASSUME IInv, UNCHANGED socketVars
  PROVE  IInv'
<1>1. SocketTypeOK'
  BY DEF IInv, SocketTypeOK, socketVars, client, daemon
<1>2. Sockets' /\ Waiters'
  BY Primes DEF IInv, Sockets, Waiters, socketVars, client, daemon
<1>3. Ledger'
  BY LedgerSame DEF IInv, Ledger, Answers, socketVars, client, daemon
<1> QED BY <1>1, <1>2, <1>3 DEF IInv

LEMMA StepInvariant == IInv /\ [SocketNext]_socketVars => IInv'
<1>1. SUFFICES ASSUME IInv, [SocketNext]_socketVars PROVE IInv'
  OBVIOUS
<1>2. CASE Connection
  BY <1>1, <1>2, Opening, Failing DEF Connection
<1>3. CASE Requests
  BY <1>1, <1>3, Sending, Throwing, Timing DEF Requests
<1>4. CASE WaitForHello \/ HelloTimesOut
  BY <1>1, <1>4, Opening
<1>5. CASE ReadFrame
  BY <1>1, <1>5, Reading
<1>6. CASE DaemonTakes
  BY <1>1, <1>6, Taking
<1>7. CASE \E c \in Commands : DaemonAnswers(c) \/ DaemonReplays(c)
  BY <1>1, <1>7, Answering
<1>8. CASE UNCHANGED socketVars
  BY <1>1, <1>8, Stuttering
<1> QED BY <1>1, <1>2, <1>3, <1>4, <1>5, <1>6, <1>7, <1>8 DEF SocketNext

LEMMA Invariant == SocketSpec => []IInv
BY Initially, StepInvariant, PTL DEF SocketSpec

------------------------------------------------------------------------------
(* Theorems                                                                  *)

(* Every variable of the client and of the wire keeps its type; the map of   *)
(* unknown outcomes keeps its bound over every failure, timer and late       *)
(* answer (#rememberUnknownOutcome).                                         *)
THEOREM TypeCorrect == SocketSpec => []SocketTypeOK
BY Invariant, PTL DEF IInv

(* A mutating command that ran and whose record the daemon dropped was       *)
(* answered to its caller, or late to one who had been told "unknown": the   *)
(* client acknowledges nothing else.                                         *)
THEOREM RecordsKept == SocketSpec => []RecordsOutliveDoubt
<1>1. IInv => RecordsOutliveDoubt
  BY DEF IInv, Ledger, Released, RecordsOutliveDoubt
<1> QED BY <1>1, Invariant, PTL

(* The daemon is left with no record nobody will acknowledge, but for those  *)
(* whose acknowledgement was lost with a socket and those pushed out of the  *)
(* bounded map of unknown outcomes.                                          *)
THEOREM RecordsReleased == SocketSpec => []RecordsAccounted
<1>1. ASSUME IInv, NEW c \in records
      PROVE  \/ c \in Members(pending) \union Members(unknown)
             \/ c \in Acks
             \/ c \in ackLost \union forgotten
  <2>1. c \in executed /\ c \in Mutating /\ c \in Commands
    BY <1>1, DaemonSocketAssumption DEF IInv, Ledger, Answers, SocketTypeOK
  <2>2. verdict[c] \in {"waiting", "answered", "unknown"}
    BY <1>1, <2>1 DEF IInv, Ledger, Sent, SocketTypeOK, Outcome!Verdicts, Outcome!Open
  <2>3. Acks = AcksIn(toDaemon)
    BY DEF Acks, AcksIn
  <2>4. CASE verdict[c] = "waiting"
    BY <1>1, <2>1, <2>4 DEF IInv, Waiters
  <2>5. CASE verdict[c] \in {"answered", "unknown"}
    BY <1>1, <2>1, <2>3, <2>5 DEF IInv, Ledger, Settled
  <2> QED BY <2>2, <2>4, <2>5
<1>2. IInv => RecordsAccounted
  BY <1>1 DEF RecordsAccounted
<1> QED BY <1>2, Invariant, PTL

(* On an open socket the client has read the daemon's hello or has it still  *)
(* to read: no leftover of an earlier socket swallows it, since reconnect()  *)
(* empties the decode buffer and is the only way back from a failure.        *)
THEOREM GreetingHeard == SocketSpec => []GreetingUnderstood
<1>1. IInv => GreetingUnderstood
  BY DEF IInv, Sockets, GreetingUnderstood
<1> QED BY <1>1, Invariant, PTL

(* Telling the callers in D of a failure is a Settle of the promise.         *)
LEMMA DoubtSettles ==
  ASSUME SocketTypeOK, Ledger, NEW D \in SUBSET Commands, Doubted(D), DoubtTyped,
         \A c \in D : verdict[c] = "waiting" \/ (verdict[c] = "none" /\ c \in Commands),
         UNCHANGED executed
  PROVE  Outcome!Next
<1> DEFINE told == [c \in D |-> verdict'[c]]
<1>1. \A c \in D : /\ verdict'[c] \in {"failed", "unknown"}
                   /\ c \in Mutating => verdict'[c] = "unknown"
  BY DEF Doubted
<1>2. told \in [D -> {"answered", "failed", "unknown"}]
  BY <1>1
<1>3. /\ \A c \in D : told[c] = "answered" => c \in executed
      /\ \A c \in D \intersect Mutating : told[c] = "failed" => verdict[c] = "none"
  BY <1>1
<1>4. verdict' = [c \in Commands |-> IF c \in D THEN told[c] ELSE verdict[c]]
  BY DEF Doubted, DoubtTyped
<1>5. \A c \in D : verdict[c] \in Outcome!Open
  BY DEF Outcome!Open
<1> HIDE DEF told
<1>6. Outcome!Settle(D)
  BY <1>2, <1>3, <1>4, <1>5 DEF Outcome!Settle
<1> QED BY <1>6 DEF Outcome!Next

(* Every step of the client and the daemon is a step of the promise or none. *)
LEMMA StepImplements ==
  ASSUME IInv, [SocketNext]_socketVars
  PROVE  [Outcome!Next]_<<executed, verdict>>
<1>1. SocketTypeOK /\ Sockets /\ Waiters /\ Ledger
  BY DEF IInv
<1>2. CASE Connect \/ Reconnect \/ Opened \/ WaitForHello \/ HelloTimesOut
  BY <1>2 DEF Connect, Reconnect, Opened, WaitForHello, HelloTimesOut, daemon
<1>3. CASE SocketFails \/ Close
  <2>1. Fail /\ UNCHANGED executed
    BY <1>3 DEF SocketFails, Close, daemon
  <2> DEFINE D == {c \in Commands : verdict[c] = "waiting"}
  <2>2. Doubted(D) /\ DoubtTyped
    BY <1>1, <2>1, FailEffect
  <2>3. D \in SUBSET Commands /\ \A c \in D : verdict[c] = "waiting"
    OBVIOUS
  <2> HIDE DEF D
  <2> QED BY <1>1, <2>1, <2>2, <2>3, DoubtSettles
<1>4. ASSUME NEW c \in Commands, SendRequest(c)
      PROVE  Outcome!Next
  <2>1. verdict[c] = "none" /\ UNCHANGED executed
    BY <1>4 DEF SendRequest, daemon
  <2>2. CASE verdict' = [verdict EXCEPT ![c] = "waiting"]
    BY <2>1, <2>2 DEF Outcome!Next, Outcome!Send
  <2>3. CASE verdict' = [verdict EXCEPT ![c] = "failed"]
    <3> DEFINE told == [d \in {c} |-> "failed"]
    <3>1. told \in [{c} -> {"answered", "failed", "unknown"}] /\ told[c] = "failed"
      OBVIOUS
    <3>2. verdict' = [d \in Commands |-> IF d \in {c} THEN told[d] ELSE verdict[d]]
      BY <1>1, <2>3 DEF SocketTypeOK
    <3>3. verdict[c] \in Outcome!Open
      BY <2>1 DEF Outcome!Open
    <3> HIDE DEF told
    <3>4. Outcome!Settle({c})
      BY <2>1, <3>1, <3>2, <3>3 DEF Outcome!Settle
    <3>5. {c} \in SUBSET Commands
      OBVIOUS
    <3> QED BY <3>4, <3>5 DEF Outcome!Next
  <2> QED BY <1>4, <2>2, <2>3 DEF SendRequest
<1>5. ASSUME NEW c \in Commands, WriteFails(c) \/ RequestTimesOut(c)
      PROVE  Outcome!Next
  <2>1. Doubted({c}) /\ DoubtTyped /\ UNCHANGED executed
    BY <1>1, <1>5, WriteFailsEffect, TimeoutEffect DEF WriteFails, RequestTimesOut, daemon
  <2>2. verdict[c] = "none" \/ verdict[c] = "waiting"
    BY <1>1, <1>5 DEF WriteFails, RequestTimesOut, Waiters
  <2>3. {c} \in SUBSET Commands
    OBVIOUS
  <2> QED BY <1>1, <2>1, <2>2, <2>3, DoubtSettles
<1>6. ASSUME ReadFrame
      PROVE  [Outcome!Next]_<<executed, verdict>>
  <2> DEFINE c == Head(toFleet).of
  <2>1. UNCHANGED executed
    BY <1>6 DEF ReadFrame, daemon
  <2>2. CASE UNCHANGED verdict
    BY <2>1, <2>2
  <2>3. CASE /\ Head(toFleet).type = "response" /\ c \in Members(pending)
             /\ verdict' = [verdict EXCEPT ![c] = "answered"]
    <3>1. toFleet \in Seq(Frame) /\ toFleet # <<>>
      BY <1>1, <1>6 DEF ReadFrame, SocketTypeOK
    <3>2. c \in executed
      BY <1>1, <2>3, <3>1, ResponsesOf DEF Ledger, Answers
    <3>3. c \in Commands
      BY <1>1, <3>2 DEF SocketTypeOK
    <3> HIDE DEF c
    <3> DEFINE told == [d \in {c} |-> "answered"]
    <3>4. told \in [{c} -> {"answered", "failed", "unknown"}] /\ told[c] = "answered"
      OBVIOUS
    <3>5. verdict' = [d \in Commands |-> IF d \in {c} THEN told[d] ELSE verdict[d]]
      BY <1>1, <2>3, <3>3 DEF SocketTypeOK
    <3>6. verdict[c] \in Outcome!Open
      BY <1>1, <2>3, <3>3 DEF Waiters, Outcome!Open
    <3> HIDE DEF told
    <3>7. Outcome!Settle({c})
      BY <2>1, <3>2, <3>4, <3>5, <3>6 DEF Outcome!Settle
    <3>8. {c} \in SUBSET Commands
      BY <3>3
    <3> QED BY <3>7, <3>8 DEF Outcome!Next
  <2> QED BY <1>6, <2>2, <2>3 DEF ReadFrame, ReadResponse
<1>7. ASSUME DaemonTakes
      PROVE  [Outcome!Next]_<<executed, verdict>>
  <2> DEFINE m == Head(toDaemon)
  <2>1. UNCHANGED verdict /\ toDaemon \in Seq(Request) /\ toDaemon # <<>> /\ Once(toDaemon)
    BY <1>1, <1>7 DEF DaemonTakes, SocketTypeOK, Ledger, Sent
  <2>2. CASE m.type = "command" /\ executed' = executed \union {m.of}
    <3>1. m.of \in CommandsIn(toDaemon)
      BY <2>1, <2>2, LineTaken
    <3>2. m.of \in Commands
      BY <2>1, <3>1, LinesTyped
    <3>3. /\ m.of \notin executed /\ verdict[m.of] # "none"
          /\ m.of \in Mutating => verdict[m.of] # "failed"
      BY <1>1, <3>1 DEF Ledger, Sent
    <3>4. Outcome!Execute(m.of)
      BY <2>1, <2>2, <3>3 DEF Outcome!Execute
    <3> QED BY <3>2, <3>4 DEF Outcome!Next
  <2>3. CASE UNCHANGED executed
    BY <2>1, <2>3
  <2> QED BY <1>7, <2>2, <2>3 DEF DaemonTakes
<1>8. ASSUME NEW c \in Commands, DaemonAnswers(c) \/ DaemonReplays(c)
      PROVE  UNCHANGED <<executed, verdict>>
  BY <1>8 DEF DaemonAnswers, DaemonReplays, daemon
<1>9. CASE UNCHANGED socketVars
  BY <1>9 DEF socketVars, daemon
<1> QED BY <1>2, <1>3, <1>4, <1>5, <1>6, <1>7, <1>8, <1>9 DEF SocketNext, Connection, Requests

(* The client keeps the promise of CommandOutcome over every failure of the  *)
(* socket, write and timer: an answer is of a command that ran, a mutating   *)
(* command whose caller was told that it failed never runs, and none runs    *)
(* twice.                                                                    *)
THEOREM Implementation == SocketSpec => OutcomeSpec
<1>1. SocketInit => Outcome!Init
  BY DEF SocketInit, Outcome!Init
<1>2. IInv /\ [SocketNext]_socketVars => [Outcome!Next]_<<executed, verdict>>
  BY StepImplements
<1> QED BY <1>1, <1>2, Invariant, PTL DEF SocketSpec, OutcomeSpec, Outcome!Spec
=============================================================================
