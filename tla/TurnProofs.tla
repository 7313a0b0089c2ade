------------------------------ MODULE TurnProofs ------------------------------
(***************************************************************************)
(* Theorems about Turn, for any number of messages, sessions and           *)
(* disturbances: types, admissions are held by turns that will start,      *)
(* nothing that is answered or shown has vanished, the screen shows the    *)
(* selected session, and queued messages reach the runtime in their order. *)
(*                                                                         *)
(* And about WorkerSwap, for any number of prompts, forks and failed steps:*)
(* types, a prompt is sent to a worker made for it, no swap kills a turn,  *)
(* the bridge listens to the connection that serves the session, and a     *)
(* deletion leaves nothing behind.                                         *)
(***************************************************************************)
EXTENDS Turn, WorkerSwap, FiniteSetTheorems, TLAPS

------------------------------------------------------------------------------
(* Turn: the inductive invariant                                             *)

FrameNames == {"start", "queue", "done", "end", "error", "refused"}

Stages == {"unsent", "creating", "chained", "waiting", "posting", "admitted", "reconciling",
           "recovering", "over"}

Ends == {"none", "answered", "told", "hidden", "stopped"}

Sends ==
  [at : Stages, kind : {"none", "main", "queued"}, session : Sessions \union {NoSession},
   on : SUBSET Messages, started : BOOLEAN, done : BOOLEAN, aborted : BOOLEAN, end : Ends]

Posts == {"none", "sent", "open", "closed"}

Screens == [of : Sessions \union {NoSession}, bubbles : SUBSET Messages]

SendsTyped ==
  /\ message \in [Messages -> Sends]
  /\ wire \in [Messages -> Seq(FrameNames)]
  /\ post \in [Messages -> Posts]
  /\ accepted \in Seq(Messages) /\ submitted \in Seq(Messages) /\ asking \in Seq(Messages)
  /\ admissions \subseteq Messages

ViewTyped ==
  /\ known \subseteq Sessions /\ shown \in known \union {NoSession}
  /\ navigation \subseteq known \union {NoSession}
  /\ status \in {"ready", "submitted", "streaming", "error"}
  /\ screen \in Screens

(* The messages belong to sessions that exist.                               *)
SessionsKnown == \A m \in Messages : message[m].session \in known \union {NoSession}

(* Neither the latest send nor a session has two controllers.                *)
Controlled ==
  /\ \A a, b \in pending : a = b
  /\ controller \in [Sessions -> SUBSET Messages]
  /\ \A s \in Sessions : \A a, b \in controller[s] : a = b

(* What is known of a send from the stage it has reached.                    *)
Staged(m) ==
  /\ message[m].at = "over" <=> message[m].end # "none"
  /\ message[m].at \in {"unsent", "creating"} => message[m].session = NoSession
  /\ message[m].at = "creating" <=> m \in Range(asking)
  /\ message[m].at = "creating" => message[m].kind \in {"main", "queued"}
  /\ message[m].at \in {"chained", "waiting", "admitted"} => message[m].kind = "queued"
  /\ message[m].at \in {"reconciling", "recovering"} => message[m].kind = "main"
  /\ message[m].at \notin {"unsent", "creating", "over"} => message[m].session \in Sessions
  /\ message[m].at \in {"unsent", "creating", "chained", "waiting"} =>
       post[m] = "none" /\ ~message[m].started
  /\ message[m].at # "unsent" => m \in Range(submitted)

(* A turn says that it starts before it says anything else.                  *)
StartFirst(m) ==
  /\ post[m] \in {"none", "sent"} => wire[m] = <<>>
  /\ message[m].at = "posting" => post[m] # "none"
  /\ /\ message[m].at = "posting" /\ message[m].kind = "main"
     /\ ~message[m].started /\ post[m] # "sent"
     => wire[m] # <<>> /\ wire[m][1] \in {"start", "refused"}

(* The browser hears nothing but a refusal of what the runtime has not got,  *)
(* and believes it answered or keeps it on the screen when it is over only   *)
(* if the runtime has got it.                                                *)
Heard(m) ==
  /\ \/ message[m].at \in {"admitted", "reconciling", "recovering"}
     \/ post[m] = "open"
     \/ \E i \in 1 .. Len(wire[m]) : wire[m][i] # "refused"
     => Got(m)
  /\ message[m].at = "over" /\ (message[m].end = "answered" \/ m \in screen.bubbles) => Got(m)

Sound(m) == Staged(m) /\ StartFirst(m) /\ Heard(m)

(* A session waits for the start of one turn at most.                        *)
Admitting ==
  /\ \A a \in admissions :
       /\ message[a].kind = "main" /\ ~message[a].started
       /\ message[a].at \in {"creating", "posting"}
  /\ \A a, b \in admissions : message[a].session = message[b].session => a = b

Waiters ==
  \A m \in Messages : message[m].at = "waiting" =>
    \A a \in message[m].on : a \in admissions /\ message[a].at = "posting"

Bubbles ==
  /\ screen.bubbles \subseteq Range(submitted)
  /\ \/ adopted
     \/ /\ screen.of \in {shown, NoSession}
        /\ \A m \in screen.bubbles :
             /\ message[m].session = shown
             /\ shown = NoSession => message[m].at = "creating"

IInv ==
  /\ SendsTyped /\ ViewTyped /\ SessionsKnown /\ Controlled /\ \A m \in Messages : Sound(m)
  /\ Admitting /\ Waiters /\ Bubbles

------------------------------------------------------------------------------
(* Sequences                                                                 *)

LEMMA RangeAppend ==
  ASSUME NEW S, NEW s \in Seq(S), NEW x \in S
  PROVE  Append(s, x) \in Seq(S) /\ Range(Append(s, x)) = Range(s) \union {x}
<1> DEFINE t == Append(s, x)
<1>1. /\ t \in Seq(S) /\ DOMAIN t = 1 .. Len(s) + 1 /\ DOMAIN s = 1 .. Len(s) /\ Len(s) \in Nat
      /\ \A i \in 1 .. Len(s) : t[i] = s[i]
      /\ t[Len(s) + 1] = x
  OBVIOUS
<1> HIDE DEF t
<1>2. \A i \in 1 .. Len(s) + 1 : i \in 1 .. Len(s) \/ i = Len(s) + 1
  BY <1>1
<1>3. Len(s) + 1 \in 1 .. Len(s) + 1 /\ \A i \in 1 .. Len(s) : i \in 1 .. Len(s) + 1
  BY <1>1
<1>4. Range(t) = Range(s) \union {x}
  BY <1>1, <1>2, <1>3 DEF Range
<1> QED BY <1>1, <1>4 DEF t

LEMMA RangeIn ==
  ASSUME NEW S, NEW s \in Seq(S)
  PROVE  Range(s) \subseteq S /\ Range(<<>>) = {} /\ (s # <<>> => Head(s) \in Range(s))
BY DEF Range

LEMMA Tails ==
  ASSUME NEW s \in Seq(FrameNames), s # <<>>
  PROVE  /\ Tail(s) \in Seq(FrameNames) /\ Head(s) = s[1] /\ Head(s) \in FrameNames
         /\ 1 \in 1 .. Len(s)
         /\ (\E i \in 1 .. Len(Tail(s)) : Tail(s)[i] # "refused")
              => \E i \in 1 .. Len(s) : s[i] # "refused"
<1>1. /\ Tail(s) \in Seq(FrameNames) /\ Head(s) = s[1] /\ Head(s) \in FrameNames
      /\ 1 \in 1 .. Len(s)
  OBVIOUS
<1>2. ASSUME NEW i \in 1 .. Len(Tail(s)), Tail(s)[i] # "refused"
      PROVE  \E j \in 1 .. Len(s) : s[j] # "refused"
  <2>1. i + 1 \in 1 .. Len(s) /\ Tail(s)[i] = s[i + 1]
    OBVIOUS
  <2> QED BY <1>2, <2>1
<1> QED BY <1>1, <1>2

LEMMA Appended ==
  ASSUME NEW s \in Seq(FrameNames), NEW f \in FrameNames
  PROVE  /\ Append(s, f) \in Seq(FrameNames) /\ Append(s, f) # <<>>
         /\ s # <<>> => Append(s, f)[1] = s[1]
         /\ s = <<>> => Append(s, f)[1] = f
         /\ (\E i \in 1 .. Len(Append(s, f)) : Append(s, f)[i] # "refused")
              => f # "refused" \/ \E i \in 1 .. Len(s) : s[i] # "refused"
<1>1. /\ Append(s, f) \in Seq(FrameNames) /\ Len(Append(s, f)) = Len(s) + 1 /\ Len(s) \in Nat
      /\ \A i \in 1 .. Len(s) : Append(s, f)[i] = s[i]
      /\ Append(s, f)[Len(s) + 1] = f
  OBVIOUS
<1>2. Append(s, f) # <<>> /\ (s # <<>> => 1 \in 1 .. Len(s)) /\ (s = <<>> => Len(s) = 0)
  BY <1>1
<1>3. \A i \in 1 .. Len(s) + 1 : i \in 1 .. Len(s) \/ i = Len(s) + 1
  BY <1>1
<1> HIDE DEF FrameNames
<1> QED BY <1>1, <1>2, <1>3

------------------------------------------------------------------------------
(* What is left alone, and what ends                                         *)

LEMMA SendTyped ==
  ASSUME IInv, NEW m \in Messages
  PROVE  /\ message[m] \in Sends /\ wire[m] \in Seq(FrameNames) /\ post[m] \in Posts
         /\ message[m].at \in Stages /\ message[m].session \in Sessions \union {NoSession}
         /\ message[m].kind \in {"none", "main", "queued"} /\ message[m].on \subseteq Messages
         /\ message[m].started \in BOOLEAN /\ message[m].end \in Ends
BY DEF IInv, SendsTyped, Sends

LEMMA Alone ==
  ASSUME IInv, NEW m \in Messages,
         message'[m] = message[m], wire'[m] = wire[m], post'[m] = post[m],
         m \in Range(asking)' <=> m \in Range(asking),
         Range(submitted) \subseteq Range(submitted'), Range(accepted) \subseteq Range(accepted'),
         m \in screen'.bubbles => m \in screen.bubbles \/ message[m].at # "over"
  PROVE  Sound(m)'
<1>1. Sound(m)
  BY DEF IInv
<1>2. Got(m) => Got(m)'
  BY DEF Got
<1>3. Staged(m)'
  BY <1>1 DEF Sound, Staged
<1>4. StartFirst(m)'
  BY <1>1 DEF Sound, StartFirst
<1>5. Heard(m)'
  BY <1>1, <1>2 DEF Sound, Heard
<1> QED BY <1>3, <1>4, <1>5 DEF Sound

(* A send is over.                                                           *)
LEMMA Ended ==
  ASSUME IInv, NEW m \in Messages, message[m].at # "unsent",
         NEW end \in Ends \ {"none"}, message'[m] = Over(m, end),
         wire'[m] \in {<<>>, wire[m], Tail(wire[m])}, wire[m] = <<>> => wire'[m] = <<>>,
         post'[m] \in {post[m], "closed"},
         m \notin Range(asking)', Range(submitted) \subseteq Range(submitted'),
         Range(accepted) \subseteq Range(accepted'), post'[m] = "open" => post[m] = "open",
         end = "answered" \/ m \in screen'.bubbles => Got(m)'
  PROVE  Sound(m)' /\ message'[m] \in Sends
<1>1. Sound(m) /\ message[m] \in Sends /\ wire[m] \in Seq(FrameNames)
  BY SendTyped DEF IInv
<1>2. /\ message'[m].at = "over" /\ message'[m].end = end /\ message'[m].session = message[m].session
      /\ message'[m] \in Sends
  BY <1>1 DEF Over, Unsent, Sends, Stages, Ends
<1>3. Staged(m)'
  BY <1>1, <1>2 DEF Sound, Staged
<1>4. StartFirst(m)'
  BY <1>1, <1>2 DEF Sound, StartFirst
<1>5. (\E i \in 1 .. Len(wire'[m]) : wire'[m][i] # "refused")
        => \E i \in 1 .. Len(wire[m]) : wire[m][i] # "refused"
  <2>1. CASE wire'[m] = <<>>
    BY <2>1
  <2>2. CASE wire'[m] = wire[m]
    BY <2>2
  <2>3. CASE wire'[m] = Tail(wire[m]) /\ wire[m] # <<>>
    BY <1>1, <2>3, Tails
  <2> QED BY <2>1, <2>2, <2>3
<1>6. Got(m) => Got(m)'
  BY DEF Got
<1>7. Heard(m)'
  BY <1>1, <1>2, <1>5, <1>6 DEF Sound, Heard
<1> QED BY <1>2, <1>3, <1>4, <1>7 DEF Sound

(* Who waits after a step has waited before it, and for admissions that are  *)
(* not settled by the step.                                                  *)
StillWaits(q) ==
  message'[q].at = "waiting" =>
    /\ message[q].at = "waiting" /\ message'[q].on = message[q].on
    /\ message[q].on \cap admissions \subseteq admissions'

(* A step in which some sends go on, none of them to wait; whose admission   *)
(* is left stays where it is.                                                *)
LEMMA Progress ==
  ASSUME IInv, NEW moved \in SUBSET Messages,
         message' \in [Messages -> Sends], wire' \in [Messages -> Seq(FrameNames)],
         post' \in [Messages -> Posts], accepted' = accepted, submitted' = submitted,
         asking' \in Seq(Messages), admissions' \subseteq admissions,
         UNCHANGED <<known, shown, navigation, adopted>>,
         status' \in {"ready", "submitted", "streaming", "error"}, screen' \in Screens,
         screen'.bubbles \subseteq screen.bubbles, screen'.of \in {screen.of, shown},
         pending' \subseteq pending, controller' \in [Sessions -> SUBSET Messages],
         \A s \in Sessions : controller'[s] \subseteq controller[s],
         \A q \in Messages \ moved :
           /\ message'[q] = message[q] /\ wire'[q] = wire[q] /\ post'[q] = post[q]
           /\ q \in Range(asking') <=> q \in Range(asking)
           /\ message[q].at = "waiting" => message[q].on \cap admissions \subseteq admissions',
         \A q \in moved :
           /\ Sound(q)' /\ StillWaits(q) /\ message'[q].session = message[q].session
           /\ q \in screen'.bubbles => message[q].at # "creating" \/ message'[q].at = "creating"
           /\ q \in admissions' => /\ message'[q].at = message[q].at
                                   /\ message'[q].kind = message[q].kind
                                   /\ (message'[q].started => message[q].started)
  PROVE  IInv'
<1>1. SendsTyped /\ ViewTyped /\ SessionsKnown /\ Controlled /\ Admitting /\ Waiters /\ Bubbles
  BY DEF IInv
<1>2. SendsTyped'
  BY <1>1 DEF SendsTyped
<1>3. ViewTyped'
  BY <1>1 DEF ViewTyped
<1>4. Controlled'
  BY <1>1 DEF Controlled
<1>5. ASSUME NEW q \in Messages PROVE Sound(q)'
  <2>1. CASE q \in moved
    BY <2>1
  <2>2. CASE q \notin moved
    BY <2>2, Alone
  <2> QED BY <2>1, <2>2
<1>6. Admitting'
  <2>1. ASSUME NEW a \in admissions'
        PROVE  /\ message'[a].at = message[a].at /\ message'[a].kind = message[a].kind
               /\ message'[a].started => message[a].started
               /\ message'[a].session = message[a].session /\ a \in admissions
    <3>1. a \in Messages /\ a \in admissions
      BY <1>1, <2>1 DEF SendsTyped
    <3>2. CASE a \in moved
      BY <2>1, <3>1, <3>2
    <3>3. CASE a \notin moved
      BY <3>1, <3>3
    <3> QED BY <3>2, <3>3
  <2>2. \A a \in admissions :
          /\ message[a].kind = "main" /\ ~message[a].started
          /\ message[a].at \in {"creating", "posting"}
    BY <1>1 DEF Admitting
  <2>3. \A a, b \in admissions : message[a].session = message[b].session => a = b
    BY <1>1 DEF Admitting
  <2>4. \A a \in admissions' :
          /\ message'[a].kind = "main" /\ ~message'[a].started
          /\ message'[a].at \in {"creating", "posting"}
    BY <2>1, <2>2
  <2>5. \A a, b \in admissions' : message'[a].session = message'[b].session => a = b
    BY <2>1, <2>3
  <2> QED BY <2>4, <2>5 DEF Admitting
<1>7. Waiters'
  <2>1. SUFFICES ASSUME NEW q \in Messages, message'[q].at = "waiting", NEW a \in message'[q].on
        PROVE  a \in admissions' /\ message'[a].at = "posting"
    BY DEF Waiters
  <2>2. /\ message[q].at = "waiting" /\ message'[q].on = message[q].on
        /\ message[q].on \cap admissions \subseteq admissions'
    BY <2>1 DEF StillWaits
  <2>3. a \in admissions /\ message[a].at = "posting"
    BY <1>1, <2>1, <2>2 DEF Waiters
  <2>4. a \in admissions' /\ a \in Messages
    BY <1>1, <2>1, <2>2, <2>3 DEF SendsTyped
  <2> QED BY <2>3, <2>4
<1>8. Bubbles'
  <2>1. screen'.bubbles \subseteq Range(submitted')
    BY <1>1 DEF Bubbles
  <2>2. ASSUME ~adopted, NEW q \in screen'.bubbles
        PROVE  message'[q].session = shown /\ (shown = NoSession => message'[q].at = "creating")
    <3>1. q \in Messages /\ message[q].session = shown
          /\ (shown = NoSession => message[q].at = "creating")
      BY <1>1, <2>2 DEF Bubbles, Screens
    <3> QED BY <3>1
  <2>3. ~adopted => screen'.of \in {shown, NoSession}
    BY <1>1 DEF Bubbles
  <2> QED BY <2>1, <2>2, <2>3 DEF Bubbles
<1>9. SessionsKnown'
  <2>1. ASSUME NEW q \in Messages PROVE message'[q].session = message[q].session
    <3>1. CASE q \in moved
      BY <3>1
    <3>2. CASE q \notin moved
      BY <3>2
    <3> QED BY <3>1, <3>2
  <2> QED BY <1>1, <2>1 DEF SessionsKnown
<1> QED BY <1>2, <1>3, <1>4, <1>5, <1>6, <1>7, <1>8, <1>9 DEF IInv

(* What the server writes.                                                   *)
LEMMA Serving ==
  ASSUME IInv, wire' \in [Messages -> Seq(FrameNames)], post' \in [Messages -> Posts],
         accepted' \in Seq(Messages), Range(accepted) \subseteq Range(accepted'),
         UNCHANGED <<message, known, viewVars, admissions, asking, pending, controller,
                     navigation, submitted, adopted>>,
         \A m \in Messages : Sound(m)'
  PROVE  IInv'
<1>1. SendsTyped /\ ViewTyped /\ SessionsKnown /\ Controlled /\ Admitting /\ Waiters /\ Bubbles
  BY DEF IInv
<1>2. UNCHANGED <<shown, status, screen>>
  BY DEF viewVars
<1>3. SendsTyped' /\ ViewTyped' /\ Controlled' /\ Admitting'
  BY <1>1, <1>2 DEF SendsTyped, ViewTyped, Controlled, Admitting
<1>4. Waiters' /\ Bubbles' /\ SessionsKnown'
  BY <1>1, <1>2 DEF Waiters, Bubbles, SessionsKnown
<1> QED BY <1>3, <1>4 DEF IInv

LEMMA ReleasedFacts ==
  ASSUME IInv, NEW gone, Released(gone)
  PROVE  /\ admissions' = admissions \ gone /\ pending' \subseteq pending
         /\ controller' \in [Sessions -> SUBSET Messages]
         /\ \A s \in Sessions : controller'[s] \subseteq controller[s]
BY DEF Released, IInv, Controlled

LEMMA GivenUpFacts ==
  ASSUME IInv, NEW ms, GivenUp(ms)
  PROVE  /\ wire' \in [Messages -> Seq(FrameNames)] /\ post' \in [Messages -> Posts]
         /\ \A q \in Messages : q \notin ms => wire'[q] = wire[q] /\ post'[q] = post[q]
         /\ \A q \in Messages : q \in ms =>
              wire'[q] = <<>> /\ post'[q] = (IF post[q] = "open" THEN "closed" ELSE post[q])
<1>1. wire \in [Messages -> Seq(FrameNames)] /\ post \in [Messages -> Posts]
  BY DEF IInv, SendsTyped
<1>2. <<>> \in Seq(FrameNames) /\ "closed" \in Posts
  BY DEF Posts
<1>3. wire' = [m \in Messages |-> IF m \in ms THEN <<>> ELSE wire[m]]
  BY DEF GivenUp
<1>4. post' = [m \in Messages |-> IF m \in ms /\ post[m] = "open" THEN "closed" ELSE post[m]]
  BY DEF GivenUp
<1>5. wire' \in [Messages -> Seq(FrameNames)]
  BY <1>1, <1>2, <1>3
<1>6. post' \in [Messages -> Posts]
  BY <1>1, <1>2, <1>4
<1> QED BY <1>3, <1>4, <1>5, <1>6

(* A message that waits for an admission that is rejected is told so.        *)
LEMMA RejectedSound ==
  ASSUME IInv, NEW gone, NEW q \in Rejected(gone),
         message'[q] = Over(q, "told"), wire'[q] = wire[q], post'[q] = post[q],
         q \in Range(asking)' => q \in Range(asking), submitted' = submitted, accepted' = accepted,
         q \notin screen'.bubbles
  PROVE  /\ q \in Messages /\ message[q].at = "waiting" /\ message'[q] \in Sends
         /\ Sound(q)' /\ message'[q].at = "over" /\ message'[q].session = message[q].session
<1>1. q \in Messages /\ message[q].at = "waiting"
  BY DEF Rejected
<1>2. Sound(q)
  BY <1>1 DEF IInv
<1>3. q \notin Range(asking)'
  BY <1>1, <1>2 DEF Sound, Staged
<1>4. "told" \in Ends \ {"none"} /\ "told" # "answered"
  BY DEF Ends
<1>5. Sound(q)' /\ message'[q] \in Sends
  BY <1>1, <1>3, <1>4, Ended
<1> QED BY <1>1, <1>5 DEF Over, Unsent

(* The sends `over` may end like this: answered, or kept on the screen, only *)
(* what the runtime has got.                                                 *)
MayEnd(over, ends, lost) ==
  /\ \A q \in Messages \ over : wire'[q] = wire[q] /\ post'[q] = post[q]
  /\ \A q \in over :
       /\ message[q].at # "unsent"
       /\ wire'[q] \in {<<>>, wire[q], Tail(wire[q])} /\ (wire[q] = <<>> => wire'[q] = <<>>)
       /\ post'[q] \in {post[q], "closed"}
       /\ ends[q] = "answered" => Got(q)
       /\ q \in lost \/ (Got(q) /\ message[q].at # "creating")

LEMMA Finishing ==
  ASSUME IInv, NEW over \in SUBSET Messages, NEW ends \in [over -> Ends \ {"none"}], NEW lost,
         Finish(ends, lost), MayEnd(over, ends, lost),
         wire' \in [Messages -> Seq(FrameNames)], post' \in [Messages -> Posts],
         accepted' = accepted, submitted' = submitted, asking' \in Seq(Messages),
         Range(asking') = Range(asking) \ over,
         UNCHANGED <<known, shown, navigation, adopted>>,
         status' \in {"ready", "submitted", "streaming", "error"}
  PROVE  IInv'
<1> DEFINE rejected == Rejected(over) \ over
           moved == over \union rejected
<1>0. /\ \A q \in Messages \ over : wire'[q] = wire[q] /\ post'[q] = post[q]
      /\ \A q \in over :
           /\ message[q].at # "unsent"
           /\ wire'[q] \in {<<>>, wire[q], Tail(wire[q])} /\ (wire[q] = <<>> => wire'[q] = <<>>)
           /\ post'[q] \in {post[q], "closed"}
           /\ ends[q] = "answered" => Got(q)
           /\ q \in lost \/ (Got(q) /\ message[q].at # "creating")
  BY DEF MayEnd
<1>1. DOMAIN ends = over
  OBVIOUS
<1>2. /\ message' = [q \in Messages |->
                       CASE q \in over -> Over(q, ends[q])
                         [] q \in rejected -> Over(q, "told")
                         [] OTHER -> message[q]]
      /\ Released(over)
      /\ screen' = [screen EXCEPT !.bubbles = @ \ (lost \union rejected)]
  BY <1>1 DEF Finish
<1>3. /\ \A q \in over : message'[q] = Over(q, ends[q])
      /\ \A q \in Messages : q \in rejected => message'[q] = Over(q, "told")
      /\ \A q \in Messages \ moved : message'[q] = message[q]
      /\ DOMAIN message' = Messages /\ message' = [q \in Messages |-> message'[q]]
  BY <1>2
<1>4. screen \in Screens
  BY DEF IInv, ViewTyped
<1>5. /\ screen' \in Screens /\ screen'.of = screen.of
      /\ screen'.bubbles = screen.bubbles \ (lost \union rejected)
  BY <1>2, <1>4 DEF Screens
<1>6. /\ admissions' = admissions \ over /\ pending' \subseteq pending
      /\ controller' \in [Sessions -> SUBSET Messages]
      /\ \A s \in Sessions : controller'[s] \subseteq controller[s]
  BY <1>2, ReleasedFacts
<1>7. ASSUME NEW q \in over
      PROVE  Sound(q)' /\ message'[q] \in Sends
  <2>1. ends[q] \in Ends \ {"none"} /\ q \in Messages /\ message'[q] = Over(q, ends[q])
    BY <1>3
  <2>2. q \notin Range(asking)' /\ (post'[q] = "open" => post[q] = "open")
    BY <1>0
  <2>3. ends[q] = "answered" \/ q \in screen'.bubbles => Got(q)'
    BY <1>0, <1>5 DEF Got
  <2> QED BY <1>0, <2>1, <2>2, <2>3, Ended
<1>8. ASSUME NEW q \in rejected
      PROVE  /\ q \in Messages /\ message[q].at = "waiting" /\ message'[q] \in Sends
             /\ Sound(q)' /\ message'[q].at = "over" /\ message'[q].session = message[q].session
             /\ q \notin screen'.bubbles
  <2>1. q \in Messages
    BY DEF Rejected
  <2>2. q \notin screen'.bubbles /\ message'[q] = Over(q, "told")
    BY <1>3, <1>5, <2>1
  <2>3. wire'[q] = wire[q] /\ post'[q] = post[q] /\ (q \in Range(asking)' => q \in Range(asking))
    BY <1>0, <2>1
  <2> QED BY <2>1, <2>2, <2>3, RejectedSound
<1>9. message' \in [Messages -> Sends]
  <2>1. \A q \in Messages : message'[q] \in Sends
    BY <1>3, <1>7, <1>8, SendTyped
  <2> QED BY <1>3, <2>1
<1>10. moved \subseteq Messages
  BY <1>8
<1>11. ASSUME NEW q \in Messages \ moved
       PROVE  /\ message'[q] = message[q] /\ wire'[q] = wire[q] /\ post'[q] = post[q]
              /\ q \in Range(asking') <=> q \in Range(asking)
              /\ message[q].at = "waiting" => message[q].on \cap admissions \subseteq admissions'
  BY <1>0, <1>3, <1>6 DEF Rejected
<1>12. ASSUME NEW q \in over
       PROVE  /\ message'[q].at = "over" /\ message'[q].session = message[q].session
              /\ q \in screen'.bubbles => message[q].at # "creating"
  <2>1. message'[q] = Over(q, ends[q])
    BY <1>3
  <2>2. q \in screen'.bubbles => q \notin lost
    BY <1>5
  <2>3. message'[q].at = "over" /\ message'[q].session = message[q].session
    BY <2>1 DEF Over, Unsent
  <2> QED BY <1>0, <2>2, <2>3
<1>13. ASSUME NEW q \in moved
       PROVE  /\ Sound(q)' /\ message'[q].at # "waiting"
              /\ message'[q].session = message[q].session
              /\ q \in screen'.bubbles => message[q].at # "creating"
              /\ q \notin admissions'
  <2>1. \A a \in admissions : message[a].at # "waiting"
    BY DEF IInv, Admitting
  <2> QED BY <1>6, <1>7, <1>8, <1>12, <2>1
<1> HIDE DEF moved, rejected
<1>14. /\ moved \in SUBSET Messages /\ admissions' \subseteq admissions
       /\ screen'.bubbles \subseteq screen.bubbles /\ screen'.of \in {screen.of, shown}
  BY <1>5, <1>6, <1>10
<1>15. \A q \in Messages \ moved :
         /\ message'[q] = message[q] /\ wire'[q] = wire[q] /\ post'[q] = post[q]
         /\ q \in Range(asking') <=> q \in Range(asking)
         /\ message[q].at = "waiting" => message[q].on \cap admissions \subseteq admissions'
  BY <1>11
<1>16. \A q \in moved :
         /\ Sound(q)' /\ StillWaits(q) /\ message'[q].session = message[q].session
         /\ q \in screen'.bubbles => message[q].at # "creating" \/ message'[q].at = "creating"
         /\ q \in admissions' => /\ message'[q].at = message[q].at
                                 /\ message'[q].kind = message[q].kind
                                 /\ (message'[q].started => message[q].started)
  BY <1>13 DEF StillWaits
<1> QED BY <1>5, <1>6, <1>9, <1>14, <1>15, <1>16, Progress

LEMMA Failing ==
  ASSUME IInv, NEW m \in Messages, Fail(m), message[m].at \in {"posting"},
         wire' \in [Messages -> Seq(FrameNames)], post' \in [Messages -> Posts],
         UNCHANGED <<accepted, submitted, asking, known, shown, navigation, adopted>>,
         \A q \in Messages \ {m} : wire'[q] = wire[q] /\ post'[q] = post[q],
         wire'[m] \in {<<>>, Tail(wire[m])}, wire[m] = <<>> => wire'[m] = <<>>,
         post'[m] \in {post[m], "closed"}
  PROVE  IInv'
<1>1. PICK end \in {"hidden", "told"} : Finish([q \in {m} |-> end], {m})
  BY DEF Fail, Withdrawn
<1>2. [q \in {m} |-> end] \in [{m} -> Ends \ {"none"}] /\ [q \in {m} |-> end][m] # "answered"
  BY DEF Ends
<1>3. Range(asking') = Range(asking) \ {m} /\ asking' \in Seq(Messages)
  BY DEF IInv, SendsTyped, Sound, Staged
<1>4. status' \in {"ready", "submitted", "streaming", "error"}
  BY DEF Fail, IInv, ViewTyped
<1> DEFINE ends == [q \in {m} |-> end]
           over == {m}
<1>5. ends \in [over -> Ends \ {"none"}] /\ over \in SUBSET Messages /\ Finish(ends, over)
  BY <1>1, <1>2
<1>6. MayEnd(over, ends, over)
  BY <1>2 DEF MayEnd
<1> HIDE DEF over, ends
<1>7. Range(asking') = Range(asking) \ over
  BY <1>3 DEF over
<1> QED BY <1>3, <1>4, <1>5, <1>6, <1>7, Finishing

(* A step in which one send goes on, and no admission changes hands.         *)
LEMMA OneMoves ==
  ASSUME IInv, NEW m \in Messages, NEW x \in Sends, message' = [message EXCEPT ![m] = x],
         wire' \in [Messages -> Seq(FrameNames)], post' \in [Messages -> Posts],
         \A q \in Messages \ {m} : wire'[q] = wire[q] /\ post'[q] = post[q],
         UNCHANGED <<accepted, submitted, asking, admissions, known, shown, navigation, adopted>>,
         status' \in {"ready", "submitted", "streaming", "error"}, screen' \in Screens,
         screen'.bubbles \subseteq screen.bubbles, screen'.of \in {screen.of, shown},
         pending' \subseteq pending, controller' \in [Sessions -> SUBSET Messages],
         \A s \in Sessions : controller'[s] \subseteq controller[s],
         message[m].at # "creating", x.at # "waiting", x.session = message[m].session,
         m \in admissions => /\ x.at = message[m].at /\ x.kind = message[m].kind
                             /\ (x.started => message[m].started),
         Sound(m)'
  PROVE  IInv'
<1>1. message \in [Messages -> Sends] /\ asking \in Seq(Messages)
  BY DEF IInv, SendsTyped
<1>2. /\ message'[m] = x /\ message' \in [Messages -> Sends]
      /\ \A q \in Messages \ {m} : message'[q] = message[q]
  BY <1>1
<1> DEFINE moved == {m}
<1>3. \A q \in moved :
         /\ Sound(q)' /\ StillWaits(q) /\ message'[q].session = message[q].session
         /\ q \in screen'.bubbles => message[q].at # "creating" \/ message'[q].at = "creating"
         /\ q \in admissions' => /\ message'[q].at = message[q].at
                                 /\ message'[q].kind = message[q].kind
                                 /\ (message'[q].started => message[q].started)
  BY <1>2 DEF StillWaits
<1>4. moved \in SUBSET Messages
  OBVIOUS
<1>5. \A q \in Messages \ moved :
         /\ message'[q] = message[q] /\ wire'[q] = wire[q] /\ post'[q] = post[q]
         /\ q \in Range(asking') <=> q \in Range(asking)
         /\ message[q].at = "waiting" => message[q].on \cap admissions \subseteq admissions'
  BY <1>2
<1>6. /\ accepted' = accepted /\ submitted' = submitted /\ asking' \in Seq(Messages)
      /\ admissions' \subseteq admissions /\ UNCHANGED <<known, shown, navigation, adopted>>
  BY <1>1
<1> HIDE DEF moved
<1> QED BY <1>2, <1>3, <1>4, <1>5, <1>6, Progress

(* The next frame is taken off the wire of m.                                *)
LEMMA Taken ==
  ASSUME IInv, NEW m \in Messages, wire[m] # <<>>, wire' = [wire EXCEPT ![m] = Tail(@)]
  PROVE  /\ wire' \in [Messages -> Seq(FrameNames)] /\ wire'[m] = Tail(wire[m])
         /\ \A q \in Messages \ {m} : wire'[q] = wire[q]
         /\ Head(wire[m]) = wire[m][1] /\ Head(wire[m]) \in FrameNames
         /\ Head(wire[m]) # "refused" => Got(m)
         /\ (\E i \in 1 .. Len(wire'[m]) : wire'[m][i] # "refused") => Got(m)
         /\ post[m] \in {"open", "closed"} /\ Sound(m)
<1>1. wire \in [Messages -> Seq(FrameNames)] /\ wire[m] \in Seq(FrameNames) /\ Sound(m)
      /\ post[m] \in Posts
  BY SendTyped DEF IInv, SendsTyped
<1>2. /\ Tail(wire[m]) \in Seq(FrameNames) /\ Head(wire[m]) = wire[m][1]
      /\ Head(wire[m]) \in FrameNames /\ 1 \in 1 .. Len(wire[m])
      /\ (\E i \in 1 .. Len(Tail(wire[m])) : Tail(wire[m])[i] # "refused")
              => \E i \in 1 .. Len(wire[m]) : wire[m][i] # "refused"
  BY <1>1, Tails
<1>3. /\ wire' \in [Messages -> Seq(FrameNames)] /\ wire'[m] = Tail(wire[m])
      /\ \A q \in Messages \ {m} : wire'[q] = wire[q]
  BY <1>1, <1>2
<1>4. (\E i \in 1 .. Len(wire[m]) : wire[m][i] # "refused") => Got(m)
  BY <1>1 DEF Sound, Heard
<1>5. post[m] \in {"open", "closed"}
  BY <1>1 DEF Sound, StartFirst, Posts
<1> QED BY <1>1, <1>2, <1>3, <1>4, <1>5

LEMMA StatusTyped ==
  ASSUME IInv
  PROVE  status \in {"ready", "submitted", "streaming", "error"} /\ screen \in Screens
BY DEF IInv, ViewTyped

LEMMA ControllerTyped ==
  ASSUME IInv
  PROVE  controller \in [Sessions -> SUBSET Messages]
BY DEF IInv, Controlled

(* A turn whose stream is read is posting.                                   *)
LEMMA TurnPosts ==
  ASSUME IInv, NEW m \in Messages, Reads(m, "main")
  PROVE  message[m].at = "posting" /\ message[m].kind = "main" /\ message[m].session \in Sessions
BY DEF IInv, Sound, Staged, Reads

LEMMA ReadDoneKeeps ==
  ASSUME IInv, NEW m \in Messages, ReadTurn(m), Head(wire[m]) = "done"
  PROVE  IInv'
<1> DEFINE x == [message[m] EXCEPT !.done = TRUE]
<1>1. /\ Reads(m, "main") /\ wire[m] # <<>> /\ wire' = [wire EXCEPT ![m] = Tail(@)]
      /\ message' = [message EXCEPT ![m].done = TRUE]
      /\ status' \in {"ready", status}
      /\ UNCHANGED <<screen, admissions, pending, controller, post>>
      /\ UNCHANGED <<accepted, submitted, asking, known, shown, navigation, adopted>>
  BY DEF ReadTurn, Fail
<1>2. /\ wire' \in [Messages -> Seq(FrameNames)] /\ wire'[m] = Tail(wire[m])
      /\ \A q \in Messages \ {m} : wire'[q] = wire[q]
      /\ Head(wire[m]) = wire[m][1]
      /\ (\E i \in 1 .. Len(wire'[m]) : wire'[m][i] # "refused") => Got(m)
      /\ post[m] \in {"open", "closed"} /\ Sound(m) /\ Got(m)
  BY <1>1, Taken
<1>3. message[m].at = "posting" /\ message[m].kind = "main" /\ message[m] \in Sends
  BY <1>1, TurnPosts, SendTyped
<1>4. /\ x \in Sends /\ x.at = "posting" /\ x.kind = "main" /\ x.session = message[m].session
      /\ x.started = message[m].started /\ x.end = message[m].end
  BY <1>3 DEF Sends
<1>5. message' = [message EXCEPT ![m] = x] /\ message'[m] = x
  BY <1>1 DEF IInv, SendsTyped
<1> HIDE DEF x
<1>6. message[m].started
  BY <1>2, <1>3 DEF Sound, StartFirst
<1>7. Staged(m)'
  BY <1>1, <1>2, <1>3, <1>4, <1>5 DEF Sound, Staged
<1>8. StartFirst(m)'
  BY <1>1, <1>2, <1>3, <1>4, <1>5, <1>6 DEF StartFirst
<1>9. Heard(m)'
  BY <1>1, <1>2, <1>3, <1>4, <1>5 DEF Heard, Got
<1>10. Sound(m)'
  BY <1>7, <1>8, <1>9 DEF Sound
<1>11. /\ post' \in [Messages -> Posts]
       /\ \A q \in Messages \ {m} : wire'[q] = wire[q] /\ post'[q] = post[q]
  BY <1>1, <1>2 DEF IInv, SendsTyped
<1>12. /\ status' \in {"ready", "submitted", "streaming", "error"} /\ screen' \in Screens
       /\ screen'.bubbles \subseteq screen.bubbles /\ screen'.of \in {screen.of, shown}
       /\ pending' \subseteq pending /\ controller' \in [Sessions -> SUBSET Messages]
       /\ \A s \in Sessions : controller'[s] \subseteq controller[s]
  BY <1>1, StatusTyped, ControllerTyped
<1>13. UNCHANGED <<accepted, submitted, asking, admissions, known, shown, navigation, adopted>>
  BY <1>1
<1>14. /\ message[m].at # "creating" /\ x.at # "waiting" /\ x.session = message[m].session
       /\ m \in admissions => /\ x.at = message[m].at /\ x.kind = message[m].kind
                              /\ (x.started => message[m].started)
  BY <1>3, <1>4, <1>6
<1> QED BY <1>2, <1>4, <1>5, <1>10, <1>11, <1>12, <1>13, <1>14, OneMoves

LEMMA ReadEndKeeps ==
  ASSUME IInv, NEW m \in Messages, ReadTurn(m), Head(wire[m]) = "end"
  PROVE  IInv'
<1> DEFINE x == [message[m] EXCEPT !.at = "reconciling"]
<1>1. /\ Reads(m, "main") /\ wire[m] # <<>> /\ wire' = [wire EXCEPT ![m] = Tail(@)]
      /\ message' = [message EXCEPT ![m].at = "reconciling"]
      /\ UNCHANGED <<status, screen, admissions, pending, controller, post>>
      /\ UNCHANGED <<accepted, submitted, asking, known, shown, navigation, adopted>>
  BY DEF ReadTurn, Fail
<1>2. /\ wire' \in [Messages -> Seq(FrameNames)] /\ wire'[m] = Tail(wire[m])
      /\ \A q \in Messages \ {m} : wire'[q] = wire[q]
      /\ Head(wire[m]) = wire[m][1]
      /\ post[m] \in {"open", "closed"} /\ Sound(m) /\ Got(m)
  BY <1>1, Taken
<1>3. /\ message[m].at = "posting" /\ message[m].kind = "main" /\ message[m] \in Sends
      /\ message[m].session \in Sessions
  BY <1>1, TurnPosts, SendTyped
<1>4. /\ x \in Sends /\ x.at = "reconciling" /\ x.kind = "main" /\ x.session = message[m].session
      /\ x.started = message[m].started /\ x.end = message[m].end
  BY <1>3 DEF Sends, Stages
<1>5. message' = [message EXCEPT ![m] = x] /\ message'[m] = x
  BY <1>1 DEF IInv, SendsTyped
<1> HIDE DEF x
<1>6. message[m].started /\ m \notin admissions
  <2>1. message[m].started
    BY <1>2, <1>3 DEF Sound, StartFirst
  <2> QED BY <2>1 DEF IInv, Admitting
<1>7. Staged(m)'
  BY <1>1, <1>2, <1>3, <1>4, <1>5 DEF Sound, Staged
<1>8. StartFirst(m)'
  BY <1>1, <1>2, <1>3, <1>4, <1>5, <1>6 DEF StartFirst
<1>9. Heard(m)'
  BY <1>1, <1>2, <1>3, <1>4, <1>5 DEF Heard, Got
<1>10. Sound(m)'
  BY <1>7, <1>8, <1>9 DEF Sound
<1>11. /\ post' \in [Messages -> Posts]
       /\ \A q \in Messages \ {m} : wire'[q] = wire[q] /\ post'[q] = post[q]
  BY <1>1, <1>2 DEF IInv, SendsTyped
<1>12. /\ status' \in {"ready", "submitted", "streaming", "error"} /\ screen' \in Screens
       /\ screen'.bubbles \subseteq screen.bubbles /\ screen'.of \in {screen.of, shown}
       /\ pending' \subseteq pending /\ controller' \in [Sessions -> SUBSET Messages]
       /\ \A s \in Sessions : controller'[s] \subseteq controller[s]
  BY <1>1, StatusTyped, ControllerTyped
<1>13. UNCHANGED <<accepted, submitted, asking, admissions, known, shown, navigation, adopted>>
  BY <1>1
<1>14. /\ message[m].at # "creating" /\ x.at # "waiting" /\ x.session = message[m].session
       /\ m \in admissions => /\ x.at = message[m].at /\ x.kind = message[m].kind
                              /\ (x.started => message[m].started)
  BY <1>3, <1>4, <1>6
<1> QED BY <1>2, <1>4, <1>5, <1>10, <1>11, <1>12, <1>13, <1>14, OneMoves

LEMMA ReadErrorKeeps ==
  ASSUME IInv, NEW m \in Messages, ReadTurn(m), Head(wire[m]) \in {"error", "refused"}
  PROVE  IInv'
<1>1. /\ Reads(m, "main") /\ wire[m] # <<>> /\ wire' = [wire EXCEPT ![m] = Tail(@)]
      /\ Fail(m) /\ post' = post
      /\ UNCHANGED <<accepted, submitted, asking, known, shown, navigation, adopted>>
  BY DEF ReadTurn
<1>2. /\ wire' \in [Messages -> Seq(FrameNames)] /\ wire'[m] = Tail(wire[m])
      /\ \A q \in Messages \ {m} : wire'[q] = wire[q]
  BY <1>1, Taken
<1>3. message[m].at = "posting"
  BY <1>1, TurnPosts
<1>4. /\ post' \in [Messages -> Posts] /\ post'[m] \in {post[m], "closed"}
      /\ \A q \in Messages \ {m} : wire'[q] = wire[q] /\ post'[q] = post[q]
      /\ message[m].at \in {"posting"} /\ wire'[m] \in {<<>>, Tail(wire[m])}
  BY <1>1, <1>2, <1>3 DEF IInv, SendsTyped
<1>5. UNCHANGED <<accepted, submitted, asking, known, shown, navigation, adopted>>
      /\ (wire[m] = <<>> => wire'[m] = <<>>)
  BY <1>1
<1> QED BY <1>1, <1>2, <1>4, <1>5, Failing

(* The start of a turn settles the admission its session waits for, and lets *)
(* go on who waits for it.                                                   *)
LEMMA ReadStartKeeps ==
  ASSUME IInv, NEW m \in Messages, ReadTurn(m), Head(wire[m]) = "start"
  PROVE  IInv'
<1>1. /\ Reads(m, "main") /\ wire[m] # <<>> /\ wire' = [wire EXCEPT ![m] = Tail(@)]
      /\ ReadStart(m)
      /\ UNCHANGED <<accepted, submitted, asking, known, shown, navigation, adopted>>
  BY DEF ReadTurn, Fail
<1>2. PICK a : Settle(m, a) /\ (m \in admissions => m \in a)
  <2>1. m \in admissions => m \in AdmittedBy(m) /\ \A x \in AdmittedBy(m) : x = m
    BY DEF AdmittedBy, AdmissionsOf, IInv, Admitting
  <2> QED BY <1>1, <2>1 DEF ReadStart
<1> DEFINE W == {q \in Messages : message[q].at = "waiting" /\ message[q].on \cap a # {}}
           moved == {m} \union W
<1>20. /\ admissions' = admissions \ a /\ status' \in {"streaming", status}
       /\ UNCHANGED <<screen, pending, controller>>
  BY <1>2 DEF Settle
<1>21. message' = [q \in Messages |->
             CASE q = m -> [message[q] EXCEPT !.started = TRUE]
               [] q \in W -> [message[q] EXCEPT !.at = "posting", !.on = {}]
               [] OTHER -> message[q]]
  BY <1>2 DEF Settle
<1>22. post' = [q \in Messages |-> IF q \in W THEN "sent" ELSE post[q]]
  BY <1>2 DEF Settle
<1>3. /\ wire' \in [Messages -> Seq(FrameNames)] /\ wire'[m] = Tail(wire[m])
      /\ \A q \in Messages \ {m} : wire'[q] = wire[q]
      /\ (\E i \in 1 .. Len(wire'[m]) : wire'[m][i] # "refused") => Got(m)
      /\ post[m] \in {"open", "closed"} /\ Sound(m) /\ Got(m)
  BY <1>1, Taken
<1>4. message[m].at = "posting" /\ message[m].kind = "main" /\ message[m].session \in Sessions
  BY <1>1, TurnPosts
<1>5. \A q \in Messages : message[q] \in Sends /\ wire[q] \in Seq(FrameNames) /\ post[q] \in Posts
  BY SendTyped
<1>60. m \notin W /\ W \subseteq Messages
  BY <1>4
<1>6. /\ \A q \in W : /\ message'[q] = [message[q] EXCEPT !.at = "posting", !.on = {}]
                      /\ post'[q] = "sent" /\ q # m
      /\ message'[m] = [message[m] EXCEPT !.started = TRUE] /\ post'[m] = post[m]
      /\ \A q \in Messages \ moved : message'[q] = message[q] /\ post'[q] = post[q]
      /\ DOMAIN message' = Messages /\ message' = [q \in Messages |-> message'[q]]
      /\ DOMAIN post' = Messages /\ post' = [q \in Messages |-> post'[q]]
  <2> HIDE DEF W
  <2> QED BY <1>21, <1>22, <1>60
<1>7. m \notin admissions'
  BY <1>2, <1>20
<1>8. Sound(m)' /\ message'[m] \in Sends /\ message'[m].at = "posting"
      /\ message'[m].session = message[m].session
  <2> DEFINE x == [message[m] EXCEPT !.started = TRUE]
  <2>1. /\ x \in Sends /\ x.at = "posting" /\ x.kind = "main" /\ x.session = message[m].session
        /\ x.started /\ x.end = message[m].end
    <3>1. message[m] \in Sends
      BY <1>5
    <3> QED BY <1>4, <3>1 DEF Sends
  <2>2. message'[m] = x
    BY <1>6
  <2> HIDE DEF x
  <2>3. Staged(m)'
    BY <1>1, <1>3, <1>4, <2>1, <2>2 DEF Sound, Staged
  <2>4. StartFirst(m)'
    BY <1>3, <1>6, <2>1, <2>2 DEF StartFirst
  <2>5. Heard(m)'
    BY <1>1, <1>3, <2>1, <2>2 DEF Heard, Got
  <2> QED BY <2>1, <2>2, <2>3, <2>4, <2>5 DEF Sound
<1>9. ASSUME NEW q \in W
      PROVE  /\ Sound(q)' /\ message'[q] \in Sends /\ message'[q].at = "posting"
             /\ message'[q].session = message[q].session /\ q \notin admissions'
  <2> DEFINE x == [message[q] EXCEPT !.at = "posting", !.on = {}]
  <2>1. q \in Messages /\ message[q].at = "waiting" /\ Sound(q) /\ q # m
    BY <1>6, <1>60 DEF IInv
  <2>2. /\ x \in Sends /\ x.at = "posting" /\ x.kind = message[q].kind
        /\ x.session = message[q].session
        /\ x.started = message[q].started /\ x.end = message[q].end
    BY <1>5, <2>1 DEF Sends, Stages
  <2>3. message'[q] = x /\ wire'[q] = wire[q] /\ post'[q] = "sent"
    BY <1>3, <1>6, <2>1
  <2> HIDE DEF x
  <2>4. /\ message[q].kind = "queued" /\ message[q].session \in Sessions /\ post[q] = "none"
        /\ wire[q] = <<>>
    BY <2>1 DEF Sound, Staged, StartFirst
  <2>5. Staged(q)'
    BY <1>1, <2>1, <2>2, <2>3, <2>4 DEF Sound, Staged
  <2>6. StartFirst(q)'
    BY <2>2, <2>3, <2>4 DEF StartFirst
  <2>7. Heard(q)'
    BY <2>2, <2>3, <2>4 DEF Heard
  <2>8. q \notin admissions
    BY <2>1 DEF IInv, Admitting
  <2> QED BY <1>20, <2>2, <2>3, <2>5, <2>6, <2>7, <2>8 DEF Sound
<1>10. message' \in [Messages -> Sends] /\ post' \in [Messages -> Posts]
  <2>1. \A q \in Messages : message'[q] \in Sends
    BY <1>5, <1>6, <1>8, <1>9
  <2>2. \A q \in Messages : post'[q] \in Posts
    BY <1>5, <1>6 DEF Posts
  <2> QED BY <1>6, <2>1, <2>2
<1>11. \A q \in Messages \ moved :
         /\ message'[q] = message[q] /\ wire'[q] = wire[q] /\ post'[q] = post[q]
         /\ q \in Range(asking') <=> q \in Range(asking)
         /\ message[q].at = "waiting" => message[q].on \cap admissions \subseteq admissions'
  BY <1>1, <1>20, <1>3, <1>6
<1>12. \A q \in moved :
         /\ Sound(q)' /\ StillWaits(q) /\ message'[q].session = message[q].session
         /\ q \in screen'.bubbles => message[q].at # "creating" \/ message'[q].at = "creating"
         /\ q \in admissions' => /\ message'[q].at = message[q].at
                                 /\ message'[q].kind = message[q].kind
                                 /\ (message'[q].started => message[q].started)
  <2>1. m \in moved /\ message[m].at # "creating"
    BY <1>4
  <2>2. \A q \in W : message[q].at # "creating"
    OBVIOUS
  <2> HIDE DEF W
  <2> QED BY <1>7, <1>8, <1>9, <2>1, <2>2 DEF StillWaits
<1>13. moved \in SUBSET Messages
  OBVIOUS
<1>14. /\ accepted' = accepted /\ submitted' = submitted /\ asking' \in Seq(Messages)
       /\ admissions' \subseteq admissions /\ UNCHANGED <<known, shown, navigation, adopted>>
  BY <1>1, <1>20 DEF IInv, SendsTyped
<1>15. /\ status' \in {"ready", "submitted", "streaming", "error"} /\ screen' \in Screens
       /\ screen'.bubbles \subseteq screen.bubbles /\ screen'.of \in {screen.of, shown}
       /\ pending' \subseteq pending /\ controller' \in [Sessions -> SUBSET Messages]
       /\ \A s \in Sessions : controller'[s] \subseteq controller[s]
  BY <1>20, StatusTyped, ControllerTyped
<1> HIDE DEF moved
<1> QED BY <1>3, <1>10, <1>11, <1>12, <1>13, <1>14, <1>15, Progress

LEMMA ReadTurnKeeps ==
  ASSUME IInv, NEW m \in Messages, ReadTurn(m)
  PROVE  IInv'
<1>1. Head(wire[m]) \in {"start", "done", "end", "error", "refused"}
  BY DEF ReadTurn
<1> QED BY <1>1, ReadStartKeeps, ReadDoneKeeps, ReadEndKeeps, ReadErrorKeeps

(* A step in which one send is over that has not asked for its session, and  *)
(* no admission changes hands.                                               *)
LEMMA OneEnds ==
  ASSUME IInv, NEW m \in Messages, NEW end \in Ends \ {"none"},
         message' = [message EXCEPT ![m] = Over(m, end)],
         wire' \in [Messages -> Seq(FrameNames)], post' \in [Messages -> Posts],
         \A q \in Messages \ {m} : wire'[q] = wire[q] /\ post'[q] = post[q],
         UNCHANGED <<accepted, submitted, asking, admissions, known, shown, navigation, adopted>>,
         status' \in {"ready", "submitted", "streaming", "error"}, screen' \in Screens,
         screen'.bubbles \subseteq screen.bubbles, screen'.of \in {screen.of, shown},
         pending' \subseteq pending, controller' \in [Sessions -> SUBSET Messages],
         \A s \in Sessions : controller'[s] \subseteq controller[s],
         message[m].at \notin {"unsent", "creating"}, m \notin admissions,
         wire'[m] \in {<<>>, wire[m], Tail(wire[m])}, wire[m] = <<>> => wire'[m] = <<>>,
         post'[m] \in {post[m], "closed"},
         end = "answered" \/ m \in screen'.bubbles => Got(m)
  PROVE  IInv'
<1> DEFINE x == Over(m, end)
<1>1. message \in [Messages -> Sends] /\ Sound(m) /\ m \notin Range(asking)
  BY DEF IInv, SendsTyped, Sound, Staged
<1>2. message'[m] = x
  BY <1>1
<1>3. /\ m \notin Range(asking)' /\ Range(submitted) \subseteq Range(submitted')
      /\ Range(accepted) \subseteq Range(accepted') /\ (post'[m] = "open" => post[m] = "open")
      /\ (end = "answered" \/ m \in screen'.bubbles => Got(m)')
  BY <1>1 DEF Got
<1>4. Sound(m)' /\ x \in Sends
  <2>1. message[m].at # "unsent" /\ message'[m] = Over(m, end)
    BY <1>2
  <2>2. Sound(m)' /\ message'[m] \in Sends
    BY <1>3, <2>1, Ended
  <2> QED BY <1>2, <2>2
<1>5. x.at = "over" /\ x.session = message[m].session
  BY DEF Over, Unsent
<1> HIDE DEF x
<1>6. message' = [message EXCEPT ![m] = x]
  BY DEF x
<1>7. /\ message[m].at # "creating" /\ x.at # "waiting" /\ x.session = message[m].session
      /\ m \in admissions => /\ x.at = message[m].at /\ x.kind = message[m].kind
                             /\ (x.started => message[m].started)
  BY <1>5
<1> QED BY <1>4, <1>6, <1>7, OneMoves

LEMMA NotAdmitting ==
  ASSUME IInv, NEW m \in Messages,
         message[m].at \notin {"creating", "posting"} \/ message[m].kind # "main"
  PROVE  m \notin admissions
BY DEF IInv, Admitting

LEMMA ReadQueuedKeeps ==
  ASSUME IInv, NEW m \in Messages, ReadQueued(m)
  PROVE  IInv'
<1>1. /\ Reads(m, "queued") /\ wire[m] # <<>> /\ wire' = [wire EXCEPT ![m] = Tail(@)]
      /\ UNCHANGED <<post, accepted, submitted, asking, admissions, known, shown, navigation,
                     adopted, status, pending, controller>>
  BY DEF ReadQueued, ownVars
<1>2. /\ wire' \in [Messages -> Seq(FrameNames)] /\ wire'[m] = Tail(wire[m])
      /\ \A q \in Messages \ {m} : wire'[q] = wire[q]
      /\ Head(wire[m]) # "refused" => Got(m)
      /\ (\E i \in 1 .. Len(wire'[m]) : wire'[m][i] # "refused") => Got(m)
      /\ post[m] \in {"open", "closed"} /\ Sound(m)
  BY <1>1, Taken
<1>3. /\ message[m].at \in {"posting", "admitted"} /\ message[m].kind = "queued"
      /\ message[m] \in Sends /\ message[m].session \in Sessions /\ message[m].end = "none"
      /\ m \notin admissions
  BY <1>1, <1>2, SendTyped, NotAdmitting DEF Reads, Sound, Staged
<1>4. /\ post' \in [Messages -> Posts]
      /\ \A q \in Messages \ {m} : wire'[q] = wire[q] /\ post'[q] = post[q]
  BY <1>1, <1>2 DEF IInv, SendsTyped
<1>5. /\ status' \in {"ready", "submitted", "streaming", "error"} /\ screen \in Screens
      /\ pending' \subseteq pending /\ controller' \in [Sessions -> SUBSET Messages]
      /\ \A s \in Sessions : controller'[s] \subseteq controller[s]
  BY <1>1, StatusTyped, ControllerTyped
<1>6. UNCHANGED <<accepted, submitted, asking, admissions, known, shown, navigation, adopted>>
  BY <1>1
<1>7. /\ message[m].at \notin {"unsent", "creating"} /\ message[m].at # "creating"
      /\ wire'[m] \in {<<>>, wire[m], Tail(wire[m])} /\ (wire[m] = <<>> => wire'[m] = <<>>)
      /\ post'[m] \in {post[m], "closed"}
  BY <1>1, <1>2, <1>3
<1>8. CASE /\ Head(wire[m]) = "queue" /\ message' = [message EXCEPT ![m].at = "admitted"]
           /\ UNCHANGED screen
  <2> DEFINE x == [message[m] EXCEPT !.at = "admitted"]
  <2>1. /\ x \in Sends /\ x.at = "admitted" /\ x.kind = "queued" /\ x.session = message[m].session
        /\ x.started = message[m].started /\ x.end = "none"
    BY <1>3 DEF Sends, Stages
  <2>2. message' = [message EXCEPT ![m] = x] /\ message'[m] = x
    BY <1>8 DEF IInv, SendsTyped
  <2> HIDE DEF x
  <2>3. Got(m)
    BY <1>2, <1>8
  <2>4. Staged(m)'
    BY <1>1, <1>2, <1>3, <2>1, <2>2 DEF Sound, Staged
  <2>5. StartFirst(m)'
    BY <1>1, <1>2, <1>3, <2>1, <2>2 DEF StartFirst
  <2>6. Heard(m)'
    BY <1>1, <2>1, <2>2, <2>3 DEF Heard, Got
  <2>7. Sound(m)'
    BY <2>4, <2>5, <2>6 DEF Sound
  <2>8. /\ screen' \in Screens /\ screen'.bubbles \subseteq screen.bubbles
        /\ screen'.of \in {screen.of, shown}
    BY <1>5, <1>8
  <2>9. /\ message[m].at # "creating" /\ x.at # "waiting" /\ x.session = message[m].session
        /\ m \in admissions => /\ x.at = message[m].at /\ x.kind = message[m].kind
                               /\ (x.started => message[m].started)
    BY <1>3, <2>1
  <2> QED BY <1>2, <1>4, <1>5, <1>6, <2>1, <2>2, <2>7, <2>8, <2>9, OneMoves
<1>9. CASE /\ Head(wire[m]) = "end" /\ message' = [message EXCEPT ![m] = Over(m, "answered")]
           /\ UNCHANGED screen
  <2>1. "answered" \in Ends \ {"none"} /\ Got(m)
    BY <1>2, <1>9 DEF Ends
  <2>2. /\ screen' \in Screens /\ screen'.bubbles \subseteq screen.bubbles
        /\ screen'.of \in {screen.of, shown}
    BY <1>5, <1>9
  <2> QED BY <1>2, <1>3, <1>4, <1>5, <1>6, <1>7, <1>9, <2>1, <2>2, OneEnds
<1>10. CASE /\ message' = [message EXCEPT ![m] = Over(m, "told")]
            /\ screen' = [screen EXCEPT !.bubbles = @ \ {m}]
  <2>1. "told" \in Ends \ {"none"} /\ "told" # "answered"
    BY DEF Ends
  <2>2. /\ screen' \in Screens /\ screen'.bubbles \subseteq screen.bubbles
        /\ screen'.of \in {screen.of, shown} /\ m \notin screen'.bubbles
    BY <1>5, <1>10 DEF Screens
  <2> QED BY <1>2, <1>3, <1>4, <1>5, <1>6, <1>7, <1>10, <2>1, <2>2, OneEnds
<1> QED BY <1>8, <1>9, <1>10 DEF ReadQueued

LEMMA BreakKeeps ==
  ASSUME IInv, NEW m \in Messages, Break(m)
  PROVE  IInv'
<1>1. /\ message[m].at \in {"posting", "admitted"} /\ GivenUp({m})
      /\ UNCHANGED <<accepted, submitted, asking, known, shown, navigation, adopted>>
  BY DEF Break
<1>2. /\ wire' \in [Messages -> Seq(FrameNames)] /\ post' \in [Messages -> Posts]
      /\ \A q \in Messages : q \notin {m} => wire'[q] = wire[q] /\ post'[q] = post[q]
      /\ \A q \in Messages : q \in {m} =>
           wire'[q] = <<>> /\ post'[q] = (IF post[q] = "open" THEN "closed" ELSE post[q])
  BY <1>1, GivenUpFacts
<1>3. /\ \A q \in Messages \ {m} : wire'[q] = wire[q] /\ post'[q] = post[q]
      /\ wire'[m] = <<>> /\ post'[m] \in {post[m], "closed"}
      /\ wire'[m] \in {<<>>, Tail(wire[m])} /\ wire'[m] \in {<<>>, wire[m], Tail(wire[m])}
      /\ (wire[m] = <<>> => wire'[m] = <<>>)
  BY <1>2
<1>4. CASE message[m].kind = "main"
  <2>1. Fail(m)
    BY <1>4 DEF Break
  <2>2. message[m].at \in {"posting"}
    BY <1>1, <1>4 DEF IInv, Sound, Staged
  <2> QED BY <1>1, <1>2, <1>3, <2>1, <2>2, Failing
<1>5. CASE message[m].kind # "main"
  <2>1. /\ message' = [message EXCEPT ![m] = Over(m, "told")]
        /\ screen' = [screen EXCEPT !.bubbles = @ \ {m}]
        /\ UNCHANGED <<status, admissions, pending, controller>>
    BY <1>5 DEF Break
  <2>2. "told" \in Ends \ {"none"} /\ "told" # "answered"
    BY DEF Ends
  <2>3. /\ screen' \in Screens /\ screen'.bubbles \subseteq screen.bubbles
        /\ screen'.of \in {screen.of, shown} /\ m \notin screen'.bubbles
    BY <2>1, StatusTyped DEF Screens
  <2>4. /\ status' \in {"ready", "submitted", "streaming", "error"}
        /\ pending' \subseteq pending /\ controller' \in [Sessions -> SUBSET Messages]
        /\ \A s \in Sessions : controller'[s] \subseteq controller[s]
    BY <2>1, StatusTyped, ControllerTyped
  <2>5. /\ UNCHANGED <<accepted, submitted, asking, admissions, known, shown, navigation, adopted>>
        /\ message[m].at \notin {"unsent", "creating"} /\ m \notin admissions
    BY <1>1, <1>5, <2>1, NotAdmitting
  <2> QED BY <1>2, <1>3, <2>1, <2>2, <2>3, <2>4, <2>5, OneEnds
<1> QED BY <1>4, <1>5

(* The end of a reconciliation or a recovery: the runtime has the message.   *)
LEMMA OverAtLast ==
  ASSUME IInv, NEW m \in Messages, message[m].at \in {"reconciling", "recovering"},
         NEW end \in Ends \ {"none"}, message' = [message EXCEPT ![m] = Over(m, end)],
         Released({m}), UNCHANGED <<serverVars, known, shown, asking, navigation, submitted, adopted>>,
         status' \in {"ready", "submitted", "streaming", "error"}, screen' \in Screens,
         screen'.bubbles \subseteq screen.bubbles, screen'.of \in {screen.of, shown}
  PROVE  IInv'
<1>1. m \notin admissions /\ Sound(m)
  BY NotAdmitting DEF IInv
<1>2. /\ admissions' = admissions \ {m} /\ pending' \subseteq pending
      /\ controller' \in [Sessions -> SUBSET Messages]
      /\ \A s \in Sessions : controller'[s] \subseteq controller[s]
  BY ReleasedFacts
<1>3. UNCHANGED <<wire, post, accepted>>
  BY DEF serverVars
<1>4. Got(m)
  BY <1>1 DEF Sound, Heard
<1>5. /\ wire' \in [Messages -> Seq(FrameNames)] /\ post' \in [Messages -> Posts]
      /\ \A q \in Messages \ {m} : wire'[q] = wire[q] /\ post'[q] = post[q]
      /\ wire'[m] \in {<<>>, wire[m], Tail(wire[m])} /\ (wire[m] = <<>> => wire'[m] = <<>>)
      /\ post'[m] \in {post[m], "closed"}
  BY <1>3 DEF IInv, SendsTyped
<1>6. UNCHANGED <<accepted, submitted, asking, admissions, known, shown, navigation, adopted>>
  BY <1>1, <1>2, <1>3
<1>7. message[m].at \notin {"unsent", "creating"}
  OBVIOUS
<1> QED BY <1>1, <1>2, <1>4, <1>5, <1>6, <1>7, OneEnds

LEMMA ReconcileKeeps ==
  ASSUME IInv, NEW m \in Messages, Reconcile(m)
  PROVE  IInv'
<1>1. PICK running \in BOOLEAN, empty \in BOOLEAN :
        /\ status' = IF SameSession(m) /\ (message[m].done \/ ~running) THEN "ready" ELSE status
        /\ LET after == IF StillShown(m) THEN Loaded(message[m].session, empty) ELSE screen
           IN  screen' = [after EXCEPT !.bubbles = @ \ {q \in {m} : message[m].aborted}]
  BY DEF Reconcile
<1>2. /\ message[m].at \in {"reconciling", "recovering"} /\ Released({m})
      /\ message' = [message EXCEPT ![m] = Over(m, "answered")]
      /\ UNCHANGED <<serverVars, known, shown, asking, navigation, submitted, adopted>>
  BY DEF Reconcile
<1> DEFINE after == IF StillShown(m) THEN Loaded(message[m].session, empty) ELSE screen
<1>3. /\ after \in Screens /\ after.bubbles \subseteq screen.bubbles
      /\ after.of \in {screen.of, shown}
  BY StatusTyped, SendTyped DEF StillShown, SameSession, Loaded, Screens
<1>4. screen' = [after EXCEPT !.bubbles = @ \ {q \in {m} : message[m].aborted}]
  BY <1>1
<1> HIDE DEF after
<1>5. /\ screen' \in Screens /\ screen'.bubbles \subseteq screen.bubbles
      /\ screen'.of \in {screen.of, shown}
  BY <1>3, <1>4 DEF Screens
<1>6. status' \in {"ready", "submitted", "streaming", "error"}
  BY <1>1, StatusTyped
<1>7. "answered" \in Ends \ {"none"}
  BY DEF Ends
<1> QED BY <1>2, <1>5, <1>6, <1>7, OverAtLast

LEMMA PollKeeps ==
  ASSUME IInv, NEW m \in Messages, Poll(m)
  PROVE  IInv'
<1>1. /\ message[m].at \in {"reconciling", "recovering"} /\ message[m].session = shown
      /\ UNCHANGED <<serverVars, known, shown, asking, navigation, submitted, adopted>>
  BY DEF Poll, Current, SameSession
<1>2. CASE /\ status' = "streaming"
           /\ UNCHANGED <<message, screen, admissions, pending, controller>>
  <2> DEFINE x == message[m]
  <2>1. UNCHANGED <<wire, post, accepted>>
    BY <1>1 DEF serverVars
  <2>2. /\ x \in Sends /\ message' = [message EXCEPT ![m] = x]
        /\ wire' \in [Messages -> Seq(FrameNames)] /\ post' \in [Messages -> Posts]
        /\ \A q \in Messages \ {m} : wire'[q] = wire[q] /\ post'[q] = post[q]
    BY <1>2, <2>1 DEF IInv, SendsTyped
  <2>3. Sound(m)'
    BY <1>1, <1>2, <2>1, Alone
  <2>4. /\ status' \in {"ready", "submitted", "streaming", "error"} /\ screen' \in Screens
        /\ screen'.bubbles \subseteq screen.bubbles /\ screen'.of \in {screen.of, shown}
        /\ pending' \subseteq pending /\ controller' \in [Sessions -> SUBSET Messages]
        /\ \A s \in Sessions : controller'[s] \subseteq controller[s]
    BY <1>2, StatusTyped, ControllerTyped
  <2>5. UNCHANGED <<accepted, submitted, asking, admissions, known, shown, navigation, adopted>>
    BY <1>1, <1>2, <2>1
  <2>6. /\ message[m].at # "creating" /\ x.at # "waiting" /\ x.session = message[m].session
        /\ m \in admissions => /\ x.at = message[m].at /\ x.kind = message[m].kind
                               /\ (x.started => message[m].started)
    BY <1>1
  <2> HIDE DEF x
  <2> QED BY <2>2, <2>3, <2>4, <2>5, <2>6, OneMoves
<1>3. ASSUME NEW empty \in BOOLEAN, screen' = Loaded(shown, empty), status' = "ready",
             message' = [message EXCEPT ![m] = Over(m, "answered")], Released({m})
      PROVE  IInv'
  <2>1. /\ screen' \in Screens /\ screen'.bubbles \subseteq screen.bubbles
        /\ screen'.of \in {screen.of, shown}
    BY <1>1, <1>3, StatusTyped, SendTyped DEF Loaded, Screens
  <2>2. "answered" \in Ends \ {"none"}
    BY DEF Ends
  <2>3. status' \in {"ready", "submitted", "streaming", "error"}
    BY <1>3
  <2> QED BY <1>1, <1>3, <2>1, <2>2, <2>3, OverAtLast
<1>4. CASE /\ status' = "error" /\ message' = [message EXCEPT ![m] = Over(m, "told")]
           /\ Released({m}) /\ UNCHANGED screen
  <2>1. /\ screen' \in Screens /\ screen'.bubbles \subseteq screen.bubbles
        /\ screen'.of \in {screen.of, shown}
    BY <1>4, StatusTyped
  <2>2. "told" \in Ends \ {"none"}
    BY DEF Ends
  <2>3. status' \in {"ready", "submitted", "streaming", "error"}
    BY <1>4
  <2> QED BY <1>1, <1>4, <2>1, <2>2, <2>3, OverAtLast
<1> QED BY <1>2, <1>3, <1>4 DEF Poll

LEMMA AbandonKeeps ==
  ASSUME IInv, NEW m \in Messages, Abandon(m)
  PROVE  IInv'
<1>1. /\ message[m].at \in {"reconciling", "recovering"} /\ Released({m})
      /\ message' = [message EXCEPT ![m] = Over(m, "answered")]
      /\ UNCHANGED <<serverVars, known, viewVars, asking, navigation, submitted, adopted>>
  BY DEF Abandon
<1>2. UNCHANGED <<serverVars, known, shown, asking, navigation, submitted, adopted, status, screen>>
  BY <1>1 DEF viewVars
<1>3. /\ screen' \in Screens /\ screen'.bubbles \subseteq screen.bubbles
      /\ screen'.of \in {screen.of, shown}
      /\ status' \in {"ready", "submitted", "streaming", "error"}
  BY <1>2, StatusTyped
<1>4. "answered" \in Ends \ {"none"}
  BY DEF Ends
<1> QED BY <1>1, <1>2, <1>3, <1>4, OverAtLast

LEMMA InvalidKeeps ==
  ASSUME IInv, NEW m \in Messages, Invalid(m)
  PROVE  IInv'
<1>1. /\ Reads(m, "main") /\ wire[m] # <<>> /\ Head(wire[m]) # "refused" /\ GivenUp({m})
      /\ UNCHANGED <<accepted, submitted, asking, known, shown, status, navigation, adopted>>
  BY DEF Invalid
<1>2. /\ wire' \in [Messages -> Seq(FrameNames)] /\ post' \in [Messages -> Posts]
      /\ \A q \in Messages : q \notin {m} => wire'[q] = wire[q] /\ post'[q] = post[q]
      /\ \A q \in Messages : q \in {m} =>
           wire'[q] = <<>> /\ post'[q] = (IF post[q] = "open" THEN "closed" ELSE post[q])
  BY <1>1, GivenUpFacts
<1>3. /\ message[m].at = "posting" /\ message[m].kind = "main" /\ message[m].session \in Sessions
      /\ Sound(m)
  BY <1>1, TurnPosts DEF IInv
<1>4. Got(m)
  <2>1. wire[m] \in Seq(FrameNames)
    BY SendTyped
  <2>2. 1 \in 1 .. Len(wire[m]) /\ wire[m][1] # "refused"
    BY <1>1, <2>1, Tails
  <2> QED BY <1>3, <2>2 DEF Sound, Heard
<1>5. /\ status' \in {"ready", "submitted", "streaming", "error"} /\ asking' \in Seq(Messages)
      /\ accepted' = accepted /\ submitted' = submitted
      /\ UNCHANGED <<known, shown, navigation, adopted>>
  BY <1>1, StatusTyped DEF IInv, SendsTyped
<1>6. CASE SameSession(m)
  <2> DEFINE rejected == Rejected({m})
             moved == {m} \union rejected
             x == [message[m] EXCEPT !.at = "recovering"]
  <2>1. /\ message' = [q \in Messages |->
             CASE q = m -> [message[q] EXCEPT !.at = "recovering"]
               [] q \in rejected -> Over(q, "told")
               [] OTHER -> message[q]]
        /\ screen' = [screen EXCEPT !.bubbles = @ \ rejected]
        /\ admissions' = admissions \ {m}
        /\ UNCHANGED <<pending, controller>>
    BY <1>6 DEF Invalid
  <2>2. m \notin rejected /\ rejected \subseteq Messages
    BY <1>3 DEF Rejected
  <2>3. /\ message'[m] = x
        /\ \A q \in rejected : message'[q] = Over(q, "told")
        /\ \A q \in Messages \ moved : message'[q] = message[q]
        /\ message' = [q \in Messages |-> message'[q]]
    <3> HIDE DEF rejected
    <3> QED BY <2>1, <2>2
  <2>4. /\ x \in Sends /\ x.at = "recovering" /\ x.kind = "main" /\ x.session = message[m].session
        /\ x.started = message[m].started /\ x.end = message[m].end
    BY <1>3, SendTyped DEF Sends, Stages
  <2> HIDE DEF x
  <2>5. Sound(m)'
    <3>1. Staged(m)'
      BY <1>1, <1>3, <2>3, <2>4 DEF Sound, Staged
    <3>2. post'[m] \in {post[m], "closed"} /\ wire'[m] = <<>>
      BY <1>2
    <3>3. StartFirst(m)'
      BY <2>3, <2>4, <3>2 DEF StartFirst
    <3>4. Heard(m)'
      BY <1>1, <1>4, <2>3, <2>4 DEF Heard, Got
    <3> QED BY <3>1, <3>3, <3>4 DEF Sound
  <2>6. /\ screen' \in Screens /\ screen'.bubbles \subseteq screen.bubbles
        /\ screen'.of \in {screen.of, shown} /\ screen'.bubbles \cap rejected = {}
    BY <2>1, StatusTyped DEF Screens
  <2>7. ASSUME NEW q \in rejected
        PROVE  /\ q \in Messages /\ message[q].at = "waiting" /\ message'[q] \in Sends
               /\ Sound(q)' /\ message'[q].at = "over" /\ message'[q].session = message[q].session
    <3>1. q \in Messages /\ q # m /\ q \in Rejected({m})
      BY <2>2
    <3>2. /\ message'[q] = Over(q, "told") /\ wire'[q] = wire[q] /\ post'[q] = post[q]
          /\ q \notin screen'.bubbles /\ (q \in Range(asking)' => q \in Range(asking))
      BY <1>1, <1>2, <2>3, <2>6, <3>1
    <3> QED BY <1>5, <3>1, <3>2, RejectedSound
  <2>8. message' \in [Messages -> Sends]
    <3>1. \A q \in Messages : message'[q] \in Sends
      BY <2>3, <2>4, <2>7, SendTyped
    <3> QED BY <2>3, <3>1
  <2>9. \A q \in Messages \ moved :
          /\ message'[q] = message[q] /\ wire'[q] = wire[q] /\ post'[q] = post[q]
          /\ q \in Range(asking') <=> q \in Range(asking)
          /\ message[q].at = "waiting" => message[q].on \cap admissions \subseteq admissions'
    BY <1>1, <1>2, <2>1, <2>3 DEF Rejected
  <2>10. \A q \in moved :
           /\ Sound(q)' /\ StillWaits(q) /\ message'[q].session = message[q].session
           /\ q \in screen'.bubbles => message[q].at # "creating" \/ message'[q].at = "creating"
           /\ q \in admissions' => /\ message'[q].at = message[q].at
                                   /\ message'[q].kind = message[q].kind
                                   /\ (message'[q].started => message[q].started)
    <3>1. \A q \in rejected : q \notin admissions
      BY <2>7, NotAdmitting
    <3>2. m \notin admissions'
      BY <2>1
    <3>3. admissions' \subseteq admissions
      BY <2>1
    <3> HIDE DEF rejected
    <3> QED BY <1>3, <2>3, <2>4, <2>5, <2>7, <3>1, <3>2, <3>3 DEF StillWaits
  <2>11. /\ pending' \subseteq pending /\ controller' \in [Sessions -> SUBSET Messages]
         /\ \A s \in Sessions : controller'[s] \subseteq controller[s]
         /\ admissions' \subseteq admissions /\ moved \in SUBSET Messages
    BY <2>1, <2>2, ControllerTyped
  <2> HIDE DEF moved
  <2> QED BY <1>2, <1>5, <2>6, <2>8, <2>9, <2>10, <2>11, Progress
<1>7. CASE ~SameSession(m)
  <2> DEFINE ends == [q \in {m} |-> "hidden"]
             over == {m}
             lost == {}
  <2>1. ends \in [over -> Ends \ {"none"}] /\ over \in SUBSET Messages /\ Finish(ends, lost)
    BY <1>7 DEF Invalid, Ends
  <2>2. MayEnd(over, ends, lost)
    BY <1>2, <1>3, <1>4 DEF MayEnd
  <2>3. Range(asking') = Range(asking) \ over
    BY <1>1, <1>3 DEF Sound, Staged
  <2> HIDE DEF over, ends, lost
  <2> QED BY <1>2, <1>5, <2>1, <2>2, <2>3, Finishing
<1> QED BY <1>6, <1>7

LEMMA CreationFailsKeeps ==
  ASSUME IInv, CreationFails
  PROVE  IInv'
<1> DEFINE over == Range(asking)
           ends == [m \in Range(asking) |-> IF message[m].aborted THEN "stopped" ELSE "told"]
<1>1. /\ Finish(ends, over) /\ asking' = <<>> /\ status' \in {"error", status}
      /\ UNCHANGED <<wire, post, accepted, submitted, known, shown, navigation, adopted>>
  BY DEF CreationFails, serverVars
<1>2. over \in SUBSET Messages /\ Range(<<>>) = {}
  <2>1. asking \in Seq(Messages)
    BY DEF IInv, SendsTyped
  <2> QED BY <2>1, RangeIn
<1>3. ends \in [over -> Ends \ {"none"}] /\ \A q \in over : ends[q] # "answered"
  BY DEF Ends
<1>4. MayEnd(over, ends, over)
  <2>1. \A q \in over : message[q].at # "unsent" /\ q \in Messages
    BY <1>2 DEF IInv, Sound, Staged
  <2> HIDE DEF over, ends
  <2> QED BY <1>1, <1>3, <2>1 DEF MayEnd
<1>5. /\ wire' \in [Messages -> Seq(FrameNames)] /\ post' \in [Messages -> Posts]
      /\ asking' \in Seq(Messages) /\ Range(asking') = Range(asking) \ over
      /\ status' \in {"ready", "submitted", "streaming", "error"}
  BY <1>1, <1>2, StatusTyped DEF IInv, SendsTyped
<1>6. /\ accepted' = accepted /\ submitted' = submitted
      /\ UNCHANGED <<known, shown, navigation, adopted>>
  BY <1>1
<1> HIDE DEF over, ends
<1> QED BY <1>1, <1>2, <1>3, <1>4, <1>5, <1>6, Finishing

LEMMA StopKeeps ==
  ASSUME IInv, Stop
  PROVE  IInv'
<1> DEFINE cut      == {m \in Aborted : message[m].at = "posting"}
           dropped  == AdmissionsOf(shown) \union cut
           rejected == Rejected(dropped)
           moved    == {q \in Messages : q \in Aborted \/ q \in rejected}
<1>1. /\ message' = [m \in Messages |->
           CASE m \in cut -> Over(m, "stopped")
             [] m \in rejected -> Over(m, "told")
             [] m \in Aborted \ (cut \union rejected) -> [message[m] EXCEPT !.aborted = TRUE]
             [] OTHER -> message[m]]
      /\ screen' = [screen EXCEPT !.bubbles = @ \ (cut \union rejected)]
      /\ admissions' = admissions \ dropped
      /\ GivenUp(cut)
      /\ controller' = [s \in Sessions |-> IF s = shown THEN {} ELSE controller[s] \ cut]
      /\ pending' = {}
  BY DEF Stop, StopSends
<1>2. /\ UNCHANGED <<accepted, submitted, asking, known, shown, navigation, adopted>>
      /\ status' = "ready"
  BY DEF Stop
<1>3. /\ \A q \in cut : q \in Aborted /\ message[q].at = "posting"
      /\ \A q \in rejected : q \in Messages /\ message[q].at = "waiting" /\ q \in Rejected(dropped)
      /\ \A q \in Messages : message[q].at = "waiting" /\ q \notin rejected =>
           message[q].on \cap dropped = {}
      /\ cut \subseteq dropped
  BY DEF Rejected
<1>4. /\ wire' \in [Messages -> Seq(FrameNames)] /\ post' \in [Messages -> Posts]
      /\ \A q \in Messages : q \notin cut => wire'[q] = wire[q] /\ post'[q] = post[q]
      /\ \A q \in Messages : q \in cut =>
           wire'[q] = <<>> /\ post'[q] = (IF post[q] = "open" THEN "closed" ELSE post[q])
  BY <1>1, GivenUpFacts
<1> HIDE DEF cut, dropped, rejected
<1>5. /\ \A q \in Messages : q \in cut => message'[q] = Over(q, "stopped")
      /\ \A q \in Messages : q \in rejected => message'[q] = Over(q, "told")
      /\ \A q \in Messages : q \in Aborted /\ q \notin cut /\ q \notin rejected
           => message'[q] = [message[q] EXCEPT !.aborted = TRUE]
      /\ \A q \in Messages \ moved : message'[q] = message[q] /\ q \notin cut
      /\ message' = [q \in Messages |-> message'[q]]
  <2>1. \A q \in Messages : ~(q \in cut /\ q \in rejected)
    BY <1>3
  <2>2. \A q \in Messages : q \in cut => message'[q] = Over(q, "stopped")
    BY <1>1, <2>1
  <2>7. \A q \in Messages : q \in rejected => message'[q] = Over(q, "told")
    BY <1>1, <2>1
  <2>3. \A q \in Messages : q \in Aborted /\ q \notin cut /\ q \notin rejected
           => message'[q] = [message[q] EXCEPT !.aborted = TRUE]
    BY <1>1
  <2>4. \A q \in Messages : q \notin Aborted /\ q \notin cut /\ q \notin rejected
           => message'[q] = message[q]
    BY <1>1
  <2>5. \A q \in Messages \ moved : q \notin cut /\ q \notin Aborted /\ q \notin rejected
    BY <1>3
  <2>6. message' = [q \in Messages |-> message'[q]]
    BY <1>1
  <2> QED BY <2>2, <2>3, <2>4, <2>5, <2>6, <2>7
<1>6. /\ screen' \in Screens /\ screen'.bubbles \subseteq screen.bubbles
      /\ screen'.of \in {screen.of, shown} /\ screen'.bubbles = screen.bubbles \ (cut \union rejected)
  BY <1>1, StatusTyped DEF Screens
<1>7. ASSUME NEW q \in Messages, q \in cut
      PROVE  /\ Sound(q)' /\ message'[q] \in Sends /\ message'[q].at = "over"
             /\ message'[q].session = message[q].session /\ q \notin admissions'
             /\ message[q].at = "posting"
  <2>1. /\ message'[q] = Over(q, "stopped") /\ message[q].at = "posting" /\ q \notin admissions'
        /\ message[q].at # "unsent"
    BY <1>1, <1>3, <1>5, <1>7
  <2>2. "stopped" \in Ends \ {"none"} /\ "stopped" # "answered" /\ q \notin screen'.bubbles
    BY <1>6, <1>7 DEF Ends
  <2>3. wire'[q] \in {<<>>, wire[q], Tail(wire[q])} /\ (wire[q] = <<>> => wire'[q] = <<>>)
        /\ post'[q] \in {post[q], "closed"} /\ (post'[q] = "open" => post[q] = "open")
    BY <1>4, <1>7
  <2>4. q \notin Range(asking)'
    BY <1>2, <2>1 DEF IInv, Sound, Staged
  <2>5. Sound(q)' /\ message'[q] \in Sends
    BY <1>2, <2>1, <2>2, <2>3, <2>4, Ended
  <2> QED BY <2>1, <2>5 DEF Over, Unsent
<1>8. ASSUME NEW q \in rejected
      PROVE  /\ q \in Messages /\ message[q].at = "waiting" /\ message'[q] \in Sends
             /\ Sound(q)' /\ message'[q].at = "over" /\ message'[q].session = message[q].session
             /\ q \notin admissions
  <2>1. q \in Messages /\ q \in Rejected(dropped) /\ q \notin cut /\ message[q].at = "waiting"
    BY <1>3
  <2>2. /\ message'[q] = Over(q, "told") /\ wire'[q] = wire[q] /\ post'[q] = post[q]
        /\ q \notin screen'.bubbles /\ (q \in Range(asking)' => q \in Range(asking))
        /\ submitted' = submitted /\ accepted' = accepted
    BY <1>2, <1>4, <1>5, <1>6, <2>1
  <2>3. q \notin admissions
    BY <2>1, NotAdmitting
  <2> QED BY <2>1, <2>2, <2>3, RejectedSound
<1>9. ASSUME NEW q \in Messages, q \in Aborted, q \notin cut, q \notin rejected
      PROVE  /\ Sound(q)' /\ message'[q] \in Sends /\ message'[q].at = message[q].at
             /\ message'[q].session = message[q].session /\ message'[q].kind = message[q].kind
             /\ message'[q].on = message[q].on /\ (message'[q].started => message[q].started)
  <2> DEFINE x == [message[q] EXCEPT !.aborted = TRUE]
  <2>1. message'[q] = x /\ wire'[q] = wire[q] /\ post'[q] = post[q] /\ Sound(q)
    BY <1>4, <1>5, <1>9 DEF IInv
  <2>2. /\ x \in Sends /\ x.at = message[q].at /\ x.kind = message[q].kind
        /\ x.session = message[q].session /\ x.on = message[q].on
        /\ x.started = message[q].started /\ x.end = message[q].end
    <3>1. message[q] \in Sends
      BY SendTyped
    <3> QED BY <3>1 DEF Sends
  <2> HIDE DEF x
  <2>3. Staged(q)'
    BY <1>2, <2>1, <2>2 DEF Sound, Staged
  <2>4. StartFirst(q)'
    BY <2>1, <2>2 DEF Sound, StartFirst
  <2>5. Heard(q)'
    BY <1>2, <1>6, <2>1, <2>2 DEF Sound, Heard, Got
  <2> QED BY <2>1, <2>2, <2>3, <2>4, <2>5 DEF Sound
<1>10. message' \in [Messages -> Sends]
  <2>1. \A q \in Messages : message'[q] \in Sends
    BY <1>5, <1>7, <1>8, <1>9, SendTyped
  <2> QED BY <1>5, <2>1
<1>11. \A q \in Messages \ moved :
         /\ message'[q] = message[q] /\ wire'[q] = wire[q] /\ post'[q] = post[q]
         /\ q \in Range(asking') <=> q \in Range(asking)
         /\ message[q].at = "waiting" => message[q].on \cap admissions \subseteq admissions'
  BY <1>1, <1>2, <1>3, <1>4, <1>5
<1>12. ASSUME NEW q \in moved
       PROVE  /\ Sound(q)' /\ StillWaits(q) /\ message'[q].session = message[q].session
              /\ q \in screen'.bubbles => message[q].at # "creating" \/ message'[q].at = "creating"
              /\ q \in admissions' => /\ message'[q].at = message[q].at
                                      /\ message'[q].kind = message[q].kind
                                      /\ (message'[q].started => message[q].started)
  <2>1. CASE q \in cut
    BY <1>7, <2>1 DEF StillWaits
  <2>2. CASE q \in rejected
    BY <1>1, <1>8, <2>2 DEF StillWaits
  <2>3. CASE q \notin cut /\ q \notin rejected
    <3>1. q \in Aborted
      BY <2>3
    <3>2. message[q].at = "waiting" => message[q].on \cap admissions \subseteq admissions'
      BY <1>1, <1>3, <2>3
    <3> QED BY <1>9, <2>3, <3>1, <3>2 DEF StillWaits
  <2> QED BY <2>1, <2>2, <2>3
<1>13. \A q \in moved :
         /\ Sound(q)' /\ StillWaits(q) /\ message'[q].session = message[q].session
         /\ q \in screen'.bubbles => message[q].at # "creating" \/ message'[q].at = "creating"
         /\ q \in admissions' => /\ message'[q].at = message[q].at
                                 /\ message'[q].kind = message[q].kind
                                 /\ (message'[q].started => message[q].started)
  BY <1>12
<1>14. /\ pending' \subseteq pending /\ controller' \in [Sessions -> SUBSET Messages]
       /\ \A s \in Sessions : controller'[s] \subseteq controller[s]
       /\ admissions' \subseteq admissions
  BY <1>1, ControllerTyped
<1>15. /\ accepted' = accepted /\ submitted' = submitted /\ asking' \in Seq(Messages)
       /\ UNCHANGED <<known, shown, navigation, adopted>>
       /\ status' \in {"ready", "submitted", "streaming", "error"}
  BY <1>2 DEF IInv, SendsTyped
<1>16. moved \in SUBSET Messages
  OBVIOUS
<1> HIDE DEF moved
<1> QED BY <1>4, <1>6, <1>10, <1>11, <1>13, <1>14, <1>15, <1>16, Progress

------------------------------------------------------------------------------
(* The server                                                                *)

(* Frames are written behind what is there.                                  *)
LEMMA Writing ==
  ASSUME IInv, NEW w \in [Messages -> Seq(FrameNames)], NEW ms, NEW f \in FrameNames
  PROVE  /\ Written(w, ms, f) \in [Messages -> Seq(FrameNames)]
         /\ \A q \in Messages :
              /\ q \notin ms => Written(w, ms, f)[q] = w[q]
              /\ w[q] # <<>> => /\ Written(w, ms, f)[q] # <<>>
                                /\ Written(w, ms, f)[q][1] = w[q][1]
<1> DEFINE v == Written(w, ms, f)
<1>1. v = [m \in Messages |-> IF m \in ms /\ message[m].at # "over" /\ f \in ActedOn(m)
                              THEN Append(w[m], f) ELSE w[m]]
  BY DEF Written
<1> HIDE DEF v
<1>2. ASSUME NEW q \in Messages
      PROVE  /\ v[q] \in Seq(FrameNames) /\ (q \notin ms => v[q] = w[q])
             /\ w[q] # <<>> => v[q] # <<>> /\ v[q][1] = w[q][1]
  <2>1. w[q] \in Seq(FrameNames)
    OBVIOUS
  <2>2. CASE v[q] = w[q]
    BY <2>1, <2>2
  <2>3. CASE q \in ms /\ v[q] = Append(w[q], f)
    BY <2>1, <2>3, Appended
  <2> QED BY <1>1, <2>2, <2>3
<1>3. v \in [Messages -> Seq(FrameNames)]
  BY <1>1, <1>2
<1> QED BY <1>2, <1>3 DEF v

LEMMA WritingOne ==
  ASSUME IInv, NEW w \in [Messages -> Seq(FrameNames)], NEW m \in Messages, NEW f \in FrameNames
  PROVE  /\ Written(w, {m}, f) \in [Messages -> Seq(FrameNames)]
         /\ \A q \in Messages \ {m} : Written(w, {m}, f)[q] = w[q]
         /\ \A q \in Messages :
              w[q] # <<>> => /\ Written(w, {m}, f)[q] # <<>>
                             /\ Written(w, {m}, f)[q][1] = w[q][1]
<1> DEFINE ms == {m}
<1>1. \A q \in Messages \ {m} : q \notin ms
  OBVIOUS
<1> HIDE DEF ms
<1>2. /\ Written(w, ms, f) \in [Messages -> Seq(FrameNames)]
      /\ \A q \in Messages :
           /\ q \notin ms => Written(w, ms, f)[q] = w[q]
           /\ w[q] # <<>> => /\ Written(w, ms, f)[q] # <<>>
                             /\ Written(w, ms, f)[q][1] = w[q][1]
  BY Writing
<1> QED BY <1>1, <1>2 DEF ms

(* A POST that is open is written to, or ends.                               *)
LEMMA Served ==
  ASSUME IInv, NEW m \in Messages, UNCHANGED <<message, asking, submitted, screen>>,
         Range(accepted) \subseteq Range(accepted'), post[m] = "open",
         post'[m] \in {"open", "closed"},
         wire[m] # <<>> => wire'[m] # <<>> /\ wire'[m][1] = wire[m][1]
  PROVE  Sound(m)'
<1>1. Sound(m)
  BY DEF IInv
<1>2. Got(m) /\ Got(m)'
  BY <1>1 DEF Sound, Heard, Got
<1>3. Staged(m)'
  BY <1>1 DEF Sound, Staged
<1>4. StartFirst(m)'
  BY <1>1 DEF Sound, StartFirst
<1>5. Heard(m)'
  BY <1>2 DEF Heard
<1> QED BY <1>3, <1>4, <1>5 DEF Sound

LEMMA RefuseKeeps ==
  ASSUME IInv, NEW m \in Messages, Refuse(m)
  PROVE  IInv'
<1>1. /\ post[m] = "sent" /\ post' = [post EXCEPT ![m] = "closed"]
      /\ wire' = Written(wire, {m}, "refused")
      /\ UNCHANGED <<message, accepted, known, viewVars, admissions, asking, pending, controller,
                     navigation, submitted, adopted, shown, status, screen>>
  BY DEF Refuse, ownVars, viewVars
<1>2. wire \in [Messages -> Seq(FrameNames)] /\ post \in [Messages -> Posts] /\ Sound(m)
  BY DEF IInv, SendsTyped
<1>3. /\ wire' \in [Messages -> Seq(FrameNames)]
      /\ \A q \in Messages \ {m} : wire'[q] = wire[q] /\ post'[q] = post[q]
  <2>1. "refused" \in FrameNames
    BY DEF FrameNames
  <2>2. /\ Written(wire, {m}, "refused") \in [Messages -> Seq(FrameNames)]
        /\ \A q \in Messages \ {m} : Written(wire, {m}, "refused")[q] = wire[q]
    BY <1>2, <2>1, WritingOne
  <2>3. \A q \in Messages \ {m} : post'[q] = post[q]
    BY <1>1, <1>2
  <2> QED BY <1>1, <2>2, <2>3
<1>4. post' \in [Messages -> Posts] /\ post'[m] = "closed"
  BY <1>1, <1>2 DEF Posts
<1>5. wire[m] = <<>>
  BY <1>1, <1>2 DEF Sound, StartFirst
<1>6. /\ \A i \in 1 .. Len(wire'[m]) : wire'[m][i] = "refused"
      /\ message[m].at = "posting" => wire'[m] # <<>> /\ wire'[m][1] = "refused"
  <2>1. wire'[m] = IF message[m].at # "over" /\ "refused" \in ActedOn(m)
                   THEN Append(<<>>, "refused") ELSE <<>>
    BY <1>1, <1>5 DEF Written
  <2>2. "refused" \in ActedOn(m)
    BY DEF ActedOn
  <2>3. Append(<<>>, "refused") = <<"refused">>
    OBVIOUS
  <2> QED BY <2>1, <2>2, <2>3
<1>7. Staged(m)'
  BY <1>1, <1>2, <1>4 DEF Sound, Staged
<1>8. StartFirst(m)'
  BY <1>1, <1>4, <1>6 DEF StartFirst
<1>9. Heard(m)'
  BY <1>1, <1>2, <1>4, <1>6 DEF Sound, Heard, Got
<1>10. ASSUME NEW q \in Messages PROVE Sound(q)'
  <2>1. CASE q = m
    BY <1>7, <1>8, <1>9, <2>1 DEF Sound
  <2>2. CASE q # m
    BY <1>1, <1>3, <2>2, Alone
  <2> QED BY <2>1, <2>2
<1>11. /\ accepted' \in Seq(Messages) /\ Range(accepted) \subseteq Range(accepted')
       /\ UNCHANGED <<message, known, viewVars, admissions, asking, pending, controller,
                      navigation, submitted, adopted>>
  BY <1>1 DEF IInv, SendsTyped
<1> QED BY <1>3, <1>4, <1>10, <1>11, Serving

LEMMA PromptFailsKeeps ==
  ASSUME IInv, NEW m \in Messages, PromptFails(m)
  PROVE  IInv'
<1>1. PICK f \in {"error", "end"} : wire' = Written(wire, {m}, f)
  BY DEF PromptFails
<1>2. /\ post[m] = "open" /\ post' = [post EXCEPT ![m] = "closed"]
      /\ UNCHANGED <<message, accepted, known, viewVars, admissions, asking, pending, controller,
                     navigation, submitted, adopted, shown, status, screen>>
  BY DEF PromptFails, ownVars, viewVars
<1>3. wire \in [Messages -> Seq(FrameNames)] /\ post \in [Messages -> Posts] /\ f \in FrameNames
  BY DEF IInv, SendsTyped, FrameNames
<1>4. /\ wire' \in [Messages -> Seq(FrameNames)]
      /\ \A q \in Messages \ {m} : wire'[q] = wire[q] /\ post'[q] = post[q]
      /\ wire[m] # <<>> => wire'[m] # <<>> /\ wire'[m][1] = wire[m][1]
  <2>1. /\ Written(wire, {m}, f) \in [Messages -> Seq(FrameNames)]
        /\ \A q \in Messages \ {m} : Written(wire, {m}, f)[q] = wire[q]
        /\ wire[m] # <<>> => /\ Written(wire, {m}, f)[m] # <<>>
                             /\ Written(wire, {m}, f)[m][1] = wire[m][1]
    BY <1>3, WritingOne
  <2>2. \A q \in Messages \ {m} : post'[q] = post[q]
    BY <1>2, <1>3
  <2> QED BY <1>1, <2>1, <2>2
<1>5. post' \in [Messages -> Posts] /\ post'[m] \in {"open", "closed"}
  BY <1>2, <1>3 DEF Posts
<1>6. ASSUME NEW q \in Messages PROVE Sound(q)'
  <2>1. CASE q = m
    BY <1>2, <1>4, <1>5, <2>1, Served
  <2>2. CASE q # m
    BY <1>2, <1>4, <2>2, Alone
  <2> QED BY <2>1, <2>2
<1>7. /\ accepted' \in Seq(Messages) /\ Range(accepted) \subseteq Range(accepted')
       /\ UNCHANGED <<message, known, viewVars, admissions, asking, pending, controller,
                      navigation, submitted, adopted>>
  BY <1>2 DEF IInv, SendsTyped
<1> QED BY <1>4, <1>5, <1>6, <1>7, Serving

LEMMA AgentEndsKeeps ==
  ASSUME IInv, NEW s \in Sessions, AgentEnds(s)
  PROVE  IInv'
<1> DEFINE done == Written(wire, Open(s), "done")
<1>1. /\ wire' = Written(done, Open(s), "end")
      /\ post' = [m \in Messages |-> IF m \in Open(s) THEN "closed" ELSE post[m]]
      /\ UNCHANGED <<message, accepted, known, viewVars, admissions, asking, pending, controller,
                     navigation, submitted, adopted, shown, status, screen>>
  BY DEF AgentEnds, ownVars, viewVars
<1>2. wire \in [Messages -> Seq(FrameNames)] /\ post \in [Messages -> Posts]
      /\ "done" \in FrameNames /\ "end" \in FrameNames
  BY DEF IInv, SendsTyped, FrameNames
<1>3. /\ done \in [Messages -> Seq(FrameNames)]
      /\ \A q \in Messages :
           /\ q \notin Open(s) => done[q] = wire[q]
           /\ wire[q] # <<>> => done[q] # <<>> /\ done[q][1] = wire[q][1]
  BY <1>2, Writing
<1> HIDE DEF done
<1>4. /\ wire' \in [Messages -> Seq(FrameNames)]
      /\ \A q \in Messages :
           /\ q \notin Open(s) => wire'[q] = done[q]
           /\ done[q] # <<>> => wire'[q] # <<>> /\ wire'[q][1] = done[q][1]
  BY <1>1, <1>2, <1>3, Writing
<1>5. post' \in [Messages -> Posts]
  BY <1>1, <1>2 DEF Posts
<1>6. ASSUME NEW q \in Messages PROVE Sound(q)'
  <2>1. CASE q \in Open(s)
    <3>1. post[q] = "open" /\ post'[q] = "closed"
      BY <1>1, <2>1 DEF Open
    <3> QED BY <1>1, <1>3, <1>4, <3>1, Served
  <2>2. CASE q \notin Open(s)
    BY <1>1, <1>3, <1>4, <2>2, Alone
  <2> QED BY <2>1, <2>2
<1>7. /\ accepted' \in Seq(Messages) /\ Range(accepted) \subseteq Range(accepted')
      /\ UNCHANGED <<message, known, viewVars, admissions, asking, pending, controller,
                     navigation, submitted, adopted>>
  BY <1>1 DEF IInv, SendsTyped
<1> QED BY <1>4, <1>5, <1>6, <1>7, Serving

LEMMA OpenPostKeeps ==
  ASSUME IInv, NEW m \in Messages, OpenPost(m)
  PROVE  IInv'
<1> DEFINE begun == Written(wire, {m}, "start")
           to    == Open(message[m].session) \union {m}
<1>1. /\ post[m] = "sent" /\ post' = [post EXCEPT ![m] = "open"]
      /\ accepted' = Append(accepted, m)
      /\ wire' \in {begun, Written(begun, to, "queue")}
      /\ UNCHANGED <<message, known, viewVars, admissions, asking, pending, controller,
                     navigation, submitted, adopted, shown, status, screen>>
  BY DEF OpenPost, ownVars, viewVars
<1>2. /\ wire \in [Messages -> Seq(FrameNames)] /\ post \in [Messages -> Posts]
      /\ accepted \in Seq(Messages) /\ "start" \in FrameNames /\ "queue" \in FrameNames /\ Sound(m)
  BY DEF IInv, SendsTyped, FrameNames
<1>3. /\ accepted' \in Seq(Messages) /\ Range(accepted) \subseteq Range(accepted') /\ Got(m)'
  BY <1>1, <1>2, RangeAppend DEF Got
<1>4. /\ begun \in [Messages -> Seq(FrameNames)]
      /\ \A q \in Messages :
           /\ q # m => begun[q] = wire[q]
           /\ wire[q] # <<>> => begun[q] # <<>> /\ begun[q][1] = wire[q][1]
  <2>1. /\ Written(wire, {m}, "start") \in [Messages -> Seq(FrameNames)]
        /\ \A q \in Messages \ {m} : Written(wire, {m}, "start")[q] = wire[q]
        /\ \A q \in Messages :
             wire[q] # <<>> => /\ Written(wire, {m}, "start")[q] # <<>>
                               /\ Written(wire, {m}, "start")[q][1] = wire[q][1]
    BY <1>2, WritingOne
  <2> HIDE DEF begun
  <2>2. begun = Written(wire, {m}, "start")
    BY DEF begun
  <2> QED BY <2>1, <2>2
<1>5. message[m].at = "posting" /\ message[m].kind = "main" =>
        begun[m] # <<>> /\ begun[m][1] = "start"
  <2>1. wire[m] = <<>>
    BY <1>1, <1>2 DEF Sound, StartFirst
  <2>2. message[m].at = "posting" /\ message[m].kind = "main" => begun[m] = Append(<<>>, "start")
    BY <2>1 DEF Written, ActedOn
  <2>3. Append(<<>>, "start") = <<"start">>
    OBVIOUS
  <2> HIDE DEF begun
  <2> QED BY <2>2, <2>3
<1> HIDE DEF begun, to
<1>6. /\ wire' \in [Messages -> Seq(FrameNames)]
      /\ \A q \in Messages :
           /\ q \notin to => wire'[q] = begun[q]
           /\ begun[q] # <<>> => wire'[q] # <<>> /\ wire'[q][1] = begun[q][1]
  <2>1. /\ Written(begun, to, "queue") \in [Messages -> Seq(FrameNames)]
        /\ \A q \in Messages :
             /\ q \notin to => Written(begun, to, "queue")[q] = begun[q]
             /\ begun[q] # <<>> => /\ Written(begun, to, "queue")[q] # <<>>
                                   /\ Written(begun, to, "queue")[q][1] = begun[q][1]
    <3>1. begun \in [Messages -> Seq(FrameNames)] /\ "queue" \in FrameNames
      BY <1>2, <1>4
    <3> QED BY <3>1, Writing
  <2>2. CASE wire' = begun
    BY <1>4, <2>2
  <2>3. CASE wire' = Written(begun, to, "queue")
    BY <2>1, <2>3
  <2> QED BY <1>1, <2>2, <2>3
<1>7. post' \in [Messages -> Posts] /\ post'[m] = "open"
      /\ \A q \in Messages \ {m} : post'[q] = post[q]
  BY <1>1, <1>2 DEF Posts
<1>8. Staged(m)'
  BY <1>1, <1>2, <1>7 DEF Sound, Staged
<1>9. StartFirst(m)'
  BY <1>1, <1>5, <1>6, <1>7 DEF StartFirst
<1>10. Heard(m)'
  BY <1>3 DEF Heard
<1>11. ASSUME NEW q \in Messages PROVE Sound(q)'
  <2>1. CASE q = m
    BY <1>8, <1>9, <1>10, <2>1 DEF Sound
  <2>2. CASE q # m /\ q \in to
    <3>1. post[q] = "open" /\ post'[q] \in {"open", "closed"}
      BY <1>7, <2>2 DEF Open, to
    <3>2. wire[q] # <<>> => wire'[q] # <<>> /\ wire'[q][1] = wire[q][1]
      BY <1>4, <1>6, <2>2
    <3> QED BY <1>1, <1>3, <3>1, <3>2, Served
  <2>3. CASE q # m /\ q \notin to
    BY <1>1, <1>3, <1>4, <1>6, <1>7, <2>3, Alone
  <2> QED BY <2>1, <2>2, <2>3
<1>12. UNCHANGED <<message, known, viewVars, admissions, asking, pending, controller,
                   navigation, submitted, adopted>>
  BY <1>1
<1> QED BY <1>3, <1>6, <1>7, <1>11, <1>12, Serving

------------------------------------------------------------------------------
(* The user goes elsewhere                                                   *)

(* A step of the view: what is shown of the messages may only go.            *)
LEMMA Viewing ==
  ASSUME IInv, ViewTyped', Bubbles', known \subseteq known',
         screen'.bubbles \subseteq screen.bubbles,
         UNCHANGED <<message, wire, post, accepted, admissions, asking, pending, controller,
                     submitted>>
  PROVE  IInv'
<1>1. SendsTyped /\ SessionsKnown /\ Controlled /\ Admitting /\ Waiters
  BY DEF IInv
<1>2. SendsTyped' /\ SessionsKnown' /\ Controlled'
  BY <1>1 DEF SendsTyped, SessionsKnown, Controlled
<1>3. Admitting' /\ Waiters'
  BY <1>1 DEF Admitting, Waiters
<1>4. \A m \in Messages : Sound(m)'
  BY Alone
<1> QED BY <1>2, <1>3, <1>4 DEF IInv

LEMMA NavigateKeeps ==
  ASSUME IInv, Navigate
  PROVE  IInv'
<1>1. UNCHANGED <<message, wire, post, accepted, admissions, asking, pending, controller,
                  submitted, known, adopted>>
  BY DEF Navigate, serverVars
<1>2. ViewTyped /\ Bubbles
  BY DEF IInv
<1>3. CASE (\E s \in known : navigation' = {s}) /\ UNCHANGED <<shown, status, screen>>
  <2>1. ViewTyped' /\ Bubbles'
    BY <1>1, <1>2, <1>3 DEF ViewTyped, Bubbles
  <2> QED BY <1>1, <1>3, <2>1, Viewing
<1>4. CASE navigation' = {NoSession} /\ status' = "ready" /\ UNCHANGED <<shown, screen>>
  <2>1. ViewTyped' /\ Bubbles'
    BY <1>1, <1>2, <1>4 DEF ViewTyped, Bubbles
  <2> QED BY <1>1, <1>4, <2>1, Viewing
<1>5. CASE /\ shown' = NoSession /\ screen' = [of |-> NoSession, bubbles |-> {}]
           /\ status' = "ready" /\ UNCHANGED navigation
  <2>1. ViewTyped'
    BY <1>1, <1>2, <1>5 DEF ViewTyped, Screens
  <2>2. Bubbles'
    BY <1>5 DEF Bubbles
  <2>3. screen'.bubbles \subseteq screen.bubbles
    BY <1>5
  <2> QED BY <1>1, <2>1, <2>2, <2>3, Viewing
<1> QED BY <1>3, <1>4, <1>5 DEF Navigate

LEMMA ArriveKeeps ==
  ASSUME IInv, Arrive
  PROVE  IInv'
<1>1. UNCHANGED <<message, wire, post, accepted, admissions, asking, pending, controller,
                  submitted, adopted>>
  BY DEF Arrive, serverVars, ownVars
<1>2. ViewTyped
  BY DEF IInv
<1>3. PICK s \in Sessions :
        /\ known' \in {known, known \union {s}} /\ s \in known' /\ shown' = s
        /\ screen' = [of |-> s, bubbles |-> {}]
        /\ status' \in {"streaming", "ready", status} /\ navigation' = {}
  <2>1. \A x \in navigation \cap Sessions : x \in known
    BY <1>2, TurnAssumption DEF ViewTyped
  <2> QED BY <2>1 DEF Arrive
<1>4. ViewTyped'
  BY <1>2, <1>3 DEF ViewTyped, Screens
<1>5. Bubbles'
  BY <1>3 DEF Bubbles
<1>6. screen'.bubbles \subseteq screen.bubbles /\ known \subseteq known'
  BY <1>3
<1> QED BY <1>1, <1>4, <1>5, <1>6, Viewing

------------------------------------------------------------------------------
(* Sending                                                                   *)

LEMMA PostQueuedKeeps ==
  ASSUME IInv, NEW m \in Messages, PostQueued(m)
  PROVE  IInv'
<1>1. /\ message[m].at = "chained"
      /\ UNCHANGED <<wire, accepted, known, shown, status, screen, admissions, asking, pending,
                     controller, navigation, submitted, adopted>>
  BY DEF PostQueued, viewVars, ownVars
<1>2. /\ Sound(m) /\ message[m] \in Sends /\ message[m].kind = "queued" /\ m \notin admissions
      /\ message[m].session \in Sessions /\ post[m] = "none" /\ ~message[m].started
      /\ wire[m] = <<>> /\ message[m].end = "none"
  BY <1>1, SendTyped, NotAdmitting DEF IInv, Sound, Staged, StartFirst
<1>3. SendsTyped /\ ViewTyped /\ SessionsKnown /\ Controlled /\ Admitting /\ Waiters /\ Bubbles
  BY DEF IInv
<1>4. CASE message' = [message EXCEPT ![m].at = "posting"] /\ post' = [post EXCEPT ![m] = "sent"]
  <2> DEFINE x == [message[m] EXCEPT !.at = "posting"]
  <2>1. /\ x \in Sends /\ x.at = "posting" /\ x.kind = "queued" /\ x.session = message[m].session
        /\ x.started = message[m].started /\ x.end = "none"
    BY <1>2 DEF Sends, Stages
  <2>2. message' = [message EXCEPT ![m] = x] /\ message'[m] = x
    BY <1>3, <1>4 DEF SendsTyped
  <2> HIDE DEF x
  <2>3. /\ post' \in [Messages -> Posts] /\ wire' \in [Messages -> Seq(FrameNames)]
        /\ post'[m] = "sent" /\ wire'[m] = <<>>
        /\ \A q \in Messages \ {m} : wire'[q] = wire[q] /\ post'[q] = post[q]
    BY <1>1, <1>2, <1>3, <1>4 DEF SendsTyped, Posts
  <2>4. Staged(m)'
    BY <1>1, <1>2, <2>1, <2>2, <2>3 DEF Sound, Staged
  <2>5. StartFirst(m)'
    BY <2>1, <2>2, <2>3 DEF StartFirst
  <2>6. Heard(m)'
    BY <2>1, <2>2, <2>3 DEF Heard
  <2>7. Sound(m)'
    BY <2>4, <2>5, <2>6 DEF Sound
  <2>8. /\ status' \in {"ready", "submitted", "streaming", "error"} /\ screen' \in Screens
        /\ screen'.bubbles \subseteq screen.bubbles /\ screen'.of \in {screen.of, shown}
        /\ pending' \subseteq pending /\ controller' \in [Sessions -> SUBSET Messages]
        /\ \A s \in Sessions : controller'[s] \subseteq controller[s]
    BY <1>1, StatusTyped, ControllerTyped
  <2>9. UNCHANGED <<accepted, submitted, asking, admissions, known, shown, navigation, adopted>>
    BY <1>1
  <2>10. /\ message[m].at # "creating" /\ x.at # "waiting" /\ x.session = message[m].session
         /\ m \in admissions => /\ x.at = message[m].at /\ x.kind = message[m].kind
                                /\ (x.started => message[m].started)
    BY <1>1, <1>2, <2>1
  <2> QED BY <2>1, <2>2, <2>3, <2>7, <2>8, <2>9, <2>10, OneMoves
<1>5. ASSUME NEW a \in AdmissionsOf(message[m].session), UNCHANGED post,
             message' = [message EXCEPT ![m].at = "waiting", ![m].on = {a}]
      PROVE  IInv'
  <2> DEFINE x == [message[m] EXCEPT !.at = "waiting", !.on = {a}]
  <2>1. /\ a \in admissions /\ a \in Messages /\ message[a].session = message[m].session
        /\ a # m
    BY <1>2, <1>3, <1>5 DEF AdmissionsOf, SendsTyped
  <2>2. message[a].at = "posting"
    <3>1. message[a].at \in {"creating", "posting"}
      BY <1>3, <2>1 DEF Admitting
    <3>2. message[a].at = "creating" => message[a].session = NoSession
      BY <2>1 DEF IInv, Sound, Staged
    <3> QED BY <1>2, <2>1, <3>1, <3>2, TurnAssumption
  <2>3. /\ x \in Sends /\ x.at = "waiting" /\ x.kind = "queued" /\ x.session = message[m].session
        /\ ~x.started /\ x.end = "none" /\ x.on = {a}
    BY <1>2, <2>1 DEF Sends, Stages
  <2>4. /\ message'[m] = x /\ message' \in [Messages -> Sends]
        /\ \A q \in Messages : q # m => message'[q] = message[q]
    BY <1>3, <1>5, <2>3 DEF SendsTyped
  <2> HIDE DEF x
  <2>5. SendsTyped' /\ ViewTyped' /\ Controlled'
    BY <1>1, <1>3, <1>5, <2>4 DEF SendsTyped, ViewTyped, Controlled
  <2>6. SessionsKnown'
    BY <1>1, <1>3, <2>3, <2>4 DEF SessionsKnown
  <2>7. ASSUME NEW q \in Messages PROVE Sound(q)'
    <3>1. CASE q # m
      BY <1>1, <1>5, <2>4, <3>1, Alone
    <3>2. Staged(m)'
      BY <1>1, <1>2, <1>5, <2>3, <2>4 DEF Sound, Staged
    <3>3. StartFirst(m)' /\ Heard(m)'
      BY <1>1, <1>2, <1>5, <2>3, <2>4 DEF StartFirst, Heard
    <3> QED BY <3>1, <3>2, <3>3 DEF Sound
  <2>8. Admitting'
    <3>1. \A b \in admissions : b \in Messages /\ message'[b] = message[b]
      BY <1>2, <1>3, <2>4 DEF SendsTyped
    <3> QED BY <1>1, <1>3, <3>1 DEF Admitting
  <2>9. Waiters'
    <3>1. ASSUME NEW q \in Messages, message'[q].at = "waiting", NEW b \in message'[q].on
          PROVE  b \in admissions' /\ message'[b].at = "posting"
      <4>1. CASE q = m
        BY <1>1, <2>1, <2>2, <2>3, <2>4, <3>1, <4>1
      <4>2. CASE q # m
        <5>1. b \in admissions /\ message[b].at = "posting"
          BY <1>3, <2>4, <3>1, <4>2 DEF Waiters
        <5>2. b \in Messages /\ b # m
          BY <1>2, <1>3, <5>1 DEF SendsTyped
        <5> QED BY <1>1, <2>4, <5>1, <5>2
      <4> QED BY <4>1, <4>2
    <3> QED BY <3>1 DEF Waiters
  <2>10. Bubbles'
    <3>1. \A q \in screen.bubbles : q \in Messages
      BY StatusTyped DEF Screens
    <3>2. \A q \in screen.bubbles :
            /\ message'[q].session = message[q].session
            /\ message[q].at = "creating" => message'[q].at = "creating"
      BY <1>1, <2>3, <2>4, <3>1
    <3> QED BY <1>1, <1>3, <3>2 DEF Bubbles
  <2> QED BY <2>5, <2>6, <2>7, <2>8, <2>9, <2>10 DEF IInv
<1> QED BY <1>4, <1>5 DEF PostQueued

(* What a message is that has just been sent.                                *)
LEMMA Submitting ==
  ASSUME IInv, NEW m \in Messages, message[m].at = "unsent", NEW x \in Sends,
         message' = [message EXCEPT ![m] = x],
         x.at \in {"creating", "chained", "posting"}, x.kind \in {"main", "queued"},
         x.at = "chained" => x.kind = "queued",
         x.end = "none", ~x.started, x.session = shown, x.at = "creating" <=> shown = NoSession,
         x.at = "creating" <=> asking' = Append(asking, m), x.at # "creating" => asking' = asking,
         submitted' = Append(submitted, m), UNCHANGED <<wire, accepted, known, shown>>,
         x.at = "posting" => post' = [post EXCEPT ![m] = "sent"], x.at # "posting" => post' = post,
         screen'.bubbles \in {screen.bubbles, screen.bubbles \union {m}},
         admissions' \subseteq Messages
  PROVE  /\ SendsTyped' /\ SessionsKnown' /\ \A q \in Messages : Sound(q)'
         /\ message'[m] = x /\ \A q \in Messages \ {m} : message'[q] = message[q]
         /\ m \notin admissions /\ Range(submitted') = Range(submitted) \union {m}
<1>1. SendsTyped /\ SessionsKnown /\ ViewTyped /\ Sound(m)
  BY DEF IInv
<1>2. /\ message[m].session = NoSession /\ post[m] = "none" /\ wire[m] = <<>>
      /\ m \notin Range(asking) /\ m \notin admissions
  BY <1>1, NotAdmitting DEF Sound, Staged, StartFirst
<1>3. /\ message'[m] = x /\ \A q \in Messages \ {m} : message'[q] = message[q]
      /\ message' \in [Messages -> Sends]
  BY <1>1 DEF SendsTyped
<1>4. /\ submitted' \in Seq(Messages) /\ Range(submitted') = Range(submitted) \union {m}
      /\ asking' \in Seq(Messages)
      /\ Range(asking') = IF x.at = "creating" THEN Range(asking) \union {m} ELSE Range(asking)
  <2>1. submitted \in Seq(Messages) /\ asking \in Seq(Messages)
    BY <1>1 DEF SendsTyped
  <2>2. /\ Append(submitted, m) \in Seq(Messages)
        /\ Range(Append(submitted, m)) = Range(submitted) \union {m}
    BY <2>1, RangeAppend
  <2>3. /\ Append(asking, m) \in Seq(Messages)
        /\ Range(Append(asking, m)) = Range(asking) \union {m}
    BY <2>1, RangeAppend
  <2>4. CASE x.at = "creating"
    BY <2>2, <2>3, <2>4
  <2>5. CASE x.at # "creating"
    BY <2>1, <2>2, <2>5
  <2> QED BY <2>4, <2>5
<1>5. /\ post' \in [Messages -> Posts] /\ \A q \in Messages \ {m} : post'[q] = post[q]
      /\ post'[m] = IF x.at = "posting" THEN "sent" ELSE "none"
  BY <1>1, <1>2 DEF SendsTyped, Posts
<1>6. SendsTyped'
  BY <1>1, <1>3, <1>4, <1>5 DEF SendsTyped
<1>7. SessionsKnown'
  BY <1>1, <1>3 DEF SessionsKnown, ViewTyped
<1>8. Staged(m)'
  <2>1. x.at # "creating" => shown \in Sessions
    BY <1>1 DEF ViewTyped
  <2> QED BY <1>2, <1>3, <1>4, <1>5, <2>1 DEF Staged
<1>9. StartFirst(m)' /\ Heard(m)'
  BY <1>2, <1>3, <1>5 DEF StartFirst, Heard
<1>10. ASSUME NEW q \in Messages PROVE Sound(q)'
  <2>1. CASE q = m
    BY <1>8, <1>9, <2>1 DEF Sound
  <2>2. CASE q # m
    <3>1. message'[q] = message[q] /\ post'[q] = post[q] /\ wire'[q] = wire[q]
      BY <1>3, <1>5, <2>2
    <3>2. /\ q \in Range(asking)' <=> q \in Range(asking)
          /\ Range(submitted) \subseteq Range(submitted') /\ Range(accepted) \subseteq Range(accepted')
          /\ q \in screen'.bubbles => q \in screen.bubbles \/ message[q].at # "over"
      BY <1>4, <2>2
    <3> QED BY <3>1, <3>2, Alone
  <2> QED BY <2>1, <2>2
<1> QED BY <1>2, <1>3, <1>4, <1>6, <1>7, <1>10

(* The rest of the invariant when m has been sent.                           *)
LEMMA Submitted ==
  ASSUME IInv, NEW m \in Messages,
         SendsTyped', SessionsKnown', \A q \in Messages : Sound(q)',
         \A q \in Messages \ {m} : message'[q] = message[q],
         m \notin admissions, Range(submitted') = Range(submitted) \union {m},
         UNCHANGED <<known, shown, navigation, adopted>>,
         status' \in {"ready", "submitted", "streaming", "error"},
         screen' \in {screen, [screen EXCEPT !.bubbles = @ \union {m}]},
         message'[m].session = shown, shown = NoSession => message'[m].at = "creating",
         message'[m].at # "waiting", Controlled',
         \/ admissions' = admissions
         \/ /\ admissions' = admissions \union {m} /\ AdmissionsOf(shown) = {}
            /\ message'[m].kind = "main" /\ ~message'[m].started
            /\ message'[m].at \in {"creating", "posting"}
  PROVE  IInv'
<1>1. SendsTyped /\ ViewTyped /\ Admitting /\ Waiters /\ Bubbles
  BY DEF IInv
<1>2. \A a \in admissions : a \in Messages /\ a # m /\ message'[a] = message[a]
  BY <1>1 DEF SendsTyped
<1>3. screen' \in Screens /\ screen'.of = screen.of /\ screen'.bubbles \subseteq screen.bubbles \union {m}
  BY StatusTyped DEF Screens
<1>4. ViewTyped'
  BY <1>1, <1>3 DEF ViewTyped
<1>5. Admitting'
  <2>1. /\ \A a \in admissions :
             /\ message'[a].kind = "main" /\ ~message'[a].started
             /\ message'[a].at \in {"creating", "posting"}
        /\ \A a, b \in admissions : message'[a].session = message'[b].session => a = b
    BY <1>1, <1>2 DEF Admitting
  <2>2. AdmissionsOf(shown) = {} => \A a \in admissions : message'[a].session # shown
    BY <1>2 DEF AdmissionsOf
  <2> QED BY <2>1, <2>2 DEF Admitting
<1>6. Waiters'
  <2>1. ASSUME NEW q \in Messages, message'[q].at = "waiting", NEW a \in message'[q].on
        PROVE  a \in admissions' /\ message'[a].at = "posting"
    <3>1. q # m /\ message'[q] = message[q]
      BY <2>1
    <3>2. a \in admissions /\ message[a].at = "posting"
      BY <1>1, <2>1, <3>1 DEF Waiters
    <3> QED BY <1>2, <3>2
  <2> QED BY <2>1 DEF Waiters
<1>7. Bubbles'
  <2>1. screen'.bubbles \subseteq Range(submitted')
    BY <1>1, <1>3 DEF Bubbles
  <2>2. ASSUME ~adopted
        PROVE  /\ screen'.of \in {shown, NoSession}
               /\ \A q \in screen'.bubbles :
                    message'[q].session = shown /\ (shown = NoSession => message'[q].at = "creating")
    <3>1. /\ screen.of \in {shown, NoSession}
          /\ \A q \in screen.bubbles :
               message[q].session = shown /\ (shown = NoSession => message[q].at = "creating")
      BY <1>1, <2>2 DEF Bubbles
    <3>2. \A q \in screen'.bubbles : q = m \/ (q \in screen.bubbles /\ message'[q] = message[q])
      BY <1>3, StatusTyped DEF Screens
    <3> QED BY <1>3, <3>1, <3>2
  <2> QED BY <2>1, <2>2 DEF Bubbles
<1> QED BY <1>4, <1>5, <1>6, <1>7 DEF IInv

LEMMA SubmitKeeps ==
  ASSUME IInv, NEW m \in Messages, Submit(m)
  PROVE  IInv'
<1>1. /\ message[m].at = "unsent" /\ submitted' = Append(submitted, m)
      /\ UNCHANGED <<wire, accepted, known, shown, navigation, adopted>>
  BY DEF Submit
<1>2. /\ message[m] \in Sends /\ message[m].end = "none" /\ ~message[m].started
      /\ message[m].session = NoSession /\ message \in [Messages -> Sends]
  BY <1>1, SendTyped DEF IInv, SendsTyped, Sound, Staged
<1>3. shown \in Sessions \union {NoSession} /\ ViewTyped /\ Controlled /\ admissions \subseteq Messages
  BY DEF IInv, ViewTyped, SendsTyped
<1> DEFINE grown == [screen EXCEPT !.bubbles = @ \union {m}]
<1>4. /\ grown.bubbles = screen.bubbles \union {m}
      /\ status \in {"ready", "submitted", "streaming", "error"}
  BY StatusTyped DEF Screens
<1> DEFINE Asks(kind) == [message[m] EXCEPT !.at = "creating", !.kind = kind]
           Posts2 == [message[m] EXCEPT !.at = "posting", !.kind = "main", !.session = shown]
           Chains == [message[m] EXCEPT !.at = "chained", !.kind = "queued", !.session = shown]
<1>5. CASE ~Queues /\ shown = NoSession
  <2> DEFINE x == Asks("main")
  <2>1. /\ x \in Sends /\ x.at = "creating" /\ x.kind = "main" /\ x.session = NoSession
        /\ ~x.started /\ x.end = "none"
    BY <1>2 DEF Sends, Stages
  <2>2. /\ message' = [message EXCEPT ![m].at = "creating", ![m].kind = "main"]
        /\ status' = "submitted" /\ screen' = grown /\ admissions' = admissions \union {m}
        /\ pending' = {m} /\ asking' = Append(asking, m) /\ UNCHANGED <<controller, post>>
        /\ AdmissionsOf(shown) = {}
    BY <1>5 DEF Submit, StartTurn, Queues
  <2>3. message' = [message EXCEPT ![m] = x]
    BY <1>2, <2>2
  <2> HIDE DEF x
  <2>4. /\ x.at \in {"creating", "chained", "posting"} /\ x.kind \in {"main", "queued"}
        /\ x.at = "chained" => x.kind = "queued"
        /\ x.session = shown /\ (x.at = "creating" <=> shown = NoSession)
        /\ (x.at = "creating" <=> asking' = Append(asking, m))
        /\ (x.at # "creating" => asking' = asking)
        /\ (x.at = "posting" => post' = [post EXCEPT ![m] = "sent"])
        /\ (x.at # "posting" => post' = post)
        /\ screen'.bubbles \in {screen.bubbles, screen.bubbles \union {m}}
        /\ admissions' \subseteq Messages
    BY <1>3, <1>4, <1>5, <2>1, <2>2
  <2>5. /\ SendsTyped' /\ SessionsKnown' /\ \A q \in Messages : Sound(q)'
        /\ message'[m] = x /\ \A q \in Messages \ {m} : message'[q] = message[q]
        /\ m \notin admissions /\ Range(submitted') = Range(submitted) \union {m}
    BY <1>1, <2>1, <2>3, <2>4, Submitting
  <2>6. Controlled'
    BY <1>3, <2>2 DEF Controlled
  <2>7. /\ status' \in {"ready", "submitted", "streaming", "error"}
        /\ screen' \in {screen, [screen EXCEPT !.bubbles = @ \union {m}]}
        /\ message'[m].session = shown /\ (shown = NoSession => message'[m].at = "creating")
        /\ message'[m].at # "waiting"
        /\ \/ admissions' = admissions
           \/ /\ admissions' = admissions \union {m} /\ AdmissionsOf(shown) = {}
              /\ message'[m].kind = "main" /\ ~message'[m].started
              /\ message'[m].at \in {"creating", "posting"}
    BY <1>5, <2>1, <2>2, <2>5
  <2> QED BY <1>1, <2>5, <2>6, <2>7, Submitted
<1>6. CASE ~Queues /\ shown # NoSession
  <2> DEFINE x == Posts2
  <2>1. /\ x \in Sends /\ x.at = "posting" /\ x.kind = "main" /\ x.session = shown
        /\ ~x.started /\ x.end = "none"
    BY <1>2, <1>3 DEF Sends, Stages
  <2>2. /\ message' = [message EXCEPT ![m].at = "posting", ![m].kind = "main",
                                      ![m].session = shown]
        /\ status' = "submitted" /\ screen' = grown /\ admissions' = admissions \union {m}
        /\ pending' = {m} /\ controller' = [controller EXCEPT ![shown] = {m}]
        /\ post' = [post EXCEPT ![m] = "sent"] /\ asking' = asking
        /\ AdmissionsOf(shown) = {}
    BY <1>6 DEF Submit, StartTurn, Queues
  <2>3. message' = [message EXCEPT ![m] = x]
    BY <1>2, <2>2
  <2> HIDE DEF x
  <2>9. asking' # Append(asking, m)
    <3>1. asking \in Seq(Messages)
      BY DEF IInv, SendsTyped
    <3>2. Len(Append(asking, m)) = Len(asking) + 1 /\ Len(asking) \in Nat
      BY <3>1
    <3> QED BY <2>2, <3>2
  <2>4. /\ x.at \in {"creating", "chained", "posting"} /\ x.kind \in {"main", "queued"}
        /\ x.at = "chained" => x.kind = "queued"
        /\ x.session = shown /\ (x.at = "creating" <=> shown = NoSession)
        /\ (x.at = "creating" <=> asking' = Append(asking, m))
        /\ (x.at # "creating" => asking' = asking)
        /\ (x.at = "posting" => post' = [post EXCEPT ![m] = "sent"])
        /\ (x.at # "posting" => post' = post)
        /\ screen'.bubbles \in {screen.bubbles, screen.bubbles \union {m}}
        /\ admissions' \subseteq Messages
    BY <1>3, <1>4, <1>6, <2>1, <2>2, <2>9
  <2>5. /\ SendsTyped' /\ SessionsKnown' /\ \A q \in Messages : Sound(q)'
        /\ message'[m] = x /\ \A q \in Messages \ {m} : message'[q] = message[q]
        /\ m \notin admissions /\ Range(submitted') = Range(submitted) \union {m}
    BY <1>1, <2>1, <2>3, <2>4, Submitting
  <2>6. Controlled'
    <3>1. shown \in Sessions
      BY <1>3, <1>6
    <3>2. controller' \in [Sessions -> SUBSET Messages]
      BY <1>3, <2>2 DEF Controlled
    <3>3. ASSUME NEW s \in Sessions PROVE \A a, b \in controller'[s] : a = b
      <4>1. CASE s = shown
        BY <1>3, <2>2, <4>1 DEF Controlled
      <4>2. CASE s # shown
        BY <1>3, <2>2, <4>2 DEF Controlled
      <4> QED BY <4>1, <4>2
    <3> QED BY <2>2, <3>2, <3>3 DEF Controlled
  <2>7. /\ status' \in {"ready", "submitted", "streaming", "error"}
        /\ screen' \in {screen, [screen EXCEPT !.bubbles = @ \union {m}]}
        /\ message'[m].session = shown /\ (shown = NoSession => message'[m].at = "creating")
        /\ message'[m].at # "waiting"
        /\ \/ admissions' = admissions
           \/ /\ admissions' = admissions \union {m} /\ AdmissionsOf(shown) = {}
              /\ message'[m].kind = "main" /\ ~message'[m].started
              /\ message'[m].at \in {"creating", "posting"}
    BY <1>6, <2>1, <2>2, <2>5
  <2> QED BY <1>1, <2>5, <2>6, <2>7, Submitted
<1>7. CASE Queues /\ shown = NoSession
  <2> DEFINE x == Asks("queued")
  <2>1. /\ x \in Sends /\ x.at = "creating" /\ x.kind = "queued" /\ x.session = NoSession
        /\ ~x.started /\ x.end = "none"
    BY <1>2 DEF Sends, Stages
  <2>2. /\ message' = [message EXCEPT ![m].at = "creating", ![m].kind = "queued"]
        /\ asking' = Append(asking, m)
        /\ UNCHANGED <<screen, status, admissions, pending, controller, post>>
    BY <1>7 DEF Submit, Enqueue
  <2>3. message' = [message EXCEPT ![m] = x]
    BY <1>2, <2>2
  <2> HIDE DEF x
  <2>4. /\ x.at \in {"creating", "chained", "posting"} /\ x.kind \in {"main", "queued"}
        /\ x.at = "chained" => x.kind = "queued"
        /\ x.session = shown /\ (x.at = "creating" <=> shown = NoSession)
        /\ (x.at = "creating" <=> asking' = Append(asking, m))
        /\ (x.at # "creating" => asking' = asking)
        /\ (x.at = "posting" => post' = [post EXCEPT ![m] = "sent"])
        /\ (x.at # "posting" => post' = post)
        /\ screen'.bubbles \in {screen.bubbles, screen.bubbles \union {m}}
        /\ admissions' \subseteq Messages
    BY <1>3, <1>7, <2>1, <2>2
  <2>5. /\ SendsTyped' /\ SessionsKnown' /\ \A q \in Messages : Sound(q)'
        /\ message'[m] = x /\ \A q \in Messages \ {m} : message'[q] = message[q]
        /\ m \notin admissions /\ Range(submitted') = Range(submitted) \union {m}
    BY <1>1, <2>1, <2>3, <2>4, Submitting
  <2>6. Controlled'
    BY <1>3, <2>2 DEF Controlled
  <2>7. /\ status' \in {"ready", "submitted", "streaming", "error"}
        /\ screen' \in {screen, [screen EXCEPT !.bubbles = @ \union {m}]}
        /\ message'[m].session = shown /\ (shown = NoSession => message'[m].at = "creating")
        /\ message'[m].at # "waiting" /\ admissions' = admissions
    BY <1>4, <1>7, <2>1, <2>2, <2>5
  <2> QED BY <1>1, <2>5, <2>6, <2>7, Submitted
<1>8. CASE Queues /\ shown # NoSession
  <2> DEFINE x == Chains
  <2>1. /\ x \in Sends /\ x.at = "chained" /\ x.kind = "queued" /\ x.session = shown
        /\ ~x.started /\ x.end = "none"
    BY <1>2, <1>3 DEF Sends, Stages
  <2>2. /\ message' = [message EXCEPT ![m].at = "chained", ![m].kind = "queued",
                                      ![m].session = shown]
        /\ screen' = grown /\ asking' = asking
        /\ UNCHANGED <<status, admissions, pending, controller, post>>
    BY <1>8 DEF Submit, Enqueue
  <2>3. message' = [message EXCEPT ![m] = x]
    BY <1>2, <2>2
  <2> HIDE DEF x
  <2>9. asking' # Append(asking, m)
    <3>1. asking \in Seq(Messages)
      BY DEF IInv, SendsTyped
    <3>2. Len(Append(asking, m)) = Len(asking) + 1 /\ Len(asking) \in Nat
      BY <3>1
    <3> QED BY <2>2, <3>2
  <2>4. /\ x.at \in {"creating", "chained", "posting"} /\ x.kind \in {"main", "queued"}
        /\ x.at = "chained" => x.kind = "queued"
        /\ x.session = shown /\ (x.at = "creating" <=> shown = NoSession)
        /\ (x.at = "creating" <=> asking' = Append(asking, m))
        /\ (x.at # "creating" => asking' = asking)
        /\ (x.at = "posting" => post' = [post EXCEPT ![m] = "sent"])
        /\ (x.at # "posting" => post' = post)
        /\ screen'.bubbles \in {screen.bubbles, screen.bubbles \union {m}}
        /\ admissions' \subseteq Messages
    BY <1>3, <1>4, <1>8, <2>1, <2>2, <2>9
  <2>5. /\ SendsTyped' /\ SessionsKnown' /\ \A q \in Messages : Sound(q)'
        /\ message'[m] = x /\ \A q \in Messages \ {m} : message'[q] = message[q]
        /\ m \notin admissions /\ Range(submitted') = Range(submitted) \union {m}
    BY <1>1, <2>1, <2>3, <2>4, Submitting
  <2>6. Controlled'
    BY <1>3, <2>2 DEF Controlled
  <2>7. /\ status' \in {"ready", "submitted", "streaming", "error"}
        /\ screen' \in {screen, [screen EXCEPT !.bubbles = @ \union {m}]}
        /\ message'[m].session = shown /\ (shown = NoSession => message'[m].at = "creating")
        /\ message'[m].at # "waiting" /\ admissions' = admissions
    BY <1>4, <1>8, <2>1, <2>2, <2>5
  <2> QED BY <1>1, <2>5, <2>6, <2>7, Submitted
<1> QED BY <1>5, <1>6, <1>7, <1>8

LEMMA SessionCreatedKeeps ==
  ASSUME IInv, SessionCreated
  PROVE  IInv'
<1> DEFINE A == Asking("main")
           B == Asking("queued")
           C == StoppedAsking
<1>1. PICK s \in Sessions \ known :
        /\ known' = known \union {s} /\ shown' = s
        /\ message' = [m \in Messages |->
             CASE m \in A -> [message[m] EXCEPT !.at = "posting", !.session = s]
               [] m \in B -> [message[m] EXCEPT !.at = "chained", !.session = s]
               [] m \in C -> Over(m, "stopped")
               [] OTHER   -> message[m]]
        /\ controller' = [controller EXCEPT ![s] = AskingLast]
  BY DEF SessionCreated
<1>2. /\ post' = [m \in Messages |-> IF m \in A THEN "sent" ELSE post[m]]
      /\ screen' = [screen EXCEPT !.bubbles = (@ \union B) \ C]
      /\ adopted' = (adopted \/ shown # NoSession)
      /\ asking' = <<>> /\ admissions' = admissions \ C /\ pending' = pending \ C
      /\ UNCHANGED <<wire, accepted, status, navigation, submitted>>
  BY DEF SessionCreated
<1>3. SendsTyped /\ ViewTyped /\ SessionsKnown /\ Controlled /\ Admitting /\ Waiters /\ Bubbles
  BY DEF IInv
<1>4. Range(asking) \subseteq Messages /\ Range(<<>>) = {}
  BY <1>3, RangeIn DEF SendsTyped
<1>5. \A q \in Range(asking) :
        /\ q \in Messages /\ Sound(q) /\ message[q] \in Sends
        /\ message[q].at = "creating" /\ message[q].session = NoSession
        /\ message[q].kind \in {"main", "queued"} /\ message[q].end = "none"
        /\ post[q] = "none" /\ wire[q] = <<>> /\ ~message[q].started
  BY <1>4, SendTyped DEF IInv, Sound, Staged, StartFirst
<1>6. /\ \A q \in A : q \in Range(asking) /\ message[q].kind = "main" /\ q \notin B /\ q \notin C
      /\ \A q \in B : q \in Range(asking) /\ message[q].kind = "queued" /\ q \notin A /\ q \notin C
      /\ \A q \in C : q \in Range(asking) /\ q \notin A /\ q \notin B
      /\ \A q \in Range(asking) : q \in A \/ q \in B \/ q \in C
  BY <1>5 DEF Asking, StoppedAsking
<1>7. s # NoSession /\ s \in Sessions /\ s \notin known
  BY TurnAssumption
<1>8. AskingLast \subseteq Messages /\ \A a, b \in AskingLast : a = b
  <2>1. \A a \in AskingLast : a \in A /\ \E i \in DOMAIN asking : asking[i] = a
    BY <1>6 DEF AskingLast, Range
  <2>2. \A a \in AskingLast : \A i, j \in DOMAIN asking :
          asking[i] = a /\ asking[j] \in A => j <= i
    BY DEF AskingLast
  <2>3. DOMAIN asking \subseteq Nat /\ DOMAIN asking = 1 .. Len(asking)
    BY <1>3 DEF SendsTyped
  <2>4. ASSUME NEW a \in AskingLast, NEW b \in AskingLast PROVE a = b
    <3>1. PICK i \in DOMAIN asking : asking[i] = a
      BY <2>1
    <3>2. PICK j \in DOMAIN asking : asking[j] = b
      BY <2>1
    <3>3. j <= i /\ i <= j
      BY <2>1, <2>2, <3>1, <3>2
    <3>4. i = j
      BY <2>3, <3>3
    <3> QED BY <3>1, <3>2, <3>4
  <2> QED BY <1>4, <1>6, <2>1, <2>4
<1> HIDE DEF A, B, C
<1>9. /\ \A q \in Messages : q \in A =>
             message'[q] = [message[q] EXCEPT !.at = "posting", !.session = s] /\ post'[q] = "sent"
      /\ \A q \in Messages : q \in B =>
             message'[q] = [message[q] EXCEPT !.at = "chained", !.session = s] /\ post'[q] = post[q]
      /\ \A q \in Messages : q \in C => message'[q] = Over(q, "stopped") /\ post'[q] = post[q]
      /\ \A q \in Messages : q \notin Range(asking) => message'[q] = message[q] /\ post'[q] = post[q]
      /\ message' = [q \in Messages |-> message'[q]] /\ post' = [q \in Messages |-> post'[q]]
  <2>1. \A q \in Messages : q \in A =>
             message'[q] = [message[q] EXCEPT !.at = "posting", !.session = s]
    BY <1>1, <1>6
  <2>2. \A q \in Messages : q \in B =>
             message'[q] = [message[q] EXCEPT !.at = "chained", !.session = s]
    BY <1>1, <1>6
  <2>3. \A q \in Messages : q \in C => message'[q] = Over(q, "stopped")
    BY <1>1, <1>6
  <2>4. \A q \in Messages : q \notin Range(asking) => message'[q] = message[q]
    BY <1>1, <1>6
  <2>5. \A q \in Messages : post'[q] = IF q \in A THEN "sent" ELSE post[q]
    BY <1>2
  <2>6. message' = [q \in Messages |-> message'[q]]
    <3> DEFINE Next(q) == CASE q \in A -> [message[q] EXCEPT !.at = "posting", !.session = s]
                            [] q \in B -> [message[q] EXCEPT !.at = "chained", !.session = s]
                            [] q \in C -> Over(q, "stopped")
                            [] OTHER   -> message[q]
    <3>1. message' = [q \in Messages |-> Next(q)]
      BY <1>1
    <3> HIDE DEF Next
    <3> QED BY <3>1
  <2>7. post' = [q \in Messages |-> post'[q]]
    BY <1>2
  <2> QED BY <1>6, <2>1, <2>2, <2>3, <2>4, <2>5, <2>6, <2>7
<1>10. /\ screen' \in Screens /\ screen'.of = screen.of
       /\ screen'.bubbles = (screen.bubbles \union B) \ C
  BY <1>2, <1>4, <1>6, StatusTyped DEF Screens
<1>11. ASSUME NEW q \in A
       PROVE  /\ q \in Messages /\ message'[q] \in Sends /\ Sound(q)' /\ message'[q].at = "posting"
              /\ message'[q].session = s /\ message'[q].kind = "main" /\ ~message'[q].started
  <2> DEFINE x == [message[q] EXCEPT !.at = "posting", !.session = s]
  <2>1. /\ q \in Range(asking) /\ q \in Messages /\ message[q].kind = "main" /\ message[q] \in Sends
        /\ message[q].end = "none" /\ ~message[q].started /\ wire[q] = <<>> /\ Sound(q)
        /\ message[q].at = "creating"
    BY <1>4, <1>5, <1>6
  <2>2. /\ x \in Sends /\ x.at = "posting" /\ x.session = s /\ x.kind = "main"
        /\ ~x.started /\ x.end = "none"
    BY <1>7, <2>1 DEF Sends, Stages
  <2>3. message'[q] = x /\ post'[q] = "sent" /\ wire'[q] = <<>> /\ q \notin Range(asking)'
    BY <1>2, <1>4, <1>9, <2>1
  <2> HIDE DEF x
  <2>4. Staged(q)'
    BY <1>2, <1>7, <2>1, <2>2, <2>3 DEF Sound, Staged
  <2>5. StartFirst(q)' /\ Heard(q)'
    BY <2>2, <2>3 DEF StartFirst, Heard
  <2> QED BY <2>1, <2>2, <2>3, <2>4, <2>5 DEF Sound
<1>12. ASSUME NEW q \in B
       PROVE  /\ q \in Messages /\ message'[q] \in Sends /\ Sound(q)' /\ message'[q].at = "chained"
              /\ message'[q].session = s
  <2> DEFINE x == [message[q] EXCEPT !.at = "chained", !.session = s]
  <2>1. /\ q \in Range(asking) /\ q \in Messages /\ message[q].kind = "queued" /\ message[q] \in Sends
        /\ message[q].end = "none" /\ ~message[q].started /\ wire[q] = <<>> /\ Sound(q)
        /\ message[q].at = "creating" /\ post[q] = "none"
    BY <1>4, <1>5, <1>6
  <2>2. /\ x \in Sends /\ x.at = "chained" /\ x.session = s /\ x.kind = "queued"
        /\ ~x.started /\ x.end = "none"
    BY <1>7, <2>1 DEF Sends, Stages
  <2>3. message'[q] = x /\ post'[q] = "none" /\ wire'[q] = <<>> /\ q \notin Range(asking)'
    BY <1>2, <1>4, <1>9, <2>1
  <2> HIDE DEF x
  <2>4. Staged(q)'
    BY <1>2, <1>7, <2>1, <2>2, <2>3 DEF Sound, Staged
  <2>5. StartFirst(q)' /\ Heard(q)'
    BY <2>2, <2>3 DEF StartFirst, Heard
  <2> QED BY <2>1, <2>2, <2>3, <2>4, <2>5 DEF Sound
<1>13. ASSUME NEW q \in C
       PROVE  /\ q \in Messages /\ message'[q] \in Sends /\ Sound(q)' /\ message'[q].at = "over"
              /\ message'[q].session = NoSession
  <2>1. q \in Messages /\ message[q].at # "unsent" /\ message[q].session = NoSession
    BY <1>4, <1>5, <1>6
  <2>2. "stopped" \in Ends \ {"none"} /\ "stopped" # "answered"
    BY DEF Ends
  <2>3. /\ message'[q] = Over(q, "stopped") /\ post'[q] = post[q] /\ wire'[q] = wire[q]
        /\ q \notin Range(asking)' /\ q \notin screen'.bubbles
        /\ Range(submitted) \subseteq Range(submitted') /\ Range(accepted) \subseteq Range(accepted')
    BY <1>2, <1>4, <1>9, <1>10, <2>1
  <2>4. Sound(q)' /\ message'[q] \in Sends
    BY <2>1, <2>2, <2>3, Ended
  <2> QED BY <2>1, <2>3, <2>4 DEF Over, Unsent
<1>14. ASSUME NEW q \in Messages, q \notin Range(asking)
       PROVE  Sound(q)' /\ message'[q] = message[q] /\ message'[q] \in Sends
  <2>1. /\ message'[q] = message[q] /\ post'[q] = post[q] /\ wire'[q] = wire[q]
        /\ q \in Range(asking)' <=> q \in Range(asking)
        /\ Range(submitted) \subseteq Range(submitted') /\ Range(accepted) \subseteq Range(accepted')
        /\ q \in screen'.bubbles => q \in screen.bubbles \/ message[q].at # "over"
    BY <1>2, <1>4, <1>6, <1>9, <1>10, <1>14
  <2> QED BY <2>1, SendTyped, Alone
<1>15. \A q \in Messages : Sound(q)' /\ message'[q] \in Sends
  BY <1>6, <1>11, <1>12, <1>13, <1>14
<1>16. SendsTyped'
  <2>1. message' \in [Messages -> Sends]
    BY <1>9, <1>15
  <2>2. post' \in [Messages -> Posts]
    BY <1>2, <1>3 DEF SendsTyped, Posts
  <2> QED BY <1>2, <1>3, <2>1, <2>2 DEF SendsTyped
<1>17. ViewTyped'
  BY <1>1, <1>2, <1>3, <1>10 DEF ViewTyped
<1>18. SessionsKnown'
  <2>1. \A q \in Messages : message'[q].session \in {s, NoSession, message[q].session}
    BY <1>6, <1>11, <1>12, <1>13, <1>14
  <2>2. \A q \in Messages : message[q].session \in known \union {NoSession}
    BY <1>3 DEF SessionsKnown
  <2>3. \A q \in Messages : message'[q].session \in (known \union {s}) \union {NoSession}
    BY <2>1, <2>2
  <2> QED BY <1>1, <2>3 DEF SessionsKnown
<1>19. Controlled'
  <2>1. controller' \in [Sessions -> SUBSET Messages]
    BY <1>1, <1>3, <1>8 DEF Controlled
  <2>2. ASSUME NEW r \in Sessions PROVE \A a, b \in controller'[r] : a = b
    BY <1>1, <1>3, <1>8 DEF Controlled
  <2> QED BY <1>2, <1>3, <2>1, <2>2 DEF Controlled
<1>20. ASSUME NEW a \in admissions'
       PROVE  /\ a \in admissions /\ message'[a].kind = "main" /\ ~message'[a].started
              /\ message'[a].at \in {"creating", "posting"}
              /\ \/ message[a].session = NoSession /\ message'[a].session = s
                 \/ message'[a].session = message[a].session /\ message'[a].session # s
  <2>1. /\ a \in admissions /\ a \in Messages /\ message[a].kind = "main" /\ ~message[a].started
        /\ message[a].at \in {"creating", "posting"} /\ a \notin C
    BY <1>2, <1>3 DEF Admitting, SendsTyped
  <2>2. CASE a \in Range(asking)
    BY <1>5, <1>6, <1>11, <2>1, <2>2
  <2>3. CASE a \notin Range(asking)
    BY <1>3, <1>7, <1>14, <2>1, <2>3 DEF SessionsKnown
  <2> QED BY <2>2, <2>3
<1>21. Admitting'
  <2>1. \A a, b \in admissions : message[a].session = message[b].session => a = b
    BY <1>3 DEF Admitting
  <2> QED BY <1>20, <2>1 DEF Admitting
<1>22. Waiters'
  <2>1. ASSUME NEW q \in Messages, message'[q].at = "waiting", NEW a \in message'[q].on
        PROVE  a \in admissions' /\ message'[a].at = "posting"
    <3>1. q \notin Range(asking)
      BY <1>6, <1>11, <1>12, <1>13, <2>1
    <3>2. a \in admissions /\ message[a].at = "posting" /\ a \in Messages
      BY <1>3, <1>14, <2>1, <3>1 DEF Waiters, SendsTyped
    <3>3. a \notin Range(asking)
      BY <1>5, <3>2
    <3> QED BY <1>2, <1>6, <1>14, <3>2, <3>3
  <2> QED BY <2>1 DEF Waiters
<1>23. Bubbles'
  <2>1. screen'.bubbles \subseteq Range(submitted')
    <3>1. \A q \in B : q \in Range(submitted)
      BY <1>5, <1>6 DEF Sound, Staged
    <3> QED BY <1>2, <1>3, <1>10, <3>1 DEF Bubbles
  <2>2. ASSUME ~adopted'
        PROVE  /\ screen'.of \in {shown', NoSession}
               /\ \A q \in screen'.bubbles : message'[q].session = shown'
    <3>1. /\ ~adopted /\ shown = NoSession
      BY <1>2, <2>2
    <3>2. /\ screen.of = NoSession
          /\ \A q \in screen.bubbles : message[q].at = "creating" /\ q \in Messages
      BY <1>3, <3>1, StatusTyped DEF Bubbles, Screens
    <3>3. \A q \in screen.bubbles : q \in Range(asking)
      BY <3>2 DEF IInv, Sound, Staged
    <3>4. \A q \in screen'.bubbles : q \in A \/ q \in B
      BY <1>6, <1>10, <3>3
    <3> QED BY <1>1, <1>10, <1>11, <1>12, <3>2, <3>4
  <2> QED BY <1>1, <1>7, <2>1, <2>2 DEF Bubbles
<1> QED BY <1>15, <1>16, <1>17, <1>18, <1>19, <1>21, <1>22, <1>23 DEF IInv

------------------------------------------------------------------------------
(* The theorems                                                              *)

LEMMA Initially ==
  ASSUME TurnInit
  PROVE  IInv
<1>1. Range(<<>>) = {}
  BY DEF Range
<1>2. SendsTyped
  <2>1. Unsent \in Sends
    BY DEF Unsent, Sends, Stages, Ends
  <2>2. /\ <<>> \in Seq(FrameNames) /\ <<>> \in Seq(Messages) /\ "none" \in Posts
    BY DEF Posts
  <2>3. message \in [Messages -> Sends]
    BY <2>1 DEF TurnInit
  <2>4. wire \in [Messages -> Seq(FrameNames)] /\ post \in [Messages -> Posts]
    BY <2>2 DEF TurnInit
  <2>5. /\ accepted \in Seq(Messages) /\ submitted \in Seq(Messages) /\ asking \in Seq(Messages)
        /\ admissions \subseteq Messages
    BY <2>2 DEF TurnInit
  <2> QED BY <2>3, <2>4, <2>5 DEF SendsTyped
<1>3. ViewTyped
  BY DEF TurnInit, ViewTyped, Screens
<1>4. ASSUME NEW m \in Messages
      PROVE  /\ message[m].at = "unsent" /\ message[m].session = NoSession
             /\ message[m].end = "none" /\ ~message[m].started
             /\ wire[m] = <<>> /\ post[m] = "none"
  BY DEF TurnInit, Unsent
<1>5. SessionsKnown /\ Controlled /\ Admitting /\ Waiters
  BY <1>4 DEF TurnInit, SessionsKnown, Controlled, Admitting, Waiters
<1>6. Bubbles
  BY <1>1 DEF TurnInit, Bubbles
<1>7. ASSUME NEW m \in Messages PROVE Sound(m)
  <2>1. m \notin Range(asking)
    BY <1>1 DEF TurnInit
  <2>2. Staged(m)
    BY <1>4, <2>1 DEF Staged
  <2>3. StartFirst(m) /\ Heard(m)
    BY <1>4 DEF StartFirst, Heard
  <2> QED BY <2>2, <2>3 DEF Sound
<1> QED BY <1>2, <1>3, <1>5, <1>6, <1>7 DEF IInv

LEMMA Stutter ==
  ASSUME IInv, UNCHANGED turnVars
  PROVE  IInv'
<1>1. /\ UNCHANGED <<message, wire, post, accepted, known, viewVars, admissions, asking, pending,
                     controller, navigation, submitted, adopted, screen>>
  BY DEF turnVars, serverVars, ownVars, viewVars
<1>2. /\ wire' \in [Messages -> Seq(FrameNames)] /\ post' \in [Messages -> Posts]
      /\ accepted' \in Seq(Messages) /\ Range(accepted) \subseteq Range(accepted')
  BY <1>1 DEF IInv, SendsTyped
<1>3. \A m \in Messages : Sound(m)'
  BY <1>1, Alone
<1>4. UNCHANGED <<message, known, viewVars, admissions, asking, pending, controller,
                  navigation, submitted, adopted>>
  BY <1>1
<1> QED BY <1>2, <1>3, <1>4, Serving

LEMMA Inductive ==
  ASSUME IInv, [TurnNext]_turnVars
  PROVE  IInv'
<1>1. ASSUME NEW m \in Messages, Submit(m) PROVE IInv'
  BY <1>1, SubmitKeeps
<1>2. ASSUME NEW m \in Messages, PostQueued(m) PROVE IInv'
  BY <1>2, PostQueuedKeeps
<1>3. ASSUME NEW m \in Messages, OpenPost(m) PROVE IInv'
  BY <1>3, OpenPostKeeps
<1>4. ASSUME NEW m \in Messages, Refuse(m) PROVE IInv'
  BY <1>4, RefuseKeeps
<1>5. ASSUME NEW m \in Messages, PromptFails(m) PROVE IInv'
  BY <1>5, PromptFailsKeeps
<1>6. ASSUME NEW m \in Messages, ReadTurn(m) PROVE IInv'
  BY <1>6, ReadTurnKeeps
<1>7. ASSUME NEW m \in Messages, ReadQueued(m) PROVE IInv'
  BY <1>7, ReadQueuedKeeps
<1>8. ASSUME NEW m \in Messages, Break(m) PROVE IInv'
  BY <1>8, BreakKeeps
<1>9. ASSUME NEW m \in Messages, Reconcile(m) PROVE IInv'
  BY <1>9, ReconcileKeeps
<1>10. ASSUME NEW m \in Messages, Invalid(m) PROVE IInv'
  BY <1>10, InvalidKeeps
<1>11. ASSUME NEW m \in Messages, Poll(m) PROVE IInv'
  BY <1>11, PollKeeps
<1>12. ASSUME NEW m \in Messages, Abandon(m) PROVE IInv'
  BY <1>12, AbandonKeeps
<1>13. CASE SessionCreated
  BY <1>13, SessionCreatedKeeps
<1>14. CASE CreationFails
  BY <1>14, CreationFailsKeeps
<1>15. ASSUME NEW s \in Sessions, AgentEnds(s) PROVE IInv'
  BY <1>15, AgentEndsKeeps
<1>16. CASE Stop
  BY <1>16, StopKeeps
<1>17. CASE Navigate
  BY <1>17, NavigateKeeps
<1>18. CASE Arrive
  BY <1>18, ArriveKeeps
<1>19. CASE UNCHANGED turnVars
  BY <1>19, Stutter
<1> QED BY <1>1, <1>2, <1>3, <1>4, <1>5, <1>6, <1>7, <1>8, <1>9, <1>10, <1>11, <1>12, <1>13,
           <1>14, <1>15, <1>16, <1>17, <1>18, <1>19 DEF TurnNext

LEMMA Invariant == TurnSpec => []IInv
<1>1. TurnInit => IInv
  BY Initially
<1>2. IInv /\ [TurnNext]_turnVars => IInv'
  BY Inductive
<1> QED BY <1>1, <1>2, PTL DEF TurnSpec

LEMMA AtMostOne ==
  ASSUME NEW S, \A a, b \in S : a = b
  PROVE  Cardinality(S) <= 1
<1>1. CASE S = {}
  BY <1>1, FS_EmptySet
<1>2. CASE S # {}
  <2>1. PICK x \in S : TRUE
    BY <1>2
  <2>2. S = {x}
    BY <2>1
  <2> QED BY <2>2, FS_Singleton
<1> QED BY <1>1, <1>2

(* The state of every send and of the view has the form the browser's refs   *)
(* and states have: an end for the sends that are over and no others, no     *)
(* bubble of a message never sent, one controller for each session at most.  *)
THEOREM TypeCorrect == TurnSpec => []TurnTypeOK
<1>1. IInv => TurnTypeOK
  <2> SUFFICES ASSUME IInv PROVE TurnTypeOK
    OBVIOUS
  <2>1. ASSUME NEW m \in Messages
        PROVE  /\ message[m].at \in {"unsent", "creating", "chained", "waiting", "posting",
                                     "admitted", "reconciling", "recovering", "over"}
               /\ message[m].end \in {"none", "answered", "told", "hidden", "stopped"}
               /\ message[m].at = "over" <=> message[m].end # "none"
               /\ post[m] \in {"none", "sent", "open", "closed"}
    <3>1. /\ message[m].at \in Stages /\ message[m].end \in Ends /\ post[m] \in Posts
      BY SendTyped
    <3>2. message[m].at = "over" <=> message[m].end # "none"
      BY DEF IInv, Sound, Staged
    <3> QED BY <3>1, <3>2 DEF Stages, Ends, Posts
  <2>2. /\ status \in {"ready", "submitted", "streaming", "error"}
        /\ shown \in known \union {NoSession} /\ known \subseteq Sessions
        /\ screen.bubbles \subseteq Range(submitted)
    BY DEF IInv, ViewTyped, Bubbles
  <2>3. Cardinality(pending) <= 1 /\ \A s \in Sessions : Cardinality(controller[s]) <= 1
    BY AtMostOne DEF IInv, Controlled
  <2> QED BY <2>1, <2>2, <2>3 DEF TurnTypeOK
<1> QED BY <1>1, Invariant, PTL

(* A queued message waits only for the start of a turn that is on its way:   *)
(* an admission belongs to a turn that has asked for its session or whose    *)
(* POST is made, and that has not been seen to start                         *)
(* (streamAdmissionsRef, sendMessage, recoverInvalidStream, stop).           *)
THEOREM AdmissionsAwaited == TurnSpec => []AdmissionsHeld
<1>1. IInv => AdmissionsHeld
  BY DEF IInv, Admitting, Waiters, AdmissionsHeld
<1> QED BY <1>1, Invariant, PTL

(* A send that is over without an error, and a message that stays on the     *)
(* screen when its send is over, has reached the runtime.                    *)
THEOREM NothingLost == TurnSpec => []NothingVanishes
<1>1. IInv => NothingVanishes
  BY DEF IInv, Sound, Heard, NothingVanishes
<1> QED BY <1>1, Invariant, PTL

(* The transcript and the bubbles are those of the selected session, until a *)
(* session made for an earlier message replaces another one.                 *)
THEOREM ScreenOwned == TurnSpec => []ScreenBelongs
<1>1. IInv => ScreenBelongs
  BY DEF IInv, Bubbles, ScreenBelongs
<1> QED BY <1>1, Invariant, PTL

------------------------------------------------------------------------------
(* The order of queued messages                                              *)

(* A send that is stopped is a turn that does not post; a turn that was seen *)
(* to start has been taken by the runtime, and is heard to start once; who   *)
(* waits comes after every queued message before it, and waits for turns of  *)
(* its session.                                                              *)
Marked(m) ==
  /\ message[m].at = "unsent" <=> message[m].kind = "none"
  /\ message[m].at = "unsent" => m \notin Range(submitted)
  /\ message[m].aborted => message[m].kind = "main" /\ message[m].at # "posting"
  /\ message[m].started => Got(m)
  /\ Got(m) => post[m] \in {"open", "closed"}
  /\ \A i \in 1 .. Len(wire[m]) : wire[m][i] = "start" => i = 1 /\ ~message[m].started
  /\ message[m].at = "waiting" =>
       /\ ItsTurn(m)
       /\ \A a \in message[m].on : message[a].session = message[m].session

(* What stop aborts are turns.                                               *)
Stoppable ==
  /\ \A m \in pending : m \in Messages /\ message[m].kind = "main"
  /\ \A s \in Sessions : \A m \in controller[s] : message[m].kind = "main"

Starting(m) ==
  /\ message[m].kind = "main" /\ message[m].at \in {"creating", "posting"}
  /\ ~message[m].started /\ ~message[m].aborted

(* A turn that has not started is waited for.                                *)
Awaited == \A m \in Messages : Starting(m) => m \in admissions

Behind(m, n) ==
  /\ message[m].session = message[n].session /\ Before(submitted, m, n)
  /\ message[m].end \in {"none", "answered"}

(* A queued message is posted when the runtime has all that was sent before. *)
InTurn(n) == \A m \in Messages : Behind(m, n) => Got(m) /\ (Got(n) => Before(accepted, m, n))

Ordered ==
  \A n \in Messages : message[n].kind = "queued" /\ post[n] # "none" => InTurn(n)

OInv ==
  /\ \A m \in Messages : Marked(m)
  /\ Stoppable
  /\ disowned \/ (Awaited /\ Ordered)

(* How a send stands to the sends before and after it.                       *)
Steady(q) ==
  /\ message'[q].kind = message[q].kind /\ message'[q].session = message[q].session
  /\ message'[q].end \in {"none", "answered"} => message[q].end \in {"none", "answered"}
  /\ message'[q].at = "unsent" => message[q].at = "unsent"
  /\ message[q].at \in {"admitted", "over"} => message'[q].at \in {"admitted", "over"}

(* A send that goes on, or ends, without being posted.                       *)
Onward(q) ==
  /\ Steady(q)
  /\ message[q].at = "unsent" => message'[q].at = "unsent"
  /\ message'[q].aborted => message'[q].kind = "main" /\ message'[q].at # "posting"
  /\ message'[q].started => message[q].started
  /\ message'[q].at = "waiting" => message[q].at = "waiting" /\ message'[q].on = message[q].on
  /\ Starting(q)' => Starting(q)
  /\ post'[q] = post[q] \/ (post[q] \in {"sent", "open"} /\ post'[q] = "closed")
  /\ \A i \in 1 .. Len(wire'[q]) : wire'[q][i] = "start" => i = 1 /\ ~message'[q].started

LEMMA Preceding ==
  ASSUME NEW m \in Messages, UNCHANGED submitted, \A q \in Messages : Steady(q), IInv
  PROVE  ItsTurn(m) => ItsTurn(m)'
<1>1. submitted \in Seq(Messages)
  BY DEF IInv, SendsTyped
<1>2. \A i \in DOMAIN submitted : submitted[i] \in Messages
  BY <1>1
<1> QED BY <1>2 DEF Steady, ItsTurn

LEMMA StillMarked ==
  ASSUME IInv, OInv, NEW q \in Messages, Onward(q), UNCHANGED <<submitted, accepted>>,
         \A p \in Messages : Steady(p)
  PROVE  Marked(q)'
<1>1. Marked(q) /\ (Got(q)' <=> Got(q))
  BY DEF OInv, Got
<1>2. /\ message'[q].at = "unsent" => q \notin Range(submitted')
      /\ message'[q].at = "unsent" <=> message'[q].kind = "none"
  BY <1>1 DEF Onward, Steady, Marked
<1>3. message'[q].aborted => message'[q].kind = "main" /\ message'[q].at # "posting"
  BY DEF Onward
<1>4. message'[q].started => Got(q)'
  BY <1>1 DEF Onward, Marked
<1>5. Got(q)' => post'[q] \in {"open", "closed"}
  BY <1>1 DEF Onward, Marked
<1>6. \A i \in 1 .. Len(wire'[q]) : wire'[q][i] = "start" => i = 1 /\ ~message'[q].started
  BY DEF Onward
<1>7. ASSUME message'[q].at = "waiting"
      PROVE  /\ ItsTurn(q)'
             /\ \A a \in message'[q].on : message'[a].session = message'[q].session
  <2>1. message[q].at = "waiting" /\ message'[q].on = message[q].on
    BY <1>7 DEF Onward
  <2>2. ItsTurn(q)'
    BY <1>1, <2>1, Preceding DEF Marked
  <2>3. message[q].on \subseteq Messages
    BY SendTyped
  <2> QED BY <1>1, <2>1, <2>2, <2>3 DEF Marked, Onward, Steady
<1> QED BY <1>2, <1>3, <1>4, <1>5, <1>6, <1>7 DEF Marked

(* Who was behind whom before.                                               *)
LEMMA StillInTurn ==
  ASSUME NEW n \in Messages, InTurn(n), UNCHANGED <<submitted, accepted>>,
         \A p \in Messages : Steady(p)
  PROVE  InTurn(n)'
<1> SUFFICES ASSUME NEW m \in Messages, Behind(m, n)'
             PROVE  Got(m)' /\ (Got(n)' => Before(accepted, m, n)')
  BY DEF InTurn
<1>1. Behind(m, n)
  BY DEF Behind, Steady, Before
<1>2. Got(m) /\ (Got(n) => Before(accepted, m, n))
  BY <1>1 DEF InTurn
<1> QED BY <1>2 DEF Got, Before

(* A step in which every send goes on but those of `others`.                 *)
LEMMA Going ==
  ASSUME IInv, OInv, NEW others \in SUBSET Messages, UNCHANGED <<submitted, accepted>>,
         \A q \in Messages : Steady(q),
         \A q \in Messages \ others :
           Onward(q) /\ (Starting(q)' /\ q \in admissions => q \in admissions' \/ disowned'),
         \A q \in others : Marked(q)',
         \A q \in others :
           \/ disowned'
           \/ /\ Starting(q)' => q \in admissions'
              /\ message'[q].kind = "queued" /\ post'[q] # "none" => InTurn(q)',
         disowned => disowned',
         pending' \subseteq pending, \A s \in Sessions : controller'[s] \subseteq controller[s]
  PROVE  OInv'
<1>1. \A q \in Messages : Marked(q)'
  BY StillMarked
<1>2. Stoppable'
  <2>1. /\ \A m \in pending' : m \in Messages /\ message[m].kind = "main"
        /\ \A s \in Sessions : \A m \in controller'[s] : message[m].kind = "main"
    BY DEF OInv, Stoppable
  <2>2. ASSUME NEW m, message[m].kind = "main", m \in Messages
        PROVE  message'[m].kind = "main"
    BY <2>2 DEF Steady
  <2>3. \A s \in Sessions : \A m \in controller'[s] : m \in Messages
    BY DEF IInv, Controlled
  <2> QED BY <2>1, <2>2, <2>3 DEF Stoppable
<1>3. ASSUME ~disowned'
      PROVE  Awaited' /\ Ordered'
  <2>1. Awaited /\ Ordered
    BY <1>3 DEF OInv
  <2>2. Awaited'
    BY <1>3, <2>1 DEF Awaited, Onward
  <2>3. ASSUME NEW n \in Messages, message'[n].kind = "queued", post'[n] # "none"
        PROVE  InTurn(n)'
    <3>1. CASE n \in others
      BY <1>3, <2>3, <3>1
    <3>2. CASE n \notin others
      <4>1. message[n].kind = "queued" /\ post[n] # "none"
        BY <2>3, <3>2 DEF Onward, Steady
      <4>2. InTurn(n)
        BY <2>1, <4>1 DEF Ordered
      <4> QED BY <4>2, StillInTurn
    <3> QED BY <3>1, <3>2
  <2> QED BY <2>2, <2>3 DEF Ordered
<1> QED BY <1>1, <1>2, <1>3 DEF OInv

(* What a step makes of a send: it leaves it, ends it, aborts it or reads    *)
(* from its stream.                                                          *)
Passed(q) ==
  \/ message'[q] = message[q]
  \/ /\ message[q].at \notin {"unsent", "over"}
     /\ \E end \in Ends : message'[q] = Over(q, end)
  \/ /\ message[q].kind = "main" /\ message[q].at # "posting"
     /\ message'[q] = [message[q] EXCEPT !.aborted = TRUE]
  \/ message'[q] = [message[q] EXCEPT !.done = TRUE]
  \/ /\ message[q].at = "posting" /\ message[q].kind = "main"
     /\ \E at \in {"reconciling", "recovering"} : message'[q] = [message[q] EXCEPT !.at = at]
  \/ /\ message[q].at \in {"posting", "admitted"}
     /\ message'[q] = [message[q] EXCEPT !.at = "admitted"]

(* And of its POST: it ends, and no start frame is written to it.            *)
Tracked(q) ==
  /\ post'[q] = post[q] \/ (post[q] \in {"sent", "open"} /\ post'[q] = "closed")
  /\ \A i \in 1 .. Len(wire'[q]) : wire'[q][i] = "start" => i = 1 /\ ~message[q].started

LEMMA TrackedFrom ==
  ASSUME IInv, OInv, NEW q \in Messages,
         post'[q] = post[q] \/ (post[q] \in {"sent", "open"} /\ post'[q] = "closed"),
         \/ wire'[q] = wire[q]
         \/ wire'[q] = <<>>
         \/ wire[q] # <<>> /\ wire'[q] = Tail(wire[q])
  PROVE  Tracked(q)
<1>1. wire[q] \in Seq(FrameNames)
        /\ \A i \in 1 .. Len(wire[q]) : wire[q][i] = "start" => i = 1 /\ ~message[q].started
  BY SendTyped DEF OInv, Marked
<1>2. CASE wire'[q] = wire[q]
  BY <1>1, <1>2 DEF Tracked
<1>3. CASE wire'[q] = <<>>
  BY <1>3 DEF Tracked
<1>4. CASE wire[q] # <<>> /\ wire'[q] = Tail(wire[q])
  <2>1. ASSUME NEW i \in 1 .. Len(wire'[q]), wire'[q][i] = "start" PROVE FALSE
    <3>1. i + 1 \in 1 .. Len(wire[q]) /\ wire[q][i + 1] = wire'[q][i] /\ i + 1 # 1
      BY <1>1, <1>4
    <3> QED BY <1>1, <2>1, <3>1
  <2> QED BY <2>1 DEF Tracked
<1> QED BY <1>2, <1>3, <1>4

LEMMA Passes ==
  ASSUME IInv, OInv, NEW q \in Messages, Passed(q), Tracked(q)
  PROVE  Onward(q)
<1>1. /\ message[q] \in Sends /\ Marked(q) /\ Sound(q)
      /\ message[q].at = "over" <=> message[q].end # "none"
      /\ message[q].aborted => message[q].kind = "main" /\ message[q].at # "posting"
      /\ message[q].started \in BOOLEAN /\ message[q].aborted \in BOOLEAN
  BY SendTyped DEF IInv, Sound, Staged, OInv, Marked, Sends
<1>2. CASE message'[q] = message[q]
  <2>1. Steady(q)
    BY <1>2 DEF Steady
  <2> QED BY <1>1, <1>2, <2>1 DEF Onward, Starting, Tracked
<1>3. CASE /\ message[q].at \notin {"unsent", "over"}
           /\ \E end \in Ends : message'[q] = Over(q, end)
  <2>1. /\ message'[q].at = "over" /\ message'[q].kind = message[q].kind
        /\ message'[q].session = message[q].session /\ ~message'[q].started
        /\ ~message'[q].aborted
    BY <1>3 DEF Over, Unsent
  <2>2. Steady(q)
    BY <1>1, <1>3, <2>1 DEF Steady
  <2> QED BY <1>1, <1>3, <2>1, <2>2 DEF Onward, Starting, Tracked
<1>4. CASE /\ message[q].kind = "main" /\ message[q].at # "posting"
           /\ message'[q] = [message[q] EXCEPT !.aborted = TRUE]
  <2>1. /\ message'[q].at = message[q].at /\ message'[q].kind = message[q].kind
        /\ message'[q].session = message[q].session /\ message'[q].end = message[q].end
        /\ message'[q].on = message[q].on /\ message'[q].aborted
        /\ message'[q].started = message[q].started
    BY <1>1, <1>4 DEF Sends
  <2>2. Steady(q)
    BY <2>1 DEF Steady
  <2> QED BY <1>1, <1>4, <2>1, <2>2 DEF Onward, Starting, Tracked
<1>5. CASE message'[q] = [message[q] EXCEPT !.done = TRUE]
  <2>1. /\ message'[q].at = message[q].at /\ message'[q].kind = message[q].kind
        /\ message'[q].session = message[q].session /\ message'[q].end = message[q].end
        /\ message'[q].on = message[q].on /\ message'[q].aborted = message[q].aborted
        /\ message'[q].started = message[q].started
    BY <1>1, <1>5 DEF Sends
  <2>2. Steady(q)
    BY <2>1 DEF Steady
  <2> QED BY <1>1, <2>1, <2>2 DEF Onward, Starting, Tracked
<1>6. ASSUME NEW at \in {"admitted", "reconciling", "recovering"},
             message'[q] = [message[q] EXCEPT !.at = at],
             message[q].at = "posting" \/ (message[q].at = "admitted" /\ at = "admitted")
      PROVE  Onward(q)
  <2>1. /\ message'[q].at = at /\ message'[q].kind = message[q].kind
        /\ message'[q].session = message[q].session /\ message'[q].end = message[q].end
        /\ message'[q].on = message[q].on /\ message'[q].aborted = message[q].aborted
        /\ message'[q].started = message[q].started
    BY <1>1, <1>6 DEF Sends
  <2>2. Steady(q)
    BY <1>6, <2>1 DEF Steady
  <2>3. message'[q].at \notin {"waiting", "creating", "posting"}
    BY <2>1
  <2> QED BY <1>1, <1>6, <2>1, <2>2, <2>3 DEF Onward, Starting, Tracked
<1> QED BY <1>2, <1>3, <1>4, <1>5, <1>6 DEF Passed

(* A step in which every send goes on or ends.                               *)
LEMMA AllPass ==
  ASSUME IInv, OInv, UNCHANGED <<submitted, accepted>>,
         \A q \in Messages : Passed(q) /\ Tracked(q),
         \A q \in admissions : q \in admissions' \/ disowned' \/ ~Starting(q)',
         disowned => disowned',
         pending' \subseteq pending, \A s \in Sessions : controller'[s] \subseteq controller[s]
  PROVE  OInv'
<1>1. \A q \in Messages : Onward(q)
  BY Passes
<1>2. \A q \in Messages : Steady(q)
  BY <1>1 DEF Onward
<1> DEFINE others == {}
<1>3. others \in SUBSET Messages
  OBVIOUS
<1>4. \A q \in Messages \ others :
        Onward(q) /\ (Starting(q)' /\ q \in admissions => q \in admissions' \/ disowned')
  BY <1>1
<1>5. /\ \A q \in others : Marked(q)'
      /\ \A q \in others :
           \/ disowned'
           \/ /\ Starting(q)' => q \in admissions'
              /\ message'[q].kind = "queued" /\ post'[q] # "none" => InTurn(q)'
  OBVIOUS
<1> HIDE DEF others
<1> QED BY <1>2, <1>3, <1>4, <1>5, Going

(* A step of the server, or of the user that moves no send.                  *)
LEMMA NonePass ==
  ASSUME IInv, OInv, \A q \in Messages : Tracked(q),
         UNCHANGED <<message, submitted, accepted, admissions, pending, controller, disowned>>
  PROVE  OInv'
<1>1. \A q \in Messages : Passed(q) /\ Tracked(q)
  BY DEF Passed
<1>2. /\ pending' \subseteq pending /\ \A s \in Sessions : controller'[s] \subseteq controller[s]
      /\ \A q \in admissions : q \in admissions' \/ disowned' \/ ~Starting(q)'
      /\ disowned => disowned'
  OBVIOUS
<1> QED BY <1>1, <1>2, AllPass

(* The sends that are over have no admission any more.                       *)
LEMMA FinishPasses ==
  ASSUME IInv, OInv, NEW over \in SUBSET Messages, NEW ends \in [over -> Ends], NEW lost,
         Finish(ends, lost), \A q \in over : message[q].at \notin {"unsent", "over"}
  PROVE  /\ \A q \in Messages : Passed(q)
         /\ \A q \in admissions : q \in admissions' \/ disowned' \/ ~Starting(q)'
         /\ pending' \subseteq pending
         /\ \A s \in Sessions : controller'[s] \subseteq controller[s]
<1> DEFINE rejected == Rejected(over) \ over
<1>1. DOMAIN ends = over
  OBVIOUS
<1>2. /\ message' = [q \in Messages |->
                       CASE q \in over -> Over(q, ends[q])
                         [] q \in rejected -> Over(q, "told")
                         [] OTHER -> message[q]]
      /\ Released(over)
  BY <1>1 DEF Finish
<1>3. /\ \A q \in over : message'[q] = Over(q, ends[q]) /\ ends[q] \in Ends
      /\ \A q \in Messages : q \in rejected => message'[q] = Over(q, "told")
      /\ \A q \in Messages : q \notin over /\ q \notin rejected => message'[q] = message[q]
  BY <1>2
<1>4. \A q \in rejected : message[q].at = "waiting"
  BY DEF Rejected
<1> HIDE DEF rejected
<1>5. ASSUME NEW q \in Messages PROVE Passed(q)
  <2>1. "told" \in Ends
    BY DEF Ends
  <2>2. CASE q \in over
    BY <1>3, <2>2 DEF Passed
  <2>3. CASE q \in rejected
    BY <1>3, <1>4, <2>1, <2>3 DEF Passed
  <2>4. CASE q \notin over /\ q \notin rejected
    BY <1>3, <2>4 DEF Passed
  <2> QED BY <2>2, <2>3, <2>4
<1>6. /\ admissions' = admissions \ over /\ pending' \subseteq pending
      /\ \A s \in Sessions : controller'[s] \subseteq controller[s]
  BY <1>2, ReleasedFacts
<1>7. ASSUME NEW q \in over PROVE ~Starting(q)'
  <2>1. message'[q].at = "over"
    BY <1>3 DEF Over, Unsent
  <2> QED BY <2>1 DEF Starting
<1> QED BY <1>5, <1>6, <1>7

------------------------------------------------------------------------------
(* The steps that leave the queue alone                                      *)

LEMMA WrittenStarts ==
  ASSUME IInv, NEW w \in [Messages -> Seq(FrameNames)], NEW ms,
         NEW f \in FrameNames \ {"start"}, NEW q \in Messages
  PROVE  \A i \in 1 .. Len(Written(w, ms, f)[q]) :
           Written(w, ms, f)[q][i] = "start" => i \in 1 .. Len(w[q]) /\ w[q][i] = "start"
<1> DEFINE v == Written(w, ms, f)
<1>1. v[q] \in {w[q], Append(w[q], f)} /\ w[q] \in Seq(FrameNames)
  BY DEF Written
<1> HIDE DEF v
<1>2. CASE v[q] = w[q]
  BY <1>2 DEF v
<1>3. CASE v[q] = Append(w[q], f)
  <2>1. /\ Len(Append(w[q], f)) = Len(w[q]) + 1 /\ Len(w[q]) \in Nat
        /\ \A i \in 1 .. Len(w[q]) : Append(w[q], f)[i] = w[q][i]
        /\ Append(w[q], f)[Len(w[q]) + 1] = f
    BY <1>1
  <2>2. \A i \in 1 .. Len(w[q]) + 1 : i \in 1 .. Len(w[q]) \/ i = Len(w[q]) + 1
    BY <2>1
  <2>3. \A i \in 1 .. Len(v[q]) : v[q][i] = "start" => i \in 1 .. Len(w[q]) /\ w[q][i] = "start"
    BY <1>3, <2>1, <2>2
  <2> QED BY <2>3 DEF v
<1> QED BY <1>1, <1>2, <1>3

LEMMA Wires ==
  ASSUME IInv, OInv
  PROVE  /\ wire \in [Messages -> Seq(FrameNames)]
         /\ \A q \in Messages :
              \A i \in 1 .. Len(wire[q]) : wire[q][i] = "start" => i = 1 /\ ~message[q].started
BY DEF IInv, SendsTyped, OInv, Marked

LEMMA RefuseInOrder ==
  ASSUME IInv, OInv, NEW m \in Messages, Refuse(m)
  PROVE  OInv'
<1>1. /\ post[m] = "sent" /\ post' = [post EXCEPT ![m] = "closed"]
      /\ wire' = Written(wire, {m}, "refused")
      /\ UNCHANGED <<message, submitted, accepted, admissions, pending, controller, disowned>>
  BY DEF Refuse, ownVars
<1> DEFINE ms == {m}
           f == "refused"
<1>2. ASSUME NEW q \in Messages PROVE Tracked(q)
  <2>1. \A i \in 1 .. Len(Written(wire, ms, f)[q]) :
          Written(wire, ms, f)[q][i] = "start"
            => i \in 1 .. Len(wire[q]) /\ wire[q][i] = "start"
    <3>1. f \in FrameNames \ {"start"}
      BY DEF FrameNames
    <3> HIDE DEF ms, f
    <3> QED BY <3>1, Wires, WrittenStarts
  <2>2. post'[q] = post[q] \/ (post[q] \in {"sent", "open"} /\ post'[q] = "closed")
    BY <1>1 DEF IInv, SendsTyped
  <2> QED BY <1>1, <2>1, <2>2, Wires DEF Tracked
<1> QED BY <1>1, <1>2, NonePass

LEMMA PromptFailsInOrder ==
  ASSUME IInv, OInv, NEW m \in Messages, PromptFails(m)
  PROVE  OInv'
<1>1. /\ post[m] = "open" /\ post' = [post EXCEPT ![m] = "closed"]
      /\ UNCHANGED <<message, submitted, accepted, admissions, pending, controller, disowned>>
  BY DEF PromptFails, ownVars
<1> DEFINE ms == {m}
<1>2. PICK f \in FrameNames \ {"start"} : wire' = Written(wire, ms, f)
  BY DEF PromptFails, FrameNames
<1>3. ASSUME NEW q \in Messages PROVE Tracked(q)
  <2>1. \A i \in 1 .. Len(Written(wire, ms, f)[q]) :
          Written(wire, ms, f)[q][i] = "start"
            => i \in 1 .. Len(wire[q]) /\ wire[q][i] = "start"
    <3> HIDE DEF ms
    <3> QED BY Wires, WrittenStarts
  <2>2. post'[q] = post[q] \/ (post[q] \in {"sent", "open"} /\ post'[q] = "closed")
    BY <1>1 DEF IInv, SendsTyped
  <2> QED BY <1>2, <2>1, <2>2, Wires DEF Tracked
<1> QED BY <1>1, <1>3, NonePass

LEMMA AgentEndsInOrder ==
  ASSUME IInv, OInv, NEW s \in Sessions, AgentEnds(s)
  PROVE  OInv'
<1> DEFINE w == Written(wire, Open(s), "done")
<1>1. /\ post' = [m \in Messages |-> IF m \in Open(s) THEN "closed" ELSE post[m]]
      /\ wire' = Written(w, Open(s), "end")
      /\ UNCHANGED <<message, submitted, accepted, admissions, pending, controller, disowned>>
  BY DEF AgentEnds, ownVars
<1>2. "done" \in FrameNames \ {"start"} /\ "end" \in FrameNames \ {"start"}
  BY DEF FrameNames
<1>3. w \in [Messages -> Seq(FrameNames)]
  BY <1>2, Wires, Writing
<1>4. ASSUME NEW q \in Messages PROVE Tracked(q)
  <2>1. \A i \in 1 .. Len(w[q]) : w[q][i] = "start" => i \in 1 .. Len(wire[q]) /\ wire[q][i] = "start"
    BY <1>2, Wires, WrittenStarts
  <2> HIDE DEF w
  <2> DEFINE v == Written(w, Open(s), "end")
  <2>4. \A i \in 1 .. Len(v[q]) : v[q][i] = "start" => i \in 1 .. Len(w[q]) /\ w[q][i] = "start"
    <3> DEFINE f == "end"
               ms == Open(s)
    <3>1. f \in FrameNames \ {"start"}
      BY <1>2
    <3>2. \A i \in 1 .. Len(Written(w, ms, f)[q]) :
            Written(w, ms, f)[q][i] = "start" => i \in 1 .. Len(w[q]) /\ w[q][i] = "start"
      <4> HIDE DEF ms, f
      <4> QED BY <1>3, <3>1, WrittenStarts
    <3> QED BY <3>2
  <2>5. wire' = v
    BY <1>1
  <2> HIDE DEF v
  <2>2. \A i \in 1 .. Len(wire'[q]) : wire'[q][i] = "start" => i \in 1 .. Len(w[q]) /\ w[q][i] = "start"
    BY <2>4, <2>5
  <2>3. post'[q] = post[q] \/ (post[q] \in {"sent", "open"} /\ post'[q] = "closed")
    BY <1>1 DEF Open
  <2> QED BY <2>1, <2>2, <2>3, Wires DEF Tracked
<1> QED BY <1>1, <1>4, NonePass

LEMMA IdleInOrder ==
  ASSUME IInv, OInv,
         UNCHANGED <<message, wire, post, submitted, accepted, admissions, pending, controller,
                     disowned>>
  PROVE  OInv'
<1>1. \A q \in Messages : Tracked(q)
  BY TrackedFrom
<1> QED BY <1>1, NonePass

LEMMA NavigateInOrder ==
  ASSUME IInv, OInv, Navigate \/ Arrive \/ UNCHANGED turnVars
  PROVE  OInv'
<1>1. UNCHANGED <<message, wire, post, submitted, accepted, admissions, pending, controller,
                  disowned>>
  BY DEF Navigate, Arrive, turnVars, serverVars, ownVars
<1> QED BY <1>1, IdleInOrder

(* The next frame is taken off the wire of m, or the browser gives it up.    *)
LEMMA TakenTracks ==
  ASSUME IInv, OInv, NEW m \in Messages, UNCHANGED post,
         wire[m] # <<>>, wire' = [wire EXCEPT ![m] = Tail(@)]
  PROVE  \A q \in Messages : Tracked(q)
<1>1. \A q \in Messages : \/ wire'[q] = wire[q]
                          \/ wire'[q] = <<>>
                          \/ wire[q] # <<>> /\ wire'[q] = Tail(wire[q])
  BY DEF IInv, SendsTyped
<1> QED BY <1>1, TrackedFrom

LEMMA GivenUpTracks ==
  ASSUME IInv, OInv, NEW ms, GivenUp(ms)
  PROVE  \A q \in Messages : Tracked(q)
<1>1. ASSUME NEW q \in Messages
      PROVE  /\ post'[q] = post[q] \/ (post[q] \in {"sent", "open"} /\ post'[q] = "closed")
             /\ \/ wire'[q] = wire[q]
                \/ wire'[q] = <<>>
                \/ wire[q] # <<>> /\ wire'[q] = Tail(wire[q])
  BY GivenUpFacts
<1> QED BY <1>1, TrackedFrom

------------------------------------------------------------------------------
(* The steps in which sends go on or end                                     *)

LEMMA OnePasses ==
  ASSUME IInv, OInv, NEW m \in Messages, NEW x, message' = [message EXCEPT ![m] = x],
         message'[m] = x => Passed(m),
         \A q \in Messages : Tracked(q), UNCHANGED <<submitted, accepted, disowned>>,
         \/ UNCHANGED <<admissions, pending, controller>>
         \/ Released({m}) /\ x.at = "over"
  PROVE  OInv'
<1>1. message'[m] = x /\ \A q \in Messages \ {m} : message'[q] = message[q]
  BY DEF IInv, SendsTyped
<1>2. \A q \in Messages : Passed(q) /\ Tracked(q)
  BY <1>1 DEF Passed
<1>3. CASE UNCHANGED <<admissions, pending, controller>>
  BY <1>2, <1>3, AllPass
<1>4. CASE Released({m}) /\ x.at = "over"
  <2>1. /\ admissions' = admissions \ {m} /\ pending' \subseteq pending
        /\ \A s \in Sessions : controller'[s] \subseteq controller[s]
    <3> DEFINE gone == {m}
    <3>1. Released(gone)
      BY <1>4
    <3> HIDE DEF gone
    <3>2. /\ admissions' = admissions \ gone /\ pending' \subseteq pending
          /\ \A s \in Sessions : controller'[s] \subseteq controller[s]
      BY <3>1, ReleasedFacts
    <3> QED BY <3>2 DEF gone
  <2>2. ~Starting(m)'
    BY <1>1, <1>4 DEF Starting
  <2>3. \A q \in admissions : q \in admissions' \/ disowned' \/ ~Starting(q)'
    BY <2>1, <2>2
  <2> QED BY <1>2, <2>1, <2>3, AllPass
<1> QED BY <1>3, <1>4

(* A send that fails.                                                        *)
LEMMA FailInOrder ==
  ASSUME IInv, OInv, NEW m \in Messages, Fail(m), message[m].at = "posting",
         \A q \in Messages : Tracked(q), UNCHANGED <<submitted, accepted, disowned>>
  PROVE  OInv'
<1> DEFINE over == {m}
<1>1. PICK end \in {"hidden", "told"} : Finish([q \in {m} |-> end], {m})
  BY DEF Fail, Withdrawn
<1> DEFINE ends == [q \in {m} |-> end]
<1>2. /\ over \in SUBSET Messages /\ ends \in [over -> Ends] /\ Finish(ends, over)
      /\ \A q \in over : message[q].at \notin {"unsent", "over"}
  BY <1>1 DEF Ends
<1> HIDE DEF over, ends
<1>3. /\ \A q \in Messages : Passed(q)
      /\ \A q \in admissions : q \in admissions' \/ disowned' \/ ~Starting(q)'
      /\ pending' \subseteq pending
      /\ \A s \in Sessions : controller'[s] \subseteq controller[s]
  BY <1>2, FinishPasses
<1>4. \A q \in Messages : Passed(q) /\ Tracked(q)
  BY <1>3
<1>5. UNCHANGED <<submitted, accepted>> /\ (disowned => disowned')
  OBVIOUS
<1> QED BY <1>3, <1>4, <1>5, AllPass

LEMMA ReadTurnInOrder ==
  ASSUME IInv, OInv, NEW m \in Messages, ReadTurn(m), Head(wire[m]) # "start"
  PROVE  OInv'
<1>1. /\ Reads(m, "main") /\ wire[m] # <<>> /\ wire' = [wire EXCEPT ![m] = Tail(@)]
      /\ UNCHANGED <<submitted, accepted, disowned>>
  BY DEF ReadTurn
<1>2. post' = post
  BY DEF ReadTurn, ReadStart
<1>3. \A q \in Messages : Tracked(q)
  BY <1>1, <1>2, TakenTracks
<1>4. message[m].at = "posting" /\ message[m].kind = "main"
  BY <1>1, TurnPosts
<1>5. CASE /\ message' = [message EXCEPT ![m].done = TRUE]
           /\ UNCHANGED <<admissions, pending, controller>>
  <2> DEFINE x == [message[m] EXCEPT !.done = TRUE]
  <2>1. message' = [message EXCEPT ![m] = x] /\ (message'[m] = x => Passed(m))
    BY <1>5 DEF Passed, IInv, SendsTyped
  <2> HIDE DEF x
  <2> QED BY <1>1, <1>3, <1>5, <2>1, OnePasses
<1>6. CASE /\ message' = [message EXCEPT ![m].at = "reconciling"]
           /\ UNCHANGED <<admissions, pending, controller>>
  <2> DEFINE x == [message[m] EXCEPT !.at = "reconciling"]
  <2>1. message' = [message EXCEPT ![m] = x] /\ (message'[m] = x => Passed(m))
    BY <1>4, <1>6 DEF Passed, IInv, SendsTyped
  <2> HIDE DEF x
  <2> QED BY <1>1, <1>3, <1>6, <2>1, OnePasses
<1>7. CASE Fail(m)
  BY <1>1, <1>3, <1>4, <1>7, FailInOrder
<1> QED BY <1>5, <1>6, <1>7 DEF ReadTurn

LEMMA ReadQueuedInOrder ==
  ASSUME IInv, OInv, NEW m \in Messages, ReadQueued(m)
  PROVE  OInv'
<1>1. /\ Reads(m, "queued") /\ wire[m] # <<>> /\ wire' = [wire EXCEPT ![m] = Tail(@)]
      /\ UNCHANGED <<post, submitted, accepted, disowned, admissions, pending, controller>>
  BY DEF ReadQueued, ownVars
<1>2. \A q \in Messages : Tracked(q)
  BY <1>1, TakenTracks
<1>3. message[m].at \in {"posting", "admitted"}
  BY <1>1 DEF Reads
<1>4. CASE message' = [message EXCEPT ![m].at = "admitted"]
  <2> DEFINE x == [message[m] EXCEPT !.at = "admitted"]
  <2>1. message' = [message EXCEPT ![m] = x] /\ (message'[m] = x => Passed(m))
    BY <1>3, <1>4 DEF Passed, IInv, SendsTyped
  <2> HIDE DEF x
  <2> QED BY <1>1, <1>2, <2>1, OnePasses
<1>5. ASSUME NEW end \in {"answered", "told"}, message' = [message EXCEPT ![m] = Over(m, end)]
      PROVE  OInv'
  <2> DEFINE x == Over(m, end)
  <2>1. message' = [message EXCEPT ![m] = x] /\ (message'[m] = x => Passed(m))
    BY <1>3, <1>5 DEF Passed, Ends
  <2> HIDE DEF x
  <2> QED BY <1>1, <1>2, <2>1, OnePasses
<1> QED BY <1>4, <1>5 DEF ReadQueued

LEMMA BreakInOrder ==
  ASSUME IInv, OInv, NEW m \in Messages, Break(m)
  PROVE  OInv'
<1>1. /\ message[m].at \in {"posting", "admitted"} /\ GivenUp({m})
      /\ UNCHANGED <<submitted, accepted, disowned>>
  BY DEF Break
<1>2. \A q \in Messages : Tracked(q)
  BY <1>1, GivenUpTracks
<1>3. CASE message[m].kind = "main"
  <2>1. message[m].at = "posting" /\ Fail(m)
    BY <1>1, <1>3 DEF Break, IInv, Sound, Staged
  <2> QED BY <1>1, <1>2, <2>1, FailInOrder
<1>4. CASE message[m].kind # "main"
  <2> DEFINE x == Over(m, "told")
  <2>1. /\ message' = [message EXCEPT ![m] = x] /\ (message'[m] = x => Passed(m))
        /\ UNCHANGED <<admissions, pending, controller>>
    BY <1>1, <1>4 DEF Break, Passed, Ends
  <2> HIDE DEF x
  <2> QED BY <1>1, <1>2, <2>1, OnePasses
<1> QED BY <1>3, <1>4

(* The sends that end without their stream.                                  *)
LEMMA EndsInOrder ==
  ASSUME IInv, OInv, NEW m \in Messages, NEW end \in {"answered", "told"},
         message' = [message EXCEPT ![m] = Over(m, end)], Released({m}),
         message[m].at \in {"reconciling", "recovering"},
         UNCHANGED <<serverVars, submitted, disowned>>
  PROVE  OInv'
<1> DEFINE x == Over(m, end)
<1>1. /\ message' = [message EXCEPT ![m] = x] /\ (message'[m] = x => Passed(m))
      /\ x.at = "over"
  BY DEF Passed, Ends, Over, Unsent
<1>2. \A q \in Messages : Tracked(q)
  BY TrackedFrom DEF serverVars
<1>3. UNCHANGED <<submitted, accepted, disowned>>
  BY DEF serverVars
<1> HIDE DEF x
<1> QED BY <1>1, <1>2, <1>3, OnePasses

LEMMA ReconcileInOrder ==
  ASSUME IInv, OInv, NEW m \in Messages, Reconcile(m)
  PROVE  OInv'
<1>1. /\ message' = [message EXCEPT ![m] = Over(m, "answered")] /\ Released({m})
      /\ message[m].at \in {"reconciling", "recovering"}
      /\ UNCHANGED <<serverVars, submitted, disowned>>
  BY DEF Reconcile
<1> QED BY <1>1, EndsInOrder

LEMMA AbandonInOrder ==
  ASSUME IInv, OInv, NEW m \in Messages, Abandon(m)
  PROVE  OInv'
<1>1. /\ message' = [message EXCEPT ![m] = Over(m, "answered")] /\ Released({m})
      /\ message[m].at \in {"reconciling", "recovering"}
      /\ UNCHANGED <<serverVars, submitted, disowned>>
  BY DEF Abandon
<1> QED BY <1>1, EndsInOrder

LEMMA PollInOrder ==
  ASSUME IInv, OInv, NEW m \in Messages, Poll(m)
  PROVE  OInv'
<1>1. /\ message[m].at \in {"reconciling", "recovering"}
      /\ UNCHANGED <<serverVars, submitted, disowned>>
  BY DEF Poll
<1>2. CASE UNCHANGED <<message, admissions, pending, controller>>
  BY <1>1, <1>2, IdleInOrder DEF serverVars
<1>3. CASE message' = [message EXCEPT ![m] = Over(m, "answered")] /\ Released({m})
  BY <1>1, <1>3, EndsInOrder
<1>4. CASE message' = [message EXCEPT ![m] = Over(m, "told")] /\ Released({m})
  BY <1>1, <1>4, EndsInOrder
<1> QED BY <1>2, <1>3, <1>4 DEF Poll

------------------------------------------------------------------------------
(* The steps that end many sends                                             *)

LEMMA InvalidInOrder ==
  ASSUME IInv, OInv, NEW m \in Messages, Invalid(m)
  PROVE  OInv'
<1>1. /\ Reads(m, "main") /\ GivenUp({m}) /\ UNCHANGED <<submitted, accepted, disowned>>
  BY DEF Invalid
<1>2. message[m].at = "posting" /\ message[m].kind = "main"
  BY <1>1, TurnPosts
<1>3. \A q \in Messages : Tracked(q)
  BY <1>1, GivenUpTracks
<1>4. CASE SameSession(m)
  <2> DEFINE rejected == Rejected({m})
  <2>1. /\ message' = [q \in Messages |->
             CASE q = m -> [message[q] EXCEPT !.at = "recovering"]
               [] q \in rejected -> Over(q, "told")
               [] OTHER -> message[q]]
        /\ admissions' = admissions \ {m}
        /\ UNCHANGED <<pending, controller>>
    BY <1>4 DEF Invalid
  <2>2. \A q \in rejected : message[q].at = "waiting"
    BY DEF Rejected
  <2> HIDE DEF rejected
  <2>3. m \notin rejected
    BY <1>2, <2>2
  <2>4. message'[m] = [message[m] EXCEPT !.at = "recovering"]
    BY <2>1, <2>3
  <2>5. ASSUME NEW q \in Messages PROVE Passed(q)
    <3>1. CASE q = m
      BY <1>2, <2>4, <3>1 DEF Passed
    <3>2. CASE q \in rejected
      <4>1. message'[q] = Over(q, "told") /\ "told" \in Ends
        BY <2>1, <2>3, <3>2 DEF Ends
      <4> QED BY <2>2, <3>2, <4>1 DEF Passed
    <3>3. CASE q # m /\ q \notin rejected
      <4>1. message'[q] = message[q]
        BY <2>1, <3>3
      <4> QED BY <4>1 DEF Passed
    <3> QED BY <3>1, <3>2, <3>3
  <2>6. ~Starting(m)'
    <3>1. message[m] \in Sends
      BY SendTyped
    <3>2. message'[m].at = "recovering"
      BY <2>4, <3>1 DEF Sends
    <3> QED BY <3>2 DEF Starting
  <2>7. /\ \A q \in admissions : q \in admissions' \/ disowned' \/ ~Starting(q)'
        /\ pending' \subseteq pending /\ \A s \in Sessions : controller'[s] \subseteq controller[s]
    BY <2>1, <2>6
  <2>8. \A q \in Messages : Passed(q) /\ Tracked(q)
    BY <1>3, <2>5
  <2>9. UNCHANGED <<submitted, accepted>> /\ (disowned => disowned')
    BY <1>1
  <2> QED BY <2>7, <2>8, <2>9, AllPass
<1>5. CASE ~SameSession(m)
  <2> DEFINE over == {m}
             ends == [q \in {m} |-> "hidden"]
             lost == {}
  <2>1. /\ over \in SUBSET Messages /\ ends \in [over -> Ends] /\ Finish(ends, lost)
        /\ \A q \in over : message[q].at \notin {"unsent", "over"}
    BY <1>2, <1>5 DEF Ends, Invalid
  <2> HIDE DEF over, ends, lost
  <2>2. /\ \A q \in Messages : Passed(q)
        /\ \A q \in admissions : q \in admissions' \/ disowned' \/ ~Starting(q)'
        /\ pending' \subseteq pending
        /\ \A s \in Sessions : controller'[s] \subseteq controller[s]
    BY <2>1, FinishPasses
  <2>3. \A q \in Messages : Passed(q) /\ Tracked(q)
    BY <1>3, <2>2
  <2>4. UNCHANGED <<submitted, accepted>> /\ (disowned => disowned')
    BY <1>1
  <2> QED BY <2>2, <2>3, <2>4, AllPass
<1> QED BY <1>4, <1>5

LEMMA CreationFailsInOrder ==
  ASSUME IInv, OInv, CreationFails
  PROVE  OInv'
<1> DEFINE over == Range(asking)
           ends == [m \in Range(asking) |-> IF message[m].aborted THEN "stopped" ELSE "told"]
           lost == Range(asking)
<1>1. over \in SUBSET Messages /\ \A q \in over : message[q].at = "creating"
  BY RangeIn DEF IInv, SendsTyped, Sound, Staged
<1>2. /\ over \in SUBSET Messages /\ ends \in [over -> Ends] /\ Finish(ends, lost)
      /\ \A q \in over : message[q].at \notin {"unsent", "over"}
  BY <1>1 DEF Ends, CreationFails
<1>3. UNCHANGED <<wire, post, submitted, accepted, disowned>>
  BY DEF CreationFails, serverVars
<1> HIDE DEF over, ends, lost
<1>4. /\ \A q \in Messages : Passed(q)
      /\ \A q \in admissions : q \in admissions' \/ disowned' \/ ~Starting(q)'
      /\ pending' \subseteq pending
      /\ \A s \in Sessions : controller'[s] \subseteq controller[s]
  BY <1>2, FinishPasses
<1>5. \A q \in Messages : Tracked(q)
  BY <1>3, TrackedFrom
<1>6. \A q \in Messages : Passed(q) /\ Tracked(q)
  BY <1>4, <1>5
<1>7. UNCHANGED <<submitted, accepted>> /\ (disowned => disowned')
  BY <1>3
<1> QED BY <1>4, <1>6, <1>7, AllPass

(* Stop takes the admissions of the view: those who had them are aborted, or *)
(* cut, or they are disowned.                                                *)
LEMMA StopInOrder ==
  ASSUME IInv, OInv, Stop
  PROVE  OInv'
<1> DEFINE cut      == {m \in Aborted : message[m].at = "posting"}
           dropped  == AdmissionsOf(shown) \union cut
           rejected == Rejected(dropped)
<1>1. /\ message' = [m \in Messages |->
           CASE m \in cut -> Over(m, "stopped")
             [] m \in rejected -> Over(m, "told")
             [] m \in Aborted \ (cut \union rejected) -> [message[m] EXCEPT !.aborted = TRUE]
             [] OTHER -> message[m]]
      /\ admissions' = admissions \ dropped
      /\ GivenUp(cut)
      /\ controller' = [s \in Sessions |-> IF s = shown THEN {} ELSE controller[s] \ cut]
      /\ pending' = {}
  BY DEF Stop, StopSends
<1>2. /\ UNCHANGED <<accepted, submitted>>
      /\ disowned' = (disowned \/ ~(AdmissionsOf(shown) \subseteq Aborted))
  BY DEF Stop
<1>3. /\ \A q \in cut : q \in Aborted /\ message[q].at = "posting"
      /\ \A q \in Aborted : q \notin cut => message[q].at # "posting"
      /\ \A q \in rejected : message[q].at = "waiting"
      /\ \A q \in dropped : q \in AdmissionsOf(shown) \/ q \in cut
  BY DEF Rejected
<1>4. \A q \in Messages : Tracked(q)
  BY <1>1, GivenUpTracks
<1>5. \A q \in Aborted : q \in Messages /\ message[q].kind = "main"
  <2>1. /\ \A m \in pending : m \in Messages /\ message[m].kind = "main"
        /\ \A s \in Sessions : \A m \in controller[s] : message[m].kind = "main"
    BY DEF OInv, Stoppable
  <2>2. \A s \in Sessions : controller[s] \subseteq Messages
    BY DEF IInv, Controlled
  <2>3. shown # NoSession => shown \in Sessions
    BY DEF IInv, ViewTyped
  <2> QED BY <2>1, <2>2, <2>3 DEF Aborted
<1> HIDE DEF cut, dropped, rejected
<1>6. ASSUME NEW q \in Messages
      PROVE  /\ q \in cut => message'[q] = Over(q, "stopped")
             /\ q \in rejected => message'[q] = Over(q, "told")
             /\ q \in Aborted /\ q \notin cut /\ q \notin rejected
                  => message'[q] = [message[q] EXCEPT !.aborted = TRUE]
             /\ q \notin cut /\ q \notin Aborted /\ q \notin rejected
                  => message'[q] = message[q]
  <2>1. ~(q \in cut /\ q \in rejected)
    BY <1>3
  <2>2. q \in cut => message'[q] = Over(q, "stopped")
    BY <1>1, <2>1
  <2>3. q \in rejected => message'[q] = Over(q, "told")
    BY <1>1, <2>1
  <2>4. q \in Aborted /\ q \notin cut /\ q \notin rejected
          => message'[q] = [message[q] EXCEPT !.aborted = TRUE]
    BY <1>1
  <2>5. q \notin cut /\ q \notin Aborted /\ q \notin rejected => message'[q] = message[q]
    BY <1>1
  <2> QED BY <2>2, <2>3, <2>4, <2>5
<1>7. ASSUME NEW q \in Messages PROVE Passed(q)
  <2>0. "stopped" \in Ends /\ "told" \in Ends
    BY DEF Ends
  <2>1. CASE q \in cut
    <3>1. message[q].at \notin {"unsent", "over"} /\ message'[q] = Over(q, "stopped")
      BY <1>3, <1>6, <2>1
    <3> QED BY <2>0, <3>1 DEF Passed
  <2>2. CASE q \in rejected
    <3>1. message[q].at \notin {"unsent", "over"} /\ message'[q] = Over(q, "told")
      BY <1>3, <1>6, <2>2
    <3> QED BY <2>0, <3>1 DEF Passed
  <2>3. CASE q \in Aborted /\ q \notin cut /\ q \notin rejected
    <3>1. /\ message[q].kind = "main" /\ message[q].at # "posting"
          /\ message'[q] = [message[q] EXCEPT !.aborted = TRUE]
      BY <1>3, <1>5, <1>6, <2>3
    <3> QED BY <3>1 DEF Passed
  <2>4. CASE q \notin cut /\ q \notin Aborted /\ q \notin rejected
    BY <1>6, <2>4 DEF Passed
  <2> QED BY <2>1, <2>2, <2>3, <2>4
<1>8. ASSUME NEW q \in Messages, q \in Aborted PROVE ~Starting(q)'
  <2>1. CASE q \in cut \/ q \in rejected
    <3>1. message'[q].at = "over"
      BY <1>6, <2>1 DEF Over, Unsent
    <3> QED BY <3>1 DEF Starting
  <2>2. CASE q \notin cut /\ q \notin rejected
    <3>1. message'[q] = [message[q] EXCEPT !.aborted = TRUE] /\ message[q] \in Sends
      BY <1>6, <1>8, <2>2, SendTyped
    <3>2. message'[q].aborted
      BY <3>1 DEF Sends
    <3> QED BY <3>2 DEF Starting
  <2> QED BY <2>1, <2>2
<1>9. ASSUME NEW q \in admissions PROVE q \in admissions' \/ disowned' \/ ~Starting(q)'
  <2>1. q \in Messages
    BY DEF IInv, SendsTyped
  <2>2. q \in dropped /\ ~disowned' => q \in Aborted
    BY <1>2, <1>3
  <2> QED BY <1>1, <1>8, <2>1, <2>2
<1>10. /\ pending' \subseteq pending
       /\ \A s \in Sessions : controller'[s] \subseteq controller[s]
  BY <1>1
<1>11. \A q \in Messages : Passed(q) /\ Tracked(q)
  BY <1>4, <1>7
<1>12. UNCHANGED <<submitted, accepted>> /\ (disowned => disowned')
  BY <1>2
<1> QED BY <1>9, <1>10, <1>11, <1>12, AllPass

------------------------------------------------------------------------------
(* The step that starts a turn, and the messages queued behind it            *)

(* Of what was sent before a queued message whose turn to be posted it is,   *)
(* the runtime has everything but a turn that has not started.               *)
LEMMA TakenBefore ==
  ASSUME IInv, OInv, NEW n \in Messages, ItsTurn(n), message[n].session \in Sessions,
         NEW p \in Messages, Behind(p, n)
  PROVE  \/ Got(p)
         \/ Starting(p) /\ message[p].at = "posting" /\ message[p].session = message[n].session
<1>1. /\ message[p].session = message[n].session /\ Before(submitted, p, n)
      /\ message[p].end \in {"none", "answered"}
  BY DEF Behind
<1>2. Sound(p) /\ Marked(p) /\ message[p] \in Sends
  BY SendTyped DEF IInv, OInv
<1>3. p \in Range(submitted) /\ message[p].at # "unsent"
  BY <1>1, <1>2 DEF Before, Range, Marked
<1>4. message[p].at # "creating"
  BY <1>1, <1>2, TurnAssumption DEF Sound, Staged
<1>5. message[p].at = "over" => Got(p)
  BY <1>1, <1>2 DEF Sound, Staged, Heard
<1>6. message[p].at \in {"admitted", "reconciling", "recovering"} => Got(p)
  BY <1>2 DEF Sound, Heard
<1>7. CASE message[p].kind = "queued"
  <2>1. message[p].at \in {"admitted", "over"}
    BY <1>1, <1>7 DEF ItsTurn, Before
  <2> QED BY <1>5, <1>6, <2>1
<1>8. CASE message[p].kind # "queued"
  <2>1. message[p].kind = "main" /\ message[p].at \in Stages
    BY <1>2, <1>3, <1>8 DEF Marked, Sends
  <2>2. message[p].at \in {"posting", "admitted", "reconciling", "recovering", "over"}
    BY <1>2, <1>3, <1>4, <1>8, <2>1 DEF Sound, Staged, Stages
  <2>3. message[p].at = "posting" /\ ~Got(p) => Starting(p)
    BY <1>2, <2>1 DEF Starting, Marked
  <2> QED BY <1>1, <1>5, <1>6, <2>2, <2>3
<1> QED BY <1>7, <1>8

LEMMA NotGot ==
  ASSUME IInv, OInv, NEW n \in Messages, post[n] \notin {"open", "closed"}
  PROVE  ~Got(n)
BY DEF OInv, Marked

LEMMA TailsAt ==
  ASSUME NEW s \in Seq(FrameNames), s # <<>>, NEW i \in 1 .. Len(Tail(s))
  PROVE  i + 1 \in 1 .. Len(s) /\ s[i + 1] = Tail(s)[i] /\ i + 1 # 1
OBVIOUS

(* The start of m settles the admissions a.                                  *)
LEMMA SettleInOrder ==
  ASSUME IInv, OInv, NEW m \in Messages, message[m].at = "posting", message[m].kind = "main",
         wire[m] # <<>>, Head(wire[m]) = "start", wire' = [wire EXCEPT ![m] = Tail(@)],
         UNCHANGED <<accepted, submitted, disowned>>,
         NEW a, a \subseteq AdmissionsOf(message[m].session),
         disowned \/ a = {m}, Settle(m, a)
  PROVE  OInv'
<1> DEFINE waited == {q \in Messages : message[q].at = "waiting" /\ message[q].on \cap a # {}}
           others == {m} \union waited
<1>1. /\ admissions' = admissions \ a
      /\ message' = [q \in Messages |->
           CASE q = m -> [message[q] EXCEPT !.started = TRUE]
             [] q \in waited -> [message[q] EXCEPT !.at = "posting", !.on = {}]
             [] OTHER -> message[q]]
      /\ post' = [q \in Messages |-> IF q \in waited THEN "sent" ELSE post[q]]
      /\ UNCHANGED <<pending, controller>>
  BY DEF Settle
<1>2. \A q \in waited : q \in Messages /\ message[q].at = "waiting" /\ message[q].on \cap a # {}
  OBVIOUS
<1>3. others \in SUBSET Messages /\ \A q \in others : q = m \/ q \in waited
  OBVIOUS
<1> HIDE DEF waited
<1>4. message'[m] = [message[m] EXCEPT !.started = TRUE] /\ post'[m] = post[m] /\ m \notin waited
  BY <1>1, <1>2 DEF IInv, SendsTyped
<1>5. \A q \in waited :
        message'[q] = [message[q] EXCEPT !.at = "posting", !.on = {}] /\ post'[q] = "sent"
  BY <1>1, <1>2, <1>4
<1>6. \A q \in Messages \ others : message'[q] = message[q] /\ post'[q] = post[q]
  BY <1>1
<1>7. \A q \in Messages : q # m => wire'[q] = wire[q]
  BY DEF IInv, SendsTyped
<1>8. wire'[m] = Tail(wire[m])
  BY DEF IInv, SendsTyped
<1> HIDE DEF others
<1>9. /\ message[m] \in Sends /\ message'[m].at = "posting" /\ message'[m].kind = "main"
      /\ message'[m].session = message[m].session /\ message'[m].end = message[m].end
      /\ message'[m].started /\ message'[m].aborted = message[m].aborted
  <2>1. message[m] \in Sends
    BY SendTyped
  <2> QED BY <1>4, <2>1 DEF Sends
<1>10. ASSUME NEW q \in waited
       PROVE  /\ message[q] \in Sends /\ message'[q].at = "posting"
              /\ message'[q].kind = message[q].kind /\ message'[q].session = message[q].session
              /\ message'[q].end = message[q].end /\ message'[q].started = message[q].started
              /\ message'[q].aborted = message[q].aborted
  <2>1. message[q] \in Sends
    BY <1>2, SendTyped
  <2> QED BY <1>5, <2>1 DEF Sends
<1>11. ASSUME NEW q \in Messages PROVE Steady(q)
  <2>1. CASE q = m
    BY <1>9, <2>1 DEF Steady
  <2>2. CASE q \in waited
    BY <1>2, <1>10, <2>2 DEF Steady
  <2>3. CASE q \notin others
    BY <1>6, <2>3 DEF Steady
  <2> QED BY <2>1, <2>2, <2>3 DEF others
<1>12. ASSUME NEW q \in Messages \ others
       PROVE  Onward(q) /\ (Starting(q)' /\ q \in admissions => q \in admissions' \/ disowned')
  <2>1. q # m
    BY DEF others
  <2>2. Passed(q)
    BY <1>6 DEF Passed
  <2>3. Tracked(q)
    <3>1. wire'[q] = wire[q] /\ post'[q] = post[q]
      BY <1>6, <1>7, <2>1
    <3> QED BY <3>1, TrackedFrom
  <2>4. Onward(q)
    BY <2>2, <2>3, Passes
  <2>5. q \in admissions => q \in admissions' \/ disowned'
    BY <1>1, <2>1
  <2> QED BY <2>4, <2>5
<1>13. /\ wire[m] \in Seq(FrameNames) /\ Marked(m) /\ Sound(m) /\ wire[m][1] = "start"
       /\ 1 \in 1 .. Len(wire[m])
  BY SendTyped, Tails DEF OInv, IInv
<1>14. Got(m) /\ ~message[m].started /\ ~message[m].aborted
  BY <1>13 DEF Marked, Sound, Heard
<1>15. Marked(m)'
  <2>1. ASSUME NEW i \in 1 .. Len(wire'[m]), wire'[m][i] = "start" PROVE FALSE
    <3>1. i + 1 \in 1 .. Len(wire[m]) /\ wire[m][i + 1] = wire'[m][i] /\ i + 1 # 1
      <4>1. wire[m] \in Seq(FrameNames) /\ wire[m] # <<>> /\ i \in 1 .. Len(Tail(wire[m]))
        BY <1>8, <1>13
      <4>2. /\ i + 1 \in 1 .. Len(wire[m]) /\ wire[m][i + 1] = Tail(wire[m])[i] /\ i + 1 # 1
        BY <4>1, TailsAt
      <4> QED BY <1>8, <4>2
    <3> QED BY <1>13, <2>1, <3>1 DEF Marked
  <2>2. Got(m)' /\ post'[m] \in {"open", "closed"}
    BY <1>4, <1>13, <1>14 DEF Got, Marked
  <2>3. ~message'[m].aborted
    BY <1>9, <1>14
  <2> QED BY <1>9, <2>1, <2>2, <2>3 DEF Marked
<1>16. ASSUME NEW q \in waited
       PROVE  /\ Marked(q) /\ Sound(q) /\ message[q].kind = "queued" /\ ~message[q].started
              /\ ~message[q].aborted /\ post[q] = "none" /\ ~Got(q) /\ wire[q] = <<>>
              /\ message[q].session \in Sessions
  <2>1. q \in Messages /\ message[q].at = "waiting" /\ Marked(q) /\ Sound(q)
    BY <1>2 DEF IInv, OInv
  <2>2. message[q].kind = "queued" /\ ~message[q].started /\ post[q] = "none"
        /\ message[q].session \in Sessions
    BY <2>1 DEF Sound, Staged
  <2>3. ~message[q].aborted /\ ~Got(q)
    BY <2>1, <2>2 DEF Marked
  <2>4. wire[q] = <<>>
    BY <2>1, <2>2 DEF Sound, StartFirst
  <2> QED BY <2>1, <2>2, <2>3, <2>4
<1>17. ASSUME NEW q \in waited PROVE Marked(q)'
  <2>1. q # m /\ wire'[q] = wire[q] /\ ~Got(q)'
    BY <1>2, <1>4, <1>7, <1>16 DEF Got
  <2>2. \A i \in 1 .. Len(wire'[q]) : FALSE
    BY <1>16, <2>1
  <2> QED BY <1>10, <1>16, <2>1, <2>2 DEF Marked
<1>18. ASSUME NEW q \in waited, ~disowned PROVE InTurn(q)'
  <2>1. /\ q \in Messages /\ message[q].at = "waiting" /\ ItsTurn(q) /\ a = {m}
        /\ message[q].on \cap {m} # {}
    BY <1>2, <1>16, <1>18 DEF Marked
  <2>2. m \in admissions /\ message[m].session = message[q].session
    <3>1. m \in message[q].on
      BY <2>1
    <3>2. message[m].session = message[q].session
      BY <1>16, <2>1, <3>1 DEF Marked
    <3> QED BY <2>1, <3>1, <3>2 DEF IInv, Waiters
  <2>3. Awaited
    BY <1>18 DEF OInv
  <2> SUFFICES ASSUME NEW p \in Messages, Behind(p, q)'
               PROVE  Got(p)'
    BY <1>16 DEF InTurn, Got
  <2>4. Behind(p, q)
    BY <1>11, <2>1 DEF Behind, Steady, Before
  <2>5. CASE Got(p)
    BY <2>5 DEF Got
  <2>6. CASE Starting(p) /\ message[p].session = message[q].session
    <3>1. p \in admissions
      BY <2>3, <2>6 DEF Awaited
    <3>2. p = m
      BY <2>2, <2>6, <3>1 DEF IInv, Admitting
    <3> QED BY <1>14, <3>2 DEF Got
  <2> QED BY <1>16, <2>1, <2>4, <2>5, <2>6, TakenBefore
<1>19. \A q \in others : Marked(q)'
  BY <1>3, <1>15, <1>17 DEF others
<1>20. ASSUME NEW q \in others
       PROVE \/ disowned'
             \/ /\ Starting(q)' => q \in admissions'
                /\ message'[q].kind = "queued" /\ post'[q] # "none" => InTurn(q)'
  <2>1. CASE q = m
    BY <1>9, <2>1 DEF Starting
  <2>2. CASE q \in waited
    <3>1. ~Starting(q)'
      BY <1>10, <1>16, <2>2 DEF Starting
    <3> QED BY <1>18, <2>2, <3>1
  <2> QED BY <2>1, <2>2 DEF others
<1>21. /\ UNCHANGED <<submitted, accepted>> /\ (disowned => disowned')
       /\ pending' \subseteq pending /\ \A s \in Sessions : controller'[s] \subseteq controller[s]
  BY <1>1
<1> QED BY <1>3, <1>11, <1>12, <1>19, <1>20, <1>21, Going

LEMMA ReadStartInOrder ==
  ASSUME IInv, OInv, NEW m \in Messages, ReadTurn(m), Head(wire[m]) = "start"
  PROVE  OInv'
<1>1. /\ Reads(m, "main") /\ wire[m] # <<>> /\ wire' = [wire EXCEPT ![m] = Tail(@)]
      /\ UNCHANGED <<submitted, accepted, disowned>> /\ ReadStart(m)
  BY DEF ReadTurn
<1>2. message[m].at = "posting" /\ message[m].kind = "main"
  BY <1>1, TurnPosts
<1>3. PICK a : /\ a \subseteq AdmissionsOf(message[m].session) /\ Settle(m, a)
               /\ \/ AdmissionsOf(message[m].session) = {}
                  \/ \E x \in AdmissionsOf(message[m].session) : a = {x}
  BY <1>1 DEF ReadStart, AdmittedBy
<1>4. ASSUME ~disowned PROVE a = {m}
  <2>1. wire[m] \in Seq(FrameNames)
    BY SendTyped
  <2>2. wire[m][1] = "start" /\ 1 \in 1 .. Len(wire[m])
    BY <1>1, <2>1, Tails
  <2>3. Starting(m)
    BY <1>2, <2>2 DEF OInv, Marked, Starting
  <2>4. m \in admissions
    BY <1>4, <2>3 DEF OInv, Awaited
  <2>5. \A x \in AdmissionsOf(message[m].session) : x = m
    BY <2>4 DEF AdmissionsOf, IInv, Admitting
  <2>6. m \in AdmissionsOf(message[m].session)
    BY <2>4 DEF AdmissionsOf
  <2> QED BY <1>3, <2>5, <2>6
<1> QED BY <1>1, <1>2, <1>3, <1>4, SettleInOrder

------------------------------------------------------------------------------
(* The steps that append to a queue                                          *)

LEMMA BeforeAppend ==
  ASSUME NEW S, NEW s \in Seq(S), NEW x \in S
  PROVE  /\ \A p, n : Before(s, p, n) => Before(Append(s, x), p, n)
         /\ \A p \in Range(s) : Before(Append(s, x), p, x)
         /\ \A p, n : Before(Append(s, x), p, n) => n = x \/ Before(s, p, n)
<1> DEFINE t == Append(s, x)
<1>1. /\ DOMAIN t = 1 .. Len(s) + 1 /\ DOMAIN s = 1 .. Len(s) /\ Len(s) \in Nat
      /\ \A i \in 1 .. Len(s) : t[i] = s[i]
      /\ t[Len(s) + 1] = x
  OBVIOUS
<1> HIDE DEF t
<1>2. ASSUME NEW p, NEW n, Before(s, p, n) PROVE Before(t, p, n)
  <2>1. PICK i, j \in DOMAIN s : i < j /\ s[i] = p /\ s[j] = n
    BY <1>2 DEF Before
  <2>2. i \in DOMAIN t /\ j \in DOMAIN t /\ t[i] = p /\ t[j] = n
    BY <1>1, <2>1
  <2> QED BY <2>1, <2>2 DEF Before
<1>3. ASSUME NEW p \in Range(s) PROVE Before(t, p, x)
  <2>1. PICK i \in DOMAIN s : s[i] = p
    BY <1>3 DEF Range
  <2>2. /\ i \in DOMAIN t /\ Len(s) + 1 \in DOMAIN t /\ i < Len(s) + 1
        /\ t[i] = p /\ t[Len(s) + 1] = x
    BY <1>1, <2>1
  <2> QED BY <2>2 DEF Before
<1>4. ASSUME NEW p, NEW n, Before(t, p, n), n # x PROVE Before(s, p, n)
  <2>1. PICK i, j \in DOMAIN t : i < j /\ t[i] = p /\ t[j] = n
    BY <1>4 DEF Before
  <2>2. j # Len(s) + 1
    BY <1>1, <1>4, <2>1
  <2>3. i \in DOMAIN s /\ j \in DOMAIN s
    BY <1>1, <2>1, <2>2
  <2>4. s[i] = p /\ s[j] = n
    BY <1>1, <2>1, <2>3
  <2> QED BY <2>1, <2>3, <2>4 DEF Before
<1> QED BY <1>2, <1>3, <1>4 DEF t

LEMMA PostQueuedInOrder ==
  ASSUME IInv, OInv, NEW m \in Messages, PostQueued(m)
  PROVE  OInv'
<1> DEFINE others == {m}
<1>1. /\ message[m].at = "chained" /\ ItsTurn(m)
      /\ UNCHANGED <<wire, accepted, submitted, admissions, pending, controller, disowned>>
  BY DEF PostQueued, ownVars
<1>2. /\ message[m] \in Sends /\ Marked(m) /\ message[m].kind = "queued"
      /\ message[m].session \in Sessions /\ post[m] = "none" /\ ~message[m].started
      /\ ~message[m].aborted /\ ~Got(m) /\ wire[m] = <<>>
  <2>1. message[m] \in Sends /\ Marked(m) /\ Sound(m)
    BY SendTyped DEF OInv, IInv
  <2>2. /\ message[m].kind = "queued" /\ message[m].session \in Sessions
        /\ post[m] = "none" /\ ~message[m].started /\ wire[m] = <<>>
    BY <1>1, <2>1 DEF Sound, Staged, StartFirst
  <2>3. ~message[m].aborted /\ ~Got(m)
    BY <2>1, <2>2 DEF Marked
  <2> QED BY <2>1, <2>2, <2>3
<1>3. \A q \in Messages \ {m} : message'[q] = message[q] /\ post'[q] = post[q]
  BY DEF PostQueued, IInv, SendsTyped
<1>4. /\ message'[m].kind = "queued" /\ message'[m].session = message[m].session
      /\ message'[m].end = message[m].end /\ message'[m].started = message[m].started
      /\ message'[m].aborted = message[m].aborted
      /\ \/ /\ message'[m].at = "posting" /\ AdmissionsOf(message[m].session) = {}
         \/ /\ message'[m].at = "waiting" /\ post'[m] = post[m]
            /\ \E a \in AdmissionsOf(message[m].session) : message'[m].on = {a}
  <2>1. CASE AdmissionsOf(message[m].session) = {}
    <3>1. message'[m] = [message[m] EXCEPT !.at = "posting"]
      BY <2>1 DEF PostQueued, IInv, SendsTyped
    <3> QED BY <1>2, <2>1, <3>1 DEF Sends
  <2>2. CASE AdmissionsOf(message[m].session) # {}
    <3>1. PICK a \in AdmissionsOf(message[m].session) :
            message'[m] = [message[m] EXCEPT !.at = "waiting", !.on = {a}]
      BY <2>2 DEF PostQueued, IInv, SendsTyped
    <3>2. post' = post
      BY <2>2 DEF PostQueued
    <3> QED BY <1>2, <3>1, <3>2 DEF Sends
  <2> QED BY <2>1, <2>2
<1>5. ASSUME NEW q \in Messages PROVE Steady(q)
  <2>1. CASE q = m
    BY <1>1, <1>2, <1>4, <2>1 DEF Steady
  <2>2. CASE q # m
    BY <1>3, <2>2 DEF Steady
  <2> QED BY <2>1, <2>2
<1>6. ASSUME NEW q \in Messages \ others
      PROVE  Onward(q) /\ (Starting(q)' /\ q \in admissions => q \in admissions' \/ disowned')
  <2>1. Passed(q)
    BY <1>3 DEF Passed
  <2>2. Tracked(q)
    <3>1. wire'[q] = wire[q] /\ post'[q] = post[q]
      BY <1>1, <1>3
    <3> QED BY <3>1, TrackedFrom
  <2> QED BY <1>1, <2>1, <2>2, Passes
<1>7. Marked(m)'
  <2>1. ItsTurn(m)'
    BY <1>1, <1>5, Preceding
  <2>2. ASSUME message'[m].at = "waiting"
        PROVE  \A a \in message'[m].on : message'[a].session = message'[m].session
    <3>1. PICK a \in AdmissionsOf(message[m].session) : message'[m].on = {a}
      BY <1>4, <2>2
    <3>2. a \in Messages /\ message[a].session = message[m].session
      BY DEF AdmissionsOf, IInv, SendsTyped
    <3>3. message'[a].session = message[a].session
      BY <1>5, <3>2 DEF Steady
    <3> QED BY <1>4, <3>1, <3>2, <3>3
  <2>3. ~Got(m)' /\ \A i \in 1 .. Len(wire'[m]) : FALSE
    BY <1>1, <1>2 DEF Got
  <2> QED BY <1>1, <1>2, <1>4, <2>1, <2>2, <2>3 DEF Marked
<1>8. ASSUME ~disowned, message'[m].at = "posting"
      PROVE  InTurn(m)'
  <2>1. Awaited /\ AdmissionsOf(message[m].session) = {}
    BY <1>4, <1>8 DEF OInv
  <2> SUFFICES ASSUME NEW p \in Messages, Behind(p, m)' PROVE Got(p)'
    BY <1>1, <1>2 DEF InTurn, Got
  <2>2. Behind(p, m)
    BY <1>1, <1>5 DEF Behind, Steady, Before
  <2>3. ~(Starting(p) /\ message[p].session = message[m].session)
    BY <2>1 DEF Awaited, AdmissionsOf
  <2>4. Got(p)
    BY <1>1, <1>2, <2>2, <2>3, TakenBefore
  <2> QED BY <1>1, <2>4 DEF Got
<1>9. \A q \in others : Marked(q)'
  BY <1>7
<1>10. \A q \in others :
         \/ disowned'
         \/ /\ Starting(q)' => q \in admissions'
            /\ message'[q].kind = "queued" /\ post'[q] # "none" => InTurn(q)'
  <2>1. ~Starting(m)'
    BY <1>4 DEF Starting
  <2>2. post'[m] # "none" => message'[m].at = "posting"
    BY <1>2, <1>4
  <2> QED BY <1>1, <1>8, <2>1, <2>2
<1>11. /\ UNCHANGED <<submitted, accepted>> /\ (disowned => disowned')
       /\ pending' \subseteq pending /\ \A s \in Sessions : controller'[s] \subseteq controller[s]
       /\ others \in SUBSET Messages
  BY <1>1
<1> HIDE DEF others
<1> QED BY <1>5, <1>6, <1>9, <1>10, <1>11, Going

(* The runtime gets a message: whom it is behind was there before.           *)
LEMMA OpenPostInOrder ==
  ASSUME IInv, OInv, NEW m \in Messages, OpenPost(m)
  PROVE  OInv'
<1> DEFINE begun == Written(wire, {m}, "start")
           to    == Open(message[m].session) \union {m}
<1>1. /\ post[m] = "sent" /\ post' = [post EXCEPT ![m] = "open"]
      /\ accepted' = Append(accepted, m)
      /\ wire' \in {begun, Written(begun, to, "queue")}
      /\ UNCHANGED <<message, submitted, admissions, pending, controller, disowned>>
  BY DEF OpenPost, ownVars
<1>2. /\ wire \in [Messages -> Seq(FrameNames)] /\ post \in [Messages -> Posts]
      /\ accepted \in Seq(Messages) /\ Sound(m) /\ Marked(m)
  BY DEF IInv, OInv, SendsTyped
<1>3. ~Got(m) /\ ~message[m].started /\ wire[m] = <<>>
  BY <1>1, <1>2 DEF Marked, Sound, StartFirst
<1>4. Range(accepted') = Range(accepted) \union {m}
  BY <1>1, <1>2, RangeAppend
<1>5. /\ begun \in [Messages -> Seq(FrameNames)]
      /\ \A q \in Messages \ {m} : begun[q] = wire[q]
  BY <1>2, WritingOne DEF FrameNames
<1>6. \A i \in 1 .. Len(begun[m]) : i = 1
  <2>1. begun[m] \in {<<>>, Append(<<>>, "start")}
    BY <1>3 DEF Written
  <2> HIDE DEF begun
  <2>2. CASE begun[m] = <<>>
    BY <2>2
  <2>3. CASE begun[m] = Append(<<>>, "start")
    <3>1. Len(begun[m]) = 1
      BY <2>3
    <3> QED BY <3>1
  <2> QED BY <2>1, <2>2, <2>3
<1>7. ASSUME NEW q \in Messages
      PROVE  \A i \in 1 .. Len(wire'[q]) : wire'[q][i] = "start" =>
               i \in 1 .. Len(begun[q]) /\ begun[q][i] = "start"
  <2>1. CASE wire' = begun
    BY <2>1
  <2>2. CASE wire' = Written(begun, to, "queue")
    <3> DEFINE f == "queue"
    <3>1. f \in FrameNames \ {"start"}
      BY DEF FrameNames
    <3> HIDE DEF begun, to, f
    <3>2. \A i \in 1 .. Len(Written(begun, to, f)[q]) :
            Written(begun, to, f)[q][i] = "start"
              => i \in 1 .. Len(begun[q]) /\ begun[q][i] = "start"
      BY <1>5, <3>1, WrittenStarts
    <3>3. wire' = Written(begun, to, f)
      BY <2>2 DEF f
    <3> QED BY <3>2, <3>3
  <2> QED BY <1>1, <2>1, <2>2
<1> HIDE DEF begun, to
<1>8. ASSUME NEW q \in Messages
      PROVE  \A i \in 1 .. Len(wire'[q]) :
               wire'[q][i] = "start" => i = 1 /\ ~message'[q].started
  <2>1. CASE q = m
    BY <1>1, <1>3, <1>6, <1>7, <2>1
  <2>2. CASE q # m
    <3>1. \A i \in 1 .. Len(wire[q]) : wire[q][i] = "start" => i = 1 /\ ~message[q].started
      BY Wires
    <3> QED BY <1>1, <1>5, <1>7, <2>2, <3>1
  <2> QED BY <2>1, <2>2
<1>9. ASSUME NEW q \in Messages PROVE Marked(q)'
  <2>1. Marked(q) /\ (Got(q) => Got(q)') /\ (Got(q)' => Got(q) \/ q = m)
    BY <1>4 DEF OInv, Got
  <2>2. Got(q)' => post'[q] \in {"open", "closed"}
    BY <1>1, <1>2, <2>1 DEF Marked
  <2>3. ItsTurn(q) => ItsTurn(q)'
    BY <1>1 DEF ItsTurn
  <2> QED BY <1>1, <1>8, <2>1, <2>2, <2>3 DEF Marked
<1>10. Stoppable'
  BY <1>1 DEF OInv, Stoppable
<1>11. ASSUME ~disowned'
       PROVE  Awaited' /\ Ordered'
  <2>1. Awaited /\ Ordered
    BY <1>1, <1>11 DEF OInv
  <2>2. Awaited'
    BY <1>1, <2>1 DEF Awaited, Starting
  <2>3. ASSUME NEW n \in Messages, message'[n].kind = "queued", post'[n] # "none"
        PROVE  InTurn(n)'
    <3>1. InTurn(n)
      <4>1. message[n].kind = "queued" /\ post[n] # "none"
        BY <1>1, <1>2, <2>3
      <4> QED BY <2>1, <4>1 DEF Ordered
    <3> SUFFICES ASSUME NEW p \in Messages, Behind(p, n)'
                 PROVE  Got(p)' /\ (Got(n)' => Before(accepted, p, n)')
      BY DEF InTurn
    <3>2. Got(p) /\ (Got(n) => Before(accepted, p, n))
      <4>1. Behind(p, n)
        BY <1>1 DEF Behind
      <4> QED BY <3>1, <4>1 DEF InTurn
    <3>3. Got(p)'
      BY <1>4, <3>2 DEF Got
    <3>4. CASE n = m
      <4>1. Before(Append(accepted, m), p, m)
        BY <1>2, <3>2, BeforeAppend DEF Got
      <4> QED BY <1>1, <3>3, <3>4, <4>1
    <3>5. CASE n # m
      <4>1. Got(n)' => Before(accepted, p, n)
        BY <1>4, <3>2, <3>5 DEF Got
      <4>2. Before(accepted, p, n) => Before(Append(accepted, m), p, n)
        BY <1>2, BeforeAppend
      <4> QED BY <1>1, <3>3, <4>1, <4>2
    <3> QED BY <3>4, <3>5
  <2> QED BY <2>2, <2>3 DEF Ordered
<1> QED BY <1>9, <1>10, <1>11 DEF OInv

------------------------------------------------------------------------------
(* Sending, and the session that sends may wait for                          *)

LEMMA SubmitMoves ==
  ASSUME IInv, OInv, NEW m \in Messages, Submit(m)
  PROVE  /\ \A q \in Messages \ {m} : message'[q] = message[q] /\ post'[q] = post[q]
         /\ message'[m].at \in {"creating", "chained", "posting"}
         /\ message'[m].aborted = message[m].aborted /\ message'[m].started = message[m].started
         /\ \/ /\ message'[m].kind = "main" /\ post'[m] \in {post[m], "sent"}
               /\ admissions' = admissions \union {m} /\ pending' = {m}
               /\ \A s \in Sessions : controller'[s] \in {controller[s], {m}}
            \/ /\ message'[m].kind = "queued" /\ post'[m] = post[m]
               /\ UNCHANGED <<admissions, pending, controller>>
<1>1. /\ message[m] \in Sends /\ message \in [Messages -> Sends] /\ post \in [Messages -> Posts]
      /\ controller \in [Sessions -> SUBSET Messages]
  BY SendTyped DEF IInv, SendsTyped, Controlled
<1>2. CASE ~Queues /\ shown = NoSession
  <2>1. /\ message' = [message EXCEPT ![m].at = "creating", ![m].kind = "main"]
        /\ admissions' = admissions \union {m} /\ pending' = {m} /\ UNCHANGED <<controller, post>>
    BY <1>2 DEF Submit, StartTurn
  <2> QED BY <1>1, <2>1 DEF Sends
<1>3. CASE ~Queues /\ shown # NoSession
  <2>1. /\ message' = [message EXCEPT ![m].at = "posting", ![m].kind = "main",
                                      ![m].session = shown]
        /\ admissions' = admissions \union {m} /\ pending' = {m}
        /\ controller' = [controller EXCEPT ![shown] = {m}]
        /\ post' = [post EXCEPT ![m] = "sent"]
    BY <1>3 DEF Submit, StartTurn
  <2>2. \A s \in Sessions : controller'[s] \in {controller[s], {m}}
    BY <1>1, <2>1
  <2>3. \A q \in Messages \ {m} : message'[q] = message[q] /\ post'[q] = post[q]
    BY <1>1, <2>1
  <2>4. post'[m] = "sent"
    BY <1>1, <2>1
  <2>5. /\ message'[m].at = "posting" /\ message'[m].kind = "main"
        /\ message'[m].aborted = message[m].aborted /\ message'[m].started = message[m].started
    BY <1>1, <2>1 DEF Sends
  <2> QED BY <2>1, <2>2, <2>3, <2>4, <2>5
<1>4. CASE Queues /\ shown = NoSession
  <2>1. /\ message' = [message EXCEPT ![m].at = "creating", ![m].kind = "queued"]
        /\ UNCHANGED <<admissions, pending, controller, post>>
    BY <1>4 DEF Submit, Enqueue
  <2> QED BY <1>1, <2>1 DEF Sends
<1>5. CASE Queues /\ shown # NoSession
  <2>1. /\ message' = [message EXCEPT ![m].at = "chained", ![m].kind = "queued",
                                      ![m].session = shown]
        /\ UNCHANGED <<admissions, pending, controller, post>>
    BY <1>5 DEF Submit, Enqueue
  <2> QED BY <1>1, <2>1 DEF Sends
<1> QED BY <1>2, <1>3, <1>4, <1>5

LEMMA SubmitInOrder ==
  ASSUME IInv, OInv, NEW m \in Messages, Submit(m)
  PROVE  OInv'
<1>1. /\ message[m].at = "unsent" /\ submitted' = Append(submitted, m)
      /\ UNCHANGED <<wire, accepted, disowned>>
  BY DEF Submit
<1>2. /\ \A q \in Messages \ {m} : message'[q] = message[q] /\ post'[q] = post[q]
      /\ message'[m].at \in {"creating", "chained", "posting"}
      /\ message'[m].aborted = message[m].aborted /\ message'[m].started = message[m].started
      /\ \/ /\ message'[m].kind = "main" /\ post'[m] \in {post[m], "sent"}
            /\ admissions' = admissions \union {m} /\ pending' = {m}
            /\ \A s \in Sessions : controller'[s] \in {controller[s], {m}}
         \/ /\ message'[m].kind = "queued" /\ post'[m] = post[m]
            /\ UNCHANGED <<admissions, pending, controller>>
  BY SubmitMoves
<1>3. /\ message[m].kind = "none" /\ m \notin Range(submitted) /\ ~message[m].aborted
      /\ ~message[m].started /\ post[m] = "none" /\ wire[m] = <<>> /\ ~Got(m)
  <2>1. Marked(m) /\ Sound(m)
    BY DEF OInv, IInv
  <2> QED BY <1>1, <2>1 DEF Marked, Sound, Staged, StartFirst
<1>4. /\ submitted \in Seq(Messages) /\ admissions \subseteq Messages
      /\ Range(submitted') = Range(submitted) \union {m}
  <2>1. submitted \in Seq(Messages) /\ admissions \subseteq Messages
    BY DEF IInv, SendsTyped
  <2> QED BY <1>1, <2>1, RangeAppend
<1>5. /\ \A p, n : Before(submitted, p, n) => Before(submitted', p, n)
      /\ \A p, n : Before(submitted', p, n) => n = m \/ Before(submitted, p, n)
  BY <1>1, <1>4, BeforeAppend
<1>6. \A p, n : Before(submitted, p, n) => p \in Range(submitted)
  BY DEF Before, Range
<1>7. ASSUME NEW q \in Messages, q # m, ItsTurn(q) PROVE ItsTurn(q)'
  <2> SUFFICES ASSUME NEW i \in DOMAIN submitted', NEW j \in DOMAIN submitted',
                      i < j, submitted'[j] = q, message'[submitted'[i]].kind = "queued"
               PROVE  message'[submitted'[i]].at \in {"admitted", "over"}
    BY DEF ItsTurn
  <2>1. /\ DOMAIN submitted' = 1 .. Len(submitted) + 1 /\ DOMAIN submitted = 1 .. Len(submitted)
        /\ Len(submitted) \in Nat
        /\ \A k \in 1 .. Len(submitted) : submitted'[k] = submitted[k]
        /\ submitted'[Len(submitted) + 1] = m
    BY <1>1, <1>4
  <2>2. j # Len(submitted) + 1
    BY <1>7, <2>1
  <2>3. i \in DOMAIN submitted /\ j \in DOMAIN submitted
    BY <2>1, <2>2
  <2>4. submitted'[i] = submitted[i] /\ submitted[j] = q
    BY <2>1, <2>3
  <2>5. submitted[i] \in Messages /\ submitted[i] # m
    BY <1>3, <1>4, <2>3 DEF Range
  <2>6. message'[submitted[i]] = message[submitted[i]]
    BY <1>2, <2>5
  <2> QED BY <1>7, <2>3, <2>4, <2>6 DEF ItsTurn
<1>8. ASSUME NEW q \in Messages, q # m PROVE Marked(q)'
  <2>1. Marked(q) /\ message'[q] = message[q] /\ post'[q] = post[q] /\ (Got(q)' <=> Got(q))
    BY <1>1, <1>2, <1>8 DEF OInv, Got
  <2>2. ASSUME message[q].at = "waiting", NEW a \in message[q].on
        PROVE  message'[a].session = message[q].session
    <3>1. a \in admissions /\ message[a].at = "posting"
      BY <2>2 DEF IInv, Waiters
    <3>2. a \in Messages \ {m}
      BY <1>1, <1>4, <3>1
    <3> QED BY <1>2, <2>1, <2>2, <3>2 DEF Marked
  <2>3. message'[q].at = "waiting" =>
          ItsTurn(q)' /\ \A a \in message'[q].on : message'[a].session = message'[q].session
    BY <1>7, <1>8, <2>1, <2>2 DEF Marked
  <2>4. message'[q].at = "unsent" => q \notin Range(submitted')
    BY <1>4, <1>8, <2>1 DEF Marked
  <2>5. \A i \in 1 .. Len(wire'[q]) : wire'[q][i] = "start" => i = 1 /\ ~message'[q].started
    BY <1>1, <2>1, Wires
  <2> QED BY <2>1, <2>3, <2>4, <2>5 DEF Marked
<1>9. Marked(m)'
  <2>1. ~Got(m)' /\ (\A i \in 1 .. Len(wire'[m]) : FALSE)
    BY <1>1, <1>3 DEF Got
  <2> QED BY <1>2, <1>3, <2>1 DEF Marked
<1>10. Stoppable'
  <2>1. /\ \A q \in pending : q \in Messages \ {m} /\ message[q].kind = "main"
        /\ \A s \in Sessions : \A q \in controller[s] : q \in Messages \ {m} /\ message[q].kind = "main"
    BY <1>3 DEF OInv, Stoppable, IInv, Controlled
  <2>2. CASE /\ message'[m].kind = "main" /\ pending' = {m}
             /\ \A s \in Sessions : controller'[s] \in {controller[s], {m}}
    BY <1>2, <2>1, <2>2 DEF Stoppable
  <2>3. CASE UNCHANGED <<pending, controller>>
    BY <1>2, <2>1, <2>3 DEF Stoppable
  <2> QED BY <1>2, <2>2, <2>3
<1>11. ASSUME ~disowned'
       PROVE  Awaited' /\ Ordered'
  <2>1. Awaited /\ Ordered
    BY <1>1, <1>11 DEF OInv
  <2>2. ASSUME NEW q \in Messages, Starting(q)' PROVE q \in admissions'
    <3>1. CASE q = m
      BY <1>2, <2>2, <3>1 DEF Starting
    <3>2. CASE q # m
      <4>1. Starting(q)
        BY <1>2, <2>2, <3>2 DEF Starting
      <4> QED BY <1>2, <2>1, <4>1 DEF Awaited
    <3> QED BY <3>1, <3>2
  <2>3. ASSUME NEW n \in Messages, message'[n].kind = "queued", post'[n] # "none"
        PROVE  InTurn(n)'
    <3>1. n # m
      BY <1>2, <1>3, <2>3
    <3>2. InTurn(n)
      BY <1>2, <2>1, <2>3, <3>1 DEF Ordered
    <3> SUFFICES ASSUME NEW p \in Messages, Behind(p, n)'
                 PROVE  Got(p)' /\ (Got(n)' => Before(accepted, p, n)')
      BY DEF InTurn
    <3>3. Before(submitted, p, n) /\ p # m
      BY <1>3, <1>5, <1>6, <3>1 DEF Behind
    <3>4. Behind(p, n)
      BY <1>2, <3>1, <3>3 DEF Behind
    <3>5. Got(p) /\ (Got(n) => Before(accepted, p, n))
      BY <3>2, <3>4 DEF InTurn
    <3> QED BY <1>1, <3>5 DEF Got
  <2> QED BY <2>2, <2>3 DEF Awaited, Ordered
<1> QED BY <1>8, <1>9, <1>10, <1>11 DEF OInv

LEMMA SessionCreatedInOrder ==
  ASSUME IInv, OInv, SessionCreated
  PROVE  OInv'
<1> DEFINE A == Asking("main")
           B == Asking("queued")
           C == StoppedAsking
<1>1. PICK s \in Sessions \ known :
        /\ message' = [m \in Messages |->
             CASE m \in A -> [message[m] EXCEPT !.at = "posting", !.session = s]
               [] m \in B -> [message[m] EXCEPT !.at = "chained", !.session = s]
               [] m \in C -> Over(m, "stopped")
               [] OTHER   -> message[m]]
        /\ controller' = [controller EXCEPT ![s] = AskingLast]
  BY DEF SessionCreated
<1>2. /\ post' = [m \in Messages |-> IF m \in A THEN "sent" ELSE post[m]]
      /\ admissions' = admissions \ C /\ pending' = pending \ C
      /\ UNCHANGED <<wire, accepted, submitted, disowned>>
  BY DEF SessionCreated
<1>3. Range(asking) \subseteq Messages
  BY RangeIn DEF IInv, SendsTyped
<1>4. \A q \in Range(asking) :
        /\ q \in Messages /\ Sound(q) /\ Marked(q) /\ message[q] \in Sends
        /\ message[q].at = "creating" /\ message[q].session = NoSession
        /\ message[q].kind \in {"main", "queued"}
        /\ post[q] = "none" /\ wire[q] = <<>> /\ ~message[q].started /\ ~Got(q)
  BY <1>3, SendTyped DEF IInv, OInv, Sound, Staged, StartFirst, Marked
<1>5. /\ \A q \in A : q \in Range(asking) /\ message[q].kind = "main" /\ ~message[q].aborted
                      /\ q \notin B /\ q \notin C
      /\ \A q \in B : q \in Range(asking) /\ message[q].kind = "queued" /\ ~message[q].aborted
                      /\ q \notin A /\ q \notin C
      /\ \A q \in C : q \in Range(asking) /\ q \notin A /\ q \notin B
      /\ \A q \in Range(asking) : q \in A \/ q \in B \/ q \in C
  BY <1>4 DEF Asking, StoppedAsking
<1>6. /\ s \in Sessions /\ s \notin known /\ s # NoSession
      /\ \A q \in Messages : message[q].session \in known \union {NoSession}
  BY TurnAssumption DEF IInv, SessionsKnown
<1>7. AskingLast \subseteq A
  BY DEF AskingLast
<1> HIDE DEF A, B, C
<1>8. ASSUME NEW q \in A
      PROVE  /\ message'[q].at = "posting" /\ message'[q].session = s
             /\ message'[q].kind = "main" /\ message'[q].started = message[q].started
             /\ message'[q].aborted = message[q].aborted /\ post'[q] = "sent"
  <2>1. q \in Messages /\ message[q] \in Sends
    BY <1>4, <1>5
  <2>2. message'[q] = [message[q] EXCEPT !.at = "posting", !.session = s]
    BY <1>1, <1>5, <2>1
  <2>3. post'[q] = "sent"
    BY <1>2, <2>1
  <2> QED BY <1>5, <2>1, <2>2, <2>3 DEF Sends
<1>9. ASSUME NEW q \in B
      PROVE  /\ message'[q].at = "chained" /\ message'[q].session = s
             /\ message'[q].kind = "queued" /\ message'[q].started = message[q].started
             /\ message'[q].aborted = message[q].aborted /\ post'[q] = "none"
  <2>1. q \in Messages /\ message[q] \in Sends /\ post[q] = "none"
    BY <1>4, <1>5
  <2>2. message'[q] = [message[q] EXCEPT !.at = "chained", !.session = s]
    BY <1>1, <1>5, <2>1
  <2>3. post'[q] = "none"
    BY <1>2, <1>5, <2>1
  <2> QED BY <1>5, <2>1, <2>2, <2>3 DEF Sends
<1>10. ASSUME NEW q \in C
       PROVE  /\ message'[q].at = "over" /\ message'[q].kind = message[q].kind
              /\ message'[q].end = "stopped" /\ ~message'[q].started
              /\ ~message'[q].aborted /\ post'[q] = "none"
  <2>1. q \in Messages /\ post[q] = "none"
    BY <1>4, <1>5
  <2>2. message'[q] = Over(q, "stopped")
    BY <1>1, <1>5, <2>1
  <2>3. post'[q] = "none"
    BY <1>2, <1>5, <2>1
  <2> QED BY <2>2, <2>3 DEF Over, Unsent
<1>11. ASSUME NEW q \in Messages \ Range(asking)
       PROVE  message'[q] = message[q] /\ post'[q] = post[q]
  <2>1. q \notin A /\ q \notin B /\ q \notin C
    BY <1>5
  <2> QED BY <1>1, <1>2, <2>1
<1>12. ASSUME NEW q \in Messages, q \in Range(asking) PROVE Marked(q)'
  <2>1. ~Got(q)' /\ (\A i \in 1 .. Len(wire'[q]) : FALSE)
    BY <1>2, <1>4, <1>12 DEF Got
  <2>2. CASE q \in A
    BY <1>4, <1>5, <1>8, <1>12, <2>1, <2>2 DEF Marked
  <2>3. CASE q \in B
    BY <1>4, <1>5, <1>9, <1>12, <2>1, <2>3 DEF Marked
  <2>4. CASE q \in C
    BY <1>4, <1>5, <1>10, <1>12, <2>1, <2>4 DEF Marked
  <2> QED BY <1>5, <1>12, <2>2, <2>3, <2>4
<1>13. ASSUME NEW q \in Messages, q \notin Range(asking) PROVE Marked(q)'
  <2>1. Marked(q) /\ message'[q] = message[q] /\ post'[q] = post[q] /\ (Got(q)' <=> Got(q))
    BY <1>2, <1>11, <1>13 DEF OInv, Got
  <2>2. ASSUME message[q].at = "waiting", NEW a \in message[q].on
        PROVE  message'[a].session = message[q].session
    <3>1. a \in admissions /\ message[a].at = "posting"
      BY <2>2 DEF IInv, Waiters
    <3>2. a \in Messages \ Range(asking)
      BY <1>4, <3>1 DEF IInv, SendsTyped
    <3>3. message'[a] = message[a]
      BY <1>11, <3>2
    <3> QED BY <2>1, <2>2, <3>3 DEF Marked
  <2>3. ASSUME ItsTurn(q) PROVE ItsTurn(q)'
    <3> SUFFICES ASSUME NEW i \in DOMAIN submitted, NEW j \in DOMAIN submitted,
                        i < j, submitted[j] = q, message'[submitted[i]].kind = "queued"
                 PROVE  message'[submitted[i]].at \in {"admitted", "over"}
      BY <1>2 DEF ItsTurn
    <3>1. submitted[i] \in Messages
      BY DEF IInv, SendsTyped
    <3>2. CASE submitted[i] \in Range(asking)
      <4>1. message[submitted[i]].at = "creating"
        BY <1>4, <3>2
      <4>2. message[submitted[i]].kind = "queued"
        BY <1>5, <1>8, <1>9, <1>10, <3>2
      <4> QED BY <2>3, <4>1, <4>2 DEF ItsTurn
    <3>3. CASE submitted[i] \notin Range(asking)
      <4>1. message'[submitted[i]] = message[submitted[i]]
        BY <1>11, <3>1, <3>3
      <4> QED BY <2>3, <4>1 DEF ItsTurn
    <3> QED BY <3>2, <3>3
  <2>4. message'[q].at = "waiting" =>
          ItsTurn(q)' /\ \A a \in message'[q].on : message'[a].session = message'[q].session
    BY <2>1, <2>2, <2>3 DEF Marked
  <2>5. \A i \in 1 .. Len(wire'[q]) : wire'[q][i] = "start" => i = 1 /\ ~message'[q].started
    BY <1>2, <2>1, Wires
  <2> QED BY <1>2, <2>1, <2>4, <2>5 DEF Marked
<1>14. Stoppable'
  <2>1. ASSUME NEW q \in Messages, message[q].kind = "main" PROVE message'[q].kind = "main"
    <3>1. CASE q \in Range(asking)
      BY <1>5, <1>8, <1>10, <2>1, <3>1
    <3>2. CASE q \notin Range(asking)
      BY <1>11, <2>1, <3>2
    <3> QED BY <3>1, <3>2
  <2>2. /\ \A q \in pending : q \in Messages /\ message[q].kind = "main"
        /\ \A t \in Sessions : \A q \in controller[t] : q \in Messages /\ message[q].kind = "main"
    BY DEF OInv, Stoppable, IInv, Controlled
  <2>3. \A t \in Sessions : controller'[t] = controller[t] \/ controller'[t] \subseteq A
    BY <1>1, <1>7 DEF IInv, Controlled
  <2> QED BY <1>2, <1>8, <2>1, <2>2, <2>3 DEF Stoppable
<1>15. ASSUME ~disowned'
       PROVE  Awaited' /\ Ordered'
  <2>1. Awaited /\ Ordered
    BY <1>2, <1>15 DEF OInv
  <2>2. ASSUME NEW q \in Messages, Starting(q)' PROVE q \in admissions'
    <3>1. CASE q \in Range(asking)
      <4>1. q \in A
        BY <1>5, <1>9, <1>10, <2>2, <3>1 DEF Starting
      <4>2. Starting(q)
        BY <1>4, <1>5, <4>1 DEF Starting
      <4> QED BY <1>2, <1>5, <2>1, <4>1, <4>2 DEF Awaited
    <3>2. CASE q \notin Range(asking)
      <4>1. Starting(q)
        BY <1>11, <2>2, <3>2 DEF Starting
      <4> QED BY <1>2, <1>5, <2>1, <3>2, <4>1 DEF Awaited
    <3> QED BY <3>1, <3>2
  <2>3. ASSUME NEW n \in Messages, message'[n].kind = "queued", post'[n] # "none"
        PROVE  InTurn(n)'
    <3>1. n \notin Range(asking)
      BY <1>5, <1>8, <1>9, <1>10, <2>3
    <3>2. message'[n] = message[n] /\ post'[n] = post[n]
      BY <1>11, <3>1
    <3>3. InTurn(n)
      BY <2>1, <2>3, <3>2 DEF Ordered
    <3> SUFFICES ASSUME NEW p \in Messages, Behind(p, n)'
                 PROVE  Got(p)' /\ (Got(n)' => Before(accepted, p, n)')
      BY DEF InTurn
    <3>4. p \notin Range(asking)
      <4>1. message'[p].session = message[n].session /\ message'[p].end # "stopped"
        BY <3>2 DEF Behind
      <4>2. message[n].session # s
        BY <1>6
      <4> QED BY <1>5, <1>8, <1>9, <1>10, <4>1, <4>2
    <3>5. Behind(p, n)
      <4>1. message'[p] = message[p]
        BY <1>11, <3>4
      <4> QED BY <1>2, <3>2, <4>1 DEF Behind
    <3>6. Got(p) /\ (Got(n) => Before(accepted, p, n))
      BY <3>3, <3>5 DEF InTurn
    <3> QED BY <1>2, <3>6 DEF Got
  <2> QED BY <2>2, <2>3 DEF Awaited, Ordered
<1> QED BY <1>12, <1>13, <1>14, <1>15 DEF OInv

------------------------------------------------------------------------------

LEMMA InitiallyInOrder ==
  ASSUME TurnInit
  PROVE  OInv
<1>1. Range(<<>>) = {}
  BY DEF Range
<1>2. ASSUME NEW m \in Messages
      PROVE  /\ message[m].at = "unsent" /\ message[m].kind = "none" /\ ~message[m].aborted
             /\ ~message[m].started /\ wire[m] = <<>> /\ post[m] = "none"
             /\ m \notin Range(submitted) /\ m \notin Range(accepted)
  BY <1>1 DEF TurnInit, Unsent
<1>3. \A m \in Messages : Marked(m)
  BY <1>2 DEF Marked, Got
<1>4. Stoppable
  BY DEF TurnInit, Stoppable
<1>5. Awaited /\ Ordered
  BY <1>2 DEF Awaited, Ordered, Starting
<1> QED BY <1>3, <1>4, <1>5 DEF OInv

LEMMA InductiveInOrder ==
  ASSUME IInv, OInv, [TurnNext]_turnVars
  PROVE  OInv'
<1>1. ASSUME NEW m \in Messages, Submit(m) PROVE OInv'
  BY <1>1, SubmitInOrder
<1>2. ASSUME NEW m \in Messages, PostQueued(m) PROVE OInv'
  BY <1>2, PostQueuedInOrder
<1>3. ASSUME NEW m \in Messages, OpenPost(m) PROVE OInv'
  BY <1>3, OpenPostInOrder
<1>4. ASSUME NEW m \in Messages, Refuse(m) PROVE OInv'
  BY <1>4, RefuseInOrder
<1>5. ASSUME NEW m \in Messages, PromptFails(m) PROVE OInv'
  BY <1>5, PromptFailsInOrder
<1>6. ASSUME NEW m \in Messages, ReadTurn(m) PROVE OInv'
  BY <1>6, ReadTurnInOrder, ReadStartInOrder
<1>7. ASSUME NEW m \in Messages, ReadQueued(m) PROVE OInv'
  BY <1>7, ReadQueuedInOrder
<1>8. ASSUME NEW m \in Messages, Break(m) PROVE OInv'
  BY <1>8, BreakInOrder
<1>9. ASSUME NEW m \in Messages, Reconcile(m) PROVE OInv'
  BY <1>9, ReconcileInOrder
<1>10. ASSUME NEW m \in Messages, Invalid(m) PROVE OInv'
  BY <1>10, InvalidInOrder
<1>11. ASSUME NEW m \in Messages, Poll(m) PROVE OInv'
  BY <1>11, PollInOrder
<1>12. ASSUME NEW m \in Messages, Abandon(m) PROVE OInv'
  BY <1>12, AbandonInOrder
<1>13. CASE SessionCreated
  BY <1>13, SessionCreatedInOrder
<1>14. CASE CreationFails
  BY <1>14, CreationFailsInOrder
<1>15. ASSUME NEW s \in Sessions, AgentEnds(s) PROVE OInv'
  BY <1>15, AgentEndsInOrder
<1>16. CASE Stop
  BY <1>16, StopInOrder
<1>17. CASE Navigate \/ Arrive \/ UNCHANGED turnVars
  BY <1>17, NavigateInOrder
<1> QED BY <1>1, <1>2, <1>3, <1>4, <1>5, <1>6, <1>7, <1>8, <1>9, <1>10, <1>11, <1>12, <1>13,
           <1>14, <1>15, <1>16, <1>17 DEF TurnNext

(* A queued message reaches the runtime after every message of its session   *)
(* that was sent before it and that did not fail and was not stopped, as     *)
(* long as stop has not dropped the admission of a turn that went on         *)
(* (enqueueDuringStream, sendMessage, stop, handleChatPost).                 *)
THEOREM QueuedWaitTheirTurn == TurnSpec => []QueuedInOrder
<1>1. IInv /\ OInv => QueuedInOrder
  <2> SUFFICES ASSUME IInv, OInv, ~disowned, NEW m \in Range(accepted), NEW n \in Range(accepted),
                      message[n].kind = "queued", Behind(m, n)
               PROVE  Before(accepted, m, n)
    BY DEF QueuedInOrder, Behind
  <2>1. m \in Messages /\ n \in Messages
    BY RangeIn DEF IInv, SendsTyped
  <2>2. Got(n) /\ post[n] # "none"
    <3>1. Got(n) /\ Marked(n)
      BY <2>1 DEF Got, OInv
    <3> QED BY <3>1 DEF Marked
  <2>3. InTurn(n)
    BY <2>1, <2>2 DEF OInv, Ordered
  <2> QED BY <2>1, <2>2, <2>3 DEF InTurn
<1>2. TurnInit => OInv
  BY InitiallyInOrder
<1>3. IInv /\ OInv /\ [TurnNext]_turnVars => OInv'
  BY InductiveInOrder
<1>4. TurnSpec => []IInv
  BY Invariant
<1> QED BY <1>1, <1>2, <1>3, <1>4, PTL DEF TurnSpec

------------------------------------------------------------------------------
(* WorkerSwap: the inductive invariant                                       *)

Paths   == {"none", "behind", "direct", "before", "joined"}
Working == {"waiting", "idle", "disposed", "killed"}

PromptRecord ==
  [at : {"unsent", "transition", "sent", "answered", "over"}, wants : States,
   path : Paths, under : States \union {"none"}]

TransitionRecord == [prompt : Prompts, started : BOOLEAN]

OperationRecord ==
  [kind : {"reconfigure", "fork"}, to : States, at : {"queued"} \union Working]

WorkerRecord ==
  [alive : BOOLEAN, prompt : States, turn : SUBSET Prompts, run : {"none", "turn", "pause"}]

PromptsTyped == prompt \in [Prompts -> PromptRecord]

ChainsTyped ==
  /\ transitions \in Seq(TransitionRecord) /\ operations \in Seq(OperationRecord)
  /\ awaited \in Nat /\ awaited <= Len(transitions)

WorkerTyped == worker \in WorkerRecord

RestTyped ==
  /\ openUI \in States /\ wrapperPrompt \in States
  /\ isStreaming \in BOOLEAN /\ connected \in BOOLEAN /\ subscribed \in BOOLEAN
  /\ disposed \in BOOLEAN /\ loose \in BOOLEAN /\ forkAsked \in BOOLEAN
  /\ deletion \in {"no", "awaiting", "terminated", "failing", "gone"}
  /\ forks \in Nat /\ swapFaults \in Nat

Types == PromptsTyped /\ ChainsTyped /\ WorkerTyped /\ RestTyped

(* Only the first transition has begun, and then it is the reconfiguration   *)
(* in the wrapper's chain; only the first operation there has begun.         *)
Chains ==
  /\ \A i \in 1 .. Len(transitions) :
       /\ prompt[transitions[i].prompt].at = "transition"
       /\ i # 1 => ~transitions[i].started
       /\ \A j \in 1 .. Len(transitions) :
            transitions[i].prompt = transitions[j].prompt => i = j
  /\ \A i \in 1 .. Len(operations) :
       /\ i # 1 => operations[i].at = "queued"
       /\ operations[i].kind = "reconfigure" =>
            /\ transitions # <<>> /\ Head(transitions).started
            /\ operations[i].to = prompt[Head(transitions).prompt].wants
       /\ \A j \in 1 .. Len(operations) :
            operations[i].kind = "reconfigure" /\ operations[j].kind = "reconfigure" => i = j

HeadAt(stages) == operations # <<>> /\ Head(operations).at \in stages

(* The worker at hand was made for the prompt text the bridge knows.         *)
Committed ==
  /\ wrapperPrompt = openUI
  /\ worker.alive => worker.prompt = openUI
  /\ \A p \in Prompts : prompt[p].at = "unsent" => prompt[p].under = "none"
  /\ PromptRunsAsAsked

(* How far an operation got says whether there is a connection and a worker. *)
SwapStages ==
  /\ worker.turn = {} => worker.run = "none"
  /\ ~worker.alive => worker.turn = {}
  /\ HeadAt({"killed"}) => ~worker.alive
  /\ HeadAt({"disposed", "killed"}) => ~connected
  /\ HeadAt({"waiting", "idle"}) => connected

(* The listeners are off only while a fork waits or the connection is gone.  *)
Listeners ==
  deletion = "no" /\ connected =>
    subscribed \/ (HeadAt({"waiting", "idle"}) /\ Head(operations).kind = "fork")

(* While nothing is sent beside a fork or a deletion, no swap meets a turn   *)
(* and the bridge knows of every turn.                                       *)
Undisturbed ==
  during = {} =>
    /\ HeadAt({"idle", "disposed", "killed"}) => worker.turn = {}
    /\ killed = {}
    /\ Forking => /\ worker.turn = {}
                  /\ \A p \in Prompts :
                       ~ (prompt[p].at = "transition" /\ prompt[p].path = "behind")
    /\ deletion = "no" => /\ isStreaming = (worker.run = "turn")
                          /\ ~subscribed => worker.turn = {}

(* What a deletion waits for is all there is.                                *)
Awaits ==
  deletion # "no" /\ ~loose =>
    /\ Len(transitions) = awaited /\ ~Forking
    /\ \A p \in Prompts : ~ (prompt[p].path = "before" /\ prompt[p].at \in {"sent", "answered"})
    /\ deletion # "awaiting" => awaited = 0 /\ (swapFaults = 0 => ~worker.alive)

Ending ==
  /\ disposed => deletion \notin {"no", "awaiting"}
  /\ deletion = "gone" => disposed /\ ~connected /\ ~HeadAt(Working)
  /\ swapFaults = 0 /\ deletion \in {"no", "awaiting"} =>
       /\ ~HeadAt({"disposed", "killed"}) => connected
       /\ ~HeadAt({"killed"}) => worker.alive

SwapIInv ==
  /\ Types /\ Chains
  /\ Committed /\ SwapStages /\ Listeners /\ Undisturbed /\ Awaits /\ Ending

------------------------------------------------------------------------------
(* The chains                                                                *)

LEMMA TailOf ==
  ASSUME NEW S, NEW s \in Seq(S), s # <<>>
  PROVE  /\ Head(s) \in S /\ Head(s) = s[1] /\ Tail(s) \in Seq(S)
         /\ Len(s) \in Nat \ {0} /\ Len(Tail(s)) = Len(s) - 1
         /\ \A i \in 1 .. Len(Tail(s)) :
              Tail(s)[i] = s[i + 1] /\ i + 1 \in 1 .. Len(s) /\ i + 1 # 1
         /\ Tail(s) # <<>> => Head(Tail(s)) = s[2] /\ 2 \in 1 .. Len(s)
OBVIOUS

LEMMA AppendOf ==
  ASSUME NEW S, NEW s \in Seq(S), NEW x \in S
  PROVE  /\ Append(s, x) \in Seq(S) /\ Len(s) \in Nat /\ Len(Append(s, x)) = Len(s) + 1
         /\ \A i \in 1 .. Len(s) : Append(s, x)[i] = s[i]
         /\ Append(s, x)[Len(s) + 1] = x
         /\ Append(s, x) # <<>>
         /\ s # <<>> => Head(Append(s, x)) = Head(s)
         /\ s = <<>> => Head(Append(s, x)) = x
<1> DEFINE t == Append(s, x)
<1>1. t \in Seq(S) /\ Len(s) \in Nat /\ Len(t) = Len(s) + 1
  OBVIOUS
<1>2. (\A i \in 1 .. Len(s) : t[i] = s[i]) /\ t[Len(s) + 1] = x
  OBVIOUS
<1> HIDE DEF t
<1>3. t # <<>> /\ Head(t) = t[1]
  BY <1>1
<1>4. s # <<>> => Head(s) = s[1] /\ 1 \in 1 .. Len(s)
  OBVIOUS
<1>5. s = <<>> => Len(s) = 0
  OBVIOUS
<1> QED BY <1>1, <1>2, <1>3, <1>4, <1>5 DEF t

LEMMA FirstChanged ==
  ASSUME NEW S, NEW s \in Seq(S), s # <<>>, NEW x \in S
  PROVE  LET t == [s EXCEPT ![1] = x]
         IN  /\ t \in Seq(S) /\ Len(t) = Len(s) /\ t # <<>> /\ Head(t) = x /\ t[1] = x
             /\ \A i \in 1 .. Len(s) : i # 1 => t[i] = s[i]
<1> DEFINE t == [s EXCEPT ![1] = x]
<1>1. DOMAIN s = 1 .. Len(s) /\ Len(s) \in Nat \ {0}
  OBVIOUS
<1>2. t \in [1 .. Len(s) -> S]
  BY <1>1
<1>3. t \in Seq(S) /\ Len(t) = Len(s)
  BY <1>1, <1>2
<1>4. t[1] = x /\ \A i \in 1 .. Len(s) : i # 1 => t[i] = s[i]
  BY <1>1
<1> HIDE DEF t
<1>5. t # <<>> /\ Head(t) = t[1]
  BY <1>1, <1>3
<1> QED BY <1>3, <1>4, <1>5 DEF t

(* A prompt keeps what it wants, and stays queued where it was.              *)
StaysQueued(p) ==
  /\ prompt'[p].wants = prompt[p].wants
  /\ prompt[p].at = "transition" => prompt'[p].at = "transition"

LEMMA TransitionsTyped ==
  ASSUME Types
  PROVE  /\ \A i \in 1 .. Len(transitions) : transitions[i].prompt \in Prompts
         /\ transitions # <<>> => /\ Head(transitions) = transitions[1]
                                  /\ 1 \in 1 .. Len(transitions)
                                  /\ Head(transitions).prompt \in Prompts
<1>1. \A i \in 1 .. Len(transitions) : transitions[i] \in TransitionRecord
  BY DEF Types, ChainsTyped
<1>2. \A x \in TransitionRecord : x.prompt \in Prompts
  BY DEF TransitionRecord
<1>3. transitions # <<>> => Head(transitions) = transitions[1] /\ 1 \in 1 .. Len(transitions)
  BY TailOf DEF Types, ChainsTyped
<1> QED BY <1>1, <1>2, <1>3

LEMMA ChainsSame ==
  ASSUME Types, Chains, UNCHANGED <<transitions, operations>>,
         \A p \in Prompts : StaysQueued(p)
  PROVE  Chains'
BY TransitionsTyped DEF Chains, StaysQueued

(* The operation at the head gets further.                                   *)
LEMMA OperationAdvances ==
  ASSUME Types, Chains, operations # <<>>, NEW at \in Working, operations' = Advanced(at),
         UNCHANGED <<forkAsked, transitions, awaited>>, \A p \in Prompts : StaysQueued(p)
  PROVE  /\ ChainsTyped' /\ Chains'
         /\ \A stages : HeadAt(stages)' <=> at \in stages
         /\ Head(operations').kind = Head(operations).kind
         /\ Forking' = Forking
<1> DEFINE x == [Head(operations) EXCEPT !.at = at]
<1>1. /\ Head(operations) = operations[1] /\ Head(operations) \in OperationRecord
      /\ Len(operations) \in Nat \ {0}
  BY TailOf DEF Types, ChainsTyped
<1>2. x \in OperationRecord /\ x.kind = Head(operations).kind /\ x.to = Head(operations).to
      /\ x.at = at
  BY <1>1 DEF OperationRecord
<1>3. operations' = [operations EXCEPT ![1] = x]
  BY <1>1 DEF Advanced
<1> HIDE DEF x
<1>4. /\ operations' \in Seq(OperationRecord) /\ Len(operations') = Len(operations)
      /\ operations' # <<>> /\ Head(operations') = x /\ operations'[1] = x
      /\ \A i \in 1 .. Len(operations) : i # 1 => operations'[i] = operations[i]
  BY <1>2, <1>3, FirstChanged DEF Types, ChainsTyped
<1>5. \A i \in 1 .. Len(operations) : /\ operations'[i].kind = operations[i].kind
                                      /\ operations'[i].to = operations[i].to
                                      /\ i # 1 => operations'[i].at = operations[i].at
  BY <1>1, <1>2, <1>4
<1>6. Forking' = Forking
  <2>1. DOMAIN operations' = 1 .. Len(operations) /\ DOMAIN operations = 1 .. Len(operations)
    BY <1>4 DEF Types, ChainsTyped
  <2> QED BY <1>5, <2>1 DEF Forking
<1>7. Chains'
  BY <1>4, <1>5, TransitionsTyped DEF Chains, StaysQueued
<1>8. ChainsTyped'
  BY <1>4 DEF Types, ChainsTyped
<1>9. \A stages : HeadAt(stages)' <=> at \in stages
  BY <1>2, <1>4 DEF HeadAt
<1> QED BY <1>2, <1>4, <1>6, <1>7, <1>8, <1>9

(* The first transition is over.                                             *)
LEMMA TransitionOver ==
  ASSUME Types, Chains, transitions # <<>>, transitions' = Tail(transitions),
         awaited' = IF awaited > 0 THEN awaited - 1 ELSE 0,
         \A p \in Prompts : prompt[p].at = "transition" /\ p # Head(transitions).prompt
                              => prompt'[p].at = "transition"
  PROVE  /\ transitions' \in Seq(TransitionRecord)
         /\ awaited' \in Nat /\ awaited' <= Len(transitions')
         /\ Len(transitions) = awaited => Len(transitions') = awaited'
         /\ \A i \in 1 .. Len(transitions') :
              /\ prompt'[transitions'[i].prompt].at = "transition"
              /\ ~ transitions'[i].started
              /\ \A j \in 1 .. Len(transitions') :
                   transitions'[i].prompt = transitions'[j].prompt => i = j
<1>1. /\ transitions' \in Seq(TransitionRecord) /\ Head(transitions) = transitions[1]
      /\ Len(transitions) \in Nat \ {0} /\ Len(transitions') = Len(transitions) - 1
      /\ \A i \in 1 .. Len(transitions') :
           transitions'[i] = transitions[i + 1] /\ i + 1 \in 1 .. Len(transitions) /\ i + 1 # 1
  BY TailOf DEF Types, ChainsTyped
<1>2. /\ awaited' \in Nat /\ awaited' <= Len(transitions')
      /\ Len(transitions) = awaited => Len(transitions') = awaited'
  <2>1. ASSUME NEW l \in Nat \ {0}, NEW a \in Nat, a <= l
        PROVE  LET b == IF a > 0 THEN a - 1 ELSE 0
               IN  b \in Nat /\ b <= l - 1 /\ (l = a => l - 1 = b)
    BY <2>1
  <2>2. /\ Len(transitions) \in Nat \ {0} /\ Len(transitions') = Len(transitions) - 1
        /\ awaited \in Nat /\ awaited <= Len(transitions)
    BY <1>1 DEF Types, ChainsTyped
  <2> QED BY <2>1, <2>2
<1>3. ASSUME NEW i \in 1 .. Len(transitions')
      PROVE  /\ prompt'[transitions'[i].prompt].at = "transition"
             /\ ~ transitions'[i].started
  <2>1. transitions[i + 1].prompt # transitions[1].prompt /\ 1 \in 1 .. Len(transitions)
    BY <1>1 DEF Chains
  <2>2. prompt[transitions[i + 1].prompt].at = "transition" /\ transitions[i + 1].prompt \in Prompts
    BY <1>1, TransitionsTyped DEF Chains
  <2>3. ~ transitions[i + 1].started
    BY <1>1 DEF Chains
  <2> QED BY <1>1, <2>1, <2>2, <2>3
<1>4. ASSUME NEW i \in 1 .. Len(transitions'), NEW j \in 1 .. Len(transitions'),
             transitions'[i].prompt = transitions'[j].prompt
      PROVE  i = j
  <2>1. i + 1 = j + 1
    BY <1>1, <1>4 DEF Chains
  <2> QED BY <2>1, <1>1
<1> QED BY <1>1, <1>2, <1>3, <1>4

(* The operation at the head is over, and with it the transition that asked  *)
(* for it.                                                                   *)
LEMMA OperationOver ==
  ASSUME Types, Chains, operations # <<>>, NEW done \in BOOLEAN, OperationEnds(done),
         forkAsked' = forkAsked,
         \A p \in Prompts : /\ prompt'[p].wants = prompt[p].wants
                            /\ prompt[p].at = "transition"
                                 /\ (Head(operations).kind = "reconfigure"
                                       => p # Head(transitions).prompt)
                               => prompt'[p].at = "transition"
  PROVE  /\ ChainsTyped' /\ Chains'
         /\ \A stages \in SUBSET Working : ~ HeadAt(stages)'
         /\ Forking' => Forking
         /\ Len(transitions) = awaited => Len(transitions') = awaited'
<1>1. /\ Head(operations) = operations[1] /\ Head(operations) \in OperationRecord
      /\ operations' = Tail(operations) /\ operations' \in Seq(OperationRecord)
      /\ Len(operations) \in Nat \ {0} /\ Len(operations') = Len(operations) - 1
      /\ \A i \in 1 .. Len(operations') :
           operations'[i] = operations[i + 1] /\ i + 1 \in 1 .. Len(operations) /\ i + 1 # 1
      /\ operations' # <<>> => Head(operations') = operations[2] /\ 2 \in 1 .. Len(operations)
  BY TailOf DEF Types, ChainsTyped, OperationEnds
<1>2. \A stages \in SUBSET Working : ~ HeadAt(stages)'
  BY <1>1 DEF HeadAt, Chains, Working
<1>3. Forking' => Forking
  <2>1. DOMAIN operations' = 1 .. Len(operations') /\ DOMAIN operations = 1 .. Len(operations)
    BY <1>1 DEF Types, ChainsTyped
  <2> QED BY <1>1, <2>1 DEF Forking
<1>4. CASE Head(operations).kind = "reconfigure"
  <2>1. 1 \in 1 .. Len(operations)
    BY <1>1
  <2>2. transitions # <<>>
    BY <1>1, <1>4, <2>1 DEF Chains
  <2>3. \A i \in 1 .. Len(operations') : operations'[i].kind # "reconfigure"
    BY <1>1, <1>4, <2>1 DEF Chains
  <2>4. transitions' = Tail(transitions) /\ awaited' = IF awaited > 0 THEN awaited - 1 ELSE 0
    BY <1>4 DEF OperationEnds
  <2>5. /\ transitions' \in Seq(TransitionRecord)
        /\ awaited' \in Nat /\ awaited' <= Len(transitions')
        /\ Len(transitions) = awaited => Len(transitions') = awaited'
        /\ \A i \in 1 .. Len(transitions') :
             /\ prompt'[transitions'[i].prompt].at = "transition"
             /\ ~ transitions'[i].started
             /\ \A j \in 1 .. Len(transitions') :
                  transitions'[i].prompt = transitions'[j].prompt => i = j
    BY <1>4, <2>2, <2>4, TransitionOver
  <2>6. Chains'
    BY <1>1, <2>3, <2>5 DEF Chains
  <2> QED BY <1>1, <1>2, <1>3, <2>5, <2>6 DEF ChainsTyped
<1>5. CASE Head(operations).kind # "reconfigure"
  <2>1. UNCHANGED <<transitions, awaited>>
    BY <1>5 DEF OperationEnds
  <2>2. ChainsTyped' /\ (Len(transitions) = awaited => Len(transitions') = awaited')
    BY <1>1, <2>1 DEF Types, ChainsTyped
  <2>3. \A p \in Prompts : StaysQueued(p)
    BY <1>5 DEF StaysQueued
  <2>4. ASSUME NEW i \in 1 .. Len(operations')
        PROVE  /\ i # 1 => operations'[i].at = "queued"
               /\ operations'[i].kind = "reconfigure" =>
                    /\ transitions # <<>> /\ Head(transitions).started
                    /\ operations'[i].to = prompt[Head(transitions).prompt].wants
               /\ \A j \in 1 .. Len(operations') :
                    operations'[i].kind = "reconfigure" /\ operations'[j].kind = "reconfigure"
                      => i = j
    BY <1>1 DEF Chains
  <2>5. Chains'
    BY <2>1, <2>3, <2>4, TransitionsTyped DEF Chains, StaysQueued
  <2> QED BY <1>2, <1>3, <2>2, <2>5
<1> QED BY <1>4, <1>5

(* An operation is queued.                                                   *)
LEMMA OperationQueued ==
  ASSUME Types, NEW op \in OperationRecord, op.at = "queued",
         operations' = Append(operations, op)
  PROVE  /\ operations' \in Seq(OperationRecord) /\ Len(operations) \in Nat
         /\ Len(operations') = Len(operations) + 1
         /\ \A i \in 1 .. Len(operations) : operations'[i] = operations[i]
         /\ operations'[Len(operations) + 1] = op
         /\ \A stages \in SUBSET Working : HeadAt(stages)' <=> HeadAt(stages)
         /\ HeadAt(Working) => Head(operations') = Head(operations)
<1>1. /\ operations' \in Seq(OperationRecord) /\ Len(operations) \in Nat
      /\ Len(operations') = Len(operations) + 1
      /\ \A i \in 1 .. Len(operations) : operations'[i] = operations[i]
      /\ operations'[Len(operations) + 1] = op /\ operations' # <<>>
      /\ operations # <<>> => Head(operations') = Head(operations)
      /\ operations = <<>> => Head(operations') = op
  BY AppendOf DEF Types, ChainsTyped
<1>2. \A stages \in SUBSET Working : HeadAt(stages)' <=> HeadAt(stages)
  BY <1>1 DEF HeadAt, Working
<1> QED BY <1>1, <1>2 DEF HeadAt

(* A prompt goes to the end of the transitions.                              *)
LEMMA TransitionQueued ==
  ASSUME Types, Chains, NEW p \in Prompts, prompt[p].at # "transition",
         transitions' = Append(transitions, Transition(p)), prompt'[p].at = "transition",
         \A q \in Prompts : /\ prompt'[q].wants = prompt[q].wants
                            /\ q # p => prompt'[q] = prompt[q],
         UNCHANGED <<operations, awaited>>
  PROVE  ChainsTyped' /\ Chains'
<1>1. Transition(p) \in TransitionRecord /\ Transition(p).prompt = p /\ ~ Transition(p).started
  BY DEF Transition, TransitionRecord
<1>2. /\ transitions' \in Seq(TransitionRecord) /\ Len(transitions) \in Nat
      /\ Len(transitions') = Len(transitions) + 1
      /\ \A i \in 1 .. Len(transitions) : transitions'[i] = transitions[i]
      /\ transitions'[Len(transitions) + 1] = Transition(p)
      /\ transitions' # <<>>
      /\ transitions # <<>> => Head(transitions') = Head(transitions)
  BY <1>1, AppendOf DEF Types, ChainsTyped
<1>3. ChainsTyped'
  BY <1>2 DEF Types, ChainsTyped
<1>4. \A i \in 1 .. Len(transitions) : /\ transitions[i].prompt # p
                                       /\ transitions[i].prompt \in Prompts
  BY TransitionsTyped DEF Chains
<1>5. \A i \in 1 .. Len(transitions') : i \in 1 .. Len(transitions) \/ i = Len(transitions) + 1
  BY <1>2
<1>6. ASSUME NEW i \in 1 .. Len(transitions')
      PROVE  /\ prompt'[transitions'[i].prompt].at = "transition"
             /\ i # 1 => ~ transitions'[i].started
             /\ \A j \in 1 .. Len(transitions') :
                  transitions'[i].prompt = transitions'[j].prompt => i = j
  <2>1. CASE i \in 1 .. Len(transitions)
    BY <1>1, <1>2, <1>4, <1>5, <2>1 DEF Chains
  <2>2. CASE i = Len(transitions) + 1
    BY <1>1, <1>2, <1>4, <1>5, <2>2 DEF Chains
  <2> QED BY <1>5, <2>1, <2>2
<1>7. \A i \in 1 .. Len(operations) : operations[i].kind = "reconfigure" =>
        /\ transitions' # <<>> /\ Head(transitions').started
        /\ operations[i].to = prompt'[Head(transitions').prompt].wants
  BY <1>2, TransitionsTyped DEF Chains
<1>8. Chains'
  BY <1>6, <1>7 DEF Chains
<1> QED BY <1>3, <1>8

------------------------------------------------------------------------------
(* The prompts                                                               *)

(* A prompt is sent to the worker w, or answered at once when there is none. *)
LEMMA SentToTyped ==
  ASSUME PromptsTyped, NEW p \in Prompts, NEW w \in WorkerRecord, NEW path \in Paths,
         SentTo(w, p, path)
  PROVE  /\ prompt' \in [Prompts -> PromptRecord] /\ worker' \in WorkerRecord
         /\ worker'.turn = w.turn \union {p} /\ worker'.alive = w.alive
         /\ worker'.prompt = w.prompt /\ worker'.run = w.run
         /\ \A q \in Prompts : q # p => prompt'[q] = prompt[q]
         /\ prompt'[p].at = "sent" /\ prompt'[p].path = path
         /\ prompt'[p].under = w.prompt /\ prompt'[p].wants = prompt[p].wants
<1>1. /\ worker' = [w EXCEPT !.turn = @ \union {p}]
      /\ prompt' = [prompt EXCEPT ![p].at = "sent", ![p].path = path, ![p].under = w.prompt]
  BY DEF SentTo
<1>2. /\ worker' \in WorkerRecord /\ worker'.turn = w.turn \union {p} /\ worker'.alive = w.alive
      /\ worker'.prompt = w.prompt /\ worker'.run = w.run /\ w.prompt \in States
  BY <1>1 DEF WorkerRecord
<1>3. prompt \in [Prompts -> PromptRecord] /\ prompt[p] \in PromptRecord
  BY DEF PromptsTyped
<1> DEFINE x == [prompt[p] EXCEPT !.at = "sent", !.path = path, !.under = w.prompt]
<1>4. /\ x \in PromptRecord /\ x.at = "sent" /\ x.path = path /\ x.under = w.prompt
      /\ x.wants = prompt[p].wants
  BY <1>2, <1>3 DEF PromptRecord
<1>5. prompt' = [prompt EXCEPT ![p] = x]
  BY <1>1, <1>3
<1> HIDE DEF x
<1>6. prompt' \in [Prompts -> PromptRecord] /\ prompt'[p] = x
      /\ \A q \in Prompts : q # p => prompt'[q] = prompt[q]
  BY <1>3, <1>4, <1>5
<1> QED BY <1>2, <1>4, <1>6

(* Only where it is changes, of the prompt p alone.                          *)
LEMMA MovedTo ==
  ASSUME PromptsTyped, NEW p \in Prompts,
         NEW at \in {"transition", "sent", "answered", "over"}, NEW path \in Paths,
         prompt' = [prompt EXCEPT ![p].at = at, ![p].path = path]
  PROVE  /\ prompt' \in [Prompts -> PromptRecord]
         /\ \A q \in Prompts : q # p => prompt'[q] = prompt[q]
         /\ prompt'[p].at = at /\ prompt'[p].path = path
         /\ prompt'[p].under = prompt[p].under /\ prompt'[p].wants = prompt[p].wants
<1>1. prompt \in [Prompts -> PromptRecord] /\ prompt[p] \in PromptRecord
  BY DEF PromptsTyped
<1> DEFINE x == [prompt[p] EXCEPT !.at = at, !.path = path]
<1>2. /\ x \in PromptRecord /\ x.at = at /\ x.path = path /\ x.under = prompt[p].under
      /\ x.wants = prompt[p].wants
  BY <1>1 DEF PromptRecord
<1>3. prompt' = [prompt EXCEPT ![p] = x]
  BY <1>1
<1> HIDE DEF x
<1> QED BY <1>1, <1>2, <1>3

LEMMA MovedOnly ==
  ASSUME PromptsTyped, NEW p \in Prompts, NEW at \in {"transition", "sent", "answered", "over"},
         prompt' = [prompt EXCEPT ![p].at = at]
  PROVE  /\ prompt' \in [Prompts -> PromptRecord]
         /\ \A q \in Prompts : q # p => prompt'[q] = prompt[q]
         /\ prompt'[p].at = at /\ prompt'[p].path = prompt[p].path
         /\ prompt'[p].under = prompt[p].under /\ prompt'[p].wants = prompt[p].wants
<1>1. prompt \in [Prompts -> PromptRecord] /\ prompt[p] \in PromptRecord
  BY DEF PromptsTyped
<1> DEFINE x == [prompt[p] EXCEPT !.at = at]
<1>2. /\ x \in PromptRecord /\ x.at = at /\ x.path = prompt[p].path
      /\ x.under = prompt[p].under /\ x.wants = prompt[p].wants
  BY <1>1 DEF PromptRecord
<1>3. prompt' = [prompt EXCEPT ![p] = x]
  BY <1>1
<1> HIDE DEF x
<1> QED BY <1>1, <1>2, <1>3

(* What Admitted does to the prompt and to the worker at hand.               *)
LEMMA AdmittedTyped ==
  ASSUME Types, NEW p \in Prompts, NEW path \in Paths, Admitted(p, path)
  PROVE  /\ prompt' \in [Prompts -> PromptRecord] /\ worker' \in WorkerRecord
         /\ worker'.alive = worker.alive /\ worker'.prompt = worker.prompt
         /\ worker'.run = worker.run
         /\ \A q \in Prompts : q # p => prompt'[q] = prompt[q]
         /\ prompt'[p].at \in {"sent", "answered"} /\ prompt'[p].path = path
         /\ prompt'[p].wants = prompt[p].wants
         /\ \/ /\ connected /\ worker.alive
               /\ worker'.turn = worker.turn \union {p} /\ prompt'[p].under = worker.prompt
            \/ worker' = worker /\ prompt'[p].under = prompt[p].under
<1>1. PromptsTyped /\ worker \in WorkerRecord
  BY DEF Types, WorkerTyped
<1>2. CASE connected /\ worker.alive
  BY <1>1, <1>2, SentToTyped DEF Admitted
<1>3. CASE ~ (connected /\ worker.alive)
  BY <1>1, <1>3, MovedTo DEF Admitted
<1> QED BY <1>2, <1>3

(* Who waits for an answer of the turn gets one.                             *)
LEMMA UnblockedTyped ==
  ASSUME PromptsTyped, NEW those, prompt' = Unblocked(those)
  PROVE  /\ prompt' \in [Prompts -> PromptRecord]
         /\ \A q \in Prompts :
              /\ prompt'[q].wants = prompt[q].wants /\ prompt'[q].path = prompt[q].path
              /\ prompt'[q].under = prompt[q].under
              /\ prompt'[q].at = prompt[q].at
                 \/ (prompt[q].at = "sent" /\ prompt'[q].at = "answered")
<1>1. \A q \in Prompts : prompt[q] \in PromptRecord
  BY DEF PromptsTyped
<1>2. \A x \in PromptRecord :
        LET y == [x EXCEPT !.at = "answered"]
        IN  /\ y \in PromptRecord /\ y.at = "answered" /\ y.wants = x.wants /\ y.path = x.path
            /\ y.under = x.under
  BY DEF PromptRecord
<1>3. \A q \in Prompts :
        prompt'[q] = IF q \in those /\ prompt[q].at = "sent"
                     THEN [prompt[q] EXCEPT !.at = "answered"] ELSE prompt[q]
  BY DEF Unblocked
<1>4. prompt' = [p \in Prompts |-> IF p \in those /\ prompt[p].at = "sent"
                                   THEN [prompt[p] EXCEPT !.at = "answered"] ELSE prompt[p]]
  BY DEF Unblocked
<1> QED BY <1>1, <1>2, <1>3, <1>4

LEMMA NewWorkerTyped ==
  ASSUME NEW text \in States
  PROVE  /\ NewWorker(text) \in WorkerRecord /\ NewWorker(text).alive
         /\ NewWorker(text).prompt = text /\ NewWorker(text).turn = {}
         /\ NewWorker(text).run = "none"
         /\ NoWorker \in WorkerRecord /\ ~ NoWorker.alive /\ NoWorker.turn = {}
         /\ NoWorker.run = "none"
BY DEF NewWorker, NoWorker, WorkerRecord, States

------------------------------------------------------------------------------
(* The operation at the head                                                 *)

LEMMA AtHead ==
  ASSUME Types, Chains, operations # <<>>
  PROVE  /\ Head(operations) \in OperationRecord
         /\ Head(operations).kind \in {"reconfigure", "fork"}
         /\ Head(operations).to \in States /\ Head(operations).at \in {"queued"} \union Working
         /\ Head(operations).kind = "fork" => Forking
         /\ Head(operations).kind = "reconfigure" =>
              /\ transitions # <<>> /\ Head(transitions).started
              /\ Head(transitions).prompt \in Prompts
              /\ Head(operations).to = prompt[Head(transitions).prompt].wants
              /\ prompt[Head(transitions).prompt].at = "transition"
<1>1. /\ Head(operations) = operations[1] /\ Head(operations) \in OperationRecord
      /\ 1 \in 1 .. Len(operations) /\ DOMAIN operations = 1 .. Len(operations)
  BY TailOf DEF Types, ChainsTyped
<1>2. \A x \in OperationRecord : /\ x.kind \in {"reconfigure", "fork"} /\ x.to \in States
                                 /\ x.at \in {"queued"} \union Working
  BY DEF OperationRecord
<1>3. Head(operations).kind = "fork" => Forking
  BY <1>1 DEF Forking
<1>4. Head(operations).kind = "reconfigure" =>
        /\ transitions # <<>> /\ Head(transitions).started
        /\ Head(operations).to = prompt[Head(transitions).prompt].wants
  BY <1>1 DEF Chains
<1>5. transitions # <<>> => /\ Head(transitions).prompt \in Prompts
                            /\ prompt[Head(transitions).prompt].at = "transition"
  BY TransitionsTyped DEF Chains
<1> QED BY <1>1, <1>2, <1>3, <1>4, <1>5

LEMMA OperationsSame ==
  ASSUME UNCHANGED <<operations, forkAsked>>
  PROVE  /\ \A stages : HeadAt(stages)' <=> HeadAt(stages)
         /\ Forking' = Forking
BY DEF HeadAt, Forking

(* A deletion that terminated the worker, or failed to, found nothing under  *)
(* way, unless there was a fork or a later prompt beside it.                 *)
LEMMA NothingUnderWay ==
  ASSUME SwapIInv, deletion \notin {"no", "awaiting"}, ~loose
  PROVE  operations = <<>> /\ transitions = <<>> /\ ~Forking
<1>1. Len(transitions) = 0 /\ ~Forking
  BY DEF SwapIInv, Awaits
<1>2. transitions = <<>>
  BY <1>1 DEF SwapIInv, Types, ChainsTyped
<1>3. operations = <<>>
  BY <1>1, <1>2, AtHead DEF SwapIInv
<1> QED BY <1>1, <1>2, <1>3

------------------------------------------------------------------------------
(* The steps of the bridge                                                   *)

LEMMA Queueing ==
  ASSUME SwapIInv, NEW p \in Prompts, Send(p),
         transitions' = Append(transitions, Transition(p)),
         prompt' = [prompt EXCEPT ![p].at = "transition", ![p].path = "behind"],
         UNCHANGED worker
  PROVE  SwapIInv'
<1>1. /\ prompt[p].at = "unsent" /\ deletion # "gone"
      /\ during' = IF Forking \/ deletion # "no" THEN during \union {p} ELSE during
      /\ loose' = (loose \/ deletion # "no")
      /\ UNCHANGED <<openUI, isStreaming, operations, connected, subscribed, wrapperPrompt,
                     endState, counts, killed>>
  BY DEF Send
<1>2. /\ Types /\ Chains /\ Committed /\ SwapStages /\ Listeners /\ Undisturbed /\ Awaits /\ Ending
      /\ PromptsTyped
  BY DEF SwapIInv, Types
<1>3. /\ prompt' \in [Prompts -> PromptRecord]
      /\ \A q \in Prompts : q # p => prompt'[q] = prompt[q]
      /\ prompt'[p].at = "transition" /\ prompt'[p].path = "behind"
      /\ prompt'[p].under = prompt[p].under /\ prompt'[p].wants = prompt[p].wants
  BY <1>2, MovedTo DEF Paths
<1>4. UNCHANGED <<operations, awaited, forkAsked, deletion, disposed, swapFaults, forks>>
  BY <1>1 DEF endState, counts
<1>5. ChainsTyped' /\ Chains'
  BY <1>1, <1>2, <1>3, <1>4, TransitionQueued
<1>6. (\A stages : HeadAt(stages)' <=> HeadAt(stages)) /\ Forking' = Forking
  BY <1>4, OperationsSame
<1>7. Types'
  BY <1>1, <1>2, <1>3, <1>4, <1>5 DEF Types, PromptsTyped, WorkerTyped, RestTyped
<1>8. Committed'
  BY <1>1, <1>2, <1>3 DEF Committed, PromptRunsAsAsked
<1>9. SwapStages' /\ Listeners'
  BY <1>1, <1>2, <1>4, <1>6 DEF SwapStages, Listeners
<1>10. Undisturbed'
  <2>1. SUFFICES ASSUME during' = {} PROVE Undisturbed'
    BY DEF Undisturbed
  <2>2. during = {} /\ ~Forking /\ ~Forking'
    BY <1>1, <1>6, <2>1
  <2> QED BY <1>1, <1>2, <1>4, <1>6, <2>2 DEF Undisturbed
<1>11. Awaits'
  BY <1>1, <1>4 DEF Awaits
<1>12. Ending'
  BY <1>1, <1>2, <1>4, <1>6 DEF Ending
<1> QED BY <1>5, <1>7, <1>8, <1>9, <1>10, <1>11, <1>12 DEF SwapIInv

LEMMA PromptAdmitted ==
  ASSUME SwapIInv, NEW p \in Prompts, Send(p), NEW path \in {"direct", "joined", "before"},
         Admitted(p, path), UNCHANGED transitions,
         path # "before" => prompt[p].wants = openUI,
         isStreaming \/ transitions = <<>>
  PROVE  SwapIInv'
<1>1. /\ prompt[p].at = "unsent" /\ deletion # "gone"
      /\ during' = IF Forking \/ deletion # "no" THEN during \union {p} ELSE during
      /\ loose' = (loose \/ deletion # "no")
      /\ UNCHANGED <<openUI, isStreaming, operations, connected, subscribed, wrapperPrompt,
                     endState, counts, killed>>
  BY DEF Send
<1>2. Types /\ Chains /\ Committed /\ SwapStages /\ Listeners /\ Undisturbed /\ Awaits /\ Ending
  BY DEF SwapIInv
<1>3. /\ prompt' \in [Prompts -> PromptRecord] /\ worker' \in WorkerRecord
      /\ worker'.alive = worker.alive /\ worker'.prompt = worker.prompt
      /\ worker'.run = worker.run
      /\ \A q \in Prompts : q # p => prompt'[q] = prompt[q]
      /\ prompt'[p].at \in {"sent", "answered"} /\ prompt'[p].path = path
      /\ prompt'[p].wants = prompt[p].wants
      /\ \/ /\ connected /\ worker.alive
            /\ worker'.turn = worker.turn \union {p} /\ prompt'[p].under = worker.prompt
         \/ worker' = worker /\ prompt'[p].under = prompt[p].under
  BY <1>2, AdmittedTyped DEF Paths
<1>4. UNCHANGED <<operations, awaited, forkAsked, deletion, disposed, swapFaults, forks>>
  BY <1>1 DEF endState, counts
<1>5. Chains'
  <2>1. \A q \in Prompts : StaysQueued(q)
    BY <1>1, <1>3 DEF StaysQueued
  <2> QED BY <1>2, <1>4, <2>1, ChainsSame
<1>6. (\A stages : HeadAt(stages)' <=> HeadAt(stages)) /\ Forking' = Forking
  BY <1>4, OperationsSame
<1>7. Types'
  BY <1>1, <1>2, <1>3, <1>4 DEF Types, PromptsTyped, ChainsTyped, WorkerTyped, RestTyped
<1>8. Committed'
  BY <1>1, <1>2, <1>3 DEF Committed, PromptRunsAsAsked
<1>9. SwapStages'
  BY <1>1, <1>2, <1>3, <1>6 DEF SwapStages
<1>10. Listeners'
  BY <1>1, <1>2, <1>4, <1>6 DEF Listeners
<1>11. Undisturbed'
  <2>1. SUFFICES ASSUME during' = {} PROVE Undisturbed'
    BY DEF Undisturbed
  <2>2. during = {} /\ ~Forking /\ ~Forking' /\ deletion = "no"
    BY <1>1, <1>6, <2>1
  <2>3. CASE worker' = worker
    BY <1>1, <1>2, <1>4, <1>6, <2>2, <2>3 DEF Undisturbed
  <2>4. CASE connected /\ worker.alive /\ worker'.turn = worker.turn \union {p}
    <3>1. isStreaming = (worker.run = "turn") /\ (HeadAt({"idle"}) => worker.turn = {})
      BY <1>2, <2>2 DEF Undisturbed, HeadAt
    <3>2. ~ HeadAt({"disposed", "killed"})
      BY <1>2, <2>4 DEF SwapStages
    <3>3. ASSUME HeadAt({"idle"}) PROVE FALSE
      <4>1. operations # <<>> /\ ~isStreaming
        BY <1>2, <3>1, <3>3 DEF SwapStages, HeadAt
      <4>2. transitions # <<>>
        BY <1>2, <2>2, <4>1, AtHead
      <4> QED BY <4>1, <4>2
    <3>4. ~ HeadAt({"idle", "disposed", "killed"})
      BY <3>2, <3>3 DEF HeadAt
    <3>5. subscribed
      <4>1. ASSUME ~subscribed PROVE FALSE
        <5>1. operations # <<>> /\ Head(operations).kind = "fork"
          BY <1>2, <2>2, <2>4, <4>1 DEF Listeners, HeadAt
        <5> QED BY <1>2, <2>2, <5>1, AtHead
      <4> QED BY <4>1
    <3> QED BY <1>1, <1>2, <1>3, <1>4, <1>6, <2>2, <3>1, <3>4, <3>5 DEF Undisturbed
  <2> QED BY <1>3, <2>3, <2>4
<1>12. Awaits'
  BY <1>1, <1>4 DEF Awaits
<1>13. Ending'
  BY <1>1, <1>2, <1>3, <1>4, <1>6 DEF Ending
<1> QED BY <1>5, <1>7, <1>8, <1>9, <1>10, <1>11, <1>12, <1>13 DEF SwapIInv

LEMMA Sending ==
  ASSUME SwapIInv, NEW p \in Prompts, Send(p)
  PROVE  SwapIInv'
<1>1. CASE /\ transitions' = Append(transitions, Transition(p))
           /\ prompt' = [prompt EXCEPT ![p].at = "transition", ![p].path = "behind"]
           /\ UNCHANGED worker
  BY <1>1, Queueing
<1>2. CASE /\ ~isStreaming /\ ~NeedsTransition(p, openUI)
           /\ Admitted(p, "direct") /\ UNCHANGED transitions
  BY <1>2, PromptAdmitted DEF NeedsTransition
<1>3. CASE /\ isStreaming /\ UNCHANGED transitions
           /\ Admitted(p, IF NeedsTransition(p, openUI) THEN "before" ELSE "joined")
  <2> DEFINE path == IF NeedsTransition(p, openUI) THEN "before" ELSE "joined"
  <2>1. path \in {"direct", "joined", "before"}
    OBVIOUS
  <2>2. path # "before" => prompt[p].wants = openUI
    BY DEF NeedsTransition
  <2>3. Admitted(p, path)
    BY <1>3
  <2> HIDE DEF path
  <2> QED BY <1>3, <2>1, <2>2, <2>3, PromptAdmitted
<1> QED BY <1>1, <1>2, <1>3 DEF Send

LEMMA PromptAsked ==
  ASSUME SwapIInv, NEW p \in Prompts, Answered(p)
  PROVE  SwapIInv'
<1>1. /\ prompt[p].at = "answered"
      /\ UNCHANGED <<openUI, isStreaming, wrapperState, endState, counts, swapHistory>>
  BY DEF Answered
<1>2. /\ Types /\ Chains /\ Committed /\ SwapStages /\ Listeners /\ Undisturbed /\ Awaits /\ Ending
      /\ PromptsTyped
  BY DEF SwapIInv, Types
<1>3. UNCHANGED <<openUI, isStreaming, operations, connected, subscribed, wrapperPrompt, worker,
                  disposed, deletion, awaited, forkAsked, forks, swapFaults, killed, during,
                  loose>>
  BY <1>1 DEF wrapperState, endState, counts, swapHistory
<1>4. (\A stages : HeadAt(stages)' <=> HeadAt(stages)) /\ Forking' = Forking
  BY <1>3, OperationsSame
<1>5. ASSUME NEW at \in {"transition", "over"}, prompt' = [prompt EXCEPT ![p].at = at],
             at = "transition" => prompt[p].path = "before",
             ChainsTyped', Chains',
             deletion # "no" /\ ~loose => Len(transitions') = awaited
      PROVE  SwapIInv'
  <2>1. /\ prompt' \in [Prompts -> PromptRecord]
        /\ \A q \in Prompts : q # p => prompt'[q] = prompt[q]
        /\ prompt'[p].at = at /\ prompt'[p].path = prompt[p].path
        /\ prompt'[p].under = prompt[p].under /\ prompt'[p].wants = prompt[p].wants
    BY <1>2, <1>5, MovedOnly
  <2>2. Types'
    BY <1>2, <1>3, <1>5, <2>1 DEF Types, PromptsTyped, WorkerTyped, RestTyped
  <2>3. Committed'
    BY <1>2, <1>3, <1>5, <2>1 DEF Committed, PromptRunsAsAsked
  <2>4. SwapStages' /\ Listeners' /\ Ending'
    BY <1>2, <1>3, <1>4 DEF SwapStages, Listeners, Ending
  <2>5. Undisturbed'
    BY <1>2, <1>3, <1>4, <1>5, <2>1 DEF Undisturbed
  <2>6. Awaits'
    BY <1>2, <1>3, <1>4, <1>5, <2>1 DEF Awaits
  <2> QED BY <1>5, <2>2, <2>3, <2>4, <2>5, <2>6 DEF SwapIInv
<1>6. CASE /\ prompt[p].path = "before" /\ prompt' = [prompt EXCEPT ![p].at = "transition"]
           /\ transitions' = Append(transitions, Transition(p))
  <2>1. /\ \A q \in Prompts : q # p => prompt'[q] = prompt[q]
        /\ prompt'[p].at = "transition" /\ prompt'[p].wants = prompt[p].wants
    BY <1>2, <1>6, MovedOnly
  <2>2. ChainsTyped' /\ Chains'
    BY <1>1, <1>2, <1>3, <1>6, <2>1, TransitionQueued
  <2>3. ~ (deletion # "no" /\ ~loose)
    BY <1>1, <1>2, <1>6 DEF Awaits
  <2> QED BY <1>5, <1>6, <2>2, <2>3
<1>7. CASE /\ prompt' = [prompt EXCEPT ![p].at = "over"] /\ UNCHANGED transitions
  <2>1. /\ \A q \in Prompts : q # p => prompt'[q] = prompt[q]
        /\ prompt'[p].wants = prompt[p].wants
    BY <1>2, <1>7, MovedOnly
  <2>2. \A q \in Prompts : StaysQueued(q)
    BY <1>1, <2>1 DEF StaysQueued
  <2>3. ChainsTyped' /\ Chains'
    BY <1>2, <1>3, <1>7, <2>2, ChainsSame DEF Types, ChainsTyped
  <2>4. deletion # "no" /\ ~loose => Len(transitions') = awaited
    BY <1>2, <1>7 DEF Awaits
  <2> QED BY <1>5, <1>7, <2>3, <2>4
<1> QED BY <1>6, <1>7 DEF Answered

LEMMA SwapStarted ==
  ASSUME SwapIInv, StartTransition
  PROVE  SwapIInv'
<1> DEFINE p == Head(transitions).prompt
           op == Reconfigure(prompt[p].wants)
           x == [Head(transitions) EXCEPT !.started = TRUE]
<1>1. /\ transitions # <<>> /\ ~Head(transitions).started
      /\ transitions' = [transitions EXCEPT ![1].started = TRUE]
      /\ operations' = Append(operations, op)
      /\ UNCHANGED <<prompt, openUI, isStreaming, connected, subscribed, wrapperPrompt, worker,
                     endState, counts, swapHistory>>
  BY DEF StartTransition
<1>2. Types /\ Chains /\ Committed /\ SwapStages /\ Listeners /\ Undisturbed /\ Awaits /\ Ending
  BY DEF SwapIInv
<1>3. UNCHANGED <<disposed, deletion, awaited, forkAsked, forks, swapFaults, killed, during,
                  loose>>
  BY <1>1 DEF endState, counts, swapHistory
<1>4. /\ Head(transitions) = transitions[1] /\ Head(transitions) \in TransitionRecord
      /\ p \in Prompts
  BY <1>1, <1>2, TailOf, TransitionsTyped DEF Types, ChainsTyped
<1>5. x \in TransitionRecord /\ x.prompt = p /\ x.started
  BY <1>4 DEF TransitionRecord
<1>6. prompt[p].wants \in States
  BY <1>2, <1>4 DEF Types, PromptsTyped, PromptRecord
<1>7. op \in OperationRecord /\ op.at = "queued" /\ op.kind = "reconfigure"
      /\ op.to = prompt[p].wants
  BY <1>6 DEF Reconfigure, OperationRecord
<1>8. transitions' = [transitions EXCEPT ![1] = x]
  BY <1>1, <1>4
<1> HIDE DEF p, op, x
<1>9. /\ transitions' \in Seq(TransitionRecord) /\ Len(transitions') = Len(transitions)
      /\ transitions' # <<>> /\ Head(transitions') = x /\ transitions'[1] = x
      /\ \A i \in 1 .. Len(transitions) : i # 1 => transitions'[i] = transitions[i]
  <2>1. transitions \in Seq(TransitionRecord) /\ transitions # <<>>
    BY <1>1, <1>2 DEF Types, ChainsTyped
  <2>2. x \in TransitionRecord
    BY <1>5
  <2> QED BY <1>8, <2>1, <2>2, FirstChanged
<1>10. /\ operations' \in Seq(OperationRecord) /\ Len(operations) \in Nat
       /\ Len(operations') = Len(operations) + 1
       /\ \A i \in 1 .. Len(operations) : operations'[i] = operations[i]
       /\ operations'[Len(operations) + 1] = op
       /\ \A stages \in SUBSET Working : HeadAt(stages)' <=> HeadAt(stages)
       /\ HeadAt(Working) => Head(operations') = Head(operations)
  BY <1>1, <1>2, <1>7, OperationQueued
<1>11. \A i \in 1 .. Len(operations) : operations[i].kind # "reconfigure"
  BY <1>1, <1>2 DEF Chains
<1>12. \A i \in 1 .. Len(operations') : i \in 1 .. Len(operations) \/ i = Len(operations) + 1
  BY <1>10
<1>13. Chains'
  <2>1. ASSUME NEW i \in 1 .. Len(transitions')
        PROVE  /\ prompt'[transitions'[i].prompt].at = "transition"
               /\ i # 1 => ~ transitions'[i].started
               /\ \A j \in 1 .. Len(transitions') :
                    transitions'[i].prompt = transitions'[j].prompt => i = j
    <3>1. \A j \in 1 .. Len(transitions) : transitions'[j].prompt = transitions[j].prompt
      BY <1>4, <1>5, <1>9 DEF p
    <3> QED BY <1>1, <1>2, <1>9, <3>1 DEF Chains
  <2>2. ASSUME NEW i \in 1 .. Len(operations')
        PROVE  /\ i # 1 => operations'[i].at = "queued"
               /\ operations'[i].kind = "reconfigure" =>
                    /\ i = Len(operations) + 1
                    /\ operations'[i].to = prompt'[Head(transitions').prompt].wants
    <3>1. CASE i \in 1 .. Len(operations)
      BY <1>2, <1>10, <1>11, <3>1 DEF Chains
    <3>2. CASE i = Len(operations) + 1
      BY <1>1, <1>5, <1>7, <1>9, <1>10, <3>2
    <3> QED BY <1>12, <3>1, <3>2
  <2> QED BY <1>5, <1>9, <2>1, <2>2 DEF Chains
<1>14. Forking' = Forking
  <2>1. DOMAIN operations' = 1 .. Len(operations') /\ DOMAIN operations = 1 .. Len(operations)
    BY <1>2, <1>10 DEF Types, ChainsTyped
  <2>2. \A i \in 1 .. Len(operations) : i \in 1 .. Len(operations')
    BY <1>10
  <2> QED BY <1>3, <1>7, <1>10, <1>12, <2>1, <2>2 DEF Forking
<1>15. Types'
  <2>1. ChainsTyped'
    BY <1>2, <1>3, <1>9, <1>10 DEF Types, ChainsTyped
  <2> QED BY <1>1, <1>2, <1>3, <2>1 DEF Types, PromptsTyped, WorkerTyped, RestTyped
<1>16. Committed'
  BY <1>1, <1>2 DEF Committed, PromptRunsAsAsked
<1>17. SwapStages' /\ Listeners' /\ Ending'
  BY <1>1, <1>2, <1>3, <1>10 DEF SwapStages, Listeners, Ending, Working, HeadAt
<1>18. Undisturbed'
  BY <1>1, <1>2, <1>3, <1>10, <1>14 DEF Undisturbed, Working
<1>19. Awaits'
  BY <1>1, <1>2, <1>3, <1>9, <1>14 DEF Awaits
<1> QED BY <1>13, <1>15, <1>16, <1>17, <1>18, <1>19 DEF SwapIInv

LEMMA Skipping ==
  ASSUME SwapIInv, SkipTransition
  PROVE  SwapIInv'
<1> DEFINE p == Head(transitions).prompt
<1>1. /\ transitions # <<>> /\ ~Head(transitions).started /\ prompt[p].wants = openUI
      /\ transitions' = Tail(transitions)
      /\ awaited' = IF awaited > 0 THEN awaited - 1 ELSE 0
      /\ UNCHANGED <<openUI, isStreaming, operations, connected, subscribed, wrapperPrompt,
                     disposed, deletion, counts, swapHistory>>
  BY DEF SkipTransition
<1>2. /\ Types /\ Chains /\ Committed /\ SwapStages /\ Listeners /\ Undisturbed /\ Awaits /\ Ending
      /\ PromptsTyped
  BY DEF SwapIInv, Types
<1>3. UNCHANGED <<forkAsked, forks, swapFaults, killed, during, loose>>
  BY <1>1 DEF counts, swapHistory
<1>4. p \in Prompts /\ prompt[p].at = "transition"
  BY <1>1, <1>2, TransitionsTyped DEF Chains
<1>5. (\A stages : HeadAt(stages)' <=> HeadAt(stages)) /\ Forking' = Forking
  BY <1>1, <1>3, OperationsSame
<1>6. \A i \in 1 .. Len(operations) : operations[i].kind # "reconfigure"
  BY <1>1, <1>2 DEF Chains
<1>7. operations # <<>> => Forking
  BY <1>1, <1>2, AtHead
<1>8. \/ Admitted(p, "behind") /\ prompt[p].path = "behind"
      \/ prompt' = [prompt EXCEPT ![p].at = "over"] /\ UNCHANGED worker
  BY DEF SkipTransition
<1>9. /\ prompt' \in [Prompts -> PromptRecord] /\ worker' \in WorkerRecord
      /\ worker'.alive = worker.alive /\ worker'.prompt = worker.prompt
      /\ worker'.run = worker.run
      /\ \A q \in Prompts : q # p => prompt'[q] = prompt[q]
      /\ prompt'[p].at \in {"sent", "answered", "over"} /\ prompt'[p].path = prompt[p].path
      /\ prompt'[p].at # "over" => prompt[p].path = "behind"
      /\ prompt'[p].wants = prompt[p].wants
      /\ \/ /\ connected /\ worker.alive /\ prompt[p].path = "behind"
            /\ worker'.turn = worker.turn \union {p} /\ prompt'[p].under = worker.prompt
         \/ worker' = worker /\ prompt'[p].under = prompt[p].under
  <2> HIDE DEF p
  <2>1. CASE Admitted(p, "behind") /\ prompt[p].path = "behind"
    BY <1>2, <1>4, <2>1, AdmittedTyped DEF Paths
  <2>2. CASE prompt' = [prompt EXCEPT ![p].at = "over"] /\ UNCHANGED worker
    BY <1>2, <1>4, <2>2, MovedOnly DEF Types, WorkerTyped
  <2> QED BY <1>8, <2>1, <2>2
<1>10. /\ transitions' \in Seq(TransitionRecord)
       /\ awaited' \in Nat /\ awaited' <= Len(transitions')
       /\ Len(transitions) = awaited => Len(transitions') = awaited'
       /\ \A i \in 1 .. Len(transitions') :
            /\ prompt'[transitions'[i].prompt].at = "transition"
            /\ ~ transitions'[i].started
            /\ \A j \in 1 .. Len(transitions') :
                 transitions'[i].prompt = transitions'[j].prompt => i = j
  BY <1>1, <1>2, <1>9, TransitionOver
<1> HIDE DEF p
<1>11. Chains'
  BY <1>1, <1>2, <1>6, <1>10 DEF Chains
<1>12. Types'
  <2>1. ChainsTyped'
    BY <1>1, <1>2, <1>10 DEF Types, ChainsTyped
  <2> QED BY <1>1, <1>2, <1>3, <1>9, <2>1 DEF Types, PromptsTyped, WorkerTyped, RestTyped
<1>13. Committed'
  BY <1>1, <1>2, <1>4, <1>9 DEF Committed, PromptRunsAsAsked
<1>14. SwapStages'
  BY <1>1, <1>2, <1>5, <1>9 DEF SwapStages
<1>15. Listeners' /\ Ending'
  BY <1>1, <1>2, <1>3, <1>5, <1>9 DEF Listeners, Ending
<1>16. Undisturbed'
  <2>1. SUFFICES ASSUME during' = {} PROVE Undisturbed'
    BY DEF Undisturbed
  <2>2. \A q \in Prompts : prompt'[q].at = "transition" => prompt[q].at = "transition"
                                                          /\ prompt'[q].path = prompt[q].path
    BY <1>4, <1>9
  <2>3. CASE worker' = worker
    BY <1>1, <1>2, <1>3, <1>5, <2>1, <2>2, <2>3 DEF Undisturbed
  <2>4. CASE connected /\ worker.alive /\ prompt[p].path = "behind"
    <3>1. ~Forking /\ operations = <<>>
      BY <1>2, <1>3, <1>4, <1>7, <2>1, <2>4 DEF Undisturbed
    <3>2. \A stages : ~ HeadAt(stages)
      BY <3>1 DEF HeadAt
    <3>3. deletion = "no" => subscribed
      BY <1>2, <2>4, <3>2 DEF Listeners
    <3> QED BY <1>1, <1>2, <1>3, <1>5, <1>9, <2>1, <3>1, <3>2, <3>3 DEF Undisturbed
  <2> QED BY <1>9, <2>3, <2>4
<1>17. Awaits'
  <2>1. SUFFICES ASSUME deletion # "no", ~loose PROVE Awaits'
    BY <1>1, <1>3 DEF Awaits
  <2>2. deletion = "awaiting"
    BY <1>1, <2>1, NothingUnderWay
  <2> QED BY <1>1, <1>2, <1>3, <1>5, <1>9, <1>10, <2>1, <2>2 DEF Awaits
<1> QED BY <1>11, <1>12, <1>13, <1>14, <1>15, <1>16, <1>17 DEF SwapIInv

------------------------------------------------------------------------------
(* The steps of the worker                                                   *)

LEMMA Turning ==
  ASSUME SwapIInv, TurnStarts \/ TurnPauses
  PROVE  SwapIInv'
<1>1. PICK run \in {"turn", "pause"} :
        /\ worker.turn # {}
        /\ worker' = [worker EXCEPT !.run = run]
        /\ isStreaming' = IF subscribed THEN run = "turn" ELSE isStreaming
  BY DEF TurnStarts, TurnPauses, Runs, SwapIInv, SwapStages
<1>2. UNCHANGED <<prompt, openUI, transitions, operations, connected, subscribed, wrapperPrompt,
                  disposed, deletion, awaited, forkAsked, forks, swapFaults, killed, during,
                  loose>>
  BY DEF TurnStarts, TurnPauses, Runs, endState, counts, swapHistory
<1>3. Types /\ Chains /\ Committed /\ SwapStages /\ Listeners /\ Undisturbed /\ Awaits /\ Ending
  BY DEF SwapIInv
<1>4. /\ worker' \in WorkerRecord /\ worker'.run = run /\ worker'.turn = worker.turn
      /\ worker'.alive = worker.alive /\ worker'.prompt = worker.prompt
  BY <1>1, <1>3 DEF Types, WorkerTyped, WorkerRecord
<1>5. (\A stages : HeadAt(stages)' <=> HeadAt(stages)) /\ Forking' = Forking
  BY <1>2, OperationsSame
<1>6. Chains'
  BY <1>2, <1>3, ChainsSame DEF StaysQueued
<1>7. isStreaming' \in BOOLEAN
  BY <1>1, <1>3 DEF Types, RestTyped
<1>8. Types'
  BY <1>2, <1>3, <1>4, <1>7 DEF Types, PromptsTyped, ChainsTyped, WorkerTyped, RestTyped
<1>9. Committed'
  BY <1>2, <1>3, <1>4 DEF Committed, PromptRunsAsAsked
<1>10. SwapStages' /\ Listeners' /\ Ending'
  BY <1>1, <1>2, <1>3, <1>4, <1>5 DEF SwapStages, Listeners, Ending
<1>11. Undisturbed'
  BY <1>1, <1>2, <1>3, <1>4, <1>5 DEF Undisturbed
<1>12. Awaits'
  BY <1>2, <1>3, <1>4, <1>5 DEF Awaits
<1> QED BY <1>6, <1>8, <1>9, <1>10, <1>11, <1>12 DEF SwapIInv

(* A turn ends: who waited is answered.                                      *)
LEMMA TurnEnding ==
  ASSUME SwapIInv, TurnEnds
  PROVE  SwapIInv'
<1>1. /\ worker.run # "none"
      /\ worker' = [worker EXCEPT !.turn = {}, !.run = "none"]
      /\ isStreaming' = (isStreaming /\ ~subscribed)
      /\ prompt' = Unblocked(worker.turn)
  BY DEF TurnEnds
<1>2. UNCHANGED <<openUI, transitions, operations, connected, subscribed, wrapperPrompt,
                  disposed, deletion, awaited, forkAsked, forks, swapFaults, killed, during,
                  loose>>
  BY DEF TurnEnds, endState, counts, swapHistory
<1>3. /\ Types /\ Chains /\ Committed /\ SwapStages /\ Listeners /\ Undisturbed /\ Awaits /\ Ending
      /\ PromptsTyped
  BY DEF SwapIInv, Types
<1>4. /\ worker' \in WorkerRecord /\ worker'.run = "none" /\ worker'.turn = {}
      /\ worker'.alive = worker.alive /\ worker'.prompt = worker.prompt
  BY <1>1, <1>3 DEF Types, WorkerTyped, WorkerRecord
<1>5. /\ prompt' \in [Prompts -> PromptRecord]
      /\ \A q \in Prompts :
           /\ prompt'[q].wants = prompt[q].wants /\ prompt'[q].path = prompt[q].path
           /\ prompt'[q].under = prompt[q].under
           /\ prompt'[q].at = prompt[q].at
              \/ (prompt[q].at = "sent" /\ prompt'[q].at = "answered")
  BY <1>1, <1>3, UnblockedTyped
<1>6. (\A stages : HeadAt(stages)' <=> HeadAt(stages)) /\ Forking' = Forking
  BY <1>2, OperationsSame
<1>7. Chains'
  BY <1>2, <1>3, <1>5, ChainsSame DEF StaysQueued
<1>8. isStreaming' \in BOOLEAN
  BY <1>1
<1>9. Types'
  BY <1>2, <1>3, <1>4, <1>5, <1>8 DEF Types, PromptsTyped, ChainsTyped, WorkerTyped, RestTyped
<1>10. Committed'
  BY <1>2, <1>3, <1>4, <1>5 DEF Committed, PromptRunsAsAsked
<1>11. SwapStages' /\ Listeners' /\ Ending'
  BY <1>2, <1>3, <1>4, <1>6 DEF SwapStages, Listeners, Ending
<1>12. Undisturbed'
  <2>1. during = {} /\ deletion = "no" => subscribed
    BY <1>1, <1>3 DEF Undisturbed, SwapStages
  <2> QED BY <1>1, <1>2, <1>3, <1>4, <1>5, <1>6, <2>1 DEF Undisturbed
<1>13. Awaits'
  BY <1>2, <1>3, <1>4, <1>5, <1>6 DEF Awaits
<1> QED BY <1>7, <1>9, <1>10, <1>11, <1>12, <1>13 DEF SwapIInv

------------------------------------------------------------------------------
(* The steps of the wrapper                                                  *)

(* An operation fails; what is left of the connection is left as it is.      *)
LEMMA SwapFailed ==
  ASSUME SwapIInv, operations # <<>>, Fails, subscribed' \in BOOLEAN,
         UNCHANGED <<isStreaming, connected, wrapperPrompt, worker, disposed, deletion,
                     forkAsked, forks, killed, during, loose>>,
         subscribed => subscribed',
         deletion = "no" /\ connected => subscribed',
         swapFaults' = swapFaults + 1
           \/ (swapFaults' = swapFaults /\ Head(operations).at \in {"queued", "waiting"})
  PROVE  SwapIInv'
<1>1. /\ Types /\ Chains /\ Committed /\ SwapStages /\ Listeners /\ Undisturbed /\ Awaits /\ Ending
      /\ PromptsTyped /\ swapFaults \in Nat
  BY DEF SwapIInv, Types, RestTyped
<1> DEFINE p == Head(transitions).prompt
<1>2. /\ OperationEnds(FALSE) /\ openUI' = openUI
      /\ prompt' = IF Head(operations).kind = "reconfigure"
                   THEN [prompt EXCEPT ![p].at = "over"] ELSE prompt
  BY DEF Fails, OperationEnds
<1>3. Head(operations).kind = "reconfigure" => p \in Prompts /\ prompt[p].at = "transition"
  BY <1>1, AtHead
<1>4. /\ prompt' \in [Prompts -> PromptRecord]
      /\ \A q \in Prompts :
           /\ prompt'[q].wants = prompt[q].wants /\ prompt'[q].path = prompt[q].path
           /\ prompt'[q].under = prompt[q].under
           /\ prompt'[q].at = prompt[q].at
              \/ (/\ Head(operations).kind = "reconfigure" /\ q = p
                  /\ prompt[q].at = "transition" /\ prompt'[q].at = "over")
  <2> HIDE DEF p
  <2>1. CASE Head(operations).kind = "reconfigure"
    <3>1. /\ PromptsTyped /\ p \in Prompts /\ prompt[p].at = "transition"
          /\ prompt' = [prompt EXCEPT ![p].at = "over"]
      BY <1>1, <1>2, <1>3, <2>1
    <3>2. /\ prompt' \in [Prompts -> PromptRecord]
          /\ \A q \in Prompts : q # p => prompt'[q] = prompt[q]
          /\ prompt'[p].at = "over" /\ prompt'[p].path = prompt[p].path
          /\ prompt'[p].under = prompt[p].under /\ prompt'[p].wants = prompt[p].wants
      BY <3>1, MovedOnly
    <3> QED BY <2>1, <3>1, <3>2
  <2>2. CASE Head(operations).kind # "reconfigure"
    BY <1>1, <1>2, <2>2 DEF PromptsTyped
  <2> QED BY <2>1, <2>2
<1>5. /\ ChainsTyped' /\ Chains'
      /\ \A stages \in SUBSET Working : ~ HeadAt(stages)'
      /\ Forking' => Forking
      /\ Len(transitions) = awaited => Len(transitions') = awaited'
  BY <1>1, <1>2, <1>4, OperationOver
<1> HIDE DEF p
<1>6. swapFaults' \in Nat
  BY <1>1
<1>7. Types'
  BY <1>1, <1>2, <1>4, <1>5, <1>6 DEF Types, PromptsTyped, WorkerTyped, RestTyped
<1>8. Committed'
  BY <1>1, <1>2, <1>4 DEF Committed, PromptRunsAsAsked
<1>9. /\ ~ HeadAt({"killed"})' /\ ~ HeadAt({"disposed", "killed"})' /\ ~ HeadAt(Working)'
      /\ ~ HeadAt({"waiting", "idle"})' /\ ~ HeadAt({"idle", "disposed", "killed"})'
  BY <1>5 DEF Working
<1>10. SwapStages'
  BY <1>1, <1>9 DEF SwapStages
<1>11. Listeners'
  BY <1>1 DEF Listeners
<1>12. Undisturbed'
  BY <1>1, <1>4, <1>5, <1>9 DEF Undisturbed
<1>13. Awaits'
  <2>1. SUFFICES ASSUME deletion # "no", ~loose PROVE Awaits'
    BY DEF Awaits
  <2>2. deletion = "awaiting"
    BY <2>1, NothingUnderWay
  <2> QED BY <1>1, <1>4, <1>5, <2>1, <2>2 DEF Awaits
<1>14. Ending'
  <2>1. ASSUME swapFaults' = 0, deletion \in {"no", "awaiting"}
        PROVE  connected /\ worker.alive
    <3>1. swapFaults = 0 /\ Head(operations).at \in {"queued", "waiting"}
      BY <1>1, <2>1
    <3> QED BY <1>1, <2>1, <3>1 DEF Ending, HeadAt
  <2> QED BY <1>1, <1>9, <2>1 DEF Ending
<1> QED BY <1>5, <1>7, <1>8, <1>10, <1>11, <1>12, <1>13, <1>14 DEF SwapIInv

LEMMA Beginning ==
  ASSUME SwapIInv, Begin
  PROVE  SwapIInv'
<1>1. /\ operations # <<>> /\ Head(operations).at = "queued"
      /\ UNCHANGED <<isStreaming, connected, wrapperPrompt, worker, disposed, deletion,
                     forkAsked, forks, swapFaults, killed, during, loose>>
  BY DEF Begin, counts, swapHistory
<1>2. Types /\ Chains /\ Committed /\ SwapStages /\ Listeners /\ Undisturbed /\ Awaits /\ Ending
  BY DEF SwapIInv
<1>3. deletion = "no" /\ connected => subscribed
  BY <1>1, <1>2 DEF Listeners, HeadAt
<1>4. CASE Fails /\ UNCHANGED subscribed
  <2>1. subscribed \in BOOLEAN
    BY <1>2 DEF Types, RestTyped
  <2> QED BY <1>1, <1>3, <1>4, <2>1, SwapFailed
<1>5. CASE /\ connected /\ worker.alive /\ ~disposed
           /\ operations' = Advanced("waiting")
           /\ subscribed' = (subscribed /\ Head(operations).kind # "fork")
           /\ UNCHANGED <<prompt, transitions, awaited, openUI>>
  <2>1. /\ ChainsTyped' /\ Chains'
        /\ \A stages : HeadAt(stages)' <=> "waiting" \in stages
        /\ Head(operations').kind = Head(operations).kind
        /\ Forking' = Forking
    BY <1>1, <1>2, <1>5, OperationAdvances DEF StaysQueued, Working
  <2>2. Head(operations).kind = "fork" => Forking
    BY <1>1, <1>2, AtHead
  <2>3. subscribed' \in BOOLEAN
    BY <1>5
  <2>4. Types'
    BY <1>1, <1>2, <1>5, <2>1, <2>3 DEF Types, PromptsTyped, WorkerTyped, RestTyped
  <2>5. Committed'
    BY <1>1, <1>2, <1>5 DEF Committed, PromptRunsAsAsked
  <2>6. SwapStages' /\ Ending'
    BY <1>1, <1>2, <1>5, <2>1 DEF SwapStages, Ending
  <2>7. Listeners'
    BY <1>1, <1>3, <1>5, <2>1 DEF Listeners
  <2>8. Undisturbed'
    <3>1. SUFFICES ASSUME during' = {} PROVE Undisturbed'
      BY DEF Undisturbed
    <3>2. /\ killed = {}
          /\ Forking => worker.turn = {}
          /\ Forking => \A p \in Prompts :
                          ~ (prompt[p].at = "transition" /\ prompt[p].path = "behind")
          /\ deletion = "no" => /\ isStreaming = (worker.run = "turn")
                                /\ ~subscribed => worker.turn = {}
      BY <1>1, <1>2, <3>1 DEF Undisturbed
    <3>3. ~ HeadAt({"idle", "disposed", "killed"})'
      BY <2>1
    <3>4. deletion = "no" /\ ~subscribed' => worker.turn = {}
      <4>1. CASE Head(operations).kind = "fork"
        BY <2>2, <3>2, <4>1
      <4>2. CASE Head(operations).kind # "fork"
        <5>1. subscribed' = subscribed /\ subscribed \in BOOLEAN
          BY <1>2, <1>5, <4>2 DEF Types, RestTyped
        <5> QED BY <3>2, <5>1
      <4> QED BY <4>1, <4>2
    <3>5. prompt' = prompt
      BY <1>5
    <3> QED BY <1>1, <2>1, <3>2, <3>3, <3>4, <3>5 DEF Undisturbed
  <2>9. Awaits'
    BY <1>1, <1>2, <1>5, <2>1 DEF Awaits
  <2> QED BY <2>1, <2>4, <2>5, <2>6, <2>7, <2>8, <2>9 DEF SwapIInv
<1> QED BY <1>4, <1>5 DEF Begin

LEMMA Idling ==
  ASSUME SwapIInv, WorkerIdle
  PROVE  SwapIInv'
<1>1. /\ operations # <<>> /\ Head(operations).at = "waiting"
      /\ UNCHANGED <<isStreaming, connected, wrapperPrompt, worker, disposed, deletion,
                     forkAsked, forks, swapFaults, killed, during, loose>>
  BY DEF WorkerIdle, counts, swapHistory
<1>2. Types /\ Chains /\ Committed /\ SwapStages /\ Listeners /\ Undisturbed /\ Awaits /\ Ending
  BY DEF SwapIInv
<1>3. HeadAt({"waiting", "idle"}) /\ HeadAt(Working)
  BY <1>1 DEF HeadAt, Working
<1>4. CASE /\ Fails
           /\ subscribed' = (subscribed \/ (Head(operations).kind = "fork" /\ Listening))
  <2>1. subscribed' \in BOOLEAN /\ (subscribed => subscribed')
    BY <1>2, <1>4 DEF Types, RestTyped
  <2>2. deletion = "no" /\ connected => subscribed'
    BY <1>2, <1>4 DEF Listeners, Listening
  <2> QED BY <1>1, <1>4, <2>1, <2>2, SwapFailed
<1>5. CASE IdleAnswered /\ operations' = Advanced("idle")
           /\ UNCHANGED <<prompt, transitions, awaited, openUI, subscribed>>
  <2>1. /\ ChainsTyped' /\ Chains'
        /\ \A stages : HeadAt(stages)' <=> "idle" \in stages
        /\ Head(operations').kind = Head(operations).kind
        /\ Forking' = Forking
    BY <1>1, <1>2, <1>5, OperationAdvances DEF StaysQueued, Working
  <2>2. worker.turn = {} /\ worker.alive /\ connected
    BY <1>2, <1>3, <1>5 DEF IdleAnswered, SwapStages
  <2>3. Types'
    BY <1>1, <1>2, <1>5, <2>1 DEF Types, PromptsTyped, WorkerTyped, RestTyped
  <2>4. Committed'
    BY <1>1, <1>2, <1>5 DEF Committed, PromptRunsAsAsked
  <2>5. SwapStages' /\ Ending'
    BY <1>1, <1>2, <1>3, <2>1, <2>2 DEF SwapStages, Ending
  <2>6. Listeners'
    BY <1>1, <1>2, <1>5, <2>1 DEF Listeners
  <2>7. Undisturbed'
    BY <1>1, <1>2, <1>5, <2>1, <2>2 DEF Undisturbed
  <2>8. Awaits'
    BY <1>1, <1>2, <1>5, <2>1 DEF Awaits
  <2> QED BY <2>1, <2>3, <2>4, <2>5, <2>6, <2>7, <2>8 DEF SwapIInv
<1> QED BY <1>4, <1>5 DEF WorkerIdle

LEMMA Refusing ==
  ASSUME SwapIInv, ForkRefused
  PROVE  SwapIInv'
<1>1. /\ operations # <<>> /\ Head(operations).kind = "fork" /\ Head(operations).at = "idle"
      /\ operations' = Tail(operations) /\ subscribed' = Listening
      /\ UNCHANGED <<prompt, openUI, isStreaming, transitions, connected, wrapperPrompt, worker,
                     disposed, deletion, awaited, forkAsked, forks, swapFaults, killed, during,
                     loose>>
  BY DEF ForkRefused, Running, Resubscribed, bridgeState, endState, counts, swapHistory
<1>2. Types /\ Chains /\ Committed /\ SwapStages /\ Listeners /\ Undisturbed /\ Awaits /\ Ending
  BY DEF SwapIInv
<1>3. OperationEnds(TRUE)
  BY <1>1 DEF OperationEnds
<1>4. /\ ChainsTyped' /\ Chains'
      /\ \A stages \in SUBSET Working : ~ HeadAt(stages)'
      /\ Forking' => Forking
  BY <1>1, <1>2, <1>3, OperationOver
<1>5. /\ ~ HeadAt({"killed"})' /\ ~ HeadAt({"disposed", "killed"})' /\ ~ HeadAt(Working)'
      /\ ~ HeadAt({"waiting", "idle"})' /\ ~ HeadAt({"idle", "disposed", "killed"})'
  BY <1>4 DEF Working
<1>6. connected /\ worker.turn = worker.turn
  BY <1>1, <1>2 DEF SwapStages, HeadAt
<1>7. subscribed' \in BOOLEAN /\ (deletion = "no" => subscribed')
  BY <1>1 DEF Listening
<1>8. Types'
  BY <1>1, <1>2, <1>4, <1>7 DEF Types, PromptsTyped, WorkerTyped, RestTyped
<1>9. Committed'
  BY <1>1, <1>2 DEF Committed, PromptRunsAsAsked
<1>10. SwapStages' /\ Listeners'
  BY <1>1, <1>2, <1>5, <1>7 DEF SwapStages, Listeners
<1>11. Undisturbed'
  BY <1>1, <1>2, <1>4, <1>5, <1>7 DEF Undisturbed
<1>12. Awaits'
  BY <1>1, <1>2, <1>4 DEF Awaits
<1>13. Ending'
  <2>1. ~ HeadAt({"killed"})
    BY <1>1 DEF HeadAt
  <2> QED BY <1>1, <1>2, <1>5, <1>6, <2>1 DEF Ending
<1> QED BY <1>4, <1>8, <1>9, <1>10, <1>11, <1>12, <1>13 DEF SwapIInv

LEMMA Disposing ==
  ASSUME SwapIInv, DisposeCurrent
  PROVE  SwapIInv'
<1>1. /\ operations # <<>> /\ Head(operations).at = "idle"
      /\ operations' = Advanced("disposed") /\ connected' = FALSE /\ subscribed' = FALSE
      /\ prompt' = Unblocked(worker.turn)
      /\ UNCHANGED <<openUI, isStreaming, transitions, wrapperPrompt, worker, disposed, deletion,
                     awaited, forkAsked, forks, swapFaults, killed, during, loose>>
  BY DEF DisposeCurrent, endState, counts, swapHistory
<1>2. /\ Types /\ Chains /\ Committed /\ SwapStages /\ Listeners /\ Undisturbed /\ Awaits /\ Ending
      /\ PromptsTyped
  BY DEF SwapIInv, Types
<1>3. /\ prompt' \in [Prompts -> PromptRecord]
      /\ \A q \in Prompts :
           /\ prompt'[q].wants = prompt[q].wants /\ prompt'[q].path = prompt[q].path
           /\ prompt'[q].under = prompt[q].under
           /\ prompt'[q].at = prompt[q].at
              \/ (prompt[q].at = "sent" /\ prompt'[q].at = "answered")
  BY <1>1, <1>2, UnblockedTyped
<1>4. /\ ChainsTyped' /\ Chains'
      /\ \A stages : HeadAt(stages)' <=> "disposed" \in stages
      /\ Forking' = Forking
  BY <1>1, <1>2, <1>3, OperationAdvances DEF StaysQueued, Working
<1>5. HeadAt({"idle", "disposed", "killed"}) /\ HeadAt(Working) /\ ~ HeadAt({"killed"})
  BY <1>1 DEF HeadAt, Working
<1>6. Types'
  BY <1>1, <1>2, <1>3, <1>4 DEF Types, PromptsTyped, WorkerTyped, RestTyped
<1>7. Committed'
  BY <1>1, <1>2, <1>3 DEF Committed, PromptRunsAsAsked
<1>8. SwapStages' /\ Listeners' /\ Ending'
  BY <1>1, <1>2, <1>4, <1>5 DEF SwapStages, Listeners, Ending
<1>9. Undisturbed'
  BY <1>1, <1>2, <1>3, <1>4, <1>5 DEF Undisturbed
<1>10. Awaits'
  BY <1>1, <1>2, <1>3, <1>4 DEF Awaits
<1> QED BY <1>4, <1>6, <1>7, <1>8, <1>9, <1>10 DEF SwapIInv

LEMMA Killing ==
  ASSUME SwapIInv, KillWorker
  PROVE  SwapIInv'
<1>1. /\ operations # <<>> /\ Head(operations).at = "disposed"
      /\ operations' = Advanced("killed")
      /\ killed' = killed \union worker.turn /\ worker' = NoWorker
      /\ UNCHANGED <<prompt, openUI, isStreaming, transitions, connected, subscribed,
                     wrapperPrompt, disposed, deletion, awaited, forkAsked, forks, swapFaults,
                     during, loose>>
  BY DEF KillWorker, bridgeState, endState, counts
<1>2. Types /\ Chains /\ Committed /\ SwapStages /\ Listeners /\ Undisturbed /\ Awaits /\ Ending
  BY DEF SwapIInv
<1>3. /\ worker' \in WorkerRecord /\ ~ worker'.alive /\ worker'.turn = {}
      /\ worker'.run = "none"
  BY <1>1, NewWorkerTyped DEF States
<1>4. /\ ChainsTyped' /\ Chains'
      /\ \A stages : HeadAt(stages)' <=> "killed" \in stages
      /\ Forking' = Forking
  BY <1>1, <1>2, OperationAdvances DEF StaysQueued, Working
<1>5. /\ HeadAt({"idle", "disposed", "killed"}) /\ HeadAt({"disposed", "killed"})
      /\ HeadAt(Working)
  BY <1>1 DEF HeadAt, Working
<1>6. Types'
  BY <1>1, <1>2, <1>3, <1>4 DEF Types, PromptsTyped, WorkerTyped, RestTyped
<1>7. Committed'
  BY <1>1, <1>2, <1>3 DEF Committed, PromptRunsAsAsked
<1>8. SwapStages' /\ Listeners' /\ Ending'
  BY <1>1, <1>2, <1>3, <1>4, <1>5 DEF SwapStages, Listeners, Ending
<1>9. Undisturbed'
  BY <1>1, <1>2, <1>3, <1>4, <1>5 DEF Undisturbed, SwapStages
<1>10. Awaits'
  BY <1>1, <1>2, <1>3, <1>4 DEF Awaits
<1> QED BY <1>4, <1>6, <1>7, <1>8, <1>9, <1>10 DEF SwapIInv

LEMMA Adopting ==
  ASSUME SwapIInv, Adopt
  PROVE  SwapIInv'
<1> DEFINE p == Head(transitions).prompt
           text == IF Head(operations).kind = "fork" THEN wrapperPrompt ELSE Head(operations).to
<1>1. /\ operations # <<>> /\ Head(operations).at = "killed"
      /\ wrapperPrompt' = text /\ connected' = TRUE /\ subscribed' = Listening
      /\ OperationEnds(TRUE)
      /\ UNCHANGED <<isStreaming, disposed, deletion, forkAsked, forks, swapFaults, killed,
                     during, loose>>
  BY DEF Adopt, RestoredPrompt, counts, swapHistory
<1>2. /\ Types /\ Chains /\ Committed /\ SwapStages /\ Listeners /\ Undisturbed /\ Awaits /\ Ending
      /\ PromptsTyped
  BY DEF SwapIInv, Types
<1>3. /\ Head(operations).kind \in {"reconfigure", "fork"} /\ Head(operations).to \in States
      /\ Head(operations).kind = "fork" => Forking
      /\ Head(operations).kind = "reconfigure" =>
           /\ p \in Prompts /\ Head(operations).to = prompt[p].wants
           /\ prompt[p].at = "transition"
  BY <1>1, <1>2, AtHead
<1>4. text \in States
  BY <1>2, <1>3 DEF Types, RestTyped
<1>5. openUI' = text
  <2>1. CASE Head(operations).kind = "fork"
    BY <1>1, <1>2, <2>1 DEF OperationEnds, Committed
  <2>2. CASE Head(operations).kind = "reconfigure"
    BY <1>1, <2>2 DEF OperationEnds
  <2> QED BY <1>3, <2>1, <2>2
<1> DEFINE w == NewWorker(text)
<1>6. w \in WorkerRecord /\ w.alive /\ w.prompt = text /\ w.turn = {} /\ w.run = "none"
  BY <1>4, NewWorkerTyped
<1>7. \/ /\ Head(operations).kind = "fork" /\ worker' = w /\ prompt' = prompt
      \/ /\ Head(operations).kind = "reconfigure" /\ prompt[p].path = "behind"
         /\ SentTo(w, p, "behind")
      \/ /\ Head(operations).kind = "reconfigure"
         /\ worker' = w /\ prompt' = [prompt EXCEPT ![p].at = "over"]
  BY <1>3 DEF Adopt, RestoredPrompt
<1> HIDE DEF p, text, w
<1>8. /\ prompt' \in [Prompts -> PromptRecord] /\ worker' \in WorkerRecord
      /\ worker'.alive /\ worker'.prompt = text /\ worker'.run = "none"
      /\ \A q \in Prompts :
           /\ prompt'[q].wants = prompt[q].wants
           /\ \/ prompt'[q] = prompt[q]
              \/ /\ Head(operations).kind = "reconfigure" /\ q = p
                 /\ prompt'[q].at \in {"sent", "over"}
                 /\ prompt'[q].path = prompt[q].path
                 /\ \/ prompt'[q].under = prompt[q].under /\ prompt'[q].at = "over"
                    \/ prompt'[q].under = text /\ prompt[q].path = "behind"
      /\ \/ worker'.turn = {}
         \/ /\ Head(operations).kind = "reconfigure" /\ prompt[p].path = "behind"
            /\ p \in Prompts /\ prompt[p].at = "transition"
  <2>1. CASE Head(operations).kind = "fork" /\ worker' = w /\ prompt' = prompt
    BY <1>2, <1>6, <2>1 DEF PromptsTyped
  <2>2. CASE /\ Head(operations).kind = "reconfigure" /\ prompt[p].path = "behind"
             /\ SentTo(w, p, "behind")
    <3>1. /\ prompt' \in [Prompts -> PromptRecord] /\ worker' \in WorkerRecord
          /\ worker'.turn = w.turn \union {p} /\ worker'.alive = w.alive
          /\ worker'.prompt = w.prompt /\ worker'.run = w.run
          /\ \A q \in Prompts : q # p => prompt'[q] = prompt[q]
          /\ prompt'[p].at = "sent" /\ prompt'[p].path = "behind"
          /\ prompt'[p].under = w.prompt /\ prompt'[p].wants = prompt[p].wants
      BY <1>2, <1>3, <1>6, <2>2, SentToTyped DEF Paths
    <3> QED BY <1>3, <1>6, <2>2, <3>1
  <2>3. CASE /\ Head(operations).kind = "reconfigure"
             /\ worker' = w /\ prompt' = [prompt EXCEPT ![p].at = "over"]
    <3>1. /\ prompt' \in [Prompts -> PromptRecord]
          /\ \A q \in Prompts : q # p => prompt'[q] = prompt[q]
          /\ prompt'[p].at = "over" /\ prompt'[p].path = prompt[p].path
          /\ prompt'[p].under = prompt[p].under /\ prompt'[p].wants = prompt[p].wants
      BY <1>2, <1>3, <2>3, MovedOnly
    <3> QED BY <1>6, <2>3, <3>1
  <2> QED BY <1>7, <2>1, <2>2, <2>3
<1>9. /\ ChainsTyped' /\ Chains'
      /\ \A stages \in SUBSET Working : ~ HeadAt(stages)'
      /\ Forking' => Forking
      /\ Len(transitions) = awaited => Len(transitions') = awaited'
  BY <1>1, <1>2, <1>8, OperationOver DEF p
<1>10. /\ ~ HeadAt({"killed"})' /\ ~ HeadAt({"disposed", "killed"})' /\ ~ HeadAt(Working)'
       /\ ~ HeadAt({"waiting", "idle"})' /\ ~ HeadAt({"idle", "disposed", "killed"})'
  BY <1>9 DEF Working
<1>11. subscribed' \in BOOLEAN /\ (deletion = "no" => subscribed')
  BY <1>1 DEF Listening
<1>12. /\ HeadAt({"idle", "disposed", "killed"}) /\ HeadAt(Working)
  BY <1>1 DEF HeadAt, Working
<1>13. Types'
  BY <1>1, <1>2, <1>4, <1>5, <1>8, <1>9, <1>11 DEF Types, PromptsTyped, WorkerTyped, RestTyped
<1>14. Committed'
  <2>1. \A q \in Prompts : prompt'[q].at = "unsent" => prompt'[q].under = "none"
    BY <1>2, <1>8 DEF Committed
  <2>2. Head(operations).kind = "reconfigure" => text = prompt[p].wants
    BY <1>3 DEF text
  <2>3. PromptRunsAsAsked'
    BY <1>2, <1>8, <2>2 DEF Committed, PromptRunsAsAsked
  <2> QED BY <1>1, <1>5, <1>8, <2>1, <2>3 DEF Committed
<1>15. SwapStages' /\ Listeners'
  BY <1>1, <1>8, <1>10, <1>11 DEF SwapStages, Listeners
<1>16. Undisturbed'
  <2>1. SUFFICES ASSUME during' = {} PROVE Undisturbed'
    BY DEF Undisturbed
  <2>2. during = {} /\ worker.turn = {} /\ killed' = {}
    BY <1>1, <1>2, <1>12, <2>1 DEF Undisturbed
  <2>3. deletion = "no" => isStreaming = FALSE
    BY <1>2, <2>2 DEF Undisturbed, SwapStages
  <2>4. Forking => worker'.turn = {}
    BY <1>2, <1>8, <2>2 DEF Undisturbed
  <2>5. Forking' => \A q \in Prompts :
                      ~ (prompt'[q].at = "transition" /\ prompt'[q].path = "behind")
    BY <1>2, <1>8, <1>9, <2>2 DEF Undisturbed
  <2> QED BY <1>1, <1>8, <1>9, <1>10, <1>11, <2>2, <2>3, <2>4, <2>5 DEF Undisturbed
<1>17. Awaits'
  <2>1. SUFFICES ASSUME deletion # "no", ~loose PROVE Awaits'
    BY <1>1 DEF Awaits
  <2>2. deletion = "awaiting"
    BY <1>1, <2>1, NothingUnderWay
  <2> QED BY <1>1, <1>2, <1>8, <1>9, <2>1, <2>2 DEF Awaits
<1>18. Ending'
  BY <1>1, <1>2, <1>8, <1>12 DEF Ending
<1> QED BY <1>9, <1>13, <1>14, <1>15, <1>16, <1>17, <1>18 DEF SwapIInv

LEMMA SwapFailing ==
  ASSUME SwapIInv, SwapFails
  PROVE  SwapIInv'
<1>1. /\ operations # <<>> /\ Head(operations).at \in {"disposed", "killed"}
      /\ swapFaults' = swapFaults + 1 /\ Fails
      /\ UNCHANGED <<isStreaming, connected, subscribed, wrapperPrompt, worker, disposed,
                     deletion, forkAsked, forks, killed, during, loose>>
  BY DEF SwapFails, swapHistory
<1>2. subscribed \in BOOLEAN
  BY DEF SwapIInv, Types, RestTyped
<1>3. ~connected
  BY <1>1 DEF SwapIInv, SwapStages, HeadAt
<1> QED BY <1>1, <1>2, <1>3, SwapFailed

------------------------------------------------------------------------------
(* A fork                                                                    *)

LEMMA ForkAsking ==
  ASSUME SwapIInv, AskFork
  PROVE  SwapIInv'
<1>1. /\ deletion # "gone" /\ connected /\ worker.alive /\ worker.turn = {}
      /\ forks' = forks + 1 /\ forkAsked' = TRUE
      /\ during' = during \union {p \in Prompts : prompt[p].at = "transition"}
      /\ loose' = (loose \/ deletion # "no")
      /\ UNCHANGED <<prompt, openUI, isStreaming, transitions, operations, connected,
                     subscribed, wrapperPrompt, worker, disposed, deletion, awaited,
                     swapFaults, killed>>
  BY DEF AskFork, IdleAnswered, bridgeState, wrapperState, endState
<1>2. Types /\ Chains /\ Committed /\ SwapStages /\ Listeners /\ Undisturbed /\ Awaits /\ Ending
  BY DEF SwapIInv
<1>3. \A stages : HeadAt(stages)' <=> HeadAt(stages)
  BY <1>1 DEF HeadAt
<1>4. Chains'
  BY <1>1, <1>2, ChainsSame DEF StaysQueued
<1>5. Types'
  <2>1. loose' \in BOOLEAN /\ forks' \in Nat
    BY <1>1, <1>2 DEF Types, RestTyped
  <2> QED BY <1>1, <1>2, <2>1 DEF Types, PromptsTyped, ChainsTyped, WorkerTyped, RestTyped
<1>6. Committed'
  BY <1>1, <1>2 DEF Committed, PromptRunsAsAsked
<1>7. SwapStages' /\ Listeners' /\ Ending'
  BY <1>1, <1>2, <1>3 DEF SwapStages, Listeners, Ending
<1>8. Undisturbed'
  <2>1. SUFFICES ASSUME during' = {} PROVE Undisturbed'
    BY DEF Undisturbed
  <2>2. during = {} /\ \A p \in Prompts : prompt[p].at # "transition"
    BY <1>1, <2>1
  <2> QED BY <1>1, <1>2, <1>3, <2>2 DEF Undisturbed
<1>9. Awaits'
  BY <1>1 DEF Awaits
<1> QED BY <1>4, <1>5, <1>6, <1>7, <1>8, <1>9 DEF SwapIInv

LEMMA ForkRequesting ==
  ASSUME SwapIInv, RequestFork
  PROVE  SwapIInv'
<1>1. /\ forkAsked /\ forkAsked' = FALSE
      /\ operations' = operations \/ operations' = Append(operations, Fork)
      /\ UNCHANGED <<prompt, openUI, isStreaming, transitions, connected, subscribed,
                     wrapperPrompt, worker, disposed, deletion, awaited, forks, swapFaults,
                     killed, during, loose>>
  BY DEF RequestFork, bridgeState, endState, swapHistory
<1>2. Types /\ Chains /\ Committed /\ SwapStages /\ Listeners /\ Undisturbed /\ Awaits /\ Ending
  BY DEF SwapIInv
<1>3. Forking
  BY <1>1 DEF Forking
<1>4. Fork \in OperationRecord /\ Fork.at = "queued" /\ Fork.kind = "fork"
  BY DEF Fork, OperationRecord, States
<1>5. /\ operations' \in Seq(OperationRecord) /\ Chains'
      /\ \A stages \in SUBSET Working : HeadAt(stages)' <=> HeadAt(stages)
      /\ HeadAt(Working) => Head(operations') = Head(operations)
  <2>1. CASE operations' = operations
    <3>1. Chains'
      BY <1>1, <1>2, <2>1, ChainsSame DEF StaysQueued
    <3> QED BY <1>2, <2>1, <3>1 DEF HeadAt, Types, ChainsTyped
  <2>2. CASE operations' = Append(operations, Fork)
    <3>1. /\ operations' \in Seq(OperationRecord) /\ Len(operations) \in Nat
          /\ Len(operations') = Len(operations) + 1
          /\ \A i \in 1 .. Len(operations) : operations'[i] = operations[i]
          /\ operations'[Len(operations) + 1] = Fork
          /\ \A stages \in SUBSET Working : HeadAt(stages)' <=> HeadAt(stages)
          /\ HeadAt(Working) => Head(operations') = Head(operations)
      BY <1>2, <1>4, <2>2, OperationQueued
    <3>2. \A i \in 1 .. Len(operations') : i \in 1 .. Len(operations) \/ i = Len(operations) + 1
      BY <3>1
    <3>3. ASSUME NEW i \in 1 .. Len(operations')
          PROVE  /\ i # 1 => operations'[i].at = "queued"
                 /\ operations'[i].kind = "reconfigure" =>
                      i \in 1 .. Len(operations) /\ operations'[i] = operations[i]
      <4>1. CASE i \in 1 .. Len(operations)
        BY <1>2, <3>1, <4>1 DEF Chains
      <4>2. CASE i = Len(operations) + 1
        BY <1>4, <3>1, <4>2
      <4> QED BY <3>2, <4>1, <4>2
    <3>4. \A i \in 1 .. Len(transitions) : transitions[i].prompt \in Prompts
      BY <1>2, TransitionsTyped
    <3>5. Chains'
      BY <1>1, <1>2, <3>3, <3>4 DEF Chains
    <3> QED BY <3>1, <3>5
  <2> QED BY <1>1, <2>1, <2>2
<1>6. Types'
  <2>1. ChainsTyped'
    BY <1>1, <1>2, <1>5 DEF Types, ChainsTyped
  <2> QED BY <1>1, <1>2, <2>1 DEF Types, PromptsTyped, WorkerTyped, RestTyped
<1>7. Committed'
  BY <1>1, <1>2 DEF Committed, PromptRunsAsAsked
<1>8. /\ HeadAt({"killed"})' <=> HeadAt({"killed"})
      /\ HeadAt({"disposed", "killed"})' <=> HeadAt({"disposed", "killed"})
      /\ HeadAt({"waiting", "idle"})' <=> HeadAt({"waiting", "idle"})
      /\ HeadAt({"idle", "disposed", "killed"})' <=> HeadAt({"idle", "disposed", "killed"})
      /\ HeadAt(Working)' <=> HeadAt(Working)
      /\ HeadAt({"waiting", "idle"}) => Head(operations') = Head(operations)
  BY <1>5 DEF Working, HeadAt
<1>9. SwapStages' /\ Listeners' /\ Ending'
  BY <1>1, <1>2, <1>8 DEF SwapStages, Listeners, Ending
<1>10. Undisturbed'
  BY <1>1, <1>2, <1>3, <1>8 DEF Undisturbed
<1>11. Awaits'
  BY <1>1, <1>2, <1>3 DEF Awaits
<1> QED BY <1>5, <1>6, <1>7, <1>9, <1>10, <1>11 DEF SwapIInv

------------------------------------------------------------------------------
(* A deletion                                                                *)

LEMMA Deleting ==
  ASSUME SwapIInv, DeleteBegins
  PROVE  SwapIInv'
<1>1. /\ deletion = "no" /\ deletion' = "awaiting" /\ awaited' = Len(transitions)
      /\ loose' = (loose \/ Forking \/ \E p \in Prompts : AsksLater(p))
      /\ subscribed' = FALSE
      /\ worker' = [worker EXCEPT !.turn = {}, !.run = "none"]
      /\ prompt' = Unblocked(worker.turn)
      /\ UNCHANGED <<openUI, isStreaming, transitions, operations, connected, wrapperPrompt,
                     disposed, forkAsked, forks, swapFaults, killed, during>>
  BY DEF DeleteBegins, AwaitedTransitions, counts
<1>2. /\ Types /\ Chains /\ Committed /\ SwapStages /\ Listeners /\ Undisturbed /\ Awaits /\ Ending
      /\ PromptsTyped
  BY DEF SwapIInv, Types
<1>3. /\ worker' \in WorkerRecord /\ worker'.run = "none" /\ worker'.turn = {}
      /\ worker'.alive = worker.alive /\ worker'.prompt = worker.prompt
  BY <1>1, <1>2 DEF Types, WorkerTyped, WorkerRecord
<1>4. /\ prompt' \in [Prompts -> PromptRecord]
      /\ \A q \in Prompts :
           /\ prompt'[q].wants = prompt[q].wants /\ prompt'[q].path = prompt[q].path
           /\ prompt'[q].under = prompt[q].under
           /\ prompt'[q].at = prompt[q].at
              \/ (prompt[q].at = "sent" /\ prompt'[q].at = "answered")
  BY <1>1, <1>2, UnblockedTyped
<1>5. (\A stages : HeadAt(stages)' <=> HeadAt(stages)) /\ Forking' = Forking
  BY <1>1, OperationsSame
<1>6. Chains'
  BY <1>1, <1>2, <1>4, ChainsSame DEF StaysQueued
<1>7. Types'
  <2>1. ChainsTyped'
    BY <1>1, <1>2 DEF Types, ChainsTyped
  <2>2. loose' \in BOOLEAN
    BY <1>1, <1>2 DEF Types, RestTyped
  <2> QED BY <1>1, <1>2, <1>3, <1>4, <2>1, <2>2 DEF Types, PromptsTyped, WorkerTyped, RestTyped
<1>8. Committed'
  BY <1>1, <1>2, <1>3, <1>4 DEF Committed, PromptRunsAsAsked
<1>9. SwapStages' /\ Listeners' /\ Ending'
  BY <1>1, <1>2, <1>3, <1>5 DEF SwapStages, Listeners, Ending
<1>10. Undisturbed'
  BY <1>1, <1>2, <1>3, <1>4, <1>5 DEF Undisturbed
<1>11. Awaits'
  <2>1. SUFFICES ASSUME ~loose' PROVE Awaits'
    BY DEF Awaits
  <2>2. ~Forking /\ \A q \in Prompts : ~AsksLater(q)
    BY <1>1, <2>1
  <2>3. \A q \in Prompts : ~ (prompt'[q].path = "before" /\ prompt'[q].at \in {"sent", "answered"})
    BY <1>4, <2>2 DEF AsksLater
  <2> QED BY <1>1, <1>5, <2>2, <2>3 DEF Awaits
<1> QED BY <1>6, <1>7, <1>8, <1>9, <1>10, <1>11 DEF SwapIInv

LEMMA Terminating ==
  ASSUME SwapIInv, Terminate
  PROVE  SwapIInv'
<1>1. /\ deletion = "awaiting" /\ awaited = 0
      /\ UNCHANGED <<openUI, isStreaming, transitions, operations, connected, subscribed,
                     wrapperPrompt, disposed, awaited, forkAsked, forks, swapFaults, killed,
                     during, loose>>
  BY DEF Terminate, counts, swapHistory
<1>2. /\ Types /\ Chains /\ Committed /\ SwapStages /\ Listeners /\ Undisturbed /\ Awaits /\ Ending
      /\ PromptsTyped /\ worker \in WorkerRecord
  BY DEF SwapIInv, Types, WorkerTyped
<1>3. (\A stages : HeadAt(stages)' <=> HeadAt(stages)) /\ Forking' = Forking
  BY <1>1, OperationsSame
<1>4. ~disposed
  BY <1>1, <1>2 DEF Ending
<1>5. ASSUME prompt' \in [Prompts -> PromptRecord],
             \A q \in Prompts :
               /\ prompt'[q].wants = prompt[q].wants /\ prompt'[q].path = prompt[q].path
               /\ prompt'[q].under = prompt[q].under
               /\ prompt'[q].at = prompt[q].at
                  \/ (prompt[q].at = "sent" /\ prompt'[q].at = "answered"),
             worker' \in WorkerRecord,
             worker' = worker \/ (~worker'.alive /\ worker'.turn = {} /\ worker'.run = "none"),
             deletion' \in {"terminated", "failing"},
             ~loose /\ swapFaults = 0 => ~worker'.alive
      PROVE  SwapIInv'
  <2>1. Chains'
    BY <1>1, <1>2, <1>5, ChainsSame DEF StaysQueued
  <2>2. Types'
    BY <1>1, <1>2, <1>5 DEF Types, PromptsTyped, ChainsTyped, WorkerTyped, RestTyped
  <2>3. Committed'
    BY <1>1, <1>2, <1>5 DEF Committed, PromptRunsAsAsked
  <2>4. SwapStages' /\ Listeners' /\ Ending'
    BY <1>1, <1>2, <1>3, <1>4, <1>5 DEF SwapStages, Listeners, Ending
  <2>5. Undisturbed'
    BY <1>1, <1>2, <1>3, <1>5 DEF Undisturbed
  <2>6. Awaits'
    BY <1>1, <1>2, <1>3, <1>5 DEF Awaits
  <2> QED BY <2>1, <2>2, <2>3, <2>4, <2>5, <2>6 DEF SwapIInv
<1>6. CASE /\ worker' = NoWorker /\ prompt' = Unblocked(worker.turn)
           /\ deletion' = "terminated"
  <2>1. NoWorker \in WorkerRecord /\ ~ NoWorker.alive /\ NoWorker.turn = {}
        /\ NoWorker.run = "none"
    BY NewWorkerTyped DEF States
  <2>2. /\ prompt' \in [Prompts -> PromptRecord]
        /\ \A q \in Prompts :
             /\ prompt'[q].wants = prompt[q].wants /\ prompt'[q].path = prompt[q].path
             /\ prompt'[q].under = prompt[q].under
             /\ prompt'[q].at = prompt[q].at
                \/ (prompt[q].at = "sent" /\ prompt'[q].at = "answered")
    BY <1>2, <1>6, UnblockedTyped
  <2> QED BY <1>5, <1>6, <2>1, <2>2
<1>7. CASE /\ ~ (connected /\ worker.alive)
           /\ deletion' = "failing" /\ UNCHANGED <<worker, prompt>>
  <2>1. ASSUME ~loose, swapFaults = 0 PROVE FALSE
    <3>1. Len(transitions) = 0 /\ ~Forking
      BY <1>1, <1>2, <2>1 DEF Awaits
    <3>2. transitions = <<>>
      BY <1>2, <3>1 DEF Types, ChainsTyped
    <3>3. operations = <<>>
      BY <1>2, <3>1, <3>2, AtHead
    <3> QED BY <1>1, <1>2, <1>7, <2>1, <3>3 DEF Ending, HeadAt
  <2>2. prompt \in [Prompts -> PromptRecord]
    BY <1>2 DEF PromptsTyped
  <2> QED BY <1>2, <1>5, <1>7, <2>1, <2>2
<1> QED BY <1>6, <1>7 DEF Terminate

LEMMA DisposalBeginning ==
  ASSUME SwapIInv, DisposeBegins
  PROVE  SwapIInv'
<1>1. /\ deletion \in {"terminated", "failing"} /\ disposed' = TRUE
      /\ UNCHANGED <<prompt, openUI, isStreaming, transitions, operations, connected,
                     subscribed, wrapperPrompt, worker, deletion, awaited, forkAsked, forks,
                     swapFaults, killed, during, loose>>
  BY DEF DisposeBegins, bridgeState, wrapperState, counts, swapHistory
<1>2. Types /\ Chains /\ Committed /\ SwapStages /\ Listeners /\ Undisturbed /\ Awaits /\ Ending
  BY DEF SwapIInv
<1>3. (\A stages : HeadAt(stages)' <=> HeadAt(stages)) /\ Forking' = Forking
  BY <1>1, OperationsSame
<1>4. Chains'
  BY <1>1, <1>2, ChainsSame DEF StaysQueued
<1>5. Types'
  BY <1>1, <1>2 DEF Types, PromptsTyped, ChainsTyped, WorkerTyped, RestTyped
<1>6. Committed'
  BY <1>1, <1>2 DEF Committed, PromptRunsAsAsked
<1>7. SwapStages' /\ Listeners' /\ Ending'
  BY <1>1, <1>2, <1>3 DEF SwapStages, Listeners, Ending
<1>8. Undisturbed' /\ Awaits'
  BY <1>1, <1>2, <1>3 DEF Undisturbed, Awaits
<1> QED BY <1>4, <1>5, <1>6, <1>7, <1>8 DEF SwapIInv

LEMMA DisposalEnding ==
  ASSUME SwapIInv, DisposeEnds
  PROVE  SwapIInv'
<1>1. /\ disposed /\ operations = <<>> /\ deletion' = "gone"
      /\ connected' = FALSE /\ subscribed' = FALSE
      /\ UNCHANGED <<prompt, openUI, isStreaming, transitions, operations, wrapperPrompt,
                     worker, disposed, awaited, forkAsked, forks, swapFaults, killed, during,
                     loose>>
  BY DEF DisposeEnds, TailSettled, bridgeState, counts, swapHistory
<1>2. Types /\ Chains /\ Committed /\ SwapStages /\ Listeners /\ Undisturbed /\ Awaits /\ Ending
  BY DEF SwapIInv
<1>3. deletion \notin {"no", "awaiting"}
  BY <1>1, <1>2 DEF Ending
<1>4. (\A stages : ~ HeadAt(stages)' /\ ~ HeadAt(stages)) /\ Forking' = Forking
  BY <1>1 DEF HeadAt, Forking
<1>5. Chains'
  BY <1>1, <1>2, ChainsSame DEF StaysQueued
<1>6. Types'
  BY <1>1, <1>2 DEF Types, PromptsTyped, ChainsTyped, WorkerTyped, RestTyped
<1>7. Committed'
  BY <1>1, <1>2 DEF Committed, PromptRunsAsAsked
<1>8. SwapStages' /\ Listeners' /\ Ending'
  BY <1>1, <1>2, <1>3, <1>4 DEF SwapStages, Listeners, Ending
<1>9. Undisturbed'
  BY <1>1, <1>2, <1>4 DEF Undisturbed
<1>10. Awaits'
  BY <1>1, <1>2, <1>3, <1>4 DEF Awaits
<1> QED BY <1>5, <1>6, <1>7, <1>8, <1>9, <1>10 DEF SwapIInv

------------------------------------------------------------------------------
(* The invariant                                                             *)

LEMMA SwapBegins == SwapInit => SwapIInv
<1> SUFFICES ASSUME SwapInit PROVE SwapIInv
  OBVIOUS
<1>1. /\ prompt \in [Prompts -> [at : {"unsent"}, wants : States, path : {"none"},
                                 under : {"none"}]]
      /\ openUI = "plain" /\ isStreaming = FALSE /\ transitions = <<>>
      /\ operations = <<>> /\ connected = TRUE /\ subscribed = TRUE
      /\ wrapperPrompt = "plain" /\ worker = NewWorker("plain")
      /\ disposed = FALSE /\ deletion = "no" /\ awaited = 0
      /\ forkAsked = FALSE /\ forks = 0 /\ swapFaults = 0
      /\ killed = {} /\ during = {} /\ loose = FALSE
  BY DEF SwapInit
<1>2. "plain" \in States
  BY DEF States
<1>3. /\ worker \in WorkerRecord /\ worker.alive /\ worker.prompt = "plain"
      /\ worker.turn = {} /\ worker.run = "none"
  BY <1>1, <1>2, NewWorkerTyped
<1>4. \A p \in Prompts : /\ prompt[p] \in PromptRecord /\ prompt[p].at = "unsent"
                         /\ prompt[p].under = "none" /\ prompt[p].path = "none"
  BY <1>1 DEF PromptRecord, Paths
<1>5. transitions \in Seq(TransitionRecord) /\ operations \in Seq(OperationRecord)
      /\ Len(transitions) = 0 /\ Len(operations) = 0 /\ DOMAIN operations = {}
  BY <1>1
<1>6. (\A stages : ~ HeadAt(stages)) /\ ~Forking
  BY <1>1, <1>5 DEF HeadAt, Forking
<1>7. Types
  <2>1. PromptsTyped
    BY <1>1, <1>4 DEF PromptsTyped
  <2>2. ChainsTyped
    BY <1>1, <1>5 DEF ChainsTyped
  <2>3. WorkerTyped /\ RestTyped
    BY <1>1, <1>2, <1>3 DEF WorkerTyped, RestTyped
  <2> QED BY <2>1, <2>2, <2>3 DEF Types
<1>8. Chains
  BY <1>5 DEF Chains
<1>9. Committed
  BY <1>1, <1>3, <1>4 DEF Committed, PromptRunsAsAsked
<1>10. SwapStages /\ Listeners /\ Ending
  BY <1>1, <1>3, <1>6 DEF SwapStages, Listeners, Ending
<1>11. Undisturbed /\ Awaits
  BY <1>1, <1>3, <1>6 DEF Undisturbed, Awaits
<1> QED BY <1>7, <1>8, <1>9, <1>10, <1>11 DEF SwapIInv

LEMMA Stuttering ==
  ASSUME SwapIInv, UNCHANGED swapVars
  PROVE  SwapIInv'
<1>1. UNCHANGED <<prompt, openUI, isStreaming, transitions, operations, connected, subscribed,
                  wrapperPrompt, worker, disposed, deletion, awaited, forkAsked, forks,
                  swapFaults, killed, during, loose>>
  BY DEF swapVars, bridgeState, wrapperState, endState, counts, swapHistory
<1>2. Types /\ Chains /\ Committed /\ SwapStages /\ Listeners /\ Undisturbed /\ Awaits /\ Ending
  BY DEF SwapIInv
<1>3. (\A stages : HeadAt(stages)' <=> HeadAt(stages)) /\ Forking' = Forking
  BY <1>1, OperationsSame
<1>4. Chains'
  BY <1>1, <1>2, ChainsSame DEF StaysQueued
<1>5. Types'
  BY <1>1, <1>2 DEF Types, PromptsTyped, ChainsTyped, WorkerTyped, RestTyped
<1>6. Committed'
  BY <1>1, <1>2 DEF Committed, PromptRunsAsAsked
<1>7. SwapStages' /\ Listeners' /\ Ending'
  BY <1>1, <1>2, <1>3 DEF SwapStages, Listeners, Ending
<1>8. Undisturbed' /\ Awaits'
  BY <1>1, <1>2, <1>3 DEF Undisturbed, Awaits
<1> QED BY <1>4, <1>5, <1>6, <1>7, <1>8 DEF SwapIInv

LEMMA Step == SwapIInv /\ [SwapNext]_swapVars => SwapIInv'
<1> SUFFICES ASSUME SwapIInv, [SwapNext]_swapVars PROVE SwapIInv'
  OBVIOUS
<1>1. CASE UNCHANGED swapVars
  BY <1>1, Stuttering
<1>2. ASSUME NEW p \in Prompts, Send(p) \/ Answered(p) PROVE SwapIInv'
  BY <1>2, Sending, PromptAsked
<1>3. CASE StartTransition \/ SkipTransition
  BY <1>3, SwapStarted, Skipping
<1>4. CASE TurnStarts \/ TurnPauses \/ TurnEnds
  BY <1>4, Turning, TurnEnding
<1>5. CASE Begin \/ WorkerIdle \/ ForkRefused \/ DisposeCurrent \/ KillWorker \/ Adopt
  BY <1>5, Beginning, Idling, Refusing, Disposing, Killing, Adopting
<1>6. CASE SwapFails \/ AskFork \/ RequestFork
  BY <1>6, SwapFailing, ForkAsking, ForkRequesting
<1>7. CASE DeleteBegins \/ Terminate \/ DisposeBegins \/ DisposeEnds
  BY <1>7, Deleting, Terminating, DisposalBeginning, DisposalEnding
<1> QED BY <1>1, <1>2, <1>3, <1>4, <1>5, <1>6, <1>7 DEF SwapNext

LEMMA Invariance == SwapSpec => []SwapIInv
<1>1. SwapInit => SwapIInv
  BY SwapBegins
<1>2. SwapIInv /\ [SwapNext]_swapVars => SwapIInv'
  BY Step
<1> QED BY <1>1, <1>2, PTL DEF SwapSpec

------------------------------------------------------------------------------
(* The theorems                                                              *)

(* The variables keep their types; every queued transition is that of a      *)
(* prompt that waits for it, and a deletion never awaits more than there are. *)
THEOREM SwapTypeCorrect == SwapSpec => []SwapTypeOK
<1>1. SwapIInv => SwapTypeOK
  <2> SUFFICES ASSUME SwapIInv PROVE SwapTypeOK
    OBVIOUS
  <2>1. Types /\ Chains
    BY DEF SwapIInv
  <2>2. \A p \in Prompts :
          prompt[p].at \in {"unsent", "transition", "sent", "answered", "over"}
    <3>1. \A x \in PromptRecord :
            x.at \in {"unsent", "transition", "sent", "answered", "over"}
      BY DEF PromptRecord
    <3> QED BY <2>1, <3>1 DEF Types, PromptsTyped
  <2>3. \A i \in DOMAIN transitions : prompt[transitions[i].prompt].at = "transition"
    BY <2>1 DEF Types, ChainsTyped, Chains
  <2>4. worker.turn \subseteq Prompts /\ worker.run \in {"none", "turn", "pause"}
    BY <2>1 DEF Types, WorkerTyped, WorkerRecord
  <2>5. awaited \in 0 .. Len(transitions)
    BY <2>1 DEF Types, ChainsTyped
  <2> QED BY <2>1, <2>2, <2>3, <2>4, <2>5 DEF SwapTypeOK, Types, RestTyped
<1> QED BY <1>1, Invariance, PTL

(* However prompts, transitions, forks, failing swaps and a deletion         *)
(* interleave, a prompt is sent to a worker made for the prompt text it asks *)
(* for, unless it joined a running turn and asks for its transition after.   *)
THEOREM SentToItsWorker == SwapSpec => []PromptRunsAsAsked
<1>1. SwapIInv => PromptRunsAsAsked
  BY DEF SwapIInv, Committed
<1> QED BY <1>1, Invariance, PTL

(* No swap kills the turn of a prompt, unless one was sent beside a fork or  *)
(* a deletion.                                                               *)
THEOREM TurnsSurviveSwaps == SwapSpec => []NoTurnKilled
<1>1. SwapIInv => NoTurnKilled
  BY DEF SwapIInv, Undisturbed, NoTurnKilled
<1> QED BY <1>1, Invariance, PTL

(* Between swaps the bridge listens to the connection at hand, also after a  *)
(* fork that failed or was refused, and knows whether a turn runs.           *)
THEOREM BridgeListens == SwapSpec => []ListenersFollow
<1>1. SwapIInv => ListenersFollow
  BY DEF SwapIInv, Listeners, Undisturbed, HeadAt, ListenersFollow
<1> QED BY <1>1, Invariance, PTL

(* A finished deletion has closed the connection, and terminated the worker  *)
(* when neither a fork, a later prompt nor a failed swap came in between.    *)
THEOREM DeletionLeavesNothing == SwapSpec => []NothingLeftBehind
<1>1. SwapIInv => NothingLeftBehind
  <2> SUFFICES ASSUME SwapIInv, deletion = "gone" PROVE ~connected /\ (~loose => (~worker.alive \/ swapFaults > 0))
    BY DEF NothingLeftBehind
  <2>1. ~connected
    BY DEF SwapIInv, Ending
  <2>2. ~loose /\ swapFaults = 0 => ~worker.alive
    BY DEF SwapIInv, Awaits
  <2>3. swapFaults \in Nat
    BY DEF SwapIInv, Types, RestTyped
  <2> QED BY <2>1, <2>2, <2>3
<1> QED BY <1>1, Invariance, PTL
==============================================================================
