------------------------------ MODULE RunTranscript ------------------------------
(***************************************************************************)
(* From the events of a run to the bubble in the transcript: the mapper    *)
(* turns what the runtime says into frames and builds the message of the   *)
(* terminal `done` frame (web/server/src/event-mapper.ts); the browser     *)
(* folds the frames into the parts of one bubble and merges `done` over    *)
(* them (web/app/src/components/chat/chat-stream-state.ts).                *)
(*                                                                         *)
(* Frames arrive in order here; how they travel is the subject of          *)
(* SseReplay and Turn.  The runtime is external: it says messages made of  *)
(* blocks.  A block is a number; a thought or a call is known by it, but a *)
(* block of text says a word, which others may say too, so a text is a     *)
(* sequence of words.  Left out: the presentation, user messages, images,  *)
(* payloads, and what a tool returns.                                      *)
(***************************************************************************)
EXTENDS Integers, SequencesExt

CONSTANTS
  MaxBlocks,        \* bound: blocks of the run, all messages together
  MaxResyncs,       \* bound: resyncs during the run
  Word              \* what each block says if it is a text

ASSUME RunTranscriptAssumption ==
  {MaxBlocks, MaxResyncs} \subseteq Nat /\ Word \in [1 .. MaxBlocks -> Nat]

VARIABLES
  run,              \* the runtime: how it streams and how far it is
  mapper,           \* EventMapperState
  bubble,           \* the parts of the assistant's bubble
  said,             \* history: the texts of the run, in order
  spoken,           \* history: the text of each message that ended
  echoed,           \* history: a text that was not streamed repeated the run
  thought,          \* history: the thinking blocks that were streamed
  outcome,          \* history: how each executed tool call ended
  upset             \* history: a resync or a failed message replaced state

runVars == <<run, mapper, bubble, said, spoken, echoed, thought, outcome, upset>>

Block(kind, n) == [kind |-> kind, n |-> n]

TextPart(text)                  == [kind |-> "text", text |-> text]
ReasoningPart(index, text, end) == [kind |-> "reasoning", index |-> index, text |-> text,
                                    state |-> end]
ToolPart(n, named, state)       == [kind |-> "tool", n |-> n, named |-> named, state |-> state]
SummaryPart                     == [kind |-> "summary"]
ErrorPart                       == [kind |-> "error"]

Nothing == [x \in {} |-> <<>>]

With(f, x, y)    == [z \in DOMAIN f \union {x} |-> IF z = x THEN y ELSE f[z]]
Without(f, x)    == [z \in DOMAIN f \ {x} |-> f[z]]
Least(S)         == CHOOSE x \in S : \A y \in S : x <= y
Greatest(S)      == CHOOSE x \in S : \A y \in S : y <= x

(* What findIndex returns, of the positions where its test holds; 0 is none. *)
First(S)         == IF S = {} THEN 0 ELSE Least(S)

(* The members of a finite set of numbers in their order, and the parts or   *)
(* blocks at such positions.                                                 *)
Ascending(S)     == [k \in 1 .. Cardinality(S) |->
                       CHOOSE x \in S : Cardinality({y \in S : y <= x}) = k]
Picked(seq, S)   == [k \in 1 .. Cardinality(S) |-> seq[Ascending(S)[k]]]

(* The positions of the parts or blocks of a kind.                           *)
At(seq, kind)    == {i \in DOMAIN seq : seq[i].kind = kind}

------------------------------------------------------------------------------
(* The mapper: each operator returns the new state and the frames            *)

Reset ==
  [text |-> <<>>, reasoning |-> Nothing, claimed |-> {}, next |-> 0,
   active |-> Nothing, indexOf |-> Nothing, message |-> <<>>, tools |-> <<>>,
   starts |-> {}, failed |-> FALSE]

(* Mutant: an episode takes the runtime's index, also when it was used.      *)
RuntimeIndex(m, r) == r

(* An index no part of this run has.                                         *)
FreshIndex(m, r) ==
  IF r \notin m.claimed THEN r
  ELSE LET from == IF m.next > r THEN m.next ELSE r + 1
       IN  Least({i \in from .. from + Cardinality(m.claimed) : i \notin m.claimed})

Claimed(m, r, index) ==
  [m EXCEPT !.claimed = @ \union {index},
            !.next = IF @ > index THEN @ ELSE index + 1,
            !.indexOf = With(@, r, index)]

(* beginReasoningEpisode                                                     *)
Opened(m, r) ==
  LET index == FreshIndex(m, r)
  IN  [Claimed(m, r, index) EXCEPT !.active = With(@, r, index)]

(* resolveActiveReasoningEpisode                                             *)
Resolved(m, r) == IF r \in DOMAIN m.active THEN m ELSE Opened(m, r)

TextOf(m, index) == IF index \in DOMAIN m.reasoning THEN m.reasoning[index] ELSE <<>>

Reasoning(phase, index, text) ==
  [type |-> "reasoning_text", phase |-> phase, index |-> index, text |-> text]

(* closeActiveReasoningEpisodes                                              *)
Closing(m) ==
  [i \in 1 .. Cardinality(DOMAIN m.active) |->
     LET index == m.active[Ascending(DOMAIN m.active)[i]]
     IN  Reasoning("end", index, TextOf(m, index))]

Closed(m) == [m EXCEPT !.active = Nothing]

(* appendFinalAssistantText: what was streamed already is not said twice; nor  *)
(* is a text that only reads like the end of the run, and one that begins like *)
(* the whole run takes its place.                                              *)
FinalText(text, final) ==
  IF IsSuffix(final, text) THEN text
  ELSE IF IsPrefix(text, final) THEN final
  ELSE text \o final

Texts(blocks) ==
  LET texts == Picked(blocks, At(blocks, "text"))
  IN  [k \in DOMAIN texts |-> Word[texts[k].n]]

CallsIn(blocks) == {blocks[k].n : k \in At(blocks, "tool")}

ToolAt(tools, n) == First({i \in DOMAIN tools : tools[i].n = n})

(* upsertCurrentToolPart                                                     *)
Upserted(tools, part) ==
  LET i == ToolAt(tools, part.n)
  IN  IF i = 0 THEN Append(tools, part) ELSE ReplaceAt(tools, i, part)

(* A toolCall block carries no result; a failure recorded before is kept.    *)
SettledState(tools, n) ==
  IF ToolAt(tools, n) # 0 /\ tools[ToolAt(tools, n)].state = "error"
  THEN "error" ELSE "available"

(* rememberAssistantMessage                                                  *)
Remembered(m, blocks, failed) ==
  LET known == [i \in DOMAIN m.tools |->
                  IF m.tools[i].n \in CallsIn(blocks)
                  THEN ToolPart(m.tools[i].n, TRUE, SettledState(m.tools, m.tools[i].n))
                  ELSE m.tools[i]]
      new   == Picked(blocks, {k \in At(blocks, "tool") : ToolAt(m.tools, blocks[k].n) = 0})
  IN  [m EXCEPT !.message = blocks,
                !.text = FinalText(@, Texts(blocks)),
                !.tools = known \o [k \in DOMAIN new |->
                                      ToolPart(new[k].n, TRUE, SettledState(m.tools, new[k].n))],
                !.failed = failed]

(* The message it returns, which a message that failed is sent as.           *)
MessageParts(m, blocks) ==
  LET own == [k \in DOMAIN blocks |->
                CASE blocks[k].kind = "text" -> TextPart(<<Word[blocks[k].n]>>)
                  [] blocks[k].kind = "tool" -> ToolPart(blocks[k].n, TRUE, "available")
                  [] OTHER ->
                       LET index == IF (k - 1) \in DOMAIN m.indexOf THEN m.indexOf[k - 1]
                                    ELSE k - 1
                       IN  ReasoningPart(index, IF index \in DOMAIN m.reasoning
                                                THEN m.reasoning[index] ELSE <<blocks[k].n>>,
                                         "complete")]
      shown == {own[k].index : k \in At(own, "reasoning")}
      more  == Ascending(DOMAIN m.reasoning \ shown)
  IN  own \o [i \in DOMAIN more |-> ReasoningPart(more[i], m.reasoning[more[i]], "complete")]
          \o <<ErrorPart>>

(* resolveToolIdentity and toolNameForEvent: the name comes with the start   *)
(* only; later frames find it in what was learned, in the message, or in the *)
(* part that was made from it.                                               *)
NameKnown(m, n) ==
  \/ n \in m.starts
  \/ Block("tool", n) \in Range(m.message)
  \/ ToolAt(m.tools, n) # 0 /\ m.tools[ToolAt(m.tools, n)].named

(* Mutant: a resync starts without the calls of the snapshot.                *)
SeededWithNothing(blocks) == {}

(* seedToolCallStartsFromMessages, of the last message of the snapshot.      *)
Seeded(blocks) == CallsIn(blocks)

HasReasoning(parts, index) == \E i \in At(parts, "reasoning") : parts[i].index = index

(* The episodes below `index` that no part shows yet, in their order.        *)
Pending(m, parts, below) ==
  LET rest == Ascending({i \in DOMAIN m.reasoning : i < below /\ ~HasReasoning(parts, i)})
  IN  [i \in DOMAIN rest |-> ReasoningPart(rest[i], m.reasoning[rest[i]], "complete")]

(* finalizeAssistantMessage, one block of the last message: acc is the state *)
(* with the parts so far.                                                    *)
WithText(acc, n) ==
  IF At(acc.parts, "text") # {} THEN acc
  ELSE [acc EXCEPT !.parts = Append(@, TextPart(IF acc.m.text = <<>> THEN <<Word[n]>>
                                                ELSE acc.m.text))]

WithThought(acc, r, n) ==
  LET known == r \in DOMAIN acc.m.indexOf
      index == IF known THEN acc.m.indexOf[r] ELSE FreshIndex(acc.m, r)
      parts == acc.parts \o Pending(acc.m, acc.parts, index)
      text  == IF index \in DOMAIN acc.m.reasoning THEN acc.m.reasoning[index] ELSE <<n>>
  IN  [m |-> IF known THEN acc.m ELSE Claimed(acc.m, r, index),
       parts |-> IF HasReasoning(parts, index) THEN parts
                 ELSE Append(parts, ReasoningPart(index, text, "complete"))]

WithCall(acc, n) ==
  LET i == ToolAt(acc.m.tools, n)
  IN  IF i = 0 THEN acc ELSE [acc EXCEPT !.parts = Append(@, acc.m.tools[i])]

Finalized(acc, k) ==
  LET b == acc.m.message[k]
  IN  CASE b.kind = "text"     -> WithText(acc, b.n)
        [] b.kind = "thinking" -> WithThought(acc, k - 1, b.n)
        [] b.kind = "tool"     -> WithCall(acc, b.n)

Building(m) ==
  LET built[k \in 0 .. Len(m.message)] ==
        IF k = 0 THEN [m |-> m, parts |-> <<>>] ELSE Finalized(built[k - 1], k)
  IN  built[Len(m.message)]

(* The tools of the run that the last message does not call.                 *)
OtherTools(m) == Picked(m.tools, {i \in DOMAIN m.tools : m.tools[i].n \notin CallsIn(m.message)})

DoneParts(m) ==
  LET parts == Building(m).parts
      told  == IF m.text = <<>> \/ At(parts, "text") # {} THEN parts
               ELSE Append(parts, TextPart(m.text))
  IN  told \o Pending(m, told, m.next) \o OtherTools(m)
           \o IF m.failed THEN <<ErrorPart>> ELSE <<>>

------------------------------------------------------------------------------
(* The bubble                                                                *)

(* appendAssistantDelta                                                      *)
Appended(parts, text) ==
  LET i == First(At(parts, "text"))
  IN  IF i = 0 THEN Append(parts, TextPart(text))
      ELSE ReplaceAt(parts, i, TextPart(parts[i].text \o text))

(* Before the part at a position, or at the end if there is none.            *)
PutBefore(parts, gap, part) ==
  IF gap = 0 THEN Append(parts, part) ELSE InsertAt(parts, gap, part)

(* applyAssistantReasoningText                                               *)
Reasoned(parts, f) ==
  LET of(state) == {i \in At(parts, "reasoning") : parts[i].index = f.index
                                                     /\ parts[i].state = state}
      streaming == of("streaming")
      completed == IF f.phase = "delta" THEN {} ELSE of("complete")
      found     == IF streaming # {} THEN streaming ELSE completed
      anew      == found = {} \/ (f.phase = "start" /\ streaming = {})
      previous  == IF anew THEN <<>> ELSE parts[Greatest(found)].text
      text      == CASE f.phase = "start" -> f.text
                     [] f.phase = "delta" -> previous \o f.text
                     [] OTHER -> IF f.text = <<>> THEN previous ELSE f.text
      part      == ReasoningPart(f.index, text,
                                 IF f.phase = "end" THEN "complete" ELSE "streaming")
  IN  IF f.phase = "end" /\ streaming = {} /\ completed # {} THEN parts
      ELSE IF ~anew THEN ReplaceAt(parts, Greatest(found), part)
      ELSE PutBefore(parts, First({i \in At(parts, "text") : parts[i].text = <<>>}), part)

Placed(parts, part) == PutBefore(parts, First(At(parts, "text")), part)

(* upsertToolPart: a part is found by its call and its type, so a call whose *)
(* name is not known is another part.                                        *)
ToolShown(parts, part) ==
  LET i == First({i \in At(parts, "tool") : parts[i].n = part.n
                                               /\ parts[i].named = part.named})
  IN  IF i # 0 THEN ReplaceAt(parts, i, part) ELSE Placed(parts, part)

(* The summary of the reasoning, a tool part of its own.                     *)
SummaryShown(parts) ==
  IF SummaryPart \in Range(parts) THEN parts ELSE Placed(parts, SummaryPart)

(* mergeStreamedPartsOntoTerminal.  A part of the bubble matches parts of    *)
(* `done` by what it is: an error none.                                      *)
Matches(streamed, final) ==
  /\ streamed.kind = final.kind
  /\ streamed.kind \in {"text", "reasoning", "tool", "summary"}
  /\ streamed.kind = "reasoning" => streamed.index = final.index
  /\ streamed.kind = "tool" => streamed.n = final.n /\ streamed.named = final.named

(* The part of `done` that takes the place of a streamed one: of those that  *)
(* match, the first that no part before it took.                             *)
Taken(streamed, final) ==
  [i \in DOMAIN streamed |->
     LET before  == {j \in 1 .. i - 1 : Matches(streamed[j], streamed[i])}
         matches == {t \in DOMAIN final : Matches(streamed[i], final[t])}
     IN  IF Cardinality(before) < Cardinality(matches)
         THEN Ascending(matches)[Cardinality(before) + 1] ELSE 0]

(* The others are carried, unless they are an empty text, before the part of *)
(* `done` that the next streamed part with one has.                          *)
Carried(streamed, final, t) ==
  LET at        == Taken(streamed, final)
      anchor(i) == LET later == {j \in DOMAIN at : j > i /\ at[j] # 0}
                   IN  IF later = {} THEN Len(final) + 1 ELSE at[Least(later)]
      kept      == {i \in DOMAIN at : at[i] = 0 /\ streamed[i] # TextPart(<<>>)}
  IN  Picked([i \in DOMAIN streamed |->
                IF streamed[i].kind = "reasoning"
                THEN [streamed[i] EXCEPT !.state = "complete"] ELSE streamed[i]],
             {i \in kept : anchor(i) = t})

(* The summary never has a match, so there is always a part to carry.        *)
Weaving(streamed, final) ==
  LET woven[t \in 0 .. Len(final)] ==
        IF t = 0 THEN <<>> ELSE Append(woven[t - 1] \o Carried(streamed, final, t), final[t])
  IN  woven[Len(final)]

Merged(streamed, final) ==
  Weaving(streamed, final) \o Carried(streamed, final, Len(final) + 1)

(* applyChatStreamEvent                                                      *)
Folded(parts, f) ==
  CASE f.type = "delta"          -> Appended(parts, f.text)
    [] f.type = "reasoning_text" -> Reasoned(parts, f)
    [] f.type = "tool"           -> ToolShown(parts, f.part)
    [] f.type = "summary"        -> SummaryShown(parts)
    [] f.type = "message"        -> f.parts
    [] f.type = "done"           -> Merged(parts, f.parts)

------------------------------------------------------------------------------
(* Events                                                                    *)

(* A bubble after the frames of an event.                                    *)
Shown(parts, frames) ==
  LET after[i \in 0 .. Len(frames)] ==
        IF i = 0 THEN parts ELSE Folded(after[i - 1], frames[i])
  IN  after[Len(frames)]

Says(m, frames) ==
  /\ mapper' = m
  /\ bubble' = Shown(bubble, frames)

Delta(text)      == [type |-> "delta", text |-> text]
ToolFrame(part)  == [type |-> "tool", part |-> part]
SummaryFrame     == [type |-> "summary"]

(* message_start and, from some providers, a `start` update.                 *)
MessageStarts ==
  /\ run.at = "idle" /\ run.calls = {} /\ run.blocks < MaxBlocks
  /\ run' = [run EXCEPT !.at = "message", !.message = <<>>, !.open = "none"]
  /\ Says(IF run.announces THEN [mapper EXCEPT !.reasoning = Nothing, !.active = Nothing,
                                      !.indexOf = Nothing]
          ELSE mapper, <<>>)
  /\ UNCHANGED <<said, spoken, echoed, thought, outcome, upset>>

NextBlock == run.blocks + 1
HasNext   == run.at = "message" /\ run.blocks < MaxBlocks

Adding(kind, open) ==
  run' = [run EXCEPT !.blocks = NextBlock, !.open = open,
                     !.message = Append(@, Block(kind, NextBlock))]

(* The content index of the runtime's last block.                            *)
Last0 == Len(run.message) - 1

(* thinking_start; with providers that announce their messages a block may   *)
(* also begin with its first delta.                                          *)
ThinkingStarts ==
  /\ HasNext /\ run.streams
  /\ Adding("thinking", "started")
  /\ LET r == Len(run.message)
         ended == IF r \in DOMAIN mapper.active
                  THEN <<Reasoning("end", mapper.active[r], TextOf(mapper, mapper.active[r]))>>
                  ELSE <<>>
         m == Opened(mapper, r)
     IN  Says([m EXCEPT !.reasoning = With(@, m.active[r], <<>>)],
              ended \o <<Reasoning("start", m.active[r], <<>>)>>)
  /\ UNCHANGED <<said, spoken, echoed, thought, outcome, upset>>

ThinkingDelta ==
  /\ run.streams
  /\ \/ HasNext /\ run.announces /\ Adding("thinking", "told")
     \/ run.open = "started" /\ run' = [run EXCEPT !.open = "told"]
  /\ LET r == Len(run'.message) - 1
         m == Resolved(mapper, r)
         index == m.active[r]
         n == run'.message[r + 1].n
         begun == IF r \in DOMAIN mapper.active THEN <<>>
                  ELSE <<Reasoning("start", index, <<>>)>>
     IN  /\ Says([m EXCEPT !.reasoning = With(@, index, Append(TextOf(m, index), n))],
                 Append(begun, Reasoning("delta", index, <<n>>)))
         /\ thought' = thought \union {n}
  /\ UNCHANGED <<said, spoken, echoed, outcome, upset>>

(* thinking_end carries the whole text; not every provider sends it.         *)
ThinkingEnds ==
  /\ run.open \in {"started", "told"}
  /\ run' = [run EXCEPT !.open = "none"]
  /\ LET m == Resolved(mapper, Last0)
         index == m.active[Last0]
         n == Last(run.message).n
     IN  /\ Says([m EXCEPT !.reasoning = With(@, index, <<n>>),
                           !.active = Without(@, Last0)],
                 <<Reasoning("end", index, <<n>>)>>)
         /\ thought' = thought \union {n}
  /\ UNCHANGED <<said, spoken, echoed, outcome, upset>>

(* text_start with text_delta; some providers send the text at the end only. *)
Text ==
  /\ HasNext /\ run.open # "started"
  /\ Adding("text", "none")
  /\ said' = Append(said, Word[NextBlock])
  /\ IF run.streams
     THEN Says([Closed(mapper) EXCEPT !.text = Append(@, Word[NextBlock])],
               Append(Closing(mapper), Delta(<<Word[NextBlock]>>)))
     ELSE UNCHANGED <<mapper, bubble>>
  /\ UNCHANGED <<spoken, echoed, thought, outcome, upset>>

(* toolcall_start                                                            *)
Call ==
  /\ HasNext /\ run.open # "started"
  /\ Adding("tool", "none")
  /\ IF run.streams THEN Says(Closed(mapper), Closing(mapper))
     ELSE UNCHANGED <<mapper, bubble>>
  /\ UNCHANGED <<said, spoken, echoed, thought, outcome, upset>>

(* A thought that is said with its message only.                             *)
SilentThought ==
  /\ HasNext /\ ~run.streams
  /\ Adding("thinking", "none")
  /\ UNCHANGED <<mapper, bubble, said, spoken, echoed, thought, outcome, upset>>

(* The last text repeats the end of what was said before it, or all of it.   *)
Echoes(text) ==
  LET before == SubSeq(said, 1, Len(said) - Len(text))
  IN  /\ text # <<>> /\ before # <<>>
      /\ IsSuffix(text, before) \/ IsPrefix(before, text)

(* `done`, which not every provider sends, and message_end.  A message with  *)
(* an error is sent as it is, and replaces what the bubble shows.            *)
MessageEnds(done, failed) ==
  /\ run.at = "message" /\ run.open # "started" /\ run.message # <<>>
  /\ LET first  == IF done THEN Remembered(mapper, run.message, failed) ELSE mapper
         m      == Remembered(first, run.message, failed)
         calls  == IF failed THEN {} ELSE CallsIn(run.message)
     IN  /\ Says(m, IF failed THEN <<[type |-> "message",
                                      parts |-> MessageParts(m, run.message)]>> ELSE <<>>)
         /\ run' = [run EXCEPT !.at = "idle", !.open = "none", !.calls = calls]
  /\ upset' = (upset \/ failed)
  /\ spoken' = spoken \union {Texts(run.message)}
  /\ echoed' = (echoed \/ (~run.streams /\ Echoes(Texts(run.message))))
  /\ UNCHANGED <<said, thought, outcome>>

(* tool_execution_start, the only frame with the name of the tool.           *)
ToolStarts(n) ==
  /\ n \in run.calls \ run.running
  /\ run' = [run EXCEPT !.running = @ \union {n}]
  /\ LET part == ToolPart(n, TRUE, "running")
     IN  Says([Closed(mapper) EXCEPT !.starts = @ \union {n},
                                     !.tools = Upserted(@, part)],
              Append(Closing(mapper), ToolFrame(part)))
  /\ UNCHANGED <<said, spoken, echoed, thought, outcome, upset>>

(* tool_execution_update                                                     *)
ToolReports(n) ==
  /\ n \in run.running
  /\ LET part == ToolPart(n, NameKnown(mapper, n), "running")
     IN  Says([mapper EXCEPT !.tools = Upserted(@, part)], <<ToolFrame(part)>>)
  /\ UNCHANGED <<run, said, spoken, echoed, thought, outcome, upset>>

(* tool_execution_end                                                        *)
ToolEnds(n, state) ==
  /\ n \in run.running
  /\ run' = [run EXCEPT !.running = @ \ {n}, !.calls = @ \ {n}]
  /\ outcome' = With(outcome, n, state)
  /\ LET part == ToolPart(n, NameKnown(mapper, n), state)
     IN  Says([mapper EXCEPT !.starts = @ \ {n}, !.tools = Upserted(@, part)],
              <<ToolFrame(part)>>)
  /\ UNCHANGED <<said, spoken, echoed, thought, upset>>

(* agent_end, with the messages of the run or without; a run that is aborted *)
(* leaves calls that are never executed.                                     *)
RunEnds(listed) ==
  /\ run.at = "idle" /\ run.running = {}
  /\ run' = [run EXCEPT !.at = "over", !.calls = {}]
  /\ LET m == IF listed THEN Remembered(mapper, run.message, mapper.failed) ELSE mapper
     IN  Says([m EXCEPT !.starts = {}],
              <<SummaryFrame, [type |-> "done", parts |-> DoneParts(m)]>>)
  /\ UNCHANGED <<said, spoken, echoed, thought, outcome, upset>>

(* session_resynced: the run is reset, and the calls of the last message of  *)
(* the snapshot are known.  Its `done` frame is ignored by the bubble.       *)
Resync ==
  /\ run.at # "over" /\ run.resyncs < MaxResyncs
  /\ run' = [run EXCEPT !.resyncs = @ + 1]
  /\ Says([Reset EXCEPT !.starts = Seeded(run.message)], <<>>)
  /\ upset' = TRUE
  /\ UNCHANGED <<said, spoken, echoed, thought, outcome>>

------------------------------------------------------------------------------
RunInit ==
  /\ run \in [at : {"idle"}, streams : BOOLEAN, announces : BOOLEAN, message : {<<>>},
              open : {"none"}, blocks : {0}, calls : {{}}, running : {{}}, resyncs : {0}]
  /\ mapper = Reset
  /\ bubble = <<SummaryPart, TextPart(<<>>)>>
  /\ said = <<>> /\ spoken = {} /\ echoed = FALSE
  /\ thought = {} /\ outcome = Nothing /\ upset = FALSE

RunNext ==
  \/ MessageStarts
  \/ ThinkingStarts \/ ThinkingDelta \/ ThinkingEnds \/ Text \/ Call \/ SilentThought
  \/ \E done, failed \in BOOLEAN : MessageEnds(done, failed)
  \/ \E n \in 1 .. MaxBlocks :
       \/ ToolStarts(n) \/ ToolReports(n)
       \/ \E state \in {"available", "error"} : ToolEnds(n, state)
  \/ \E listed \in BOOLEAN : RunEnds(listed)
  \/ Resync

RunSpec == RunInit /\ [][RunNext]_runVars

------------------------------------------------------------------------------
(* Properties                                                                *)

RunTypeOK ==
  /\ run.at \in {"idle", "message", "over"} /\ run.blocks \in 0 .. MaxBlocks
  /\ run.running \subseteq run.calls
  /\ \A r \in DOMAIN mapper.active : mapper.active[r] \in mapper.claimed
  /\ \A i \in mapper.claimed : i < mapper.next
  /\ \A i \in DOMAIN bubble : bubble[i].kind \in {"text", "reasoning", "tool", "summary", "error"}
  /\ Range(said) \subseteq Range(Word) /\ thought \subseteq 1 .. MaxBlocks

(* One part of the bubble is of these, and it is as told.                    *)
Only(S, told) == \E i \in DOMAIN bubble : S = {i} /\ bubble[i] = told

Thoughts(n) == {i \in At(bubble, "reasoning") : bubble[i].text = <<n>>}
Calls(n)    == {i \in At(bubble, "tool") : bubble[i].n = n}

(* A text is read in another, without a break.                               *)
Within(text, whole) ==
  \E i \in 0 .. Len(whole) - Len(text) : SubSeq(whole, i + 1, i + Len(text)) = text

TextsTold ==
  IF said = <<>> THEN At(bubble, "text") = {}
  ELSE \E i \in DOMAIN bubble :
         /\ At(bubble, "text") = {i}
         /\ \A text \in spoken : Within(text, bubble[i].text)
         /\ ~echoed => bubble[i].text = said

(* When a run is over its bubble shows the whole run, however its providers  *)
(* streamed it: the text of every message, without a break and, unless one   *)
(* that was not streamed repeats the run, every text once and in order;      *)
(* every thought that was streamed once and complete, and every call with    *)
(* what became of it; unless a resync or a failed message made the mapper or *)
(* the bubble start over, until the transcript is loaded.  And a call is     *)
(* never shown nameless or twice, not even across a resync.                  *)
DoneShowsTheRun ==
  /\ run.at = "over" /\ ~upset =>
       /\ TextsTold
       /\ \A n \in thought : \E i \in DOMAIN bubble :
            Thoughts(n) = {i} /\ bubble[i].state = "complete"
       /\ \A n \in DOMAIN outcome : Only(Calls(n), ToolPart(n, TRUE, outcome[n]))
  /\ \A i, j \in At(bubble, "tool") :
       bubble[i].named /\ (bubble[i].n = bubble[j].n => i = j)

(* What event-mapper.ts:843 promises for messages whose text comes at their  *)
(* end only: the text of the run keeps that of its earlier messages, what    *)
(* was streamed is not appended again, and all else is.  Refuted: two such   *)
(* messages that say the same are shown as one.                              *)
TextsPreserved ==
  run.at = "over" /\ ~upset /\ said # <<>> => Only(At(bubble, "text"), TextPart(said))
=============================================================================
