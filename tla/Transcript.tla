----------------------------- MODULE Transcript -----------------------------
(***************************************************************************)
(* The transcript readers (internal/transcript): how the session of each   *)
(* agent is frozen at its last complete record and turned into the events  *)
(* of a capsule.  A line of a file is a record of the agent with how it    *)
(* was written: "whole"; "torn", without its newline yet; or "bad", ended  *)
(* by a newline and no JSON.  A record says which turn of the session it   *)
(* tells of; a text is a size in bytes, and a path in it is not looked at. *)
(***************************************************************************)
EXTENDS Naturals, Sequences, FiniteSets, SequencesExt

CONSTANTS MaxText   \* MaxTextBlockBytes

-----------------------------------------------------------------------------
(* Events *)

NoCall == 0

Plain == [id |-> <<>>, actor |-> "unknown", kind |-> "unknown", port |-> "referenced",
          turn |-> 0, size |-> 0, call |-> NoCall, link |-> NoCall, error |-> FALSE]

Cut(size) == IF size > MaxText THEN MaxText ELSE size

Message(id, actor, turn, size) ==
    [Plain EXCEPT !.id = id, !.actor = actor, !.kind = "message", !.port = "exact",
                  !.turn = turn, !.size = size]

ToolCall(id, call, size) ==
    [Plain EXCEPT !.id = id, !.actor = "assistant", !.kind = "tool_call", !.port = "normalized",
                  !.call = call, !.size = size]

ToolResult(id, link, error, size) ==
    [Plain EXCEPT !.id = id, !.actor = "tool", !.kind = "tool_result", !.port = "normalized",
                  !.link = link, !.error = error, !.size = size]

(* What the harness wrote and what a vendor keeps to itself; no text of it  *)
(* goes into a projection.                                                  *)
Harness(id, port) ==
    [Plain EXCEPT !.id = id, !.actor = "harness", !.kind = "metadata", !.port = port]

Summary(id, size) ==
    [Plain EXCEPT !.id = id, !.actor = "harness", !.kind = "summary", !.port = "summarized",
                  !.size = size]

Attachment(id, actor, port) ==
    [Plain EXCEPT !.id = id, !.actor = actor, !.kind = "attachment", !.port = port]

Unknown(id) == [Plain EXCEPT !.id = id]

(* A mistake: a result that names its call leaves the call waiting.         *)
LinkToolResultsTwice(events) ==
    FoldLeft(LAMBDA s, e :
                 IF e.kind = "tool_call" /\ e.call # NoCall
                 THEN [out |-> Append(s.out, e), waiting |-> Append(s.waiting, e.call)]
                 ELSE IF e.kind = "tool_result" /\ s.waiting # <<>>
                 THEN [out |-> Append(s.out, [e EXCEPT !.link = Head(s.waiting)]),
                       waiting |-> Tail(s.waiting)]
                 ELSE [s EXCEPT !.out = Append(s.out, e)],
             [out |-> <<>>, waiting |-> <<>>], events).out

(* Unlinked results take the calls that wait, in their order; a linked one  *)
(* takes its call out of those that wait.                                   *)
LinkToolResults(events) ==
    FoldLeft(LAMBDA s, e :
                 IF e.kind = "tool_call" /\ e.call # NoCall
                 THEN [out |-> Append(s.out, e), waiting |-> Append(s.waiting, e.call)]
                 ELSE IF e.kind = "tool_result" /\ e.link # NoCall
                 THEN [out |-> Append(s.out, e), waiting |-> Remove(s.waiting, e.link)]
                 ELSE IF e.kind = "tool_result" /\ s.waiting # <<>>
                 THEN [out |-> Append(s.out, [e EXCEPT !.link = Head(s.waiting)]),
                       waiting |-> Tail(s.waiting)]
                 ELSE [s EXCEPT !.out = Append(s.out, e)],
             [out |-> <<>>, waiting |-> <<>>], events).out

(* The order of an event is its place among the events.                     *)
Ordered(events) == [i \in DOMAIN events |-> [order |-> i] @@ events[i]]

-----------------------------------------------------------------------------
(* The frozen prefix *)

(* The prefix ends with the last whole record; what follows it makes the    *)
(* snapshot partial.                                                        *)
SnapshotJSONL(file) ==
    LET upto == SelectLastInSeq(file, LAMBDA l : l.state = "whole")
    IN  [upto |-> upto, partial |-> upto < Len(file)]

(* The whole records of the prefix, numbered by their lines.                *)
VisitCompleteJSONL(file, boundary) ==
    SelectSeq([i \in 1..boundary.upto |-> [line |-> i] @@ file[i]],
              LAMBDA l : l.state = "whole")

(* A line that is skipped is told of in the report of the reader.           *)
Skipped(file, boundary) == \E i \in 1..boundary.upto : file[i].state # "whole"

Each(lines, Events(_)) == FlattenSeq([i \in DOMAIN lines |-> Events(lines[i])])

Report(events, warned) == [events |-> Ordered(events), warned |-> warned]
Linked(events, warned) == Report(LinkToolResults(events), warned)

SomePart(l, type) == \E i \in DOMAIN l.parts : l.parts[i].type = type
PartsOf(l, type)  == SelectSeq(l.parts, LAMBDA p : p.type = type)
TextSize(l)       == IF SomePart(l, "text") THEN PartsOf(l, "text")[1].size ELSE 0

-----------------------------------------------------------------------------
(* Claude Code and Qwen Code write a record per message, with its parts in  *)
(* it; a part that is a text stands for the texts that follow one another,  *)
(* which are one event.                                                     *)
Parts(l, Event(_, _)) == [i \in DOMAIN l.parts |-> Event(<<l.line, i>>, l.parts[i])]

(* An image is referred to while its file is there; one inside the record   *)
(* is left out.                                                             *)
ClaudeImage(id, actor, part) ==
    Attachment(id, actor, IF part.type = "file" THEN "referenced" ELSE "omitted")

ClaudePart(id, actor, turn, part) ==
    CASE part.type = "text" -> Message(id, actor, turn, Cut(part.size))
      [] part.type = "call" -> ToolCall(id, part.call, Cut(part.size))
      [] part.type = "result" -> ToolResult(id, part.call, part.error, Cut(part.size))
      [] part.type \in {"file", "inline"} -> ClaudeImage(id, actor, part)
      [] OTHER -> Unknown(id)

(* A record whose content is neither a text nor a list is an empty message. *)
ClaudeContent(l, actor) ==
    IF l.sub = "no content" THEN <<Message(<<l.line>>, actor, l.turn, 0)>>
    ELSE Parts(l, LAMBDA id, part : ClaudePart(id, actor, l.turn, part))

ClaudeEvents(l) ==
    CASE l.type = "user" /\ l.meta -> <<Harness(<<l.line>>, "referenced")>>
      [] l.type = "user" /\ ~l.meta -> ClaudeContent(l, "user")
      [] l.type = "assistant" -> ClaudeContent(l, "assistant")
      [] l.type \in {"system", "developer", "session_meta"} -> <<Harness(<<l.line>>, "referenced")>>
      [] l.type = "summary" -> <<Summary(<<l.line>>, Cut(TextSize(l)))>>
      [] OTHER -> <<Unknown(<<l.line>>)>>

ParseClaude(file, boundary) ==
    Linked(Each(VisitCompleteJSONL(file, boundary), ClaudeEvents), Skipped(file, boundary))

-----------------------------------------------------------------------------
(* Qwen Code is rewound in place: a record names the record before it, and  *)
(* only what the last record of the conversation can be reached from stays. *)
Artifact(l) == l.type = "system" /\ l.sub \in {"session_artifact_event", "session_artifact_snapshot"}

(* A mistake: everything in the file is taken for live.                     *)
WholeFile(records) ==
    [live |-> {records[i].uuid : i \in DOMAIN records}, complete |-> TRUE]

(* The walk from record to parent ends at a record without one; a record    *)
(* met twice, or one that is not there, ends it without an answer.          *)
LiveChain(records) ==
    LET uuids == {records[i].uuid : i \in DOMAIN records}
        Parent(uuid) == records[SelectInSeq(records, LAMBDA r : r.uuid = uuid)].parent
        leaf == SelectLastInSeq(records, LAMBDA r : ~Artifact(r))
        walk[n \in 0..Len(records) + 1] ==
            IF n = 0 THEN [at |-> records[leaf].uuid, live |-> {}, complete |-> TRUE]
            ELSE LET w == walk[n - 1]
                 IN  IF w.at = 0 THEN w
                     ELSE IF w.at \in uuids \ w.live
                     THEN [at |-> Parent(w.at), live |-> w.live \cup {w.at}, complete |-> TRUE]
                     ELSE [at |-> 0, live |-> w.live, complete |-> FALSE]
    IN  IF leaf = 0 THEN [live |-> uuids, complete |-> TRUE]
        ELSE LET w == walk[Len(records) + 1]
             IN  IF w.complete THEN [live |-> w.live, complete |-> TRUE]
                 ELSE [live |-> uuids, complete |-> FALSE]

(* A user record is a person's only when the vendor says so, or says        *)
(* nothing.                                                                 *)
QwenActor(l) ==
    IF l.type # "user" THEN IF l.type = "assistant" THEN "assistant" ELSE "tool"
    ELSE IF l.sub \in {"real_user", "mid_turn_user_message", ""} THEN "user" ELSE "harness"

QwenCall(id, part) == ToolCall(id, part.call, Cut(part.size))

QwenResult(id, part) == ToolResult(id, part.call, part.error, Cut(part.size))

QwenAttachment(id, part) ==
    Attachment(id, "user", IF part.type = "file" THEN "referenced" ELSE "omitted")

QwenPart(id, actor, turn, part) ==
    CASE part.type = "thought" -> [Harness(id, "omitted") EXCEPT !.actor = "assistant"]
      [] part.type = "call" -> QwenCall(id, part)
      [] part.type = "result" -> QwenResult(id, part)
      [] part.type \in {"file", "inline"} -> QwenAttachment(id, part)
      [] part.type = "text" /\ actor # "harness" -> Message(id, actor, turn, Cut(part.size))
      [] part.type = "text" /\ actor = "harness" -> Harness(id, "referenced")
      [] OTHER -> Unknown(id)

(* A record with nothing in it still happened.                              *)
QwenMessage(l, actor) ==
    IF l.parts = <<>> THEN <<Message(<<l.line>>, actor, l.turn, 0)>>
    ELSE Parts(l, LAMBDA id, part : QwenPart(id, actor, l.turn, part))

(* Of what the system writes, only a summary is carried.                    *)
QwenSystem(l) ==
    CASE l.sub = "chat_compression" -> Summary(<<l.line>>, Cut(TextSize(l)))
      [] l.sub = "rewind" -> [Harness(<<l.line>>, "referenced") EXCEPT !.kind = "checkpoint"]
      [] OTHER -> Harness(<<l.line>>, "referenced")

QwenEvents(l) ==
    CASE l.type \in {"user", "assistant", "tool_result"} -> QwenMessage(l, QwenActor(l))
      [] l.type = "system" -> <<QwenSystem(l)>>
      [] OTHER -> <<Unknown(<<l.line>>)>>

(* A record without a uuid has no place in the chain.                       *)
QwenRecords(lines) == SelectSeq(lines, LAMBDA l : l.uuid # 0)

(* Such a record is told of, like what the walk left out.                   *)
ParseQwen(file, boundary) ==
    LET lines   == VisitCompleteJSONL(file, boundary)
        records == QwenRecords(lines)
        chain   == LiveChain(records)
        live    == SelectSeq(records, LAMBDA r : r.uuid \in chain.live)
    IN  Linked(Each(live, QwenEvents),
               \/ Skipped(file, boundary)
               \/ records # lines
               \/ ~chain.complete
               \/ Len(records) > Cardinality(chain.live))

-----------------------------------------------------------------------------
(* Codex writes a turn twice, as an event and as an item of the response.   *)
CodexMessage(l) == Message(<<l.line>>, l.sub, l.turn, Cut(TextSize(l)))

CodexEventMsg(l) ==
    CASE l.sub \in {"user", "assistant"} -> CodexMessage(l)
      [] l.sub = "compaction" -> Summary(<<l.line>>, Cut(TextSize(l)))
      [] OTHER -> Unknown(<<l.line>>)

CodexReasoning(l) == [Unknown(<<l.line>>) EXCEPT !.actor = "assistant", !.port = "omitted"]

CodexResponseItem(l) ==
    LET id == <<l.line>>
        p  == l.parts[1]
    IN  CASE l.sub \in {"user", "assistant"} -> CodexMessage(l)
          [] l.sub = "compaction" -> Summary(id, Cut(TextSize(l)))
          [] l.sub = "function_call" -> ToolCall(id, p.call, Cut(p.size))
          [] l.sub = "function_call_output" -> ToolResult(id, p.call, p.error, Cut(p.size))
          [] l.sub = "reasoning" -> CodexReasoning(l)
          [] OTHER -> Unknown(id)

CodexBareMessage(l) ==
    IF l.sub \in {"user", "assistant"} THEN CodexMessage(l)
    ELSE [Unknown(<<l.line>>) EXCEPT !.size = Cut(TextSize(l))]

CodexEvent(l) ==
    CASE l.type = "event_msg" -> CodexEventMsg(l)
      [] l.type = "response_item" -> CodexResponseItem(l)
      [] l.type = "session_meta" -> Harness(<<l.line>>, "referenced")
      [] l.type = "message" -> CodexBareMessage(l)
      [] OTHER -> Unknown(<<l.line>>)

(* A role with a turn told as an event has all its items of the response    *)
(* taken for second tellings.                                               *)
SecondTelling(lines, l) ==
    /\ l.type = "response_item" /\ l.sub \in {"user", "assistant"}
    /\ \E i \in DOMAIN lines : lines[i].type = "event_msg" /\ lines[i].sub = l.sub

(* A mistake: both tellings of a turn are events.                           *)
ParseCodexTwice(file, boundary) ==
    Linked(Each(VisitCompleteJSONL(file, boundary), LAMBDA l : <<CodexEvent(l)>>),
           Skipped(file, boundary))

ParseCodex(file, boundary) ==
    LET lines == VisitCompleteJSONL(file, boundary)
    IN  Linked(Each(SelectSeq(lines, LAMBDA l : ~SecondTelling(lines, l)),
                    LAMBDA l : <<CodexEvent(l)>>),
               Skipped(file, boundary))

-----------------------------------------------------------------------------
(* Gemini CLI keeps a message with its calls and their results; a rewind    *)
(* takes back the message it names and all after it.  No text is cut.       *)
PerMessage == 1000

(* A message that is not there takes nothing back.                          *)
GeminiRewind(s, target) ==
    LET at == SelectLastInSeq(s.messages, LAMBDA m : m.uuid = target)
    IN  IF at > 0 THEN [s EXCEPT !.messages = SubSeq(s.messages, 1, at - 1)]
        ELSE [s EXCEPT !.missed = TRUE]

GeminiPending(lines) ==
    FoldLeft(LAMBDA s, l :
                 CASE l.type = "$rewindTo" -> GeminiRewind(s, l.parent)
                   [] l.type \in {"$set", ""} -> s
                   [] OTHER -> [s EXCEPT !.messages = Append(s.messages, [index |-> s.next] @@ l),
                                         !.next = s.next + 1],
             [messages |-> <<>>, next |-> 0, missed |-> FALSE], lines)

GeminiText(m) == Message(<<m.line, m.index>>, m.type, m.turn, TextSize(m))

GeminiCallAt(m, i) == PerMessage * m.index + 2 * (i - 1)

GeminiCall(m, i, call) == ToolCall(<<m.line, GeminiCallAt(m, i)>>, call.call, call.size)

(* Whether the call failed is not told.                                     *)
GeminiResult(m, i, call) ==
    ToolResult(<<m.line, GeminiCallAt(m, i) + 1>>, call.call, FALSE, call.size)

GeminiEvents(m) ==
    LET calls == PartsOf(m, "call")
        Round(i) == <<GeminiCall(m, i, calls[i])>>
                    \o (IF calls[i].answered THEN <<GeminiResult(m, i, calls[i])>> ELSE <<>>)
    IN  CASE m.type = "user" -> <<GeminiText(m)>>
          [] m.type = "assistant" ->
                 (IF TextSize(m) > 0 \/ calls = <<>> THEN <<GeminiText(m)>> ELSE <<>>)
                 \o FlattenSeq([i \in DOMAIN calls |-> Round(i)])
          [] OTHER -> <<[GeminiText(m) EXCEPT !.actor = "unknown", !.kind = "unknown",
                                             !.port = "referenced"]>>

ParseGemini(file, boundary) ==
    LET pending == GeminiPending(VisitCompleteJSONL(file, boundary))
    IN  Report(Each(pending.messages, GeminiEvents),
               Skipped(file, boundary) \/ pending.missed)

-----------------------------------------------------------------------------
(* Grok Build freezes its log of updates, which only says that it compacted *)
(* its history; the history, and what a compaction left of the one before,  *)
(* are read as they are now.                                                *)
(* What calls told with a text were given is not weighed.                   *)
GrokEvent(id, l) ==
    LET calls == PartsOf(l, "call")
        text  == Cut(TextSize(l))
    IN  CASE l.type = "user" /\ ~l.meta -> Message(id, "user", l.turn, text)
          [] l.type = "user" /\ l.meta -> Summary(id, text)
          [] l.type = "assistant" /\ calls = <<>> -> Message(id, "assistant", l.turn, text)
          [] l.type = "assistant" /\ Len(calls) = 1 /\ text = 0 ->
                 ToolCall(id, calls[1].call, Cut(calls[1].size))
          [] l.type = "assistant" /\ calls # <<>> /\ (Len(calls) > 1 \/ text > 0) ->
                 [Message(id, "assistant", l.turn, text) EXCEPT !.port = "normalized",
                                                                !.call = calls[1].call]
          [] l.type = "backend_tool_call" -> ToolCall(id, calls[1].call, Cut(calls[1].size))
          [] l.type = "tool_result" ->
                 ToolResult(id, l.parts[1].call, l.parts[1].error, Cut(l.parts[1].size))
          [] l.type = "system" -> Harness(id, "referenced")
          [] l.type = "reasoning" -> [Harness(id, "omitted") EXCEPT !.actor = "assistant"]
          [] OTHER -> Unknown(id)

GrokUpdates(updates, boundary) ==
    SelectSeq(VisitCompleteJSONL(updates, boundary), LAMBDA l : l.type = "compaction_checkpoint")

GrokCompactionRequests(requests) ==
    FlattenSeq([r \in DOMAIN requests |->
        [i \in DOMAIN requests[r] |-> GrokEvent(<<"request", r, i>>, requests[r][i])]])

AsItIs(file) == [upto |-> Len(file)]

GrokChatHistory(history) ==
    Each(VisitCompleteJSONL(history, AsItIs(history)), LAMBDA l : <<GrokEvent(<<"history", l.line>>, l)>>)

ParseGrok(updates, boundary, requests, history) ==
    LET checkpoints == GrokUpdates(updates, boundary)
        Mark(l)     == [Harness(<<"update", l.line>>, "referenced") EXCEPT !.kind = "checkpoint"]
    IN  Linked((IF checkpoints = <<>> THEN <<>> ELSE GrokCompactionRequests(requests))
               \o [i \in DOMAIN checkpoints |-> Mark(checkpoints[i])]
               \o GrokChatHistory(history),
               Skipped(updates, boundary) \/ Skipped(history, AsItIs(history)))

-----------------------------------------------------------------------------
(* Kimi Code logs a prompt, and again the message it became; the second is  *)
(* known by its text, and two texts of one size are one text here.  What    *)
(* the agent later takes out of its context stays in the log.               *)
KimiRewrites == {"context.clear", "context.undo", "context.apply_compaction", "context.spliced",
                 "full_compaction.complete"}

KimiLoopEvent(l) ==
    LET id == <<l.line>>
        p  == l.parts[1]
    IN  CASE l.sub = "content.part" /\ p.type # "text" ->
                 <<[Harness(id, "referenced") EXCEPT !.actor = "assistant"]>>
          [] l.sub = "content.part" /\ p.type = "text" /\ p.size = 0 -> <<>>
          [] l.sub = "content.part" /\ p.type = "text" /\ p.size > 0 ->
                 <<Message(id, "assistant", l.turn, Cut(p.size))>>
          [] l.sub = "tool.call" -> <<ToolCall(id, p.call, Cut(p.size))>>
          [] l.sub = "tool.result" -> <<ToolResult(id, p.call, p.error, Cut(p.size))>>
          [] l.sub \in {"step.begin", "step.end"} -> <<Harness(id, "omitted")>>
          [] OTHER -> <<Unknown(id)>>

(* A message of the assistant is its text, then its calls.                  *)
KimiMessage(l) ==
    LET calls == PartsOf(l, "call")
    IN  (IF TextSize(l) = 0 THEN <<>>
         ELSE <<Message(<<l.line, 0>>, "assistant", l.turn, Cut(TextSize(l)))>>)
        \o [i \in DOMAIN calls |-> ToolCall(<<l.line, i>>, calls[i].call, Cut(calls[i].size))]

KimiUser(l, prompted) ==
    IF l.meta THEN <<Harness(<<l.line>>, "omitted")>>
    ELSE IF TextSize(l) = 0 \/ Contains(prompted, TextSize(l)) THEN <<>>
    ELSE <<Message(<<l.line>>, "user", l.turn, Cut(TextSize(l)))>>

KimiEvents(l, prompted) ==
    CASE l.type \in {"turn.prompt", "turn.steer"} ->
             <<Message(<<l.line>>, "user", l.turn, Cut(TextSize(l)))>>
      [] l.type = "context.append_message" /\ l.sub = "user" -> KimiUser(l, prompted)
      [] l.type = "context.append_message" /\ l.sub = "tool" ->
             <<ToolResult(<<l.line>>, l.parts[1].call, l.parts[1].error, Cut(l.parts[1].size))>>
      [] l.type = "context.append_message" /\ l.sub = "assistant" -> KimiMessage(l)
      [] l.type = "context.append_loop_event" -> KimiLoopEvent(l)
      [] l.type = "profile.bind" -> <<Harness(<<l.line>>, "referenced")>>
      [] l.type \in {"metadata", "usage.record"} -> <<Harness(<<l.line>>, "omitted")>>
      [] OTHER -> <<Unknown(<<l.line>>)>>

(* The prompts whose message is still to come.                              *)
NotePrompt(l, prompted) ==
    IF l.type \in {"turn.prompt", "turn.steer"} /\ TextSize(l) > 0
    THEN Append(prompted, TextSize(l))
    ELSE IF l.type = "context.append_message" /\ l.sub = "user" /\ ~l.meta
    THEN Remove(prompted, TextSize(l))
    ELSE prompted

ParseKimi(file, boundary) ==
    LET lines == VisitCompleteJSONL(file, boundary)
        read  == FoldLeft(LAMBDA s, l : [events   |-> s.events \o KimiEvents(l, s.prompted),
                                         prompted |-> NotePrompt(l, s.prompted)],
                          [events |-> <<>>, prompted |-> <<>>], lines)
    IN  Linked(read.events,
               Skipped(file, boundary) \/ \E i \in DOMAIN lines : lines[i].type \in KimiRewrites)

-----------------------------------------------------------------------------
(* OpenCode keeps a file or a row for every message and every part, read as *)
(* they are now: a message whose parts are not there yet is empty, and one  *)
(* with a part that is no text is not carried.  No text is cut.             *)
OpenCodeMessageEvent(i, l) ==
    LET id == <<i>>
    IN  IF l.state = "torn" THEN Message(id, l.type, l.turn, 0)
        ELSE IF \E p \in DOMAIN l.parts : l.parts[p].type # "text" THEN Unknown(id)
        ELSE Message(id, l.type, l.turn, TextSize(l))

ParseOpenCode(messages) ==
    Report([i \in DOMAIN messages |-> OpenCodeMessageEvent(i, messages[i])], FALSE)
=============================================================================
