---------------------------- MODULE HandoffPlan ----------------------------
(***************************************************************************)
(* The plan of a handoff (internal/handoff/pipeline.go, Plan) and the      *)
(* session it is of.  The agent goes on writing while the plan asks        *)
(* whether it runs, freezes its files, reads them and chooses what to      *)
(* show; it may be killed with a record half written, and started again.   *)
(* How an agent writes a turn down is outside the program; it is taken     *)
(* from the shapes the readers and their fixtures know.                    *)
(***************************************************************************)
EXTENDS Projection

CONSTANTS Formats,          \* the agents, with the layouts of their files
          Asked,            \* the sizes of what the user asks,
          Sizes,            \*   of the texts of an answer,
          Returns,          \*   and of what a call returns; MaxText may be exceeded
          MaxTurns,         \* bound: what is said in a session
          MaxDeaths,        \* bound: how often the agent is killed
          CompactsMidPlan   \* whether Grok compacts its history while a plan is made

ASSUME Formats \subseteq {"claude", "codex", "codex_old", "gemini", "qwen", "grok",
                          "kimi", "kimi_migrated", "opencode"}

VARIABLES format,     \* the agent of the session
          said,       \* what was said in it, turn by turn
          active,     \* the agent runs
          open,       \* its calls that are still to be answered
          deaths,     \* how often it was killed
          unwritten,  \* the lines of the latest turn still to be written
          file,       \* the file that is frozen; OpenCode's messages
          history,    \* Grok: chat_history.jsonl
          requests,   \* Grok: compaction_requests/
          step,       \* how far the plan is
          boundary,   \* the frozen boundary
          then,       \* what of the session had been told when it was frozen
          parsed,     \* what the reader made of it
          plan        \* the capsule: what is shown, what is beside, the task

session == <<format, said, active, open, deaths, unwritten, file, history, requests>>
planning == <<step, boundary, then, parsed, plan>>
vars == <<session, planning>>

-----------------------------------------------------------------------------
(* How a turn is written down *)

Line(type, sub, t, parts) ==
    [state |-> "whole", type |-> type, sub |-> sub, turn |-> t, parts |-> parts,
     meta |-> FALSE, uuid |-> t, parent |-> 0]

Turn(kind, size, call, error) == [kind |-> kind, size |-> size, call |-> call, error |-> error]

Text(s) == IF s.size = 0 THEN <<>> ELSE <<[type |-> "text", size |-> s.size]>>
Call(s) == IF s.call = NoCall THEN <<>>
           ELSE <<[type |-> "call", call |-> s.call, size |-> 1, answered |-> s.error # "none"]>>
Result(s) == <<[type |-> "result", call |-> s.call, error |-> s.error = "error", size |-> s.size]>>

(* Claude Code, Qwen Code, Gemini CLI, Grok Build and OpenCode write one    *)
(* record for a turn.                                                       *)
OneRecord(results, t, s) ==
    CASE s.kind = "user"   -> <<Line("user", "", t, Text(s))>>
      [] s.kind = "answer" -> <<Line("assistant", "", t, Text(s) \o Call(s))>>
      [] s.kind = "result" -> <<Line(results, "", t, Result(s))>>

(* Codex tells a message as an event and, second, as an item.               *)
CodexRecords(told_twice, t, s) ==
    LET Twice(role) ==
            IF Text(s) = <<>> THEN <<>>
            ELSE (IF told_twice THEN <<Line("event_msg", role, t, Text(s))>> ELSE <<>>)
                 \o <<Line("response_item", role, t, Text(s))>>
    IN  CASE s.kind = "user"   -> Twice("user")
          [] s.kind = "answer" -> Twice("assistant") \o
                 (IF Call(s) = <<>> THEN <<>> ELSE <<Line("response_item", "function_call", t, Call(s))>>)
          [] s.kind = "result" -> <<Line("response_item", "function_call_output", t, Result(s))>>

KimiRecords(t, s) ==
    LET Loop(sub, parts) ==
            IF parts = <<>> THEN <<>> ELSE <<Line("context.append_loop_event", sub, t, parts)>>
    IN  CASE s.kind = "user"   -> <<Line("turn.prompt", "", t, Text(s)),
                                    Line("context.append_message", "user", t, Text(s))>>
          [] s.kind = "answer" -> Loop("content.part", Text(s)) \o Loop("tool.call", Call(s))
          [] s.kind = "result" -> Loop("tool.result", Result(s))

MigratedRecords(t, s) ==
    LET role == CASE s.kind = "user" -> "user" [] s.kind = "answer" -> "assistant"
                  [] s.kind = "result" -> "tool"
    IN  <<Line("context.append_message", role, t,
               IF s.kind = "result" THEN Result(s) ELSE Text(s) \o Call(s))>>

(* The record of a Qwen turn names the last one that can be read.           *)
LastUuid(lines) ==
    LET at == SelectLastInSeq(lines, LAMBDA l : l.state = "whole")
    IN  IF at = 0 THEN 0 ELSE lines[at].uuid

Records(t, s) ==
    CASE format \in {"claude", "gemini", "opencode"} -> OneRecord("user", t, s)
      [] format = "qwen" -> <<[OneRecord("tool_result", t, s)[1] EXCEPT !.parent = LastUuid(file)]>>
      [] format = "grok" -> OneRecord("tool_result", t, s)
      [] format = "codex" -> CodexRecords(TRUE, t, s)
      [] format = "codex_old" -> CodexRecords(FALSE, t, s)
      [] format = "kimi" -> KimiRecords(t, s)
      [] format = "kimi_migrated" -> MigratedRecords(t, s)

(* Taking back turn k and what follows it.                                  *)
RewindRecord(t, k) ==
    CASE format = "gemini" -> [Line("$rewindTo", "", t, <<>>) EXCEPT !.parent = k]
      [] format = "kimi"   -> Line("context.undo", "", t, <<>>)
      [] format = "qwen"   ->
             [Line("system", "rewind", t, <<>>) EXCEPT
                  !.parent = file[SelectInSeq(file, LAMBDA l : l.uuid = k)].parent]

-----------------------------------------------------------------------------
(* The session *)

(* What the agent does once its files are read is of no matter to the plan. *)
Going == step \in {"idle", "frozen"}

Store == IF format = "grok" THEN history ELSE file

Becomes(lines) ==
    IF format = "grok" THEN history' = lines /\ UNCHANGED file
    ELSE file' = lines /\ UNCHANGED history

Torn(l) == [l EXCEPT !.state = "torn"]

HalfWritten == Store # <<>> /\ Last(Store).state = "torn"
ItsOwn      == HalfWritten /\ unwritten # <<>> /\ Last(Store) = Torn(Head(unwritten))

(* What is appended to a line that has no end becomes part of it.           *)
Appended(lines, l) ==
    IF HalfWritten /\ format # "opencode"
    THEN Append(Front(lines), [Last(lines) EXCEPT !.state = "bad"])
    ELSE Append(lines, l)

GoneIn(lines) ==
    {t \in DOMAIN said : \E i \in DOMAIN lines :
        LET r == lines[i].turn
        IN  /\ lines[i].state = "whole" /\ r > 0
            /\ said[r].kind = "rewind" /\ said[r].call <= t /\ t < r}

Told(t, lines) ==
    LET Whole == {i \in DOMAIN lines : lines[i].turn = t /\ lines[i].state = "whole"}
    IN  Cardinality(Whole) = Len(Records(t, said[t]))

Say(s) ==
    /\ Going /\ active /\ unwritten = <<>> /\ Len(said) < MaxTurns
    /\ said' = Append(said, s)
    /\ unwritten' = Records(Len(said) + 1, s)
    /\ UNCHANGED <<format, active, deaths, file, history, requests, planning>>

Ask == \E size \in Asked : Say(Turn("user", size, NoCall, "none")) /\ UNCHANGED open

Everything == IF format = "grok" THEN FlattenSeq(requests) \o history ELSE file

(* An answer follows what can be read; a Gemini message is written when    *)
(* its calls are over, be it with a failure or without a result.            *)
Answer ==
    \E size \in Sizes \cup {0}, call \in {NoCall, Len(said) + 1}, error \in {"none", "ok", "error"} :
       /\ said # <<>> /\ Last(said).kind # "rewind" /\ Told(Len(said), Everything)
       /\ size > 0 \/ call # NoCall
       /\ error # "none" => format = "gemini" /\ call # NoCall
       /\ Say(Turn("answer", size, call, error))
       /\ open' = IF call = NoCall \/ format \in {"gemini", "opencode"} THEN open ELSE open \cup {call}

Return ==
    \E call \in open, size \in Returns, error \in {"ok", "error"} :
       /\ Say(Turn("result", size, call, error))
       /\ open' = open \ {call}

Rewind ==
    /\ format \in {"gemini", "qwen", "kimi"}
    /\ Going /\ active /\ unwritten = <<>> /\ Len(said) < MaxTurns
    /\ \E k \in DOMAIN said \ GoneIn(file) :
          /\ said[k].kind = "user" /\ Told(k, file)
          /\ said' = Append(said, Turn("rewind", 0, k, "none"))
          /\ unwritten' = <<RewindRecord(Len(said) + 1, k)>>
    /\ open' = {}
    /\ UNCHANGED <<format, active, deaths, file, history, requests, planning>>

WriteRecord ==
    /\ Going /\ active /\ unwritten # <<>>
    /\ \/ /\ Becomes(IF ItsOwn THEN Append(Front(Store), Head(unwritten))
                      ELSE Appended(Store, Head(unwritten)))
          /\ unwritten' = Tail(unwritten)
       \/ /\ ~HalfWritten \/ format = "opencode"
          /\ ~ItsOwn
          /\ Becomes(Append(Store, Torn(Head(unwritten))))
          /\ UNCHANGED unwritten
    /\ UNCHANGED <<format, said, active, open, deaths, requests, planning>>

Die ==
    /\ Going /\ active /\ unwritten # <<>> /\ deaths < MaxDeaths
    /\ active' = FALSE /\ open' = {} /\ unwritten' = <<>> /\ deaths' = deaths + 1
    /\ UNCHANGED <<format, said, file, history, requests, planning>>

Start ==
    /\ Going /\ ~active
    /\ active' = TRUE
    /\ UNCHANGED <<format, said, open, deaths, unwritten, file, history, requests, planning>>

(* Grok puts what it said so far aside and goes on with a summary.          *)
Compact ==
    /\ format = "grok" /\ Going /\ active /\ unwritten = <<>>
    /\ step = "idle" \/ CompactsMidPlan
    /\ history # <<>> /\ requests = <<>>
    /\ requests' = <<SelectSeq(history, LAMBDA l : l.state = "whole")>>
    /\ history' = <<[Line("user", "", 0, <<[type |-> "text", size |-> 1]>>) EXCEPT !.meta = TRUE]>>
    /\ file' = Append(file, Line("compaction_checkpoint", "", 0, <<>>))
    /\ UNCHANGED <<format, said, active, open, deaths, unwritten, planning>>

-----------------------------------------------------------------------------
(* The plan *)

Frozen == CASE format = "opencode" -> file
            [] format = "grok" -> Everything
            [] OTHER -> SubSeq(file, 1, SnapshotJSONL(file).upto)

(* A session that is seen to run needs --allow-active; a listing of the     *)
(* processes that failed sees nothing run, so a plan is made at any time.   *)
Snapshot ==
    /\ step = "idle" /\ Store # <<>>
    /\ boundary' = IF format = "opencode" THEN [upto |-> Len(file), partial |-> FALSE]
                   ELSE SnapshotJSONL(file)
    /\ then' = [told  |-> {t \in DOMAIN said : said[t].kind # "rewind" /\ Told(t, Frozen)} \ GoneIn(Frozen),
                begun |-> {Frozen[i].turn : i \in {k \in DOMAIN Frozen : Frozen[k].state # "bad"}},
                gone  |-> GoneIn(Frozen)]
    /\ step' = "frozen"
    /\ UNCHANGED <<session, parsed, plan>>

Parse ==
    CASE format = "claude" -> ParseClaude(file, boundary)
      [] format \in {"codex", "codex_old"} -> ParseCodex(file, boundary)
      [] format = "gemini" -> ParseGemini(file, boundary)
      [] format = "qwen" -> ParseQwen(file, boundary)
      [] format = "grok" -> ParseGrok(file, boundary, requests, history)
      [] format \in {"kimi", "kimi_migrated"} -> ParseKimi(file, boundary)
      [] format = "opencode" -> ParseOpenCode(file)

Read ==
    /\ step = "frozen"
    /\ parsed' = Parse
    /\ step' = "parsed"
    /\ UNCHANGED <<session, boundary, then, plan>>

(* The links are made again before the events are used.                     *)
Plan ==
    /\ step = "parsed"
    /\ \E policy \in Policies :
          LET events  == LinkToolResults(parsed.events)
              applied == Apply(policy, events)
          IN  plan' = [policy   |-> policy,
                       included |-> applied.included,
                       sidecar  |-> applied.sidecar,
                       task     |-> DeriveCheckpoint(events),
                       accepted |-> Validate(applied.included)]
    /\ step' = "planned"
    /\ UNCHANGED <<session, boundary, then, parsed>>

NoBoundary == [upto |-> 0, partial |-> FALSE]
NoThen     == [told |-> {}, begun |-> {}, gone |-> {}]
NoParsed   == [events |-> <<>>, warned |-> FALSE]
NoPlan     == [policy |-> "none", included |-> <<>>, sidecar |-> {},
               task |-> [asked |-> <<>>, completed |-> {}, pending |-> {}], accepted |-> TRUE]

(* A plan leaves nothing behind; another may be made.                       *)
Again ==
    /\ step = "planned"
    /\ step' = "idle"
    /\ boundary' = NoBoundary /\ then' = NoThen /\ parsed' = NoParsed /\ plan' = NoPlan
    /\ UNCHANGED session

Init ==
    /\ format \in Formats
    /\ said = <<>> /\ active = TRUE /\ open = {} /\ deaths = 0 /\ unwritten = <<>>
    /\ file = <<>> /\ history = <<>> /\ requests = <<>>
    /\ step = "idle"
    /\ boundary = NoBoundary /\ then = NoThen /\ parsed = NoParsed /\ plan = NoPlan

Next ==
    \/ Ask \/ Answer \/ Return \/ Rewind \/ WriteRecord \/ Die \/ Start \/ Compact
    \/ Snapshot \/ Read \/ Plan \/ Again

Spec == Init /\ [][Next]_vars

-----------------------------------------------------------------------------
(* Properties *)

ReadDone == step \in {"parsed", "planned"}
Live     == format \in {"grok", "opencode"}

Messages(events) ==
    SelectSeq(events, LAMBDA e : e.kind = "message" /\ e.actor \in {"user", "assistant"} /\ e.turn > 0)
TurnsOf(events) == LET m == Messages(events) IN [i \in DOMAIN m |-> m[i].turn]

(* A turn with a text, which an OpenCode message with a call in it loses.   *)
Carriable(t) ==
    /\ said[t].kind \in {"user", "answer"} /\ said[t].size > 0
    /\ format = "opencode" => said[t].call = NoCall

TypeOK ==
    /\ format \in Formats /\ active \in BOOLEAN
    /\ deaths \in 0..MaxDeaths /\ Len(said) <= MaxTurns
    /\ step \in {"idle", "frozen", "parsed", "planned"}
    /\ boundary.upto <= Len(file)
    /\ open \subseteq DOMAIN said

(* The transcript of a capsule tells what was said: every turn that was     *)
(* written down in full when the session was frozen, and was not taken back *)
(* since, is told once and in its order, and none that was taken back or,   *)
(* where the files are frozen, said later; or the report of the reader      *)
(* tells of it.  This is what codex.go's choice between two tellings,       *)
(* gemini.go's applyGeminiRewind, qwen.go's qwenLiveChain and kimi.go's     *)
(* consumePrompt are for ("Reported, never silently applied").              *)
TurnsCarried ==
    ReadDone /\ ~parsed.warned =>
        LET turns == TurnsOf(parsed.events)
        IN  /\ \A i, j \in DOMAIN turns : i < j => turns[i] < turns[j]
            /\ {t \in then.told : Carriable(t)} \subseteq ToSet(turns)
            /\ ToSet(turns) \cap then.gone = {}
            /\ ~Live => ToSet(turns) \subseteq then.begun

Returned(error) == {said[t].call : t \in {k \in DOMAIN said : said[k].error = error}}
Answered == {said[t].call : t \in {k \in then.told : said[k].error # "none"}}

(* The task of a capsule claims no work that was not done: what it calls    *)
(* completed ended, and without an error, which only the reader of Gemini   *)
(* does not ask for (geminiMessageFromRecord reads no status of a call);    *)
(* nothing it calls pending had been answered when the session was frozen,  *)
(* and what it gives for the user's requests ends with the last that stood  *)
(* (checkpoint.go: "derived deterministic", first matching result wins).    *)
EvidenceIsHonest ==
    step = "planned" =>
        LET task == plan.task
        IN  /\ task.completed \subseteq Returned("ok")
                  \cup IF format = "gemini" THEN Returned("error") ELSE {}
            /\ task.pending \cap Answered = {}
            /\ ~parsed.warned /\ ~Live =>
                  LET asked == {t \in then.told : said[t].kind = "user"}
                  IN  asked # {} => /\ task.asked # <<>>
                                    /\ Last(task.asked) >= CHOOSE t \in asked : \A u \in asked : u <= t

Shown(e) == \E i \in DOMAIN plan.included : plan.included[i].id = e.id
SizeOf(events) == FoldLeft(LAMBDA n, e : n + e.size, 0, events)

(* What is shown and what is put beside are together the transcript, each   *)
(* event in one of them; no result is shown without its call, and only      *)
(* calls so fetched exceed the budget; and the validator refuses only what  *)
(* a reader that does not cut texts was given (policy.go:39: "Excluded      *)
(* events are always referenced", completeToolPairs).                       *)
ProjectionIsWhole ==
    step = "planned" =>
        LET events  == parsed.events
            fetched == SelectSeq(plan.included, LAMBDA e :
                           /\ e.kind = "tool_call"
                           /\ \E i \in DOMAIN plan.included : plan.included[i].link = e.call)
        IN  /\ \A i \in DOMAIN events : Shown(events[i]) <=> events[i].id \notin plan.sidecar
            /\ \A i \in DOMAIN plan.included :
                  /\ \E k \in DOMAIN events : events[k].id = plan.included[i].id
                  /\ plan.included[i].port \notin {"omitted", "referenced"}
            /\ SizeOf(plan.included) <= budgetBytes(plan.policy) + SizeOf(fetched)
            /\ ~plan.accepted => format \in {"gemini", "opencode"} /\ plan.policy = "full"
=============================================================================
