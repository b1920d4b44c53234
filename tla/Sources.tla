------------------------------ MODULE Sources ------------------------------
(***************************************************************************)
(* Where the rows of the session index come from: the sources of the       *)
(* eleven agents (internal/agents/sources), the walk they share            *)
(* (scan/hometree), the read-only view of a vendor's database              *)
(* (vendorsqlite) and the rows the store keeps.  The agent goes on writing *)
(* its files between the digest, the walk and the reads of one refresh.    *)
(*                                                                         *)
(* One session of one agent is modelled.  said is everything the agent     *)
(* ever recorded of it, in order; each entry lives in one of two files     *)
(* ("main" makes it a session, "side" lies beside it), so a file that was  *)
(* read when said had n entries is known by n.  A text is the number of    *)
(* the entry it comes from; a row holds such numbers.                      *)
(***************************************************************************)
EXTENDS Naturals, Sequences, FiniteSets, SequencesExt

CONSTANTS Agents,     \* the agents whose files are looked at
          MaxEntries, \* MaxEntries[a]: bound, entries of the session
          MaxCloses,  \* bound: checkpoints of the agent's database
          MaxMishaps  \* bound: reads that fail, roots that disappear

VARIABLES agent,    \* the agent whose source is refreshed
          journals, \* whether its database keeps a write-ahead log
          said,     \* the kinds of the entries it has recorded
          writing,  \* the kind of the entry it is in the middle of, or ""
          store,    \* its database: what is checkpointed, where the log begins
          root,     \* "there", "unmarked" (no marker) or "gone"
          scan,     \* the refresh
          index,    \* the row, and the digest stored with it
          mishaps   \* closes, failed reads and lost roots so far

sourceVars == <<agent, journals, said, writing, store, root, scan, index, mishaps>>

Entries == {"title", "prompt", "harness", "reply", "replay", "rewind", "place",
            "alien", "junk"}

------------------------------------------------------------------------------
(* What each walk finds.  "session", "sidecar", "subagent" and "secret" are  *)
(* kinds of file under the agent's root: the glob matches some, exclusions   *)
(* take some away, Scan passes over others, and folded are stat-ed beside    *)
(* the walk for the digest.                                                  *)

Tree(matches, excluded, passed, folded) ==
    [found |-> matches \ excluded, recorded |-> matches \ (excluded \cup passed),
     digested |-> (matches \ excluded) \cup folded]

ClaudeTree == Tree({"session", "subagent"}, {"subagent", "secret"}, {}, {})

CodexTree == Tree({"session"}, {"secret"}, {}, {})

(* A chat whose own metadata says that it is a subagent's is dropped after  *)
(* it is read.                                                              *)
GeminiTree == Tree({"session", "subagent"}, {}, {"subagent"}, {})

GrokTree == Tree({"session", "subagent"}, {"subagent"}, {}, {})

(* A mistake: a subagent's own state.json counts as a session.              *)
KimiTreeWithAgents == Tree({"session", "subagent"}, {"secret"}, {}, {})

KimiTree == Tree({"session", "subagent"}, {"subagent", "secret"}, {}, {})

QwenTree == Tree({"session", "subagent"}, {"subagent", "secret"}, {}, {})

PiTree == Tree({"session"}, {"secret"}, {}, {})

CopilotTree == Tree({"session"}, {"secret"}, {}, {})

(* The glob of the metadata matches the messages beside it as well.         *)
ClineTree == Tree({"session", "sidecar"}, {"secret"}, {"sidecar"}, {})

(* A mistake: hometree's digest alone, which knows of meta.json only.       *)
CursorTreeAlone == Tree({"session"}, {"secret"}, {}, {})

CursorTree == Tree({"session"}, {"secret"}, {}, {"sidecar"})

(* The database and its log are stat-ed.                                    *)
OpenCodeTree == Tree({"session"}, {"secret"}, {}, {"log"})

TreeOf(a) ==
    CASE a = "claude" -> ClaudeTree [] a = "codex" -> CodexTree
      [] a = "gemini" -> GeminiTree [] a = "grok" -> GrokTree
      [] a = "kimi" -> KimiTree [] a = "qwen" -> QwenTree
      [] a = "pi" -> PiTree [] a = "copilot" -> CopilotTree
      [] a = "cline" -> ClineTree [] a = "cursor" -> CursorTree
      [] a = "opencode" -> OpenCodeTree

(* What an agent records, and in which of its files.  The replies of Gemini *)
(* and Cursor, which count like a prompt and are not searched, are left out, *)
(* and so is a layout of Cursor that is not known.                           *)
KindsOf(a) ==
    CASE a = "claude" -> {"title", "prompt", "harness", "reply", "replay"}
      [] a = "codex" -> {"title", "prompt", "harness", "reply", "replay"}
      [] a = "gemini" -> {"prompt", "rewind", "place"}
      [] a = "grok" -> {"title", "prompt", "harness", "reply", "alien"}
      [] a = "kimi" -> {"title", "prompt", "reply", "alien"}
      [] a = "qwen" -> {"prompt", "harness", "reply", "alien"}
      [] a = "pi" -> {"prompt", "reply", "alien"}
      [] a = "copilot" -> {"prompt", "reply", "place", "alien"}
      [] a = "cline" -> {"title", "prompt", "reply"}
      [] a = "cursor" -> {"place", "prompt", "harness"}
      [] a = "opencode" -> {"title", "prompt", "reply"}

SideOf(a) ==
    CASE a \in {"gemini", "copilot"} -> {"place"}
      [] a = "grok" -> {"prompt", "harness", "reply", "junk"}
      [] a = "kimi" -> {"prompt", "reply", "alien", "junk"}
      [] a = "cline" -> {"prompt", "reply"}
      [] a = "cursor" -> {"prompt", "harness"}
      [] OTHER -> {}

FileOf(a, k) == IF k \in SideOf(a) THEN "side" ELSE "main"

(* The file that is an SQLite database, and the one that is a log of lines. *)
Database(a) == CASE a = "cursor" -> "side" [] a = "opencode" -> "main" [] OTHER -> "none"

LogOf(a) ==
    CASE a \in {"claude", "codex", "gemini", "qwen", "pi", "copilot"} -> "main"
      [] a \in {"grok", "kimi"} -> "side"
      [] OTHER -> "none"

------------------------------------------------------------------------------
(* The agent's files as they are.                                           *)

EntriesIn(file, n) == {i \in 1..n : FileOf(agent, said[i]) = file}

Newest(S) == IF S = {} THEN 0 ELSE Max(S)

Torn(file) == writing # "" /\ FileOf(agent, writing) = file

NoFile == [at |-> 0, torn |-> FALSE]

(* Modification time and size of a file; a log that is written ahead leaves *)
(* the database itself alone.                                               *)
Stamp(file) ==
    IF file = Database(agent) THEN [at |-> store.kept, torn |-> FALSE]
    ELSE [at |-> Newest(EntriesIn(file, Len(said))), torn |-> Torn(file)]

LogStamp ==
    IF store.log THEN [at |-> Newest(EntriesIn(Database(agent), Len(said))), torn |-> FALSE]
    ELSE NoFile

Unusable == [usable |-> FALSE, main |-> NoFile, side |-> NoFile, log |-> NoFile]

(* Fingerprint: of what the walk finds and what is folded in.  Without a    *)
(* root, or without OpenCode's database, there is none.                     *)
DigestOf ==
    LET of(kind, stamp) ==
            IF root = "there" /\ kind \in TreeOf(agent).digested THEN stamp ELSE NoFile
    IN  IF root = "gone" \/ (agent = "opencode" /\ root # "there") THEN Unusable
        ELSE [usable |-> TRUE, main |-> of("session", Stamp("main")),
              side |-> of("sidecar", Stamp("side")), log |-> of("log", LogStamp)]

------------------------------------------------------------------------------
(* What each reader makes of a file, entry by entry; i is the entry's       *)
(* number.  Malformed lines and a torn last one are passed over.            *)

Nothing == [id |-> "own", count |-> 0, search |-> {}, fallback |-> {}, title |-> 0,
            cwd |-> 0, messages |-> <<>>, first |-> TRUE, refused |-> FALSE]

Counts(r, i, kinds) == IF said[i] \in kinds THEN r.count + 1 ELSE r.count

Adds(S, i, kinds) == IF said[i] \in kinds THEN S \cup {i} ELSE S

Keeps(old, i, kind) == IF said[i] = kind THEN i ELSE old

(* The last line that names a session names this one.                       *)
ClaudeLine(r, i) ==
    [r EXCEPT !.id = IF said[i] = "replay" THEN "parent" ELSE "own",
              !.title = Keeps(@, i, "title"),
              !.count = Counts(r, i, {"prompt", "harness", "reply", "replay"}),
              !.search = Adds(@, i, {"prompt", "replay"})]

(* A mistake: the metadata that a fork replays from its source wins over    *)
(* the rollout's own name.                                                  *)
CodexLineUnpinned(r, i) ==
    [r EXCEPT !.id = IF said[i] = "replay" THEN "parent" ELSE @,
              !.title = Keeps(@, i, "title"),
              !.count = Counts(r, i, {"prompt", "harness", "reply"}),
              !.search = Adds(@, i, {"prompt"}),
              !.fallback = Adds(@, i, {"harness"})]

(* The rollout's name is its identity.  What the user typed comes as an     *)
(* event; a response item of the user's role, which may also be the         *)
(* harness's, is the fallback.                                              *)
CodexLine(r, i) ==
    [r EXCEPT !.title = Keeps(@, i, "title"),
              !.count = Counts(r, i, {"prompt", "harness", "reply"}),
              !.search = Adds(@, i, {"prompt"}),
              !.fallback = Adds(@, i, {"harness"})]

(* A mistake: $rewindTo is passed over.                                     *)
GeminiLineForward(r, i) ==
    [r EXCEPT !.messages = IF said[i] = "prompt" THEN Append(@, i) ELSE @]

(* $rewindTo (the first message) drops what came after it.                  *)
GeminiLine(r, i) ==
    [r EXCEPT !.messages =
                  IF said[i] = "prompt" THEN Append(@, i)
                  ELSE IF said[i] = "rewind" /\ @ # <<>> THEN <<Head(@)>> ELSE @]

(* What every line of Qwen, Pi and Copilot has; without it on the first one  *)
(* the layout is unknown.                                                    *)
Checked(r, i) ==
    [r EXCEPT !.first = FALSE, !.refused = @ \/ (r.first /\ said[i] = "alien")]

(* A mistake: whatever has the user's role was typed by the user.            *)
QwenLineAnyProvenance(r, i) ==
    [Checked(r, i) EXCEPT !.count = Counts(r, i, {"prompt", "harness", "reply"}),
                          !.search = Adds(@, i, {"prompt", "harness"})]

(* Cron prompts and notifications have the user's role, but not its          *)
(* provenance.                                                               *)
QwenLine(r, i) ==
    [Checked(r, i) EXCEPT !.count = Counts(r, i, {"prompt", "harness", "reply"}),
                          !.search = Adds(@, i, {"prompt"})]

PiLine(r, i) ==
    [Checked(r, i) EXCEPT !.count = Counts(r, i, {"prompt", "reply"}),
                          !.search = Adds(@, i, {"prompt"})]

CopilotLine(r, i) ==
    [Checked(r, i) EXCEPT !.count = Counts(r, i, {"prompt", "reply"}),
                          !.search = Adds(@, i, {"prompt"})]

(* chat_history.jsonl: a prompt with a synthetic reason counts as a message. *)
GrokLine(r, i) ==
    [r EXCEPT !.count = Counts(r, i, {"prompt", "harness", "reply"}),
              !.search = Adds(@, i, {"prompt"})]

(* wire.jsonl: a protocol that is not known is refused; a begun step is one  *)
(* reply.                                                                    *)
KimiLine(r, i) ==
    [r EXCEPT !.first = FALSE, !.refused = @ \/ (r.first /\ said[i] = "alien"),
              !.count = Counts(r, i, {"prompt", "reply"}),
              !.search = Adds(@, i, {"prompt"})]

(* *.messages.json: every entry counts, the user's are searched.             *)
ClineMessage(r, i) ==
    [r EXCEPT !.count = r.count + 1, !.search = Adds(@, i, {"prompt"})]

(* store.db: the rows of the system count as nothing.                        *)
CursorBlob(r, i) ==
    [r EXCEPT !.count = Counts(r, i, {"prompt"}),
              !.search = Adds(@, i, {"prompt"})]

(* opencode.db: a session's row, its messages and their parts.               *)
OpenCodeRow(r, i) ==
    [r EXCEPT !.title = Keeps(@, i, "title"),
              !.count = Counts(r, i, {"prompt", "reply"}),
              !.search = Adds(@, i, {"prompt"})]

Entry(r, i) ==
    CASE agent = "claude" -> ClaudeLine(r, i) [] agent = "codex" -> CodexLine(r, i)
      [] agent = "gemini" -> GeminiLine(r, i) [] agent = "qwen" -> QwenLine(r, i)
      [] agent = "pi" -> PiLine(r, i) [] agent = "copilot" -> CopilotLine(r, i)
      [] agent = "grok" -> GrokLine(r, i) [] agent = "kimi" -> KimiLine(r, i)
      [] agent = "cline" -> ClineMessage(r, i) [] agent = "cursor" -> CursorBlob(r, i)
      [] agent = "opencode" -> OpenCodeRow(r, i)

(* ScanJSONLines, and the rows of a database in the order of their ids.      *)
Read(S) ==
    FoldLeft(Entry, Nothing,
             SetToSortSeq({i \in S : said[i] # "junk"}, LAMBDA i, j : i < j))

------------------------------------------------------------------------------
(* The record a source makes of the entries it read in the two files; torn  *)
(* tells that the first was being written.                                  *)

NoRecord == [there |-> FALSE, id |-> "own", count |-> 0, search |-> {}, title |-> 0, cwd |-> 0]

Told(r) == [there |-> TRUE, id |-> r.id, count |-> r.count, search |-> r.search,
            title |-> r.title, cwd |-> 0]

Unless(refused, record) == IF refused THEN NoRecord ELSE record

First(S) == IF S = {} THEN 0 ELSE Min(S)

ClaudeRecord(main) == Told(Read(main))

CodexRecord(main) ==
    LET r == Read(main)
    IN  [Told(r) EXCEPT !.search = IF @ = {} THEN r.fallback ELSE @]

(* The workspace is that of the project whose hash the chat is filed under.  *)
GeminiRecord(main, side) ==
    LET r == Read(main)
    IN  [Told(r) EXCEPT !.count = Len(r.messages), !.cwd = Newest(side),
             !.search = {i \in Range(r.messages) : said[i] = "prompt"}]

QwenRecord(main) ==
    LET r == Read(main) IN Unless(r.first \/ r.refused, [Told(r) EXCEPT !.title = First(r.search)])

PiRecord(main) ==
    LET r == Read(main) IN Unless(r.first \/ r.refused, [Told(r) EXCEPT !.title = First(r.search)])

(* workspace.yaml tells the directory.                                       *)
CopilotRecord(main, side) ==
    LET r == Read(main)
    IN  Unless(r.first \/ r.refused,
               [Told(r) EXCEPT !.title = First(r.search), !.cwd = Newest(side)])

(* summary.json is replaced as a whole; the number of messages it tells is   *)
(* preferred to the number that is read.                                     *)
GrokRecord(main, side, torn) ==
    LET r == Read(side)
        summary == Newest(main)
        told == Cardinality({i \in 1..(summary - 1) :
                                said[i] \in {"prompt", "harness", "reply"}})
    IN  Unless(torn \/ said[summary] = "alien",
               [Told(r) EXCEPT !.title = summary, !.count = IF told > 0 THEN told ELSE @])

(* state.json is replaced as a whole.                                        *)
KimiRecord(main, side, torn) ==
    LET r == Read(side) IN Unless(torn \/ r.refused, [Told(r) EXCEPT !.title = Newest(main)])

ClineRecord(main, side, torn) == Unless(torn, [Told(Read(side)) EXCEPT !.title = Newest(main)])

(* meta.json tells of the directory and whether there is a conversation.     *)
CursorRecord(main, side, torn) ==
    LET meta == Newest(main)
        conversation == \E i \in 1..(meta - 1) : said[i] = "prompt"
    IN  Unless(torn \/ ~ conversation,
               [Told(Read(side)) EXCEPT !.cwd = meta])

OpenCodeRecord(view) == Told(Read(view))

Record(main, side, torn) ==
    CASE main = {} -> NoRecord
      [] main # {} /\ agent = "claude" -> ClaudeRecord(main)
      [] main # {} /\ agent = "codex" -> CodexRecord(main)
      [] main # {} /\ agent = "gemini" -> GeminiRecord(main, side)
      [] main # {} /\ agent = "qwen" -> QwenRecord(main)
      [] main # {} /\ agent = "pi" -> PiRecord(main)
      [] main # {} /\ agent = "copilot" -> CopilotRecord(main, side)
      [] main # {} /\ agent = "grok" -> GrokRecord(main, side, torn)
      [] main # {} /\ agent = "kimi" -> KimiRecord(main, side, torn)
      [] main # {} /\ agent = "cline" -> ClineRecord(main, side, torn)
      [] main # {} /\ agent = "cursor" -> CursorRecord(main, side, torn)
      [] main # {} /\ agent = "opencode" -> OpenCodeRecord(main)

------------------------------------------------------------------------------
(* The agent.                                                               *)

Idle == [pc |-> "idle", print |-> Unusable, stamp |-> <<>>, main |-> {}, side |-> {},
         torn |-> FALSE, kept |-> 0, log |-> {}, tries |-> 0, failed |-> FALSE]

SourcesInit ==
    /\ agent \in Agents
    /\ journals \in IF agent = "cursor" THEN BOOLEAN ELSE {agent = "opencode"}
    /\ said = <<>>
    /\ writing = ""
    /\ store = [kept |-> 0, from |-> 0, log |-> FALSE]
    /\ root = "there"
    /\ scan = Idle
    /\ index = [row |-> NoRecord, stamp |-> <<>>, print |-> Unusable, subagent |-> FALSE,
                failed |-> FALSE]
    /\ mishaps = 0

Committed == EntriesIn(Database(agent), Len(said))

Checkpointed == Committed \subseteq 1..store.kept

(* An entry of a database is committed at once, into the log if it keeps    *)
(* one; a log that is checkpointed as a whole begins anew.                  *)
Commit(k) ==
    /\ Len(said) + (IF writing = "" THEN 0 ELSE 1) < MaxEntries[agent]
    /\ FileOf(agent, k) = Database(agent)
    /\ said' = Append(said, k)
    /\ store' = IF ~ journals THEN [store EXCEPT !.kept = Len(said) + 1]
                ELSE IF ~ store.log \/ Checkpointed
                THEN [store EXCEPT !.log = TRUE, !.from = Len(said)]
                ELSE store
    /\ UNCHANGED <<agent, journals, writing, root, scan, index, mishaps>>

(* Any other file is written in place.                                      *)
BeginEntry(k) ==
    /\ writing = "" /\ Len(said) < MaxEntries[agent]
    /\ FileOf(agent, k) # Database(agent)
    /\ writing' = k
    /\ UNCHANGED <<agent, journals, said, store, root, scan, index, mishaps>>

(* The entry is whole, or the agent was killed and its line stays cut off.  *)
EndEntry ==
    /\ writing # ""
    /\ \/ said' = Append(said, writing)
       \/ FileOf(agent, writing) = LogOf(agent) /\ said' = Append(said, "junk")
    /\ writing' = ""
    /\ UNCHANGED <<agent, journals, store, root, scan, index, mishaps>>

(* The log is checkpointed into the database, and removed with the agent's  *)
(* last connection.                                                         *)
Checkpoint ==
    /\ store.log /\ mishaps < MaxCloses
    /\ ~ Checkpointed
    /\ mishaps' = mishaps + 1
    /\ \E stays \in BOOLEAN : store' = [store EXCEPT !.kept = Len(said), !.log = stays]
    /\ UNCHANGED <<agent, journals, said, writing, root, scan, index>>

(* The root is moved away or loses its marker, or it is back.               *)
MoveRoot ==
    /\ \/ /\ root = "there" /\ mishaps < MaxMishaps
          /\ root' \in {"unmarked", "gone"}
          /\ mishaps' = mishaps + 1
       \/ root # "there" /\ root' = "there" /\ UNCHANGED mishaps
    /\ scan' = [scan EXCEPT !.failed = @ \/ scan.pc # "idle"]
    /\ UNCHANGED <<agent, journals, said, writing, store, index>>

------------------------------------------------------------------------------
(* A refresh of the source.                                                 *)

files == <<agent, journals, said, writing, store, root>>

(* The digest is taken first; when it is the stored one nothing is read.    *)
Digest ==
    /\ scan.pc = "idle"
    /\ scan' = IF DigestOf.usable /\ index.print = DigestOf THEN scan
               ELSE [Idle EXCEPT !.pc = "walk", !.print = DigestOf]
    /\ UNCHANGED <<files, index, mishaps>>

(* Discover; a source that is not there has no sessions, and that is no     *)
(* error.                                                                   *)
Walk ==
    /\ scan.pc = "walk"
    /\ scan' = IF root # "there" \/ (EntriesIn("main", Len(said)) = {} /\ ~ Torn("main"))
               THEN [scan EXCEPT !.pc = "put"]
               ELSE [scan EXCEPT !.stamp = <<Stamp("main")>>,
                         !.pc = IF Database(agent) = "main" THEN "open" ELSE "main"]
    /\ UNCHANGED <<files, index, mishaps>>

(* Whose modification time and size go into the row: the file as the walk   *)
(* or as its reader saw it, the log beside the metadata when there is one,  *)
(* or both files.                                                           *)
RowStamp ==
    CASE agent \in {"claude", "codex", "gemini"} -> <<Stamp("main")>>
      [] agent \in {"grok", "kimi"} ->
            <<IF Stamp("side") = NoFile THEN Stamp("main") ELSE Stamp("side")>>
      [] agent = "cursor" -> Append(scan.stamp, Stamp("side"))
      [] OTHER -> scan.stamp

ReadMain ==
    /\ scan.pc = "main"
    /\ scan' = [scan EXCEPT !.stamp = RowStamp, !.main = EntriesIn("main", Len(said)),
                    !.torn = Torn("main"),
                    !.pc = IF Database(agent) = "side" THEN "open"
                           ELSE IF SideOf(agent) # {} THEN "side" ELSE "put"]
    /\ UNCHANGED <<files, index, mishaps>>

ReadSide ==
    /\ scan.pc = "side"
    /\ scan' = [scan EXCEPT !.side = EntriesIn("side", Len(said)), !.pc = "put"]
    /\ UNCHANGED <<files, index, mishaps>>

(* A file that is there cannot be read: its session is left out, with a     *)
(* warning.                                                                 *)
FailRead ==
    /\ scan.pc \in {"main", "open"}
    /\ mishaps < MaxMishaps
    /\ mishaps' = mishaps + 1
    /\ scan' = [scan EXCEPT !.pc = "put", !.failed = TRUE]
    /\ UNCHANGED <<files, index>>

(* What was seen of the database.                                           *)
Saw(view) ==
    IF Database(agent) = "main" THEN [scan EXCEPT !.main = view, !.pc = "put"]
    ELSE [scan EXCEPT !.side = view, !.pc = "put"]

(* The database alone, opened in place.                                     *)
InPlace == Saw({i \in Committed : i <= store.kept})

(* vendorsqlite.Open: without a log the database is read where it is.       *)
OpenStore ==
    /\ scan.pc = "open"
    /\ scan' = IF store.log THEN [scan EXCEPT !.pc = "copy"] ELSE InPlace
    /\ UNCHANGED <<files, index, mishaps>>

CopyDatabase ==
    /\ scan.pc = "copy"
    /\ scan' = [scan EXCEPT !.kept = store.kept, !.pc = "log"]
    /\ UNCHANGED <<files, index, mishaps>>

(* The log goes with the last connection; then the copy has failed.         *)
CopyLog ==
    /\ scan.pc = "log"
    /\ scan' = IF store.log
               THEN [scan EXCEPT !.log = {i \in Committed : i > store.from}, !.pc = "check"]
               ELSE InPlace
    /\ UNCHANGED <<files, index, mishaps>>

Copied == Saw({i \in Committed : i <= scan.kept} \cup scan.log)

CopyAttempts == 3

(* A mistake: the two copies are taken for one moment's.                    *)
TakeCopy ==
    /\ scan.pc = "check"
    /\ scan' = Copied
    /\ UNCHANGED <<files, index, mishaps>>

(* A database that was written meanwhile is copied again, three times.      *)
CheckCopy ==
    /\ scan.pc = "check"
    /\ scan' = IF store.kept = scan.kept THEN Copied
               ELSE IF scan.tries + 1 < CopyAttempts
               THEN [scan EXCEPT !.tries = @ + 1, !.pc = "copy"] ELSE InPlace
    /\ UNCHANGED <<files, index, mishaps>>

(* A row whose stamp is that of the record is left as it is; a session that  *)
(* was not found loses its row.  The digest stored is the one taken first.   *)
Put ==
    /\ scan.pc = "put"
    /\ LET record == Record(scan.main, scan.side, scan.torn)
           same == index.row.there /\ record.there /\ index.stamp = scan.stamp
       IN  index' = [row |-> IF same THEN index.row ELSE record,
                     stamp |-> IF record.there THEN scan.stamp ELSE <<>>,
                     print |-> scan.print, failed |-> scan.failed \/ (same /\ index.failed),
                     subagent |-> "subagent" \in TreeOf(agent).recorded]
    /\ scan' = Idle
    /\ UNCHANGED <<files, mishaps>>

SourcesNext ==
    \/ \E k \in KindsOf(agent) : Commit(k) \/ BeginEntry(k)
    \/ EndEntry \/ Checkpoint \/ MoveRoot
    \/ Digest \/ Walk \/ ReadMain \/ ReadSide \/ FailRead
    \/ OpenStore \/ CopyDatabase \/ CopyLog \/ CheckCopy \/ Put

------------------------------------------------------------------------------
(* Properties.                                                              *)

SourcesTypeOK ==
    /\ agent \in Agents /\ journals \in BOOLEAN
    /\ said \in Seq(Entries) /\ Len(said) <= MaxEntries[agent]
    /\ writing \in Entries \cup {""}
    /\ store.kept \in 0..MaxEntries[agent] /\ store.from \in 0..MaxEntries[agent]
    /\ root \in {"there", "unmarked", "gone"}

(* Nobody but the user is searched for or shown as the prompt: neither the  *)
(* harness's texts, nor a subagent's session.  (Codex falls back on what    *)
(* has the user's role as long as the user has typed nothing.)              *)
OnlyTheUsers ==
    /\ ~ index.subagent
    /\ \A i \in index.row.search :
          \/ said[i] \in {"prompt", "replay"}
          \/ agent = "codex" /\ \A j \in index.row.search : said[j] = "harness"

(* A fork is not taken for its source.  (Claude's file tells of its own     *)
(* identity with every line, so its last line must be its own.)             *)
OwnIdentity == agent # "claude" => index.row.id = "own"

(* What the user took back is not in a row made after it.                   *)
RewoundIsForgotten ==
    LET messages == {i \in 1..Len(said) : said[i] = "prompt"}
    IN  agent = "gemini" /\ index.row.there /\ index.stamp # <<>> =>
            \A i \in index.row.search, r \in 1..index.stamp[1].at :
                said[r] = "rewind" /\ i < r => i = Min(messages)

(* What was seen of a database is all that it held at one moment.           *)
ViewIsAMoment ==
    Database(agent) # "none" =>
        LET rows == {i \in Committed : said[i] = "prompt"}
        IN  \A i \in index.row.search, j \in rows : j < i => j \in index.row.search

(* "An identical one cannot hide a changed record": when the digest stored  *)
(* is that of the files as they are, and nothing failed while they were     *)
(* read, the row is what they tell.  That is so where the digest and the    *)
(* row's stamp are of every file that is read ...                           *)
Exact ==
    LET all(file) == EntriesIn(file, Len(said))
        record == Record(all("main"), all("side"), Torn("main"))
    IN  IF agent \in {"claude", "codex", "qwen", "pi"} \/ (agent = "cursor" /\ ~ journals)
        THEN index.row = record
        ELSE agent \in {"gemini", "copilot"} => [index.row EXCEPT !.cwd = 0] = [record EXCEPT !.cwd = 0]

(* ... elsewhere the row has what was said before the file that is digested  *)
(* last changed.                                                             *)
AtLeast ==
    LET known == IF Database(agent) # "none" THEN store.kept
                 ELSE Newest(EntriesIn("main", Len(said)))
    IN  agent \in {"grok", "kimi", "cline", "cursor", "opencode"} /\ index.row.there =>
            \A i \in 1..known : said[i] = "prompt" => i \in index.row.search

SkippedRowIsTrue ==
    root = "there" /\ ~ index.failed /\ index.print.usable =>
        (index.print = DigestOf => Exact /\ AtLeast)

(* Rows say what the agent's files say, of the user's session alone.        *)
RowsAreHonest ==
    /\ SourcesTypeOK /\ OnlyTheUsers /\ OwnIdentity /\ RewoundIsForgotten
    /\ ViewIsAMoment /\ SkippedRowIsTrue
=============================================================================
