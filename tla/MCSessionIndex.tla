--------------------------- MODULE MCSessionIndex ---------------------------
(* A few processes on one index file.                                      *)
EXTENDS Indexing

(* The process Earlier is of the build before the others'.                   *)
CONSTANT Earlier

BuildOf == [p \in Procs |-> IF p = Earlier THEN 1 ELSE 2]

AllAgents == {"claude", "codex", "gemini", "grok", "kimi", "qwen", "pi", "copilot",
              "cline", "cursor", "opencode"}

(* A third entry where a second one can be taken back, or be told of in    *)
(* another file.                                                           *)
EntriesOf == [a \in AllAgents |-> IF a \in {"gemini", "cursor"} THEN 3 ELSE 2]
=============================================================================
