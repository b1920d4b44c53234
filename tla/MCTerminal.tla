----------------------------- MODULE MCTerminal -----------------------------
EXTENDS Terminal

Three == {"a", "b", "c"}

Found == <<[key |-> "a", today |-> TRUE], [key |-> "b", today |-> FALSE],
           [key |-> "c", today |-> FALSE]>>

(* A letter of the filter leaves the two older sessions.                    *)
OneLetter == [n \in 0..1 |-> IF n = 0 THEN Three ELSE {"b", "c"}]

Agents == [s \in Three |-> IF s = "a" THEN "claude" ELSE "codex"]

Catalog == <<"claude", "codex", "grok">>

TwoPolicies == <<"balanced", "full">>

Found2 == {{}, {"omitted"}}

(* Nothing, two warnings, a warning and a block.                            *)
Looks == {{}, {PF!Warning("git", "head"), PF!Warning("agent.active", "")},
          {PF!Warning("git", "head"), PF!Block("git.repository", "", "safety")}}
=============================================================================
