----------------------------- MODULE Indexing -----------------------------
(***************************************************************************)
(* The session index from both its sides: the processes that share its     *)
(* file, for which a source is a set of versioned files (SessionIndex),    *)
(* and the sources of the eleven agents, for which the store is the row    *)
(* and the digest of one session (Sources).  They share only the steps of  *)
(* Refresh, which each has in its own detail, so a behaviour is about one. *)
(***************************************************************************)
EXTENDS SessionIndex

CONSTANTS Agents, MaxEntries, MaxCloses, MaxMishaps

ASSUME SourcesAssumption ==
    MaxEntries \in [Agents -> Nat] /\ MaxCloses \in Nat /\ MaxMishaps \in Nat

VARIABLES side, agent, journals, said, writing, store, root, scan, index, mishaps

F == INSTANCE Sources

processVars == <<machine, overtaken, torn>>

sourceVars == <<agent, journals, said, writing, store, root, scan, index, mishaps>>

IndexingInit ==
    /\ Init /\ F!SourcesInit
    /\ side \in {"processes", "sources"}
    /\ side = "processes" => agent = "claude"

IndexingNext ==
    \/ side = "processes" /\ Next /\ UNCHANGED <<sourceVars, side>>
    \/ side = "sources" /\ F!SourcesNext /\ UNCHANGED <<processVars, side>>

IndexingSpec == IndexingInit /\ [][IndexingNext]_<<processVars, sourceVars, side>>

(* Rows say what the agent's files say, of the user's session alone (the    *)
(* sources of internal/agents/sources, ReplaceSource).                      *)
RowsAreHonest == F!RowsAreHonest
=============================================================================
