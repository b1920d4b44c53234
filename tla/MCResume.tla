------------------------------ MODULE MCResume ------------------------------
EXTENDS Resume, TLC

Base == [place |-> "directory", directory |-> 1, git |-> "repository", roots |-> 1, remote |-> 1,
         branch |-> 1, head |-> 1, tree |-> "clean", uncertain |-> FALSE,
         executable |-> 1, layout |-> TRUE, version |-> "supported", scanned |-> TRUE,
         capabilities |-> [c \in {"mcp"} |-> 1],
         runtimes |-> {[name |-> "go", declared |-> 1, actual |-> 1, failed |-> FALSE]}]

(* A commit and edits; another agent, a tool gone, another runtime; a       *)
(* runtime gone and a detached HEAD; another repository in the place; no    *)
(* repository; a host too slow to look.                                     *)
Places == {Base,
           [Base EXCEPT !.head = 2, !.tree = "modified"],
           [Base EXCEPT !.executable = 2, !.capabilities = [c \in {"mcp"} |-> 0],
                        !.runtimes = {[name |-> "go", declared |-> 1, actual |-> 2, failed |-> FALSE]}],
           [Base EXCEPT !.branch = 0,
                        !.runtimes = {[name |-> "go", declared |-> 1, actual |-> 0, failed |-> FALSE]}],
           [Base EXCEPT !.directory = 2, !.roots = 2, !.remote = 2],
           [Base EXCEPT !.git = "outside", !.roots = 0, !.remote = 0, !.branch = 0, !.head = 0,
                        !.tree = "unavailable"],
           [Base EXCEPT !.version = "timeout", !.scanned = FALSE]}

FromTheAgent == [repository |-> NoRepository, branch |-> 1, head |-> 0, requires |-> {"mcp"}]

Flags == {{}, {<<"baseline.unavailable", "">>}}

Interchangeable == Permutations(Procs)
=============================================================================
