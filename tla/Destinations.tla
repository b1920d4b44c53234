----------------------------- MODULE Destinations -----------------------------
(***************************************************************************)
(* The destinations of a handoff (internal/handoff/target_*.go): how the   *)
(* new session of each agent is named or found again.  Claude, Grok and    *)
(* Qwen take the session's id from rein, derived from the capsule; Codex   *)
(* and OpenCode draw one, and the session is known by its first prompt.    *)
(* A behaviour is about one destination agent, with launches of rein and a *)
(* user side by side.  Plans, warnings and the store are in Handoff.       *)
(***************************************************************************)
EXTENDS Naturals, FiniteSets, Sequences

CONSTANTS Launchers,    \* processes of rein that hand off
          Capsules,     \* what they hand off, each with one workspace
          TicksPerSecond,
          MaxTicks,     \* bound: the clock
          MaxLaunches,  \* bound: launches
          MaxStored,    \* bound: sessions of the destination
          MaxUses       \* bound: what the user does in the destination

VARIABLES destination, \* the agent, whether its home is known, its clock
          stored,      \* sessions in the agent's store
          ticks,       \* the clock
          launch,      \* what each process does
          outcomes,    \* last entries of the lineage, by process
          launches,    \* launches begun
          uses         \* what the user did

destinationVars == <<destination, stored, ticks, launch, outcomes, launches, uses>>

Pinning == {"claude", "grok", "qwen"}

Destinations == Pinning \cup {"codex", "opencode"}

Nobody == <<"nobody">>

(* What is typed or sent first.  Codex records its own preamble as a turn   *)
(* of the user's ahead of it; it records each turn as an item and then as   *)
(* an event, and only the event says what the user sent.                    *)
Preamble == [event |-> FALSE, text |-> <<"preamble">>]

Event(text) == [event |-> TRUE, text |-> text]

Own == Event(<<"own">>)

(* The bootstrap of a capsule names the capsule's directory, in full or in  *)
(* the short form for an argv that is too long or has newlines on Windows   *)
(* (planDestination, shortProjectionArgv).                                  *)
Bootstrap(c) == <<"bootstrap", c>>

Pinned(c) == <<"pinned", c>>

(* What the destination records of the launch argument, line by line.       *)
Told(c) ==
    IF destination.agent = "codex"
    THEN <<Preamble, [event |-> FALSE, text |-> Bootstrap(c)], Event(Bootstrap(c))>>
    ELSE <<Event(Bootstrap(c))>>

(* The session id of a plan: derived from the capsule, or the agent's.      *)
PlanId(c) == IF destination.agent \in Pinning THEN Pinned(c) ELSE Nobody

NoOutcome == [capsule |-> Nobody, start |-> 0, child |-> Nobody, state |-> "none",
              session |-> Nobody]

Idle == [at |-> "idle", capsule |-> Nobody, start |-> 0, child |-> Nobody]

DestinationsInit ==
    /\ \E agent \in Destinations, known, seconds \in BOOLEAN :
          /\ agent \notin {"claude", "qwen"} => known
          /\ agent # "opencode" => ~ seconds
          /\ destination = [agent |-> agent, known |-> known, seconds |-> seconds]
    /\ stored = {} /\ ticks = 0 /\ launches = 0 /\ uses = 0
    /\ launch = [p \in Launchers |-> Idle]
    /\ outcomes = [p \in Launchers |-> NoOutcome]

------------------------------------------------------------------------------
(* The store of the agent.                                                  *)

(* A session: who started it, for which capsule, what it was asked first.   *)
Session(id, by, capsule, prompts) ==
    [id |-> id, by |-> by, capsule |-> capsule, prompts |-> prompts,
     born |-> ticks, used |-> ticks]

Drawn == CHOOSE id \in {<<"drawn", n>> : n \in 0..MaxStored} : \A s \in stored : s.id # id

Find(id) == CHOOSE s \in stored : s.id = id

Exists(id) == \E s \in stored : s.id = id

Rest == UNCHANGED <<destination, launches, uses>>

------------------------------------------------------------------------------
(* Launching.                                                               *)

(* A mistake: a collision is only looked for when the capsule is planned    *)
(* the first time.                                                          *)
TakenAtFirst(c, at) == at = "idle" /\ PlanId(c) # Nobody /\ Exists(PlanId(c))

(* Claude and Qwen ask the index, refreshed for it.                         *)
InIndex(id) == Exists(id)

(* Grok looks for a directory of the id under any project.                  *)
InDirectories(id) == Exists(id)

(* allocateSessionID: the id must be free.                                  *)
Taken(c, at) ==
    /\ PlanId(c) # Nobody
    /\ IF destination.agent = "grok" THEN InDirectories(PlanId(c)) ELSE InIndex(PlanId(c))

(* Execute plans; Claude's launches of one id wait for each other.          *)
Plan(p, c) ==
    /\ launch[p].at = "idle" /\ launches < MaxLaunches
    /\ ~ Taken(c, "idle")
    /\ destination.agent = "claude" =>
          \A q \in Launchers : launch[q].at = "idle" \/ launch[q].capsule # c
    /\ launch' = [launch EXCEPT ![p] = [Idle EXCEPT !.at = "materialize", !.capsule = c]]
    /\ outcomes' = [outcomes EXCEPT ![p] = NoOutcome]
    /\ launches' = launches + 1
    /\ UNCHANGED <<destination, stored, ticks, uses>>

Returns(p) == launch' = [launch EXCEPT ![p] = Idle]

(* Materialize, where Grok looks again, and the time of the launch.         *)
Materialize(p) ==
    /\ launch[p].at = "materialize"
    /\ IF destination.agent = "grok" /\ Taken(launch[p].capsule, "materialize") THEN Returns(p)
       ELSE launch' = [launch EXCEPT ![p].at = "exec", ![p].start = ticks]
    /\ Rest /\ UNCHANGED <<stored, ticks, outcomes>>

(* BeforeExec plans once more; then the child is started, or is not and     *)
(* nothing is looked for.                                                   *)
Exec(p) ==
    /\ launch[p].at = "exec"
    /\ \/ ~ Taken(launch[p].capsule, "exec") /\ launch' = [launch EXCEPT ![p].at = "child"]
       \/ Returns(p)
    /\ Rest /\ UNCHANGED <<stored, ticks, outcomes>>

(* The child opens its session.  An id that is there is refused by the      *)
(* agent, which ends.                                                       *)
ChildOpens(p) ==
    /\ launch[p].at = "child" /\ launch[p].child = Nobody
    /\ Cardinality(stored) < MaxStored
    /\ LET c == launch[p].capsule
           id == IF PlanId(c) = Nobody THEN Drawn ELSE PlanId(c)
       IN IF Exists(id) THEN launch' = [launch EXCEPT ![p].at = "verify"] /\ UNCHANGED stored
          ELSE /\ stored' = stored \cup {Session(id, p, c, <<>>)}
               /\ launch' = [launch EXCEPT ![p].child = id]
    /\ Rest /\ UNCHANGED <<ticks, outcomes>>

(* It records its first prompt, line by line.                               *)
ChildPrompted(p) ==
    /\ launch[p].at = "child" /\ launch[p].child # Nobody
    /\ LET s == Find(launch[p].child)
           n == Len(s.prompts) + 1
       IN /\ n \in DOMAIN Told(s.capsule)
          /\ stored' = (stored \ {s}) \cup
                {[s EXCEPT !.prompts = Append(@, Told(s.capsule)[n]), !.used = ticks]}
    /\ Rest /\ UNCHANGED <<ticks, launch, outcomes>>

(* The child ends, before or after any of that.                             *)
ChildEnds(p) ==
    /\ launch[p].at = "child"
    /\ launch' = [launch EXCEPT ![p].at = "verify"]
    /\ Rest /\ UNCHANGED <<stored, ticks, outcomes>>

------------------------------------------------------------------------------
(* Finding the session.                                                     *)

Second(t) == t \div TicksPerSecond

(* A mistake: a store that records seconds is compared with the launch to   *)
(* the tick.                                                                *)
CreatedAfterExactly(s, start) ==
    (IF destination.seconds THEN Second(s.born) * TicksPerSecond ELSE s.born) >= start

(* openCodeCreatedAtOrAfter                                                 *)
CreatedAtOrAfter(s, start) == Second(s.born) >= Second(start)

(* codexMtimeAtOrAfter                                                      *)
UsedAtOrAfter(s, start) == s.used >= start

FirstText(s, which) ==
    IF which = {} THEN Nobody ELSE s.prompts[CHOOSE i \in which : \A j \in which : i <= j].text

(* A mistake: whatever comes first is the first prompt.                     *)
FirstOfAll(s) == FirstText(s, DOMAIN s.prompts)

(* codexFirstUserMessage prefers the first event to the first item;         *)
(* openCodeFirstUserMessage.                                                *)
FirstUserMessage(s) ==
    LET events == {i \in DOMAIN s.prompts : s.prompts[i].event}
    IN FirstText(s, IF events = {} THEN DOMAIN s.prompts ELSE events)

(* A mistake: a session of the right time and place is the one.             *)
CodexByTime(c, start) == {s \in stored : UsedAtOrAfter(s, start)}

(* Sessions of the workspace, used since the launch, that begin with the    *)
(* briefing (CodexTarget.Verify).                                           *)
CodexMatches(c, start) ==
    {s \in stored : UsedAtOrAfter(s, start) /\ FirstUserMessage(s) = Bootstrap(c)}

(* Made since the launch (OpenCodeTarget.Verify).                           *)
OpenCodeMatches(c, start) ==
    {s \in stored : CreatedAtOrAfter(s, start) /\ FirstUserMessage(s) = Bootstrap(c)}

(* A directory of the id.                                                   *)
GrokMatches(c) == {s \in stored : s.id = Pinned(c)}

(* A file of the id, in a home that must be set.                            *)
ClaudeMatches(c) == {s \in stored : destination.known /\ s.id = Pinned(c)}

QwenMatches(c) == {s \in stored : destination.known /\ s.id = Pinned(c)}

(* The sessions that Verify counts.                                         *)
Candidates(c, start) ==
    CASE destination.agent = "codex"    -> CodexMatches(c, start)
      [] destination.agent = "opencode" -> OpenCodeMatches(c, start)
      [] destination.agent = "grok"     -> GrokMatches(c)
      [] destination.agent = "claude"   -> ClaudeMatches(c)
      [] destination.agent = "qwen"     -> QwenMatches(c)

(* Verify: one is the session, several are ambiguous.                       *)
State(found) ==
    IF found = {} THEN "unresolved" ELSE IF Cardinality(found) = 1 THEN "resolved" ELSE "ambiguous"

(* The outcome that is appended: a pinned id is named in any case.          *)
Verify(p) ==
    /\ launch[p].at = "verify"
    /\ LET l == launch[p]
           found == Candidates(l.capsule, l.start)
           state == State(found)
       IN outcomes' = [outcomes EXCEPT ![p] =
             [capsule |-> l.capsule, start |-> l.start, child |-> l.child, state |-> state,
              session |-> IF state = "resolved" THEN (CHOOSE s \in found : TRUE).id
                          ELSE PlanId(l.capsule)]]
    /\ Returns(p)
    /\ Rest /\ UNCHANGED <<stored, ticks>>

------------------------------------------------------------------------------
(* The user and the clock.                                                  *)

(* A session of the user's own, or one that is taken up again under an id   *)
(* of its own.                                                              *)
Uses ==
    /\ uses < MaxUses /\ uses' = uses + 1
    /\ UNCHANGED <<destination, ticks, launch, outcomes, launches>>

UserStarts ==
    /\ Uses /\ Cardinality(stored) < MaxStored
    /\ \/ stored' = stored \cup {Session(Drawn, Nobody, Nobody, <<Own>>)}
       \/ \E s \in stored : stored' = stored \cup {Session(Drawn, Nobody, s.capsule, s.prompts)}

UserUses ==
    /\ Uses
    /\ \E s \in stored : s.used # ticks
                         /\ stored' = (stored \ {s}) \cup {[s EXCEPT !.used = ticks]}

Tick ==
    /\ ticks < MaxTicks /\ ticks' = ticks + 1
    /\ Rest /\ UNCHANGED <<stored, launch, outcomes>>

DestinationsNext ==
    \/ \E p \in Launchers :
        \/ \E c \in Capsules : Plan(p, c)
        \/ Materialize(p) \/ Exec(p) \/ ChildOpens(p) \/ ChildPrompted(p) \/ ChildEnds(p)
        \/ Verify(p)
    \/ UserStarts \/ UserUses \/ Tick

------------------------------------------------------------------------------
(* Properties.                                                              *)

(* The other sessions of the same capsule that could be taken for a         *)
(* launch's own: made or used since it began.                               *)
Rivals(o) ==
    {s \in stored : /\ s.capsule = o.capsule /\ s.id # o.child
                    /\ \/ s.used >= o.start
                       \/ destination.agent = "opencode" /\ Second(s.born) >= Second(o.start)}

(* Verify never guesses a session (target.go:25): what an outcome names as  *)
(* resolved stems from the handoff's own capsule, and is the session of its *)
(* own child unless another of that capsule was used meanwhile; and the     *)
(* session of a child that got its briefing is not overlooked.              *)
ResolvedIsTheHandoff ==
    \A p \in Launchers : outcomes[p] # NoOutcome =>
        LET o == outcomes[p]
            briefed == \E s \in stored : s.id = o.child /\ s.prompts = Told(o.capsule)
        IN /\ o.state = "resolved" =>
                /\ \E s \in stored : s.id = o.session /\ s.capsule = o.capsule
                /\ Rivals(o) = {} => o.session = o.child
           /\ briefed /\ destination.known => o.state # "unresolved"
==============================================================================
