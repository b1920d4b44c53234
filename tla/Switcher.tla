------------------------------ MODULE Switcher ------------------------------
(***************************************************************************)
(* The session list behind bare rein (internal/tui/switcher) and the       *)
(* readiness of its rows (internal/tui/readiness/prober.go).  The list     *)
(* handles one message at a time; loads and probes run beside it and       *)
(* answer with messages, in any order.                                     *)
(*                                                                         *)
(* The filter is modelled by its length, and Matching[n] is what the n     *)
(* first characters match.  A section of the list is today's or older.     *)
(***************************************************************************)
EXTENDS Integers, Sequences, FiniteSets

LOCAL INSTANCE SequencesExt

CONSTANTS Sessions,            \* session references
          FirstIndex,          \* what the index holds when the list opens
          InProject,           \* sessions of the project the user is in
          ReadOnly,            \* sessions that cannot be resumed
          Matching,            \* Matching[n]: sessions the filter matches
          Heights,             \* rows the list may have on the screen
          MaxConcurrentProbes, \* verifications at a time
          MaxProbeRetries,     \* probes of a row that find nothing out
          MaxKeys,             \* bound: keys pressed, resizes
          MaxChanges           \* bound: changes of the index

ASSUME SwitcherAssumption ==
    /\ InProject \subseteq Sessions /\ ReadOnly \subseteq Sessions
    /\ Heights \subseteq Nat \ {0}
    /\ MaxConcurrentProbes \in Nat \ {0} /\ MaxProbeRetries \in Nat \ {0}
    /\ MaxKeys \in Nat /\ MaxChanges \in Nat

VARIABLES index,    \* the session index, newest first
          list,     \* the model: filter, scope, records, cursor, offset, mode
          loads,    \* loads that run or whose answer is on its way, by the key
          \* that started them
          prober,   \* cache, pending, verifying, retries
          notes,    \* ProbedMsg on their way
          screen,   \* what has the terminal
          intent,   \* what the user decided
          keys,     \* keys pressed
          changes   \* changes of the index

listVars == <<index, list, loads, prober, notes, changes>>

Filters == DOMAIN Matching

Records == [key : Sessions, today : BOOLEAN]

(* A load: the filter it was made with, and what it found.                  *)
Queries == [filter : Filters, project : BOOLEAN]

NoIntent == [action |-> "none", key |-> ""]

(* Every session starts without an answer.                                  *)
NewProber == [cache |-> [s \in Sessions |-> "none"], pending |-> {},
              verifying |-> {}, retries |-> [s \in Sessions |-> 0]]

(* New: inside a project the list shows its sessions only.                  *)
NewList(inside, height) ==
    [filter |-> 0, inside |-> inside, project |-> inside, records |-> <<>>,
     cursor |-> 1, offset |-> 1, height |-> height, mode |-> "list",
     menu |-> FALSE, unasked |-> FALSE]

------------------------------------------------------------------------------
(* Rows.                                                                    *)

Header == [key |-> "", today |-> FALSE]

(* rebuildRows: a heading before the first record of each section.          *)
Rows(records) ==
    LET opens(i) == i = 1 \/ records[i].today # records[i - 1].today
        lines(i) == IF opens(i) THEN <<Header, records[i]>> ELSE <<records[i]>>
    IN IF records = <<>> THEN <<>> ELSE FlattenSeq([i \in DOMAIN records |-> lines(i)])

IsHeader(row) == row.key = ""

SessionRows(rows) == {i \in DOMAIN rows : ~ IsHeader(rows[i])}

(* selected: the reference under the cursor, or none.                       *)
Selected(l) ==
    LET rows == Rows(l.records)
    IN IF l.cursor \in SessionRows(rows) THEN rows[l.cursor].key ELSE ""

Nearest(S, c) == CHOOSE i \in S : \A j \in S : (i - c) * (i - c) <= (j - c) * (j - c)

(* snapCursorToSession: off a heading in the given direction, or else in    *)
(* the other one.                                                           *)
Snap(rows, c, down) ==
    LET at == IF c > Len(rows) THEN Len(rows) ELSE c
        below == {i \in SessionRows(rows) : i >= at}
        above == {i \in SessionRows(rows) : i <= at}
    IN IF rows = <<>> THEN 1
       ELSE IF (down /\ below # {}) \/ above = {} THEN Nearest(below, at)
       ELSE Nearest(above, at)

(* moveCursor: n sessions on, or as many as there are.                      *)
Moved(rows, c, n, down) ==
    LET ahead == {i \in SessionRows(rows) : IF down THEN i > c ELSE i < c}
        passed(i) == {j \in ahead : IF down THEN j <= i ELSE j >= i}
        steps == IF Cardinality(ahead) < n THEN Cardinality(ahead) ELSE n
    IN IF ahead = {} THEN c
       ELSE CHOOSE i \in ahead : Cardinality(passed(i)) = steps

(* clampOffset: scroll as little as keeps the cursor on the screen, and a   *)
(* heading with the row under it.                                           *)
ClampOffset(l) ==
    LET rows == Rows(l.records)
        up == IF l.cursor < l.offset THEN l.cursor ELSE l.offset
        down == IF l.cursor >= up + l.height THEN l.cursor - l.height + 1 ELSE up
        top == IF down > 1 /\ down = l.cursor /\ IsHeader(rows[down - 1])
               THEN down - 1 ELSE down
        last == IF Len(rows) > l.height THEN Len(rows) - l.height + 1 ELSE 1
    IN IF rows = <<>> THEN [l EXCEPT !.offset = 1]
       ELSE [l EXCEPT !.offset = IF top > last THEN last ELSE top]

(* A mistake: the cursor stays where it was, whatever is there now.         *)
RebuildInPlace(l, records) ==
    ClampOffset([l EXCEPT !.records = records])

(* rebuildRows: the cursor stays on its session when that is still there,   *)
(* and goes to the first one otherwise.                                     *)
Rebuild(l, records) ==
    LET rows == Rows(records)
        kept == {i \in SessionRows(rows) : rows[i].key = Selected(l)}
        at == IF kept = {} THEN 1 ELSE Nearest(kept, 1)
    IN ClampOffset([l EXCEPT !.records = records, !.cursor = Snap(rows, at, TRUE)])

OnScreen(l) ==
    LET rows == Rows(l.records)
    IN {rows[i].key : i \in {j \in SessionRows(rows) :
            l.offset <= j /\ j < l.offset + l.height}}

------------------------------------------------------------------------------
(* Readiness.                                                               *)

Reports == {"failed", "timeout", "decided"}

(* FromReport: ready, warned about or blocked are known; a report that was  *)
(* not made, or whose only blocks are checks without evidence, is not       *)
(* (uninspectable).                                                         *)
FromReport(report) == IF report \in {"failed", "timeout"} THEN "unknown" ELSE "known"

(* A mistake: a row that was not found out is tried again for ever.         *)
WantedForEver(s) == s \notin ReadOnly /\ prober.cache[s] \in {"none", "unknown"}

(* Whether Probe would look at a row: one that has no answer, or one that   *)
(* was not found out and has been tried less than maxProbeRetries times.    *)
Wanted(s) ==
    /\ s \in Sessions \ ReadOnly
    /\ \/ prober.cache[s] = "none"
       \/ prober.cache[s] = "unknown" /\ prober.retries[s] < MaxProbeRetries

(* Prober.Probe: the rows it starts to look at.                             *)
Probe(seen) == {s \in seen : Wanted(s) /\ s \notin prober.pending}

(* probeVisible, after the list has become l.                               *)
ProbeVisible(l) ==
    /\ list' = [l EXCEPT !.unasked = FALSE]
    /\ prober' = [prober EXCEPT !.pending = @ \cup Probe(OnScreen(l))]

(* probeOne takes a slot.                                                   *)
ProbeStarts(s) ==
    /\ s \in prober.pending \ prober.verifying
    /\ Cardinality(prober.verifying) < MaxConcurrentProbes
    /\ prober' = [prober EXCEPT !.verifying = @ \cup {s}]
    /\ UNCHANGED <<index, list, loads, notes, screen, intent, keys, changes>>

(* The report is there: the answer is cached, the slot is free, and the     *)
(* list is told.                                                            *)
ProbeEnds(s) ==
    /\ s \in prober.verifying
    /\ \E report \in Reports :
        LET answer == FromReport(report)
        IN prober' = [prober EXCEPT
              !.cache[s] = answer,
              !.retries[s] = IF answer = "unknown" THEN @ + 1 ELSE 0,
              !.pending = @ \ {s}, !.verifying = @ \ {s}]
    /\ notes' = notes + 1
    /\ UNCHANGED <<index, list, loads, screen, intent, keys, changes>>

------------------------------------------------------------------------------
(* Loading.                                                                 *)

(* currentFilter                                                            *)
Query(l) == [filter |-> l.filter, project |-> l.project]

(* What the index has for a query (Search, indexLoader.Load).               *)
Search(q) ==
    SelectSeq(index, LAMBDA r : /\ r.key \in Matching[q.filter]
                                /\ q.project => r.key \in InProject)

(* loadCmd: a load of its own, whatever loads run already.                  *)
Load(l) == loads' = loads \cup {[n |-> keys', query |-> Query(l), read |-> FALSE, got |-> <<>>]}

(* The load reads the index, or fails and has nothing.                      *)
LoadReads(d) ==
    /\ d \in loads /\ ~ d.read
    /\ \E got \in {Search(d.query), <<>>} :
        loads' = (loads \ {d}) \cup {[d EXCEPT !.read = TRUE, !.got = got]}
    /\ UNCHANGED <<index, list, prober, notes, screen, intent, keys, changes>>

(* loadedMsg: whichever load answers, its records are the list.             *)
Loaded(d) ==
    /\ screen = "list" /\ d \in loads /\ d.read
    /\ loads' = loads \ {d}
    /\ ProbeVisible(Rebuild(list, d.got))
    /\ UNCHANGED <<index, notes, screen, intent, keys, changes>>

(* A mistake: a probe that ends is only drawn.                              *)
ProbedDrawn ==
    /\ screen = "list" /\ notes > 0
    /\ notes' = notes - 1
    /\ UNCHANGED <<index, list, loads, prober, screen, intent, keys, changes>>

(* ProbedMsg                                                                *)
Probed ==
    /\ screen = "list" /\ notes > 0
    /\ notes' = notes - 1
    /\ ProbeVisible(list)
    /\ UNCHANGED <<index, loads, screen, intent, keys, changes>>

------------------------------------------------------------------------------
(* Keys.                                                                    *)

Press(mode) ==
    /\ screen = "list" /\ list.mode = mode /\ keys < MaxKeys
    /\ keys' = keys + 1
    /\ UNCHANGED <<index, changes>>

Stay == UNCHANGED <<screen, intent, notes>>

(* The program ends: nobody reads what its loads and probes find.           *)
Quit(action, key) ==
    /\ intent' = [action |-> action, key |-> key]
    /\ screen' = IF action = "none" THEN "end" ELSE action
    /\ list' = NewList(list.inside, list.height)
    /\ loads' = {} /\ prober' = NewProber /\ notes' = 0

(* choose: nothing happens when no session is under the cursor.             *)
Choose(action, l) ==
    IF Selected(l) = "" THEN list' = l /\ Stay /\ UNCHANGED <<loads, prober>>
    ELSE Quit(action, Selected(l))

Reload(l) == list' = l /\ Load(l) /\ Stay /\ UNCHANGED prober

ToggleScope(l) ==
    IF l.inside THEN Reload([l EXCEPT !.project = ~ @])
    ELSE list' = l /\ Stay /\ UNCHANGED <<loads, prober>>

Cancel == Quit("none", "")

MoveTo(c) ==
    ProbeVisible(ClampOffset([list EXCEPT !.cursor = c])) /\ Stay /\ UNCHANGED loads

(* Home, End and a resize move the list and ask for no readiness.           *)
JumpTo(l) ==
    /\ list' = [ClampOffset(l) EXCEPT !.unasked = TRUE]
    /\ Stay /\ UNCHANGED <<loads, prober>>

Escape ==
    /\ Press("list")
    /\ IF list.filter > 0 THEN Reload([list EXCEPT !.filter = 0]) ELSE Cancel

Type == Press("list") /\ list.filter + 1 \in Filters
        /\ Reload([list EXCEPT !.filter = @ + 1])

Backspace == Press("list") /\ list.filter > 0 /\ Reload([list EXCEPT !.filter = @ - 1])

Refresh == Press("list") /\ Reload(list)

Arrow ==
    /\ Press("list") /\ list.records # <<>>
    /\ \E down \in BOOLEAN, n \in {1, list.height} :
        MoveTo(Moved(Rows(list.records), list.cursor, n, down))

HomeEnd ==
    /\ Press("list")
    /\ LET rows == Rows(list.records)
       IN \E c \in {Snap(rows, 1, TRUE), Snap(rows, Len(rows), FALSE)} :
            JumpTo([list EXCEPT !.cursor = c])

Resize(h) ==
    /\ screen = "list" /\ keys < MaxKeys /\ keys' = keys + 1
    /\ UNCHANGED <<index, changes>>
    /\ h # list.height
    /\ JumpTo([list EXCEPT !.height = h])

Enter == Press("list") /\ Choose("resume", list)

Scope == Press("list") /\ ToggleScope(list)

(* Tab opens the menu of actions on a session.                              *)
Tab ==
    /\ Press("list") /\ Selected(list) # ""
    /\ list' = [list EXCEPT !.mode = "actions"] /\ Stay /\ UNCHANGED <<loads, prober>>

(* ctrl+k: the palette offers what needs a session only when there is one.  *)
OpenPalette ==
    /\ Press("list")
    /\ list' = [list EXCEPT !.mode = "palette", !.menu = Selected(list) # ""]
    /\ Stay /\ UNCHANGED <<loads, prober>>

Closed(l) == [l EXCEPT !.mode = "list", !.menu = FALSE]

CloseMenu ==
    /\ Press("actions") \/ Press("palette")
    /\ list' = Closed(list) /\ Stay /\ UNCHANGED <<loads, prober>>

SessionActions == {"resume", "fork", "handoff", "inspect"}

(* updateActions and runCommand: the same entries, in the menu as           *)
(* accelerators and in the palette by name.                                 *)
Pick ==
    /\ Press("actions") \/ Press("palette")
    /\ \/ /\ list.mode = "actions" \/ list.menu
          /\ \E action \in SessionActions : Choose(action, Closed(list))
       \/ ToggleScope(Closed(list))
       \/ list.mode = "palette" /\ Reload(Closed(list))
       \/ list.mode = "palette" /\ Quit("command", "")
       \/ Cancel

(* The context of the command is cancelled: the program is killed.          *)
Kill ==
    /\ screen = "list"
    /\ Cancel
    /\ UNCHANGED <<index, keys, changes>>

(* Another process refreshes the index: a session was used, or is gone.     *)
IndexChanges(s) ==
    /\ screen = "list" /\ changes < MaxChanges
    /\ changes' = changes + 1
    /\ LET others == SelectSeq(index, LAMBDA r : r.key # s)
       IN index' \in {<<[key |-> s, today |-> TRUE]>> \o others, others}
    /\ UNCHANGED <<list, loads, prober, notes, screen, intent, keys>>

ListInit ==
    /\ index = FirstIndex /\ screen = "list" /\ intent = NoIntent
    /\ \E inside \in BOOLEAN, height \in Heights : list = NewList(inside, height)
    /\ loads = {[n |-> 0, query |-> Query(list), read |-> FALSE, got |-> <<>>]}
    /\ prober = NewProber /\ notes = 0 /\ keys = 0 /\ changes = 0

ListNext ==
    \/ \E s \in Sessions : ProbeStarts(s) \/ ProbeEnds(s) \/ IndexChanges(s)
    \/ \E d \in loads : LoadReads(d) \/ Loaded(d)
    \/ Probed
    \/ Escape \/ Type \/ Backspace \/ Refresh \/ Arrow \/ HomeEnd \/ Enter \/ Scope
    \/ Tab \/ OpenPalette \/ CloseMenu \/ Pick \/ Kill
    \/ \E h \in Heights : Resize(h)

------------------------------------------------------------------------------
(* Properties.                                                              *)

ListTypeOK ==
    /\ index \in Seq(Records)
    /\ list.filter \in Filters /\ list.records \in Seq(Records)
    /\ {list.inside, list.project, list.menu, list.unasked} \subseteq BOOLEAN
    /\ list.mode \in {"list", "actions", "palette"} /\ list.height \in Heights
    /\ \A d \in loads : d.query \in Queries
    /\ notes \in Nat /\ keys \in 0..MaxKeys /\ changes \in 0..MaxChanges

(* The cursor is on a session of the list that is on the screen, whatever   *)
(* was loaded, moved or resized in between (rebuildRows, clampOffset).  A   *)
(* list of one row may show the heading instead.                            *)
CursorOnSession ==
    list.records # <<>> =>
        /\ Selected(list) # ""
        /\ list.height > 1 => Selected(list) \in OnScreen(list)

(* No more rows are verified at once than there are slots, and none that    *)
(* is read-only, known, or has been tried as often as its retries allow,    *)
(* however often the list asks.                                             *)
ProbesBounded ==
    /\ prober.verifying \subseteq prober.pending
    /\ prober.pending \cap ReadOnly = {}
    /\ Cardinality(prober.verifying) <= MaxConcurrentProbes
    /\ \A s \in Sessions : prober.retries[s] <= MaxProbeRetries
    /\ \A s \in prober.pending : prober.cache[s] \in {"none", "unknown"}

(* A row on the screen whose readiness could still be found out is looked   *)
(* at, or will be when a message that is on its way arrives, so that no     *)
(* row reads "checking" for ever on a quiet screen (model.go:286).  After   *)
(* Home, End or a resize that is left to the next key.                      *)
NoRowForgotten ==
    screen = "list" /\ ~ list.unasked =>
        \A s \in OnScreen(list) : Wanted(s) => s \in prober.pending \/ notes > 0

(* The same without the exception.                                          *)
VisibleIsAsked ==
    screen = "list" =>
        \A s \in OnScreen(list) : Wanted(s) => s \in prober.pending \/ notes > 0

(* When every load has answered, the list is what rein search finds for the *)
(* filter on the screen (model.go:238: "match identically by construction").*)
ListIsTheSearch ==
    screen = "list" /\ loads = {} /\ changes = 0 =>
        \/ list.records = Search(Query(list))
        \/ list.records = <<>>
==============================================================================
