# Reinstate in TLA+

Reinstate (`rein`) lists, resumes, hands off and synchronizes the sessions of
coding agents on a person's devices. This directory holds TLA+ models of the
parts of it that can go wrong in ways a test hardly reaches. TLC checks the
models on small instances, TLAPS proves the main properties of the core modules
for all values of their constants.

`PROJECT.json` lists the components, the runs, the source lines that every
definition stands for, the hazards with the properties that would catch them, a
mutant of the code for every property, and the theorems.

To check one run: `tlc -config Keyring_commands.cfg MCKeyring`. To check the
proofs of a module: `tlapm KeyringProofs.tla`.

## 1. The system

### Components

| Component | State | Operations | Hard behaviour |
|---|---|---|---|
| Mutation lock, `internal/lock` | `locks/mutation.lock` and its age | `Acquire`, `Release` | processes interleave between system calls; death leaves the file; a file older than 12 h is taken over |
| Daemon service, `internal/daemon`, `internal/cli/daemon.go` | the definition with the service manager, recorded agent roots, the instance lock, the status file | install, uninstall, start, stop, run; the pull before a resume | two daemons of which one is no longer supervised; a daemon that sees another environment than the one it was installed from |
| Daemon loop, `internal/daemon/loop.go`, `watch.go` | dirty flag, timers, backoff, requests already shown | one `select` over changes, debounce, pull, approvals, heartbeat | a bounded channel drops events; writes during a push; failures in a row; restarts |
| Sync engine, `internal/sync/push.go` | in the store: immutable snapshots and `manifest.age` with one head per session | `PushSession`, `FetchManifest`, `PullArtifact` | devices race on one manifest; conditional writes are lost or sent again; retries are bounded |
| Commands, `internal/cli/commands_impl.go`, `internal/sync/conflict.go` | session files, `state.json`, conflict records, `.resolved` files, backups | `push`, `pull` (one session or `--all`), `conflicts resolve` | agents write to the same files at any time; a command stops half way; `state.json` is saved at the end |
| Keyring and enrolment, `internal/keyring`, `internal/pairing`, `internal/cli/account.go`, `pairing.go` | the keyring object; the control plane's requests, refused tokens and generation floor; `account.json` and the device key | init, join, recover, approve, revoke, key lookup | three stores are changed in turn and any of them may fail; an earlier object is put back |
| Migration, `internal/sync/migrate.go`, `internal/cli/migrate.go` | the set of verified snapshots, the destination's objects, the configuration | copy and verify, write the manifest last, switch | interruption and resumption while both stores go on changing |
| Session index, `internal/sessionindex` | an SQLite file with two lock files; baselines | open, recover, refresh, observe, close | recovery by one process while others open; two refreshes at once; builds with another schema |
| Index sources, `internal/agents/*`, `internal/vendorsqlite` | none: they read the agents' files | walk, digest, read | an agent writes between the digest and the read; a database ahead of its file |
| Preflight and native resume, `internal/cli/sessions.go`, `internal/workspace` | the baseline of a session | observe, compare, warn, launch in three looks | everything looked at may change before the launch |
| Handoff, `internal/handoff`, `internal/cli/handoff.go` | capsule directories, the lineage log, a session's lock file | plan, check, put, append, launch, confirm, list | death between two writes; two plans of one session; a torn line |
| Handoff destinations, `internal/handoff/target_*.go` | the agents' session stores | name, launch, find the child | which of the sessions there is the new one |
| Capsule, `internal/agents/*/transcript*.go`, `internal/handoff` | none: one pass over frozen files | freeze, read, pair, select, bound | a file cut in the middle of a record, rewound or compacted |
| Session list and dialogs, `internal/tui` | list, filter, cursor, readiness of each row | keys, loads, probes, checklist, studio | loads and probes answer late and out of order |
| Setup, `internal/cli/init*.go` | configuration, credentials, agents' folders, `state.json` | the wizard, init with a store of one's own or a hosted one | four files written in turn; a second init over the first |
| Verification, `internal/cli/verify.go` | none | four steps of `rein sync verify`, and the post | lost answers, expired credentials, other devices at work |

The other packages (encryption, encoding of a capsule, the adapters of the other
agents, doctor, catalogue, paths, drawing) are sequential or pure and take no part
in these protocols; `PROJECT.json` names each with the reason.

### How they interact

A sync command takes the mutation lock, loads `state.json`, discovers session
files through an adapter, fetches the manifest, and handles one session after
the other. `push` exports a session and gives it to `PushSession` with the remote
revision that `state.json` remembers as the expected base. `pull` restores a head
over the file when the file is as it was last synchronized, beside it (a fork)
when an agent has the session open, and records a conflict otherwise. Devices
meet only in the store, in the conditional write of the manifest. The daemon
runs the same commands after changes and on a schedule, so it competes for the
mutation lock with the person's own commands and with the pull that precedes a
resume. Push and pull get the keys of the store from the keyring; a revocation
changes the keyring in the store, then the control plane, then the record on
the device. A migration copies the store that push and pull go on using.

Bare `rein` shows what the index holds; the index is refreshed from the sources.
Choosing a session leads through the checklist to a native resume or through the
studio to a handoff. Both compare what they see now with the baseline in the
index or the plan just shown, and launch an agent. A handoff turns the transcript
into a capsule, stores it, and later finds the session that the destination
made of it, so that the chain of handoffs of one piece of work can be listed.

### What makes each part correct

* Lock and service: two commands never change a device's state at once except
  in the race described below; an abandoned lock is taken over; what is installed
  runs and is the daemon that the status file names, in the environment recorded.
* Daemon: no write is forgotten, a stream of changes does not starve the push,
  failures back off, every request is shown once.
* Engine: no update of the manifest is lost, a head is always a stored snapshot
  of its session, an acknowledged push is in the history on top of its base.
* Commands: nothing an agent wrote disappears from files, history and backups
  together; a push never replaces a head whose content it has not seen; what is
  recorded as synchronized is stored; conflicts are recorded when both sides
  changed, and stay settled.
* Keyring: no wrap is lost to a concurrent change; a reported revocation has
  happened; an earlier keyring is refused.
* Migration: the destination's manifest names only snapshots that are there and
  open; a device that switched finds its sessions; a resumed run completes.
* Index: no two processes use different files of the index; a skipped refresh
  would have changed nothing; baselines go forward; a row tells of one moment.
* Resume and handoff: what is launched is what was shown and acknowledged, the
  child is the one probed; chains of handoffs have one root, one child per
  session, and every listed handoff was stored.
* Capsule: every turn is carried, cut visibly or warned of; evidence of success
  is a result that was read; the projection is whole.
* Dialogs, setup, verification: a decision is about what was on the screen; an
  interrupted setup leaves one usable profile; a report claims what was seen.

## 2. The modules

| Modules | Role |
|---|---|
| `MutationLock`, `DaemonService` | the lock, and the daemon service over it (EXTENDS) |
| `AtomicPush`, `SyncEngine`, `DeviceSync` | what a push promises; `PushSession`, which implements it; the commands of all devices over the engine (EXTENDS) |
| `Daemon` | the loop and the watcher |
| `KeyringObject`, `Keyring` | the object and its operators; the commands over it |
| `Migration` | the migration and its source |
| `SessionIndex`, `Sources`, `Indexing` | the shared index; the sources of eleven agents; both in one run |
| `Preflight`, `Resume` | the checks; resumes with their three looks |
| `Handoff`, `Destinations` | store, lineage and checks of a handoff; the launches of its destinations |
| `Transcript`, `Projection`, `HandoffPlan` | reading, pairing and choosing; plans beside a session that is written |
| `Switcher`, `Dialogs`, `Setup`, `Verification`, `Terminal` | list, dialogs, `init` and `sync verify`; `Terminal` composes them with `Destinations` |
| `DaemonProofs` (lock, service and loop), `DeviceSyncProofs` (with the engine), `MigrationProofs`, `SessionIndexProofs`, `HandoffProofs`, `ResumeProofs`, `KeyringProofs`, `TerminalProofs` | theorems |
| `MC...` | instances for TLC: symmetry sets and the values a `.cfg` cannot write |

Each component module keeps beside its actions some definitions marked "a
mistake": variants of a definition with an error the code could have. They are
no part of the specification. `PROJECT.json` names, for every property, one such
variant in place of which TLC finds the property violated.

### MutationLock and DaemonService

`Acquire` is four steps, one per system call: `Create` (O_EXCL), `Stat`,
`Remove`, `Recreate`; other processes run between them. The file is who created
it and whether it is older than `staleAfter`. `Remove` and `Release` work by
path, so they hit whichever file is there. `Crash` leaves the file, `Expire` lets
twelve hours pass. `raced` is a history variable: it becomes true when two
processes have decided to remove the same stale file, or when a file expires
under a live holder.

`DaemonService` runs daemons, commands and resumes over that lock, under launchd,
systemd or the Task Scheduler: install and uninstall in the order the code takes
their steps, the manager's restarts, an instance lock per daemon, the status
file, and the agent roots that an installation records because the manager
starts the daemon in another environment. On systemd and the Task Scheduler
`rein daemon install` over a running daemon leaves it on the old flags and roots
until it restarts, and the Task Scheduler gives up after ten failures; both are in the model.

### AtomicPush, SyncEngine and DeviceSync

`PushSession` is `Begin`, `LoadParent`, `PutSnapshot`, then rounds of
`LoadManifest` and `SaveManifest`. A snapshot's id is its place in the bucket, the
manifest's entity tag is the number of times it was written; a conditional write
is accepted when the copy it was made from is current. A read fails
(`LoadFails`), an upload is stored or not and the answer is an error
(`PutFails`), the manifest write fails before or after it took effect
(`SaveFails`), or the client resends a write that took effect and is refused
(`SaveResent`). The bucket may be full (`PutRefused`), a process may die
(`Abandon`). `chain` is a history variable, the heads each session has had.

`AtomicPush` says the same with no store: a push takes effect in one step, in
which the session's head is the base its caller named, or not at all; "ok" means
it did, any other answer leaves it open.

In `DeviceSync` a session's content is the set of edits it contains. `local` is
the files, `state` is `state.json`, `cmd[d]` the command that runs on a device
with what it holds in memory (its copy of `state.json`, the manifest it fetched,
the hash it took). Every point where the code reads or writes a file, or makes a
request, is a step, so an agent's `Edit` falls between the hash and the export of
a push, or between verify, rename and hash of a restore. The order in which
`--all` visits sessions is left open; the code's order is one of them. A
divergence ends a command that names one session and is passed over by `--all`,
which saves `state.json` at the end; a pull that fails saves what it restored so
far, a push that fails does not. The mutation lock is one command at a time here.

### Daemon

Time is counted in ticks; a timer is the number of ticks left. `firstDirty` and
`dirty` are one variable (`sinceDirty`). A push reads the files at some point
within it (`PushReads`), so writes fall before or after that point. `Write` makes
something for the watcher to report, `Forward` reports it or drops it when the
channel is full. `Stop` is a signal or the death of the process, and `Start` the
supervisor's restart; the memory is lost, the files are not.

### KeyringObject and Keyring

The object is a sequence of generations, each with its root key, its wraps and
the device it revoked. A root key, a device key and the ciphertext of a wrap are
the number of the command that made them. A command takes one step per call to
the storage, to the control plane or to its own record, and may stop after each.
`keyring.Update` is `Load` (with the closure of the command) and `Put` with the
entity tag of what was loaded; the tag is a hash of the content, so equality of
content is its model, and an earlier object put back (`Restore`) satisfies it.
`undone` and `closed` are history variables: approvals taken back, revocations
reported as finished.

Two comments (`hop/keygeneration.go:34`, `cli/keyring_floor.go:121`) say that the
higher of the live floor and the recorded one is used; the code, and the model,
use the live answer. The lost answer of a recovery (`cli/account.go:383`) leaves
the device listed under a key that it no longer holds.

### Migration

`rein sync migrate` per device: the listing, copies with verification, the memory
of verified snapshots in its state file, the manifest last, the switch of the
configuration; pushes to the source and to the destination go on meanwhile.
`Rerun` resumes an interrupted run. `account.json` is removed before the new
configuration is saved (`cli/migrate.go:432`), so a crash between the two leaves a
device that can use neither store until `rein sync migrate` is run again.

### SessionIndex, Sources and Indexing

`SessionIndex` is the sharing of one SQLite file: opening with the shared and the
exclusive file lock, recovery (rename and recreate) of a damaged file or of one
with another schema, the refresh of a source that compares its digest with the
one stored, observations, and closing. Record contents are a version number.

`Sources` is what one session of one agent looks like on disk while the agent
writes it, and what digest, walk and read make of it, for eleven agents, of which
some are read from a database with a journal. `Indexing` puts both into one
next-state relation: a behaviour is either about the processes that share the
index or about one agent's source, since they share nothing but the stored digest.

### Preflight and Resume

`Preflight` is the comparison of two observations of repository, agent and
runtimes, and the findings it gives (blocked, warning, none). `Resume` is
`rein resume`: the plan, the acknowledgement (a prompt or flags), the second look
before the launch, the third in the child's start, the launch, and the
observation that becomes the baseline. Whatever was looked at may change between
any two steps. A behaviour is about one session; two processes may resume it at once.

### Handoff and Destinations

A handoff's id is a digest of what its capsule says, so in `Handoff` it is the
record of what it is made from, and the child's session id is derived from it. A
command plans, checks, plans again while it executes and a third time before the
child starts; it stores the capsule, appends to `lineage.jsonl`, launches under
the session's lock, confirms. A line may be torn by a death; the next append goes
on in the same line, and that entry is lost silently. `Askers` are processes that
record an answer for an entry. The acknowledgement copies the newest entry that
was read without the lock.

`Destinations` is how each agent names, launches and finds the new session: by a
pinned id, by a listing before and after, or by the newest file; a second launcher
and the user's own sessions run beside. Only Claude's launches are serialized by a lock.

### Transcript, Projection and HandoffPlan

`Transcript` is what the readers of seven agents make of a frozen file: events,
calls and results linked by id or by order, warnings and counts for what could
not be read. `Projection` chooses what a capsule shows under the policies and
bounds (`Sizes` stand for text lengths, `Balanced` and `Cap` for the budgets), pairs
calls with results, and derives the task. `HandoffPlan` puts a session that is
written, torn, rewound and compacted beside the plans of a handoff.
"Warned" means that the reader's report tells of it, as a warning or a count.
That report reaches the user only in `--json` output (`cli/handoff.go:55`).

### Switcher, Dialogs, Setup, Verification and Terminal

`Switcher` is the list with its loads, the prober with its bounded concurrency,
keys, resizes, menu and palette; the filter is its length, a cached readiness is
none, unknown or known. `Dialogs` adds the checklist before a launch and the
studio before a handoff. `Setup` is `rein init` with its wizard and with a hosted
store, failing or dying between any two files, up to three times in a row.
`Verification` is the four steps of `rein sync verify` as their requests, beside
another device, renewed credentials and a rollover. `Terminal` composes them: a
behaviour is one command, since they share the terminal only.

## 3. The runs

The constants named `Max...` are bounds of the model, except those that are the
code's own limits (`MaxManifestRetries`, `MaxRetries`, `MaxUpdateRetries`,
`MaxDebounce`, `MaxConcurrentProbes`, `MaxProbeRetries`, `MaxListLimit`, and
`MaxEvents` and `MaxText` of `HandoffPlan`), which are given small values or, for
`MaxListLimit`, one that the run does not reach. `MaxEvents` of `DaemonService` and
`MaxEntries` (per agent, of `Sources`) are bounds.

| Run | Instance | Distinct states |
|---|---|---|
| `device_service` | 2 daemons, 1 shell, 3 managers, 2 environments, 2 events, 1 crash, fairness | 824,153 |
| `daemon_loop` | debounce 1, window 2, backoff 1 to 2, channel of 1, 1 write, 2 failures, 1 restart, fairness | 177,959 |
| `sync_commands` | 2 devices, 2 sessions and forks, 2 edits, 2 snapshots, 1 resolution, symmetry | 963,667 |
| `sync_hostile` | 2 devices, 1 session, 2 edits at any moment, 3 snapshots, 1 fault at any step | 2,345,596 |
| `sync_live` | 2 devices, 1 session, 3 edits, 4 snapshots, 1 fault, fairness | 206,651 |
| `keyring_commands` | 3 devices, one command at a time on each, 4 commands, 1 earlier keyring, symmetry | 1,298,075 |
| `migrate_resume` | 2 devices, 2 sessions, 2 passphrases, 2 snapshots, 1 push to the destination, 1 rerun, 1 fault, fairness | 1,784,892 |
| `index_shared` | 3 processes, one refreshes, 2 versions, 2 faults, 1 mishap, symmetry; 11 agents' sources | 3,909,727 |
| `resume_launch` | 2 processes, 7 environments, 2 changes, 2 commands | 1,606,697 |
| `handoff_commands` | 2 processes and 1 asker, 1 warning, 1 new version, 3 commands, 1 fault, symmetry | 859,201 |
| `handoff_capsule` | 9 formats of 7 agents, 4 turns, 1 death | 1,849,593 |
| `terminal_commands` | list of 3 sessions, 6 wizard strokes, 3 setups, 1 handoff beside another, 1 verification | about 4.1 million |

Why these bounds are enough for the hard cases:

* `device_service`: two daemons are one that was installed and one that was
  started by hand; two environments tell recorded roots from live ones; one crash
  leaves one lock to be taken over. `MaxOverruns` is 0 since a command of more
  than twelve hours is one of the two ways of `raced`.
* `daemon_loop`: the window is longer than the debounce and the backoff reaches
  its cap, so all branches of `pushDelay` and `backoff` are taken; a channel of
  one overflows because pulls that restore files make changes too.
* `sync_commands`: two edits are a divergence, two sessions are what `--all`
  passes over. `sync_hostile`: three snapshots are a race on top of an existing
  head. `sync_live`: four snapshots are enough for three edits and one upload that
  is repeated, so the bucket's limit does not interfere with liveness.
* `keyring_commands`: three devices are the revoker, the revoked and one that is
  enrolled at the same time; four commands are a founding or an enrolment, a revocation, its repetition
  and a use; the size limits are reached by one enrolment and one rollover.
* `migrate_resume`: one rerun and one fault are an interrupted run and its
  resumption, while each store may move once.
* `index_shared`: one process refreshes, since two do not keep the promise (below);
  the others open, recover, observe and close.
* `resume_launch`: two changes are one before and one after the acknowledgement.
* `handoff_commands`: three commands give a chain of two handoffs and a competitor.
* `handoff_capsule`: four turns are a call, a result, and text before and after.
* `terminal_commands`: three setups are needed to carry foreign records over two
  interrupted ones; six strokes go through every page of the wizard.

### What each property says

A property that is a conjunction is named for the whole; its parts are definitions
of the module.

| Run | Property | Says |
|---|---|---|
| `device_service` | `ServiceConsistent` | the status file names the loop that runs; a registered service has recorded roots, and the manager's daemon watches only those |
| | `ExclusiveUnlessRaced` | two commands never hold the lock together unless `raced` |
| | `InstalledServes` | a service that is on ends up with a loop that serves the device, its own or that of the daemon in its way, unless its roots are refused |
| | `AbandonedLockIsTakenOver` | a dead command's lock does not stay for ever |
| `daemon_loop` | `WritesAreRemembered` | a write that no push has carried is on its way to the loop or has made it dirty, also across a running push, a full channel and a restart |
| | `NeverStarved` | an idle dirty loop that is not backing off starts a push within the window and one debounce, whatever goes on changing |
| | `NothingIsForgotten` | every write is handled and every request shown, in the end |
| `sync_commands` | `EditsAreSafe` | every edit is in a file, the history or a backup; what is recorded as synchronized is stored |
| | `LinearHistory` | a head is replaced only by a snapshot made from it |
| | `CommandsKeepEdits` | a pull keeps unsaved edits; a conflict settled for a side stays settled |
| `sync_hostile` | `StateConsistent` | a base in `state.json` was a head; heads are stored |
| | `PushKeepsEdits` | a push replaces no head whose content it has not seen |
| `sync_live` | `ImplementsAtomicPush` | every push in a command is one atomic push |
| | `ConflictsNeedRemoteChange` | no conflict is recorded while the head has not moved |
| | `Converges` | in the end every file equals its head or is a recorded conflict with it |
| `keyring_commands` | `KeyringConsistent` | the object stays readable; a refused approval leaves no wrap; who records an enrolment can open it |
| | `RevocationHolds` | a reported revocation has reached the control plane; no command acts on a keyring from before it |
| | `WrapsKept` | no generation and no wrap is lost to a concurrent change |
| `migrate_resume` | `ManifestBacked` | whatever the destination's manifest names is there and opens under the passphrase that opens the manifest |
| | `SwitchedSessionsKept` | every session a device remembers is in the manifest of the bucket it now uses, and its head can be pulled there |
| | `ResumeCompletes` | interrupted runs complete when resumed |
| `index_shared` | `IndexConsistent` | the next open finds nothing to throw away (a baseline belongs to a known session), and no process works on a file that another one has removed |
| | `SkippedIsFresh` | when the stored fingerprint is that of the files, every row is what that build, or a newer one, reads in its file |
| | `BaselineForward` | the baseline of a session never goes back to an older observation |
| | `RowsAreHonest` | a row says what the agent's files say at one moment, of the user's session alone, without what was taken back |
| `resume_launch` | `ResumeConsistent` | a launch that goes on has every warning acknowledged and no blocker; in the surroundings its baseline was taken of, the next resume blocks nothing and warns of no change |
| | `LaunchIsSafe` | a child starts in the surroundings its user saw, unless something changed after the last look; its program and directory are the probed ones even then |
| `handoff_commands` | `LineageConsistent` | a resolved session exists and its capsule is stored; a handoff belongs to the lineage of the session it was made from; one Claude child at most runs on a session id |
| | `ListIsTheStore` | `handoff list` shows what is stored and `handoff inspect` finds what is listed, wherever a command died |
| | `LaunchIsAsShown` | a child is started on what the user was shown, with every warning acknowledged, unless something changed after the last guard |
| | `AnswerStands` | an answer that was recorded stands until the user records another |
| `handoff_capsule` | `TurnsCarried` | every turn written in full and not taken back is told once and in order, or the reader's report tells of it |
| | `EvidenceIsHonest` | what a task calls completed ended without an error, what it calls pending had no answer, and its requests end with the last that stood |
| | `ProjectionIsWhole` | shown and referenced events are together the transcript; no result without its call; only fetched calls exceed the budget; the validator refuses only uncut texts |
| `terminal_commands` | `ListIsUsable` | the cursor is on a session; probes are bounded; no row is forgotten |
| | `DecisionIsWhatWasShown` | what is launched is the plan on the screen |
| | `SetupIsWhole` | the review is valid, the folders are of one profile, the records are kept |
| | `ResolvedIsTheHandoff` | the session found is the one that the handoff started |
| | `ReportIsHonest` | alarms are raised when, and only when, they are true; an outage is no finding; a pass is earned |

`ImplementsAtomicPush` is a refinement: the mapping takes `chain` to the history and
a call to "published" once its snapshot is in the chain.

### Fairness

* `DaemonService`: loops, commands that hold the lock and the manager's steps go on
  (they end on their own), a supervised daemon is spawned again, an old lock expires.
* `SyncEngine`: a call that waits for a request gets an answer or a timeout.
* `DeviceSync`: a command that has started goes on (weak fairness of `Progress`).
  `pull --all` is started again and again (strong fairness, because other commands
  hold the lock in between), which the daemon's timer provides. `push --all` is
  started again only as long as there is content that no push has uploaded or
  recorded as a conflict, which is what `WritesAreHandled` of `Daemon` provides;
  after a conflict the daemon does not push again by itself and neither does the
  model. Resolutions, edits and commands for one session are not fair.
* `Daemon`: loop and watcher are scheduled, a push, pull or poll ends (every
  request has a timeout), time passes, the supervisor restarts the daemon. The cases of
  `select` are strongly fair because Go chooses among the ready ones at random.
  Writes, requests, failures and stops are not fair.
* `Migration`: a run goes on; the person resumes an interrupted one and removes an
  object that the run reports as damaged.

### What the code says and does not keep

These statements of comments and documents fail in the models. None is a run of
its own; each can be had from a listed configuration with the changes named.

| Statement | Where | What happens | How to see it |
|---|---|---|---|
| a lock excludes other processes | `lock.go:13,29` | two processes stat one stale lock; the second removes, by path, the lock that the first has just created | module `MutationLock`, `Spec`, 2 processes, no overrun, 1 crash, INVARIANT `Exclusive` |
| a conflict needs changes on both sides | `docs/troubleshooting.md:208`, `docs/hop.md:790`, `commands_impl.go:850` | `push --all` before `pull --all` pushes an unchanged session on its old base and records a conflict | `DeviceSync_commands`, one session, `push --all` and `pull --all`, no resolutions, PROPERTY `ConflictsNeedLocalChange` |
| ... of different content | comment `commands_impl.go:1067` | the upload was accepted but `state.json` not written: the next command records a conflict between equal copies | the same with 1 edit and 1 fault, PROPERTY `ConflictsDiffer` |
| a resolved conflict is over | `docs/troubleshooting.md:210` | keep-both leaves the original on its old base, so the next push or pull records the same divergence | `DeviceSync_commands`, `Sessions <- RemoteForks`, one original, `keep-both` with push and pull, 3 edits, 3 snapshots, PROPERTY `ResolvedStaysResolved` |
| a fork is not recorded as synchronized | comment `commands_impl.go:1215`; `docs/backup-and-recovery.md:24` | keep-both records the copy in `state.json` under the original's snapshot (`:1560`), a base the copy never had: each push of it is refused (`push.go:123`) and recorded as a conflict | `DeviceSync_commands`, INVARIANT `BaseWasHead` with `InChain(s, state[d][s].remote)` for `WasHead` |
| what is restored is recorded as it was stored | comment `commands_impl.go:1104` | an agent writes between the rename of a restore and the hash taken afterwards (`:1211`); push skips the edit | the stale push above with `MidEdits = TRUE`, INVARIANT `SyncedIsStored` |
| a refused device stays out | `pairing.go:545,587` | between approval and roll-back another device's revocation copies the wrap into a new generation (`keyring.go:1076`), where the roll-back does not look | `Keyring_commands`, `Kinds` join, approve, revoke, no restores, INVARIANT `RefusedStaysOut` |
| the record of a device never falls | `account.go` | two commands of one device save `account.json` in the other order | `Keyring_commands`, `PerDevice = 2`, `Kinds` revoke and use, no restores, PROPERTY `RecordNeverFalls` |
| a rerun overwrites nothing | `migrate.go:303`, `cli/migrate.go:148,306` | a push to the destination before a rerun is replaced by the run's manifest (`migrate.go:313`) | `Migration_resume`, one session, one passphrase, no faults, `Spec`, PROPERTY `BucketPushesKept` |
| a resumed run checks what it remembers | `migrate.go:120` | it re-reads only the first remembered snapshot (`:124`), so a retyped destination passphrase slips through | `Migration_resume` with a device in `MayRetype`, INVARIANT `ManifestBacked` |
| equal digests hide no change | `index.go:226` | with two processes refreshing, rows of the older scan stay under the digest of the newer one: `ReplaceSource` and `SetSourceFingerprint` are two transactions | `SessionIndex_shared`, 2 refreshers, 1 reader, no observations or faults, INVARIANT `SkippedIsFresh` |
| a held lock is the daemon's pull | `daemon.go:531` | a resume that finds the lock held takes its home for fresh; the holder may be a push, another command or a dead process | `DaemonService_device`, `ServiceSpec`, systemd, 1 environment, 1 event, PROPERTY `LockedMeansPulling` |
| the status is removed after the last write | `daemon.go:780` | the supervised daemon can still be in its loop when the file goes, so that its final write brings it back | the same with launchd, PROPERTY `TidiedIsGone` |
| visible rows are probed | `model.go:286` | Home, End and a resize change what is visible and ask for nothing | `Terminal_commands`, INVARIANT `VisibleIsAsked` of `Switcher` |
| list and search agree "by construction" | `model.go:238,254` | loads answer out of order: an older answer replaces the list of a newer filter | the same, INVARIANT `ListIsTheSearch` |
| no configuration that cannot reach its store | comment in `init` | a failed save on a second init of one profile id deletes the credentials that the old configuration uses | the same, INVARIANT `ConfigReachesStorage` of `Setup` |
| carried records are of the profile | `commands_impl.go:381` | `init --hop` interrupted between configuration and state: the rerun, and each later one, carries the other profile's records | the same, PROPERTY `RecordsAreOfTheProfile` |
| a 500 is no answer about this locker | `explain.go:63` | a 500 with an error body counts as an answer (`s3.go:355`), so the step fails | `OutageIsNoFinding` without its exemption of "internal" |

The sources of the index keep less than two comments say ("an identical one cannot
hide a changed record", `index.go:231`; `Fingerprint` in `hometree.go:297`):

* The digest of Gemini leaves out `projects.json` and `.project_root`; of Grok,
  everything but `summary.json`; of Kimi, `wire.jsonl`; of Copilot, `workspace.yaml`;
  of Cursor, a store that is ahead in its journal.
* `ReplaceSource` leaves a row alone when its stamp is unchanged: messages of OpenCode
  that are only in the journal do not reach an existing row before a checkpoint;
  Cline's new messages, a rename in Kimi or Grok, and Cursor's messages after one
  failed read do not reach it until the stamped file changes.
* A failed read deletes the row, and the digest stored with that scan keeps it out
  until the agent writes again.
* The fallback of `vendorsqlite` that reads in place can run during a checkpoint,
  although its comment excludes a view of two moments.

`RowsAreHonest` claims what is left: identity, ownership, what was taken back, and one
moment per view, and that a skipped row is true for the agents whose digest covers it.

Smaller observations made while modelling, which no property is about:

* *Status.* `status.go:110` says that a live daemon never looks stale; the heartbeat is
  a case of the same `select` as push and pull, so one that takes longer than
  `StaleAfter` makes it look so.
* *Handoff.* Answers older than `maxListLimit` lines flip back, although
  `acknowledge.go:68` says that they never do. The child of a killed command that has
  not written its file yet can share its id with a second launch. Claude's `Verify`
  is unresolved unless the configuration directory is set, so chains lose their root
  (Qwen likewise). A session whose last line is not yet appended starts a new root.
  Codex's `Verify` goes by modification time, so an older session in use again can
  be the one match. Two Grok or Qwen launches of one capsule can race, and the refused
  one resolves to the other's session. The limitation noted in `target_opencode.go` is
  outdated since the reader sees the journal. `desttrust.go` can lose a concurrent write
  of the agent's configuration and rewrites nested tables of it as strings.
* *Verification.* The newest snapshot is the newest of the listing; an index replaced
  after it can label an older one "the newest snapshot in the index". A rollover and
  another device's push between opening the profile and fetching fail an honest
  locker. An object above 64 MiB fails the step.
* *Resume.* A declared runtime of unknown version never enters a baseline, so each
  resume warns of it. A repository first identified by root commits that later gets a
  remote is blocked with nothing to acknowledge. Of two overlapping resumes the one
  that ends last with the older observation exits with an error though its child ended
  well. Two resumes can both start a child between the last liveness probe and the start.
* *Capsule.* Results linked by order can be given to the wrong call when linked and
  unlinked ones mix. Codex drops turns told only as response items once an event
  message of the role exists, and its index counts prompts twice. An OpenCode message with any part that is not text
  loses its text. Gemini and OpenCode texts above 256 KiB make the validator refuse a
  full handoff. Grok's chat history and OpenCode's rows are read live after the
  boundary was frozen. The budget may be exceeded by calls fetched for results.
* *Terminal.* At height 1 a heading can hide the cursor. A load that arrives while
  the menu is open can move the selection under it. A row is verified twice, not three
  times. The wizard accepts "https://" alone as an endpoint. `rein init --profile-id X`
  joins X whatever the wizard is told. Tab or Down on the review confirms it.
* *Setup.* An init interrupted between configuration and state leaves the new profile
  beside the old one's records, and a push to the empty store is then refused.

## 4. The proofs

TLAPS proves the following for all values of the constants that satisfy the named
assumptions (`KeyringAssumption` and so on, in the module that declares the
constants): any number of devices, processes, sessions, faults and changes, any
length of the intervals. TLC checked every invariant below on the run's instance
before it was proved. Each proof has the form `Init => Inv`,
`Inv /\ [Next]_vars => Inv'`, with one step per action.

| Module | Theorems | Along which invariant |
|---|---|---|
| `DaemonProofs`, the lock | `TypeCorrect`, `Exclusion`, `ReleaseIsSafe` | `IInv`: until `raced`, the one inside owns the file and one process at most is about to remove a stale one |
| `DaemonProofs`, the service | `ServiceUsesLock` (a refinement: `ServiceSpec => Spec` of the lock), `ServiceExcludes` from it, `StatusIsTheLoops`, `ServiceStaysPinned`, `ServiceStaysConsistent` | `ServiceInv`: whose status file it is, who holds the instance, that what was installed is pinned at every step of a command |
| `DaemonProofs`, the loop | `DaemonTypeCorrect`, `NoWriteForgotten`, `RetriesKeepBackoff`, `NoStarvation`, `NotifyOnce` | `LoopInv`: a change that is not handled is in the channel, unseen, in the running push or has made the loop dirty; a dirty loop has its timer armed, and how late it may be |
| `DeviceSyncProofs`, the engine | `EngineTypeCorrect`, `ManifestNeverAhead`, `HistoryIsAChain`, `AcknowledgedPushIsInHistory`, `NoLostUpdate`, `PushIsAtomic` (a refinement of `AtomicPush`) | `EngineInv`: a call's copy of the manifest is one that existed under the tag it carries, its snapshot is uploaded before it writes, no two calls share one |
| `DeviceSyncProofs`, the commands | `CommandsUseEngine` (a refinement: `Spec => EngineSpec`), from it `CommandsLoseNoUpdate` and `CommandsPushAtomically`; `StateStaysConsistent` | `CommandsInv`: the shape of each command, and that what it and `state.json` remember was a head |
| | `NoPushDropsEdits` | `RememberInv`: a device that remembers the present head has its content in the session file, in what it is about to send and in what its call sends (`Remembers`, `Sends`), a manifest it fetched is not older than what it remembers (`Newest`) |
| | `EditsAreKept` | `SafeInv`: what a command hashed is still in the file (`Reads`), what it is about to replace is in the history or in a backup (`Stores`, `Over`) |
| | `EditsAndDecisionsAreKept` | `KeepInv`: while a settled divergence is still one, the device's file, `state.json` and the memory of its command all hold the side that was taken (`Holds`, `TakenOver`); records are about the content they were made of (`Records`, `Found`) |
| `MigrationProofs` | `ManifestStaysBacked`, `SwitchKeepsSessions`, `MigrationTypeCorrect` | `MigrationInv`: what a device remembers as copied opens under its passphrase (`Remembered`), each head of a run is still to be copied or is there (`Copied`), a manifest that may still be replaced lists no session that the run lacks (`Replaces`), and what a device remembers is in the manifest it goes by (`Listed`) |
| `SessionIndexProofs` | `IndexStaysConsistent`, `BaselinesGoForward`, `FreshWithOneRefresher`, `WholeIndexKeepsPromises` | `IndexInv`: the counters of the file are those of its content, who works on it uses the present file; `FreshInv(r)`: the versions the refresher `r` carries are between what is stored and what is on disk |
| `HandoffProofs` | `LineageStaysConsistent`, `LaunchesAsShown`, `ListIsComplete`, `AnswersStand` | `HandoffInv`: every plan extends the chain of the session it was made from; the capsule is stored before the line; sessions of Claude children are locked; what a command saw is current until something changes |
| `ResumeProofs` | `ResumeStaysConsistent`, `LaunchesAreSafe` | `ResumeInv`: what each process has agreed to is what its report says (`Agreed`), and what it saw was true at its last look (`AsSeen`); `BaselineSettles`: comparing an observation with a baseline made of it finds nothing |
| `KeyringProofs` | `KeyringStaysConsistent`, `RevokedStaysOut`, `WrapsAreKept` | `KeyringInv`: for each command what it knows at each step (`SoundAt`), numbers used once (`Numbered`), the device key opens what the record says (`Keyed`), a finished revocation is in the object, the floor and every later generation (`RevocationFinished`); `Follows`: what a command writes keeps every generation and device it loaded |
| `TerminalProofs` | `SetupLeavesOneProfile` | `SetupInv`: the answers of the pages that the wizard has left are valid (`AnswersSoFar`); what an init has drawn, stored and written so far (`SetupSoFar`), and that the records it carries are those of the home (`CarriedIsTheHomes`) |
| | `DialogsHandOnWhatWasSaid` | `DialogsInv`: what is ticked was touched by a key; an acknowledgement is of a preview that is made, and of all it warns of (`AcknowledgedWasShown`) |
| | `HandoffsResolveToTheirOwn` | `DestinationsInv`: every stored session tells by its id and its first prompts whose capsule it has (`IsSession`), a child's session is there and began after its launch (`LaunchSoFar`), no two launches share a child |
| | `ReportsAreHonest` | `VerificationInv`: whatever was fetched is sealed to a key the account has had, and one that the check lacks came with a rollover (`KeysSoFar`); each failed step so far has its cause (`FoundSoFar`); what the reference locker can have answered (`ProbedSoFar`) |
| | `RowsAreLookedUp` | `ReadinessInv`: a row that is pending or has no answer has a retry left, and each row on the screen that is neither has an answer on its way |

Why the invariants are needed: the properties of the runs speak of the shared state,
and a step of one process relies on what it read earlier. The strengthenings say
how long what was read stays true: for an entity tag until the tag changes, for a
look until something outside changes, for a lock until it races.

Hypotheses other than the assumptions on constants:

* `FreshWithOneRefresher` and `WholeIndexKeepsPromises` take one refreshing process.
  With two, `SkippedIsFresh` is false (§3).
* `ListIsComplete` and `AnswersStand` take `[]WithinLimit`: the listing stops at
  `maxListLimit` = 1000 entries. Both are false beyond (§3).
* `EditsAreKept` and `EditsAndDecisionsAreKept` take `~MidEdits`, as `sync_commands` does: agents
  write at any time except while a command of their own device is between two steps.
  Otherwise an edit between `VerifyUnchanged` and the rename of a restore is
  in no file, snapshot or backup (`DeviceSync_hostile` with INVARIANT `EditsSurvive`), and
  what is hashed is not what is exported or restored (§3). The other theorems about the
  commands have no such limit.
* `PushKeepsEdits` and `SettledStaysSettled` exempt the copies that keep-both makes, and
  `BaseWasHead` and `PullKeepsEdits` take the history of what a session is a copy of
  for its own: keep-both restores over an earlier copy of the same snapshot and
  records it under the original's snapshot (§3).
* `SettledStaysSettled` is about divergences from a known head. A record made while the
  store has no head of the session (`remote` = 0) names none that could be settled.
* The theorems about the migration take `MayRetype = {}`, as the run does: with a second
  passphrase on a device `ManifestBacked` is false (§3).
* The theorems about the keyring take `PerDevice = 1`, one command at a time on each
  device. Nothing in the code enforces it, since no lock guards `account.json` and the
  key in the OS keyring, and without it two of them are false. `KeyringConsistent`: of
  two `account recover` on one device the second replaces the device key while the first
  is about to record its enrolment (`Keyring_commands` with `PerDevice = 2`).
  `RevocationHolds`, by its part `NeverBelowFloor`: a revocation that saves its record
  after a later one has saved a newer one lowers the generation the device remembers
  (`RecordNeverFalls`, §3), and the next use accepts an earlier keyring put back into
  storage (the same with one restore). The limit is also one of the model, which reads
  the device key from the OS keyring at each step where the code keeps what it read
  first: with one command on a device the two agree, and `WrapsKept` is proved under it.
* `Size` of a keyring is a fold over its generations. The proofs treat it as unknown,
  and the size checks as tests that may have either outcome. `FoundersAssumption` says
  that an existing account's keyring can be read, as it was written under a lower limit.
* Of `Terminal`, the assumptions keep things apart that the code can tell apart (no
  name of a profile is that of an account, the mark of a session without a capsule is
  no capsule: `SetupAssumption`, `CapsulesAssumption`), and say that there is a storage
  provider and a policy to choose and that limits are positive (`SwitcherAssumption`,
  `StudioAssumption`). All else about the rows, keys, previews, launches and checks is arbitrary.
* `BackoffAssumption` says that the doubled delays are durations (powers are data to
  the provers); `OriginAssumption` that the two markers of a chain's start are no ids;
  `OutsideAssumption` that outside a repository the probe tells nothing of Git
  (`classifyInitialGitFailure`).

What stays with TLC:

* Liveness, since fairness and ENABLED are out of the prover's reach:
  `InstalledServes`, `AbandonedLockIsTakenOver`, `NothingIsForgotten`, `Converges`,
  `ResumeCompletes`.
* What recursive functions and folds compute over data: the three properties of
  `HandoffPlan` (the selection and pairing of events), `Sources` (`RowsAreHonest`), the sizes of `Keyring`.
* `ConflictsNeedRemoteChange` of `DeviceSync`: with more sessions than one, a push that
  has used up its manifest retries on the writes for other sessions ends in `ErrConflict`
  too, so it is claimed for the instance of `sync_live` only.
* Of `ListIsUsable`, the parts `ListTypeOK` and `CursorOnSession`: the rows are what
  `SelectSeq` and `FlattenSeq` make of the index, and where the cursor may be depends
  on their order. `RowsAreLookedUp` proves the other two parts.

## 5. What is left out

`PROJECT.json` says of each component what is not modelled. In short:

* *Data.* Encryption, signatures, pairing and recovery codes are perfect. Payload
  checks, paths, redaction, rendering, queries and the contents of index records are
  left out. `DeviceSync` knows one format, that of the Claude adapter.
* *Requests.* List, Head, Delete and the refresh of storage credentials. Dry runs
  change nothing. `LastManifestRev` decides nothing once a manifest exists.
* *Devices.* `DeviceSync` uses the mutation lock as an exclusive lock; its races are
  `MutationLock`'s. Heartbeat, log and notifier of the daemon are left out.
* *Index and handoff.* `Rebuild` (only tests call it), the schema check, Gemini's
  older single-file layout, the OpenCode source that asks the CLI, trust files, the
  argv ceiling and the compatibility probe.
* *Resume.* Shallow clones, merges in progress.
* *Migration.* Starting over happens once and after the last fault; `MaxReruns` counts
  over all devices.
* *Setup and verification.* The region and prefix steps; more than one push, renewal, rollover
  and check.
* *Not modelled.* What keeps no state of its own: agent catalogue, doctor and
  probes, drawing, path checks; the Hop service, which is not in the repository.

## 6. Plan

The restores of Codex and OpenCode, and Hop's expiring credentials.
