--------------------------- MODULE TerminalProofs ---------------------------
(***************************************************************************)
(* The commands that have the terminal to themselves, for all sets and     *)
(* bounds: that rein init leaves one profile's files, that a dialog hands  *)
(* on what its user said, that a handoff names no session but its own,     *)
(* that a report of rein sync verify is honest, and that the readiness of  *)
(* the rows is looked up within bounds and for every row.                  *)
(***************************************************************************)
EXTENDS Terminal, FiniteSetTheorems, SequenceTheorems, TLAPS

(***************************************************************************)
(* Setup                                                                   *)
(***************************************************************************)
Owners == Profiles \cup Accounts

States == [owners : SUBSET Owners, sessions : BOOLEAN]

Configs ==
    [profile : Profiles, hosted : {FALSE}, keyring : BOOLEAN, joined : BOOLEAN]
    \cup [profile : Accounts, hosted : {TRUE}, keyring : {FALSE}, joined : {FALSE}]

Homes == [config : {NoFile} \cup Configs, state : {NoFile} \cup States,
          account : Accounts \cup {None}]

(* A rein init for a store of one's own, and one for a hosted store.        *)
OwnSetups ==
    [pc : {"wizard", "probe", "backup", "credentials", "config", "state"},
     profile : Profiles \cup {None}, join : BOOLEAN, hosted : {FALSE},
     existing : SUBSET ({"config", "state"} \cup Accounts), keep : BOOLEAN, state : {Fresh}]

HostedSetups ==
    [pc : {"provision", "backup", "config", "state"},
     profile : Accounts, join : BOOLEAN, hosted : {TRUE},
     existing : SUBSET ({"config", "state"} \cup Accounts), keep : {FALSE}, state : States]

Wizards ==
    [step : 1..6, provider : Providers, join : BOOLEAN, strokes : Nat,
     value : [Fields -> Texts \cup Templates]]

SetupTypes ==
    /\ SetupTypeOK
    /\ home \in Homes
    /\ setup \in {Idle} \cup OwnSetups \cup HostedSetups
    /\ wizard \in {NoWizard} \cup Wizards
    /\ setup.pc = "wizard" => wizard # NoWizard

(* The answers of the steps that the wizard has gone past.                  *)
AnswersSoFar ==
    wizard # NoWizard =>
        /\ wizard.step > 2 => wizard.value["endpoint"] = <<"good">>
        /\ wizard.step > 3 => wizard.value["bucket"] = <<"good">>
        /\ wizard.step > 5 /\ wizard.join => wizard.value["id"] = <<"good">>

(* An enrolment is that of the config, and an init removes it before it     *)
(* writes another one.                                                      *)
EnrolmentIsTheConfigs ==
    home.account # None =>
        /\ home.config # NoFile /\ home.config.hosted
        /\ home.account = home.config.profile
        /\ setup.pc # "idle" =>
              setup.pc \in {"wizard", "probe", "provision", "backup"} /\ setup.existing # {}

FilesAreOfOneProfile ==
    cut = "nothing" /\ setup.pc # "state" /\ home.config # NoFile =>
        /\ home.state # NoFile
        /\ home.state.owners \subseteq {home.config.profile}
        /\ home.config.keyring => home.config.profile \in vault

(* What the init that runs has drawn, stored and written.                   *)
SetupSoFar ==
    /\ setup.pc \in {"backup", "credentials", "config", "state"} => setup.profile \in Owners
    /\ setup.pc \in {"config", "state"} /\ setup.keep => setup.profile \in vault
    /\ setup.pc = "state" => home.config = Config

(* The records it carries over are those of the home, and of its account.   *)
CarriedIsTheHomes ==
    setup.pc # "idle" /\ setup.state # Fresh =>
        /\ home.state # NoFile /\ home.state.sessions /\ setup.state = home.state
        /\ cut = "nothing" => setup.state.owners \subseteq {setup.profile}

(* A home that has worked for its profile has records, and an init for that *)
(* account carries them.                                                    *)
WorkedHasRecords ==
    worked # None =>
        /\ home.config # NoFile /\ home.config.profile = worked
        /\ home.state # NoFile /\ home.state.sessions
        /\ setup.pc = "state" => setup.hosted /\ setup.state = home.state
        /\ setup.pc \in {"backup", "config"} /\ setup.hosted /\ setup.profile = worked =>
              setup.state = home.state

SetupInv ==
    /\ SetupTypes /\ AnswersSoFar /\ EnrolmentIsTheConfigs /\ FilesAreOfOneProfile
    /\ SetupSoFar /\ CarriedIsTheHomes /\ WorkedHasRecords

(***************************************************************************)
(* Dialogs                                                                 *)
(***************************************************************************)
Selections(to) == {<<to[i], Policies[j]>> : i \in DOMAIN to, j \in DOMAIN Policies}

(* What a dialog is left with is what it was opened with, but for its keys. *)
TicksAreTouched ==
    /\ checklist = [checks |-> checklist.checks, ticked |-> checklist.ticked,
                    touched |-> checklist.touched]
    /\ checklist.ticked \subseteq checklist.touched
    /\ screen \notin {"checklist", "launched", "end"} => checklist = NoChecklist
    /\ screen = "launched" => checklist.ticked = PF!WarningIDs(checklist.checks)

StudioTypes ==
    screen = "studio" =>
        /\ studio = [to |-> studio.to, destination |-> studio.destination,
                     policy |-> studio.policy, acknowledged |-> studio.acknowledged,
                     export |-> studio.export]
        /\ studio.destination \in 1..Len(studio.to) /\ studio.policy \in 1..Len(Policies)
        /\ studio.acknowledged \in BOOLEAN /\ studio.export = FALSE
        /\ DOMAIN studio.to = 1..Len(studio.to) /\ Len(studio.to) \in Nat
        /\ planner = [made |-> planner.made, pending |-> planner.pending]
        /\ said = [p \in Selections(studio.to) |-> said[p]]

(* An acknowledgement is of a preview that is made, of all that it warns    *)
(* of; no preview is made twice.                                            *)
AcknowledgedWasShown ==
    screen = "studio" =>
        /\ planner.pending \cap DOMAIN planner.made = {}
        /\ studio.acknowledged => Ready(Selection) /\ said[Selection] = Warnings(Selection)

HandedWasShown ==
    screen = "handed" =>
        /\ intent.acknowledged = Warnings(intent.selection)
        /\ intent.acknowledged \subseteq said[intent.selection]
        /\ intent.export <=> last = "export"

DialogsInv == TicksAreTouched /\ StudioTypes /\ AcknowledgedWasShown /\ HandedWasShown

(***************************************************************************)
(* Destinations                                                            *)
(***************************************************************************)
Ids == {<<"drawn", n>> : n \in Nat} \cup {<<"pinned", c>> : c \in Capsules}

(* The lines of a briefing, as far as they are recorded.                    *)
Item(c) == [event |-> FALSE, text |-> D!Bootstrap(c)]

Prefixes(c) ==
    IF destination.agent = "codex"
    THEN {<<>>, <<D!Preamble>>, <<D!Preamble, Item(c)>>, D!Told(c)}
    ELSE {<<>>, D!Told(c)}

(* A session is of one capsule, which its id and its first prompts show, or *)
(* of the user's own.                                                       *)
IsSession(s) ==
    /\ s = [id |-> s.id, by |-> s.by, capsule |-> s.capsule, prompts |-> s.prompts,
            born |-> s.born, used |-> s.used]
    /\ s.id \in Ids /\ s.capsule \in Capsules \cup {D!Nobody}
    /\ \A c \in Capsules : s.id = D!Pinned(c) => s.capsule = c
    /\ IF s.capsule = D!Nobody THEN s.prompts = <<D!Own>>
       ELSE s.prompts \in Prefixes(s.capsule)
    /\ s.born \in Nat /\ s.used \in Nat /\ s.born <= s.used /\ s.used <= ticks

Launches ==
    {D!Idle} \cup [at : {"materialize", "exec", "child", "verify"}, capsule : Capsules,
                   start : Nat, child : Ids \cup {D!Nobody}]

Outcomes ==
    {D!NoOutcome} \cup [capsule : Capsules, start : Nat, child : Ids \cup {D!Nobody},
                        state : {"unresolved", "resolved", "ambiguous"},
                        session : Ids \cup {D!Nobody}]

StoreTypes ==
    /\ destination.agent \in D!Destinations /\ ticks \in Nat
    /\ destination.agent \notin {"claude", "qwen"} => destination.known = TRUE
    /\ IsFiniteSet(stored)
    /\ \A s \in stored : IsSession(s)
    /\ \A s, t \in stored : s.id = t.id => s = t

ProcessTypes ==
    /\ launch \in [Launchers -> Launches] /\ outcomes \in [Launchers -> Outcomes]
    /\ \A p \in Launchers : launch[p].at # "idle" => outcomes[p] = D!NoOutcome

(* A child's session is there, and was opened after the launch began; an id *)
(* that rein gives out was not there before.                                *)
LaunchSoFar(p) ==
    /\ launch[p].start <= ticks
    /\ launch[p].child # D!Nobody =>
          /\ launch[p].at \in {"child", "verify"}
          /\ D!PlanId(launch[p].capsule) # D!Nobody =>
                 launch[p].child = D!Pinned(launch[p].capsule)
          /\ \E s \in stored : /\ s.id = launch[p].child
                                /\ s.capsule = launch[p].capsule /\ s.born >= launch[p].start
    /\ launch[p].at \in {"child", "verify"} /\ destination.agent \in D!Pinning =>
          \A s \in stored : s.id = D!Pinned(launch[p].capsule) => s.born >= launch[p].start

(* What an outcome says holds, and holds for ever.                          *)
OutcomeIsTrue(p) ==
    LET o == outcomes[p]
        briefed == \E s \in stored : s.id = o.child /\ s.prompts = D!Told(o.capsule)
    IN o # D!NoOutcome =>
        /\ o.child # D!Nobody => D!Exists(o.child)
        /\ o.state = "resolved" =>
              /\ \E s \in stored : s.id = o.session /\ s.capsule = o.capsule
              /\ D!Rivals(o) = {} => o.session = o.child
        /\ briefed /\ destination.known => o.state # "unresolved"

(* Every child has a session of its own.                                    *)
ChildrenDiffer ==
    \A p, q \in Launchers : p # q =>
        {launch[p].child, outcomes[p].child} \cap {launch[q].child, outcomes[q].child}
            \subseteq {D!Nobody}

DestinationsInv ==
    /\ StoreTypes /\ ProcessTypes /\ ChildrenDiffer
    /\ \A p \in Launchers : LaunchSoFar(p) /\ OutcomeIsTrue(p)

(***************************************************************************)
(* Verification                                                            *)
(***************************************************************************)
Running == {"list", "index", "snapshot", "decrypt", "isolation", "probe", "outcome"}

Objects == [name : {"index", "snapshot"}, body : {"sealed", "plain"}, key : Nat]

IsCheck(c) ==
    c = [at |-> c.at, hook |-> c.hook, key |-> c.key, listed |-> c.listed,
         credential |-> c.credential, named |-> c.named, got |-> c.got,
         verdict |-> c.verdict, row |-> c.row, seen |-> c.seen, plaintext |-> c.plaintext,
         foreign |-> c.foreign, wrongKey |-> c.wrongKey, unreached |-> c.unreached,
         trouble |-> c.trouble, outcome |-> c.outcome]

CheckTypes ==
    /\ IsCheck(check)
    /\ check.at \in Running \cup {"idle", "report", "done"}
    /\ check.verdict \in [V!Steps -> V!Verdicts]
    /\ check.got \in Seq(Objects) /\ check.key \in Nat

(* The snapshots are numbered as they come, and each is sealed to a key     *)
(* that the account has had.                                                *)
LockerTypes ==
    /\ locker = [named |-> locker.named, objects |-> locker.objects, next |-> locker.next,
                 keys |-> locker.keys, key |-> locker.key]
    /\ DOMAIN locker.keys = 1..MaxPushes + 2
    /\ access = [credential |-> access.credential, withdrawn |-> access.withdrawn,
                 key |-> access.key]
    /\ bounds = [pushes |-> bounds.pushes, changes |-> bounds.changes,
                 checks |-> bounds.checks]
    /\ locker.next \in Nat \ {0} /\ bounds.pushes \in Nat /\ bounds.pushes <= MaxPushes
    /\ locker.next <= bounds.pushes + 2
    /\ locker.next \in locker.objects => locker.next <= bounds.pushes + 1
    /\ access.key \in Nat /\ locker.key \in Nat /\ locker.key <= access.key
    /\ \A m \in locker.objects : /\ m \in 1..locker.next /\ m <= MaxPushes + 2
                                 /\ locker.keys[m] \in Nat /\ locker.keys[m] <= access.key
    /\ world.index \in {"sealed", "plain", "large"}
    /\ world.snapshots \in {"sealed", "plain", "large"} /\ world.open \in BOOLEAN

(* What was fetched is sealed to a key of the account; one that the check   *)
(* does not have has come with a rollover since.                            *)
KeysSoFar ==
    /\ check.key <= access.key
    /\ check.at \in Running /\ check.key # access.key => "rolled" \in check.trouble
    /\ \A i \in DOMAIN check.got : check.got[i].key <= access.key
    /\ check.listed \subseteq locker.objects

Plain == world.index = "plain" \/ world.snapshots = "plain"

Troubled == \E t \in {"internal", "refused", "large", "rolled"} : t \in check.trouble

(* A finding of the first three steps has its cause.                        *)
FoundSoFar ==
    /\ check.at \in {"idle", "list"} =>
          /\ check.got = <<>> /\ check.verdict = [s \in V!Steps |-> "na"]
          /\ ~ check.plaintext /\ ~ check.wrongKey /\ "none" \notin check.trouble
    /\ check.plaintext => Plain /\ check.verdict["ciphertext"] = "fail"
    /\ \A i \in DOMAIN check.got :
          check.got[i].body = "plain" => Plain /\ check.verdict["ciphertext"] = "fail"
    /\ \A s \in {"list", "ciphertext", "decrypt"} :
          check.verdict[s] = "fail" => Troubled \/ Plain
    /\ "none" \in check.trouble => check.unreached
    /\ check.verdict["list"] = "pass" /\ check.at # "index" =>
          check.got # <<>> \/ check.verdict["ciphertext"] = "fail" \/ check.unreached
    /\ check.wrongKey => check.got # <<>> /\ check.verdict["decrypt"] = "fail"

(* What the reference locker can have answered.                             *)
IsAnswer(a) ==
    /\ a = "granted" => world.open
    /\ a = "denied" => ~ world.open

ProbedSoFar ==
    /\ \A i \in DOMAIN check.seen : IsAnswer(check.seen[i])
    /\ check.at \notin {"probe", "outcome", "report", "done"} =>
          check.seen = <<>> /\ check.verdict["isolation"] = "na" /\ ~ check.foreign
    /\ check.at = "probe" =>
          /\ check.row = "fit" /\ check.verdict["isolation"] # "fail" /\ ~ check.foreign
          /\ check.seen = <<>> \/ check.seen = <<check.seen[1]>>
    /\ check.at \in {"outcome", "report", "done"} =>
          /\ check.foreign =>
                world.open /\ check.row = "fit" /\ check.verdict["isolation"] = "fail"
          /\ (\E i \in DOMAIN check.seen : check.seen[i] = "granted") => check.foreign
          /\ check.verdict["isolation"] = "pass" =>
                check.seen = <<"denied", "denied">> /\ ~ world.open /\ check.row = "fit"
          /\ check.verdict["isolation"] = "fail" =>
                \/ check.row \notin {"fit", "none", "own"} \/ world.open
                \/ \E i \in DOMAIN check.seen : check.seen[i] = "redirect"

VerificationInv ==
    /\ CheckTypes /\ LockerTypes /\ KeysSoFar /\ FoundSoFar /\ ProbedSoFar
    /\ V!Reported => check.outcome = V!Outcome
    /\ console.recorded => console.posted # {}

(***************************************************************************)
(* Readiness                                                               *)
(***************************************************************************)
IsList(l) ==
    l = [filter |-> l.filter, inside |-> l.inside, project |-> l.project,
         records |-> l.records, cursor |-> l.cursor, offset |-> l.offset,
         height |-> l.height, mode |-> l.mode, menu |-> l.menu, unasked |-> l.unasked]

(* A list with the same rows on the screen.                                 *)
Like(l) ==
    /\ IsList(l) /\ l.records = list.records /\ l.offset = list.offset
    /\ l.height = list.height /\ l.unasked = list.unasked

(* What is pending, or has no answer yet, has a retry left.                 *)
ProberTypes ==
    /\ prober = [cache |-> prober.cache, pending |-> prober.pending,
                 verifying |-> prober.verifying, retries |-> prober.retries]
    /\ DOMAIN prober.cache = Sessions /\ DOMAIN prober.retries = Sessions
    /\ \A s \in Sessions : /\ prober.retries[s] \in Nat
                            /\ prober.retries[s] <= MaxProbeRetries
    /\ \A s \in Sessions :
          prober.cache[s] = "none" => prober.retries[s] < MaxProbeRetries
    /\ \A s \in prober.pending : /\ s \in Sessions \ ReadOnly
                                  /\ prober.cache[s] \in {"none", "unknown"}
                                  /\ prober.retries[s] < MaxProbeRetries
    /\ prober.verifying \subseteq prober.pending /\ IsFiniteSet(prober.verifying)
    /\ Cardinality(prober.verifying) <= MaxConcurrentProbes

ReadinessInv == IsList(list) /\ notes \in Nat /\ ProberTypes /\ NoRowForgotten

------------------------------------------------------------------------------
(* What an init and a wizard that run are made of.                          *)
LEMMA SetupRecord ==
    ASSUME SetupTypes, setup.pc # "idle"
    PROVE  /\ setup \in OwnSetups \/ setup \in HostedSetups
           /\ setup = [pc |-> setup.pc, profile |-> setup.profile, join |-> setup.join,
                       hosted |-> setup.hosted, existing |-> setup.existing,
                       keep |-> setup.keep, state |-> setup.state]
<1>1. setup \in OwnSetups \cup HostedSetups
  BY DEF SetupTypes, Idle
<1>2. CASE setup \in OwnSetups
  BY <1>2 DEF OwnSetups
<1>3. CASE setup \in HostedSetups
  BY <1>3 DEF HostedSetups
<1> QED BY <1>1, <1>2, <1>3

LEMMA WizardRecord ==
    ASSUME SetupTypes, wizard # NoWizard
    PROVE  /\ wizard \in Wizards
           /\ wizard = [step |-> wizard.step, provider |-> wizard.provider,
                        join |-> wizard.join, strokes |-> wizard.strokes,
                        value |-> wizard.value]
<1>1. wizard \in Wizards
  BY DEF SetupTypes
<1> QED BY <1>1 DEF Wizards

LEMMA HomeRecord ==
    ASSUME SetupTypes
    PROVE  /\ home = [config |-> home.config, state |-> home.state, account |-> home.account]
           /\ home.config = NoFile \/ home.config \in Configs
           /\ home.state = NoFile \/ home.state \in States
           /\ home.account \in Accounts \cup {None}
<1>1. home \in Homes
  BY DEF SetupTypes
<1> QED BY <1>1 DEF Homes

(* The files that are there are found.                                      *)
LEMMA ExistingType ==
    ASSUME SetupTypes
    PROVE  /\ Existing \in SUBSET ({"config", "state"} \cup Accounts)
           /\ home.account # None => Existing # {}
<1>1. home.account \in Accounts \cup {None}
  BY HomeRecord
<1> QED BY <1>1 DEF Existing

------------------------------------------------------------------------------
(* The home is a new one when no command has run.                           *)
LEMMA SetupInitInv == SetupInit => SetupInv
<1> SUFFICES ASSUME SetupInit PROVE SetupInv
  OBVIOUS
<1>1. SetupTypes
  BY SetupAssumption
     DEF SetupInit, SetupTypes, SetupTypeOK, Homes, NoFile, None, Idle, NoWizard
<1>2. AnswersSoFar /\ EnrolmentIsTheConfigs /\ FilesAreOfOneProfile
  BY DEF SetupInit, AnswersSoFar, EnrolmentIsTheConfigs, FilesAreOfOneProfile
<1>3. SetupSoFar /\ CarriedIsTheHomes /\ WorkedHasRecords
  BY DEF SetupInit, SetupSoFar, CarriedIsTheHomes, WorkedHasRecords, Idle
<1> QED BY <1>1, <1>2, <1>3 DEF SetupInv

(* A command begins: nothing is drawn or carried yet, and what is there to  *)
(* be backed up is known.                                                   *)
LEMMA BeginsInv ==
    ASSUME SetupInv, NEW pc, NEW profile, NEW hosted \in BOOLEAN, Begin(pc, profile, hosted),
           hosted => pc = "provision" /\ profile \in Accounts,
           ~ hosted => pc \in {"wizard", "probe"} /\ profile \in Profiles \cup {None},
           pc = "wizard" => wizard' \in Wizards /\ wizard'.step = 1,
           pc # "wizard" => UNCHANGED wizard,
           UNCHANGED <<home, vault, remote, cut, worked>>
    PROVE  SetupInv'
<1> DEFINE s == [pc |-> pc, profile |-> profile, join |-> profile # None, hosted |-> hosted,
                 existing |-> Existing, keep |-> FALSE, state |-> Fresh]
<1>1. setup' = s /\ setup = Idle /\ setups' = setups + 1 /\ setups < MaxSetups
  <2>1. setup' = s /\ setup.pc = "idle" /\ setups' = setups + 1 /\ setups < MaxSetups
    BY DEF Begin
  <2>2. SetupTypes
    BY DEF SetupInv
  <2> QED BY <2>1, <2>2 DEF SetupTypes, OwnSetups, HostedSetups
<1>2. SetupTypes /\ Existing \in SUBSET ({"config", "state"} \cup Accounts)
  BY ExistingType DEF SetupInv
<1>3. s \in OwnSetups \cup HostedSetups
  <2>1. CASE hosted
    BY <1>2, <2>1 DEF HostedSetups, States, Fresh
  <2>2. CASE ~ hosted
    BY <1>2, <2>2 DEF OwnSetups
  <2> QED BY <2>1, <2>2
<1>4. SetupTypes'
  <2>1. SetupTypeOK'
    BY <1>1, <1>2, SetupAssumption DEF SetupTypes, SetupTypeOK
  <2>2. wizard' \in {NoWizard} \cup Wizards /\ (pc = "wizard" => wizard' # NoWizard)
    BY <1>2 DEF SetupTypes, NoWizard
  <2> QED BY <1>1, <1>2, <1>3, <2>1, <2>2 DEF SetupTypes
<1>5. AnswersSoFar'
  <2>1. CASE pc = "wizard"
    <3>1. wizard'.step = 1
      BY <2>1
    <3> QED BY <3>1, SMT DEF AnswersSoFar
  <2>2. CASE pc # "wizard"
    BY <2>2 DEF SetupInv, AnswersSoFar
  <2> QED BY <2>1, <2>2
<1>6. EnrolmentIsTheConfigs'
  BY <1>1, <1>2, ExistingType DEF SetupInv, EnrolmentIsTheConfigs
<1>7. FilesAreOfOneProfile'
  BY <1>1 DEF SetupInv, FilesAreOfOneProfile, Idle
<1>8. SetupSoFar' /\ CarriedIsTheHomes' /\ WorkedHasRecords'
  BY <1>1 DEF SetupInv, SetupSoFar, CarriedIsTheHomes, WorkedHasRecords, Idle
<1> QED BY <1>4, <1>5, <1>6, <1>7, <1>8 DEF SetupInv

LEMMA BeginInv ==
    ASSUME SetupInv,
           \/ \E profile \in Profiles \cup {None} :
                 BeginFlags(profile) \/ \E paste \in BOOLEAN : BeginWizard(profile, paste)
           \/ \E account \in Accounts : BeginHosted(account)
    PROVE  SetupInv'
<1>1. ASSUME NEW profile \in Profiles \cup {None}, BeginFlags(profile) PROVE SetupInv'
  BY <1>1, BeginsInv DEF BeginFlags
<1>2. ASSUME NEW profile \in Profiles \cup {None}, NEW paste \in BOOLEAN,
             BeginWizard(profile, paste)
      PROVE  SetupInv'
  <2>1. DefaultProvider \in Providers
    BY SetupAssumption DEF DefaultProvider
  <2>2. wizard' \in Wizards /\ wizard'.step = 1
    BY <1>2, <2>1 DEF BeginWizard, Wizards, Texts
  <2> QED BY <1>2, <2>2, BeginsInv DEF BeginWizard
<1>3. ASSUME NEW account \in Accounts, BeginHosted(account) PROVE SetupInv'
  BY <1>3, BeginsInv DEF BeginHosted
<1> QED BY <1>1, <1>2, <1>3

------------------------------------------------------------------------------
(* The wizard.                                                              *)
LEMMA StepNames ==
    ASSUME NEW i \in 1..6
    PROVE  /\ Steps[i] \in Fields => i \in {2, 3, 5}
           /\ Steps[i] = "provider" => i = 1
           /\ Steps[i] = "endpoint" <=> i = 2
           /\ Steps[i] = "bucket" <=> i = 3
           /\ Steps[i] = "profile" => i = 4
           /\ Steps[i] = "id" <=> i = 5
           /\ Steps[i] = "review" <=> i = 6
<1>1. /\ Steps[1] = "provider" /\ Steps[2] = "endpoint" /\ Steps[3] = "bucket"
      /\ Steps[4] = "profile" /\ Steps[5] = "id" /\ Steps[6] = "review"
  BY DEF Steps
<1>2. i = 1 \/ i = 2 \/ i = 3 \/ i = 4 \/ i = 5 \/ i = 6
  OBVIOUS
<1> QED BY <1>1, <1>2 DEF Fields

(* Which fields do not apply, and where back and advance go.                *)
LEMMA SkipIs == \A i \in 1..6 : Skip(i) <=> i = 5 /\ ~ wizard.join
  BY StepNames DEF Skip

LEMMA BeforeIs ==
    ASSUME wizard \in Wizards, wizard.step > 1
    PROVE  Before \in 1..(wizard.step - 1)
<1> DEFINE i == IF wizard.step = 6 /\ ~ wizard.join THEN 4 ELSE wizard.step - 1
<1>1. wizard.step \in 1..6
  BY DEF Wizards
<1>2. /\ i \in {j \in 1..(wizard.step - 1) : ~ Skip(j)}
      /\ \A j \in (i + 1)..(wizard.step - 1) : Skip(j)
  BY <1>1, SkipIs
<1> QED BY <1>2 DEF Before

LEMMA AfterIs ==
    ASSUME wizard \in Wizards, wizard.step < 6
    PROVE  /\ After \in (wizard.step + 1)..6
           /\ After > wizard.step + 1 => wizard.step = 4 /\ ~ wizard.join
<1> DEFINE i == IF wizard.step = 4 /\ ~ wizard.join THEN 6 ELSE wizard.step + 1
<1>1. wizard.step \in 1..6 /\ Len(Steps) = 6
  BY DEF Wizards, Steps
<1>2. /\ i \in {j \in (wizard.step + 1)..Len(Steps) : ~ Skip(j)}
      /\ \A j \in (wizard.step + 1)..(i - 1) : Skip(j)
  BY <1>1, SkipIs
<1>3. /\ After \in {j \in (wizard.step + 1)..Len(Steps) : ~ Skip(j)}
      /\ \A j \in (wizard.step + 1)..(After - 1) : Skip(j)
  BY <1>2 DEF After
<1>4. ASSUME After > wizard.step + 1 PROVE wizard.step = 4 /\ ~ wizard.join
  <2>1. Skip(wizard.step + 1)
    BY <1>1, <1>3, <1>4
  <2> QED BY <2>1, <1>1, <1>3, SkipIs
<1> QED BY <1>1, <1>3, <1>4

(* A key changes the wizard alone.  What it leaves to show is that the      *)
(* answers that are gone past stay good.                                    *)
LEMMA KeyInv ==
    ASSUME SetupInv, Stroke, UNCHANGED setup, wizard' \in Wizards,
           /\ wizard'.step > 2 => wizard'.value["endpoint"] = <<"good">>
           /\ wizard'.step > 3 => wizard'.value["bucket"] = <<"good">>
           /\ wizard'.step > 5 /\ wizard'.join => wizard'.value["id"] = <<"good">>
    PROVE  SetupInv'
<1>1. setup.pc = "wizard" /\ UNCHANGED <<home, vault, remote, cut, worked, setups>>
  BY DEF Stroke
<1>2. SetupTypes'
  <2>1. wizard'.step \in 1..6 /\ NoWizard.step = 0
    BY DEF Wizards, NoWizard
  <2>2. wizard' # NoWizard
    BY <2>1
  <2> QED BY <1>1, <2>2 DEF SetupInv, SetupTypes, SetupTypeOK
<1>3. AnswersSoFar'
  BY DEF AnswersSoFar
<1>4. EnrolmentIsTheConfigs' /\ FilesAreOfOneProfile'
  BY <1>1 DEF SetupInv, EnrolmentIsTheConfigs, FilesAreOfOneProfile
<1>5. SetupSoFar' /\ CarriedIsTheHomes' /\ WorkedHasRecords'
  BY <1>1 DEF SetupInv, SetupSoFar, CarriedIsTheHomes, WorkedHasRecords, Config
<1> QED BY <1>2, <1>3, <1>4, <1>5 DEF SetupInv

(* The wizard as it is while keys are pressed.                              *)
LEMMA AtTheWizard ==
    ASSUME SetupInv, Stroke
    PROVE  /\ wizard \in Wizards
           /\ wizard = [step |-> wizard.step, provider |-> wizard.provider,
                        join |-> wizard.join, strokes |-> wizard.strokes,
                        value |-> wizard.value]
  BY WizardRecord DEF SetupInv, SetupTypes, Stroke

LEMMA AnswerTypes ==
    ASSUME SetupInv, Stroke
    PROVE  /\ wizard.step \in 1..6 /\ wizard.strokes + 1 \in Nat
           /\ wizard.provider \in Providers /\ wizard.join \in BOOLEAN
           /\ wizard.value \in [Fields -> Texts \cup Templates]
<1>1. wizard \in Wizards
  BY AtTheWizard
<1> QED BY <1>1 DEF Wizards

LEMMA AnswersGiven ==
    ASSUME SetupInv, Stroke
    PROVE  /\ wizard.step > 2 => wizard.value["endpoint"] = <<"good">>
           /\ wizard.step > 3 => wizard.value["bucket"] = <<"good">>
           /\ wizard.step > 5 /\ wizard.join => wizard.value["id"] = <<"good">>
  BY DEF SetupInv, SetupTypes, Stroke, AnswersSoFar

(* A wizard that a key has changed.                                         *)
LEMMA WizardType ==
    ASSUME SetupInv, Stroke,
           NEW step \in 1..6, NEW provider \in Providers, NEW join \in BOOLEAN,
           NEW value \in [Fields -> Texts \cup Templates],
           wizard' = [step |-> step, provider |-> provider, join |-> join,
                      strokes |-> wizard.strokes + 1, value |-> value]
    PROVE  /\ wizard' \in Wizards
           /\ wizard'.step = step /\ wizard'.join = join /\ wizard'.value = value
<1>1. wizard.strokes + 1 \in Nat
  BY AnswerTypes
<1> QED BY <1>1 DEF Wizards

LEMMA EditsInv ==
    ASSUME SetupInv,
           \/ \E p \in Providers : SelectProvider(p)
           \/ \E text \in Texts \cup Templates : Edit(text)
           \/ ToggleJoin
    PROVE  SetupInv'
<1> DEFINE w(provider, join, value) ==
      [step |-> wizard.step, provider |-> provider, join |-> join,
       strokes |-> wizard.strokes + 1, value |-> value]
<1>1. ASSUME NEW p \in Providers, SelectProvider(p) PROVE SetupInv'
  <2>1. Stroke /\ Step = "provider" /\ UNCHANGED setup
    BY <1>1 DEF SelectProvider, Goes
  <2>2. wizard.step = 1
    BY <2>1, AnswerTypes, StepNames DEF Step
  <2>3. PICK text \in Texts \cup Templates :
           wizard' = w(p, wizard.join, [wizard.value EXCEPT !["endpoint"] = text])
    BY <1>1, <2>1, AtTheWizard, AnswerTypes DEF SelectProvider, Goes, Fields, Texts
  <2>4. [wizard.value EXCEPT !["endpoint"] = text] \in [Fields -> Texts \cup Templates]
    BY <2>1, AnswerTypes
  <2>5. wizard' \in Wizards /\ wizard'.step = 1
    BY <2>1, <2>2, <2>3, <2>4, AnswerTypes, WizardType
  <2> QED BY <2>1, <2>5, KeyInv
<1>2. ASSUME NEW text \in Texts \cup Templates, Edit(text) PROVE SetupInv'
  <2>1. Stroke /\ Step \in Fields /\ UNCHANGED setup
    BY <1>2 DEF Edit, Goes
  <2>2. /\ wizard.step \in {2, 3, 5} /\ (Step = "endpoint" => wizard.step = 2)
        /\ (Step = "bucket" => wizard.step = 3)
    BY <2>1, AnswerTypes, StepNames DEF Step
  <2>3. PICK value : value = [wizard.value EXCEPT ![Step] = text]
    OBVIOUS
  <2>4. wizard' = w(wizard.provider, wizard.join, value)
    BY <1>2, <2>1, <2>3, AtTheWizard DEF Edit, Goes
  <2>5. /\ value \in [Fields -> Texts \cup Templates]
        /\ \A f \in Fields : f # Step => value[f] = wizard.value[f]
    BY <2>1, <2>3, AnswerTypes
  <2>6. wizard' \in Wizards /\ wizard'.step = wizard.step /\ wizard'.value = value
    BY <2>1, <2>4, <2>5, AnswerTypes, WizardType
  <2>7. /\ wizard.step > 2 => value["endpoint"] = <<"good">>
        /\ wizard.step > 3 => value["bucket"] = <<"good">>
        /\ wizard.step <= 5
    BY <2>1, <2>2, <2>5, AnswersGiven DEF Fields
  <2>8. /\ wizard'.step > 2 => wizard'.value["endpoint"] = <<"good">>
        /\ wizard'.step > 3 => wizard'.value["bucket"] = <<"good">>
        /\ ~ (wizard'.step > 5)
    BY <2>2, <2>6, <2>7
  <2> QED BY <2>1, <2>6, <2>8, KeyInv
<1>3. ASSUME ToggleJoin PROVE SetupInv'
  <2>1. Stroke /\ Step = "profile" /\ UNCHANGED setup
    BY <1>3 DEF ToggleJoin, Goes
  <2>2. wizard.step = 4
    BY <2>1, AnswerTypes, StepNames DEF Step
  <2>3. PICK join \in BOOLEAN : wizard' = w(wizard.provider, join, wizard.value)
    BY <1>3, <2>1, AtTheWizard DEF ToggleJoin, Goes
  <2>4. wizard' \in Wizards /\ wizard'.step = 4 /\ wizard'.value = wizard.value
    BY <2>1, <2>2, <2>3, AnswerTypes, WizardType
  <2>5. wizard.value["endpoint"] = <<"good">> /\ wizard.value["bucket"] = <<"good">>
    BY <2>1, <2>2, AnswersGiven
  <2> QED BY <2>1, <2>4, <2>5, KeyInv
<1> QED BY <1>1, <1>2, <1>3

LEMMA MovesInv ==
    ASSUME SetupInv, Back \/ Advance \/ CancelWizard
    PROVE  SetupInv'
<1> DEFINE w(step) == [step |-> step, provider |-> wizard.provider, join |-> wizard.join,
                       strokes |-> wizard.strokes + 1, value |-> wizard.value]
<1>0. ASSUME Stroke, UNCHANGED setup, NEW step \in 1..6, wizard' = w(step),
             /\ step > 2 => wizard.value["endpoint"] = <<"good">>
             /\ step > 3 => wizard.value["bucket"] = <<"good">>
             /\ step > 5 /\ wizard.join => wizard.value["id"] = <<"good">>
      PROVE  SetupInv'
  <2>1. /\ wizard' \in Wizards /\ wizard'.step = step
        /\ wizard'.value = wizard.value /\ wizard'.join = wizard.join
    BY <1>0, AnswerTypes, WizardType
  <2> QED BY <1>0, <2>1, KeyInv
<1>1. ASSUME Back PROVE SetupInv'
  <2>1. Stroke /\ wizard.step > 1 /\ UNCHANGED setup
    BY <1>1 DEF Back, Goes
  <2>2. PICK step : step = Before
    OBVIOUS
  <2>3. step \in 1..6 /\ step < wizard.step /\ wizard.step \in 1..6
    <3>1. wizard \in Wizards /\ wizard.step \in 1..6
      BY <2>1, AtTheWizard, AnswerTypes
    <3>2. step \in 1..(wizard.step - 1)
      BY <2>1, <2>2, <3>1, BeforeIs
    <3> QED BY <3>1, <3>2
  <2>4. wizard' = w(step)
    BY <1>1, <2>1, <2>2, AtTheWizard DEF Back, Goes
  <2>5. /\ step > 2 => wizard.value["endpoint"] = <<"good">>
        /\ step > 3 => wizard.value["bucket"] = <<"good">>
        /\ step > 5 /\ wizard.join => wizard.value["id"] = <<"good">>
    BY <2>1, <2>3, AnswersGiven
  <2> QED BY <2>1, <2>3, <2>4, <2>5, <1>0
<1>2. ASSUME Advance PROVE SetupInv'
  <2>1. Stroke /\ wizard \in Wizards /\ wizard.step \in 1..6
    BY <1>2, AtTheWizard, AnswerTypes DEF Advance
  <2>2. CASE ~ Valid(Step)
    <3>1. wizard' = w(wizard.step) /\ UNCHANGED setup
      BY <1>2, <2>1, <2>2, AtTheWizard DEF Advance, Goes
    <3> QED BY <2>1, <3>1, AnswersGiven, <1>0
  <2>3. CASE Valid(Step) /\ Step # "review"
    <3>1. wizard.step < 6
      BY <2>1, <2>3, StepNames DEF Step
    <3>2. PICK step : step = After
      OBVIOUS
    <3>3. /\ step \in 1..6 /\ step > wizard.step
          /\ step > wizard.step + 1 => wizard.step = 4 /\ ~ wizard.join
      BY <2>1, <3>1, <3>2, AfterIs
    <3>4. wizard' = w(step) /\ UNCHANGED setup
      BY <1>2, <2>1, <2>3, <3>2, AtTheWizard DEF Advance, Goes
    <3>5. /\ wizard.step = 2 => wizard.value["endpoint"] = <<"good">>
          /\ wizard.step = 3 => wizard.value["bucket"] = <<"good">>
          /\ wizard.step = 5 => wizard.value["id"] = <<"good">>
      BY <2>1, <2>3, StepNames DEF Valid, Fields, Step
    <3>6. /\ step > 2 => wizard.value["endpoint"] = <<"good">>
          /\ step > 3 => wizard.value["bucket"] = <<"good">>
          /\ step > 5 /\ wizard.join => wizard.value["id"] = <<"good">>
      BY <2>1, <3>1, <3>3, <3>5, AnswersGiven
    <3> QED BY <2>1, <3>3, <3>4, <3>6, <1>0
  <2>4. CASE Valid(Step) /\ Step = "review"
    <3>1. UNCHANGED <<wizard, home, vault, remote, cut, worked, setups>> /\ setup.pc = "wizard"
      BY <1>2, <2>4 DEF Advance, Stroke
    <3>2. setup \in OwnSetups
      BY <3>1, SetupRecord DEF SetupInv, HostedSetups
    <3>3. PICK id \in Profiles :
             setup' = [setup EXCEPT !.pc = "probe",
                          !.profile = IF wizard.join THEN id ELSE @, !.join = @ \/ wizard.join]
      BY <1>2, <2>4 DEF Advance
    <3>4. setup' \in OwnSetups /\ setup'.pc = "probe" /\ setup'.state = Fresh
          /\ setup'.existing = setup.existing
      BY <2>1, <3>2, <3>3 DEF OwnSetups, Wizards
    <3>5. SetupTypes'
      BY <3>1, <3>4 DEF SetupInv, SetupTypes, SetupTypeOK
    <3>6. AnswersSoFar' /\ EnrolmentIsTheConfigs' /\ FilesAreOfOneProfile'
      BY <3>1, <3>4 DEF SetupInv, AnswersSoFar, EnrolmentIsTheConfigs, FilesAreOfOneProfile
    <3>7. SetupSoFar' /\ CarriedIsTheHomes' /\ WorkedHasRecords'
      BY <3>1, <3>4 DEF SetupInv, SetupSoFar, CarriedIsTheHomes, WorkedHasRecords
    <3> QED BY <3>5, <3>6, <3>7 DEF SetupInv
  <2> QED BY <2>2, <2>3, <2>4
<1>3. ASSUME CancelWizard PROVE SetupInv'
  <2>1. /\ setup.pc = "wizard" /\ setup' = Idle /\ wizard' = NoWizard
        /\ UNCHANGED <<home, vault, remote, cut, worked, setups>>
    BY <1>3 DEF CancelWizard, Stroke, Ends
  <2>2. SetupTypes' /\ AnswersSoFar'
    BY <2>1 DEF SetupInv, SetupTypes, SetupTypeOK, AnswersSoFar, Idle
  <2>3. EnrolmentIsTheConfigs' /\ FilesAreOfOneProfile' /\ SetupSoFar'
        /\ CarriedIsTheHomes' /\ WorkedHasRecords'
    BY <2>1 DEF SetupInv, EnrolmentIsTheConfigs, FilesAreOfOneProfile, SetupSoFar,
                CarriedIsTheHomes, WorkedHasRecords, Idle
  <2> QED BY <2>2, <2>3 DEF SetupInv
<1> QED BY <1>1, <1>2, <1>3

------------------------------------------------------------------------------
(* The store and the files.                                                 *)
LEMMA StoreInv ==
    ASSUME SetupInv, ProbeStore \/ Provision
    PROVE  SetupInv'
<1> DEFINE s(profile, state) ==
      [pc |-> "backup", profile |-> profile, join |-> setup.join, hosted |-> setup.hosted,
       existing |-> setup.existing, keep |-> setup.keep, state |-> state]
<1>1. ASSUME ProbeStore PROVE SetupInv'
  <2>1. setup.pc = "probe" /\ UNCHANGED <<home, vault, remote, wizard, cut, worked, setups>>
    BY <1>1 DEF ProbeStore
  <2>2. setup \in OwnSetups
    BY <2>1, SetupRecord DEF SetupInv, HostedSetups
  <2>3. PICK id \in Profiles : setup' = s(id, setup.state)
    BY <1>1, <2>1, SetupRecord DEF SetupInv, ProbeStore
  <2>4. setup' \in OwnSetups /\ setup'.state = Fresh /\ setup'.hosted = FALSE
    BY <2>2, <2>3 DEF OwnSetups
  <2>5. SetupTypes'
    BY <2>1, <2>3, <2>4 DEF SetupInv, SetupTypes, SetupTypeOK
  <2>6. AnswersSoFar' /\ EnrolmentIsTheConfigs' /\ FilesAreOfOneProfile'
    BY <2>1, <2>3 DEF SetupInv, AnswersSoFar, EnrolmentIsTheConfigs, FilesAreOfOneProfile
  <2>7. SetupSoFar' /\ CarriedIsTheHomes' /\ WorkedHasRecords'
    BY <2>1, <2>3, <2>4
       DEF SetupInv, SetupSoFar, CarriedIsTheHomes, WorkedHasRecords, Owners
  <2> QED BY <2>5, <2>6, <2>7 DEF SetupInv
<1>2. ASSUME Provision PROVE SetupInv'
  <2>1. /\ setup.pc = "provision"
        /\ UNCHANGED <<home, vault, remote, wizard, cut, worked, setups>>
    BY <1>2 DEF Provision
  <2>2. setup \in HostedSetups
    BY <2>1, SetupRecord DEF SetupInv, OwnSetups
  <2>3. PICK state : state = CarriedState(setup.profile)
    OBVIOUS
  <2>4. setup' = s(setup.profile, state)
    BY <1>2, <2>1, <2>3, SetupRecord DEF SetupInv, Provision
  <2>5. /\ state \in States
        /\ \/ state = Fresh
           \/ /\ state = home.state /\ home.state # NoFile /\ home.state.sessions
              /\ home.config # NoFile /\ home.config.profile = setup.profile
        /\ home.config # NoFile /\ home.config.profile = setup.profile
           /\ home.state # NoFile /\ home.state.sessions => state = home.state
    BY <2>3, HomeRecord DEF SetupInv, CarriedState, States, Fresh
  <2>6. setup' \in HostedSetups
    BY <2>2, <2>4, <2>5 DEF HostedSetups
  <2>7. SetupTypes'
    BY <2>1, <2>4, <2>6 DEF SetupInv, SetupTypes, SetupTypeOK
  <2>8. AnswersSoFar' /\ EnrolmentIsTheConfigs' /\ FilesAreOfOneProfile'
    BY <2>1, <2>4 DEF SetupInv, AnswersSoFar, EnrolmentIsTheConfigs, FilesAreOfOneProfile
  <2>9. SetupSoFar'
    BY <2>2, <2>4 DEF SetupSoFar, Owners, HostedSetups
  <2>10. CarriedIsTheHomes'
    BY <2>1, <2>4, <2>5 DEF SetupInv, FilesAreOfOneProfile, CarriedIsTheHomes
  <2>11. WorkedHasRecords'
    BY <2>1, <2>4, <2>5 DEF SetupInv, WorkedHasRecords
  <2> QED BY <2>7, <2>8, <2>9, <2>10, <2>11 DEF SetupInv
<1> QED BY <1>1, <1>2

(* A file that is there is not one that is missing.                         *)
LEMMA FilesAreThere ==
    /\ \A c \in Configs : c # NoFile
    /\ \A s \in States : s # NoFile /\ s.owners \in SUBSET Owners /\ s.sessions \in BOOLEAN
<1>1. ASSUME NEW c \in Configs PROVE c # NoFile
  <2>1. DOMAIN c = {"profile", "hosted", "keyring", "joined"} /\ DOMAIN NoFile = {"none"}
    BY <1>1 DEF Configs, NoFile
  <2> QED BY <2>1
<1>2. ASSUME NEW s \in States
      PROVE  s # NoFile /\ s.owners \in SUBSET Owners /\ s.sessions \in BOOLEAN
  <2>1. DOMAIN s = {"owners", "sessions"} /\ DOMAIN NoFile = {"none"}
    BY <1>2 DEF States, NoFile
  <2> QED BY <1>2, <2>1 DEF States
<1> QED BY <1>1, <1>2

(* A config describes the setup that writes it.                             *)
LEMMA ConfigType ==
    ASSUME SetupInv, setup.pc = "config"
    PROVE  /\ Config \in Configs /\ Config # NoFile
           /\ Config.profile = setup.profile /\ Config.hosted = setup.hosted
           /\ Config.keyring = setup.keep
           /\ setup.profile \in Owners /\ (setup.hosted => setup.profile \in Accounts)
<1>1. setup \in OwnSetups \/ setup \in HostedSetups
  BY SetupRecord DEF SetupInv
<1>2. setup.profile \in Owners
  BY DEF SetupInv, SetupSoFar
<1>3. /\ Config.profile = setup.profile /\ Config.hosted = setup.hosted
      /\ Config.keyring = setup.keep
  BY DEF Config
<1>4. CASE setup \in OwnSetups
  <2>1. setup.profile \in Profiles
    BY <1>2, <1>4, SetupAssumption DEF OwnSetups, Owners
  <2>2. Config \in Configs
    BY <1>4, <2>1 DEF Config, Configs, OwnSetups
  <2>3. setup.hosted = FALSE
    BY <1>4 DEF OwnSetups
  <2> QED BY <1>2, <1>3, <2>2, <2>3, FilesAreThere
<1>5. CASE setup \in HostedSetups
  <2>1. Config \in Configs
    BY <1>5 DEF Config, Configs, HostedSetups
  <2>2. setup.profile \in Accounts
    BY <1>5 DEF HostedSetups
  <2> QED BY <1>2, <1>3, <2>1, <2>2, FilesAreThere
<1> QED BY <1>1, <1>4, <1>5

(* What is there already is backed up, and then the config is written.      *)
LEMMA BackupInv ==
    ASSUME SetupInv, Backup
    PROVE  SetupInv'
<1>1. /\ setup.pc = "backup" /\ UNCHANGED <<vault, remote, wizard, cut, worked, setups>>
      /\ home' = IF setup.existing # {} THEN [home EXCEPT !.account = None] ELSE home
  BY DEF Backup, GoOn
<1>2. setup \in OwnSetups \/ setup \in HostedSetups
  BY <1>1, SetupRecord DEF SetupInv
<1>3. PICK pc \in {"config", "credentials"} :
         /\ pc = "credentials" => ~ setup.hosted
         /\ pc = "config" => setup.hosted
         /\ setup' = [pc |-> pc, profile |-> setup.profile, join |-> setup.join,
                      hosted |-> setup.hosted, existing |-> setup.existing,
                      keep |-> setup.keep, state |-> setup.state]
  BY <1>1, SetupRecord DEF SetupInv, Backup, GoOn
<1>4. setup' \in OwnSetups \/ setup' \in HostedSetups
  BY <1>2, <1>3 DEF OwnSetups, HostedSetups
<1>5. /\ home' \in Homes /\ home'.config = home.config /\ home'.state = home.state
      /\ home'.account = None
  BY <1>1, HomeRecord DEF SetupInv, EnrolmentIsTheConfigs, SetupTypes, Homes
<1>6. SetupTypes'
  BY <1>1, <1>3, <1>4, <1>5 DEF SetupInv, SetupTypes, SetupTypeOK
<1>7. AnswersSoFar' /\ EnrolmentIsTheConfigs' /\ FilesAreOfOneProfile'
  BY <1>1, <1>3, <1>5 DEF SetupInv, AnswersSoFar, EnrolmentIsTheConfigs, FilesAreOfOneProfile
<1>8. SetupSoFar'
  <2>1. setup.profile \in Owners
    BY <1>1 DEF SetupInv, SetupSoFar
  <2>2. setup.hosted => setup.keep = FALSE
    BY <1>2 DEF OwnSetups, HostedSetups
  <2>3. /\ setup'.pc = pc /\ setup'.profile = setup.profile /\ setup'.keep = setup.keep
    BY <1>3
  <2> QED BY <1>3, <2>1, <2>2, <2>3 DEF SetupSoFar
<1>9. CarriedIsTheHomes' /\ WorkedHasRecords'
  BY <1>1, <1>3, <1>5 DEF SetupInv, CarriedIsTheHomes, WorkedHasRecords
<1> QED BY <1>6, <1>7, <1>8, <1>9 DEF SetupInv

LEMMA CredentialsInv ==
    ASSUME SetupInv, StoreCredentials
    PROVE  SetupInv'
<1>1. /\ setup.pc = "credentials" /\ UNCHANGED <<home, remote, wizard, cut, worked, setups>>
  BY DEF StoreCredentials
<1>2. setup \in OwnSetups
  BY <1>1, SetupRecord DEF SetupInv, HostedSetups
<1>3. PICK typed \in BOOLEAN :
         /\ vault' = IF typed THEN vault \cup {setup.profile} ELSE vault
         /\ setup' = [pc |-> "config", profile |-> setup.profile, join |-> setup.join,
                      hosted |-> setup.hosted, existing |-> setup.existing,
                      keep |-> typed, state |-> setup.state]
  BY <1>1, SetupRecord DEF SetupInv, StoreCredentials
<1>4. setup' \in OwnSetups
  BY <1>2, <1>3 DEF OwnSetups
<1>5. setup.profile \in Profiles /\ setup.state = Fresh /\ setup.hosted = FALSE
  BY <1>1, <1>2, SetupAssumption DEF SetupInv, SetupSoFar, OwnSetups, Owners
<1>6. SetupTypes'
  BY <1>1, <1>3, <1>4, <1>5 DEF SetupInv, SetupTypes, SetupTypeOK
<1>7. AnswersSoFar' /\ EnrolmentIsTheConfigs' /\ FilesAreOfOneProfile'
  BY <1>1, <1>3 DEF SetupInv, AnswersSoFar, EnrolmentIsTheConfigs, FilesAreOfOneProfile
<1>8. SetupSoFar'
  BY <1>1, <1>3 DEF SetupInv, SetupSoFar
<1>9. CarriedIsTheHomes' /\ WorkedHasRecords'
  BY <1>1, <1>3, <1>5 DEF SetupInv, CarriedIsTheHomes, WorkedHasRecords
<1> QED BY <1>6, <1>7, <1>8, <1>9 DEF SetupInv

LEMMA SaveConfigInv ==
    ASSUME SetupInv, SaveConfig
    PROVE  SetupInv'
<1>1. /\ setup.pc = "config" /\ UNCHANGED <<vault, remote, wizard, cut, setups>>
      /\ worked' = IF worked = setup.profile /\ setup.hosted THEN worked ELSE None
  BY DEF SaveConfig
<1>2. PICK config : config = Config
  OBVIOUS
<1>3. /\ config \in Configs /\ config # NoFile /\ config.profile = setup.profile
      /\ config.hosted = setup.hosted /\ config.keyring = setup.keep
  BY <1>1, <1>2, ConfigType
<1>4. setup' = [pc |-> "state", profile |-> setup.profile, join |-> setup.join,
                hosted |-> setup.hosted, existing |-> setup.existing,
                keep |-> setup.keep, state |-> setup.state]
  BY <1>1, SetupRecord DEF SetupInv, SaveConfig
<1>5. setup' \in OwnSetups \/ setup' \in HostedSetups
  BY <1>1, <1>4, SetupRecord DEF SetupInv, OwnSetups, HostedSetups
<1>6. /\ home' = [config |-> config, state |-> home.state, account |-> home.account]
      /\ home' \in Homes
  BY <1>2, <1>3, HomeRecord DEF SetupInv, SaveConfig, Homes
<1>7. home.account = None
  BY <1>1 DEF SetupInv, EnrolmentIsTheConfigs
<1>8. SetupTypes'
  <2>1. worked' \in Profiles \cup Accounts \cup {None}
    BY <1>1 DEF SetupInv, SetupTypes, SetupTypeOK
  <2> QED BY <1>1, <1>4, <1>5, <1>6, <2>1 DEF SetupInv, SetupTypes, SetupTypeOK
<1>9. AnswersSoFar' /\ EnrolmentIsTheConfigs' /\ FilesAreOfOneProfile'
  BY <1>1, <1>4, <1>6, <1>7
     DEF SetupInv, AnswersSoFar, EnrolmentIsTheConfigs, FilesAreOfOneProfile
<1>10. SetupSoFar'
  <2>1. Config' = config
    BY <1>2, <1>4 DEF Config
  <2> QED BY <1>1, <1>4, <1>6, <2>1 DEF SetupInv, SetupSoFar
<1>11. CarriedIsTheHomes'
  BY <1>1, <1>4, <1>6 DEF SetupInv, CarriedIsTheHomes
<1>12. WorkedHasRecords'
  BY <1>1, <1>3, <1>4, <1>6 DEF SetupInv, WorkedHasRecords
<1> QED BY <1>8, <1>9, <1>10, <1>11, <1>12 DEF SetupInv

(* The setup ends, with the records written or without.                     *)
LEMMA SaveStateInv ==
    ASSUME SetupInv, SaveState
    PROVE  SetupInv'
<1>1. /\ setup.pc = "state" /\ setup' = Idle /\ wizard' = NoWizard
      /\ UNCHANGED <<vault, remote, worked, setups>>
      /\ cut' = IF setup.state = Fresh THEN "nothing" ELSE cut
  BY DEF SaveState, Ends
<1>2. /\ home' = [config |-> home.config, state |-> setup.state, account |-> home.account]
      /\ home.account = None
  BY <1>1, HomeRecord DEF SetupInv, SaveState, EnrolmentIsTheConfigs
<1>3. setup \in OwnSetups \/ setup \in HostedSetups
  BY <1>1, SetupRecord DEF SetupInv
<1>4. setup.state \in States
  <2>1. Fresh \in States
    BY DEF Fresh, States
  <2>2. setup.state = Fresh \/ setup.state \in States
    BY <1>3 DEF OwnSetups, HostedSetups
  <2> QED BY <2>1, <2>2
<1>5. home' \in Homes
  BY <1>2, <1>4, HomeRecord DEF SetupInv, Homes
<1>6. SetupTypes'
  BY <1>1, <1>5 DEF SetupInv, SetupTypes, SetupTypeOK, Idle
<1>7. AnswersSoFar' /\ EnrolmentIsTheConfigs'
  BY <1>1, <1>2 DEF AnswersSoFar, EnrolmentIsTheConfigs
<1>8. FilesAreOfOneProfile'
  <2>1. /\ home.config.profile = setup.profile
        /\ home.config.keyring => setup.profile \in vault
    BY <1>1 DEF SetupInv, SetupSoFar, Config
  <2>2. setup.state # NoFile /\ (cut' = "nothing" => setup.state.owners \subseteq {setup.profile})
    BY <1>1, <1>4, FilesAreThere DEF SetupInv, CarriedIsTheHomes, Fresh
  <2> QED BY <1>1, <1>2, <2>1, <2>2 DEF FilesAreOfOneProfile
<1>9. SetupSoFar' /\ CarriedIsTheHomes'
  BY <1>1 DEF SetupSoFar, CarriedIsTheHomes, Idle
<1>10. WorkedHasRecords'
  BY <1>1, <1>2 DEF SetupInv, WorkedHasRecords, Idle
<1> QED BY <1>6, <1>7, <1>8, <1>9, <1>10 DEF SetupInv

LEMMA FailsInv ==
    ASSUME SetupInv, ConfigFails \/ Stops
    PROVE  SetupInv'
<1>1. /\ setup' = Idle /\ wizard' = NoWizard /\ UNCHANGED <<home, remote, worked, setups>>
      /\ \/ vault' = vault /\ cut' = IF setup.pc = "state" THEN "state" ELSE cut
         \/ cut' = "config" /\ vault' \subseteq vault
  BY DEF ConfigFails, Stops, Ends
<1>2. SetupTypes'
  BY <1>1 DEF SetupInv, SetupTypes, SetupTypeOK, Idle
<1>3. AnswersSoFar' /\ EnrolmentIsTheConfigs' /\ FilesAreOfOneProfile'
  BY <1>1 DEF SetupInv, AnswersSoFar, EnrolmentIsTheConfigs, FilesAreOfOneProfile, Idle
<1>4. SetupSoFar' /\ CarriedIsTheHomes' /\ WorkedHasRecords'
  BY <1>1 DEF SetupInv, SetupSoFar, CarriedIsTheHomes, WorkedHasRecords, Idle
<1> QED BY <1>2, <1>3, <1>4 DEF SetupInv

(* What the home is used for in between.                                    *)
LEMMA UseInv ==
    ASSUME SetupInv, Work \/ Enrol
    PROVE  SetupInv'
<1>1. /\ setup.pc = "idle" /\ home.config # NoFile
      /\ UNCHANGED <<vault, wizard, setup, cut, setups>>
  BY DEF Work, Enrol
<1>2. home.config \in Configs /\ home.config.profile \in Owners
  BY <1>1, HomeRecord DEF SetupInv, Configs, Owners
<1>3. ASSUME Work PROVE SetupInv'
  <2>1. PICK state : state = [owners |-> home.state.owners \cup {home.config.profile},
                              sessions |-> TRUE]
    OBVIOUS
  <2>2. home' = [config |-> home.config, state |-> state, account |-> home.account]
    BY <1>3, <2>1, HomeRecord DEF SetupInv, Work
  <2>3. home.state \in States /\ worked' = home.config.profile
        /\ remote' = remote \cup {home.config.profile}
    BY <1>3, HomeRecord DEF SetupInv, Work
  <2>4. state \in States /\ home' \in Homes
    BY <1>2, <2>1, <2>2, <2>3, HomeRecord DEF SetupInv, States, Homes
  <2>5. SetupTypes'
    BY <1>1, <1>2, <2>3, <2>4 DEF SetupInv, SetupTypes, SetupTypeOK, Owners
  <2>6. AnswersSoFar' /\ EnrolmentIsTheConfigs'
    BY <1>1, <2>2 DEF SetupInv, AnswersSoFar, EnrolmentIsTheConfigs
  <2>7. FilesAreOfOneProfile'
    BY <1>1, <2>1, <2>2, <2>4, FilesAreThere DEF SetupInv, FilesAreOfOneProfile
  <2>8. SetupSoFar' /\ CarriedIsTheHomes' /\ WorkedHasRecords'
    BY <1>1, <2>1, <2>2, <2>3, <2>4, FilesAreThere
       DEF SetupInv, SetupSoFar, CarriedIsTheHomes, WorkedHasRecords
  <2> QED BY <2>5, <2>6, <2>7, <2>8 DEF SetupInv
<1>4. ASSUME Enrol PROVE SetupInv'
  <2>1. /\ home.config.hosted /\ UNCHANGED <<remote, worked>>
        /\ home' = [config |-> home.config, state |-> home.state,
                    account |-> home.config.profile]
    BY <1>4, HomeRecord DEF SetupInv, Enrol
  <2>2. home' \in Homes
    BY <1>2, <2>1, HomeRecord DEF SetupInv, Homes, Configs
  <2>3. SetupTypes'
    BY <1>1, <2>1, <2>2 DEF SetupInv, SetupTypes, SetupTypeOK
  <2>4. AnswersSoFar' /\ EnrolmentIsTheConfigs' /\ FilesAreOfOneProfile'
    BY <1>1, <2>1 DEF SetupInv, AnswersSoFar, EnrolmentIsTheConfigs, FilesAreOfOneProfile
  <2>5. SetupSoFar' /\ CarriedIsTheHomes' /\ WorkedHasRecords'
    BY <1>1, <2>1 DEF SetupInv, SetupSoFar, CarriedIsTheHomes, WorkedHasRecords
  <2> QED BY <2>3, <2>4, <2>5 DEF SetupInv
<1> QED BY <1>3, <1>4

LEMMA SetupStepInv == SetupInv /\ [SetupNext]_setupVars => SetupInv'
<1>1. ASSUME SetupInv, SetupNext PROVE SetupInv'
  <2>1. \/ \E profile \in Profiles \cup {None} :
              BeginFlags(profile) \/ \E paste \in BOOLEAN : BeginWizard(profile, paste)
        \/ \E account \in Accounts : BeginHosted(account)
        \/ \E p \in Providers : SelectProvider(p)
        \/ \E text \in Texts \cup Templates : Edit(text)
        \/ ToggleJoin \/ Back \/ Advance \/ CancelWizard
        \/ ProbeStore \/ Provision \/ Backup \/ StoreCredentials
        \/ SaveConfig \/ ConfigFails \/ SaveState \/ Stops \/ Work \/ Enrol
    BY <1>1, Zenon DEF SetupNext
  <2> QED BY <1>1, <2>1, BeginInv, EditsInv, MovesInv, StoreInv, BackupInv, CredentialsInv,
             SaveConfigInv, SaveStateInv, FailsInv, UseInv
<1>2. ASSUME SetupInv, UNCHANGED setupVars PROVE SetupInv'
  BY <1>2 DEF setupVars, SetupInv, SetupTypes, SetupTypeOK, AnswersSoFar, SetupSoFar, Config,
              EnrolmentIsTheConfigs, FilesAreOfOneProfile, CarriedIsTheHomes, WorkedHasRecords
<1> QED BY <1>1, <1>2

(* The invariant says what SetupIsWhole says.                               *)
LEMMA SetupInvIsWhole == SetupInv => SetupIsWhole
<1> SUFFICES ASSUME SetupInv PROVE SetupIsWhole
  OBVIOUS
<1>1. ReviewIsValid
  <2> SUFFICES ASSUME wizard # NoWizard, Step = "review", NEW f \in Fields
               PROVE  (f = "id" /\ ~ wizard.join) \/ wizard.value[f] = <<"good">>
    BY DEF ReviewIsValid
  <2>1. wizard \in Wizards /\ wizard.step \in 1..6
    BY WizardRecord DEF SetupInv, Wizards
  <2>2. wizard.step = 6
    BY <2>1, StepNames DEF Step
  <2>3. /\ wizard.value["endpoint"] = <<"good">> /\ wizard.value["bucket"] = <<"good">>
        /\ wizard.join => wizard.value["id"] = <<"good">>
    BY <2>2 DEF SetupInv, AnswersSoFar
  <2> QED BY <2>3 DEF Fields
<1>2. HomeIsOfOneProfile
  BY DEF SetupInv, EnrolmentIsTheConfigs, FilesAreOfOneProfile, HomeIsOfOneProfile
<1>3. RecordsKept
  <2> SUFFICES ASSUME home.config # NoFile, home.config.hosted, worked = home.config.profile
               PROVE  home.state # NoFile /\ home.state.sessions
    BY DEF RecordsKept
  <2>1. worked # None
    BY HomeRecord, SetupAssumption DEF SetupInv, Configs
  <2> QED BY <2>1 DEF SetupInv, WorkedHasRecords
<1>4. SetupTypeOK
  BY DEF SetupInv, SetupTypes
<1> QED BY <1>1, <1>2, <1>3, <1>4 DEF SetupIsWhole

------------------------------------------------------------------------------
(* The list decides what comes next, and touches no dialog.                 *)
LEMMA ListDecides ==
    ASSUME ListNext
    PROVE  \/ UNCHANGED <<screen, intent>>
           \/ /\ screen = "list"
              /\ screen' \in SessionActions \cup {"command", "end"}
<1>1. ASSUME NEW action, NEW key, Quit(action, key),
             action \in SessionActions \cup {"command", "none"}
      PROVE  screen' \in SessionActions \cup {"command", "end"}
  BY <1>1 DEF Quit
<1>2. ASSUME NEW action \in SessionActions, NEW l, Choose(action, l)
      PROVE  UNCHANGED <<screen, intent>> \/ screen' \in SessionActions \cup {"command", "end"}
  BY <1>1, <1>2 DEF Choose, Stay
<1>3. ASSUME NEW l, Reload(l) \/ ToggleScope(l) PROVE UNCHANGED <<screen, intent>>
  BY <1>3 DEF Reload, ToggleScope, Stay
<1>4. ASSUME Cancel PROVE screen' \in SessionActions \cup {"command", "end"}
  BY <1>1, <1>4 DEF Cancel
<1>5. CASE \E s \in Sessions : ProbeStarts(s) \/ ProbeEnds(s) \/ IndexChanges(s)
  BY <1>5 DEF ProbeStarts, ProbeEnds, IndexChanges
<1>6. CASE (\E d \in loads : LoadReads(d) \/ Loaded(d)) \/ Probed
  BY <1>6 DEF LoadReads, Loaded, Probed
<1>7. CASE Escape \/ Kill
  BY <1>3, <1>4, <1>7 DEF Escape, Kill, Press
<1>8. CASE Type \/ Backspace \/ Refresh
  BY <1>3, <1>8 DEF Type, Backspace, Refresh
<1>9. CASE Arrow \/ HomeEnd \/ \E h \in Heights : Resize(h)
  BY <1>9 DEF Arrow, HomeEnd, Resize, MoveTo, JumpTo, Stay
<1>10. CASE Enter
  <2>1. "resume" \in SessionActions
    BY DEF SessionActions
  <2> QED BY <1>2, <1>10, <2>1 DEF Enter, Press
<1>11. CASE Scope \/ Tab \/ OpenPalette \/ CloseMenu
  BY <1>3, <1>11 DEF Scope, Tab, OpenPalette, CloseMenu, Stay
<1>12. CASE Pick
  <2>1. screen = "list"
    BY <1>12 DEF Pick, Press
  <2> QED BY <1>1, <1>2, <1>3, <1>4, <1>12, <2>1 DEF Pick
<1> QED BY <1>5, <1>6, <1>7, <1>8, <1>9, <1>10, <1>11, <1>12 DEF ListNext

LEMMA DialogsInitInv == ListInit /\ DialogsInit => DialogsInv
<1> SUFFICES ASSUME ListInit, DialogsInit PROVE DialogsInv
  OBVIOUS
<1>1. screen = "list" /\ checklist = NoChecklist
  BY DEF ListInit, DialogsInit
<1>2. TicksAreTouched
  BY <1>1 DEF TicksAreTouched, NoChecklist
<1> QED BY <1>1, <1>2
        DEF DialogsInv, StudioTypes, AcknowledgedWasShown, HandedWasShown

(* A step that leaves the dialogs, and what was handed on, as they are.     *)
LEMMA DialogsUnchanged ==
    ASSUME DialogsInv, UNCHANGED <<screen, intent, dialogVars>>
    PROVE  DialogsInv'
<1>1. UNCHANGED <<checklist, studio, planner, said, last>>
  BY DEF dialogVars
<1>2. TicksAreTouched'
  BY <1>1 DEF DialogsInv, TicksAreTouched
<1>3. StudioTypes'
  BY <1>1 DEF DialogsInv, StudioTypes
<1>4. AcknowledgedWasShown' /\ HandedWasShown'
  BY <1>1 DEF DialogsInv, AcknowledgedWasShown, HandedWasShown, Ready, Warnings, Selection
<1> QED BY <1>2, <1>3, <1>4 DEF DialogsInv

LEMMA ListStepKeepsDialogs ==
    ASSUME DialogsInv, ListNext, UNCHANGED dialogVars
    PROVE  DialogsInv'
<1>1. CASE UNCHANGED <<screen, intent>>
  BY <1>1, DialogsUnchanged
<1>2. CASE screen = "list" /\ screen' \in SessionActions \cup {"command", "end"}
  BY <1>2 DEF DialogsInv, dialogVars, TicksAreTouched, StudioTypes, AcknowledgedWasShown,
              HandedWasShown, SessionActions
<1> QED BY <1>1, <1>2, ListDecides

------------------------------------------------------------------------------
(* The checklist.                                                           *)
LEMMA ChecklistInv ==
    ASSUME DialogsInv, screen' \notin {"studio", "handed"},
           NEW checks, NEW ticked, NEW touched,
           checklist' = [checks |-> checks, ticked |-> ticked, touched |-> touched],
           ticked \subseteq touched, screen' \in {"checklist", "launched", "end"},
           screen' = "launched" => ticked = PF!WarningIDs(checks)
    PROVE  DialogsInv'
  BY DEF DialogsInv, TicksAreTouched, StudioTypes, AcknowledgedWasShown, HandedWasShown

LEMMA ChecklistStepInv ==
    ASSUME DialogsInv,
           \/ SessionIsGone \/ OtherCommand \/ Decline
           \/ \E checks \in Environments : LooksAround(checks)
           \/ \E w \in PF!WarningIDs(checklist.checks) : Tick(w)
           \/ TickAll \/ ConfirmChecklist
    PROVE  DialogsInv'
<1>1. /\ checklist = [checks |-> checklist.checks, ticked |-> checklist.ticked,
                      touched |-> checklist.touched]
      /\ checklist.ticked \subseteq checklist.touched
  BY DEF DialogsInv, TicksAreTouched
<1>2. CASE SessionIsGone \/ OtherCommand \/ Decline
  <2>1. screen' = "end" /\ checklist' = checklist
    BY <1>2 DEF SessionIsGone, OtherCommand, Decline, Enters, dialogVars
  <2> QED BY <1>1, <2>1, ChecklistInv
<1>3. ASSUME NEW checks \in Environments, LooksAround(checks) PROVE DialogsInv'
  <2>1. CASE PF!Authorize(checks, {}) = "safety" /\ PF!Blockers(checks) = {}
    <3>1. /\ screen' = "checklist"
          /\ checklist' = [checks |-> checks, ticked |-> {}, touched |-> {}]
      BY <1>3, <2>1 DEF LooksAround, Enters, NewChecklist
    <3> QED BY <3>1, ChecklistInv
  <2>2. CASE ~ (PF!Authorize(checks, {}) = "safety" /\ PF!Blockers(checks) = {})
    <3>1. screen' \in {"launched", "end"} /\ checklist' = checklist
      BY <1>3, <2>2 DEF LooksAround, Enters, dialogVars
    <3>2. checklist = [checks |-> {}, ticked |-> {}, touched |-> {}]
      BY <1>3 DEF DialogsInv, TicksAreTouched, LooksAround, NoChecklist
    <3>3. PF!WarningIDs({}) = {}
      BY DEF PF!WarningIDs
    <3> QED BY <3>1, <3>2, <3>3, ChecklistInv
  <2> QED BY <2>1, <2>2
<1>4. ASSUME NEW w \in PF!WarningIDs(checklist.checks), Tick(w) PROVE DialogsInv'
  <2>1. PICK ticked : ticked = IF w \in checklist.ticked THEN checklist.ticked \ {w}
                               ELSE checklist.ticked \cup {w}
    OBVIOUS
  <2>2. /\ screen' = "checklist"
        /\ checklist' = [checks |-> checklist.checks, ticked |-> ticked,
                         touched |-> checklist.touched \cup {w}]
    BY <1>1, <1>4, <2>1 DEF Tick, PressIn, Still
  <2>3. ticked \subseteq checklist.touched \cup {w}
    BY <1>1, <2>1
  <2> QED BY <2>2, <2>3, ChecklistInv
<1>5. CASE TickAll
  <2>1. PICK all : all = PF!WarningIDs(checklist.checks)
    OBVIOUS
  <2>2. PICK ticked : ticked = IF checklist.ticked = all THEN {} ELSE all
    OBVIOUS
  <2>3. /\ screen' = "checklist"
        /\ checklist' = [checks |-> checklist.checks, ticked |-> ticked, touched |-> all]
    BY <1>1, <1>5, <2>1, <2>2 DEF TickAll, PressIn, Still
  <2>4. ticked \subseteq all
    BY <2>2
  <2> QED BY <2>3, <2>4, ChecklistInv
<1>6. CASE ConfirmChecklist
  <2>1. /\ screen' \in {"launched", "end"} /\ checklist' = checklist
        /\ checklist.ticked = PF!WarningIDs(checklist.checks)
    BY <1>6 DEF ConfirmChecklist
  <2> QED BY <1>1, <2>1, ChecklistInv
<1> QED BY <1>2, <1>3, <1>4, <1>5, <1>6

------------------------------------------------------------------------------
(* The studio.                                                              *)

(* The destinations are those of the catalogue but for one.                 *)
LEMMA WithoutType ==
    ASSUME NEW agent
    PROVE  /\ Len(Without(agent)) \in Nat
           /\ DOMAIN Without(agent) = 1..Len(Without(agent))
           /\ Without(agent) # <<>> => Len(Without(agent)) >= 1
<1>1. PICK kept : kept = {i \in DOMAIN Receivers : Receivers[i] # agent}
  OBVIOUS
<1>3. DOMAIN Receivers = 1..Len(Receivers) /\ Len(Receivers) \in Nat
  BY StudioAssumption
<1>4. IsFiniteSet(kept)
  BY <1>1, <1>3, FS_Interval, FS_Subset, 1 \in Int, Len(Receivers) \in Int
<1>5. Cardinality(kept) \in Nat
  BY <1>4, FS_CardinalityType
<1>6. PICK k \in Nat : k = Cardinality(kept)
  BY <1>5
<1>7. PICK nth : Without(agent) = [n \in 1..k |-> Receivers[nth[n]]]
  <2> DEFINE at(n) == CHOOSE i \in kept : Cardinality({j \in kept : j <= i}) = n
  <2>1. Without(agent) = [n \in 1..Cardinality(kept) |-> Receivers[at(n)]]
    BY <1>1 DEF Without
  <2> HIDE DEF at
  <2>2. Without(agent) = [n \in 1..k |-> Receivers[at(n)]]
    BY <1>6, <2>1
  <2>3. \A n \in 1..k : [m \in 1..k |-> at(m)][n] = at(n)
    OBVIOUS
  <2>4. Without(agent) = [n \in 1..k |-> Receivers[[m \in 1..k |-> at(m)][n]]]
    BY <2>2, <2>3
  <2> QED BY <2>4
<1>8. PICK to : to = [n \in 1..k |-> Receivers[nth[n]]]
  OBVIOUS
<1>9. to \in Seq({to[n] : n \in 1..k}) /\ Len(to) = k /\ DOMAIN to = 1..k
  BY <1>8
<1>10. to # <<>> => k >= 1
  <2> SUFFICES ASSUME k = 0 PROVE to = <<>>
    OBVIOUS
  <2> QED BY <1>9
<1> QED BY <1>7, <1>8, <1>9, <1>10

(* What a step in the studio finds, and what it has to keep.                *)
LEMMA InTheStudio ==
    ASSUME DialogsInv, screen = "studio"
    PROVE  /\ studio = [to |-> studio.to, destination |-> studio.destination,
                        policy |-> studio.policy, acknowledged |-> studio.acknowledged,
                        export |-> studio.export]
           /\ studio.destination \in 1..Len(studio.to) /\ studio.policy \in 1..Len(Policies)
           /\ studio.acknowledged \in BOOLEAN /\ studio.export = FALSE
           /\ DOMAIN studio.to = 1..Len(studio.to) /\ Len(studio.to) \in Nat
           /\ planner = [made |-> planner.made, pending |-> planner.pending]
           /\ planner.pending \cap DOMAIN planner.made = {}
           /\ said = [p \in Selections(studio.to) |-> said[p]]
           /\ checklist = NoChecklist
  BY DEF DialogsInv, StudioTypes, TicksAreTouched, AcknowledgedWasShown

LEMMA StudioInv ==
    ASSUME screen' = "studio", checklist' = NoChecklist, StudioTypes', AcknowledgedWasShown'
    PROVE  DialogsInv'
  BY DEF DialogsInv, TicksAreTouched, HandedWasShown, NoChecklist

LEMMA SelectionType ==
    ASSUME DialogsInv, screen = "studio"
    PROVE  Selection \in Selections(studio.to)
<1>1. /\ studio.destination \in DOMAIN studio.to /\ studio.policy \in DOMAIN Policies
  BY InTheStudio, StudioAssumption
<1> QED BY <1>1 DEF Selection, Selections

(* A preview is of another selection than the one that is acknowledged.     *)
LEMMA ShownOfSelection ==
    ASSUME DialogsInv, screen = "studio", studio.acknowledged
    PROVE  /\ Selection \in DOMAIN planner.made
           /\ said[Selection] = IF ~ planner.made[Selection].failed
                                THEN planner.made[Selection].warnings ELSE {}
  BY DEF DialogsInv, AcknowledgedWasShown, Ready, Warnings

LEMMA OpenStudioInv ==
    ASSUME DialogsInv, OpenStudio
    PROVE  DialogsInv'
<1>1. PICK to : to = Without(AgentOf[intent.key])
  OBVIOUS
<1>2. /\ screen = "handoff" /\ checklist = NoChecklist
  BY DEF OpenStudio, DialogsInv, TicksAreTouched
<1>3. CASE to = <<>>
  <2>1. screen' = "end" /\ checklist' = checklist
    BY <1>1, <1>3 DEF OpenStudio, Enters, dialogVars
  <2> QED BY <1>2, <2>1, ChecklistInv DEF NoChecklist
<1>4. CASE to # <<>>
  <2>1. PICK first : first = <<to[1], Policies[1]>>
    OBVIOUS
  <2>2. PICK none : none = [p \in Selections(to) |-> {}]
    OBVIOUS
  <2>3. /\ screen' = "studio" /\ checklist' = checklist
        /\ studio' = [NoStudio EXCEPT !.to = to]
        /\ planner' = [NoPlanner EXCEPT !.pending = {first}]
        /\ said' = none
    BY <1>1, <1>4, <2>1, <2>2 DEF OpenStudio, Enters, Selections
  <2>4. /\ DOMAIN to = 1..Len(to) /\ Len(to) \in Nat /\ 1 \in 1..Len(to)
    BY <1>1, <1>4, WithoutType
  <2>5. 1 \in 1..Len(Policies)
    BY StudioAssumption
  <2>6. /\ studio'.to = to /\ studio'.destination = 1 /\ studio'.policy = 1
        /\ studio'.acknowledged = FALSE /\ studio'.export = FALSE
    BY <2>3 DEF NoStudio
  <2>7. studio' = [to |-> studio'.to, destination |-> studio'.destination,
                   policy |-> studio'.policy, acknowledged |-> studio'.acknowledged,
                   export |-> studio'.export]
    BY <2>3 DEF NoStudio
  <2>8. /\ planner' = [made |-> planner'.made, pending |-> planner'.pending]
        /\ planner'.made = <<>>
    BY <2>3 DEF NoPlanner
  <2>9. said' = [p \in Selections(to) |-> said'[p]]
    BY <2>2, <2>3
  <2>10. StudioTypes'
    BY <2>4, <2>5, <2>6, <2>7, <2>8, <2>9 DEF StudioTypes
  <2>11. AcknowledgedWasShown'
    BY <2>6, <2>8 DEF AcknowledgedWasShown
  <2> QED BY <1>2, <2>3, <2>10, <2>11, StudioInv
<1> QED BY <1>3, <1>4

LEMMA PreviewedInv ==
    ASSUME DialogsInv, NEW pair \in planner.pending, Previewed(pair)
    PROVE  DialogsInv'
<1>1. screen = "studio" /\ UNCHANGED <<screen, checklist, studio, said>>
  BY DEF Previewed, Still
<1>2. PICK preview :
         planner' = [made |-> [p \in DOMAIN planner.made \cup {pair} |->
                                  IF p = pair THEN preview ELSE planner.made[p]],
                     pending |-> planner.pending \ {pair}]
  BY DEF Previewed
<1>3. PICK made : made = [p \in DOMAIN planner.made \cup {pair} |->
                             IF p = pair THEN preview ELSE planner.made[p]]
  OBVIOUS
<1>4. planner' = [made |-> made, pending |-> planner.pending \ {pair}]
  BY <1>2, <1>3
<1>5. planner.pending \cap DOMAIN planner.made = {}
  BY <1>1, InTheStudio
<1>6. \A p \in DOMAIN planner.made : p \in DOMAIN made /\ made[p] = planner.made[p]
  BY <1>3, <1>5
<1>7. /\ planner' = [made |-> planner'.made, pending |-> planner'.pending]
      /\ planner'.made = made /\ planner'.pending = planner.pending \ {pair}
      /\ planner'.pending \cap DOMAIN planner'.made = {}
  BY <1>3, <1>4, <1>5
<1>8. StudioTypes'
  BY <1>1, <1>7 DEF DialogsInv, StudioTypes
<1>9. AcknowledgedWasShown'
  <2> SUFFICES ASSUME studio.acknowledged
               PROVE  Ready(Selection)' /\ said'[Selection'] = Warnings(Selection)'
    BY <1>1, <1>7 DEF AcknowledgedWasShown
  <2>1. PICK shown : shown = Selection
    OBVIOUS
  <2>2. /\ shown \in DOMAIN planner.made
        /\ said[shown] = IF ~ planner.made[shown].failed
                         THEN planner.made[shown].warnings ELSE {}
    BY <1>1, <2>1, ShownOfSelection
  <2>3. Selection' = shown
    BY <1>1, <2>1 DEF Selection
  <2>4. Ready(shown)' /\ said'[shown] = Warnings(shown)'
    BY <1>1, <1>6, <1>7, <2>2 DEF Ready, Warnings
  <2> QED BY <2>3, <2>4 DEF Ready, Warnings
<1> QED BY <1>1, <1>8, <1>9, InTheStudio, StudioInv

(* Keys in the studio.                                                      *)
LEMMA WrapType == ASSUME NEW i \in Int, NEW n \in Nat \ {0} PROVE Wrap(i, n) \in 1..n
  BY DEF Wrap

LEMMA CyclesInv ==
    ASSUME DialogsInv, NEW d \in 1..Len(studio.to), NEW p \in 1..Len(Policies), Cycle(d, p)
    PROVE  DialogsInv'
<1>1. screen = "studio" /\ UNCHANGED <<screen, checklist, said>>
  BY DEF Cycle, PressIn, Still
<1>2. studio' = [studio EXCEPT !.destination = d, !.policy = p, !.acknowledged = FALSE]
  BY DEF Cycle, Select
<1>3. /\ studio'.to = studio.to /\ studio'.destination = d /\ studio'.policy = p
      /\ studio'.acknowledged = FALSE /\ studio'.export = FALSE
  BY <1>1, <1>2, InTheStudio
<1>4. studio' = [to |-> studio'.to, destination |-> studio'.destination,
                 policy |-> studio'.policy, acknowledged |-> studio'.acknowledged,
                 export |-> studio'.export]
  BY <1>1, <1>2, InTheStudio
<1>5. PICK pair : pair = <<studio.to[d], Policies[p]>>
  OBVIOUS
<1>6. PICK pending : pending = IF pair \in DOMAIN planner.made THEN planner.pending
                               ELSE planner.pending \cup {pair}
  OBVIOUS
<1>7. planner' = [planner EXCEPT !.pending = pending]
  BY <1>5, <1>6 DEF Cycle, Compute, Ready
<1>8. /\ planner' = [made |-> planner'.made, pending |-> planner'.pending]
      /\ planner'.made = planner.made /\ planner'.pending = pending
  BY <1>1, <1>7, InTheStudio
<1>9. pending \cap DOMAIN planner.made = {}
  BY <1>1, <1>6, InTheStudio
<1>10. StudioTypes'
  BY <1>1, <1>3, <1>4, <1>8 DEF DialogsInv, StudioTypes
<1>11. AcknowledgedWasShown'
  BY <1>3, <1>8, <1>9 DEF AcknowledgedWasShown
<1> QED BY <1>1, <1>10, <1>11, InTheStudio, StudioInv

LEMMA CycleInv ==
    ASSUME DialogsInv, screen = "studio", NEW delta \in {1, -1},
           CyclePolicy(delta) \/ CycleDestination(delta)
    PROVE  DialogsInv'
<1>1. /\ studio.destination \in 1..Len(studio.to) /\ studio.policy \in 1..Len(Policies)
      /\ Len(studio.to) \in Nat
  BY InTheStudio
<1>2. Len(Policies) \in Nat
  BY StudioAssumption
<1>3. CASE CyclePolicy(delta)
  <2>1. studio.policy + delta \in Int /\ Len(Policies) \in Nat \ {0}
    BY <1>1, <1>2
  <2>2. Wrap(studio.policy + delta, Len(Policies)) \in 1..Len(Policies)
    BY <2>1, WrapType
  <2> QED BY <1>1, <1>3, <2>2, CyclesInv DEF CyclePolicy
<1>4. CASE CycleDestination(delta)
  <2>1. studio.destination + delta \in Int /\ Len(studio.to) \in Nat \ {0}
    BY <1>1
  <2>2. Wrap(studio.destination + delta, Len(studio.to)) \in 1..Len(studio.to)
    BY <2>1, WrapType
  <2> QED BY <1>1, <1>4, <2>2, CyclesInv DEF CycleDestination
<1> QED BY <1>3, <1>4

LEMMA AcknowledgeInv ==
    ASSUME DialogsInv, Acknowledge
    PROVE  DialogsInv'
<1>1. screen = "studio" /\ UNCHANGED <<screen, checklist, planner>>
  BY DEF Acknowledge, PressIn, Still
<1>2. PICK yes \in BOOLEAN : yes = ~ studio.acknowledged
  OBVIOUS
<1>3. PICK pair : pair = Selection
  OBVIOUS
<1>4. PICK shown : shown = Warnings(Selection)
  OBVIOUS
<1>5. shown # {} /\ studio' = [studio EXCEPT !.acknowledged = yes]
  BY <1>2, <1>4 DEF Acknowledge
<1>6. /\ studio'.to = studio.to /\ studio'.destination = studio.destination
      /\ studio'.policy = studio.policy /\ studio'.acknowledged = yes
      /\ studio'.export = FALSE
  BY <1>1, <1>5, InTheStudio
<1>7. studio' = [to |-> studio'.to, destination |-> studio'.destination,
                 policy |-> studio'.policy, acknowledged |-> studio'.acknowledged,
                 export |-> studio'.export]
  BY <1>1, <1>5, InTheStudio
<1>8. PICK words : words = IF yes THEN shown ELSE {}
  OBVIOUS
<1>9. said' = [said EXCEPT ![pair] = words]
  BY <1>1, <1>2, <1>3, <1>4, <1>8, InTheStudio DEF Acknowledge
<1>10. DOMAIN said = Selections(studio.to) /\ pair \in Selections(studio.to)
  BY <1>1, <1>3, InTheStudio, SelectionType
<1>11. said' = [q \in Selections(studio.to) |-> said'[q]] /\ said'[pair] = words
  BY <1>9, <1>10
<1>12. StudioTypes'
  BY <1>1, <1>6, <1>7, <1>11 DEF DialogsInv, StudioTypes, Selections
<1>13. Ready(pair) /\ Warnings(pair) = shown
  BY <1>3, <1>4, <1>5 DEF Warnings
<1>14. AcknowledgedWasShown'
  <2>1. Selection' = pair
    BY <1>3, <1>6 DEF Selection
  <2>2. Ready(pair)' /\ Warnings(pair)' = shown
    BY <1>1, <1>13 DEF Ready, Warnings
  <2>3. Ready(Selection)' /\ Warnings(Selection)' = shown
    BY <2>1, <2>2 DEF Ready, Warnings
  <2>4. yes => said'[Selection'] = shown
    BY <1>8, <1>11, <2>1
  <2>5. planner.pending \cap DOMAIN planner.made = {}
    BY <1>1, InTheStudio
  <2> QED BY <1>1, <1>6, <2>3, <2>4, <2>5 DEF AcknowledgedWasShown
<1> QED BY <1>1, <1>12, <1>14, InTheStudio, StudioInv

LEMMA SendInv ==
    ASSUME DialogsInv, NEW key \in {"launch", "export"}, screen = "studio", Send(key)
    PROVE  DialogsInv'
<1>1. UNCHANGED <<checklist, planner, said>> /\ last' = key
  BY DEF Send
<1>2. /\ checklist' = NoChecklist /\ studio.export = FALSE
      /\ studio = [to |-> studio.to, destination |-> studio.destination,
                   policy |-> studio.policy, acknowledged |-> studio.acknowledged,
                   export |-> studio.export]
  BY <1>1, InTheStudio
<1>3. CASE \/ Ready(Selection) /\ planner.made[Selection].failed
           \/ Warnings(Selection) # {} /\ ~ studio.acknowledged
  <2>1. UNCHANGED <<screen, intent>> /\ studio' = [studio EXCEPT !.export = FALSE]
    BY <1>3 DEF Send, Refuse, Still
  <2>2. studio' = studio
    BY <1>2, <2>1
  <2>3. TicksAreTouched' /\ StudioTypes'
    BY <1>1, <2>1, <2>2 DEF DialogsInv, TicksAreTouched, StudioTypes
  <2>4. AcknowledgedWasShown' /\ HandedWasShown'
    BY <1>1, <2>1, <2>2
       DEF DialogsInv, AcknowledgedWasShown, HandedWasShown, Ready, Warnings, Selection
  <2> QED BY <2>3, <2>4 DEF DialogsInv
<1>4. CASE ~ (\/ Ready(Selection) /\ planner.made[Selection].failed
              \/ Warnings(Selection) # {} /\ ~ studio.acknowledged)
  <2>1. PICK pair : pair = Selection
    OBVIOUS
  <2>2. PICK shown : shown = Warnings(pair)
    OBVIOUS
  <2>3. PICK export \in BOOLEAN : export <=> key = "export"
    OBVIOUS
  <2>4. screen' = "handed" /\ studio' = [studio EXCEPT !.export = @ \/ key = "export"]
    BY <1>4 DEF Send
  <2>5. studio'.export = export
    BY <1>2, <2>3, <2>4
  <2>6. intent' = [action |-> "handoff", key |-> intent.key, selection |-> pair,
                   export |-> studio'.export,
                   acknowledged |-> IF studio.acknowledged THEN shown ELSE {}]
    BY <1>4, <2>1, <2>2 DEF Send
  <2>7. /\ intent'.selection = pair /\ intent'.export = export
        /\ intent'.acknowledged = IF studio.acknowledged THEN shown ELSE {}
    BY <2>5, <2>6
  <2>8. /\ studio.acknowledged => said[pair] = shown
        /\ ~ studio.acknowledged => shown = {}
    BY <1>4, <2>1, <2>2 DEF DialogsInv, AcknowledgedWasShown
  <2>9. Warnings(pair)' = shown
    BY <1>1, <2>2 DEF Warnings, Ready
  <2>10. Warnings(intent.selection)' = shown
    BY <2>7, <2>9 DEF Warnings, Ready
  <2>11. HandedWasShown'
    BY <1>1, <2>3, <2>7, <2>8, <2>10 DEF HandedWasShown
  <2>12. TicksAreTouched'
    BY <1>2, <2>4 DEF TicksAreTouched, NoChecklist
  <2> QED BY <2>4, <2>11, <2>12 DEF DialogsInv, StudioTypes, AcknowledgedWasShown
<1> QED BY <1>3, <1>4

LEMMA DialogsStepInv == DialogsInv /\ DialogsNext => DialogsInv'
<1> SUFFICES ASSUME DialogsInv, DialogsNext PROVE DialogsInv'
  OBVIOUS
<1>1. \/ SessionIsGone \/ OtherCommand \/ Decline
      \/ \E checks \in Environments : LooksAround(checks)
      \/ \E w \in PF!WarningIDs(checklist.checks) : Tick(w)
      \/ TickAll \/ ConfirmChecklist
      \/ OpenStudio
      \/ \E pair \in planner.pending : Previewed(pair)
      \/ \E delta \in {1, -1} :
            screen = "studio" /\ (CyclePolicy(delta) \/ CycleDestination(delta))
      \/ screen = "studio" /\ (Acknowledge \/ Send("launch") \/ Send("export"))
  BY Zenon DEF DialogsNext
<1> QED BY <1>1, ChecklistStepInv, OpenStudioInv, PreviewedInv, CycleInv, AcknowledgeInv, SendInv

(* The invariant says what DecisionIsWhatWasShown says.                     *)
LEMMA DialogsInvDecides == DialogsInv => DecisionIsWhatWasShown
  BY DEF DialogsInv, TicksAreTouched, HandedWasShown, DecisionIsWhatWasShown

------------------------------------------------------------------------------
(* The ids of sessions.                                                     *)
LEMMA IdFacts ==
    /\ D!Nobody \notin Ids
    /\ \A c \in Capsules : D!Pinned(c) \in Ids /\ D!Pinned(c) # D!Nobody
    /\ \A c, d : D!Pinned(c) = D!Pinned(d) => c = d
    /\ \A c, d : D!Bootstrap(c) = D!Bootstrap(d) => c = d
    /\ \A n, c : <<"drawn", n>> # D!Pinned(c)
    /\ \A c : /\ D!Bootstrap(c) # D!Nobody /\ D!Bootstrap(c) # <<"own">>
              /\ D!Bootstrap(c) # <<"preamble">>
<1>1. \A c : D!Pinned(c)[1] = "pinned" /\ D!Pinned(c)[2] = c /\ DOMAIN D!Pinned(c) = 1..2
  BY DEF D!Pinned
<1>2. \A c : D!Bootstrap(c)[2] = c /\ DOMAIN D!Bootstrap(c) = 1..2
  BY DEF D!Bootstrap
<1>3. /\ DOMAIN D!Nobody = 1..1 /\ DOMAIN <<"own">> = 1..1 /\ DOMAIN <<"preamble">> = 1..1
      /\ 2 \in 1..2 /\ 2 \notin 1..1
  BY DEF D!Nobody
<1>4. \A n : DOMAIN <<"drawn", n>> = 1..2 /\ <<"drawn", n>>[1] = "drawn"
  OBVIOUS
<1>5. D!Nobody \notin Ids
  BY <1>1, <1>3, <1>4 DEF Ids, D!Pinned
<1>6. \A c \in Capsules : D!Pinned(c) \in Ids
  BY DEF Ids, D!Pinned
<1>7. \A c \in Capsules : D!Pinned(c) # D!Nobody
  BY <1>5, <1>6
<1>8. \A n, c : <<"drawn", n>> # D!Pinned(c)
  BY <1>1, <1>4
<1>9. \A c : D!Bootstrap(c) # D!Nobody /\ D!Bootstrap(c) # <<"own">>
             /\ D!Bootstrap(c) # <<"preamble">>
  BY <1>2, <1>3
<1> QED BY <1>1, <1>2, <1>5, <1>6, <1>7, <1>8, <1>9

LEMMA PlanIdIs ==
    ASSUME NEW c \in Capsules
    PROVE  /\ D!PlanId(c) # D!Nobody <=> destination.agent \in D!Pinning
           /\ D!PlanId(c) # D!Nobody => D!PlanId(c) = D!Pinned(c)
           /\ D!PlanId(c) \in Ids \cup {D!Nobody}
  BY IdFacts DEF D!PlanId

(* There are more ids to draw than sessions.                                *)
LEMMA DrawnIsNew ==
    ASSUME IsFiniteSet(stored), Cardinality(stored) < MaxStored
    PROVE  /\ \E n \in Nat : D!Drawn = <<"drawn", n>>
           /\ \A s \in stored : s.id # D!Drawn
<1>1. MaxStored \in Nat
  BY DestinationsAssumption
<1>2. \E n \in 0..MaxStored : \A s \in stored : s.id # <<"drawn", n>>
  <2> SUFFICES ASSUME \A n \in 0..MaxStored : \E s \in stored : s.id = <<"drawn", n>>
               PROVE  FALSE
    OBVIOUS
  <2> DEFINE f == [n \in 0..MaxStored |-> CHOOSE s \in stored : s.id = <<"drawn", n>>]
  <2>1. \A n \in 0..MaxStored : f[n] \in stored /\ f[n].id = <<"drawn", n>>
    OBVIOUS
  <2>2. f \in [0..MaxStored -> stored]
    BY <2>1
  <2>3. IsFiniteSet(0..MaxStored) /\ Cardinality(0..MaxStored) = MaxStored + 1
    BY <1>1, FS_Interval
  <2>4. Cardinality(stored) < Cardinality(0..MaxStored)
    BY <1>1, <2>3, FS_CardinalityType
  <2> HIDE DEF f
  <2>5. PICK m, n \in 0..MaxStored : m # n /\ f[m] = f[n]
    BY <2>2, <2>3, <2>4, FS_PigeonHole
  <2>6. <<"drawn", m>> = <<"drawn", n>>
    BY <2>1, <2>5
  <2> QED BY <2>5, <2>6
<1>3. /\ D!Drawn \in {<<"drawn", n>> : n \in 0..MaxStored}
      /\ \A s \in stored : s.id # D!Drawn
  <2>1. PICK m \in 0..MaxStored : \A s \in stored : s.id # <<"drawn", m>>
    BY <1>2
  <2>2. <<"drawn", m>> \in {<<"drawn", n>> : n \in 0..MaxStored}
    OBVIOUS
  <2> QED BY <2>1, <2>2 DEF D!Drawn
<1> QED BY <1>1, <1>3

(* The session of an id.                                                    *)
LEMMA FindIs ==
    ASSUME StoreTypes, NEW id, D!Exists(id)
    PROVE  D!Find(id) \in stored /\ D!Find(id).id = id
  BY DEF D!Find, D!Exists

------------------------------------------------------------------------------
(* What a session was asked first tells its capsule, once it is told all.   *)
LEMMA FirstTextIs ==
    ASSUME NEW s, NEW which, NEW i \in which, which \subseteq Nat, \A j \in which : i <= j
    PROVE  D!FirstText(s, which) = s.prompts[i].text
<1>1. PICK k : k = CHOOSE m \in which : \A j \in which : m <= j
  OBVIOUS
<1>2. k \in which /\ k <= i /\ i <= k
  BY <1>1
<1>3. k = i
  BY <1>2
<1> QED BY <1>1, <1>3 DEF D!FirstText

LEMMA FirstEventIs ==
    ASSUME NEW s, NEW i \in Nat, {j \in DOMAIN s.prompts : s.prompts[j].event} = {i}
    PROVE  D!FirstUserMessage(s) = s.prompts[i].text
<1>1. D!FirstUserMessage(s) = D!FirstText(s, {i})
  BY DEF D!FirstUserMessage
<1>2. D!FirstText(s, {i}) = s.prompts[i].text
  BY FirstTextIs
<1> QED BY <1>1, <1>2

LEMMA FirstItemIs ==
    ASSUME NEW s, {j \in DOMAIN s.prompts : s.prompts[j].event} = {},
           NEW n \in Nat \ {0}, DOMAIN s.prompts = 1..n
    PROVE  D!FirstUserMessage(s) = s.prompts[1].text
<1>1. D!FirstUserMessage(s) = D!FirstText(s, 1..n)
  BY DEF D!FirstUserMessage
<1>2. D!FirstText(s, 1..n) = s.prompts[1].text
  BY FirstTextIs, 1 \in 1..n
<1> QED BY <1>1, <1>2

LEMMA FirstMessageIs ==
    ASSUME NEW s, IsSession(s), NEW c \in Capsules
    PROVE  D!FirstUserMessage(s) = D!Bootstrap(c)
              <=> s.capsule = c /\ s.prompts = D!Told(c)
<1> DEFINE events == {i \in DOMAIN s.prompts : s.prompts[i].event}
           b(d) == D!Bootstrap(d)
<1>1. c # D!Nobody
  BY CapsulesAssumption
<1>2. CASE s.capsule = D!Nobody
  <2>1. s.prompts = <<D!Own>>
    BY <1>2 DEF IsSession
  <2>2. DOMAIN s.prompts = {1} /\ s.prompts[1] = D!Own
    BY <2>1
  <2>3. events = {1} /\ s.prompts[1].text = <<"own">>
    BY <2>2 DEF D!Own, D!Event
  <2>4. D!FirstUserMessage(s) = <<"own">>
    BY <2>3, FirstEventIs
  <2> QED BY <1>1, <1>2, <2>4, IdFacts
<1>3. CASE s.capsule # D!Nobody
  <2>1. PICK d \in Capsules : s.capsule = d /\ s.prompts \in Prefixes(d)
    BY <1>3 DEF IsSession
  <2>2. CASE s.prompts = <<>>
    <3>1. DOMAIN s.prompts = {} /\ events = {}
      BY <2>2
    <3>2. D!FirstUserMessage(s) = D!Nobody
      BY <3>1 DEF D!FirstUserMessage, D!FirstText
    <3>3. D!Told(c) # <<>>
      BY DEF D!Told
    <3> QED BY <2>2, <3>2, <3>3, IdFacts
  <2>3. CASE destination.agent = "codex" /\ s.prompts = <<D!Preamble>>
    <3> PICK n \in Nat \ {0} : n = 1
      OBVIOUS
    <3>1. DOMAIN s.prompts = 1..n /\ s.prompts[1] = D!Preamble
      BY <2>3
    <3>2. events = {} /\ s.prompts[1].text = <<"preamble">>
      BY <3>1 DEF D!Preamble
    <3>3. D!FirstUserMessage(s) = <<"preamble">>
      BY <3>1, <3>2, FirstItemIs
    <3>4. Len(D!Told(c)) = 3
      BY <2>3 DEF D!Told
    <3>5. s.prompts # D!Told(c)
      BY <2>3, <3>4
    <3> QED BY <3>3, <3>5, IdFacts
  <2>4. CASE destination.agent = "codex" /\ s.prompts = <<D!Preamble, Item(d)>>
    <3> PICK n \in Nat \ {0} : n = 2
      OBVIOUS
    <3>1. DOMAIN s.prompts = 1..n /\ s.prompts[1] = D!Preamble /\ s.prompts[2] = Item(d)
      BY <2>4
    <3>2. events = {} /\ s.prompts[1].text = <<"preamble">>
      BY <3>1 DEF D!Preamble, Item
    <3>3. D!FirstUserMessage(s) = <<"preamble">>
      BY <3>1, <3>2, FirstItemIs
    <3>4. Len(D!Told(c)) = 3
      BY <2>4 DEF D!Told
    <3>5. s.prompts # D!Told(c)
      BY <2>4, <3>4
    <3> QED BY <3>3, <3>5, IdFacts
  <2>5. CASE s.prompts = D!Told(d)
    <3>1. D!FirstUserMessage(s) = D!Bootstrap(d)
      <4>1. CASE destination.agent = "codex"
        <5>1. /\ DOMAIN s.prompts = {1, 2, 3} /\ s.prompts[1] = D!Preamble
              /\ s.prompts[2] = Item(d) /\ s.prompts[3] = D!Event(b(d))
          BY <2>5, <4>1 DEF D!Told, Item
        <5>2. events = {3} /\ s.prompts[3].text = b(d)
          BY <5>1 DEF D!Preamble, Item, D!Event
        <5> QED BY <5>2, FirstEventIs
      <4>2. CASE destination.agent # "codex"
        <5>1. DOMAIN s.prompts = {1} /\ s.prompts[1] = D!Event(b(d))
          BY <2>5, <4>2 DEF D!Told
        <5>2. events = {1} /\ s.prompts[1].text = b(d)
          BY <5>1 DEF D!Event
        <5> QED BY <5>2, FirstEventIs
      <4> QED BY <4>1, <4>2
    <3> QED BY <2>1, <2>5, <3>1, IdFacts
  <2> QED BY <2>1, <2>2, <2>3, <2>4, <2>5 DEF Prefixes
<1> QED BY <1>2, <1>3

------------------------------------------------------------------------------
(* What Verify counts.                                                      *)
LEMMA SecondGrows ==
    ASSUME NEW a \in Nat, NEW b \in Nat, a >= b
    PROVE  D!Second(a) \in Nat /\ D!Second(a) >= D!Second(b)
<1>1. PICK k \in Nat \ {0} : k = TicksPerSecond
  BY DestinationsAssumption
<1>2. PICK x \in Nat, y \in Nat : x = a \div k /\ y = b \div k
  OBVIOUS
<1>3. /\ k * x <= a /\ a < k * x + k
      /\ k * y <= b /\ b < k * y + k
  BY <1>2
<1>4. x >= y
  <2> SUFFICES ASSUME x + 1 <= y PROVE FALSE
    OBVIOUS
  <2>1. k * (x + 1) <= k * y
    OBVIOUS
  <2>2. k * (x + 1) = k * x + k
    OBVIOUS
  <2>3. k * x \in Nat /\ k * y \in Nat
    OBVIOUS
  <2> QED BY <1>3, <2>1, <2>2, <2>3
<1> QED BY <1>1, <1>2, <1>4 DEF D!Second

LEMMA CandidateIsOwn ==
    ASSUME StoreTypes, NEW c \in Capsules, NEW start, NEW s \in D!Candidates(c, start)
    PROVE  /\ s \in stored /\ s.capsule = c
           /\ destination.agent \in D!Pinning => s.id = D!Pinned(c)
           /\ destination.agent = "codex" => s.used >= start
           /\ destination.agent = "opencode" => D!Second(s.born) >= D!Second(start)
<1>1. destination.agent \in D!Pinning \cup {"codex", "opencode"}
  BY DEF StoreTypes, D!Destinations
<1>2. CASE destination.agent \in D!Pinning
  <2>1. s \in stored /\ s.id = D!Pinned(c)
    BY <1>2 DEF D!Pinning, D!Candidates, D!GrokMatches, D!ClaudeMatches, D!QwenMatches
  <2>2. IsSession(s)
    BY <2>1 DEF StoreTypes
  <2>3. s.capsule = c
    BY <2>1, <2>2 DEF IsSession
  <2> QED BY <1>2, <2>1, <2>3 DEF D!Pinning
<1>3. CASE destination.agent = "codex"
  <2>1. s \in stored /\ s.used >= start /\ D!FirstUserMessage(s) = D!Bootstrap(c)
    BY <1>3 DEF D!Candidates, D!CodexMatches, D!UsedAtOrAfter
  <2>2. IsSession(s)
    BY <2>1 DEF StoreTypes
  <2>3. s.capsule = c
    BY <2>1, <2>2, FirstMessageIs
  <2> QED BY <1>3, <2>1, <2>3 DEF D!Pinning
<1>4. CASE destination.agent = "opencode"
  <2>1. /\ s \in stored /\ D!Second(s.born) >= D!Second(start)
        /\ D!FirstUserMessage(s) = D!Bootstrap(c)
    BY <1>4 DEF D!Candidates, D!OpenCodeMatches, D!CreatedAtOrAfter
  <2>2. IsSession(s)
    BY <2>1 DEF StoreTypes
  <2>3. s.capsule = c
    BY <2>1, <2>2, FirstMessageIs
  <2> QED BY <1>4, <2>1, <2>3 DEF D!Pinning
<1> QED BY <1>1, <1>2, <1>3, <1>4

LEMMA BriefedIsCandidate ==
    ASSUME StoreTypes, NEW c \in Capsules, NEW start \in Nat, NEW s \in stored,
           s.capsule = c, s.prompts = D!Told(c), s.born >= start, destination.known,
           destination.agent \in D!Pinning => s.id = D!Pinned(c)
    PROVE  s \in D!Candidates(c, start)
<1>1. destination.agent \in D!Pinning \cup {"codex", "opencode"}
  BY DEF StoreTypes, D!Destinations
<1>2. IsSession(s)
  BY DEF StoreTypes
<1>3. D!FirstUserMessage(s) = D!Bootstrap(c)
  BY <1>2, FirstMessageIs
<1>4. CASE destination.agent \in D!Pinning
  BY <1>4 DEF D!Pinning, D!Candidates, D!GrokMatches, D!ClaudeMatches, D!QwenMatches
<1>5. CASE destination.agent = "codex"
  <2>1. s.used >= start
    BY <1>2 DEF IsSession
  <2> QED BY <1>3, <1>5, <2>1 DEF D!Candidates, D!CodexMatches, D!UsedAtOrAfter
<1>6. CASE destination.agent = "opencode"
  <2>1. s.born \in Nat
    BY <1>2 DEF IsSession
  <2>2. D!Second(s.born) >= D!Second(start)
    BY <2>1, SecondGrows
  <2> QED BY <1>3, <1>6, <2>2 DEF D!Candidates, D!OpenCodeMatches, D!CreatedAtOrAfter
<1> QED BY <1>1, <1>4, <1>5, <1>6

LEMMA CandidatesFinite ==
    ASSUME StoreTypes, NEW c \in Capsules, NEW start
    PROVE  IsFiniteSet(D!Candidates(c, start))
<1>1. D!Candidates(c, start) \subseteq stored
  BY CandidateIsOwn
<1> QED BY <1>1, FS_Subset DEF StoreTypes

------------------------------------------------------------------------------
(* The store keeps its sessions, and uses them; what is new in it is of     *)
(* now.                                                                     *)
StoreGrows ==
    /\ destination' = destination
    /\ \A s \in stored : \E t \in stored' :
          t.id = s.id /\ t.capsule = s.capsule /\ t.born = s.born /\ t.used >= s.used
    /\ \A t \in stored' :
          t.born = ticks \/ \E s \in stored : s.id = t.id /\ s.born = t.born

(* No step but its own tells a child its briefing.                          *)
NotBriefed(p) ==
    \A t \in stored' : t.id = outcomes[p].child =>
        \E s \in stored : s.id = t.id /\ s.prompts = t.prompts

LEMMA LaunchKept ==
    ASSUME StoreTypes, StoreTypes', StoreGrows, ticks' >= ticks,
           NEW p \in Launchers, launch'[p] = launch[p], LaunchSoFar(p),
           launch[p].start \in Nat
    PROVE  LaunchSoFar(p)'
<1> DEFINE l == launch[p]
<1>1. UNCHANGED <<l>> /\ ticks \in Nat /\ ticks' \in Nat /\ destination' = destination
  BY DEF StoreTypes, StoreGrows
<1>2. l.start <= ticks'
  BY <1>1 DEF LaunchSoFar
<1>3. ASSUME l.child # D!Nobody
      PROVE  /\ l.at \in {"child", "verify"}
             /\ D!PlanId(l.capsule)' # D!Nobody => l.child = D!Pinned(l.capsule)
             /\ \E t \in stored' : t.id = l.child /\ t.capsule = l.capsule /\ t.born >= l.start
  <2>1. PICK s \in stored : s.id = l.child /\ s.capsule = l.capsule /\ s.born >= l.start
    BY <1>3 DEF LaunchSoFar
  <2>2. PICK t \in stored' : t.id = s.id /\ t.capsule = s.capsule /\ t.born = s.born
    BY DEF StoreGrows
  <2>3. D!PlanId(l.capsule)' = D!PlanId(l.capsule)
    BY <1>1 DEF D!PlanId
  <2>4. /\ l.at \in {"child", "verify"}
        /\ D!PlanId(l.capsule) # D!Nobody => l.child = D!Pinned(l.capsule)
    BY <1>3 DEF LaunchSoFar
  <2> QED BY <2>1, <2>2, <2>3, <2>4
<1>4. ASSUME l.at \in {"child", "verify"}, destination.agent \in D!Pinning,
             NEW t \in stored', t.id = D!Pinned(l.capsule)
      PROVE  t.born >= l.start
  <2>1. CASE t.born = ticks
    BY <2>1, <1>1 DEF LaunchSoFar
  <2>2. CASE \E s \in stored : s.id = t.id /\ s.born = t.born
    BY <2>2, <1>4 DEF LaunchSoFar
  <2> QED BY <2>1, <2>2 DEF StoreGrows
<1> QED BY <1>1, <1>2, <1>3, <1>4 DEF LaunchSoFar

LEMMA OutcomeKept ==
    ASSUME StoreTypes, StoreTypes', StoreGrows, ProcessTypes,
           NEW p \in Launchers, outcomes'[p] = outcomes[p], NotBriefed(p), OutcomeIsTrue(p)
    PROVE  OutcomeIsTrue(p)'
<1> PICK o : o = outcomes[p]
  OBVIOUS
<1> SUFFICES ASSUME o # D!NoOutcome
             PROVE  /\ o.child # D!Nobody => D!Exists(o.child)'
                    /\ o.state = "resolved" =>
                          /\ \E s \in stored' : s.id = o.session /\ s.capsule = o.capsule
                          /\ D!Rivals(o)' = {} => o.session = o.child
                    /\ (\E s \in stored' : s.id = o.child /\ s.prompts = D!Told(o.capsule)')
                       /\ destination'.known => o.state # "unresolved"
  BY Zenon DEF OutcomeIsTrue
<1>1. destination' = destination
  BY DEF StoreGrows
<1>2. /\ o.child # D!Nobody => D!Exists(o.child)
      /\ o.state = "resolved" =>
            /\ \E s \in stored : s.id = o.session /\ s.capsule = o.capsule
            /\ D!Rivals(o) = {} => o.session = o.child
      /\ (\E s \in stored : s.id = o.child /\ s.prompts = D!Told(o.capsule))
         /\ destination.known => o.state # "unresolved"
  BY Zenon DEF OutcomeIsTrue
<1>3. o.child # D!Nobody => D!Exists(o.child)'
  BY <1>2 DEF D!Exists, StoreGrows
<1>4. ASSUME NEW s \in D!Rivals(o) PROVE D!Rivals(o)' # {}
  <2>1. PICK t \in stored' :
           t.id = s.id /\ t.capsule = s.capsule /\ t.born = s.born /\ t.used >= s.used
    BY DEF D!Rivals, StoreGrows
  <2>2. s.used \in Nat /\ t.used \in Nat /\ o.start \in Nat
    <3>1. IsSession(s)
      BY DEF StoreTypes, D!Rivals
    <3>2. IsSession(t)'
      BY DEF StoreTypes
    <3>3. o \in Outcomes
      BY DEF ProcessTypes
    <3> QED BY <3>1, <3>2, <3>3 DEF IsSession, Outcomes, D!NoOutcome
  <2>3. t \in D!Rivals(o)'
    BY <1>1, <2>1, <2>2 DEF D!Rivals
  <2> QED BY <2>3
<1>5. o.state = "resolved" =>
         /\ \E s \in stored' : s.id = o.session /\ s.capsule = o.capsule
         /\ D!Rivals(o)' = {} => o.session = o.child
  BY <1>2, <1>4 DEF StoreGrows
<1>6. ASSUME NEW t \in stored', t.id = o.child, t.prompts = D!Told(o.capsule)',
             destination'.known
      PROVE  o.state # "unresolved"
  <2>1. D!Told(o.capsule)' = D!Told(o.capsule)
    BY <1>1 DEF D!Told
  <2>2. PICK s \in stored : s.id = t.id /\ s.prompts = t.prompts
    BY <1>6 DEF NotBriefed
  <2> QED BY <1>1, <1>2, <1>6, <2>1, <2>2
<1> QED BY <1>3, <1>5, <1>6

------------------------------------------------------------------------------
(* How the store changes.                                                   *)
LEMMA SessionKept ==
    ASSUME NEW s, IsSession(s), destination' = destination, ticks \in Nat, ticks' \in Nat,
           ticks' >= ticks
    PROVE  IsSession(s)'
<1>1. \A c : Prefixes(c)' = Prefixes(c)
  BY DEF Prefixes, D!Told
<1>2. s.used <= ticks'
  BY DEF IsSession
<1> QED BY <1>1, <1>2 DEF IsSession

LEMMA StoreAdds ==
    ASSUME StoreTypes, NEW new, IsSession(new), new.born = ticks,
           \A s \in stored : s.id # new.id,
           UNCHANGED <<destination, ticks>>, stored' = stored \cup {new}
    PROVE  StoreTypes' /\ StoreGrows
<1>1. ticks \in Nat
  BY DEF StoreTypes
<1>2. \A s \in stored' : IsSession(s)'
  <2> SUFFICES ASSUME NEW s \in stored' PROVE IsSession(s)'
    OBVIOUS
  <2>1. IsSession(s)
    BY DEF StoreTypes
  <2> QED BY <1>1, <2>1, SessionKept
<1>3. IsFiniteSet(stored')
  BY FS_AddElement DEF StoreTypes
<1>4. \A s, t \in stored' : s.id = t.id => s = t
  BY DEF StoreTypes
<1>5. StoreTypes'
  BY <1>2, <1>3, <1>4 DEF StoreTypes
<1>6. StoreGrows
  <2> SUFFICES ASSUME NEW s \in stored PROVE s \in stored' /\ s.used >= s.used
    BY DEF StoreGrows
  <2>1. IsSession(s)
    BY DEF StoreTypes
  <2> QED BY <2>1 DEF IsSession
<1> QED BY <1>5, <1>6

LEMMA StoreReplaces ==
    ASSUME StoreTypes, NEW old \in stored, NEW new, IsSession(new),
           new.id = old.id, new.capsule = old.capsule, new.born = old.born,
           new.used >= old.used,
           UNCHANGED <<destination, ticks>>, stored' = (stored \ {old}) \cup {new}
    PROVE  StoreTypes' /\ StoreGrows
<1>1. ticks \in Nat
  BY DEF StoreTypes
<1>2. \A s \in stored' : IsSession(s)'
  <2> SUFFICES ASSUME NEW s \in stored' PROVE IsSession(s)'
    OBVIOUS
  <2>1. IsSession(s)
    BY DEF StoreTypes
  <2> QED BY <1>1, <2>1, SessionKept
<1>3. IsFiniteSet(stored')
  BY FS_AddElement, FS_RemoveElement DEF StoreTypes
<1>4. \A s, t \in stored' : s.id = t.id => s = t
  BY DEF StoreTypes
<1>5. StoreTypes'
  BY <1>2, <1>3, <1>4 DEF StoreTypes
<1>6. ASSUME NEW s \in stored
      PROVE  \E t \in stored' :
                t.id = s.id /\ t.capsule = s.capsule /\ t.born = s.born /\ t.used >= s.used
  <2>1. CASE s = old
    BY <2>1
  <2>2. CASE s # old
    <3>1. s \in stored' /\ IsSession(s)
      BY <2>2 DEF StoreTypes
    <3>2. s.used >= s.used
      BY <3>1 DEF IsSession
    <3> QED BY <3>1, <3>2
  <2> QED BY <2>1, <2>2
<1>7. \A t \in stored' : \E s \in stored : s.id = t.id /\ s.born = t.born
  OBVIOUS
<1> QED BY <1>5, <1>6, <1>7 DEF StoreGrows

LEMMA StoreStays ==
    ASSUME StoreTypes, UNCHANGED <<destination, stored>>, ticks' \in Nat, ticks' >= ticks
    PROVE  StoreTypes' /\ StoreGrows /\ (\A p \in Launchers : NotBriefed(p))
<1>1. \A s \in stored' : IsSession(s)'
  BY SessionKept DEF StoreTypes
<1>2. StoreTypes'
  BY <1>1 DEF StoreTypes
<1>3. \A s \in stored : s.used >= s.used
  BY DEF StoreTypes, IsSession
<1> QED BY <1>2, <1>3 DEF StoreGrows, NotBriefed

------------------------------------------------------------------------------
(* A step of a process, and one of nobody's.                                *)
LEMMA OthersStepInv ==
    ASSUME DestinationsInv, StoreTypes', StoreGrows, ticks' >= ticks,
           UNCHANGED <<launch, outcomes>>, \A p \in Launchers : NotBriefed(p)
    PROVE  DestinationsInv'
<1>1. StoreTypes /\ ProcessTypes
  BY DEF DestinationsInv
<1>2. ASSUME NEW p \in Launchers PROVE LaunchSoFar(p)' /\ OutcomeIsTrue(p)'
  <2>1. LaunchSoFar(p) /\ OutcomeIsTrue(p) /\ NotBriefed(p)
    BY DEF DestinationsInv
  <2>2. launch[p] \in Launches
    BY <1>1 DEF ProcessTypes
  <2>3. launch[p].start \in Nat
    BY <2>2 DEF Launches, D!Idle
  <2> QED BY <1>1, <2>1, <2>3, LaunchKept, OutcomeKept
<1>3. ProcessTypes' /\ ChildrenDiffer'
  BY DEF DestinationsInv, ProcessTypes, ChildrenDiffer
<1> QED BY <1>2, <1>3 DEF DestinationsInv

LEMMA ProcessStepInv ==
    ASSUME DestinationsInv, StoreTypes', StoreGrows, UNCHANGED ticks,
           NEW p \in Launchers, NEW l \in Launches, NEW o \in Outcomes,
           launch' = [launch EXCEPT ![p] = l], outcomes' = [outcomes EXCEPT ![p] = o],
           l.at # "idle" => o = D!NoOutcome,
           \A q \in Launchers \ {p} :
              /\ NotBriefed(q)
              /\ {l.child, o.child} \cap {launch[q].child, outcomes[q].child}
                    \subseteq {D!Nobody},
           LaunchSoFar(p)', OutcomeIsTrue(p)'
    PROVE  DestinationsInv'
<1>1. StoreTypes /\ ProcessTypes /\ ticks \in Nat
  BY DEF DestinationsInv, StoreTypes
<1>2. /\ launch' \in [Launchers -> Launches] /\ outcomes' \in [Launchers -> Outcomes]
      /\ launch'[p] = l /\ outcomes'[p] = o
      /\ \A q \in Launchers \ {p} : launch'[q] = launch[q] /\ outcomes'[q] = outcomes[q]
  BY <1>1 DEF ProcessTypes
<1>3. ASSUME NEW q \in Launchers \ {p} PROVE LaunchSoFar(q)' /\ OutcomeIsTrue(q)'
  <2>1. LaunchSoFar(q) /\ OutcomeIsTrue(q) /\ NotBriefed(q)
    BY DEF DestinationsInv
  <2>2. launch[q] \in Launches
    BY <1>1 DEF ProcessTypes
  <2>3. launch[q].start \in Nat /\ ticks' >= ticks
    BY <1>1, <2>2 DEF Launches, D!Idle
  <2> QED BY <1>1, <1>2, <2>1, <2>3, LaunchKept, OutcomeKept
<1>4. ProcessTypes'
  BY <1>1, <1>2 DEF ProcessTypes
<1>5. ChildrenDiffer'
  <2> SUFFICES ASSUME NEW q \in Launchers, NEW r \in Launchers, q # r
               PROVE  {launch'[q].child, outcomes'[q].child}
                         \cap {launch'[r].child, outcomes'[r].child} \subseteq {D!Nobody}
    BY DEF ChildrenDiffer
  <2>1. CASE q = p
    BY <1>2, <2>1
  <2>2. CASE r = p
    BY <1>2, <2>2
  <2>3. CASE q # p /\ r # p
    BY <1>2, <2>3 DEF DestinationsInv, ChildrenDiffer
  <2> QED BY <2>1, <2>2, <2>3
<1> QED BY <1>3, <1>4, <1>5, LaunchSoFar(p)', OutcomeIsTrue(p)' DEF DestinationsInv

(* What a process that launches is.                                         *)
LEMMA LaunchIs ==
    ASSUME DestinationsInv, NEW p \in Launchers, launch[p].at # "idle"
    PROVE  /\ launch[p] = [at |-> launch[p].at, capsule |-> launch[p].capsule,
                           start |-> launch[p].start, child |-> launch[p].child]
           /\ launch[p].at \in {"materialize", "exec", "child", "verify"}
           /\ launch[p].capsule \in Capsules /\ launch[p].start \in Nat
           /\ launch[p].child \in Ids \cup {D!Nobody}
           /\ outcomes[p] = D!NoOutcome
           /\ outcomes = [outcomes EXCEPT ![p] = D!NoOutcome]
           /\ LaunchSoFar(p)
<1>1. launch[p] \in Launches /\ outcomes[p] = D!NoOutcome /\ LaunchSoFar(p)
  BY DEF DestinationsInv, ProcessTypes
<1>2. outcomes = [outcomes EXCEPT ![p] = D!NoOutcome]
  BY <1>1 DEF DestinationsInv, ProcessTypes
<1>3. launch[p] # D!Idle
  BY DEF D!Idle
<1> QED BY <1>1, <1>2, <1>3 DEF Launches

LEMMA NoOutcomeIs ==
    /\ D!NoOutcome \in Outcomes /\ D!NoOutcome.child = D!Nobody
    /\ \A p : outcomes'[p] = D!NoOutcome => OutcomeIsTrue(p)'
  BY DEF Outcomes, D!NoOutcome, OutcomeIsTrue

LEMMA IdleIs ==
    /\ D!Idle \in Launches /\ D!Idle.child = D!Nobody /\ D!Idle.at = "idle"
    /\ D!Idle.start = 0
  BY DEF Launches, D!Idle

(* A process goes on, in a store that stays, and with the child it has.     *)
LEMMA GoesOn ==
    ASSUME DestinationsInv, NEW p \in Launchers, launch[p].at # "idle",
           UNCHANGED <<destination, stored, ticks, outcomes>>,
           NEW l \in Launches, launch' = [launch EXCEPT ![p] = l],
           l.child \in {launch[p].child, D!Nobody}, LaunchSoFar(p)'
    PROVE  DestinationsInv'
<1>1. StoreTypes /\ ticks' \in Nat /\ ticks' >= ticks
  BY DEF DestinationsInv, StoreTypes
<1>2. StoreTypes' /\ StoreGrows /\ (\A q \in Launchers : NotBriefed(q))
  BY <1>1, StoreStays
<1>3. PICK o \in Outcomes : o = D!NoOutcome
  BY NoOutcomeIs
<1>4. outcomes' = [outcomes EXCEPT ![p] = o] /\ OutcomeIsTrue(p)' /\ ticks' = ticks
  BY <1>3, LaunchIs, NoOutcomeIs
<1>5. \A q \in Launchers \ {p} :
         {l.child, o.child} \cap {launch[q].child, outcomes[q].child} \subseteq {D!Nobody}
  BY <1>3, NoOutcomeIs DEF DestinationsInv, ChildrenDiffer
<1>6. \A q \in Launchers \ {p} :
         /\ NotBriefed(q)
         /\ {l.child, o.child} \cap {launch[q].child, outcomes[q].child} \subseteq {D!Nobody}
  BY <1>2, <1>5
<1> QED BY <1>2, <1>3, <1>4, <1>6, ProcessStepInv

------------------------------------------------------------------------------
(* The steps of a launch.                                                   *)
LEMMA IdleSoFar ==
    ASSUME ticks' \in Nat, NEW p \in Launchers, launch'[p] = D!Idle
    PROVE  LaunchSoFar(p)'
  BY IdleIs DEF LaunchSoFar

(* The fields of a launch that a step changes.                              *)
LEMMA LaunchAt ==
    ASSUME DestinationsInv, NEW p \in Launchers, launch[p].at # "idle", NEW a
    PROVE  [launch EXCEPT ![p].at = a] =
              [launch EXCEPT ![p] = [at |-> a, capsule |-> launch[p].capsule,
                                     start |-> launch[p].start, child |-> launch[p].child]]
<1>1. PICK j : j = launch[p]
  OBVIOUS
<1>2. PICK x : x = [j EXCEPT !.at = a]
  OBVIOUS
<1>3. j = [at |-> j.at, capsule |-> j.capsule, start |-> j.start, child |-> j.child]
  BY <1>1, LaunchIs
<1>4. x = [at |-> a, capsule |-> j.capsule, start |-> j.start, child |-> j.child]
  BY <1>2, <1>3
<1>5. [launch EXCEPT ![p].at = a] = [launch EXCEPT ![p] = x]
  BY <1>1, <1>2 DEF DestinationsInv, ProcessTypes
<1> QED BY <1>1, <1>4, <1>5

LEMMA LaunchStart ==
    ASSUME DestinationsInv, NEW p \in Launchers, launch[p].at # "idle", NEW a, NEW b
    PROVE  [launch EXCEPT ![p].at = a, ![p].start = b] =
              [launch EXCEPT ![p] = [at |-> a, capsule |-> launch[p].capsule,
                                     start |-> b, child |-> launch[p].child]]
<1>1. PICK j : j = launch[p]
  OBVIOUS
<1>2. PICK x : x = [j EXCEPT !.at = a, !.start = b]
  OBVIOUS
<1>3. j = [at |-> j.at, capsule |-> j.capsule, start |-> j.start, child |-> j.child]
  BY <1>1, LaunchIs
<1>4. x = [at |-> a, capsule |-> j.capsule, start |-> b, child |-> j.child]
  BY <1>2, <1>3
<1>5. [launch EXCEPT ![p].at = a, ![p].start = b] = [launch EXCEPT ![p] = x]
  BY <1>1, <1>2 DEF DestinationsInv, ProcessTypes
<1> QED BY <1>1, <1>4, <1>5

LEMMA LaunchChild ==
    ASSUME DestinationsInv, NEW p \in Launchers, launch[p].at # "idle", NEW a
    PROVE  [launch EXCEPT ![p].child = a] =
              [launch EXCEPT ![p] = [at |-> launch[p].at, capsule |-> launch[p].capsule,
                                     start |-> launch[p].start, child |-> a]]
<1>1. PICK j : j = launch[p]
  OBVIOUS
<1>2. PICK x : x = [j EXCEPT !.child = a]
  OBVIOUS
<1>3. j = [at |-> j.at, capsule |-> j.capsule, start |-> j.start, child |-> j.child]
  BY <1>1, LaunchIs
<1>4. x = [at |-> j.at, capsule |-> j.capsule, start |-> j.start, child |-> a]
  BY <1>2, <1>3
<1>5. [launch EXCEPT ![p].child = a] = [launch EXCEPT ![p] = x]
  BY <1>1, <1>2 DEF DestinationsInv, ProcessTypes
<1> QED BY <1>1, <1>4, <1>5

LEMMA PlanInv ==
    ASSUME DestinationsInv, NEW p \in Launchers, NEW c \in Capsules, D!Plan(p, c)
    PROVE  DestinationsInv'
<1>1. StoreTypes /\ ProcessTypes /\ ticks \in Nat
  BY DEF DestinationsInv, StoreTypes
<1>2. PICK l : l = [at |-> "materialize", capsule |-> c, start |-> 0, child |-> D!Nobody]
  OBVIOUS
<1>3. PICK o \in Outcomes : o = D!NoOutcome
  BY NoOutcomeIs
<1>4. l \in Launches /\ l.child = D!Nobody /\ l.at = "materialize" /\ l.start = 0
  BY <1>2 DEF Launches
<1>5. /\ UNCHANGED <<destination, stored, ticks>>
      /\ launch' = [launch EXCEPT ![p] = l] /\ outcomes' = [outcomes EXCEPT ![p] = o]
  <2>1. PICK x : x = [D!Idle EXCEPT !.at = "materialize", !.capsule = c]
    OBVIOUS
  <2>2. x = [at |-> "materialize", capsule |-> c, start |-> 0, child |-> D!Nobody]
    BY <2>1 DEF D!Idle
  <2>3. x = l
    BY <1>2, <2>2
  <2> QED BY <1>3, <2>1, <2>3 DEF D!Plan
<1>6. StoreTypes' /\ StoreGrows /\ (\A q \in Launchers : NotBriefed(q))
  BY <1>1, <1>5, StoreStays
<1>7. launch'[p] = l /\ outcomes'[p] = o
  BY <1>1, <1>5 DEF ProcessTypes
<1>8. LaunchSoFar(p)'
  BY <1>1, <1>4, <1>5, <1>7 DEF LaunchSoFar
<1>9. OutcomeIsTrue(p)'
  BY <1>3, <1>7, NoOutcomeIs
<1>10. \A q \in Launchers \ {p} :
         /\ NotBriefed(q)
         /\ {l.child, o.child} \cap {launch[q].child, outcomes[q].child} \subseteq {D!Nobody}
  BY <1>3, <1>4, <1>6, NoOutcomeIs
<1> QED BY <1>3, <1>4, <1>5, <1>6, <1>8, <1>9, <1>10, ProcessStepInv

(* A launch that has returned.                                              *)
LEMMA ReturnsInv ==
    ASSUME DestinationsInv, NEW p \in Launchers, launch[p].at # "idle", D!Returns(p),
           UNCHANGED <<destination, stored, ticks, outcomes>>
    PROVE  DestinationsInv'
<1>1. PICK l \in Launches : l = D!Idle
  BY IdleIs
<1>2. launch' = [launch EXCEPT ![p] = l] /\ l.child = D!Nobody
  BY <1>1, IdleIs DEF D!Returns
<1>3. launch'[p] = D!Idle /\ ticks' \in Nat
  BY <1>1, <1>2 DEF DestinationsInv, ProcessTypes, StoreTypes
<1>4. LaunchSoFar(p)'
  BY <1>3, IdleSoFar
<1> QED BY <1>2, <1>4, GoesOn

LEMMA MaterializeInv ==
    ASSUME DestinationsInv, NEW p \in Launchers, D!Materialize(p)
    PROVE  DestinationsInv'
<1>1. /\ launch[p].at = "materialize" /\ UNCHANGED <<destination, stored, ticks, outcomes>>
      /\ D!Returns(p) \/ launch' = [launch EXCEPT ![p].at = "exec", ![p].start = ticks]
  BY DEF D!Materialize, D!Rest
<1>2. CASE D!Returns(p)
  BY <1>1, <1>2, ReturnsInv
<1>3. CASE launch' = [launch EXCEPT ![p].at = "exec", ![p].start = ticks]
  <2>1. ProcessTypes /\ ticks \in Nat
    BY DEF DestinationsInv, StoreTypes
  <2>2. launch[p].child = D!Nobody /\ launch[p].capsule \in Capsules
    BY <1>1, LaunchIs DEF LaunchSoFar
  <2>3. PICK l : l = [at |-> "exec", capsule |-> launch[p].capsule, start |-> ticks,
                      child |-> launch[p].child]
    OBVIOUS
  <2>4. launch' = [launch EXCEPT ![p] = l]
    BY <1>1, <1>3, <2>3, LaunchStart
  <2>5. l \in Launches /\ l.child = D!Nobody /\ l.at = "exec" /\ l.start = ticks
    BY <2>1, <2>2, <2>3 DEF Launches
  <2>6. launch'[p] = l
    BY <2>1, <2>4 DEF ProcessTypes
  <2>7. LaunchSoFar(p)'
    BY <1>1, <2>1, <2>5, <2>6 DEF LaunchSoFar
  <2> QED BY <1>1, <2>4, <2>5, <2>7, GoesOn
<1> QED BY <1>1, <1>2, <1>3

(* An id that is not taken is that of no session.                           *)
LEMMA TakenIs ==
    ASSUME NEW c, NEW at
    PROVE  D!Taken(c, at) <=> D!PlanId(c) # D!Nobody /\ D!Exists(D!PlanId(c))
  BY DEF D!Taken, D!InIndex, D!InDirectories

LEMMA ExecInv ==
    ASSUME DestinationsInv, NEW p \in Launchers, D!Exec(p)
    PROVE  DestinationsInv'
<1>1. /\ launch[p].at = "exec" /\ UNCHANGED <<destination, stored, ticks, outcomes>>
      /\ \/ D!Returns(p)
         \/ /\ ~ D!Taken(launch[p].capsule, "exec")
            /\ launch' = [launch EXCEPT ![p].at = "child"]
  BY DEF D!Exec, D!Rest
<1>2. CASE D!Returns(p)
  BY <1>1, <1>2, ReturnsInv
<1>3. CASE /\ ~ D!Taken(launch[p].capsule, "exec")
           /\ launch' = [launch EXCEPT ![p].at = "child"]
  <2>1. ProcessTypes /\ ticks \in Nat
    BY DEF DestinationsInv, StoreTypes
  <2>2. PICK c \in Capsules : c = launch[p].capsule
    BY <1>1, LaunchIs
  <2>3. /\ launch[p].child = D!Nobody /\ launch[p].start \in Nat
        /\ launch[p].start <= ticks
    BY <1>1, LaunchIs DEF LaunchSoFar
  <2>4. PICK l : l = [at |-> "child", capsule |-> c, start |-> launch[p].start,
                      child |-> launch[p].child]
    OBVIOUS
  <2>5. launch' = [launch EXCEPT ![p] = l]
    BY <1>1, <1>3, <2>2, <2>4, LaunchAt
  <2>6. /\ l \in Launches /\ l.child = D!Nobody /\ l.at = "child" /\ l.capsule = c
        /\ l.start = launch[p].start
    BY <2>3, <2>4 DEF Launches
  <2>7. launch'[p] = l
    BY <2>1, <2>5 DEF ProcessTypes
  <2>8. destination.agent \in D!Pinning => \A s \in stored : s.id # D!Pinned(c)
    BY <1>3, <2>2, TakenIs, PlanIdIs DEF D!Exists
  <2>9. LaunchSoFar(p)'
    BY <1>1, <2>3, <2>6, <2>7, <2>8 DEF LaunchSoFar
  <2> QED BY <1>1, <2>5, <2>6, <2>9, GoesOn
<1> QED BY <1>1, <1>2, <1>3

(* The child has ended.                                                     *)
LEMMA VerifiesInv ==
    ASSUME DestinationsInv, NEW p \in Launchers, launch[p].at = "child",
           UNCHANGED <<destination, stored, ticks, outcomes>>,
           launch' = [launch EXCEPT ![p].at = "verify"]
    PROVE  DestinationsInv'
<1>1. ProcessTypes /\ ticks \in Nat
  BY DEF DestinationsInv, StoreTypes
<1>2. PICK l : l = [at |-> "verify", capsule |-> launch[p].capsule,
                    start |-> launch[p].start, child |-> launch[p].child]
  OBVIOUS
<1>3. launch' = [launch EXCEPT ![p] = l]
  BY <1>2, LaunchAt
<1>4. /\ l \in Launches /\ l.child = launch[p].child /\ l.at = "verify"
      /\ l.capsule = launch[p].capsule /\ l.start = launch[p].start
  BY <1>2, LaunchIs DEF Launches
<1>5. launch'[p] = l
  BY <1>1, <1>3 DEF ProcessTypes
<1>6. D!PlanId(l.capsule)' = D!PlanId(l.capsule)
  BY DEF D!PlanId
<1>7. LaunchSoFar(p)
  BY LaunchIs
<1>8. LaunchSoFar(p)'
  BY <1>4, <1>5, <1>6, <1>7 DEF LaunchSoFar
<1> QED BY <1>3, <1>4, <1>8, GoesOn

LEMMA ChildEndsInv ==
    ASSUME DestinationsInv, NEW p \in Launchers, D!ChildEnds(p)
    PROVE  DestinationsInv'
  BY VerifiesInv DEF D!ChildEnds, D!Rest

------------------------------------------------------------------------------
(* The steps of a child.                                                    *)
LEMMA ChildIsStored ==
    ASSUME DestinationsInv, NEW q \in Launchers
    PROVE  /\ launch[q].child # D!Nobody => D!Exists(launch[q].child)
           /\ outcomes[q].child # D!Nobody => D!Exists(outcomes[q].child)
<1>1. LaunchSoFar(q) /\ OutcomeIsTrue(q)
  BY DEF DestinationsInv
<1>2. launch[q].child # D!Nobody => D!Exists(launch[q].child)
  BY <1>1 DEF LaunchSoFar, D!Exists
<1>3. outcomes[q].child # D!Nobody => D!Exists(outcomes[q].child)
  BY <1>1, NoOutcomeIs DEF OutcomeIsTrue
<1> QED BY <1>2, <1>3

LEMMA CountIs == D!Cardinality(stored) = Cardinality(stored)
  BY DEF D!Cardinality, Cardinality

LEMMA ChildOpensInv ==
    ASSUME DestinationsInv, NEW p \in Launchers, D!ChildOpens(p)
    PROVE  DestinationsInv'
<1>1. /\ launch[p].at = "child" /\ launch[p].child = D!Nobody
      /\ Cardinality(stored) < MaxStored
      /\ UNCHANGED <<destination, ticks, outcomes>>
  BY CountIs, Zenon DEF D!ChildOpens, D!Rest
<1>2. StoreTypes /\ ProcessTypes /\ ticks \in Nat
  BY DEF DestinationsInv, StoreTypes
<1>3. PICK c \in Capsules : c = launch[p].capsule
  BY <1>1, LaunchIs
<1>4. PICK id : id = IF D!PlanId(c) = D!Nobody THEN D!Drawn ELSE D!PlanId(c)
  OBVIOUS
<1>5. /\ D!Exists(id) => launch' = [launch EXCEPT ![p].at = "verify"] /\ UNCHANGED stored
      /\ ~ D!Exists(id) => /\ stored' = stored \cup {D!Session(id, p, c, <<>>)}
                           /\ launch' = [launch EXCEPT ![p].child = id]
  BY <1>3, <1>4 DEF D!ChildOpens
<1>6. CASE D!Exists(id)
  BY <1>1, <1>5, <1>6, VerifiesInv
<1>7. CASE ~ D!Exists(id)
  <2>1. PICK new : new = D!Session(id, p, c, <<>>)
    OBVIOUS
  <2>2. /\ new = [id |-> new.id, by |-> new.by, capsule |-> new.capsule,
                  prompts |-> new.prompts, born |-> new.born, used |-> new.used]
        /\ new.id = id /\ new.capsule = c /\ new.prompts = <<>>
        /\ new.born = ticks /\ new.used = ticks
    BY <2>1 DEF D!Session
  <2>3. /\ id \in Ids /\ id # D!Nobody
        /\ D!PlanId(c) # D!Nobody => id = D!Pinned(c)
        /\ \A d \in Capsules : id = D!Pinned(d) => c = d
    <3>1. CASE D!PlanId(c) = D!Nobody
      <4>1. PICK n \in Nat : id = <<"drawn", n>>
        BY <1>1, <1>2, <1>4, <3>1, DrawnIsNew DEF StoreTypes
      <4>2. id \in Ids
        BY <4>1 DEF Ids
      <4> QED BY <3>1, <4>1, <4>2, IdFacts
    <3>2. CASE D!PlanId(c) # D!Nobody
      BY <1>4, <3>2, PlanIdIs, IdFacts
    <3> QED BY <3>1, <3>2
  <2>4. IsSession(new)
    <3>1. c # D!Nobody
      BY CapsulesAssumption
    <3>2. <<>> \in Prefixes(c)
      BY DEF Prefixes
    <3>3. ticks <= ticks
      BY <1>2
    <3> QED BY <1>2, <2>2, <2>3, <3>1, <3>2, <3>3 DEF IsSession
  <2>5. \A s \in stored : s.id # id
    BY <1>7 DEF D!Exists
  <2>6. StoreTypes' /\ StoreGrows
    BY <1>1, <1>2, <1>5, <1>7, <2>1, <2>2, <2>4, <2>5, StoreAdds
  <2>7. PICK l : l = [at |-> launch[p].at, capsule |-> launch[p].capsule,
                      start |-> launch[p].start, child |-> id]
    OBVIOUS
  <2>8. launch' = [launch EXCEPT ![p] = l]
    BY <1>1, <1>5, <1>7, <2>7, LaunchChild
  <2>9. launch[p].start \in Nat /\ launch[p].start <= ticks
    BY <1>1, LaunchIs DEF LaunchSoFar
  <2>10. /\ l \in Launches /\ l.at = "child" /\ l.capsule = c
         /\ l.start = launch[p].start /\ l.child = id
    BY <1>1, <1>3, <2>3, <2>7, <2>9 DEF Launches
  <2>11. launch'[p] = l
    BY <1>2, <2>8 DEF ProcessTypes
  <2>12. D!PlanId(c)' = D!PlanId(c) /\ (D!PlanId(c) # D!Nobody => id = D!Pinned(c))
    BY <1>1, <2>3 DEF D!PlanId
  <2>13. new \in stored' /\ new.born >= l.start
    BY <1>2, <1>5, <1>7, <2>1, <2>2, <2>9, <2>10
  <2>14. ASSUME destination.agent \in D!Pinning, NEW s \in stored', s.id = D!Pinned(c)
         PROVE  s.born >= l.start
    <3>1. CASE s \in stored
      BY <1>1, <1>3, <2>10, <2>14, <3>1, LaunchIs DEF LaunchSoFar
    <3>2. CASE s = new
      BY <2>13, <3>2
    <3> QED BY <1>5, <1>7, <2>1, <3>1, <3>2
  <2>15. LaunchSoFar(p)'
    BY <1>1, <2>2, <2>9, <2>10, <2>11, <2>12, <2>13, <2>14 DEF LaunchSoFar
  <2>16. PICK o \in Outcomes : o = D!NoOutcome
    BY NoOutcomeIs
  <2>17. outcomes' = [outcomes EXCEPT ![p] = o] /\ OutcomeIsTrue(p)'
    BY <1>1, <2>16, LaunchIs, NoOutcomeIs
  <2>18. ASSUME NEW q \in Launchers
         PROVE  id # launch[q].child /\ id # outcomes[q].child
    BY <1>7, <2>3, ChildIsStored
  <2>19. ASSUME NEW q \in Launchers PROVE NotBriefed(q)
    BY <1>5, <1>7, <2>1, <2>2, <2>18 DEF NotBriefed
  <2>20. o.child = D!Nobody /\ ticks' = ticks /\ (l.at # "idle" => o = D!NoOutcome)
    BY <1>1, <2>16, NoOutcomeIs
  <2>21. \A q \in Launchers \ {p} :
           /\ NotBriefed(q)
           /\ {l.child, o.child} \cap {launch[q].child, outcomes[q].child}
                 \subseteq {D!Nobody}
    BY <2>10, <2>18, <2>19, <2>20
  <2> QED BY <2>6, <2>8, <2>10, <2>15, <2>16, <2>17, <2>20, <2>21, ProcessStepInv
<1> QED BY <1>6, <1>7

(* What is appended to a sequence.                                          *)
LEMMA AppendIs ==
    ASSUME NEW S, NEW s \in Seq(S), NEW x \in S, NEW t \in Seq(S),
           Len(t) = Len(s) + 1, \A i \in 1..Len(s) : t[i] = s[i], t[Len(s) + 1] = x
    PROVE  Append(s, x) = t
<1>1. PICK u : u = Append(s, x)
  OBVIOUS
<1>2. u \in Seq(S) /\ Len(u) = Len(s) + 1
  BY <1>1, AppendProperties
<1>3. \A i \in 1..Len(s) : u[i] = s[i]
  BY <1>1, AppendProperties
<1>4. u[Len(s) + 1] = x
  BY <1>1, AppendProperties
<1>5. \A i \in 1..Len(u) : i \in 1..Len(s) \/ i = Len(s) + 1
  BY <1>2
<1>6. \A i \in 1..Len(u) : u[i] = t[i]
  BY <1>3, <1>4, <1>5
<1>7. u = t
  BY <1>2, <1>6, SeqEqual
<1> QED BY <1>1, <1>7

LEMMA AppendToOne == ASSUME NEW a, NEW x PROVE Append(<<a>>, x) = <<a, x>>
<1>1. PICK s, t, S : s = <<a>> /\ t = <<a, x>> /\ S = {a, x}
  OBVIOUS
<1>2. s \in Seq(S) /\ Len(s) = 1 /\ s[1] = a /\ x \in S
  BY <1>1
<1>3. t \in Seq(S) /\ Len(t) = 2 /\ t[1] = a /\ t[2] = x
  BY <1>1
<1>4. Len(t) = Len(s) + 1 /\ t[Len(s) + 1] = x /\ \A i \in 1..Len(s) : t[i] = s[i]
  BY <1>2, <1>3
<1>5. Append(s, x) = t
  BY <1>2, <1>3, <1>4, AppendIs
<1> QED BY <1>1, <1>5

LEMMA AppendToTwo == ASSUME NEW a, NEW x, NEW y PROVE Append(<<a, x>>, y) = <<a, x, y>>
<1>1. PICK s, t, S : s = <<a, x>> /\ t = <<a, x, y>> /\ S = {a, x, y}
  OBVIOUS
<1>2. s \in Seq(S) /\ Len(s) = 2 /\ s[1] = a /\ s[2] = x /\ y \in S
  BY <1>1
<1>3. t \in Seq(S) /\ Len(t) = 3 /\ t[1] = a /\ t[2] = x /\ t[3] = y
  BY <1>1
<1>4. Len(t) = Len(s) + 1 /\ t[Len(s) + 1] = y /\ \A i \in 1..Len(s) : t[i] = s[i]
  BY <1>2, <1>3
<1>5. Append(s, y) = t
  BY <1>2, <1>3, <1>4, AppendIs
<1> QED BY <1>1, <1>5

(* A prefix of a briefing is followed by another one.                       *)
LEMMA PrefixGrows ==
    ASSUME NEW c \in Capsules, NEW q \in Prefixes(c), Len(q) + 1 \in DOMAIN D!Told(c)
    PROVE  Append(q, D!Told(c)[Len(q) + 1]) \in Prefixes(c)
<1>1. CASE destination.agent = "codex"
  <2>1. PICK x, y : x = Item(c) /\ y = D!Event(D!Bootstrap(c))
    OBVIOUS
  <2>2. PICK a : a = D!Preamble
    OBVIOUS
  <2>3. D!Told(c) = <<a, x, y>>
    BY <1>1, <2>1, <2>2 DEF D!Told, Item
  <2>4. Prefixes(c) = {<<>>, <<a>>, <<a, x>>, <<a, x, y>>}
    BY <1>1, <2>1, <2>2, <2>3 DEF Prefixes
  <2>5. CASE q = <<>>
    <3>1. Len(q) + 1 = 1 /\ D!Told(c)[1] = a
      BY <2>3, <2>5
    <3>2. Append(q, a) = <<a>>
      BY <2>5
    <3> QED BY <2>4, <3>1, <3>2
  <2>6. CASE q = <<a>>
    <3>1. Len(q) + 1 = 2 /\ D!Told(c)[2] = x
      BY <2>3, <2>6
    <3>2. Append(q, x) = <<a, x>>
      BY <2>6, AppendToOne
    <3> QED BY <2>4, <3>1, <3>2
  <2>7. CASE q = <<a, x>>
    <3>1. Len(q) + 1 = 3 /\ D!Told(c)[3] = y
      BY <2>3, <2>7
    <3>2. Append(q, y) = <<a, x, y>>
      BY <2>7, AppendToTwo
    <3> QED BY <2>4, <3>1, <3>2
  <2>8. CASE q = <<a, x, y>>
    <3>1. Len(q) + 1 = 4 /\ DOMAIN D!Told(c) = 1..3
      BY <2>3, <2>8
    <3> QED BY <3>1
  <2> QED BY <2>4, <2>5, <2>6, <2>7, <2>8
<1>2. CASE destination.agent # "codex"
  <2>1. PICK y : y = D!Event(D!Bootstrap(c))
    OBVIOUS
  <2>2. D!Told(c) = <<y>> /\ Prefixes(c) = {<<>>, <<y>>}
    BY <1>2, <2>1 DEF D!Told, Prefixes
  <2>3. CASE q = <<>>
    <3>1. Len(q) + 1 = 1 /\ D!Told(c)[1] = y
      BY <2>2, <2>3
    <3>2. Append(q, y) = <<y>>
      BY <2>3
    <3> QED BY <2>2, <3>1, <3>2
  <2>4. CASE q = <<y>>
    <3>1. Len(q) + 1 = 2 /\ DOMAIN D!Told(c) = 1..1
      BY <2>2, <2>4
    <3> QED BY <3>1
  <2> QED BY <2>2, <2>3, <2>4
<1> QED BY <1>1, <1>2

LEMMA ChildPromptedInv ==
    ASSUME DestinationsInv, NEW p \in Launchers, D!ChildPrompted(p)
    PROVE  DestinationsInv'
<1>1. /\ launch[p].at = "child" /\ launch[p].child # D!Nobody
      /\ UNCHANGED <<destination, ticks, launch, outcomes>>
  BY Zenon DEF D!ChildPrompted, D!Rest
<1>2. StoreTypes /\ ProcessTypes /\ ticks \in Nat
  BY DEF DestinationsInv, StoreTypes
<1>3. PICK c \in Capsules : c = launch[p].capsule
  BY <1>1, LaunchIs
<1>4. PICK s : s = D!Find(launch[p].child)
  OBVIOUS
<1>5. PICK n : n = Len(s.prompts) + 1
  OBVIOUS
<1>6. /\ n \in DOMAIN D!Told(s.capsule)
      /\ stored' = (stored \ {s}) \cup
            {[s EXCEPT !.prompts = Append(@, D!Told(s.capsule)[n]), !.used = ticks]}
  BY <1>4, <1>5, Zenon DEF D!ChildPrompted
<1>7. D!Exists(launch[p].child)
  BY <1>1, ChildIsStored
<1>8. s \in stored /\ s.id = launch[p].child
  BY <1>2, <1>4, <1>7, FindIs
<1>9. IsSession(s)
  BY <1>2, <1>8 DEF StoreTypes
<1>10. s.capsule = c
  <2>1. \E t \in stored : t.id = launch[p].child /\ t.capsule = c
    BY <1>1, <1>3, LaunchIs DEF LaunchSoFar
  <2> QED BY <1>2, <1>8, <2>1 DEF StoreTypes
<1>11. PICK q : q = Append(s.prompts, D!Told(c)[n])
  OBVIOUS
<1>12. q \in Prefixes(c)
  <2>1. c # D!Nobody
    BY CapsulesAssumption
  <2>2. s.prompts \in Prefixes(c)
    BY <1>9, <1>10, <2>1 DEF IsSession
  <2> QED BY <1>5, <1>6, <1>10, <1>11, <2>2, PrefixGrows
<1>13. PICK new : new = [s EXCEPT !.prompts = q, !.used = ticks]
  OBVIOUS
<1>14. stored' = (stored \ {s}) \cup {new}
  BY <1>6, <1>10, <1>11, <1>13
<1>15. s = [id |-> s.id, by |-> s.by, capsule |-> s.capsule, prompts |-> s.prompts,
            born |-> s.born, used |-> s.used]
  BY <1>9 DEF IsSession
<1>16. /\ new.id = s.id /\ new.capsule = s.capsule /\ new.born = s.born
       /\ new.prompts = q /\ new.used = ticks
       /\ new = [id |-> new.id, by |-> new.by, capsule |-> new.capsule,
                 prompts |-> new.prompts, born |-> new.born, used |-> new.used]
  BY <1>13, <1>15
<1>17. s.used \in Nat /\ s.used <= ticks /\ s.born <= ticks
  BY <1>2, <1>9 DEF IsSession
<1>18. IsSession(new)
  <2>1. c # D!Nobody
    BY CapsulesAssumption
  <2>2. /\ s.id \in Ids /\ s.born \in Nat
        /\ \A d \in Capsules : s.id = D!Pinned(d) => s.capsule = d
    BY <1>9 DEF IsSession
  <2>3. ticks <= ticks
    BY <1>2
  <2> QED BY <1>2, <1>10, <1>12, <1>16, <1>17, <2>1, <2>2, <2>3 DEF IsSession
<1>19. StoreTypes' /\ StoreGrows
  BY <1>1, <1>2, <1>8, <1>14, <1>16, <1>17, <1>18, StoreReplaces
<1>20. ASSUME NEW r \in Launchers PROVE NotBriefed(r)
  <2>1. outcomes[r].child # s.id
    <3>1. CASE r = p
      BY <1>1, <1>8, <3>1, LaunchIs, NoOutcomeIs
    <3>2. CASE r # p
      BY <1>1, <1>8, <3>2 DEF DestinationsInv, ChildrenDiffer
    <3> QED BY <3>1, <3>2
  <2> QED BY <1>14, <1>16, <2>1 DEF NotBriefed
<1>21. ticks' >= ticks
  BY <1>1, <1>2
<1> QED BY <1>1, <1>19, <1>20, <1>21, OthersStepInv

------------------------------------------------------------------------------
(* Verify: the session it resolves is one of the capsule's, and its child's *)
(* own unless another one of them was used since.                           *)
Any(S) == CHOOSE s \in S : TRUE

LEMMA StateIs ==
    ASSUME NEW found, IsFiniteSet(found)
    PROVE  /\ D!State(found) \in {"unresolved", "resolved", "ambiguous"}
           /\ D!State(found) = "unresolved" => found = {}
           /\ D!State(found) = "resolved" => Any(found) \in found
<1>1. D!State(found) = "resolved" => found # {}
  BY DEF D!State
<1>2. found # {} => Any(found) \in found
  BY DEF Any
<1> QED BY <1>1, <1>2 DEF D!State

LEMMA CandidateIsTimely ==
    ASSUME DestinationsInv, NEW p \in Launchers, launch[p].at = "verify",
           NEW s \in D!Candidates(launch[p].capsule, launch[p].start)
    PROVE  \/ s.used >= launch[p].start
           \/ destination.agent = "opencode" /\ D!Second(s.born) >= D!Second(launch[p].start)
<1>1. PICK c \in Capsules, t \in Nat : c = launch[p].capsule /\ t = launch[p].start
  BY LaunchIs
<1>2. StoreTypes
  BY DEF DestinationsInv
<1>3. /\ s \in stored
      /\ destination.agent \in D!Pinning => s.id = D!Pinned(c)
      /\ destination.agent = "codex" => s.used >= t
      /\ destination.agent = "opencode" => D!Second(s.born) >= D!Second(t)
  BY <1>1, <1>2, CandidateIsOwn
<1>4. IsSession(s)
  BY <1>2, <1>3 DEF StoreTypes
<1>5. destination.agent \in D!Pinning => s.born >= t
  BY <1>1, <1>3, LaunchIs DEF LaunchSoFar
<1>6. destination.agent \in D!Pinning => s.used >= t
  BY <1>4, <1>5 DEF IsSession
<1>7. destination.agent \in D!Pinning \cup {"codex", "opencode"}
  BY <1>2 DEF StoreTypes, D!Destinations
<1> QED BY <1>1, <1>3, <1>6, <1>7

LEMMA VerifyInv ==
    ASSUME DestinationsInv, NEW p \in Launchers, D!Verify(p)
    PROVE  DestinationsInv'
<1>1. launch[p].at = "verify" /\ UNCHANGED <<destination, stored, ticks>>
  BY Zenon DEF D!Verify, D!Rest
<1>2. StoreTypes /\ ProcessTypes /\ ticks \in Nat
  BY DEF DestinationsInv, StoreTypes
<1>3. PICK c \in Capsules, start \in Nat, child \in Ids \cup {D!Nobody} :
         c = launch[p].capsule /\ start = launch[p].start /\ child = launch[p].child
  BY <1>1, LaunchIs
<1>4. PICK found : found = D!Candidates(c, start)
  OBVIOUS
<1>5. PICK state : state = D!State(found)
  OBVIOUS
<1>6. PICK one : one = Any(found)
  OBVIOUS
<1>7. PICK named : named = IF state = "resolved" THEN one.id ELSE D!PlanId(c)
  OBVIOUS
<1>8. PICK o : o = [capsule |-> c, start |-> start, child |-> child, state |-> state,
                    session |-> named]
  OBVIOUS
<1>9. outcomes' = [outcomes EXCEPT ![p] = o] /\ launch' = [launch EXCEPT ![p] = D!Idle]
  <2> DEFINE all == D!Candidates(launch[p].capsule, launch[p].start)
             x == [capsule |-> launch[p].capsule, start |-> launch[p].start,
                   child |-> launch[p].child, state |-> D!State(all),
                   session |-> IF D!State(all) = "resolved" THEN Any(all).id
                               ELSE D!PlanId(launch[p].capsule)]
  <2>1. outcomes' = [outcomes EXCEPT ![p] = x]
    BY Zenon DEF D!Verify, Any
  <2>2. all = found
    BY <1>3, <1>4
  <2> HIDE DEF all
  <2>3. D!State(all) = state /\ Any(all) = one
    BY <1>5, <1>6, <2>2
  <2>4. x = o
    BY <1>3, <1>7, <1>8, <2>2, <2>3
  <2> QED BY <2>1, <2>4 DEF D!Verify, D!Returns
<1>10. IsFiniteSet(found)
  BY <1>2, <1>4, CandidatesFinite
<1>11. /\ state \in {"unresolved", "resolved", "ambiguous"}
       /\ state = "unresolved" => found = {}
       /\ state = "resolved" => one \in found
  BY <1>5, <1>6, <1>10, StateIs
<1>12. \A s \in found : s \in stored /\ s.capsule = c /\ s.id \in Ids
  <2>1. \A s \in found : s \in stored /\ s.capsule = c
    BY <1>2, <1>4, CandidateIsOwn
  <2> QED BY <1>2, <2>1 DEF StoreTypes, IsSession
<1>13. o \in Outcomes
  <2>1. named \in Ids \cup {D!Nobody}
    BY <1>7, <1>11, <1>12, PlanIdIs
  <2> QED BY <1>8, <1>11, <2>1 DEF Outcomes
<1>14. /\ o.capsule = c /\ o.start = start /\ o.child = child /\ o.state = state
       /\ o.session = named
  BY <1>8
<1>15. launch'[p] = D!Idle /\ outcomes'[p] = o /\ ticks' \in Nat
  BY <1>1, <1>2, <1>9 DEF ProcessTypes
<1>16. LaunchSoFar(p)'
  BY <1>15, IdleSoFar
<1>17. o.child # D!Nobody => D!Exists(o.child)
  BY <1>3, <1>14, ChildIsStored
<1>18. ASSUME state = "resolved"
       PROVE  /\ \E s \in stored : s.id = o.session /\ s.capsule = o.capsule
              /\ D!Rivals(o) = {} => o.session = o.child
  <2>1. one \in stored /\ one.capsule = c /\ one.id = o.session
    BY <1>7, <1>11, <1>12, <1>14, <1>18
  <2>2. \/ one.used >= start
        \/ destination.agent = "opencode" /\ D!Second(one.born) >= D!Second(start)
    BY <1>1, <1>3, <1>4, <1>11, <1>18, CandidateIsTimely
  <2>3. one.id # o.child => one \in D!Rivals(o)
    BY <1>14, <2>1, <2>2 DEF D!Rivals
  <2> QED BY <1>14, <2>1, <2>3
<1>19. ASSUME NEW t \in stored, t.id = o.child, t.prompts = D!Told(o.capsule),
              destination.known
       PROVE  o.state # "unresolved"
  <2>1. IsSession(t)
    BY <1>2 DEF StoreTypes
  <2>2. child # D!Nobody
    BY <1>14, <1>19, <2>1, IdFacts DEF IsSession
  <2>3. LaunchSoFar(p)
    BY <1>1, LaunchIs
  <2>4. PICK s \in stored : s.id = child /\ s.capsule = c /\ s.born >= start
    BY <1>3, <2>2, <2>3 DEF LaunchSoFar
  <2>5. s = t
    BY <1>2, <1>14, <1>19, <2>4 DEF StoreTypes
  <2>6. destination.agent \in D!Pinning => t.id = D!Pinned(c)
    BY <1>3, <1>14, <1>19, <2>2, <2>3, PlanIdIs DEF LaunchSoFar
  <2>7. t \in found
    BY <1>2, <1>4, <1>14, <1>19, <2>4, <2>5, <2>6, BriefedIsCandidate
  <2> QED BY <1>11, <1>14, <2>7
<1>20. OutcomeIsTrue(p)'
  <2>1. D!Exists(o.child)' <=> D!Exists(o.child)
    BY <1>1 DEF D!Exists
  <2>2. D!Rivals(o)' = D!Rivals(o)
    BY <1>1 DEF D!Rivals
  <2>3. D!Told(o.capsule)' = D!Told(o.capsule)
    BY <1>1 DEF D!Told
  <2>4. o.state = "resolved" =>
           /\ \E s \in stored : s.id = o.session /\ s.capsule = o.capsule
           /\ D!Rivals(o) = {} => o.session = o.child
    BY <1>14, <1>18
  <2> QED BY <1>1, <1>15, <1>17, <1>19, <2>1, <2>2, <2>3, <2>4 DEF OutcomeIsTrue
<1>21. ticks' >= ticks /\ UNCHANGED ticks
  BY <1>1, <1>2
<1>22. StoreTypes' /\ StoreGrows /\ (\A q \in Launchers : NotBriefed(q))
  BY <1>1, <1>2, <1>15, <1>21, StoreStays
<1>23. PICK l \in Launches : l = D!Idle
  BY IdleIs
<1>24. l.child = D!Nobody /\ l.at = "idle" /\ launch' = [launch EXCEPT ![p] = l]
  BY <1>9, <1>23, IdleIs
<1>25. \A q \in Launchers \ {p} :
         /\ NotBriefed(q)
         /\ {l.child, o.child} \cap {launch[q].child, outcomes[q].child}
               \subseteq {D!Nobody}
  BY <1>3, <1>14, <1>22, <1>24 DEF DestinationsInv, ChildrenDiffer
<1> QED BY <1>9, <1>13, <1>16, <1>20, <1>21, <1>22, <1>24, <1>25, ProcessStepInv

------------------------------------------------------------------------------
(* The user's own steps, and the clock's.                                   *)
LEMMA UserAddsInv ==
    ASSUME DestinationsInv, Cardinality(stored) < MaxStored,
           UNCHANGED <<destination, ticks, launch, outcomes>>,
           NEW c \in Capsules \cup {D!Nobody}, NEW q,
           IF c = D!Nobody THEN q = <<D!Own>> ELSE q \in Prefixes(c),
           stored' = stored \cup {D!Session(D!Drawn, D!Nobody, c, q)}
    PROVE  DestinationsInv'
<1>1. StoreTypes /\ ticks \in Nat
  BY DEF DestinationsInv, StoreTypes
<1>2. PICK id : id = D!Drawn
  OBVIOUS
<1>3. (\E n \in Nat : id = <<"drawn", n>>) /\ \A s \in stored : s.id # id
  BY <1>1, <1>2, DrawnIsNew DEF StoreTypes
<1>4. id \in Ids /\ (\A d \in Capsules : id # D!Pinned(d))
  BY <1>3, IdFacts DEF Ids
<1>5. PICK new : new = D!Session(id, D!Nobody, c, q)
  OBVIOUS
<1>6. /\ new = [id |-> new.id, by |-> new.by, capsule |-> new.capsule,
                prompts |-> new.prompts, born |-> new.born, used |-> new.used]
      /\ new.id = id /\ new.capsule = c /\ new.prompts = q
      /\ new.born = ticks /\ new.used = ticks
  BY <1>5 DEF D!Session
<1>7. ticks <= ticks /\ ticks' >= ticks
  BY <1>1
<1>8. IsSession(new)
  BY <1>1, <1>4, <1>6, <1>7 DEF IsSession
<1>9. StoreTypes' /\ StoreGrows
  BY <1>1, <1>2, <1>3, <1>5, <1>6, <1>8, StoreAdds
<1>10. ASSUME NEW r \in Launchers PROVE NotBriefed(r)
  <2>1. outcomes[r].child # id
    BY <1>3, <1>4, ChildIsStored, IdFacts DEF D!Exists
  <2> QED BY <1>2, <1>5, <1>6, <2>1 DEF NotBriefed
<1> QED BY <1>7, <1>9, <1>10, OthersStepInv

LEMMA UserStartsInv ==
    ASSUME DestinationsInv, D!UserStarts
    PROVE  DestinationsInv'
<1>1. /\ Cardinality(stored) < MaxStored
      /\ UNCHANGED <<destination, ticks, launch, outcomes>>
      /\ \/ stored' = stored \cup {D!Session(D!Drawn, D!Nobody, D!Nobody, <<D!Own>>)}
         \/ \E s \in stored :
               stored' = stored \cup {D!Session(D!Drawn, D!Nobody, s.capsule, s.prompts)}
  BY CountIs DEF D!UserStarts, D!Uses
<1>2. CASE stored' = stored \cup {D!Session(D!Drawn, D!Nobody, D!Nobody, <<D!Own>>)}
  <2>1. PICK c, q : c \in Capsules \cup {D!Nobody} /\ c = D!Nobody /\ q = <<D!Own>>
    OBVIOUS
  <2> QED BY <1>1, <1>2, <2>1, UserAddsInv
<1>3. CASE \E s \in stored :
              stored' = stored \cup {D!Session(D!Drawn, D!Nobody, s.capsule, s.prompts)}
  <2>1. PICK s \in stored :
           stored' = stored \cup {D!Session(D!Drawn, D!Nobody, s.capsule, s.prompts)}
    BY <1>3
  <2>2. IsSession(s)
    BY DEF DestinationsInv, StoreTypes
  <2>3. PICK c, q : c = s.capsule /\ q = s.prompts
    OBVIOUS
  <2>4. /\ c \in Capsules \cup {D!Nobody}
        /\ IF c = D!Nobody THEN q = <<D!Own>> ELSE q \in Prefixes(c)
    BY <2>2, <2>3 DEF IsSession
  <2> QED BY <1>1, <2>1, <2>3, <2>4, UserAddsInv
<1> QED BY <1>1, <1>2, <1>3

LEMMA UserUsesInv ==
    ASSUME DestinationsInv, D!UserUses
    PROVE  DestinationsInv'
<1>1. StoreTypes /\ ticks \in Nat
  BY DEF DestinationsInv, StoreTypes
<1>2. UNCHANGED <<destination, ticks, launch, outcomes>>
  BY DEF D!UserUses, D!Uses
<1>3. PICK s \in stored : stored' = (stored \ {s}) \cup {[s EXCEPT !.used = ticks]}
  BY DEF D!UserUses
<1>4. IsSession(s)
  BY <1>1 DEF StoreTypes
<1>5. PICK new : new = [s EXCEPT !.used = ticks]
  OBVIOUS
<1>6. s = [id |-> s.id, by |-> s.by, capsule |-> s.capsule, prompts |-> s.prompts,
           born |-> s.born, used |-> s.used]
  BY <1>4 DEF IsSession
<1>7. /\ new.id = s.id /\ new.capsule = s.capsule /\ new.born = s.born
      /\ new.prompts = s.prompts /\ new.used = ticks
      /\ new = [id |-> new.id, by |-> new.by, capsule |-> new.capsule,
                prompts |-> new.prompts, born |-> new.born, used |-> new.used]
  BY <1>5, <1>6
<1>8. /\ s.used \in Nat /\ s.born \in Nat /\ s.used <= ticks /\ s.born <= ticks
      /\ ticks <= ticks /\ ticks' >= ticks
  BY <1>1, <1>2, <1>4 DEF IsSession
<1>9. IsSession(new)
  BY <1>1, <1>4, <1>7, <1>8 DEF IsSession
<1>10. StoreTypes' /\ StoreGrows
  BY <1>1, <1>2, <1>3, <1>5, <1>7, <1>8, <1>9, StoreReplaces
<1>11. ASSUME NEW r \in Launchers PROVE NotBriefed(r)
  BY <1>3, <1>5, <1>7 DEF NotBriefed
<1> QED BY <1>2, <1>8, <1>10, <1>11, OthersStepInv

LEMMA TickInv ==
    ASSUME DestinationsInv, D!Tick
    PROVE  DestinationsInv'
<1>1. StoreTypes /\ ticks \in Nat
  BY DEF DestinationsInv, StoreTypes
<1>2. UNCHANGED <<destination, stored, launch, outcomes>> /\ ticks' = ticks + 1
  BY DEF D!Tick, D!Rest
<1>3. ticks' \in Nat /\ ticks' >= ticks
  BY <1>1, <1>2
<1>4. StoreTypes' /\ StoreGrows /\ (\A p \in Launchers : NotBriefed(p))
  BY <1>1, <1>2, <1>3, StoreStays
<1> QED BY <1>2, <1>3, <1>4, OthersStepInv

LEMMA DestinationsStaysInv ==
    ASSUME DestinationsInv, UNCHANGED D!destinationVars
    PROVE  DestinationsInv'
<1>1. StoreTypes /\ ticks \in Nat
  BY DEF DestinationsInv, StoreTypes
<1>2. UNCHANGED <<destination, stored, ticks, launch, outcomes>>
  BY DEF D!destinationVars
<1>3. ticks' \in Nat /\ ticks' >= ticks
  BY <1>1, <1>2
<1>4. StoreTypes' /\ StoreGrows /\ (\A p \in Launchers : NotBriefed(p))
  BY <1>1, <1>2, <1>3, StoreStays
<1> QED BY <1>2, <1>3, <1>4, OthersStepInv

------------------------------------------------------------------------------
(* The invariant, and what it says of the outcomes.                         *)
LEMMA DestinationsInitInv == D!DestinationsInit => DestinationsInv
<1> SUFFICES ASSUME D!DestinationsInit PROVE DestinationsInv
  OBVIOUS
<1>1. /\ stored = {} /\ ticks = 0
      /\ launch = [p \in Launchers |-> D!Idle]
      /\ outcomes = [p \in Launchers |-> D!NoOutcome]
  BY DEF D!DestinationsInit
<1>2. StoreTypes
  <2>1. destination.agent \in D!Destinations
    BY DEF D!DestinationsInit
  <2>2. destination.agent \notin {"claude", "qwen"} => destination.known = TRUE
    BY DEF D!DestinationsInit
  <2>3. IsFiniteSet(stored)
    BY <1>1, FS_EmptySet
  <2> QED BY <1>1, <2>1, <2>2, <2>3 DEF StoreTypes
<1>3. \A p \in Launchers : launch[p] = D!Idle /\ outcomes[p] = D!NoOutcome
  BY <1>1
<1>4. ProcessTypes
  BY <1>1, IdleIs, NoOutcomeIs DEF ProcessTypes
<1>5. ChildrenDiffer
  BY <1>3, IdleIs, NoOutcomeIs DEF ChildrenDiffer
<1>6. ASSUME NEW p \in Launchers PROVE LaunchSoFar(p) /\ OutcomeIsTrue(p)
  <2>1. LaunchSoFar(p)
    BY <1>1, <1>3, IdleIs DEF LaunchSoFar
  <2>2. OutcomeIsTrue(p)
    BY <1>3 DEF OutcomeIsTrue
  <2> QED BY <2>1, <2>2
<1> QED BY <1>2, <1>4, <1>5, <1>6 DEF DestinationsInv

LEMMA DestinationsStepInv ==
    DestinationsInv /\ [D!DestinationsNext]_(D!destinationVars) => DestinationsInv'
<1> SUFFICES ASSUME DestinationsInv, [D!DestinationsNext]_(D!destinationVars)
             PROVE  DestinationsInv'
  OBVIOUS
<1>1. CASE UNCHANGED D!destinationVars
  BY <1>1, DestinationsStaysInv
<1>2. ASSUME NEW p \in Launchers, NEW c \in Capsules, D!Plan(p, c) PROVE DestinationsInv'
  BY <1>2, PlanInv
<1>3. ASSUME NEW p \in Launchers, D!Materialize(p) PROVE DestinationsInv'
  BY <1>3, MaterializeInv
<1>4. ASSUME NEW p \in Launchers, D!Exec(p) PROVE DestinationsInv'
  BY <1>4, ExecInv
<1>5. ASSUME NEW p \in Launchers, D!ChildOpens(p) PROVE DestinationsInv'
  BY <1>5, ChildOpensInv
<1>6. ASSUME NEW p \in Launchers, D!ChildPrompted(p) PROVE DestinationsInv'
  BY <1>6, ChildPromptedInv
<1>7. ASSUME NEW p \in Launchers, D!ChildEnds(p) PROVE DestinationsInv'
  BY <1>7, ChildEndsInv
<1>8. ASSUME NEW p \in Launchers, D!Verify(p) PROVE DestinationsInv'
  BY <1>8, VerifyInv
<1>9. CASE D!UserStarts
  BY <1>9, UserStartsInv
<1>10. CASE D!UserUses
  BY <1>10, UserUsesInv
<1>11. CASE D!Tick
  BY <1>11, TickInv
<1> QED BY <1>1, <1>2, <1>3, <1>4, <1>5, <1>6, <1>7, <1>8, <1>9, <1>10, <1>11
       DEF D!DestinationsNext

LEMMA DestinationsInvResolves == DestinationsInv => D!ResolvedIsTheHandoff
<1> SUFFICES ASSUME DestinationsInv PROVE D!ResolvedIsTheHandoff
  OBVIOUS
<1>1. \A p \in Launchers : OutcomeIsTrue(p)
  BY DEF DestinationsInv
<1> QED BY <1>1, Zenon DEF OutcomeIsTrue, D!ResolvedIsTheHandoff

------------------------------------------------------------------------------
(* A step of the check leaves the locker and the account alone.             *)
LEMMA LockerStays ==
    ASSUME LockerTypes, UNCHANGED <<world, locker, access>>,
           bounds' = [pushes |-> bounds'.pushes, changes |-> bounds'.changes,
                      checks |-> bounds'.checks],
           bounds'.pushes = bounds.pushes
    PROVE  LockerTypes'
  BY DEF LockerTypes

LEMMA CheckStepInv ==
    ASSUME VerificationInv, V!Still, CheckTypes', KeysSoFar', FoundSoFar', ProbedSoFar',
           V!Reported' => check'.outcome = V!Outcome'
    PROVE  VerificationInv'
<1>1. UNCHANGED <<world, locker, access, console, bounds>>
  BY DEF V!Still
<1>2. LockerTypes'
  BY <1>1, LockerStays DEF VerificationInv, LockerTypes
<1> QED BY <1>1, <1>2, Zenon DEF VerificationInv

LEMMA NoCheckIs ==
    LET n == V!NoCheck
    IN /\ IsCheck(n)
       /\ n.at = "idle" /\ n.key = 0 /\ n.listed = {} /\ n.got = <<>>
       /\ n.verdict = [s \in V!Steps |-> "na"] /\ n.seen = <<>>
       /\ n.plaintext = FALSE /\ n.foreign = FALSE /\ n.wrongKey = FALSE
       /\ n.unreached = FALSE /\ n.trouble = {}
  BY DEF V!NoCheck, IsCheck

LEMMA StepsAre ==
    /\ V!Steps = {"list", "ciphertext", "decrypt", "isolation"}
    /\ V!Verdicts = {"pass", "na", "fail"}
  BY DEF V!Steps, V!Verdicts

(* A check that has found nothing yet.                                      *)
LEMMA NothingFound ==
    ASSUME IsCheck(check'), check'.at \in {"idle", "list", "done"},
           check'.key \in Nat, check'.key <= access'.key,
           check'.at = "list" => check'.key = access'.key,
           check'.listed = {}, check'.got = <<>>,
           check'.verdict = [s \in V!Steps |-> "na"], check'.seen = <<>>,
           ~ check'.plaintext, ~ check'.foreign, ~ check'.wrongKey,
           "none" \in check'.trouble => check'.at = "done" /\ check'.unreached
    PROVE  CheckTypes' /\ KeysSoFar' /\ FoundSoFar' /\ ProbedSoFar'
<1>1. \A s \in V!Steps : check'.verdict[s] = "na"
  OBVIOUS
<1>2. CheckTypes'
  BY <1>1, StepsAre DEF CheckTypes, Running
<1>3. KeysSoFar'
  BY DEF KeysSoFar, Running
<1>4. FoundSoFar'
  BY <1>1, StepsAre DEF FoundSoFar
<1>5. ProbedSoFar'
  BY <1>1, StepsAre DEF ProbedSoFar
<1> QED BY <1>2, <1>3, <1>4, <1>5

LEMMA CheckBeginsInv ==
    ASSUME VerificationInv, NEW hook, V!Begin(hook) \/ V!NotStarted(hook)
    PROVE  VerificationInv'
<1>1. UNCHANGED <<world, locker, access, console>>
      /\ bounds' = [bounds EXCEPT !.checks = bounds.checks + 1]
  BY DEF V!Begin, V!NotStarted
<1>2. LockerTypes' /\ access'.key \in Nat
  BY <1>1, LockerStays DEF VerificationInv, LockerTypes
<1>3. PICK n : n = V!NoCheck
  OBVIOUS
<1>4. /\ IsCheck(n)
      /\ n.key = 0 /\ n.listed = {} /\ n.got = <<>>
      /\ n.verdict = [s \in V!Steps |-> "na"] /\ n.seen = <<>>
      /\ n.plaintext = FALSE /\ n.foreign = FALSE /\ n.wrongKey = FALSE
      /\ n.unreached = FALSE /\ n.trouble = {}
  BY <1>3, NoCheckIs
<1>5. PICK x : x = check'
  OBVIOUS
<1>6. CASE V!Begin(hook)
  <2>1. x = [n EXCEPT !.at = "list", !.hook = hook, !.key = access.key]
    BY <1>3, <1>5, <1>6 DEF V!Begin
  <2>2. /\ IsCheck(x)
        /\ x.at = "list" /\ x.key = access'.key /\ x.listed = {} /\ x.got = <<>>
        /\ x.verdict = [s \in V!Steps |-> "na"] /\ x.seen = <<>>
        /\ x.plaintext = FALSE /\ x.foreign = FALSE /\ x.wrongKey = FALSE
        /\ x.trouble = {}
    BY <1>1, <1>4, <2>1 DEF IsCheck
  <2>3. x.key <= access'.key /\ "none" \notin x.trouble
    BY <1>2, <2>2
  <2>4. CheckTypes' /\ KeysSoFar' /\ FoundSoFar' /\ ProbedSoFar'
    BY <1>2, <1>5, <2>2, <2>3, NothingFound
  <2>5. ~ V!Reported'
    BY <1>5, <2>2 DEF V!Reported
  <2> QED BY <1>1, <1>2, <2>4, <2>5, Zenon DEF VerificationInv
<1>7. CASE V!NotStarted(hook)
  <2>1. x = [n EXCEPT !.at = "done", !.unreached = TRUE, !.outcome = "na",
                      !.trouble = {"none"}]
    BY <1>3, <1>5, <1>7 DEF V!NotStarted
  <2>2. /\ IsCheck(x)
        /\ x.at = "done" /\ x.key = 0 /\ x.listed = {} /\ x.got = <<>>
        /\ x.verdict = [s \in V!Steps |-> "na"] /\ x.seen = <<>>
        /\ x.plaintext = FALSE /\ x.foreign = FALSE /\ x.wrongKey = FALSE
        /\ x.unreached = TRUE /\ x.outcome = "na"
    BY <1>4, <2>1 DEF IsCheck
  <2>3. x.key <= access'.key
    BY <1>2, <2>2
  <2>4. CheckTypes' /\ KeysSoFar' /\ FoundSoFar' /\ ProbedSoFar'
    BY <1>2, <1>5, <2>2, <2>3, NothingFound
  <2>5. V!Outcome' = "na"
    BY <1>5, <2>2, StepsAre DEF V!Outcome
  <2> QED BY <1>1, <1>2, <1>5, <2>2, <2>4, <2>5, Zenon DEF VerificationInv
<1> QED BY <1>6, <1>7

LEMMA EndsInv ==
    ASSUME VerificationInv, V!Ends
    PROVE  VerificationInv'
<1>1. UNCHANGED <<world, locker, access, console, bounds>> /\ check' = V!NoCheck
  BY DEF V!Ends
<1>2. V!Still
  BY <1>1 DEF V!Still
<1>3. access'.key \in Nat
  BY <1>1 DEF VerificationInv, LockerTypes
<1>4. CheckTypes' /\ KeysSoFar' /\ FoundSoFar' /\ ProbedSoFar'
  BY <1>1, <1>3, NoCheckIs, NothingFound
<1>5. ~ V!Reported'
  BY <1>1, NoCheckIs DEF V!Reported
<1> QED BY <1>2, <1>4, <1>5, CheckStepInv

(* The report.                                                              *)
LEMMA ConcludeInv ==
    ASSUME VerificationInv, V!Conclude
    PROVE  VerificationInv'
<1>1. check.at = "outcome" /\ V!Still /\ UNCHANGED <<world, locker, access>>
  BY DEF V!Conclude, V!At, V!Still
<1>2. PICK c, x : c = check /\ x = check'
  OBVIOUS
<1>3. PICK k \in Nat : k = 0
  OBVIOUS
<1>4. PICK e : e = {}
  OBVIOUS
<1>5. x = [c EXCEPT !.at = "report", !.outcome = V!Outcome, !.key = k,
                    !.listed = e, !.named = e, !.credential = k]
  BY <1>2, <1>3, <1>4 DEF V!Conclude
<1>6. IsCheck(c)
  BY <1>2 DEF VerificationInv, CheckTypes
<1>7. /\ IsCheck(x)
      /\ x.at = "report" /\ x.outcome = V!Outcome /\ x.key = k /\ x.listed = e
      /\ x.got = c.got /\ x.verdict = c.verdict /\ x.row = c.row /\ x.seen = c.seen
      /\ x.plaintext = c.plaintext /\ x.foreign = c.foreign /\ x.wrongKey = c.wrongKey
      /\ x.unreached = c.unreached /\ x.trouble = c.trouble
  BY <1>5, <1>6 DEF IsCheck
<1>8. CheckTypes'
  BY <1>2, <1>7 DEF VerificationInv, CheckTypes
<1>9. KeysSoFar'
  BY <1>1, <1>2, <1>3, <1>4, <1>7 DEF VerificationInv, KeysSoFar, LockerTypes, Running
<1>10. FoundSoFar'
  BY <1>1, <1>2, <1>7 DEF VerificationInv, FoundSoFar, Plain, Troubled
<1>11. ProbedSoFar'
  BY <1>1, <1>2, <1>7 DEF VerificationInv, ProbedSoFar, IsAnswer
<1>12. V!Outcome' = V!Outcome
  BY <1>2, <1>7 DEF V!Outcome
<1> QED BY <1>1, <1>2, <1>7, <1>8, <1>9, <1>10, <1>11, <1>12, CheckStepInv

LEMMA PostInv ==
    ASSUME VerificationInv, NEW arrives \in BOOLEAN, V!Post(arrives)
    PROVE  VerificationInv'
<1>1. check.at = "report" /\ UNCHANGED <<world, locker, access, bounds>>
  BY DEF V!Post, V!At
<1>2. PICK c, x : c = check /\ x = check'
  OBVIOUS
<1>3. x = [c EXCEPT !.at = "done"]
  BY <1>2 DEF V!Post
<1>4. IsCheck(c)
  BY <1>2 DEF VerificationInv, CheckTypes
<1>5. /\ IsCheck(x) /\ x.at = "done" /\ x.key = c.key /\ x.listed = c.listed
      /\ x.got = c.got /\ x.verdict = c.verdict /\ x.row = c.row /\ x.seen = c.seen
      /\ x.plaintext = c.plaintext /\ x.foreign = c.foreign /\ x.wrongKey = c.wrongKey
      /\ x.unreached = c.unreached /\ x.trouble = c.trouble /\ x.outcome = c.outcome
  BY <1>3, <1>4 DEF IsCheck
<1>6. CheckTypes'
  BY <1>2, <1>5 DEF VerificationInv, CheckTypes
<1>7. KeysSoFar'
  BY <1>1, <1>2, <1>5 DEF VerificationInv, KeysSoFar, Running
<1>8. FoundSoFar'
  BY <1>1, <1>2, <1>5 DEF VerificationInv, FoundSoFar, Plain, Troubled
<1>9. ProbedSoFar'
  BY <1>1, <1>2, <1>5 DEF VerificationInv, ProbedSoFar, IsAnswer
<1>10. V!Outcome' = V!Outcome
  BY <1>2, <1>5 DEF V!Outcome
<1>11. check'.outcome = V!Outcome'
  BY <1>1, <1>2, <1>5, <1>10 DEF VerificationInv, V!Reported
<1>12. LockerTypes'
  BY <1>1, LockerStays DEF VerificationInv, LockerTypes
<1>13. console'.recorded => console'.posted # {}
  <2>1. PICK answered \in BOOLEAN, saved \in BOOLEAN :
          /\ answered => arrives
          /\ console' = IF world.hosted /\ check.outcome # "na"
                        THEN [posted |-> console.posted
                                            \cup (IF arrives THEN {check.outcome} ELSE {}),
                              recorded |-> console.recorded \/ (check.hook /\ answered /\ saved)]
                        ELSE console
    BY DEF V!Post
  <2> QED BY <2>1 DEF VerificationInv
<1> QED BY <1>6, <1>7, <1>8, <1>9, <1>11, <1>12, <1>13, Zenon DEF VerificationInv

------------------------------------------------------------------------------
(* The listing, and what is fetched and opened.                             *)
LEMMA RepliesAre ==
    ASSUME NEW reply \in V!Replies
    PROVE  /\ reply \in {"ok", "none", "internal", "refused"}
           /\ V!Answered(reply) <=> reply # "none"
           /\ check.trouble \subseteq V!Noted(reply)
           /\ reply # "ok" => reply \in V!Noted(reply)
           /\ "none" \in V!Noted(reply) => reply = "none" \/ "none" \in check.trouble
  BY DEF V!Replies, V!Answered, V!Noted

LEMMA ListInv ==
    ASSUME VerificationInv, V!List
    PROVE  VerificationInv'
<1>1. check.at = "list" /\ V!Still /\ UNCHANGED <<world, locker, access>>
  BY DEF V!List, V!At, V!Still
<1>2. PICK c, x : c = check /\ x = check'
  OBVIOUS
<1>3. IsCheck(c)
  BY <1>2 DEF VerificationInv, CheckTypes
<1>4. PICK reply \in V!Replies :
          LET verdict == IF reply # "ok" THEN IF V!Answered(reply) THEN "fail" ELSE "na"
                         ELSE IF locker.named = {} THEN "na" ELSE "pass"
              fetches == reply = "ok" /\ locker.named # {}
          IN x = [c EXCEPT
                !.at = IF fetches THEN "index" ELSE "isolation",
                !.listed = IF reply = "ok" THEN locker.objects ELSE {},
                !.credential = access.credential,
                !.verdict.list = verdict,
                !.verdict.ciphertext = IF fetches THEN "pass" ELSE "na",
                !.unreached = ~ V!Answered(reply), !.trouble = V!Noted(reply)]
  BY <1>2 DEF V!List
<1>5. PICK fetches \in BOOLEAN : fetches <=> (reply = "ok" /\ locker.named # {})
  OBVIOUS
<1>6. PICK verdict : verdict = IF reply # "ok" THEN IF V!Answered(reply) THEN "fail" ELSE "na"
                               ELSE IF locker.named = {} THEN "na" ELSE "pass"
  OBVIOUS
<1>7. PICK unreached \in BOOLEAN : unreached <=> ~ V!Answered(reply)
  OBVIOUS
<1>8. PICK a : a = IF fetches THEN "index" ELSE "isolation"
  OBVIOUS
<1>9. PICK cipher : cipher = IF fetches THEN "pass" ELSE "na"
  OBVIOUS
<1>10. PICK listed : listed = IF reply = "ok" THEN locker.objects ELSE {}
  OBVIOUS
<1>11. PICK noted : noted = V!Noted(reply)
  OBVIOUS
<1>12. x = [c EXCEPT !.at = a, !.listed = listed, !.credential = access.credential,
                     !.verdict.list = verdict, !.verdict.ciphertext = cipher,
                     !.unreached = unreached, !.trouble = noted]
  BY <1>4, <1>5, <1>6, <1>7, <1>8, <1>9, <1>10, <1>11
<1>13. /\ IsCheck(x) /\ x.at = a /\ x.key = c.key /\ x.listed = listed
       /\ x.got = c.got /\ x.seen = c.seen
       /\ x.plaintext = c.plaintext /\ x.foreign = c.foreign /\ x.wrongKey = c.wrongKey
       /\ x.unreached = unreached /\ x.trouble = noted
       /\ x.verdict = [c.verdict EXCEPT !["list"] = verdict, !["ciphertext"] = cipher]
  BY <1>3, <1>12 DEF IsCheck
<1>14. verdict \in V!Verdicts /\ cipher \in {"pass", "na"} /\ a \in {"index", "isolation"}
  BY <1>6, <1>8, <1>9, StepsAre
<1>15. /\ c.got = <<>> /\ c.verdict = [s \in V!Steps |-> "na"]
       /\ ~ c.plaintext /\ ~ c.wrongKey /\ "none" \notin c.trouble
       /\ c.seen = <<>> /\ ~ c.foreign
  BY <1>1, <1>2 DEF VerificationInv, FoundSoFar, ProbedSoFar
<1>16. /\ x.verdict["list"] = verdict /\ x.verdict["ciphertext"] = cipher
       /\ x.verdict["decrypt"] = "na" /\ x.verdict["isolation"] = "na"
       /\ x.verdict \in [V!Steps -> V!Verdicts]
  BY <1>13, <1>14, <1>15, StepsAre
<1>17. CheckTypes'
  BY <1>2, <1>13, <1>14, <1>16 DEF VerificationInv, CheckTypes, Running
<1>18. KeysSoFar'
  BY <1>1, <1>2, <1>10, <1>11, <1>13, <1>14, <1>15, RepliesAre
     DEF VerificationInv, KeysSoFar, Running
<1>19. FoundSoFar'
  <2>1. verdict = "fail" => Troubled'
    BY <1>2, <1>6, <1>11, <1>13, RepliesAre DEF Troubled
  <2>2. "none" \in noted => unreached
    BY <1>2, <1>7, <1>11, <1>15, RepliesAre
  <2>3. verdict = "pass" => a = "index"
    BY <1>5, <1>6, <1>8
  <2> QED BY <1>2, <1>13, <1>14, <1>15, <1>16, <2>1, <2>2, <2>3 DEF FoundSoFar
<1>20. ProbedSoFar'
  BY <1>2, <1>13, <1>14, <1>15, <1>16 DEF ProbedSoFar
<1>21. ~ V!Reported'
  BY <1>2, <1>13, <1>14 DEF V!Reported
<1> QED BY <1>1, <1>17, <1>18, <1>19, <1>20, <1>21, CheckStepInv

LEMMA DegradeIs ==
    ASSUME NEW v \in V!Verdicts, NEW to \in V!Verdicts
    PROVE  /\ V!Degrade(v, to) \in V!Verdicts
           /\ V!Degrade(v, to) = "fail" <=> v = "fail" \/ to = "fail"
           /\ V!Degrade(v, to) = "pass" <=> v = "pass" /\ to = "pass"
  BY StepsAre DEF V!Degrade

LEMMA FetchedInv ==
    ASSUME VerificationInv, check.at \in {"index", "snapshot"}, V!Still,
           NEW o \in [name : {"index", "snapshot"}, body : {"sealed", "plain", "large"},
                      key : Nat],
           o.key <= access.key, o.body = "plain" => Plain,
           NEW reply \in V!Replies, NEW next \in {"snapshot", "decrypt"},
           V!Fetched(o, reply, next)
    PROVE  VerificationInv'
<1>1. UNCHANGED <<world, locker, access>>
  BY DEF V!Still
<1>2. PICK c, x : c = check /\ x = check'
  OBVIOUS
<1>3. IsCheck(c) /\ c.verdict \in [V!Steps -> V!Verdicts] /\ c.got \in Seq(Objects)
  BY <1>2 DEF VerificationInv, CheckTypes
<1>4. PICK refused \in BOOLEAN : refused <=> (reply # "ok" \/ o.body = "large")
  OBVIOUS
<1>5. PICK to : to = IF reply # "ok" /\ ~ V!Answered(reply) THEN "na"
                     ELSE IF refused \/ o.body = "plain" THEN "fail" ELSE "pass"
  OBVIOUS
<1>6. PICK got : got = IF refused THEN c.got ELSE Append(c.got, o)
  OBVIOUS
<1>7. PICK cipher : cipher = V!Degrade(c.verdict["ciphertext"], to)
  OBVIOUS
<1>8. PICK plaintext \in BOOLEAN : plaintext <=> c.plaintext \/ (~ refused /\ o.body = "plain")
  OBVIOUS
<1>9. PICK unreached \in BOOLEAN : unreached <=> c.unreached \/ to = "na"
  OBVIOUS
<1>10. PICK named : named = IF o.name = "index" /\ ~ refused THEN locker.named ELSE c.named
  OBVIOUS
<1>11. PICK noted : noted = IF reply = "ok" /\ o.body = "large" THEN c.trouble \cup {"large"}
                            ELSE V!Noted(reply)
  OBVIOUS
<1>12. x = [c EXCEPT !.at = next, !.got = got, !.verdict.ciphertext = cipher,
                     !.plaintext = plaintext, !.unreached = unreached, !.named = named,
                     !.trouble = noted]
  BY <1>2, <1>4, <1>5, <1>6, <1>7, <1>8, <1>9, <1>10, <1>11 DEF V!Fetched
<1>13. /\ IsCheck(x) /\ x.at = next /\ x.key = c.key /\ x.listed = c.listed
       /\ x.got = got /\ x.seen = c.seen
       /\ x.plaintext = plaintext /\ x.foreign = c.foreign /\ x.wrongKey = c.wrongKey
       /\ x.unreached = unreached /\ x.trouble = noted
       /\ x.verdict = [c.verdict EXCEPT !["ciphertext"] = cipher]
  BY <1>3, <1>12 DEF IsCheck
<1>14. to \in V!Verdicts /\ c.verdict["ciphertext"] \in V!Verdicts
  BY <1>3, <1>5, StepsAre
<1>15. /\ cipher \in V!Verdicts
       /\ cipher = "fail" <=> c.verdict["ciphertext"] = "fail" \/ to = "fail"
  BY <1>7, <1>14, DegradeIs
<1>16. /\ x.verdict["list"] = c.verdict["list"] /\ x.verdict["ciphertext"] = cipher
       /\ x.verdict["decrypt"] = c.verdict["decrypt"]
       /\ x.verdict["isolation"] = c.verdict["isolation"]
       /\ x.verdict \in [V!Steps -> V!Verdicts]
  BY <1>3, <1>13, <1>15, StepsAre
<1>17. /\ got \in Seq(Objects)
       /\ \A i \in DOMAIN got : (i \in DOMAIN c.got /\ got[i] = c.got[i]) \/ got[i] = o
       /\ (\E i \in DOMAIN got : got[i] = o /\ i \notin DOMAIN c.got) => ~ refused
       /\ ~ refused => got # <<>>
       /\ c.got # <<>> => got # <<>>
  <2>1. CASE refused
    BY <1>3, <1>6, <2>1
  <2>2. CASE ~ refused
    <3>1. o \in Objects
      BY <1>4, <2>2 DEF Objects
    <3>2. PICK g \in Seq(Objects) : g = c.got
      BY <1>3
    <3>3. got = Append(g, o)
      BY <1>6, <2>2, <3>2
    <3>4. /\ got \in Seq(Objects) /\ got # <<>> /\ Len(got) = Len(g) + 1
          /\ \A i \in 1..Len(g) : got[i] = g[i]
          /\ got[Len(g) + 1] = o
      BY <3>1, <3>3, AppendProperties
    <3>5. DOMAIN got = 1..Len(got) /\ DOMAIN g = 1..Len(g) /\ Len(g) \in Nat
      BY <3>4, LenProperties
    <3>6. \A i \in DOMAIN got : i \in 1..Len(g) \/ i = Len(g) + 1
      BY <3>4, <3>5
    <3> QED BY <2>2, <3>2, <3>4, <3>5, <3>6
  <2> QED BY <2>1, <2>2
<1>18. c.trouble \subseteq noted
  BY <1>2, <1>11, RepliesAre
<1>19. to = "fail" => Troubled' \/ Plain'
  <2>1. reply \notin {"ok", "none"} => Troubled'
    BY <1>2, <1>11, <1>13, RepliesAre DEF Troubled
  <2>2. reply = "ok" /\ o.body = "large" => Troubled'
    BY <1>2, <1>11, <1>13 DEF Troubled
  <2>3. o.body = "plain" => Plain'
    BY <1>1 DEF Plain
  <2> QED BY <1>4, <1>5, <2>1, <2>2, <2>3, RepliesAre
<1>20. Troubled => Troubled'
  BY <1>2, <1>13, <1>18 DEF Troubled
<1>21. Plain' <=> Plain
  BY <1>1 DEF Plain
<1>22. CheckTypes'
  BY <1>2, <1>13, <1>16, <1>17 DEF VerificationInv, CheckTypes, Running
<1>23. KeysSoFar'
  <2>1. \A i \in DOMAIN got : got[i].key <= access.key
    BY <1>2, <1>17 DEF VerificationInv, KeysSoFar
  <2> QED BY <1>1, <1>2, <1>13, <1>18, <2>1 DEF VerificationInv, KeysSoFar, Running
<1>24. FoundSoFar'
  <2>1. FoundSoFar
    BY DEF VerificationInv
  <2>2. plaintext => Plain /\ cipher = "fail"
    <3>1. ~ refused /\ o.body = "plain" => to = "fail"
      BY <1>4, <1>5
    <3> QED BY <1>2, <1>8, <1>15, <2>1, <3>1 DEF FoundSoFar
  <2>3. ASSUME NEW i \in DOMAIN got, got[i].body = "plain" PROVE Plain /\ cipher = "fail"
    <3>1. CASE i \in DOMAIN c.got /\ got[i] = c.got[i]
      BY <1>2, <1>15, <2>1, <2>3, <3>1 DEF FoundSoFar
    <3>2. CASE got[i] = o /\ i \notin DOMAIN c.got
      <4>1. ~ refused
        BY <1>17, <2>3, <3>2
      <4>2. to = "fail"
        BY <1>4, <1>5, <2>3, <3>2, <4>1
      <4> QED BY <1>15, <2>3, <3>2, <4>2
    <3>3. CASE got[i] = o /\ i \in DOMAIN c.got /\ got[i] # c.got[i]
      BY <1>3, <1>4, <1>5, <1>6, <1>15, <1>17, <2>3, <3>3
    <3> QED BY <1>17, <3>1, <3>2, <3>3
  <2>4. \A s \in {"list", "ciphertext", "decrypt"} :
           x.verdict[s] = "fail" => Troubled' \/ Plain'
    BY <1>2, <1>15, <1>16, <1>19, <1>20, <1>21, <2>1 DEF FoundSoFar
  <2>5. "none" \in noted => unreached
    BY <1>2, <1>5, <1>9, <1>11, <2>1, RepliesAre DEF FoundSoFar
  <2>6. c.verdict["list"] = "pass" => got # <<>> \/ cipher = "fail" \/ unreached
    <3>1. ~ refused \/ to = "fail" \/ to = "na"
      BY <1>5
    <3> QED BY <1>9, <1>15, <1>17, <3>1
  <2>7. c.wrongKey => got # <<>> /\ c.verdict["decrypt"] = "fail"
    BY <1>2, <1>17, <2>1 DEF FoundSoFar
  <2> QED BY <1>2, <1>13, <1>16, <1>21, <2>2, <2>3, <2>4, <2>5, <2>6, <2>7 DEF FoundSoFar
<1>25. ProbedSoFar'
  BY <1>2, <1>13, <1>16 DEF VerificationInv, ProbedSoFar
<1>26. ~ V!Reported'
  BY <1>2, <1>13 DEF V!Reported
<1> QED BY <1>22, <1>23, <1>24, <1>25, <1>26, CheckStepInv

LEMMA FetchIndexInv ==
    ASSUME VerificationInv, V!FetchIndex
    PROVE  VerificationInv'
<1>1. check.at = "index" /\ V!Still
  BY DEF V!FetchIndex, V!At
<1>2. PICK next \in {"snapshot", "decrypt"} :
         next = IF check.listed = {} THEN "decrypt" ELSE "snapshot"
  OBVIOUS
<1>3. PICK o : o = V!Object("index", world.index, locker.key)
  OBVIOUS
<1>4. PICK reply \in V!Replies : V!Fetched(o, reply, next)
  BY <1>2, <1>3 DEF V!FetchIndex
<1>5. /\ o \in [name : {"index", "snapshot"}, body : {"sealed", "plain", "large"}, key : Nat]
      /\ o.key <= access.key /\ o.body = world.index
  BY <1>3 DEF V!Object, VerificationInv, LockerTypes
<1>6. o.body = "plain" => Plain
  BY <1>5 DEF Plain
<1> QED BY <1>1, <1>4, <1>5, <1>6, FetchedInv

LEMMA FetchSnapshotInv ==
    ASSUME VerificationInv, V!FetchSnapshot
    PROVE  VerificationInv'
<1>1. check.at = "snapshot" /\ V!Still
  BY DEF V!FetchSnapshot, V!At
<1>2. PICK next \in {"snapshot", "decrypt"} : next = "decrypt"
  OBVIOUS
<1>3. PICK reply \in V!Replies, n \in V!Chosen :
         V!Fetched(V!Object("snapshot", world.snapshots, locker.keys[n]), reply, next)
  BY <1>2 DEF V!FetchSnapshot
<1>4. n \in check.listed
  BY DEF V!Chosen
<1>5. locker.keys[n] \in Nat /\ locker.keys[n] <= access.key
  BY <1>4 DEF VerificationInv, KeysSoFar, LockerTypes
<1>6. PICK o : o = V!Object("snapshot", world.snapshots, locker.keys[n])
  OBVIOUS
<1>7. /\ o \in [name : {"index", "snapshot"}, body : {"sealed", "plain", "large"}, key : Nat]
      /\ o.key <= access.key /\ o.body = world.snapshots
  BY <1>5, <1>6 DEF V!Object, VerificationInv, LockerTypes
<1>8. o.body = "plain" => Plain
  BY <1>7 DEF Plain
<1> QED BY <1>1, <1>3, <1>6, <1>7, <1>8, FetchedInv

LEMMA DecryptInv ==
    ASSUME VerificationInv, V!Decrypt
    PROVE  VerificationInv'
<1>1. check.at = "decrypt" /\ V!Still /\ UNCHANGED <<world, locker, access>>
  BY DEF V!Decrypt, V!At, V!Still
<1>2. PICK c, x : c = check /\ x = check'
  OBVIOUS
<1>3. IsCheck(c) /\ c.verdict \in [V!Steps -> V!Verdicts] /\ c.got \in Seq(Objects)
  BY <1>2 DEF VerificationInv, CheckTypes
<1>4. PICK got :
         /\ got = {check.got[i] : i \in DOMAIN check.got}
         /\ check' = [check EXCEPT !.at = "isolation",
                         !.verdict.decrypt =
                             IF got = {} THEN "na"
                             ELSE IF \A o \in got : V!Opens(o) THEN "pass" ELSE "fail",
                         !.wrongKey = got # {} /\ \A o \in got : ~ V!Opens(o)]
  BY Zenon DEF V!Decrypt
<1>5. \A o : o \in got <=> \E i \in DOMAIN c.got : o = c.got[i]
  <2>1. got = {c.got[i] : i \in DOMAIN c.got}
    BY <1>2, <1>4
  <2> QED BY <2>1
<1>6. got # {} => c.got # <<>>
  <2> SUFFICES ASSUME NEW o \in got PROVE c.got # <<>>
    OBVIOUS
  <2>1. PICK i \in DOMAIN c.got : o = c.got[i]
    BY <1>5
  <2>2. DOMAIN <<>> = {}
    OBVIOUS
  <2> QED BY <2>1, <2>2
<1>7. PICK verdict : verdict = IF got = {} THEN "na"
                               ELSE IF \A o \in got : V!Opens(o) THEN "pass" ELSE "fail"
  OBVIOUS
<1>8. PICK wrongKey \in BOOLEAN : wrongKey <=> (got # {} /\ \A o \in got : ~ V!Opens(o))
  OBVIOUS
<1>9. x = [c EXCEPT !.at = "isolation", !.verdict.decrypt = verdict, !.wrongKey = wrongKey]
  BY <1>2, <1>4, <1>7, <1>8
<1>10. /\ IsCheck(x) /\ x.at = "isolation" /\ x.key = c.key /\ x.listed = c.listed
      /\ x.got = c.got /\ x.seen = c.seen
      /\ x.plaintext = c.plaintext /\ x.foreign = c.foreign /\ x.wrongKey = wrongKey
      /\ x.unreached = c.unreached /\ x.trouble = c.trouble
      /\ x.verdict = [c.verdict EXCEPT !["decrypt"] = verdict]
  BY <1>3, <1>9 DEF IsCheck
<1>11. /\ x.verdict["list"] = c.verdict["list"]
      /\ x.verdict["ciphertext"] = c.verdict["ciphertext"]
      /\ x.verdict["decrypt"] = verdict
      /\ x.verdict["isolation"] = c.verdict["isolation"]
      /\ x.verdict \in [V!Steps -> V!Verdicts]
  BY <1>3, <1>7, <1>10, StepsAre
<1>12. CheckTypes'
  BY <1>2, <1>10, <1>11 DEF VerificationInv, CheckTypes, Running
<1>13. KeysSoFar'
  BY <1>1, <1>2, <1>10 DEF VerificationInv, KeysSoFar, Running
<1>14. verdict = "fail" => Troubled \/ Plain
  <2> SUFFICES ASSUME verdict = "fail" PROVE Troubled \/ Plain
    OBVIOUS
  <2>1. PICK i \in DOMAIN c.got : ~ V!Opens(c.got[i])
    <3>1. PICK o \in got : ~ V!Opens(o)
      BY <1>7
    <3>2. PICK i \in DOMAIN c.got : o = c.got[i]
      BY <1>5
    <3> QED BY <3>1, <3>2
  <2>2. /\ c.got[i].body \in {"sealed", "plain"} /\ c.got[i].key \in Nat
        /\ c.got[i].key <= access.key
    <3>1. c.got[i] \in Objects
      BY <1>3
    <3> QED BY <1>2, <3>1 DEF Objects, VerificationInv, KeysSoFar
  <2>3. CASE c.got[i].body = "plain"
    BY <1>2, <2>3 DEF VerificationInv, FoundSoFar
  <2>4. CASE c.got[i].body = "sealed"
    <3>1. ~ (c.got[i].key <= c.key)
      BY <1>2, <2>1, <2>4 DEF V!Opens
    <3>2. c.key # access.key
      BY <2>2, <3>1
    <3>3. "rolled" \in c.trouble
      BY <1>1, <1>2, <3>2 DEF VerificationInv, KeysSoFar, Running
    <3> QED BY <1>2, <3>3 DEF Troubled
  <2> QED BY <2>2, <2>3, <2>4
<1>15. FoundSoFar'
  <2>1. wrongKey => c.got # <<>> /\ verdict = "fail"
    BY <1>6, <1>7, <1>8
  <2>2. (Troubled' <=> Troubled) /\ (Plain' <=> Plain)
    BY <1>1, <1>2, <1>10 DEF Troubled, Plain
  <2>3. FoundSoFar
    BY DEF VerificationInv
  <2>4. \A s \in {"list", "ciphertext", "decrypt"} :
           x.verdict[s] = "fail" => Troubled' \/ Plain'
    BY <1>2, <1>11, <1>14, <2>2, <2>3 DEF FoundSoFar
  <2> QED BY <1>1, <1>2, <1>10, <1>11, <2>1, <2>2, <2>3, <2>4 DEF FoundSoFar
<1>16. ProbedSoFar'
  BY <1>1, <1>2, <1>10, <1>11 DEF VerificationInv, ProbedSoFar
<1>17. ~ V!Reported'
  BY <1>2, <1>10 DEF V!Reported
<1> QED BY <1>1, <1>12, <1>13, <1>15, <1>16, <1>17, CheckStepInv

------------------------------------------------------------------------------
(* The reference locker.                                                    *)
LEMMA IsolationInv ==
    ASSUME VerificationInv, V!Isolation
    PROVE  VerificationInv'
<1>1. check.at = "isolation" /\ V!Still /\ UNCHANGED <<world, locker, access>>
  BY DEF V!Isolation, V!At, V!Still
<1>2. PICK c, x : c = check /\ x = check'
  OBVIOUS
<1>3. IsCheck(c) /\ c.verdict \in [V!Steps -> V!Verdicts]
  BY <1>2 DEF VerificationInv, CheckTypes
<1>4. c.seen = <<>> /\ c.verdict["isolation"] = "na" /\ ~ c.foreign
  BY <1>1, <1>2 DEF VerificationInv, ProbedSoFar
<1>5. PICK row \in V!Rows :
          LET verdict == IF c.verdict["list"] # "pass" \/ row \in {"none", "own"} THEN "na"
                         ELSE IF row \in {"elsewhere", "http"} THEN "fail"
                         ELSE IF c.credential # access.credential THEN "na" ELSE "pass"
              probes == row = "fit" /\ c.verdict["list"] = "pass"
          IN \/ x = [c EXCEPT !.at = IF probes THEN "probe" ELSE "outcome",
                              !.row = row, !.verdict.isolation = verdict]
             \/ probes /\ x = [c EXCEPT !.at = "outcome"]
  BY <1>2 DEF V!Isolation
<1>6. PICK verdict :
         verdict = IF c.verdict["list"] # "pass" \/ row \in {"none", "own"} THEN "na"
                   ELSE IF row \in {"elsewhere", "http"} THEN "fail"
                   ELSE IF c.credential # access.credential THEN "na" ELSE "pass"
  OBVIOUS
<1>7. PICK a : a = IF row = "fit" /\ c.verdict["list"] = "pass" THEN "probe" ELSE "outcome"
  OBVIOUS
<1>8. \/ x = [c EXCEPT !.at = a, !.row = row, !.verdict.isolation = verdict]
      \/ x = [c EXCEPT !.at = "outcome"]
  BY <1>5, <1>6, <1>7
<1>9. /\ IsCheck(x) /\ x.key = c.key /\ x.listed = c.listed
      /\ x.got = c.got /\ x.seen = c.seen
      /\ x.plaintext = c.plaintext /\ x.foreign = c.foreign /\ x.wrongKey = c.wrongKey
      /\ x.unreached = c.unreached /\ x.trouble = c.trouble
  BY <1>3, <1>8 DEF IsCheck
<1>10. \/ /\ x.at = a /\ x.row = row
          /\ x.verdict = [c.verdict EXCEPT !["isolation"] = verdict]
       \/ x.at = "outcome" /\ x.verdict = c.verdict
  BY <1>3, <1>8 DEF IsCheck
<1>11. /\ a \in {"probe", "outcome"} /\ verdict \in V!Verdicts
       /\ a = "probe" => row = "fit" /\ verdict # "fail"
       /\ a = "outcome" => verdict # "pass" /\ (verdict = "fail" => row \in {"elsewhere", "http"})
  BY <1>6, <1>7, StepsAre DEF V!Rows
<1>12. /\ x.verdict["list"] = c.verdict["list"]
       /\ x.verdict["ciphertext"] = c.verdict["ciphertext"]
       /\ x.verdict["decrypt"] = c.verdict["decrypt"]
       /\ x.verdict \in [V!Steps -> V!Verdicts]
  BY <1>3, <1>10, <1>11, StepsAre
<1>13. \/ x.at = a /\ x.row = row /\ x.verdict["isolation"] = verdict
       \/ x.at = "outcome" /\ x.verdict["isolation"] = "na"
  BY <1>3, <1>4, <1>10, StepsAre
<1>14. CheckTypes'
  BY <1>2, <1>9, <1>11, <1>12, <1>13 DEF VerificationInv, CheckTypes, Running
<1>15. KeysSoFar'
  BY <1>1, <1>2, <1>9 DEF VerificationInv, KeysSoFar, Running
<1>16. FoundSoFar'
  <2>1. (Troubled' <=> Troubled) /\ (Plain' <=> Plain) /\ FoundSoFar
    BY <1>1, <1>2, <1>9 DEF Troubled, Plain, VerificationInv
  <2>2. x.at \notin {"idle", "list", "index"}
    BY <1>11, <1>13
  <2> QED BY <1>1, <1>2, <1>9, <1>12, <2>1, <2>2 DEF FoundSoFar
<1>17. ProbedSoFar'
  <2>1. x.seen = <<>> /\ ~ x.foreign
    BY <1>4, <1>9
  <2> QED BY <1>2, <1>11, <1>13, <2>1 DEF ProbedSoFar
<1>18. ~ V!Reported'
  BY <1>2, <1>11, <1>13 DEF V!Reported
<1> QED BY <1>1, <1>14, <1>15, <1>16, <1>17, <1>18, CheckStepInv

LEMMA JudgedIs ==
    ASSUME NEW v \in V!Verdicts, NEW a
    PROVE  /\ V!Judged(v, a) \in V!Verdicts
           /\ V!Judged(v, a) = "fail" <=> v = "fail" \/ a = "granted"
           /\ V!Judged(v, a) = "pass" <=> v = "pass" /\ a = "denied"
<1>1. CASE a = "denied"
  BY <1>1 DEF V!Judged
<1>2. CASE a = "granted"
  BY <1>2, DegradeIs, StepsAre DEF V!Judged
<1>3. CASE a \notin {"denied", "granted"}
  BY <1>3, DegradeIs, StepsAre DEF V!Judged
<1> QED BY <1>1, <1>2, <1>3

LEMMA PinIs ==
    ASSUME NEW seen
    PROVE  /\ V!Pin(seen) \in V!Verdicts
           /\ V!Pin(seen) = "fail" => \E i \in DOMAIN seen : seen[i] = "redirect"
  BY StepsAre DEF V!Pin

LEMMA ProbeInv ==
    ASSUME VerificationInv, V!Probe
    PROVE  VerificationInv'
<1>1. check.at = "probe" /\ V!Still /\ UNCHANGED <<world, locker, access>>
  BY DEF V!Probe, V!At, V!Still
<1>2. PICK c, x : c = check /\ x = check'
  OBVIOUS
<1>3. IsCheck(c) /\ c.verdict \in [V!Steps -> V!Verdicts]
  BY <1>2 DEF VerificationInv, CheckTypes
<1>4. /\ c.row = "fit" /\ c.verdict["isolation"] # "fail" /\ ~ c.foreign
      /\ c.seen = <<>> \/ c.seen = <<c.seen[1]>>
      /\ \A i \in DOMAIN c.seen : IsAnswer(c.seen[i])
  BY <1>1, <1>2 DEF VerificationInv, ProbedSoFar
<1>5. PICK answer \in V!Answers :
          LET seen == Append(c.seen, answer)
          IN IF Len(seen) = 1 THEN x = [c EXCEPT !.seen = seen]
             ELSE x = [c EXCEPT
                     !.at = "outcome", !.seen = seen,
                     !.foreign = V!Placed(seen) /\ "granted" \in {seen[1], seen[2]},
                     !.verdict.isolation = V!Degrade(V!Judged(V!Judged(@, seen[1]), seen[2]),
                                                     V!Pin(seen))]
  BY <1>2 DEF V!Probe
<1>6. IsAnswer(answer)
  BY DEF V!Answers, IsAnswer
<1>7. CASE c.seen = <<>>
  <2>1. PICK seen : seen = <<answer>>
    OBVIOUS
  <2>2. Append(c.seen, answer) = seen /\ Len(seen) = 1
    BY <1>7, <2>1
  <2>3. x = [c EXCEPT !.seen = seen]
    BY <1>5, <2>2
  <2>4. /\ IsCheck(x) /\ x.at = c.at /\ x.key = c.key /\ x.listed = c.listed
        /\ x.got = c.got /\ x.seen = seen /\ x.verdict = c.verdict /\ x.row = c.row
        /\ x.plaintext = c.plaintext /\ x.foreign = c.foreign /\ x.wrongKey = c.wrongKey
        /\ x.unreached = c.unreached /\ x.trouble = c.trouble
    BY <1>3, <2>3 DEF IsCheck
  <2>5. CheckTypes'
    BY <1>2, <2>4 DEF VerificationInv, CheckTypes
  <2>6. KeysSoFar'
    BY <1>1, <1>2, <2>4 DEF VerificationInv, KeysSoFar
  <2>7. FoundSoFar'
    BY <1>1, <1>2, <2>4 DEF VerificationInv, FoundSoFar, Troubled, Plain
  <2>8. /\ seen = <<seen[1]>>
        /\ \A i \in DOMAIN seen : IsAnswer(seen[i])'
    <3>1. \A i \in DOMAIN seen : seen[i] = answer
      BY <2>1
    <3> QED BY <1>1, <1>6, <2>1, <3>1 DEF IsAnswer
  <2>9. ProbedSoFar'
    BY <1>1, <1>2, <1>4, <2>4, <2>8 DEF ProbedSoFar
  <2>10. ~ V!Reported'
    BY <1>1, <1>2, <2>4 DEF V!Reported
  <2> QED BY <1>1, <2>5, <2>6, <2>7, <2>9, <2>10, CheckStepInv
<1>8. CASE c.seen = <<c.seen[1]>>
  <2>1. PICK first : first = c.seen[1]
    OBVIOUS
  <2>2. PICK seen : seen = <<first, answer>>
    OBVIOUS
  <2>3. /\ Append(c.seen, answer) = seen /\ Len(seen) = 2
        /\ DOMAIN seen = {1, 2} /\ seen[1] = first /\ seen[2] = answer
    <3>1. c.seen = <<first>>
      BY <1>8, <2>1
    <3>2. Append(c.seen, answer) = seen
      BY <2>2, <3>1, AppendToOne
    <3>3. /\ Len(seen) = 2
          /\ DOMAIN seen = {1, 2} /\ seen[1] = first /\ seen[2] = answer
      BY <2>2
    <3> QED BY <3>2, <3>3
  <2>4. PICK foreign \in BOOLEAN :
           foreign <=> V!Placed(seen) /\ "granted" \in {seen[1], seen[2]}
    OBVIOUS
  <2>5. PICK verdict :
           verdict = V!Degrade(V!Judged(V!Judged(c.verdict["isolation"], seen[1]), seen[2]),
                               V!Pin(seen))
    OBVIOUS
  <2>6. x = [c EXCEPT !.at = "outcome", !.seen = seen, !.foreign = foreign,
                      !.verdict.isolation = verdict]
    <3>1. x = [c EXCEPT
                  !.at = "outcome", !.seen = seen,
                  !.foreign = V!Placed(seen) /\ "granted" \in {seen[1], seen[2]},
                  !.verdict.isolation = V!Degrade(V!Judged(V!Judged(@, seen[1]), seen[2]),
                                                  V!Pin(seen))]
      BY <1>5, <2>3
    <3>2. (V!Placed(seen) /\ "granted" \in {seen[1], seen[2]}) = foreign
      BY <2>4 DEF V!Placed
    <3>3. x = [c EXCEPT
                  !.at = "outcome", !.seen = seen, !.foreign = foreign,
                  !.verdict.isolation = V!Degrade(V!Judged(V!Judged(@, seen[1]), seen[2]),
                                                  V!Pin(seen))]
      BY <3>1, <3>2
    <3> QED BY <2>5, <3>3
  <2>7. /\ IsCheck(x) /\ x.at = "outcome" /\ x.key = c.key /\ x.listed = c.listed
        /\ x.got = c.got /\ x.seen = seen /\ x.row = c.row
        /\ x.plaintext = c.plaintext /\ x.foreign = foreign /\ x.wrongKey = c.wrongKey
        /\ x.unreached = c.unreached /\ x.trouble = c.trouble
        /\ x.verdict = [c.verdict EXCEPT !["isolation"] = verdict]
    BY <1>3, <2>6 DEF IsCheck
  <2>8. PICK v \in V!Verdicts : v = c.verdict["isolation"]
    BY <1>3, StepsAre
  <2>9. PICK w \in V!Verdicts :
          /\ w = V!Judged(v, first)
          /\ w = "fail" <=> v = "fail" \/ first = "granted"
          /\ w = "pass" <=> v = "pass" /\ first = "denied"
    BY JudgedIs
  <2>10. PICK u \in V!Verdicts :
          /\ u = V!Judged(w, answer)
          /\ u = "fail" <=> w = "fail" \/ answer = "granted"
          /\ u = "pass" <=> w = "pass" /\ answer = "denied"
    BY JudgedIs
  <2>11. /\ V!Pin(seen) \in V!Verdicts
         /\ V!Pin(seen) = "fail" => first = "redirect" \/ answer = "redirect"
    BY <2>3, PinIs
  <2>12. /\ verdict \in V!Verdicts
         /\ verdict = "fail" <=> u = "fail" \/ V!Pin(seen) = "fail"
         /\ verdict = "pass" => u = "pass"
    BY <2>3, <2>5, <2>8, <2>9, <2>10, <2>11, DegradeIs
  <2>13. /\ x.verdict["list"] = c.verdict["list"]
         /\ x.verdict["ciphertext"] = c.verdict["ciphertext"]
         /\ x.verdict["decrypt"] = c.verdict["decrypt"]
         /\ x.verdict["isolation"] = verdict
         /\ x.verdict \in [V!Steps -> V!Verdicts]
    BY <1>3, <2>7, <2>12, StepsAre
  <2>14. CheckTypes'
    BY <1>2, <2>7, <2>13 DEF VerificationInv, CheckTypes, Running
  <2>15. KeysSoFar'
    BY <1>1, <1>2, <2>7 DEF VerificationInv, KeysSoFar, Running
  <2>16. FoundSoFar'
    <3>1. (Troubled' <=> Troubled) /\ (Plain' <=> Plain) /\ FoundSoFar
      BY <1>1, <1>2, <2>7 DEF Troubled, Plain, VerificationInv
    <3> QED BY <1>1, <1>2, <2>7, <2>13, <3>1 DEF FoundSoFar
  <2>17. IsAnswer(first) /\ IsAnswer(answer)
    <3>1. 1 \in DOMAIN c.seen
      BY <1>8
    <3> QED BY <1>4, <1>6, <2>1, <3>1
  <2>18. foreign <=> first = "granted" \/ answer = "granted"
    BY <2>3, <2>4 DEF V!Placed
  <2>19. foreign => world.open /\ verdict = "fail"
    BY <2>9, <2>10, <2>12, <2>17, <2>18 DEF IsAnswer
  <2>20. verdict = "pass" => seen = <<"denied", "denied">> /\ ~ world.open
    BY <2>2, <2>9, <2>10, <2>12, <2>17 DEF IsAnswer
  <2>21. verdict = "fail" => world.open \/ first = "redirect" \/ answer = "redirect"
    BY <1>4, <2>8, <2>9, <2>10, <2>11, <2>12, <2>17 DEF IsAnswer
  <2>22. \A i \in DOMAIN seen : IsAnswer(seen[i])'
    BY <1>1, <2>3, <2>17 DEF IsAnswer
  <2>23. (\E i \in DOMAIN seen : seen[i] = "granted") => foreign
    BY <2>3, <2>18
  <2>24. first = "redirect" \/ answer = "redirect"
            => \E i \in DOMAIN seen : seen[i] = "redirect"
    BY <2>3
  <2>25. ProbedSoFar'
    BY <1>1, <1>2, <1>4, <2>7, <2>13, <2>19, <2>20, <2>21, <2>22, <2>23, <2>24
       DEF ProbedSoFar
  <2>26. ~ V!Reported'
    BY <1>2, <2>7 DEF V!Reported
  <2> QED BY <1>1, <2>14, <2>15, <2>16, <2>25, <2>26, CheckStepInv
<1> QED BY <1>4, <1>7, <1>8

------------------------------------------------------------------------------
(* Meanwhile.                                                               *)
LEMMA CheckStaysInv ==
    ASSUME VerificationInv, UNCHANGED <<world, check, console>>, LockerTypes',
           access'.key = access.key, locker.objects \subseteq locker'.objects
    PROVE  VerificationInv'
<1>1. CheckTypes'
  BY DEF VerificationInv, CheckTypes
<1>2. KeysSoFar'
  BY DEF VerificationInv, KeysSoFar
<1>3. FoundSoFar'
  BY DEF VerificationInv, FoundSoFar, Plain, Troubled
<1>4. ProbedSoFar'
  BY DEF VerificationInv, ProbedSoFar, IsAnswer
<1>5. V!Reported' => check'.outcome = V!Outcome'
  BY DEF VerificationInv, V!Reported, V!Outcome
<1>6. console'.recorded => console'.posted # {}
  BY DEF VerificationInv
<1> QED BY <1>1, <1>2, <1>3, <1>4, <1>5, <1>6, Zenon DEF VerificationInv

LEMMA OtherPutsInv ==
    ASSUME VerificationInv, V!OtherPuts
    PROVE  VerificationInv'
<1>1. /\ bounds.pushes < MaxPushes /\ locker.next \notin locker.objects
      /\ UNCHANGED <<world, access, check, console>>
  BY DEF V!OtherPuts
<1>2. LockerTypes /\ MaxPushes \in Nat
  BY VerificationAssumption DEF VerificationInv
<1>3. PICK l, b : l = locker /\ b = bounds
  OBVIOUS
<1>4. PICK y, z : y = locker' /\ z = bounds'
  OBVIOUS
<1>5. /\ y = [l EXCEPT !.objects = l.objects \cup {l.next}, !.keys[l.next] = access.key]
      /\ z = [b EXCEPT !.pushes = b.pushes + 1]
  BY <1>3, <1>4 DEF V!OtherPuts
<1>6. /\ l = [named |-> l.named, objects |-> l.objects, next |-> l.next,
              keys |-> l.keys, key |-> l.key]
      /\ b = [pushes |-> b.pushes, changes |-> b.changes, checks |-> b.checks]
      /\ DOMAIN l.keys = 1..MaxPushes + 2
  BY <1>2, <1>3 DEF LockerTypes
<1>7. /\ y = [named |-> y.named, objects |-> y.objects, next |-> y.next,
              keys |-> y.keys, key |-> y.key]
      /\ y.objects = l.objects \cup {l.next} /\ y.next = l.next /\ y.key = l.key
      /\ y.keys = [l.keys EXCEPT ![l.next] = access.key]
  BY <1>5, <1>6
<1>8. /\ z = [pushes |-> z.pushes, changes |-> z.changes, checks |-> z.checks]
      /\ z.pushes = b.pushes + 1
  BY <1>5, <1>6
<1>9. /\ l.next \in Nat \ {0} /\ b.pushes \in Nat /\ b.pushes < MaxPushes
      /\ l.next <= b.pushes + 2 /\ l.next \notin l.objects /\ access.key \in Nat
  BY <1>1, <1>2, <1>3 DEF LockerTypes
<1>10. l.next \in 1..MaxPushes + 2
  BY <1>2, <1>9
<1>11. \A m \in y.objects : /\ m \in 1..y.next /\ m <= MaxPushes + 2
                            /\ y.keys[m] \in Nat /\ y.keys[m] <= access.key
  <2>1. y.keys[l.next] = access.key /\ access.key <= access.key
    <3>1. PICK k, q, i : k = l.keys /\ q = y.keys /\ i = l.next
      OBVIOUS
    <3>2. q = [k EXCEPT ![i] = access.key] /\ i \in DOMAIN k
      BY <1>6, <1>7, <1>10, <3>1
    <3>3. q[i] = access.key
      BY <3>2
    <3>4. access.key <= access.key
      BY <1>9
    <3> QED BY <3>1, <3>3, <3>4
  <2>2. \A m \in l.objects : y.keys[m] = l.keys[m]
    BY <1>6, <1>7, <1>9
  <2>3. \A m \in l.objects : /\ m \in 1..l.next /\ m <= MaxPushes + 2
                             /\ l.keys[m] \in Nat /\ l.keys[m] <= access.key
    BY <1>2, <1>3 DEF LockerTypes
  <2>4. l.next \in 1..l.next /\ l.next <= MaxPushes + 2
    BY <1>2, <1>9
  <2> QED BY <1>7, <1>9, <2>1, <2>2, <2>3, <2>4
<1>12. /\ DOMAIN y.keys = 1..MaxPushes + 2
       /\ z.pushes \in Nat /\ z.pushes <= MaxPushes
       /\ y.next <= z.pushes + 2 /\ y.next <= z.pushes + 1
  BY <1>2, <1>6, <1>7, <1>8, <1>9
<1>13. LockerTypes'
  BY <1>1, <1>2, <1>3, <1>4, <1>7, <1>8, <1>11, <1>12 DEF LockerTypes
<1> QED BY <1>1, <1>3, <1>4, <1>7, <1>13, CheckStaysInv

LEMMA OtherNamesInv ==
    ASSUME VerificationInv, V!OtherNames
    PROVE  VerificationInv'
<1>1. locker.next \in locker.objects /\ UNCHANGED <<world, access, check, console, bounds>>
  BY DEF V!OtherNames
<1>2. LockerTypes
  BY DEF VerificationInv
<1>3. PICK l, y : l = locker /\ y = locker'
  OBVIOUS
<1>4. PICK replaced :
         y = [l EXCEPT !.named = (l.named \ replaced) \cup {l.next},
                       !.next = l.next + 1, !.key = access.key]
  BY <1>3 DEF V!OtherNames
<1>5. l = [named |-> l.named, objects |-> l.objects, next |-> l.next,
           keys |-> l.keys, key |-> l.key]
  BY <1>2, <1>3 DEF LockerTypes
<1>6. /\ y = [named |-> y.named, objects |-> y.objects, next |-> y.next,
              keys |-> y.keys, key |-> y.key]
      /\ y.objects = l.objects /\ y.next = l.next + 1 /\ y.key = access.key
      /\ y.keys = l.keys
  BY <1>4, <1>5
<1>7. /\ l.next \in Nat \ {0} /\ bounds.pushes \in Nat /\ l.next <= bounds.pushes + 1
      /\ access.key \in Nat
      /\ \A m \in l.objects : m \in 1..l.next
  BY <1>1, <1>2, <1>3 DEF LockerTypes
<1>8. /\ y.next \in Nat \ {0} /\ y.next <= bounds.pushes + 2 /\ y.next \notin y.objects
      /\ access.key <= access.key
      /\ \A m \in y.objects : m \in 1..y.next
  BY <1>6, <1>7
<1>9. LockerTypes'
  BY <1>1, <1>2, <1>3, <1>6, <1>7, <1>8 DEF LockerTypes
<1> QED BY <1>1, <1>3, <1>6, <1>9, CheckStaysInv

LEMMA AccessChangesInv ==
    ASSUME VerificationInv, V!AccessChanges
    PROVE  VerificationInv'
<1>1. /\ UNCHANGED <<world, locker, console>>
      /\ bounds' = [bounds EXCEPT !.changes = bounds.changes + 1]
  BY DEF V!AccessChanges
<1>2. LockerTypes
  BY DEF VerificationInv
<1>3. PICK a, e : a = access /\ e = access'
  OBVIOUS
<1>4. a = [credential |-> a.credential, withdrawn |-> a.withdrawn, key |-> a.key]
  BY <1>2, <1>3 DEF LockerTypes
<1>5. PICK b, z : b = bounds /\ z = bounds'
  OBVIOUS
<1>6. /\ z = [pushes |-> z.pushes, changes |-> z.changes, checks |-> z.checks]
      /\ z.pushes = b.pushes
  <2>1. z = [b EXCEPT !.changes = b.changes + 1]
    BY <1>1, <1>5
  <2>2. b = [pushes |-> b.pushes, changes |-> b.changes, checks |-> b.checks]
    BY <1>2, <1>5 DEF LockerTypes
  <2> QED BY <2>1, <2>2
<1>7. ASSUME e = [credential |-> e.credential, withdrawn |-> e.withdrawn, key |-> e.key],
             e.key \in Nat, e.key >= a.key
      PROVE  LockerTypes'
  <2>1. a.key \in Nat /\ locker.key \in Nat /\ locker.key <= e.key
    BY <1>2, <1>3, <1>7 DEF LockerTypes
  <2>2. \A m \in locker.objects : /\ m \in 1..locker.next /\ m <= MaxPushes + 2
                                  /\ locker.keys[m] \in Nat /\ locker.keys[m] <= e.key
    BY <1>2, <1>3, <1>7, <2>1 DEF LockerTypes
  <2> QED BY <1>1, <1>2, <1>3, <1>5, <1>6, <1>7, <2>1, <2>2 DEF LockerTypes
<1>8. CASE /\ UNCHANGED check
           /\ \/ e = [a EXCEPT !.credential = a.credential + 1]
              \/ e = [a EXCEPT !.withdrawn = TRUE]
  <2>1. /\ e = [credential |-> e.credential, withdrawn |-> e.withdrawn, key |-> e.key]
        /\ e.key = a.key
    BY <1>4, <1>8
  <2>2. a.key \in Nat /\ e.key >= a.key
    BY <1>2, <1>3, <2>1 DEF LockerTypes
  <2>3. LockerTypes'
    BY <1>7, <2>1, <2>2
  <2> QED BY <1>1, <1>3, <1>8, <2>1, <2>3, CheckStaysInv
<1>9. CASE /\ e = [a EXCEPT !.key = a.key + 1]
           /\ check' = IF check.at = "idle" THEN check
                       ELSE [check EXCEPT !.trouble = check.trouble \cup {"rolled"}]
  <2>1. /\ e = [credential |-> e.credential, withdrawn |-> e.withdrawn, key |-> e.key]
        /\ e.key = a.key + 1
    BY <1>4, <1>9
  <2>2. a.key \in Nat /\ e.key \in Nat /\ e.key >= a.key
    BY <1>2, <1>3, <2>1 DEF LockerTypes
  <2>3. LockerTypes'
    BY <1>7, <2>1, <2>2
  <2>4. PICK c, x : c = check /\ x = check'
    OBVIOUS
  <2>5. IsCheck(c)
    BY <2>4 DEF VerificationInv, CheckTypes
  <2>6. /\ IsCheck(x) /\ x.at = c.at /\ x.key = c.key /\ x.listed = c.listed
        /\ x.got = c.got /\ x.seen = c.seen /\ x.verdict = c.verdict /\ x.row = c.row
        /\ x.plaintext = c.plaintext /\ x.foreign = c.foreign /\ x.wrongKey = c.wrongKey
        /\ x.unreached = c.unreached /\ x.outcome = c.outcome
        /\ c.trouble \subseteq x.trouble /\ x.trouble \subseteq c.trouble \cup {"rolled"}
        /\ c.at # "idle" => "rolled" \in x.trouble
    <3>1. CASE c.at = "idle"
      <4>1. x = c
        BY <1>9, <2>4, <3>1
      <4> QED BY <2>5, <3>1, <4>1
    <3>2. CASE c.at # "idle"
      <4>1. PICK trouble : trouble = c.trouble \cup {"rolled"}
        OBVIOUS
      <4>2. x = [c EXCEPT !.trouble = trouble]
        BY <1>9, <2>4, <3>2, <4>1
      <4>3. /\ IsCheck(x) /\ x.at = c.at /\ x.key = c.key /\ x.listed = c.listed
            /\ x.got = c.got /\ x.seen = c.seen /\ x.verdict = c.verdict /\ x.row = c.row
            /\ x.plaintext = c.plaintext /\ x.foreign = c.foreign
            /\ x.wrongKey = c.wrongKey /\ x.unreached = c.unreached
            /\ x.outcome = c.outcome /\ x.trouble = trouble
        BY <2>5, <4>2 DEF IsCheck
      <4> QED BY <4>1, <4>3
    <3> QED BY <3>1, <3>2
  <2>7. CheckTypes'
    BY <2>4, <2>6 DEF VerificationInv, CheckTypes
  <2>8. KeysSoFar'
    <3>1. /\ c.key \in Nat /\ c.key <= a.key
          /\ \A i \in DOMAIN c.got : c.got[i].key \in Nat /\ c.got[i].key <= a.key
      <4>1. c.got \in Seq(Objects) /\ c.key \in Nat
        BY <2>4 DEF VerificationInv, CheckTypes
      <4>2. \A i \in DOMAIN c.got : c.got[i] \in Objects
        BY <4>1
      <4>3. /\ c.key <= a.key
            /\ \A i \in DOMAIN c.got : c.got[i].key <= a.key
        BY <1>3, <2>4 DEF VerificationInv, KeysSoFar
      <4> QED BY <4>1, <4>2, <4>3 DEF Objects
    <3>2. /\ c.key <= e.key
          /\ \A i \in DOMAIN c.got : c.got[i].key <= e.key
      BY <2>2, <3>1
    <3>3. c.listed \subseteq locker'.objects
      BY <1>1, <2>4 DEF VerificationInv, KeysSoFar
    <3> QED BY <1>3, <2>4, <2>6, <3>2, <3>3 DEF KeysSoFar, Running
  <2>9. FoundSoFar'
    <3>1. (Troubled => Troubled') /\ (Plain' <=> Plain) /\ FoundSoFar
      BY <1>1, <2>4, <2>6 DEF Troubled, Plain, VerificationInv
    <3> QED BY <2>4, <2>6, <3>1 DEF FoundSoFar
  <2>10. ProbedSoFar'
    BY <1>1, <2>4, <2>6 DEF VerificationInv, ProbedSoFar, IsAnswer
  <2>11. V!Reported' => check'.outcome = V!Outcome'
    BY <2>4, <2>6 DEF VerificationInv, V!Reported, V!Outcome
  <2>12. console'.recorded => console'.posted # {}
    BY <1>1 DEF VerificationInv
  <2> QED BY <2>3, <2>7, <2>8, <2>9, <2>10, <2>11, <2>12, Zenon DEF VerificationInv
<1> QED BY <1>3, <1>8, <1>9 DEF V!AccessChanges, V!At

------------------------------------------------------------------------------
(* The invariant, and what it says of the reports.                          *)
LEMMA VerificationInitInv == V!VerificationInit => VerificationInv
<1> SUFFICES ASSUME V!VerificationInit PROVE VerificationInv
  OBVIOUS
<1>1. /\ access = [credential |-> 1, withdrawn |-> FALSE, key |-> 1]
      /\ check = V!NoCheck /\ console = [posted |-> {}, recorded |-> FALSE]
      /\ bounds = [pushes |-> 0, changes |-> 0, checks |-> 0]
  BY Zenon DEF V!VerificationInit
<1>2. PICK body, snapshots \in {"sealed", "plain", "large"}, open, hosted \in BOOLEAN :
         world = [index |-> body, snapshots |-> snapshots, open |-> open, hosted |-> hosted]
  BY Zenon DEF V!VerificationInit
<1>3. PICK n \in 0..1 :
         locker = [named |-> 1..n, objects |-> 1..n, next |-> n + 1,
                   keys |-> [m \in 1..MaxPushes + 2 |-> 1], key |-> 1]
  BY Zenon DEF V!VerificationInit
<1>4. LockerTypes
  <2>1. /\ world.index = body /\ world.snapshots = snapshots /\ world.open = open
    BY <1>2
  <2>2. PICK ks : ks = [m \in 1..MaxPushes + 2 |-> 1]
    OBVIOUS
  <2>3. PICK all : all = 1..n
    OBVIOUS
  <2>4. locker = [named |-> all, objects |-> all, next |-> n + 1, keys |-> ks, key |-> 1]
    BY <1>3, <2>2, <2>3, Zenon
  <2>5. /\ locker.objects = all /\ locker.next = n + 1 /\ locker.keys = ks /\ locker.key = 1
        /\ locker = [named |-> locker.named, objects |-> locker.objects,
                     next |-> locker.next, keys |-> locker.keys, key |-> locker.key]
    BY <2>4
  <2>6. MaxPushes \in Nat
    BY VerificationAssumption
  <2>7. DOMAIN ks = 1..MaxPushes + 2
    BY <2>2
  <2>8. /\ n + 1 \in Nat \ {0} /\ n + 1 <= 2 /\ n + 1 \notin all
        /\ \A m \in all : /\ m \in 1..n + 1 /\ m <= MaxPushes + 2 /\ ks[m] = 1
    BY <2>2, <2>3, <2>6
  <2>9. /\ access = [credential |-> access.credential, withdrawn |-> access.withdrawn,
                     key |-> access.key]
        /\ access.key = 1
        /\ bounds = [pushes |-> bounds.pushes, changes |-> bounds.changes,
                     checks |-> bounds.checks]
        /\ bounds.pushes = 0
    BY <1>1
  <2> QED BY <2>1, <2>5, <2>6, <2>7, <2>8, <2>9 DEF LockerTypes
<1>5. CheckTypes /\ KeysSoFar /\ FoundSoFar /\ ProbedSoFar
  <2>1. PICK c : c = check
    OBVIOUS
  <2>2. /\ IsCheck(c)
        /\ c.at = "idle" /\ c.key = 0 /\ c.listed = {} /\ c.got = <<>>
        /\ c.verdict = [s \in V!Steps |-> "na"] /\ c.seen = <<>>
        /\ c.plaintext = FALSE /\ c.foreign = FALSE /\ c.wrongKey = FALSE
        /\ c.unreached = FALSE /\ c.trouble = {}
    BY <1>1, <2>1, NoCheckIs
  <2>3. /\ c.verdict \in [V!Steps -> V!Verdicts]
        /\ \A s \in {"list", "ciphertext", "decrypt", "isolation"} : c.verdict[s] = "na"
    BY <2>2, StepsAre
  <2>4. access.key = 1
    BY <1>1
  <2>5. CheckTypes
    BY <2>1, <2>2, <2>3 DEF CheckTypes
  <2>6. KeysSoFar
    BY <2>1, <2>2, <2>4 DEF KeysSoFar, Running
  <2>7. FoundSoFar
    BY <2>1, <2>2, <2>3 DEF FoundSoFar
  <2>8. ProbedSoFar
    BY <2>1, <2>2, <2>3 DEF ProbedSoFar
  <2> QED BY <2>5, <2>6, <2>7, <2>8
<1>6. ~ V!Reported
  BY <1>1, NoCheckIs DEF V!Reported
<1>7. ~ console.recorded
  BY <1>1
<1> QED BY <1>4, <1>5, <1>6, <1>7, Zenon DEF VerificationInv

LEMMA VerificationStepInv ==
    VerificationInv /\ [V!VerificationNext]_(V!verificationVars) => VerificationInv'
<1> SUFFICES ASSUME VerificationInv, [V!VerificationNext]_(V!verificationVars)
             PROVE  VerificationInv'
  OBVIOUS
<1>1. CASE UNCHANGED V!verificationVars
  <2>1. UNCHANGED <<world, locker, access, check, console, bounds>>
    BY <1>1 DEF V!verificationVars
  <2>2. LockerTypes'
    BY <2>1 DEF VerificationInv, LockerTypes
  <2> QED BY <2>1, <2>2, CheckStaysInv
<1>2. ASSUME NEW hook \in BOOLEAN, V!Begin(hook) \/ V!NotStarted(hook)
      PROVE  VerificationInv'
  BY <1>2, CheckBeginsInv
<1>3. CASE V!List
  BY <1>3, ListInv
<1>4. CASE V!FetchIndex
  BY <1>4, FetchIndexInv
<1>5. CASE V!FetchSnapshot
  BY <1>5, FetchSnapshotInv
<1>6. CASE V!Decrypt
  BY <1>6, DecryptInv
<1>7. CASE V!Isolation
  BY <1>7, IsolationInv
<1>8. CASE V!Probe
  BY <1>8, ProbeInv
<1>9. CASE V!Conclude
  BY <1>9, ConcludeInv
<1>10. ASSUME NEW arrives \in BOOLEAN, V!Post(arrives)
       PROVE  VerificationInv'
  BY <1>10, PostInv
<1>11. CASE V!Ends
  BY <1>11, EndsInv
<1>12. CASE V!OtherPuts
  BY <1>12, OtherPutsInv
<1>13. CASE V!OtherNames
  BY <1>13, OtherNamesInv
<1>14. CASE V!AccessChanges
  BY <1>14, AccessChangesInv
<1>15. V!VerificationNext \/ UNCHANGED V!verificationVars
  OBVIOUS
<1> QED
  BY <1>1, <1>2, <1>3, <1>4, <1>5, <1>6, <1>7, <1>8, <1>9, <1>10, <1>11, <1>12, <1>13,
     <1>14, <1>15, Zenon DEF V!VerificationNext

(* The outcome, step by step.                                               *)
LEMMA OutcomeIs ==
    ASSUME CheckTypes
    PROVE  /\ V!Outcome \in {"pass", "na", "fail"}
           /\ V!Outcome = "fail" <=> \E s \in V!Steps : check.verdict[s] = "fail"
           /\ V!Outcome = "pass" => check.got # <<>>
<1>1. PICK verdicts : verdicts = {check.verdict[s] : s \in V!Steps}
  OBVIOUS
<1>2. "fail" \in verdicts <=> \E s \in V!Steps : check.verdict[s] = "fail"
  BY <1>1
<1>3. V!Outcome = IF "fail" \in verdicts THEN "fail"
                  ELSE IF "pass" \in verdicts /\ check.got # <<>> THEN "pass" ELSE "na"
  BY <1>1, Zenon DEF V!Outcome
<1> QED BY <1>2, <1>3

LEMMA SummaryIs ==
    ASSUME check.outcome \in {"pass", "na", "fail"}
    PROVE  /\ V!Summary = "unverified" <=> check.outcome = "na" /\ check.unreached
           /\ V!Summary = "empty" <=> check.outcome = "na" /\ ~ check.unreached
           /\ V!Summary = "otherkey" =>
                 check.wrongKey /\ check.outcome = "fail"
           /\ check.outcome = "pass" => V!Summary = "pass"
<1>1. CASE check.outcome = "pass"
  BY <1>1 DEF V!Summary
<1>2. CASE check.outcome = "na" /\ check.unreached
  BY <1>2 DEF V!Summary
<1>3. CASE check.outcome = "na" /\ ~ check.unreached
  BY <1>3 DEF V!Summary
<1>4. CASE check.outcome = "fail" /\ (check.plaintext \/ check.foreign)
  BY <1>4 DEF V!Summary
<1>5. CASE check.outcome = "fail" /\ ~ (check.plaintext \/ check.foreign) /\ check.wrongKey
  BY <1>5 DEF V!Summary
<1>6. CASE check.outcome = "fail" /\ ~ (check.plaintext \/ check.foreign) /\ ~ check.wrongKey
  BY <1>6 DEF V!Summary
<1> QED BY <1>1, <1>2, <1>3, <1>4, <1>5, <1>6

LEMMA VerificationInvIsHonest == VerificationInv => V!ReportIsHonest
<1> SUFFICES ASSUME VerificationInv PROVE V!ReportIsHonest
  OBVIOUS
<1>1. V!RecordedWasPosted
  BY Zenon DEF VerificationInv, V!RecordedWasPosted
<1>2. CASE ~ V!Reported
  BY <1>1, <1>2, Zenon DEF V!ReportIsHonest, V!AlarmsAreTrue, V!AlarmsAreRaised,
     V!OutageIsNoFinding, V!PassIsEarned, V!SummaryIsTrue
<1>3. CASE V!Reported
  <2>1. /\ check.at \in {"report", "done"} /\ check.outcome = V!Outcome /\ CheckTypes
        /\ FoundSoFar /\ ProbedSoFar
    BY <1>3, Zenon DEF V!Reported, VerificationInv
  <2>2. PICK c : c = check
    OBVIOUS
  <2>3. /\ c.at \in {"report", "done"} /\ c.outcome \in {"pass", "na", "fail"}
        /\ c.verdict \in [V!Steps -> V!Verdicts]
        /\ c.outcome = "fail" <=> \E s \in V!Steps : c.verdict[s] = "fail"
        /\ c.outcome = "pass" => c.got # <<>>
    BY <2>1, <2>2, OutcomeIs DEF CheckTypes
  <2>4. /\ c.plaintext => Plain /\ c.verdict["ciphertext"] = "fail"
        /\ \A i \in DOMAIN c.got :
              c.got[i].body = "plain" => Plain /\ c.verdict["ciphertext"] = "fail"
        /\ \A s \in {"list", "ciphertext", "decrypt"} :
              c.verdict[s] = "fail" => Troubled \/ Plain
        /\ "none" \in c.trouble => c.unreached
        /\ c.verdict["list"] = "pass" =>
              c.got # <<>> \/ c.verdict["ciphertext"] = "fail" \/ c.unreached
        /\ c.wrongKey => c.got # <<>> /\ c.verdict["decrypt"] = "fail"
    BY <2>1, <2>2 DEF FoundSoFar
  <2>5. /\ c.foreign => world.open /\ c.row = "fit" /\ c.verdict["isolation"] = "fail"
        /\ (\E i \in DOMAIN c.seen : c.seen[i] = "granted") => c.foreign
        /\ c.verdict["isolation"] = "pass" =>
              c.seen = <<"denied", "denied">> /\ ~ world.open /\ c.row = "fit"
        /\ c.verdict["isolation"] = "fail" =>
              \/ c.row \notin {"fit", "none", "own"} \/ world.open
              \/ \E i \in DOMAIN c.seen : c.seen[i] = "redirect"
    BY <2>1, <2>2 DEF ProbedSoFar
  <2>6. PICK answers : answers = {c.seen[i] : i \in DOMAIN c.seen}
    OBVIOUS
  <2>7. \A a : a \in answers <=> \E i \in DOMAIN c.seen : c.seen[i] = a
    BY <2>6
  <2>8. V!AlarmsAreTrue
    <3>1. c.plaintext => "plain" \in {world.index, world.snapshots}
      BY <2>4 DEF Plain
    <3>2. c.foreign => world.open /\ c.row = "fit"
      BY <2>5
    <3> QED BY <2>2, <3>1, <3>2, Zenon DEF V!AlarmsAreTrue
  <2>9. V!AlarmsAreRaised
    <3>1. "granted" \in answers => c.foreign
      BY <2>5, <2>7
    <3>2. c.foreign \/ c.plaintext => c.outcome = "fail"
      BY <2>3, <2>4, <2>5, StepsAre
    <3> QED BY <2>2, <2>6, <3>1, <3>2, Zenon DEF V!AlarmsAreRaised
  <2>10. V!OutageIsNoFinding
    <3>1. ASSUME V!Sound, c.outcome = "fail"
          PROVE  Troubled \/ "redirect" \in answers
      <4>1. ~ Plain /\ ~ world.open /\ c.row \in {"fit", "none", "own"}
        BY <2>2, <3>1 DEF V!Sound, Plain
      <4>2. PICK s \in V!Steps : c.verdict[s] = "fail"
        BY <2>3, <3>1
      <4>3. CASE s = "isolation"
        BY <2>5, <2>7, <4>1, <4>2, <4>3
      <4>4. CASE s # "isolation"
        BY <2>4, <4>1, <4>2, <4>4, StepsAre
      <4> QED BY <4>3, <4>4
    <3>2. Troubled => check.trouble \cap {"internal", "refused", "large", "rolled"} # {}
      BY DEF Troubled
    <3> QED BY <2>2, <2>6, <3>1, <3>2, Zenon DEF V!OutageIsNoFinding
  <2>11. V!PassIsEarned
    <3>1. ASSUME c.outcome = "pass"
          PROVE  \A i \in DOMAIN c.got : c.got[i].body = "sealed"
      <4>1. c.verdict["ciphertext"] # "fail"
        BY <2>3, <3>1, StepsAre
      <4>2. c.got \in Seq(Objects)
        BY <2>1, <2>2 DEF CheckTypes
      <4>3. \A i \in DOMAIN c.got : c.got[i] \in Objects
        BY <4>2
      <4> QED BY <2>4, <4>1, <4>3 DEF Objects
    <3> QED BY <2>2, <2>5, <3>1, Zenon DEF V!PassIsEarned
  <2>12. V!SummaryIsTrue
    <3>1. /\ V!Summary = "unverified" <=> c.outcome = "na" /\ c.unreached
          /\ V!Summary = "empty" <=> c.outcome = "na" /\ ~ c.unreached
          /\ V!Summary = "otherkey" => c.wrongKey /\ c.outcome = "fail"
          /\ c.outcome = "pass" => V!Summary = "pass"
      BY <2>2, <2>3, SummaryIs
    <3>2. V!Summary = "empty" => c.verdict["list"] = "na" /\ "none" \notin c.trouble
      <4>1. SUFFICES ASSUME V!Summary = "empty"
                     PROVE  c.verdict["list"] = "na" /\ "none" \notin c.trouble
        OBVIOUS
      <4>2. c.outcome = "na" /\ ~ c.unreached
        BY <3>1, <4>1
      <4>3. "none" \notin c.trouble
        BY <2>4, <4>2
      <4>4. c.verdict["list"] # "fail" /\ c.verdict["ciphertext"] # "fail"
        BY <2>3, <4>2, StepsAre
      <4>5. c.verdict["list"] # "pass"
        <5>1. SUFFICES ASSUME c.verdict["list"] = "pass" PROVE FALSE
          OBVIOUS
        <5>2. c.got # <<>>
          BY <2>4, <4>2, <4>4, <5>1
        <5>3. check.outcome = "pass"
          <6>1. "pass" \in {check.verdict[t] : t \in V!Steps}
            BY <2>2, <5>1, StepsAre
          <6>2. ~ ("fail" \in {check.verdict[t] : t \in V!Steps})
            BY <2>2, <2>3, <4>2
          <6> QED BY <2>1, <2>2, <5>2, <6>1, <6>2, Zenon DEF V!Outcome
        <5> QED BY <2>2, <4>2, <5>3
      <4>6. c.verdict["list"] \in {"pass", "na", "fail"}
        BY <2>3, StepsAre
      <4> QED BY <4>3, <4>4, <4>5, <4>6
    <3>3. V!Summary = "otherkey" => c.got # <<>> /\ c.verdict["decrypt"] = "fail"
      BY <2>4, <3>1
    <3>4. V!ExitCode = 0 => V!Summary \in {"pass", "empty"}
      <4>1. V!ExitCode = 0 => c.outcome # "fail" /\ V!Summary # "unverified"
        BY <2>2 DEF V!ExitCode
      <4> QED BY <2>3, <3>1, <4>1
    <3> QED BY <2>2, <3>2, <3>3, <3>4, Zenon DEF V!SummaryIsTrue
  <2> QED BY <1>1, <2>8, <2>9, <2>10, <2>11, <2>12, Zenon DEF V!ReportIsHonest
<1> QED BY <1>2, <1>3

------------------------------------------------------------------------------
(* Readiness: the prober.                                                   *)
LEMMA NewProberTypes == ASSUME prober' = NewProber PROVE ProberTypes'
<1>1. PICK p : p = prober'
  OBVIOUS
<1>2. /\ p.cache = [s \in Sessions |-> "none"] /\ p.retries = [s \in Sessions |-> 0]
      /\ p.pending = {} /\ p.verifying = {}
      /\ p = [cache |-> p.cache, pending |-> p.pending,
              verifying |-> p.verifying, retries |-> p.retries]
  BY <1>1 DEF NewProber
<1>3. Cardinality({}) = 0 /\ IsFiniteSet({})
  BY FS_EmptySet
<1>4. MaxConcurrentProbes \in Nat /\ MaxProbeRetries \in Nat /\ 0 < MaxProbeRetries
  BY SwitcherAssumption
<1> QED BY <1>1, <1>2, <1>3, <1>4 DEF ProberTypes

LEMMA PendingTypes ==
    ASSUME ProberTypes, NEW seen,
           prober' = [prober EXCEPT !.pending = prober.pending \cup Probe(seen)]
    PROVE  /\ ProberTypes'
           /\ \A s \in seen : Wanted(s)' => s \in prober'.pending
<1>1. PICK p, q : p = prober /\ q = prober'
  OBVIOUS
<1>2. PICK more : more = Probe(seen)
  OBVIOUS
<1>3. p = [cache |-> p.cache, pending |-> p.pending, verifying |-> p.verifying,
           retries |-> p.retries]
  BY <1>1 DEF ProberTypes
<1>4. q = [p EXCEPT !.pending = p.pending \cup more]
  BY <1>1, <1>2
<1>5. /\ q = [cache |-> q.cache, pending |-> q.pending, verifying |-> q.verifying,
              retries |-> q.retries]
      /\ q.cache = p.cache /\ q.retries = p.retries /\ q.verifying = p.verifying
      /\ q.pending = p.pending \cup more
  BY <1>3, <1>4
<1>6. \A s : s \in more <=> s \in seen /\ Wanted(s) /\ s \notin p.pending
  BY <1>1, <1>2 DEF Probe
<1>7. \A s : Wanted(s)' <=> Wanted(s)
  BY <1>1, <1>5 DEF Wanted
<1>8. \A s \in more : /\ s \in Sessions \ ReadOnly /\ p.cache[s] \in {"none", "unknown"}
                      /\ p.retries[s] < MaxProbeRetries
  <2>1. SUFFICES ASSUME NEW s \in more
                 PROVE  /\ s \in Sessions \ ReadOnly /\ p.cache[s] \in {"none", "unknown"}
                        /\ p.retries[s] < MaxProbeRetries
    OBVIOUS
  <2>2. /\ s \in Sessions \ ReadOnly
        /\ \/ p.cache[s] = "none"
           \/ p.cache[s] = "unknown" /\ p.retries[s] < MaxProbeRetries
    BY <1>1, <1>6 DEF Wanted
  <2>3. p.cache[s] = "none" => p.retries[s] < MaxProbeRetries
    BY <1>1, <2>2 DEF ProberTypes
  <2> QED BY <2>2, <2>3
<1>9. ProberTypes'
  <2>1. /\ DOMAIN q.cache = Sessions /\ DOMAIN q.retries = Sessions
        /\ \A s \in Sessions : q.retries[s] \in Nat /\ q.retries[s] <= MaxProbeRetries
        /\ \A s \in Sessions : q.cache[s] = "none" => q.retries[s] < MaxProbeRetries
    BY <1>1, <1>5 DEF ProberTypes
  <2>2. \A s \in q.pending : /\ s \in Sessions \ ReadOnly
                             /\ q.cache[s] \in {"none", "unknown"}
                             /\ q.retries[s] < MaxProbeRetries
    BY <1>1, <1>5, <1>8 DEF ProberTypes
  <2>3. /\ q.verifying \subseteq q.pending /\ IsFiniteSet(q.verifying)
        /\ Cardinality(q.verifying) <= MaxConcurrentProbes
    BY <1>1, <1>5 DEF ProberTypes
  <2> QED BY <1>1, <1>5, <2>1, <2>2, <2>3 DEF ProberTypes
<1>10. \A s \in seen : Wanted(s)' => s \in q.pending
  BY <1>5, <1>6, <1>7
<1> QED BY <1>1, <1>9, <1>10

------------------------------------------------------------------------------
(* What is on the screen.                                                   *)
LEMMA SameRows ==
    ASSUME NEW l, NEW m,
           l.records = m.records, l.offset = m.offset, l.height = m.height
    PROVE  OnScreen(l) = OnScreen(m)
  BY DEF OnScreen

LEMMA ClampIs ==
    ASSUME NEW l, IsList(l)
    PROVE  IsList(ClampOffset(l))
<1>1. PICK c : c = ClampOffset(l)
  OBVIOUS
<1>2. PICK offset : c = [l EXCEPT !.offset = offset]
  BY <1>1, Zenon DEF ClampOffset
<1>3. IsList(c)
  BY <1>2 DEF IsList
<1> QED BY <1>1, <1>3

(* A message that asks for the readiness of what is now on the screen.      *)
LEMMA ProbeVisibleInv ==
    ASSUME ProberTypes, NEW l, IsList(l), ProbeVisible(l), notes' \in Nat
    PROVE  ReadinessInv'
<1>1. PICK m : m = list'
  OBVIOUS
<1>2. m = [l EXCEPT !.unasked = FALSE]
  BY <1>1 DEF ProbeVisible
<1>3. IsList(m) /\ m.records = l.records /\ m.offset = l.offset /\ m.height = l.height
  BY <1>2 DEF IsList
<1>4. OnScreen(m) = OnScreen(l)
  BY <1>3, SameRows
<1>5. PICK seen : seen = OnScreen(l)
  OBVIOUS
<1>6. prober' = [prober EXCEPT !.pending = prober.pending \cup Probe(seen)]
  BY <1>5 DEF ProbeVisible
<1>7. ProberTypes' /\ \A s \in seen : Wanted(s)' => s \in prober'.pending
  BY <1>6, PendingTypes
<1>8. OnScreen(list') = seen
  BY <1>1, <1>4, <1>5
<1>9. NoRowForgotten'
  BY <1>7, <1>8 DEF NoRowForgotten
<1> QED BY <1>1, <1>3, <1>7, <1>9 DEF ReadinessInv

(* One that leaves the rows on the screen as they are.                      *)
LEMMA LikeInv ==
    ASSUME ReadinessInv, Like(list'), UNCHANGED <<prober, notes>>,
           screen' = "list" => screen = "list"
    PROVE  ReadinessInv'
<1>1. OnScreen(list') = OnScreen(list)
  BY SameRows DEF Like
<1>2. ProberTypes'
  BY DEF ReadinessInv, ProberTypes
<1>3. \A s : Wanted(s)' <=> Wanted(s)
  BY DEF Wanted
<1>4. NoRowForgotten'
  BY <1>1, <1>3 DEF ReadinessInv, NoRowForgotten, Like
<1> QED BY <1>2, <1>4 DEF ReadinessInv, Like

LEMMA JumpToInv ==
    ASSUME ReadinessInv, NEW l, IsList(l), JumpTo(l)
    PROVE  ReadinessInv'
<1>1. PICK c : c = ClampOffset(l)
  OBVIOUS
<1>2. PICK m : m = list'
  OBVIOUS
<1>3. m = [c EXCEPT !.unasked = TRUE]
  BY <1>1, <1>2 DEF JumpTo
<1>4. IsList(m) /\ m.unasked = TRUE
  <2>1. IsList(c)
    BY <1>1, ClampIs
  <2> QED BY <1>3, <2>1 DEF IsList
<1>5. UNCHANGED <<prober, notes>>
  BY DEF JumpTo, Stay
<1>6. ProberTypes'
  BY <1>5 DEF ReadinessInv, ProberTypes
<1>7. NoRowForgotten'
  BY <1>2, <1>4 DEF NoRowForgotten
<1> QED BY <1>2, <1>4, <1>5, <1>6, <1>7 DEF ReadinessInv

LEMMA QuitInv ==
    ASSUME NEW action \in SessionActions \cup {"command", "none"}, NEW key, Quit(action, key)
    PROVE  ReadinessInv'
<1>1. screen' # "list"
  BY DEF Quit, SessionActions
<1>2. PICK m : m = list'
  OBVIOUS
<1>3. IsList(m)
  <2>1. m = NewList(list.inside, list.height)
    BY <1>2 DEF Quit
  <2> QED BY <2>1 DEF NewList, IsList
<1>4. ProberTypes' /\ notes' = 0
  BY NewProberTypes DEF Quit
<1>5. NoRowForgotten'
  BY <1>1 DEF NoRowForgotten
<1> QED BY <1>2, <1>3, <1>4, <1>5 DEF ReadinessInv

LEMMA ChooseInv ==
    ASSUME ReadinessInv, NEW action \in SessionActions, NEW l, Like(l), Choose(action, l)
    PROVE  ReadinessInv'
<1>1. CASE list' = l /\ Stay /\ UNCHANGED <<loads, prober>>
  BY <1>1, LikeInv DEF Stay
<1>2. CASE Quit(action, Selected(l))
  BY <1>2, QuitInv
<1> QED BY <1>1, <1>2 DEF Choose

LEMMA ReloadInv ==
    ASSUME ReadinessInv, NEW l, Like(l), Reload(l)
    PROVE  ReadinessInv'
  BY LikeInv DEF Reload, Stay

LEMMA ToggleScopeInv ==
    ASSUME ReadinessInv, NEW l, Like(l), ToggleScope(l)
    PROVE  ReadinessInv'
<1>1. CASE l.inside /\ Reload([l EXCEPT !.project = ~ l.project])
  <2>1. PICK m : m = [l EXCEPT !.project = ~ l.project]
    OBVIOUS
  <2>2. Like(m)
    BY <2>1 DEF Like, IsList
  <2> QED BY <1>1, <2>1, <2>2, ReloadInv
<1>2. CASE list' = l /\ Stay /\ UNCHANGED <<loads, prober>>
  BY <1>2, LikeInv DEF Stay
<1> QED BY <1>1, <1>2 DEF ToggleScope

------------------------------------------------------------------------------
(* The steps of the list.                                                   *)
LEMMA ListIsLike ==
    ASSUME ReadinessInv
    PROVE  /\ Like(list) /\ Like(Closed(list))
           /\ \A f : Like([list EXCEPT !.filter = f])
           /\ \A m, e : Like([list EXCEPT !.mode = m, !.menu = e])
           /\ \A m : Like([list EXCEPT !.mode = m])
           /\ \A c : IsList([list EXCEPT !.cursor = c])
           /\ \A h : IsList([list EXCEPT !.height = h])
<1>1. PICK l : l = list
  OBVIOUS
<1>2. IsList(l)
  BY <1>1 DEF ReadinessInv
<1>3. Like(l)
  BY <1>1, <1>2 DEF Like
<1>4. ASSUME NEW m, NEW e PROVE Like([l EXCEPT !.mode = m, !.menu = e])
  <2>1. PICK x : x = [l EXCEPT !.mode = m, !.menu = e]
    OBVIOUS
  <2>2. Like(x)
    BY <1>1, <1>2, <2>1 DEF Like, IsList
  <2> QED BY <2>1, <2>2
<1>5. ASSUME NEW f PROVE Like([l EXCEPT !.filter = f])
  <2>1. PICK x : x = [l EXCEPT !.filter = f]
    OBVIOUS
  <2>2. Like(x)
    BY <1>1, <1>2, <2>1 DEF Like, IsList
  <2> QED BY <2>1, <2>2
<1>6. ASSUME NEW m PROVE Like([l EXCEPT !.mode = m])
  <2>1. PICK x : x = [l EXCEPT !.mode = m]
    OBVIOUS
  <2>2. Like(x)
    BY <1>1, <1>2, <2>1 DEF Like, IsList
  <2> QED BY <2>1, <2>2
<1>7. ASSUME NEW c PROVE IsList([l EXCEPT !.cursor = c])
  <2>1. PICK x : x = [l EXCEPT !.cursor = c]
    OBVIOUS
  <2>2. IsList(x)
    BY <1>2, <2>1 DEF IsList
  <2> QED BY <2>1, <2>2
<1>8. ASSUME NEW h PROVE IsList([l EXCEPT !.height = h])
  <2>1. PICK x : x = [l EXCEPT !.height = h]
    OBVIOUS
  <2>2. IsList(x)
    BY <1>2, <2>1 DEF IsList
  <2> QED BY <2>1, <2>2
<1>9. Like(Closed(l))
  BY <1>4 DEF Closed
<1> QED BY <1>1, <1>3, <1>4, <1>5, <1>6, <1>7, <1>8, <1>9

LEMMA ProbeStartsInv ==
    ASSUME ReadinessInv, NEW s \in Sessions, ProbeStarts(s)
    PROVE  ReadinessInv'
<1>1. /\ s \in prober.pending \ prober.verifying
      /\ Cardinality(prober.verifying) < MaxConcurrentProbes
      /\ UNCHANGED <<list, notes, screen>>
  BY DEF ProbeStarts
<1>2. PICK p, q : p = prober /\ q = prober'
  OBVIOUS
<1>3. q = [p EXCEPT !.verifying = p.verifying \cup {s}]
  BY <1>2 DEF ProbeStarts
<1>4. p = [cache |-> p.cache, pending |-> p.pending, verifying |-> p.verifying,
           retries |-> p.retries]
  BY <1>2 DEF ReadinessInv, ProberTypes
<1>5. /\ q = [cache |-> q.cache, pending |-> q.pending, verifying |-> q.verifying,
              retries |-> q.retries]
      /\ q.cache = p.cache /\ q.retries = p.retries /\ q.pending = p.pending
      /\ q.verifying = p.verifying \cup {s}
  BY <1>3, <1>4
<1>6. /\ IsFiniteSet(p.verifying) /\ p.verifying \subseteq p.pending
      /\ s \notin p.verifying /\ s \in p.pending
  BY <1>1, <1>2 DEF ReadinessInv, ProberTypes
<1>7. /\ IsFiniteSet(q.verifying) /\ Cardinality(q.verifying) = Cardinality(p.verifying) + 1
      /\ Cardinality(p.verifying) \in Nat
  <2>1. PICK S, T : S = p.verifying /\ T = q.verifying
    OBVIOUS
  <2>2. IsFiniteSet(S) /\ s \notin S /\ T = S \cup {s}
    BY <1>5, <1>6, <2>1
  <2>3. IsFiniteSet(T) /\ Cardinality(T) = Cardinality(S) + 1
    BY <2>2, FS_AddElement
  <2>4. Cardinality(S) \in Nat
    BY <2>2, FS_CardinalityType
  <2> QED BY <2>1, <2>3, <2>4
<1>8. Cardinality(q.verifying) <= MaxConcurrentProbes
  <2>1. Cardinality(p.verifying) < MaxConcurrentProbes /\ MaxConcurrentProbes \in Nat
    BY <1>1, <1>2, SwitcherAssumption
  <2> QED BY <1>7, <2>1
<1>9. ProberTypes'
  BY <1>2, <1>5, <1>6, <1>7, <1>8 DEF ReadinessInv, ProberTypes
<1>10. \A t : Wanted(t)' <=> Wanted(t)
  BY <1>2, <1>5 DEF Wanted
<1>11. NoRowForgotten'
  BY <1>1, <1>2, <1>5, <1>10 DEF ReadinessInv, NoRowForgotten
<1> QED BY <1>1, <1>9, <1>11 DEF ReadinessInv

LEMMA ProbeEndsInv ==
    ASSUME ReadinessInv, NEW s \in Sessions, ProbeEnds(s)
    PROVE  ReadinessInv'
<1>1. s \in prober.verifying /\ notes' = notes + 1 /\ UNCHANGED <<list, screen>>
  BY DEF ProbeEnds
<1>2. PICK p, q : p = prober /\ q = prober'
  OBVIOUS
<1>3. PICK report \in Reports :
         q = [p EXCEPT
                !.cache[s] = FromReport(report),
                !.retries[s] = IF FromReport(report) = "unknown" THEN p.retries[s] + 1 ELSE 0,
                !.pending = p.pending \ {s}, !.verifying = p.verifying \ {s}]
  BY <1>2 DEF ProbeEnds
<1>4. PICK answer, n : /\ answer = FromReport(report)
                       /\ n = IF answer = "unknown" THEN p.retries[s] + 1 ELSE 0
  OBVIOUS
<1>5. answer \in {"known", "unknown"}
  BY <1>4 DEF FromReport
<1>6. p = [cache |-> p.cache, pending |-> p.pending, verifying |-> p.verifying,
           retries |-> p.retries]
  BY <1>2 DEF ReadinessInv, ProberTypes
<1>7. q = [p EXCEPT !.cache[s] = answer, !.retries[s] = n,
                    !.pending = p.pending \ {s}, !.verifying = p.verifying \ {s}]
  BY <1>3, <1>4
<1>8. /\ q = [cache |-> q.cache, pending |-> q.pending, verifying |-> q.verifying,
              retries |-> q.retries]
      /\ q.cache = [p.cache EXCEPT ![s] = answer]
      /\ q.retries = [p.retries EXCEPT ![s] = n]
      /\ q.pending = p.pending \ {s} /\ q.verifying = p.verifying \ {s}
  BY <1>6, <1>7
<1>9. /\ DOMAIN p.cache = Sessions /\ DOMAIN p.retries = Sessions
      /\ \A t \in Sessions : p.retries[t] \in Nat /\ p.retries[t] <= MaxProbeRetries
      /\ \A t \in Sessions : p.cache[t] = "none" => p.retries[t] < MaxProbeRetries
      /\ \A t \in p.pending : /\ t \in Sessions \ ReadOnly
                              /\ p.cache[t] \in {"none", "unknown"}
                              /\ p.retries[t] < MaxProbeRetries
      /\ p.verifying \subseteq p.pending /\ IsFiniteSet(p.verifying)
      /\ Cardinality(p.verifying) <= MaxConcurrentProbes
  BY <1>2 DEF ReadinessInv, ProberTypes
<1>10. /\ DOMAIN q.cache = Sessions /\ DOMAIN q.retries = Sessions
       /\ q.cache[s] = answer /\ q.retries[s] = n
       /\ \A t \in Sessions \ {s} : q.cache[t] = p.cache[t] /\ q.retries[t] = p.retries[t]
  <2>1. PICK f, g, h, k : /\ f = p.cache /\ g = q.cache /\ h = p.retries /\ k = q.retries
    OBVIOUS
  <2>2. /\ g = [f EXCEPT ![s] = answer] /\ k = [h EXCEPT ![s] = n]
        /\ DOMAIN f = Sessions /\ DOMAIN h = Sessions
    BY <1>8, <1>9, <2>1
  <2>3. /\ DOMAIN g = Sessions /\ DOMAIN k = Sessions /\ g[s] = answer /\ k[s] = n
        /\ \A t \in Sessions \ {s} : g[t] = f[t] /\ k[t] = h[t]
    BY <2>2
  <2> QED BY <2>1, <2>3
<1>11. n \in Nat /\ n <= MaxProbeRetries
  <2>1. p.retries[s] \in Nat /\ p.retries[s] < MaxProbeRetries
    BY <1>1, <1>2, <1>9
  <2>2. MaxProbeRetries \in Nat
    BY SwitcherAssumption
  <2> QED BY <1>4, <2>1, <2>2
<1>12. /\ IsFiniteSet(q.verifying) /\ Cardinality(q.verifying) <= MaxConcurrentProbes
  <2>1. /\ IsFiniteSet(q.verifying)
        /\ Cardinality(q.verifying) = Cardinality(p.verifying) - 1
        /\ Cardinality(p.verifying) \in Nat
    <3>1. PICK S, T : S = p.verifying /\ T = q.verifying
      OBVIOUS
    <3>2. IsFiniteSet(S) /\ s \in S /\ T = S \ {s}
      BY <1>1, <1>2, <1>8, <1>9, <3>1
    <3>3. IsFiniteSet(T) /\ Cardinality(T) = Cardinality(S) - 1
      BY <3>2, FS_RemoveElement
    <3>4. Cardinality(S) \in Nat
      BY <3>2, FS_CardinalityType
    <3> QED BY <3>1, <3>3, <3>4
  <2> QED BY <1>9, <2>1, SwitcherAssumption
<1>13. ProberTypes'
  <2>1. /\ \A t \in Sessions : q.retries[t] \in Nat /\ q.retries[t] <= MaxProbeRetries
        /\ \A t \in Sessions : q.cache[t] = "none" => q.retries[t] < MaxProbeRetries
    BY <1>5, <1>9, <1>10, <1>11
  <2>2. \A t \in q.pending : /\ t \in Sessions \ ReadOnly
                             /\ q.cache[t] \in {"none", "unknown"}
                             /\ q.retries[t] < MaxProbeRetries
    BY <1>8, <1>9, <1>10
  <2>3. q.verifying \subseteq q.pending
    BY <1>8, <1>9
  <2> QED BY <1>2, <1>8, <1>10, <1>12, <2>1, <2>2, <2>3 DEF ProberTypes
<1>14. notes' \in Nat /\ notes' > 0
  BY <1>1 DEF ReadinessInv
<1>15. NoRowForgotten'
  BY <1>14 DEF NoRowForgotten
<1> QED BY <1>1, <1>13, <1>14, <1>15 DEF ReadinessInv

LEMMA LoadedInv ==
    ASSUME ReadinessInv, NEW d, Loaded(d)
    PROVE  ReadinessInv'
<1>1. ProbeVisible(Rebuild(list, d.got)) /\ notes' = notes
  BY DEF Loaded
<1>2. IsList(Rebuild(list, d.got))
  <2>1. PICK c : Rebuild(list, d.got) = ClampOffset([list EXCEPT !.records = d.got, !.cursor = c])
    BY Zenon DEF Rebuild
  <2>2. PICK l, x : l = list /\ x = [l EXCEPT !.records = d.got, !.cursor = c]
    OBVIOUS
  <2>3. IsList(l)
    BY <2>2 DEF ReadinessInv
  <2>4. IsList(x)
    BY <2>2, <2>3 DEF IsList
  <2> QED BY <2>1, <2>2, <2>4, ClampIs
<1> QED BY <1>1, <1>2, ProbeVisibleInv DEF ReadinessInv

LEMMA ProbedInv ==
    ASSUME ReadinessInv, Probed
    PROVE  ReadinessInv'
<1>1. ProbeVisible(list) /\ notes > 0 /\ notes' = notes - 1
  BY DEF Probed
<1>2. notes' \in Nat
  BY <1>1 DEF ReadinessInv
<1> QED BY <1>1, <1>2, ProbeVisibleInv DEF ReadinessInv

LEMMA ArrowInv ==
    ASSUME ReadinessInv, Arrow
    PROVE  ReadinessInv'
<1>1. PICK c : MoveTo(c)
  BY Zenon DEF Arrow
<1>2. ProbeVisible(ClampOffset([list EXCEPT !.cursor = c])) /\ notes' = notes
  BY <1>1 DEF MoveTo, Stay
<1>3. IsList(ClampOffset([list EXCEPT !.cursor = c]))
  BY ListIsLike, ClampIs
<1> QED BY <1>2, <1>3, ProbeVisibleInv DEF ReadinessInv

LEMMA HomeEndInv ==
    ASSUME ReadinessInv, HomeEnd
    PROVE  ReadinessInv'
<1>1. PICK c : JumpTo([list EXCEPT !.cursor = c])
  BY Zenon DEF HomeEnd
<1> QED BY <1>1, ListIsLike, JumpToInv

LEMMA CancelInv ==
    ASSUME Cancel
    PROVE  ReadinessInv'
  BY QuitInv DEF Cancel

LEMMA PressedInv ==
    ASSUME ReadinessInv,
           \/ Escape \/ Type \/ Backspace \/ Refresh \/ Enter \/ Scope
           \/ Tab \/ OpenPalette \/ CloseMenu \/ Kill
    PROVE  ReadinessInv'
<1>1. Like(list) /\ Like(Closed(list)) /\ \A f : Like([list EXCEPT !.filter = f])
  BY ListIsLike
<1>2. CASE Escape
  <2>1. Reload([list EXCEPT !.filter = 0]) \/ Cancel
    BY <1>2 DEF Escape
  <2> QED BY <1>1, <2>1, ReloadInv, CancelInv
<1>3. CASE Type \/ Backspace \/ Refresh
  <2>1. Reload(list) \/ \E f : Reload([list EXCEPT !.filter = f])
    BY <1>3 DEF Type, Backspace, Refresh
  <2> QED BY <1>1, <2>1, ReloadInv
<1>4. CASE Enter
  BY <1>1, <1>4, ChooseInv DEF Enter, SessionActions
<1>5. CASE Scope
  BY <1>1, <1>5, ToggleScopeInv DEF Scope
<1>6. CASE Tab
  <2>1. list' = [list EXCEPT !.mode = "actions"] /\ Stay /\ UNCHANGED prober
    BY <1>6 DEF Tab
  <2>2. Like(list')
    BY <2>1, ListIsLike
  <2> QED BY <2>1, <2>2, LikeInv DEF Stay
<1>7. CASE OpenPalette
  <2>1. PICK e : list' = [list EXCEPT !.mode = "palette", !.menu = e]
    BY <1>7 DEF OpenPalette
  <2>2. Like(list')
    BY <2>1, ListIsLike
  <2> QED BY <1>7, <2>2, LikeInv DEF OpenPalette, Stay
<1>8. CASE CloseMenu
  <2>1. list' = Closed(list) /\ Stay /\ UNCHANGED prober
    BY <1>8 DEF CloseMenu
  <2> QED BY <1>1, <2>1, LikeInv DEF Stay
<1>9. CASE Kill
  BY <1>9, CancelInv DEF Kill
<1> QED BY <1>2, <1>3, <1>4, <1>5, <1>6, <1>7, <1>8, <1>9

LEMMA PickInv ==
    ASSUME ReadinessInv, Pick
    PROVE  ReadinessInv'
<1>1. Like(Closed(list))
  BY ListIsLike
<1>2. ASSUME NEW action \in SessionActions, Choose(action, Closed(list))
      PROVE  ReadinessInv'
  BY <1>1, <1>2, ChooseInv
<1>3. CASE ToggleScope(Closed(list))
  BY <1>1, <1>3, ToggleScopeInv
<1>4. CASE Reload(Closed(list))
  BY <1>1, <1>4, ReloadInv
<1>5. CASE Quit("command", "")
  BY <1>5, QuitInv
<1>6. CASE Cancel
  BY <1>6, CancelInv
<1> QED BY <1>2, <1>3, <1>4, <1>5, <1>6 DEF Pick

LEMMA ListInitInv == ListInit => ReadinessInv
<1> SUFFICES ASSUME ListInit PROVE ReadinessInv
  OBVIOUS
<1>1. PICK inside, height : list = NewList(inside, height)
  BY Zenon DEF ListInit
<1>2. PICK l : l = list
  OBVIOUS
<1>3. IsList(l) /\ l.records = <<>>
  BY <1>1, <1>2 DEF NewList, IsList
<1>4. OnScreen(l) = {}
  <2>1. Rows(l.records) = <<>>
    BY <1>3 DEF Rows
  <2> QED BY <2>1 DEF OnScreen, SessionRows
<1>5. prober = NewProber /\ notes = 0
  BY DEF ListInit
<1>6. ProberTypes
  <2>1. PICK p : p = prober
    OBVIOUS
  <2>2. /\ p.cache = [s \in Sessions |-> "none"] /\ p.retries = [s \in Sessions |-> 0]
        /\ p.pending = {} /\ p.verifying = {}
        /\ p = [cache |-> p.cache, pending |-> p.pending,
                verifying |-> p.verifying, retries |-> p.retries]
    BY <1>5, <2>1 DEF NewProber
  <2>3. Cardinality({}) = 0 /\ IsFiniteSet({})
    BY FS_EmptySet
  <2>4. MaxConcurrentProbes \in Nat /\ MaxProbeRetries \in Nat /\ 0 < MaxProbeRetries
    BY SwitcherAssumption
  <2> QED BY <2>1, <2>2, <2>3, <2>4 DEF ProberTypes
<1>7. NoRowForgotten
  BY <1>2, <1>4 DEF NoRowForgotten
<1> QED BY <1>2, <1>3, <1>5, <1>6, <1>7 DEF ReadinessInv

(* A step of the list, of a dialog that follows it, or of another command.  *)
LEMMA ReadinessStays ==
    ASSUME ReadinessInv, UNCHANGED <<list, prober, notes>>, screen' = "list" => screen = "list"
    PROVE  ReadinessInv'
  BY LikeInv, ListIsLike

LEMMA ListStepInv ==
    ASSUME ReadinessInv, ListNext
    PROVE  ReadinessInv'
<1>1. ASSUME NEW s \in Sessions, ProbeStarts(s) PROVE ReadinessInv'
  BY <1>1, ProbeStartsInv
<1>2. ASSUME NEW s \in Sessions, ProbeEnds(s) PROVE ReadinessInv'
  BY <1>2, ProbeEndsInv
<1>3. ASSUME NEW s \in Sessions, IndexChanges(s) PROVE ReadinessInv'
  BY <1>3, ReadinessStays DEF IndexChanges
<1>4. ASSUME NEW d \in loads, LoadReads(d) PROVE ReadinessInv'
  BY <1>4, ReadinessStays DEF LoadReads
<1>5. ASSUME NEW d \in loads, Loaded(d) PROVE ReadinessInv'
  BY <1>5, LoadedInv
<1>6. CASE Probed
  BY <1>6, ProbedInv
<1>7. CASE \/ Escape \/ Type \/ Backspace \/ Refresh \/ Enter \/ Scope
           \/ Tab \/ OpenPalette \/ CloseMenu \/ Kill
  BY <1>7, PressedInv
<1>8. CASE Arrow
  BY <1>8, ArrowInv
<1>9. CASE HomeEnd
  BY <1>9, HomeEndInv
<1>10. CASE Pick
  BY <1>10, PickInv
<1>11. ASSUME NEW h \in Heights, Resize(h) PROVE ReadinessInv'
  BY <1>11, ListIsLike, JumpToInv DEF Resize
<1> QED
  BY <1>1, <1>2, <1>3, <1>4, <1>5, <1>6, <1>7, <1>8, <1>9, <1>10, <1>11, Zenon DEF ListNext

LEMMA DialogsLeaveTheList ==
    ASSUME DialogsNext
    PROVE  UNCHANGED <<list, prober, notes>> /\ (screen' = "list" => screen = "list")
<1>1. CASE SessionIsGone \/ OtherCommand \/ Decline
  BY <1>1 DEF SessionIsGone, OtherCommand, Decline, Enters, listVars
<1>2. ASSUME NEW checks \in Environments, LooksAround(checks)
      PROVE  UNCHANGED <<list, prober, notes>> /\ (screen' = "list" => screen = "list")
  BY <1>2 DEF LooksAround, Enters, listVars
<1>3. ASSUME NEW w, Tick(w)
      PROVE  UNCHANGED <<list, prober, notes>> /\ (screen' = "list" => screen = "list")
  BY <1>3 DEF Tick, PressIn, Still, listVars
<1>4. CASE TickAll
  BY <1>4 DEF TickAll, PressIn, Still, listVars
<1>5. CASE ConfirmChecklist
  <2>1. UNCHANGED listVars /\ screen' \in {"launched", "end"}
    BY <1>5, Zenon DEF ConfirmChecklist, PressIn
  <2> QED BY <2>1 DEF listVars
<1>6. CASE OpenStudio
  <2>1. Enters("end") \/ Enters("studio")
    BY <1>6 DEF OpenStudio
  <2> QED BY <2>1 DEF Enters, listVars
<1>7. ASSUME NEW pair, Previewed(pair)
      PROVE  UNCHANGED <<list, prober, notes>> /\ (screen' = "list" => screen = "list")
  <2>1. Still /\ UNCHANGED listVars
    BY <1>7, Zenon DEF Previewed
  <2> QED BY <2>1 DEF Still, listVars
<1>8. ASSUME NEW delta, CyclePolicy(delta) \/ CycleDestination(delta)
      PROVE  UNCHANGED <<list, prober, notes>> /\ (screen' = "list" => screen = "list")
  <2>1. Still /\ UNCHANGED listVars
    BY <1>8, Zenon DEF CyclePolicy, CycleDestination, Cycle, PressIn
  <2> QED BY <2>1 DEF Still, listVars
<1>9. CASE Acknowledge
  <2>1. Still /\ UNCHANGED listVars
    BY <1>9, Zenon DEF Acknowledge, PressIn
  <2> QED BY <2>1 DEF Still, listVars
<1>10. ASSUME NEW key, Send(key)
       PROVE  UNCHANGED <<list, prober, notes>> /\ (screen' = "list" => screen = "list")
  <2>1. UNCHANGED listVars /\ (Still \/ screen' = "handed")
    BY <1>10, Zenon DEF Send, PressIn
  <2> QED BY <2>1 DEF Still, listVars
<1> QED
  BY <1>1, <1>2, <1>3, <1>4, <1>5, <1>6, <1>7, <1>8, <1>9, <1>10, Zenon DEF DialogsNext

LEMMA ReadinessInvBounds == ReadinessInv => ProbesBounded /\ NoRowForgotten
  BY DEF ReadinessInv, ProberTypes, ProbesBounded

------------------------------------------------------------------------------
(* A step is one of the command's own, which leaves the others' parts alone. *)
LEMMA StepsOfACommand ==
    ASSUME [Next]_vars
    PROVE  /\ [SetupNext]_setupVars
           /\ [D!DestinationsNext]_(D!destinationVars)
           /\ [V!VerificationNext]_(V!verificationVars)
           /\ \/ DialogsNext
              \/ ListNext /\ UNCHANGED dialogVars
              \/ UNCHANGED <<screen, intent, list, prober, notes, dialogVars>>
<1>1. UNCHANGED destinationVars => UNCHANGED D!destinationVars
  BY DEF destinationVars, D!destinationVars
<1>2. UNCHANGED verificationVars => UNCHANGED V!verificationVars
  BY DEF verificationVars, V!verificationVars
<1>3. UNCHANGED dialogsAndList
      => UNCHANGED <<screen, intent, list, prober, notes, dialogVars>>
  BY DEF dialogsAndList, listVars
<1>4. CASE UNCHANGED vars
  <2>1. UNCHANGED dialogsAndList /\ UNCHANGED setupVars /\ UNCHANGED destinationVars
        /\ UNCHANGED verificationVars
    BY <1>4 DEF vars
  <2> QED BY <1>1, <1>2, <1>3, <2>1
<1>5. CASE Next
  <2>1. \/ SetupNext
        \/ UNCHANGED setupVars
    BY <1>5 DEF Next
  <2>2. \/ D!DestinationsNext
        \/ UNCHANGED destinationVars
    BY <1>5 DEF Next
  <2>3. \/ DialogsNext
        \/ ListNext /\ UNCHANGED dialogVars
        \/ UNCHANGED dialogsAndList
    BY <1>5 DEF Next
  <2>4. \/ V!VerificationNext
        \/ UNCHANGED verificationVars
    BY <1>5 DEF Next
  <2> QED BY <1>1, <1>2, <1>3, <2>1, <2>2, <2>3, <2>4
<1> QED BY <1>4, <1>5

(* Of rein init, for all accounts, profiles and providers, and any number   *)
(* of inits and keys: the files of a home that no cut has touched are of    *)
(* one profile, the answers it is set up from are ones the wizard checked,  *)
(* and the records of an account that is set up again stay (Run and         *)
(* RunHosted of setup, replaceEnrolment, the wizard's validateStep).        *)
THEOREM SetupLeavesOneProfile == Spec => []SetupIsWhole
<1>1. Init => SetupInv
  BY SetupInitInv DEF Init
<1>2. SetupInv /\ [Next]_vars => SetupInv'
  BY StepsOfACommand, SetupStepInv
<1>3. SetupInv => SetupIsWhole
  BY SetupInvIsWhole
<1> QED BY <1>1, <1>2, <1>3, PTL DEF Spec

(* Of bare rein, for all checks, policies, receivers and previews: a launch *)
(* that asked was ticked by keys for every warning of its report, and a     *)
(* handoff carries the warnings its user saw and accepted for just that     *)
(* destination and policy (NewChecklist, AllAccepted; acknowledge, send and *)
(* the cycles of the studio, which take an acknowledgement back).           *)
THEOREM DialogsHandOnWhatWasSaid == Spec => []DecisionIsWhatWasShown
<1>1. Init => DialogsInv
  BY DialogsInitInv DEF Init
<1>2. DialogsInv /\ [Next]_vars => DialogsInv'
  BY StepsOfACommand, DialogsStepInv, ListStepKeepsDialogs, DialogsUnchanged
<1>3. DialogsInv => DecisionIsWhatWasShown
  BY DialogsInvDecides
<1> QED BY <1>1, <1>2, <1>3, PTL DEF Spec

(* Of rein handoff, for any number of processes and capsules, any clock and *)
(* every destination: what an outcome names as resolved is a session of its *)
(* own capsule, its child's own unless another of that capsule could be     *)
(* taken for it, and a child that got its briefing is not overlooked        *)
(* (Verify of the five destinations, allocateSessionID, codexFirstUserMessage). *)
THEOREM HandoffsResolveToTheirOwn == Spec => []ResolvedIsTheHandoff
<1>1. Init => DestinationsInv
  BY DestinationsInitInv DEF Init
<1>2. DestinationsInv /\ [Next]_vars => DestinationsInv'
  BY StepsOfACommand, DestinationsStepInv
<1>3. DestinationsInv => ResolvedIsTheHandoff
  BY DestinationsInvResolves DEF ResolvedIsTheHandoff
<1> QED BY <1>1, <1>2, <1>3, PTL DEF Spec

(* Of rein sync verify, for any number of pushes, renewals, rollovers and   *)
(* runs: a report alarms of plaintext or of a foreign bucket exactly where  *)
(* there is one, fails a sound profile only over an answer of the store's,  *)
(* passes only what it has opened, calls a locker empty only on the store's *)
(* word, and a verdict that is recorded was posted (the steps of Run,       *)
(* outcomeOf, buildSummary, newSyncVerifyCmd, verifyAfterFirstPush).         *)
THEOREM ReportsAreHonest == Spec => []ReportIsHonest
<1>1. Init => VerificationInv
  BY VerificationInitInv DEF Init
<1>2. VerificationInv /\ [Next]_vars => VerificationInv'
  BY StepsOfACommand, VerificationStepInv
<1>3. VerificationInv => ReportIsHonest
  BY VerificationInvIsHonest DEF ReportIsHonest
<1> QED BY <1>1, <1>2, <1>3, PTL DEF Spec

(* Of the list of bare rein, for any sessions, slots, retries and index: no *)
(* more rows are verified at once than there are slots, none is verified    *)
(* that is known, read-only or out of retries, and while one on the screen  *)
(* could still be found out it is pending or an answer is on its way that   *)
(* asks again, but after Home, End or a resize (Probe, probeOne and Lookup  *)
(* of the prober, probeVisible of the list).                                *)
THEOREM RowsAreLookedUp == Spec => [](ProbesBounded /\ NoRowForgotten)
<1>1. Init => ReadinessInv
  BY ListInitInv DEF Init
<1>2. ReadinessInv /\ [Next]_vars => ReadinessInv'
  BY StepsOfACommand, ListStepInv, DialogsLeaveTheList, ReadinessStays
<1>3. ReadinessInv => ProbesBounded /\ NoRowForgotten
  BY ReadinessInvBounds
<1> QED BY <1>1, <1>2, <1>3, PTL DEF Spec
=============================================================================
