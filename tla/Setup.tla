-------------------------------- MODULE Setup --------------------------------
(***************************************************************************)
(* rein init (newInitCmd and initHosted in internal/cli/commands_impl.go): *)
(* the wizard collects coordinates (internal/tui/wizard), the store is     *)
(* probed, and the files of an earlier setup are backed up and replaced,   *)
(* one after the other.  Any of it may fail, and the process may die       *)
(* between any two steps.                                                  *)
(*                                                                         *)
(* A profile is the id of a store of one's own, or the account of a hosted *)
(* one.  Every local id that nobody has yet is drawn by NewString.         *)
(***************************************************************************)
EXTENDS Naturals, Sequences, FiniteSets

CONSTANTS Profiles,     \* ids of profiles in stores of one's own
          Accounts,     \* accounts, each with one hosted profile
          Providers,    \* storage providers, the first one the default
          MaxSetups,    \* bound: runs of rein init
          MaxStrokes    \* bound: keys pressed in a wizard

None == "none"

ASSUME SetupAssumption ==
    /\ Profiles \cap Accounts = {} /\ None \notin Profiles \cup Accounts
    /\ Providers # {}
    /\ MaxSetups \in Nat /\ MaxStrokes \in Nat

VARIABLES home,     \* config.toml, state.json and account.json
          vault,    \* profiles whose credentials are in the system keyring
          remote,   \* profiles that have a manifest
          wizard,   \* the wizard's answers
          setup,    \* the rein init that runs
          cut,      \* what an init could not write since records were last new
          worked,   \* the profile this home last worked for, as itself
          setups    \* runs so far

setupVars == <<home, vault, remote, wizard, setup, cut, worked, setups>>

NoFile == [none |-> TRUE]

Fresh == [owners |-> {}, sessions |-> FALSE]

(* A value of a field is empty, no good, a provider's template with its     *)
(* placeholder, or one that passes.                                         *)
Templates == {<<"template", p>> : p \in Providers}

Texts == {<<"empty">>, <<"bad">>, <<"good">>}

(* Region and prefix are left out: they pass whatever they hold.            *)
Steps == <<"provider", "endpoint", "bucket", "profile", "id", "review">>

Fields == {"endpoint", "bucket", "id"}

DefaultProvider == CHOOSE p \in Providers : TRUE

NoWizard == [step |-> 0]

Idle == [pc |-> "idle"]

SetupInit ==
    /\ home = [config |-> NoFile, state |-> NoFile, account |-> None]
    /\ vault = {} /\ remote \in {{}} \cup {{p} : p \in Profiles}
    /\ wizard = NoWizard /\ setup = Idle
    /\ cut = "nothing" /\ worked = None /\ setups = 0

Existing == {f \in {"config", "state"} : home[f] # NoFile} \cup ({home.account} \ {None})

Ends == setup' = Idle /\ wizard' = NoWizard

------------------------------------------------------------------------------
(* Starting.                                                                *)

(* The command line: hosted or not, a profile to join, coordinates or not;  *)
(* an initialised home is refused without --force.                          *)
Begin(pc, profile, hosted) ==
    /\ setup.pc = "idle" /\ setups < MaxSetups
    /\ setups' = setups + 1
    /\ setup' = [pc |-> pc, profile |-> profile, join |-> profile # None, hosted |-> hosted,
                 existing |-> Existing, keep |-> FALSE, state |-> Fresh]

(* wizardApplies: a terminal, and coordinates missing or a pairing code,    *)
(* whose coordinates are the defaults of the fields (pairingDefaults).      *)
BeginWizard(profile, paste) ==
    /\ Begin("wizard", IF paste THEN None ELSE profile, FALSE)
    /\ wizard' = [step |-> 1, provider |-> DefaultProvider, join |-> paste, strokes |-> 0,
                  value |-> [f \in Fields |-> IF paste THEN <<"good">> ELSE <<"empty">>]]
    /\ UNCHANGED <<home, vault, remote, cut, worked>>

BeginFlags(profile) ==
    /\ Begin("probe", profile, FALSE)
    /\ UNCHANGED <<home, vault, remote, wizard, cut, worked>>

BeginHosted(account) ==
    /\ Begin("provision", account, TRUE)
    /\ UNCHANGED <<home, vault, remote, wizard, cut, worked>>

------------------------------------------------------------------------------
(* The wizard.                                                              *)

Stroke ==
    /\ setup.pc = "wizard" /\ wizard.strokes < MaxStrokes
    /\ UNCHANGED <<home, vault, remote, cut, worked, setups>>

Step == Steps[wizard.step]

(* The fields that do not apply: no id is asked of a new profile.           *)
Skip(i) == Steps[i] = "id" /\ ~ wizard.join

(* A mistake: an answer is only checked when it was typed.                  *)
ValidWhenTyped(step) == step \in Fields => wizard.value[step] # <<"bad">>

(* validate: the step on the screen.                                        *)
Valid(step) == step \in Fields => wizard.value[step] = <<"good">>

Goes(w) == wizard' = [w EXCEPT !.strokes = @ + 1] /\ UNCHANGED setup

(* selectProvider: an endpoint that is another provider's template goes.    *)
SelectProvider(p) ==
    /\ Stroke /\ Step = "provider" /\ p # wizard.provider
    /\ Goes([wizard EXCEPT !.provider = p, !.value["endpoint"] =
                IF @ = <<"template", wizard.provider>> THEN <<"empty">> ELSE @])

ToggleJoin ==
    /\ Stroke /\ Step = "profile"
    /\ Goes([wizard EXCEPT !.join = ~ @])

(* forwardToInput: the field is edited, by as many keys as it takes.        *)
Edit(text) ==
    /\ Stroke /\ Step \in Fields /\ text # wizard.value[Step]
    /\ text \in Templates => Step = "endpoint"
    /\ Goes([wizard EXCEPT !.value[Step] = text])

(* back: to the last step that applies.                                     *)
Before == CHOOSE i \in {i \in 1..(wizard.step - 1) : ~ Skip(i)} :
             \A j \in (i + 1)..(wizard.step - 1) : Skip(j)

After == CHOOSE i \in {i \in (wizard.step + 1)..Len(Steps) : ~ Skip(i)} :
            \A j \in (wizard.step + 1)..(i - 1) : Skip(j)

Back ==
    /\ Stroke /\ wizard.step > 1
    /\ Goes([wizard EXCEPT !.step = Before])

(* advance: a step that is not valid stays; after the review the answers    *)
(* are what the command goes on with.                                       *)
Advance ==
    /\ Stroke
    /\ IF ~ Valid(Step) THEN Goes(wizard)
       ELSE IF Step # "review" THEN Goes([wizard EXCEPT !.step = After])
       ELSE /\ wizard' = wizard
            /\ \E id \in Profiles :
                  setup' = [setup EXCEPT !.pc = "probe",
                               !.profile = IF wizard.join THEN id ELSE @,
                               !.join = @ \/ wizard.join]

CancelWizard == Stroke /\ Ends

------------------------------------------------------------------------------
(* The store.                                                               *)

GoOn(pc) == setup' = [setup EXCEPT !.pc = pc] /\ UNCHANGED <<remote, wizard, worked, setups>>

(* Ids this home has: one that is drawn is none of them.                    *)
Known == (IF home.config = NoFile THEN {} ELSE {home.config.profile})
         \cup (IF home.state = NoFile THEN {} ELSE home.state.owners)

(* The store answers, has the manifest of the profile that is joined, and   *)
(* takes and gives up a probe object; a profile that is new draws its id.   *)
ProbeStore ==
    /\ setup.pc = "probe"
    /\ setup.join => setup.profile \in remote
    /\ \E id \in Profiles :
          /\ IF setup.join THEN id = setup.profile
             ELSE id \notin remote \cup vault \cup Known
          /\ setup' = [setup EXCEPT !.pc = "backup", !.profile = id]
    /\ UNCHANGED <<home, vault, remote, wizard, cut, worked, setups>>

(* A mistake: the records are carried over whatever they are records of.    *)
CarriedAnyState(account) ==
    IF home.state # NoFile /\ home.state.sessions THEN home.state ELSE Fresh

(* A mistake: a home that is set up again always starts anew.            *)
CarriedNothing(account) == Fresh

(* carriedSyncState: a home that is set up again for the account it already *)
(* syncs with keeps its records.                                            *)
CarriedState(account) ==
    IF /\ home.config # NoFile /\ home.config.profile = account
       /\ home.state # NoFile /\ home.state.sessions
    THEN home.state ELSE Fresh

(* ProvisionLocker, then the records to keep.                               *)
Provision ==
    /\ setup.pc = "provision"
    /\ setup' = [setup EXCEPT !.pc = "backup", !.state = CarriedState(setup.profile)]
    /\ UNCHANGED <<home, vault, remote, wizard, cut, worked, setups>>

------------------------------------------------------------------------------
(* The files.                                                               *)

(* A mistake: the record of the enrolment stays.                            *)
BackupCopiesOnly ==
    /\ setup.pc = "backup"
    /\ GoOn(IF setup.hosted THEN "config" ELSE "credentials")
    /\ UNCHANGED <<home, vault, cut>>

(* backupExistingInitFiles: everything is copied, and the record of the     *)
(* enrolment, which nothing rewrites, is removed.                           *)
Backup ==
    /\ setup.pc = "backup"
    /\ home' = IF setup.existing # {} THEN [home EXCEPT !.account = None] ELSE home
    /\ GoOn(IF setup.hosted THEN "config" ELSE "credentials")
    /\ UNCHANGED <<vault, cut>>

(* Credentials typed at the prompt go to the keyring; those of the          *)
(* environment are not kept.                                                *)
StoreCredentials ==
    /\ setup.pc = "credentials"
    /\ \E typed \in BOOLEAN :
          /\ vault' = IF typed THEN vault \cup {setup.profile} ELSE vault
          /\ setup' = [setup EXCEPT !.pc = "config", !.keep = typed]
    /\ UNCHANGED <<home, remote, wizard, cut, worked, setups>>

Config == [profile |-> setup.profile, hosted |-> setup.hosted, keyring |-> setup.keep,
           joined |-> setup.join /\ ~ setup.hosted]

SaveConfig ==
    /\ setup.pc = "config"
    /\ home' = [home EXCEPT !.config = Config]
    /\ setup' = [setup EXCEPT !.pc = "state"]
    /\ worked' = IF worked = setup.profile /\ setup.hosted THEN worked ELSE None
    /\ UNCHANGED <<vault, remote, wizard, cut, setups>>

(* A config that cannot be saved takes its credentials with it.             *)
ConfigFails ==
    /\ setup.pc = "config" /\ ~ setup.hosted
    /\ vault' = IF setup.keep THEN vault \ {setup.profile} ELSE vault
    /\ cut' = "config"
    /\ Ends /\ UNCHANGED <<home, remote, worked, setups>>

SaveState ==
    /\ setup.pc = "state"
    /\ home' = [home EXCEPT !.state = setup.state]
    /\ cut' = IF setup.state = Fresh THEN "nothing" ELSE cut
    /\ Ends /\ UNCHANGED <<vault, remote, worked, setups>>

(* A step fails, or the process dies: what is written stays written.        *)
Stops ==
    /\ setup.pc # "idle"
    /\ cut' = IF setup.pc = "state" THEN "state" ELSE cut
    /\ Ends /\ UNCHANGED <<home, vault, remote, worked, setups>>

------------------------------------------------------------------------------
(* What the home is used for in between.                                    *)

(* rein push: the store has a manifest, the home has records of it.  A      *)
(* store must have one when the profile was joined or there are records     *)
(* (engineFromConfig).                                                      *)
Work ==
    /\ setup.pc = "idle" /\ home.config # NoFile /\ home.state # NoFile
    /\ home.config.joined \/ home.state.sessions => home.config.profile \in remote
    /\ home.config.keyring => home.config.profile \in vault
    /\ home.config.hosted => home.account = home.config.profile
    /\ home' = [home EXCEPT !.state =
                   [owners |-> @.owners \cup {home.config.profile}, sessions |-> TRUE]]
    /\ remote' = remote \cup {home.config.profile}
    /\ worked' = home.config.profile
    /\ UNCHANGED <<vault, wizard, setup, cut, setups>>

(* rein account init, join or recover: a device enrols once.                *)
Enrol ==
    /\ setup.pc = "idle" /\ home.config # NoFile
    /\ home.config.hosted /\ home.account = None
    /\ home' = [home EXCEPT !.account = home.config.profile]
    /\ UNCHANGED <<vault, remote, wizard, setup, cut, worked, setups>>

SetupNext ==
    \/ \E profile \in Profiles \cup {None} :
          \/ BeginFlags(profile)
          \/ \E paste \in BOOLEAN : BeginWizard(profile, paste)
    \/ \E account \in Accounts : BeginHosted(account)
    \/ \E p \in Providers : SelectProvider(p)
    \/ \E text \in Texts \cup Templates : Edit(text)
    \/ ToggleJoin \/ Back \/ Advance \/ CancelWizard
    \/ ProbeStore \/ Provision \/ Backup \/ StoreCredentials
    \/ SaveConfig \/ ConfigFails \/ SaveState \/ Stops
    \/ Work \/ Enrol

------------------------------------------------------------------------------
(* Properties.                                                              *)

SetupTypeOK ==
    /\ vault \subseteq Profiles /\ remote \subseteq Profiles \cup Accounts
    /\ cut \in {"nothing", "config", "state"}
    /\ worked \in Profiles \cup Accounts \cup {None} /\ setups \in 0..MaxSetups

(* No answer is on the review, or goes on from it, that the wizard would    *)
(* refuse, whatever was gone back to, edited, or made necessary by another  *)
(* answer in between (advance, back, skip, validate).                       *)
ReviewIsValid ==
    wizard # NoWizard /\ Step = "review" =>
        \A f \in Fields : (f = "id" /\ ~ wizard.join) \/ wizard.value[f] = <<"good">>

(* The files of a home are about one profile: an enrolment is never beside  *)
(* the config of another account, even after a run that died anywhere       *)
(* (backupExistingInitFiles); and unless a run could not write them, the    *)
(* records are those of the config's profile and its credentials are where  *)
(* the config says.                                                         *)
HomeIsOfOneProfile ==
    /\ home.account # None => home.account = home.config.profile
    /\ cut = "nothing" /\ setup.pc # "state" /\ home.config # NoFile =>
          /\ home.state.owners \subseteq {home.config.profile}
          /\ home.config.keyring => home.config.profile \in vault

(* A home that is set up again for the account it has worked for still has  *)
(* its records, so that its next push finds the base of every session       *)
(* (carriedSyncState).                                                      *)
RecordsKept ==
    home.config # NoFile /\ home.config.hosted /\ worked = home.config.profile =>
        home.state # NoFile /\ home.state.sessions

(* The same without the exception for runs that could not write: the        *)
(* comment on the probe of the store has it that no config is left that     *)
(* cannot reach its storage.                                                *)
ConfigReachesStorage ==
    home.config # NoFile /\ home.config.keyring => home.config.profile \in vault

(* And the comment on carriedSyncState, that records are kept when the home *)
(* is pointed at the profile it already had, and start empty otherwise.     *)
RecordsAreOfTheProfile ==
    [][SaveState => home'.state.owners \subseteq {home.config.profile}]_setupVars
=============================================================================
