---------------------------- MODULE Verification ----------------------------
(***************************************************************************)
(* rein sync verify, and the same checks after a device's first push       *)
(* (internal/verify, internal/cli/verify.go).  One device lists its        *)
(* locker, fetches the index and a snapshot, opens them and offers its     *)
(* credential to the reference locker of the control plane, a request at   *)
(* a time, while another device pushes, the credential is renewed or       *)
(* withdrawn and the account's key rolls over.                             *)
(***************************************************************************)
EXTENDS Naturals, FiniteSets, Sequences

CONSTANTS MaxPushes,   \* bound: pushes of the other device
          MaxRenewals, \* bound: renewals, withdrawals and rollovers
          MaxChecks    \* bound: checks in a row

VARIABLES world,   \* what the checks are to find out
          locker,  \* snapshots by their age, the index, the objects there
          access,  \* the credential and the key of the account
          check,   \* the check under way
          console, \* what the control plane and state.json remember of it
          bounds   \* pushes, changes and checks so far

verificationVars == <<world, locker, access, check, console, bounds>>

(* Pass, NotApplicable and Fail, in the order in which a step may move.     *)
Verdicts == {"pass", "na", "fail"}

Steps == {"list", "ciphertext", "decrypt", "isolation"}

(* What a row of the control plane can say of its reference locker: a fit   *)
(* one, none or no answer, this account's own bucket, another endpoint or   *)
(* one without encryption.                                                  *)
Rows == {"fit", "none", "own", "elsewhere", "http"}

NoCheck == [at |-> "idle", hook |-> FALSE, key |-> 0, listed |-> {},
            credential |-> 0, named |-> {}, got |-> <<>>,
            verdict |-> [s \in Steps |-> "na"], row |-> "none", seen |-> <<>>,
            plaintext |-> FALSE, foreign |-> FALSE, wrongKey |-> FALSE,
            unreached |-> FALSE, trouble |-> {}, outcome |-> "none"]

VerificationInit ==
    /\ \E index, snapshots \in {"sealed", "plain", "large"}, open, hosted \in BOOLEAN :
          /\ index # "large" /\ (snapshots = "large" => index = "sealed") /\ (open => hosted)
          /\ world = [index |-> index, snapshots |-> snapshots, open |-> open, hosted |-> hosted]
    /\ \E n \in 0..1 : locker = [named |-> 1..n, objects |-> 1..n, next |-> n + 1,
                                  keys |-> [m \in 1..MaxPushes + 2 |-> 1], key |-> 1]
    /\ access = [credential |-> 1, withdrawn |-> FALSE, key |-> 1]
    /\ check = NoCheck
    /\ console = [posted |-> {}, recorded |-> FALSE]
    /\ bounds = [pushes |-> 0, changes |-> 0, checks |-> 0]

------------------------------------------------------------------------------
(* Requests to the store.                                                   *)

(* An answer, none, or an error of the store itself, which S3 writes in     *)
(* the form of an answer.  A withdrawn credential is refused.               *)
Replies == IF access.withdrawn THEN {"refused", "none"} ELSE {"ok", "none", "internal"}

(* A mistake: whatever comes back as an error is the store's word.          *)
AnsweredAlways(reply) == TRUE

(* Refusals and every structured error are an answer; answered.             *)
Answered(reply) == reply # "none"

(* A mistake: the last verdict is the step's.                               *)
DegradeToLast(verdict, to) == to

(* A step's verdict never improves.                                         *)
Degrade(verdict, to) ==
    IF to = "fail" \/ (to = "na" /\ verdict = "pass") THEN to ELSE verdict

(* What became of the trip is noted for the properties.                     *)
Noted(reply) == IF reply = "ok" THEN check.trouble ELSE check.trouble \cup {reply}

At(pc) == check.at = pc

Still == UNCHANGED <<world, locker, access, console, bounds>>

------------------------------------------------------------------------------
(* The four steps.                                                          *)

(* The profile is opened: its key is the account's of now.  A hook runs     *)
(* after a push that uploaded, to a hosted store and until one report was   *)
(* posted and recorded.                                                     *)
Begin(hook) ==
    /\ At("idle") /\ bounds.checks < MaxChecks
    /\ hook => world.hosted /\ ~ console.recorded /\ locker.named # {}
    /\ check' = [NoCheck EXCEPT !.at = "list", !.hook = hook, !.key = access.key]
    /\ bounds' = [bounds EXCEPT !.checks = @ + 1]
    /\ UNCHANGED <<world, locker, access, console>>

(* The profile cannot be opened: every step is reported as not run.         *)
NotStarted(hook) ==
    /\ At("idle") /\ bounds.checks < MaxChecks /\ ~ hook
    /\ check' = [NoCheck EXCEPT !.at = "done", !.unreached = TRUE, !.outcome = "na",
                                !.trouble = {"none"}]
    /\ bounds' = [bounds EXCEPT !.checks = @ + 1]
    /\ UNCHANGED <<world, locker, access, console>>

(* The listing, then the credential it was signed with.                     *)
List ==
    /\ At("list")
    /\ \E reply \in Replies :
          LET verdict == IF reply # "ok" THEN IF Answered(reply) THEN "fail" ELSE "na"
                         ELSE IF locker.named = {} THEN "na" ELSE "pass"
              fetches == reply = "ok" /\ locker.named # {}
          IN check' = [check EXCEPT
                !.at = IF fetches THEN "index" ELSE "isolation",
                !.listed = IF reply = "ok" THEN locker.objects ELSE {},
                !.credential = access.credential,
                !.verdict.list = verdict,
                !.verdict.ciphertext = IF fetches THEN "pass" ELSE "na",
                !.unreached = ~ Answered(reply), !.trouble = Noted(reply)]
    /\ Still

Object(name, body, key) == [name |-> name, body |-> body, key |-> key]

(* read: what came, or why nothing did.                                     *)
Fetched(object, reply, next) ==
    LET refused == reply # "ok" \/ object.body = "large"
        to == IF reply # "ok" /\ ~ Answered(reply) THEN "na"
              ELSE IF refused \/ object.body = "plain" THEN "fail" ELSE "pass"
    IN check' = [check EXCEPT
          !.at = next,
          !.got = IF refused THEN @ ELSE Append(@, object),
          !.verdict.ciphertext = Degrade(@, to),
          !.plaintext = @ \/ (~ refused /\ object.body = "plain"),
          !.unreached = @ \/ to = "na",
          !.named = IF object.name = "index" /\ ~ refused THEN locker.named ELSE @,
          !.trouble = IF reply = "ok" /\ object.body = "large" THEN @ \cup {"large"}
                      ELSE Noted(reply)]

(* The index as it is now, sealed to the key of its last push.              *)
FetchIndex ==
    /\ At("index")
    /\ \E reply \in Replies :
          Fetched(Object("index", world.index, locker.key), reply,
                  IF check.listed = {} THEN "decrypt" ELSE "snapshot")
    /\ Still

(* The keys of the account up to the one this device opened its profile     *)
(* with.                                                                    *)
Opens(object) == object.body = "sealed" /\ object.key <= check.key

(* newestSnapshot: the newest entry of the index among those listed, where  *)
(* the index can be opened; else whatever id sorts last, for ids are drawn. *)
Chosen ==
    LET readable == \E i \in DOMAIN check.got : Opens(check.got[i])
        known == check.named \cap check.listed
    IN IF readable /\ known # {} THEN {n \in known : \A m \in known : m <= n}
       ELSE check.listed

FetchSnapshot ==
    /\ At("snapshot")
    /\ \E reply \in Replies, n \in Chosen :
          Fetched(Object("snapshot", world.snapshots, locker.keys[n]), reply, "decrypt")
    /\ Still

Decrypt ==
    /\ At("decrypt")
    /\ LET got == {check.got[i] : i \in DOMAIN check.got}
       IN check' = [check EXCEPT
             !.at = "isolation",
             !.verdict.decrypt = IF got = {} THEN "na"
                                 ELSE IF \A o \in got : Opens(o) THEN "pass" ELSE "fail",
             !.wrongKey = got # {} /\ \A o \in got : ~ Opens(o)]
    /\ Still

(* Before anything is offered to another bucket: the row must be fit and    *)
(* step 1 must have passed.  Without a credential to lend there is no probe. *)
Isolation ==
    /\ At("isolation")
    /\ \E row \in Rows :
          LET verdict == IF check.verdict.list # "pass" \/ row \in {"none", "own"} THEN "na"
                         ELSE IF row \in {"elsewhere", "http"} THEN "fail"
                         ELSE IF check.credential # access.credential THEN "na" ELSE "pass"
              probes == row = "fit" /\ check.verdict.list = "pass"
          IN /\ ~ world.hosted => row = "none"
             /\ \/ check' = [check EXCEPT !.at = IF probes THEN "probe" ELSE "outcome",
                                          !.row = row, !.verdict.isolation = verdict]
                \/ probes /\ check' = [check EXCEPT !.at = "outcome"]
    /\ Still

(* What the reference locker answers to the credential the probe was opened *)
(* with, and what the probe's transport saw: an answer, a refusal with or   *)
(* without the words of S3, a redirect, a rejected credential or nothing.   *)
Answers ==
    {"redirect", "bare", "nothing"} \cup
    (IF access.withdrawn THEN {"rejected"} ELSE IF world.open THEN {"granted"} ELSE {"denied"})

Judged(verdict, answer) ==
    CASE answer = "denied"  -> verdict
      [] answer = "granted" -> Degrade(verdict, "fail")
      [] OTHER              -> Degrade(verdict, "na")

(* A mistake: one exchange that went astray takes the alarm with it.        *)
PlacedAll(seen) == \A i \in DOMAIN seen : seen[i] \notin {"redirect", "nothing"}

(* An exchange that was answered at the pinned endpoint, whatever the other *)
(* came to.                                                                 *)
Placed(seen) == \E i \in DOMAIN seen : seen[i] # "redirect"

(* pinToResponse                                                            *)
Pin(seen) ==
    IF \E i \in DOMAIN seen : seen[i] = "redirect" THEN "fail"
    ELSE IF (\E i \in DOMAIN seen : seen[i] = "bare")
            \/ \A i \in DOMAIN seen : seen[i] \notin {"denied", "rejected"} THEN "na"
    ELSE "pass"

(* The listing of the reference locker and the reading of its probe; the    *)
(* verdict is drawn when both are in.                                       *)
Probe ==
    /\ At("probe")
    /\ \E answer \in Answers :
          LET seen == Append(check.seen, answer)
          IN IF Len(seen) = 1 THEN check' = [check EXCEPT !.seen = seen]
             ELSE check' = [check EXCEPT
                     !.at = "outcome", !.seen = seen,
                     !.foreign = Placed(seen) /\ "granted" \in {seen[1], seen[2]},
                     !.verdict.isolation = Degrade(Judged(Judged(@, seen[1]), seen[2]), Pin(seen))]
    /\ Still

(* outcomeOf, and a run that opened nothing has not passed.                 *)
Outcome ==
    LET verdicts == {check.verdict[s] : s \in Steps}
    IN IF "fail" \in verdicts THEN "fail"
       ELSE IF "pass" \in verdicts /\ check.got # <<>> THEN "pass" ELSE "na"

(* The report is all that is left of the run.                               *)
Conclude ==
    /\ At("outcome")
    /\ check' = [check EXCEPT !.at = "report", !.outcome = Outcome, !.key = 0,
                              !.listed = {}, !.named = {}, !.credential = 0]
    /\ Still

(* buildSummary: the one sentence a reader acts on.                         *)
Summary ==
    CASE check.outcome = "na" /\ check.unreached                     -> "unverified"
      [] check.outcome = "na" /\ ~ check.unreached                   -> "empty"
      [] check.outcome = "fail" /\ (check.plaintext \/ check.foreign) -> "alarm"
      [] check.outcome = "fail" /\ ~ (check.plaintext \/ check.foreign) /\ check.wrongKey
                                                                     -> "otherkey"
      [] OTHER                                                       -> check.outcome

ExitCode == IF check.outcome = "fail" THEN 7 ELSE IF Summary = "unverified" THEN 1 ELSE 0

(* A mistake: the report is noted as posted before it is.                   *)
PostFirst(arrives) ==
    /\ At("report")
    /\ check' = [check EXCEPT !.at = "done"]
    /\ console' = IF world.hosted /\ check.outcome # "na"
                  THEN [posted |-> console.posted \cup (IF arrives THEN {check.outcome} ELSE {}),
                        recorded |-> console.recorded \/ check.hook]
                  ELSE console
    /\ UNCHANGED <<world, locker, access, bounds>>

(* A verdict is posted, where there is a control plane; the hook records it *)
(* when that was answered, if state.json can be written.                    *)
Post(arrives) ==
    /\ At("report")
    /\ check' = [check EXCEPT !.at = "done"]
    /\ \E answered, saved \in BOOLEAN :
          /\ answered => arrives
          /\ console' = IF world.hosted /\ check.outcome # "na"
                        THEN [posted |-> console.posted \cup (IF arrives THEN {check.outcome} ELSE {}),
                              recorded |-> console.recorded \/ (check.hook /\ answered /\ saved)]
                        ELSE console
    /\ UNCHANGED <<world, locker, access, bounds>>

(* The process ends; killed before, it leaves nothing either.               *)
Ends ==
    /\ At("done")
    /\ check' = NoCheck
    /\ UNCHANGED <<world, locker, access, console, bounds>>

------------------------------------------------------------------------------
(* Meanwhile.                                                               *)

(* Another device puts a snapshot and then names it in the index, for a new *)
(* session or in place of an earlier snapshot.                              *)
OtherPuts ==
    /\ bounds.pushes < MaxPushes /\ locker.next \notin locker.objects
    /\ locker' = [locker EXCEPT !.objects = @ \cup {locker.next},
                                  !.keys[locker.next] = access.key]
    /\ bounds' = [bounds EXCEPT !.pushes = @ + 1]
    /\ UNCHANGED <<world, access, check, console>>

OtherNames ==
    /\ locker.next \in locker.objects
    /\ \E replaced \in SUBSET locker.named :
          /\ Cardinality(replaced) <= 1
          /\ locker' = [locker EXCEPT !.named = (@ \ replaced) \cup {locker.next},
                                      !.next = @ + 1, !.key = access.key]
    /\ UNCHANGED <<world, access, check, console, bounds>>

(* The credential lasts an hour, a withdrawn one is refused, and a rollover *)
(* seals what is written from now on to a new key.                          *)
AccessChanges ==
    /\ bounds.changes < MaxRenewals
    /\ bounds' = [bounds EXCEPT !.changes = @ + 1]
    /\ \/ access' = [access EXCEPT !.credential = @ + 1] /\ UNCHANGED check
       \/ ~ access.withdrawn /\ access' = [access EXCEPT !.withdrawn = TRUE] /\ UNCHANGED check
       \/ /\ access' = [access EXCEPT !.key = @ + 1]
          /\ check' = IF At("idle") THEN check ELSE [check EXCEPT !.trouble = @ \cup {"rolled"}]
    /\ UNCHANGED <<world, locker, console>>

VerificationNext ==
    \/ \E hook \in BOOLEAN : Begin(hook) \/ NotStarted(hook)
    \/ List \/ FetchIndex \/ FetchSnapshot \/ Decrypt \/ Isolation \/ Probe \/ Conclude
    \/ \E arrives \in BOOLEAN : Post(arrives)
    \/ Ends \/ OtherPuts \/ OtherNames \/ AccessChanges

------------------------------------------------------------------------------
(* Properties.                                                              *)

Reported == check.at \in {"report", "done"}

(* The profile is what the report is to show: sealed, and its credential    *)
(* reaches nothing else.                                                    *)
Sound == world.index = "sealed" /\ world.snapshots # "plain" /\ ~ world.open
         /\ check.row \in {"fit", "none", "own"}

(* Alarms are true: plaintext is only reported of an object that is not     *)
(* sealed, and a foreign bucket only where the credential reaches one.      *)
AlarmsAreTrue ==
    Reported => /\ check.plaintext => "plain" \in {world.index, world.snapshots}
                /\ check.foreign => world.open /\ check.row = "fit"

(* And they are not lost: a reference locker that answered the credential   *)
(* is an alarm, whatever else went astray.                                  *)
AlarmsAreRaised ==
    Reported => /\ "granted" \in {check.seen[i] : i \in DOMAIN check.seen} => check.foreign
                /\ check.foreign \/ check.plaintext => check.outcome = "fail"

(* A locker that is as it should be never fails for want of an answer.      *)
OutageIsNoFinding ==
    Reported /\ Sound /\ check.outcome = "fail" =>
        \/ check.trouble \cap {"internal", "refused", "large", "rolled"} # {}
        \/ "redirect" \in {check.seen[i] : i \in DOMAIN check.seen}

(* A pass has opened the index or a snapshot that was sealed, and one that  *)
(* vouches for the credential's scope saw it refused by the other bucket.   *)
PassIsEarned ==
    Reported /\ check.outcome = "pass" =>
        /\ \A i \in DOMAIN check.got : check.got[i].body = "sealed"
        /\ check.verdict.isolation = "pass" =>
              check.seen = <<"denied", "denied">> /\ ~ world.open /\ check.row = "fit"

(* Nobody is told that nothing was pushed where the store did not say so,   *)
(* or that the key is another's where nothing was tried with it; and an exit *)
(* of 0 is a pass or an empty locker.                                       *)
SummaryIsTrue ==
    Reported =>
        /\ Summary = "empty" => check.verdict.list = "na" /\ "none" \notin check.trouble
        /\ Summary = "otherkey" => check.got # <<>> /\ check.verdict.decrypt = "fail"
        /\ ExitCode = 0 => Summary \in {"pass", "empty"}

(* What is recorded as verified was posted.                                 *)
RecordedWasPosted == console.recorded => console.posted # {}

ReportIsHonest ==
    /\ AlarmsAreTrue /\ AlarmsAreRaised /\ OutageIsNoFinding /\ PassIsEarned
    /\ SummaryIsTrue /\ RecordedWasPosted
=============================================================================
