------------------------------ MODULE Keyring ------------------------------
(***************************************************************************)
(* The commands that read and change the keyring of an account             *)
(* (internal/cli/account.go, pairing.go, keyring_floor.go): account init,  *)
(* join and recover, devices approve and revoke, and the key lookup of     *)
(* push and pull, run by several devices over one object in storage and    *)
(* one control plane.  A command takes one step per call it makes to the   *)
(* storage, the control plane or its own record; it may stop after each.   *)
(***************************************************************************)
EXTENDS KeyringObject

CONSTANTS Devices,     \* device ids
          Procs,       \* <<d, i>>: what can run a command on device d
          Founders,    \* sets of devices that may be enrolled at the start
          Kinds,       \* the commands that are run
          CarriesFloor,\* does the control plane serve the generation floor?
          WriteLimit,  \* maxWriteBytes, in generations and wraps
          ReadLimit,   \* maxObjectBytes, likewise
          MaxUpdateRetries,
          MaxCommands, \* bound: commands started
          MaxRestores  \* bound: earlier copies put back into storage

AllKinds == {"init", "join", "recover", "approve", "revoke", "use"}

ASSUME KeyringAssumption ==
    /\ Founders \subseteq SUBSET Devices
    /\ Kinds \subseteq AllKinds
    /\ \A p \in Procs : p[1] \in Devices
    /\ MaxUpdateRetries \in Nat \ {0}
    /\ MaxCommands \in Nat /\ MaxRestores \in Nat
    /\ WriteLimit \in Nat /\ ReadLimit \in Nat /\ WriteLimit <= ReadLimit
    /\ CarriesFloor \in BOOLEAN

(* The keyring of an account that was founded before.                      *)
FoundersRing(S) == IF S = {} THEN <<>> ELSE <<Generation(1, {Wrap(d, 1, 1, 1) : d \in S}, {})>>

(* It was written by a command, and so can be read.                        *)
ASSUME FoundersAssumption == \A S \in Founders : Size(FoundersRing(S)) \in 0..ReadLimit

On(p) == p[1]

VARIABLES ring,     \* the keyring in storage, <<>> when there is none
          key,      \* key[d]: the device key in d's OS keyring
          account,  \* account[d]: account.json on d
          floor,    \* the control plane's key generation floor
          refused,  \* devices whose token the control plane refuses
          request,  \* request[d]: d's latest pairing request
          proc,     \* proc[p]: the command that p runs
          started,  \* commands started so far
          backup,   \* the keyring before its last rollover
          restores, \* times it was put back
          undone,   \* approvals whose wraps were taken back
          closed,   \* revocations reported as finished
          crossed   \* history: the commands during which another command of the
                    \*   same device changed its key or its record

machine == <<ring, key, account, floor, refused, request, proc, started,
             backup, restores, undone, closed>>

vars == <<machine, crossed>>

controlPlane == <<floor, refused, request>>
ghosts == <<backup, restores, undone, closed>>

NoAccount == [gen |-> 0, root |-> 0, confirmed |-> 0]
NoRequest == [id |-> 0, status |-> "none", key |-> NoKey, gen |-> 0, root |-> 0]

(* No command.  A command has a number, a target device, the floor and the *)
(* record it checks keyrings against (anchor), the keyring at hand, the    *)
(* generations it wrote a wrap to, the device key it works with (mine) and *)
(* the one that this replaces, the record it is about to save, the pairing *)
(* request it is about (with its public key) or the Console request it     *)
(* answers, the root key it was sent, and the generations its device must  *)
(* not fall below (since).                                                 *)
Idle == [cmd |-> "none", pc |-> "idle", n |-> 0, target |-> "-", floor |-> 0,
         anchor |-> NoAccount, ring |-> <<>>, tries |-> 0, appended |-> {},
         mine |-> NoKey, old |-> NoKey, record |-> NoAccount, req |-> 0, reqKey |-> NoKey,
         payload |-> NoAccount, since |-> {}]

MaxOf(a, b) == IF a >= b THEN a ELSE b

Goto(p, pc) == proc' = [proc EXCEPT ![p].pc = pc]
Exit(p) == proc' = [proc EXCEPT ![p] = Idle]

Init ==
    \E S \in Founders :
        /\ ring = FoundersRing(S)
        /\ key = [d \in Devices |-> IF d \in S THEN 1 ELSE NoKey]
        /\ account = [d \in Devices |->
                        IF d \in S THEN [gen |-> 1, root |-> 1, confirmed |-> 0] ELSE NoAccount]
        /\ floor = 0 /\ refused = {}
        /\ request = [d \in Devices |-> NoRequest]
        /\ proc = [p \in Procs |-> Idle]
        /\ started = 1
        /\ backup = <<>> /\ restores = 0 /\ undone = {} /\ closed = {}
        /\ crossed = {}

(***************************************************************************)
(* Trust: the anchor check and the unwrapping of a keyring.                *)
(***************************************************************************)
(* A mistake: the control plane's floor is left out.                       *)
CheckRecordOnly(k, anchor, fl) ==
    anchor.gen # 0 => Len(k) >= anchor.gen /\ k[anchor.gen].root = anchor.root

(* keyringAnchor.check: not below the floor, not below the generation in   *)
(* the record, and that generation still has the recorded root key.        *)
Check(k, anchor, fl) ==
    /\ Len(k) >= fl
    /\ anchor.gen # 0 => /\ Len(k) >= anchor.gen
                         /\ k[anchor.gen].root = anchor.root

(* trustKeyring with the wraps of the device of p.                         *)
Trust(p, k) ==
    /\ Check(k, proc[p].anchor, proc[p].floor)
    /\ CanUnwrap(k, On(p), proc[p].mine)

(* A mistake: no limit on what is written.                                 *)
AlwaysWritable(k) == TRUE

(* checkWriteSize *)
Writable(k) == Size(k) \in 0..WriteLimit

(***************************************************************************)
(* The start of a command: what it reads before its first remote call.     *)
(***************************************************************************)
Begin(p, cmd, pc, d, k, mine, req, reqKey) ==
    /\ proc[p] = Idle /\ cmd \in Kinds /\ started < MaxCommands
    /\ On(p) \notin refused
    /\ started' = started + 1
    /\ proc' = [proc EXCEPT ![p] =
           [Idle EXCEPT !.cmd = cmd, !.pc = pc, !.n = started + 1, !.target = d,
                        !.ring = k, !.mine = mine, !.req = req,
                        !.reqKey = reqKey,
                        !.since = {account[On(p)].gen} \cup {c.gen : c \in closed}]]

(* account init, where no record and no keyring exists.                    *)
StartInit(p) ==
    /\ account[On(p)] = NoAccount /\ ring = <<>>
    /\ Begin(p, "init", "secret", "-", <<>>, started + 1, 0, NoKey)
    /\ UNCHANGED <<ring, key, account, controlPlane, ghosts>>

(* account recover, where no record exists and a keyring does.             *)
StartRecover(p) ==
    /\ account[On(p)] = NoAccount /\ ring # <<>>
    /\ Begin(p, "recover", "confirm", "-", ring, NoKey, 0, NoKey)
    /\ UNCHANGED <<ring, key, account, controlPlane, ghosts>>

(* account join: the device keeps the key it has, and makes one otherwise. *)
StartJoin(p) ==
    LET d == On(p) IN
    /\ account[d] = NoAccount /\ ring # <<>>
    /\ ~(key[d] # NoKey /\ DevicePublicKey(ring, d) \notin {NoKey, key[d]})
    /\ \/ key[d] # NoKey /\ Begin(p, "join", "request", "-", <<>>, key[d], 0, NoKey)
       \/ key[d] = NoKey /\ Begin(p, "join", "store", "-", <<>>, started + 1, 0, NoKey)
    /\ UNCHANGED <<ring, key, account, controlPlane, ghosts>>

(* devices approve of a request that is pending, by a device that has a    *)
(* record and a key and was given the code of that request.                *)
StartApprove(p) ==
    \E d \in Devices :
        /\ request[d].status = "pending"
        /\ account[On(p)] # NoAccount /\ key[On(p)] # NoKey
        /\ Begin(p, "approve", "confirm", d, <<>>, key[On(p)], request[d].id, request[d].key)
        /\ UNCHANGED <<ring, key, account, controlPlane, ghosts>>

(* devices revoke of another device the control plane lists, with a        *)
(* Console request for it pending (asked = 1) or without.                  *)
StartRevoke(p) ==
    \E d \in Devices \ {On(p)}, asked \in {0, 1} :
        /\ account[On(p)] # NoAccount /\ key[On(p)] # NoKey
        /\ Begin(p, "revoke", "confirm", d, <<>>, key[On(p)], asked, NoKey)
        /\ UNCHANGED <<ring, key, account, controlPlane, ghosts>>

(* rootKeysFromConfig of a push or a pull: the keyring is loaded first.    *)
StartUse(p) ==
    /\ account[On(p)] # NoAccount /\ key[On(p)] # NoKey /\ ring # <<>>
    /\ Begin(p, "use", "confirm", "-", ring, key[On(p)], 0, NoKey)
    /\ UNCHANGED <<ring, key, account, controlPlane, ghosts>>

(***************************************************************************)
(* confirmKeyGenerationFloor and loadKeyringAnchor                         *)
(***************************************************************************)
AfterConfirm(p) == CASE proc[p].cmd = "recover" -> "decide"
                     [] proc[p].cmd = "join" -> "verify"
                     [] proc[p].cmd = "use" -> "trust"
                     [] OTHER -> "load"

(* KeyGenerationFloor, as the control plane answers d; one that serves no  *)
(* floor leaves the last one it confirmed.                                 *)
KeyGenerationFloor(d) == IF CarriesFloor THEN floor ELSE account[d].confirmed

(* The live answer is the floor.  A higher one is to be saved in the record*)
(* (rememberKeyGenerationFloor reads the record here, and saves it in      *)
(* Remember); a device without a record has nowhere to put it.             *)
Confirm(p) ==
    LET d == On(p)
        fl == KeyGenerationFloor(d)
        higher == account[d] # NoAccount /\ fl > account[d].confirmed
    IN  /\ proc[p].pc = "confirm" /\ d \notin refused
        /\ proc' = [proc EXCEPT
               ![p].floor = fl,
               ![p].anchor = account[d],
               ![p].record = IF higher THEN [account[d] EXCEPT !.confirmed = fl] ELSE NoAccount,
               ![p].pc = IF higher THEN "remember" ELSE AfterConfirm(p)]
        /\ UNCHANGED <<ring, key, account, controlPlane, started, ghosts>>

(* SaveAccount; the anchor is read from the record after that.             *)
Remember(p) ==
    /\ proc[p].pc = "remember"
    /\ account' = [account EXCEPT ![On(p)] = proc[p].record]
    /\ proc' = [proc EXCEPT ![p].anchor = proc[p].record, ![p].record = NoAccount,
                            ![p].pc = AfterConfirm(p)]
    /\ UNCHANGED <<ring, key, controlPlane, started, ghosts>>

(***************************************************************************)
(* keyring.Update: load, apply the closure, write back if unchanged.       *)
(***************************************************************************)
(* The closures of the commands: what they accept and what they make of    *)
(* keyring k.  An approval enrols the device into every generation that    *)
(* the approver reads, and nowhere if it is listed with the same key.      *)
ApproveAccepts(p, k) ==
    Trust(p, k) /\ DevicePublicKey(k, proc[p].target) \in {NoKey, proc[p].reqKey}

Approved(p, k) ==
    IF HasDevice(k, proc[p].target) THEN k
    ELSE EnrolAll(k, UnwrapGenerations(k, On(p), proc[p].mine),
                  proc[p].target, proc[p].reqKey, proc[p].n)

RecoverAccepts(p, k) == Check(k, NoAccount, proc[p].floor) /\ ~HasDevice(k, On(p))

Recovered(p, k) == EnrolAll(k, RecoveryGenerations(k), On(p), proc[p].mine, proc[p].n)

RevokeAccepts(p, k) == Trust(p, k) /\ HasDevice(k, proc[p].target)

Accepts(p, k) == CASE proc[p].cmd = "approve" -> ApproveAccepts(p, k)
                   [] proc[p].cmd = "recover" -> RecoverAccepts(p, k)
                   [] OTHER -> RevokeAccepts(p, k)

Mutated(p, k) == CASE proc[p].cmd = "approve" -> Approved(p, k)
                   [] proc[p].cmd = "recover" -> Recovered(p, k)
                   [] OTHER -> Rollover(k, proc[p].target, proc[p].n)

(* ErrAlreadyRevoked *)
AlreadyRevoked(p, k) == proc[p].cmd = "revoke" /\ Trust(p, k) /\ ~HasDevice(k, proc[p].target)

(* A mistake: a device without a wrap is taken for a finished revocation.  *)
AlreadyIsFinished(p) ==
    /\ proc[p].pc = "load" /\ AlreadyRevoked(p, ring)
    /\ closed' = closed \cup {[victim |-> proc[p].target, gen |-> Len(ring)]}
    /\ Exit(p)
    /\ UNCHANGED <<ring, key, account, controlPlane, started, backup, restores, undone>>

(* Load, and the closure, which is run on the copy just loaded.            *)
Load(p) ==
    /\ proc[p].pc = "load"
    /\ Accepts(p, ring) /\ Writable(Mutated(p, ring))
    /\ proc' = [proc EXCEPT ![p].ring = ring, ![p].pc = "put"]
    /\ UNCHANGED <<ring, key, account, controlPlane, started, ghosts>>

(* The victim has no wrap already: the keyring is loaded once more, and    *)
(* the control plane is still told.                                        *)
LoadAlready(p) ==
    /\ proc[p].pc = "load" /\ AlreadyRevoked(p, ring)
    /\ Goto(p, "reload")
    /\ UNCHANGED <<ring, key, account, controlPlane, started, ghosts>>

Reload(p) ==
    /\ proc[p].pc = "reload"
    /\ proc' = [proc EXCEPT ![p].ring = ring, ![p].pc = "observe"]
    /\ UNCHANGED <<ring, key, account, controlPlane, started, ghosts>>

(* A mistake: a Put without If-Match.                                      *)
NeverConflicts(p) == TRUE

(* The ETag is a hash of the content.                                      *)
Unchanged(p) == ring = proc[p].ring

Store(k) ==
    /\ ring' = k
    /\ backup' = IF Len(k) > Len(ring) /\ ring # <<>> THEN ring ELSE backup

(* Put with If-Match.  It succeeds,                                        *)
Put(p) ==
    LET k == proc[p].ring
        d == proc[p].target
        gens == UnwrapGenerations(k, On(p), proc[p].mine)
    IN  /\ proc[p].pc = "put" /\ Unchanged(p)
        /\ Store(Mutated(p, k))
        /\ proc' = [proc EXCEPT
               ![p].ring = Mutated(p, k),
               ![p].appended = IF proc[p].cmd = "approve" /\ ~HasDevice(k, d)
                               THEN Appended(k, gens, d, proc[p].reqKey) ELSE {},
               ![p].tries = 0,
               ![p].pc = IF proc[p].cmd = "recover" THEN "enrol" ELSE "observe"]
        /\ UNCHANGED <<key, account, controlPlane, started, restores, undone, closed>>

(* or finds that another device wrote, and tries again.                    *)
PutConflict(p) ==
    /\ proc[p].pc = "put" /\ ~Unchanged(p)
    /\ proc[p].tries + 1 < MaxUpdateRetries
    /\ proc' = [proc EXCEPT ![p].tries = @ + 1, ![p].ring = <<>>, ![p].pc = "load"]
    /\ UNCHANGED <<ring, key, account, controlPlane, started, ghosts>>

(* The Update of recover fails: the closure or the size limit refuses, the *)
(* last attempt is lost, or the call fails, with or without having         *)
(* written.  The device key that was there before is put back.             *)
RecoverFails(p) ==
    /\ proc[p].cmd = "recover"
    /\ \/ /\ proc[p].pc = "load" /\ ~(Accepts(p, ring) /\ Writable(Mutated(p, ring)))
          /\ UNCHANGED <<ring, backup>>
       \/ proc[p].pc = "put" /\ UNCHANGED <<ring, backup>>
       \/ proc[p].pc = "put" /\ Unchanged(p) /\ Store(Mutated(p, proc[p].ring))
    /\ key' = [key EXCEPT ![On(p)] = proc[p].old]
    /\ Exit(p)
    /\ UNCHANGED <<account, controlPlane, started, restores, undone, closed>>

(***************************************************************************)
(* observeKeyring: the record is read and checked, then saved.             *)
(***************************************************************************)
AfterObserve(p) == CASE proc[p].cmd = "approve" -> "relay"
                     [] proc[p].cmd = "revoke" -> "tell"
                     [] OTHER -> "done"

TrustUse(p) ==
    /\ proc[p].pc = "trust" /\ Trust(p, proc[p].ring)
    /\ Goto(p, "observe")
    /\ UNCHANGED <<ring, key, account, controlPlane, started, ghosts>>

Observe(p) ==
    LET k == proc[p].ring
        mine == account[On(p)]
        moved == mine.gen # Len(k) \/ mine.root # Current(k).root
    IN  /\ proc[p].pc = "observe" /\ Check(k, mine, proc[p].floor)
        /\ proc' = [proc EXCEPT
               ![p].record = IF moved THEN [mine EXCEPT !.gen = Len(k), !.root = Current(k).root]
                             ELSE NoAccount,
               ![p].pc = IF moved THEN "record" ELSE AfterObserve(p)]
        /\ UNCHANGED <<ring, key, account, controlPlane, started, ghosts>>

Record(p) ==
    /\ proc[p].pc = "record"
    /\ account' = [account EXCEPT ![On(p)] = proc[p].record]
    /\ proc' = [proc EXCEPT ![p].record = NoAccount, ![p].pc = AfterObserve(p)]
    /\ UNCHANGED <<ring, key, controlPlane, started, ghosts>>

(* The push or the pull seals and opens objects with the keys.             *)
Use(p) ==
    /\ proc[p].pc = "done"
    /\ Exit(p)
    /\ UNCHANGED <<ring, key, account, controlPlane, started, ghosts>>

(***************************************************************************)
(* The relay of an approval                                                *)
(***************************************************************************)
Pending(p) == /\ request[proc[p].target].id = proc[p].req
              /\ request[proc[p].target].status = "pending"

(* ApprovePairing: the control plane takes the sealed root key.            *)
ApprovePairing(d, k) ==
    request' = [request EXCEPT ![d] = [@ EXCEPT !.status = "approved", !.gen = Len(k),
                                                !.root = Current(k).root]]

Relay(p) ==
    /\ proc[p].pc = "relay" /\ Pending(p) /\ On(p) \notin refused
    /\ ApprovePairing(proc[p].target, proc[p].ring)
    /\ Exit(p)
    /\ UNCHANGED <<ring, key, account, floor, refused, started, ghosts>>

(* ErrPairingExpired or ErrPairingDecided.                                 *)
RelayRefused(p) ==
    /\ proc[p].pc = "relay" /\ ~Pending(p)
    /\ proc[p].appended # {}
    /\ proc' = [proc EXCEPT ![p].pc = "undo", ![p].ring = ring]
    /\ UNCHANGED <<ring, key, account, controlPlane, started, ghosts>>

(* rollBackPairingWrap: Update again, with a closure that never refuses.   *)
(* RelayRefused and UndoConflict load the keyring.                         *)
Undo(p) ==
    /\ proc[p].pc = "undo" /\ Unchanged(p)
    /\ LET k == UnenrolAppended(ring, proc[p].target, proc[p].appended, proc[p].n)
       IN  Writable(k) /\ Store(k)
    /\ undone' = undone \cup {proc[p].n}
    /\ Exit(p)
    /\ UNCHANGED <<key, account, controlPlane, started, restores, closed>>

UndoConflict(p) ==
    /\ proc[p].pc = "undo" /\ ~Unchanged(p)
    /\ proc[p].tries + 1 < MaxUpdateRetries
    /\ proc' = [proc EXCEPT ![p].tries = @ + 1, ![p].ring = ring]
    /\ UNCHANGED <<ring, key, account, controlPlane, started, ghosts>>

(***************************************************************************)
(* The end of a revocation                                                 *)
(***************************************************************************)
Close(p) == closed' = closed \cup {[victim |-> proc[p].target, gen |-> Len(proc[p].ring)]}

(* ConfirmDeviceRevocation: the token is refused and the floor raised.     *)
ConfirmDeviceRevocation(d, gen) ==
    /\ refused' = refused \cup {d}
    /\ floor' = IF CarriesFloor THEN MaxOf(floor, gen) ELSE floor

TellConsole(p) ==
    /\ proc[p].pc = "tell" /\ proc[p].req = 1 /\ On(p) \notin refused
    /\ ConfirmDeviceRevocation(proc[p].target, Len(proc[p].ring))
    /\ Close(p)
    /\ Exit(p)
    /\ UNCHANGED <<ring, key, account, request, started, backup, restores, undone>>

(* RevokeDevice: the token is refused.                                     *)
RevokeDevice(d) == refused' = refused \cup {d}

Tell(p) ==
    /\ proc[p].pc = "tell" /\ proc[p].req = 0 /\ On(p) \notin refused
    /\ RevokeDevice(proc[p].target)
    /\ Goto(p, "raise")
    /\ UNCHANGED <<ring, key, account, floor, request, started, ghosts>>

(* RaiseKeyGenerationFloor: the higher of the two numbers is kept.         *)
RaiseKeyGenerationFloor(gen) ==
    floor' = IF CarriesFloor THEN MaxOf(floor, gen) ELSE floor

(* The answer is to be saved in the record (Finish).                       *)
RaiseFloor(p) ==
    /\ proc[p].pc = "raise" /\ On(p) \notin refused
    /\ RaiseKeyGenerationFloor(Len(proc[p].ring))
    /\ proc' = [proc EXCEPT
           ![p].record = IF CarriesFloor /\ floor' > account[On(p)].confirmed
                         THEN [account[On(p)] EXCEPT !.confirmed = floor'] ELSE NoAccount,
           ![p].pc = "close"]
    /\ UNCHANGED <<ring, key, account, refused, request, started, ghosts>>

Finish(p) ==
    /\ proc[p].pc = "close"
    /\ account' = IF proc[p].record = NoAccount THEN account
                  ELSE [account EXCEPT ![On(p)] = proc[p].record]
    /\ Close(p)
    /\ Exit(p)
    /\ UNCHANGED <<ring, key, controlPlane, started, backup, restores, undone>>

(***************************************************************************)
(* Enrolment of this device: init, recover, join                           *)
(***************************************************************************)
(* init makes a device key, and refuses when there is one                  *)
(* (refuseExistingDeviceSecret).                                           *)
InitSecret(p) ==
    /\ proc[p].pc = "secret" /\ key[On(p)] = NoKey
    /\ Goto(p, "store")
    /\ UNCHANGED <<ring, key, account, controlPlane, started, ghosts>>

AfterSecret(p) == CASE proc[p].cmd = "init" -> "create"
                    [] proc[p].cmd = "join" -> "request"
                    [] OTHER -> "load"

(* SetSecret: a step after the look at what is there, over whatever is     *)
(* there by then.                                                          *)
SetSecret(p) ==
    /\ proc[p].pc \in {"store", "rekey"}
    /\ key' = [key EXCEPT ![On(p)] = proc[p].mine]
    /\ Goto(p, AfterSecret(p))
    /\ UNCHANGED <<ring, account, controlPlane, started, ghosts>>

(* init creates the keyring, only if there is none.                        *)
Create(p) ==
    LET k == New(On(p), proc[p].n) IN
    /\ proc[p].pc = "create" /\ ring = <<>> /\ Writable(k)
    /\ ring' = k
    /\ proc' = [proc EXCEPT ![p].ring = k, ![p].pc = "enrol"]
    /\ UNCHANGED <<key, account, controlPlane, started, ghosts>>

(* Another first device was faster, or the call failed, with or without    *)
(* having written: the key just stored is deleted.                         *)
CreateFails(p) ==
    /\ proc[p].pc = "create"
    /\ \/ ring = <<>> /\ Writable(New(On(p), proc[p].n)) /\ ring' = New(On(p), proc[p].n)
       \/ UNCHANGED ring
    /\ key' = [key EXCEPT ![On(p)] = NoKey]
    /\ Exit(p)
    /\ UNCHANGED <<account, controlPlane, started, ghosts>>

(* recover: a device whose key is listed is attached again; one that is    *)
(* not listed gets a fresh key, unless it holds one and was not revoked.   *)
Decide(p) ==
    LET d == On(p)
        k == proc[p].ring
        membership == DeviceMembership(k, d, key[d])
    IN  /\ proc[p].pc = "decide" /\ Check(k, NoAccount, proc[p].floor)
        /\ \/ /\ membership = "enrolled"
              /\ proc' = [proc EXCEPT ![p].mine = key[d], ![p].pc = "enrol"]
           \/ /\ membership = "not listed"
              /\ key[d] # NoKey => RevokedDevice(k, d)
              /\ proc' = [proc EXCEPT ![p].mine = proc[p].n, ![p].old = key[d],
                                      ![p].ring = <<>>, ![p].pc = "rekey"]
        /\ UNCHANGED <<ring, key, account, controlPlane, started, ghosts>>

(* CreatePairing: a request for the public key of the joining device.      *)
CreatePairing(d, n, publicKey) ==
    request' = [request EXCEPT ![d] =
                   [NoRequest EXCEPT !.id = n, !.status = "pending", !.key = publicKey]]

OpenRequest(p) ==
    /\ proc[p].pc = "request" /\ On(p) \notin refused
    /\ CreatePairing(On(p), proc[p].n, proc[p].mine)
    /\ proc' = [proc EXCEPT ![p].req = proc[p].n, ![p].pc = "wait"]
    /\ UNCHANGED <<ring, key, account, floor, refused, started, ghosts>>

(* ClaimPairing gives out the payload once.                                *)
ClaimPairing(d) ==
    /\ request[d].status = "approved"
    /\ request' = [request EXCEPT ![d].status = "consumed"]

(* WaitForPairing polls until the payload is there.                        *)
WaitForPairing(p) ==
    LET r == request[On(p)] IN
    /\ proc[p].pc = "wait" /\ On(p) \notin refused
    /\ ClaimPairing(On(p))
    /\ proc' = [proc EXCEPT ![p].payload = [NoAccount EXCEPT !.gen = r.gen, !.root = r.root],
                            ![p].pc = "confirm"]
    /\ UNCHANGED <<ring, key, account, floor, refused, started, ghosts>>

(* A mistake: the wrap for this device is not looked for.                  *)
VerifyRootOnly(p) ==
    /\ proc[p].pc = "verify"
    /\ Len(ring) = proc[p].payload.gen
    /\ Check(ring, proc[p].anchor, proc[p].floor)
    /\ Current(ring).root = proc[p].payload.root
    /\ proc' = [proc EXCEPT ![p].ring = ring, ![p].pc = "enrol"]
    /\ UNCHANGED <<ring, key, account, controlPlane, started, ghosts>>

(* verifyJoinedKeyring: the keyring in storage must be at the generation   *)
(* of the approval and open, with this device's key, to the same root key. *)
VerifyJoined(p) ==
    /\ proc[p].pc = "verify"
    /\ Len(ring) = proc[p].payload.gen
    /\ Trust(p, ring)
    /\ Current(ring).root = proc[p].payload.root
    /\ proc' = [proc EXCEPT ![p].ring = ring, ![p].pc = "enrol"]
    /\ UNCHANGED <<ring, key, account, controlPlane, started, ghosts>>

(* saveAccountEnrolment; the floor had nowhere to be saved before that.    *)
Enrolled(p) ==
    LET k == proc[p].ring IN
    /\ proc[p].pc = "enrol"
    /\ account' = [account EXCEPT ![On(p)] =
                      [gen |-> Len(k), root |-> Current(k).root, confirmed |-> 0]]
    /\ IF proc[p].floor > 0 THEN Goto(p, "keepFloor") ELSE Exit(p)
    /\ UNCHANGED <<ring, key, controlPlane, started, ghosts>>

KeepFloor(p) ==
    /\ proc[p].pc = "keepFloor"
    /\ account' = [account EXCEPT ![On(p)].confirmed = MaxOf(@, proc[p].floor)]
    /\ Exit(p)
    /\ UNCHANGED <<ring, key, controlPlane, started, ghosts>>

(***************************************************************************)
(* Faults and the outside world                                            *)
(***************************************************************************)
(* A command stops: it is killed, one of its calls fails, or one of its    *)
(* checks refuses.  Nothing is cleaned up.                                 *)
Stop(p) ==
    /\ proc[p] # Idle
    /\ Exit(p)
    /\ UNCHANGED <<ring, key, account, controlPlane, started, ghosts>>

(* The request expires, or is withdrawn by the joining device.             *)
Expire(d) ==
    /\ request[d].status = "pending"
    /\ request' = [request EXCEPT ![d].status = "expired"]
    /\ UNCHANGED <<ring, key, account, floor, refused, proc, started, ghosts>>

(* The copy of the keyring from before the last rollover is put back.      *)
Restore ==
    /\ restores < MaxRestores /\ backup # <<>> /\ ring # backup
    /\ ring' = backup
    /\ restores' = restores + 1
    /\ UNCHANGED <<key, account, controlPlane, proc, started, backup, undone, closed>>

Start(p) ==
    \/ StartInit(p) \/ StartRecover(p) \/ StartJoin(p)
    \/ StartApprove(p) \/ StartRevoke(p) \/ StartUse(p)

Step(p) ==
    \/ Confirm(p) \/ Remember(p)
    \/ Load(p) \/ LoadAlready(p) \/ Reload(p) \/ Put(p) \/ PutConflict(p) \/ RecoverFails(p)
    \/ TrustUse(p) \/ Observe(p) \/ Record(p) \/ Use(p)
    \/ Relay(p) \/ RelayRefused(p) \/ Undo(p) \/ UndoConflict(p)
    \/ TellConsole(p) \/ Tell(p) \/ RaiseFloor(p) \/ Finish(p)
    \/ InitSecret(p) \/ SetSecret(p) \/ Create(p) \/ CreateFails(p) \/ Decide(p)
    \/ OpenRequest(p) \/ WaitForPairing(p) \/ VerifyJoined(p) \/ Enrolled(p) \/ KeepFloor(p)

Change ==
    \/ \E p \in Procs : Start(p) \/ Step(p) \/ Stop(p)
    \/ \E d \in Devices : Expire(d)
    \/ Restore

(* The history of a step: a command that goes on, while another one writes *)
(* the key or the record of their device, is crossed from then on.         *)
DeviceChanged(d) == key'[d] # key[d] \/ account'[d] # account[d]

History ==
    crossed' = {p \in Procs : proc'[p] # Idle /\
                   (p \in crossed \/ (proc'[p] = proc[p] /\ DeviceChanged(On(p))))}

Next == Change /\ History

Spec == Init /\ [][Next]_vars

(***************************************************************************)
(* Properties                                                              *)
(***************************************************************************)
Generations == [root : Nat, wraps : SUBSET [device : Devices, key : Nat, at : Nat, id : Nat],
                revoked : SUBSET Devices]
Accounts == [gen : Nat, root : Nat, confirmed : Nat]
Requests == [id : Nat, status : {"none", "pending", "approved", "consumed", "expired"},
             key : Nat, gen : Nat, root : Nat]

Stages == {"idle", "secret", "store", "rekey", "create", "request", "wait", "confirm", "remember", "decide",
           "verify", "trust", "load", "put", "reload", "observe", "record", "relay", "undo",
           "tell", "raise", "close", "done", "enrol", "keepFloor"}

Commands == [cmd : Kinds \cup {"none"}, pc : Stages, n : Nat, target : Devices \cup {"-"},
             floor : Nat, anchor : Accounts, ring : Seq(Generations),
             tries : 0..(MaxUpdateRetries - 1), appended : SUBSET Nat, mine : Nat, old : Nat,
             record : Accounts, req : Nat, reqKey : Nat, payload : Accounts,
             since : SUBSET Nat]

(* The types of the variables.                                             *)
TypeOK ==
    /\ ring \in Seq(Generations) /\ backup \in Seq(Generations)
    /\ key \in [Devices -> Nat]
    /\ account \in [Devices -> Accounts]
    /\ floor \in Nat /\ refused \subseteq Devices
    /\ request \in [Devices -> Requests]
    /\ proc \in [Procs -> Commands]
    /\ started \in Nat /\ restores \in Nat
    /\ undone \subseteq Nat /\ closed \subseteq [victim : Devices, gen : Nat]
    /\ crossed \subseteq Procs

(* The commands never lose a generation, or a wrap that another command    *)
(* wrote: keyring.Update applies its change to the keyring it replaces,    *)
(* so concurrent approvals, recoveries and revocations are all kept.  Only *)
(* the approval that wrote a wrap takes it back, and only an enrolment of  *)
(* the same device replaces it.                                            *)
WrapsKept ==
    [][restores' = restores =>
         \A i \in DOMAIN ring :
            /\ i \in DOMAIN ring'
            /\ ring'[i].root = ring[i].root
            /\ \A w \in ring[i].wraps :
                  \/ KeyIn(ring'[i], w.device) # NoKey
                  \/ \E p \in Procs : /\ proc[p].pc = "undo" /\ proc[p].n = w.id
                                       /\ proc[p].target = w.device]_vars

(* An approval that the control plane refused, and that reported its wraps *)
(* as removed, has left none of them in any generation.                    *)
UndoneIsGone ==
    restores = 0 => \A i \in DOMAIN ring : \A w \in ring[i].wraps : w.id \notin undone

(* A revocation that is reported as finished is: the control plane refuses *)
(* the device's token and reports the generation, also when an earlier     *)
(* attempt stopped half way and this one found the device without a wrap.  *)
RevocationFinished ==
    \A c \in closed : c.victim \in refused /\ (CarriesFloor => floor >= c.gen)

(* Past this point a command acts on the keyring at hand.  (The removal of *)
(* a refused approval's wraps trusts no keyring: it only takes away.)      *)
Acting == {"relay", "tell", "raise", "close", "done", "enrol"}

(* No command acts on a keyring below the generation its device had seen,  *)
(* or that a finished revocation had reached, when the command started:    *)
(* an earlier copy put back into storage is refused.  A command is exempt  *)
(* once another one wrote the key or the record of the same device: no     *)
(* lock keeps two commands of a device apart.                              *)
NeverBelowFloor ==
    \A p \in Procs \ crossed : proc[p].pc \in Acting /\ proc[p].cmd # "init" =>
        \A g \in (IF CarriesFloor THEN proc[p].since ELSE {proc[p].anchor.gen}) :
            Len(proc[p].ring) >= g

(* A device that is about to record its enrolment holds the key that opens *)
(* the generation it records, even when two devices answered its request   *)
(* and one of them took its wraps back, unless another command on the      *)
(* device replaced its key or its record meanwhile.                        *)
EnrolledOpens ==
    \A p \in Procs \ crossed : proc[p].pc = "enrol" => CanUnwrap(proc[p].ring, On(p), key[On(p)])

(* The generation in a device's record never falls.                        *)
RecordNeverFalls ==
    [][\A d \in Devices : account'[d].gen >= account[d].gen
                         /\ account'[d].confirmed >= account[d].confirmed]_vars

(* The keyring stays readable: it never exceeds what Load accepts, also    *)
(* when an enrolment and a rollover both grew it.                          *)
Readable == Size(ring) \in 0..ReadLimit

(* The keyring and the records are well formed and can be read back; who   *)
(* was turned away has left no wrap, and who enrols can open its key.      *)
KeyringConsistent == TypeOK /\ Readable /\ UndoneIsGone /\ EnrolledOpens

(* A revoked device stays out: a revocation that is reported as finished   *)
(* has reached the control plane, and no command takes a keyring from      *)
(* before it for the current one.                                          *)
RevocationHolds == RevocationFinished /\ NeverBelowFloor

(* A device whose approval was refused and taken back is not enrolled by   *)
(* it: no wrap in any generation goes back to that approval.               *)
RefusedStaysOut ==
    restores = 0 => \A i \in DOMAIN ring : \A w \in ring[i].wraps : w.at \notin undone

=============================================================================
