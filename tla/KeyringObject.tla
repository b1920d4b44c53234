--------------------------- MODULE KeyringObject ---------------------------
(***************************************************************************)
(* The keyring object (internal/keyring/keyring.go): the generations of an *)
(* account's root key, oldest first, each with the root key wrapped for    *)
(* the devices that may read it.  The current generation is the last one:  *)
(* Rollover is the only operation that changes current_generation.         *)
(*                                                                         *)
(* A root key is the number of the command that made it, and so is a       *)
(* device key and the ciphertext of a wrap: each is fresh in every         *)
(* command that makes one.  Every generation verifies under the account's  *)
(* signing key: nobody else holds the recovery code.                       *)
(***************************************************************************)
EXTENDS Naturals, FiniteSets, SequencesExt

NoKey == 0

(* A wrap has its ciphertext (id) and its enrolled_at, for which stands    *)
(* the command that enrolled the device.                                   *)
Wrap(d, key, at, id) == [device |-> d, key |-> key, at |-> at, id |-> id]

Generation(root, wraps, revoked) ==
    [root |-> root, wraps |-> wraps, revoked |-> revoked]

(* New: the first generation, for the first device only.                   *)
New(d, n) == <<Generation(n, {Wrap(d, n, n, n)}, {})>>

Current(k) == k[Len(k)]

(* DevicePublicKey: the key a generation lists for d, NoKey when none.     *)
KeyIn(g, d) ==
    IF \E w \in g.wraps : w.device = d
    THEN (CHOOSE w \in g.wraps : w.device = d).key
    ELSE NoKey

DevicePublicKey(k, d) == KeyIn(Current(k), d)

HasDevice(k, d) == DevicePublicKey(k, d) # NoKey

RevokedDevice(k, d) == ~HasDevice(k, d) /\ \E i \in DOMAIN k : d \in k[i].revoked

(* DeviceMembership of d, whose machine holds key.                         *)
DeviceMembership(k, d, key) ==
    CASE ~HasDevice(k, d) -> "not listed"
      [] HasDevice(k, d) /\ key = NoKey -> "key gone"
      [] HasDevice(k, d) /\ key # NoKey /\ DevicePublicKey(k, d) # key -> "key mismatch"
      [] OTHER -> "enrolled"

(* unwrapDevice: a wrap opens with the key it was made for.                *)
Opens(g, d, key) == key # NoKey /\ KeyIn(g, d) = key

(* UnwrapGenerations: the generations that d opens with its key.  It fails *)
(* when the current one is not among them.                                 *)
UnwrapGenerations(k, d, key) == {i \in DOMAIN k : Opens(k[i], d, key)}

CanUnwrap(k, d, key) == Len(k) \in UnwrapGenerations(k, d, key)

(* UnwrapGenerationsWithRecoveryCode: the code opens every generation.     *)
RecoveryGenerations(k) == DOMAIN k

(* EnrolAll: a wrap for d in every generation of gens.  One that is there  *)
(* for the same key stays, one under another key is replaced (EnrolInto).  *)
(* A device listed in the current generation is refused before (Enrol).    *)
EnrolAll(k, gens, d, key, id) ==
    [i \in DOMAIN k |->
        IF i \in gens /\ KeyIn(k[i], d) # key
        THEN [k[i] EXCEPT !.wraps = {w \in @ : w.device # d} \cup {Wrap(d, key, id, id)}]
        ELSE k[i]]

(* The AppendedWraps of that enrolment: the generations it wrote to.       *)
Appended(k, gens, d, key) == {i \in gens : KeyIn(k[i], d) # key}

(* A mistake: only the wrap of the current generation is taken back.       *)
UnenrolCurrent(k, d, gens, id) ==
    [k EXCEPT ![Len(k)].wraps = {w \in @ : ~(w.device = d /\ w.id = id)}]

(* UnenrolAppended: takes back the wraps that command id wrote.            *)
UnenrolAppended(k, d, gens, id) ==
    [i \in DOMAIN k |->
        IF i \in gens
        THEN [k[i] EXCEPT !.wraps = {w \in @ : ~(w.device = d /\ w.id = id)}]
        ELSE k[i]]

(* Rollover: a generation with a fresh root key, wrapped for every device  *)
(* of the current generation except the one that is revoked; the wraps     *)
(* are new, and keep the enrolled_at of the ones they follow.              *)
Rollover(k, victim, n) ==
    Append(k, Generation(n, {Wrap(w.device, w.key, w.at, n) :
                                w \in {v \in Current(k).wraps : v.device # victim}},
                         {victim}))

(* The size of the object, counted in generations and wraps.               *)
Size(k) == FoldLeft(LAMBDA n, g : n + 1 + Cardinality(g.wraps), 0, k)

=============================================================================
