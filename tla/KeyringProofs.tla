---------------------------- MODULE KeyringProofs ----------------------------
(* Proofs about the commands on an account's keyring, for every set of     *)
(* devices and founders, every limit, and every number of commands, also   *)
(* at a time on one device, and of earlier keyrings put back into storage. *)
EXTENDS Keyring, SequenceTheorems, TLAPS

------------------------------------------------------------------------------
(* Keyrings.                                                               *)
LEMMA RingIs ==
    ASSUME NEW k \in Seq(Generations)
    PROVE  /\ Len(k) \in Nat /\ DOMAIN k = 1..Len(k)
           /\ \A i \in DOMAIN k : k[i] \in Generations
           /\ k # <<>> => Len(k) \in DOMAIN k /\ Current(k) \in Generations
<1>1. /\ Len(k) \in Nat /\ DOMAIN k = 1..Len(k)
      /\ \A i \in DOMAIN k : k[i] \in Generations
  BY LenProperties, ElementOfSeq
<1>2. k # <<>> => Len(k) \in 1..Len(k)
  BY <1>1, EmptySeq
<1> QED BY <1>1, <1>2 DEF Current

(* A sequence by its elements.                                             *)
LEMMA IsARing ==
    ASSUME NEW k \in Seq(Generations), NEW R, DOMAIN R = DOMAIN k,
           R = [i \in DOMAIN R |-> R[i]], \A i \in DOMAIN k : R[i] \in Generations
    PROVE  R \in Seq(Generations) /\ Len(R) = Len(k)
<1>1. Len(k) \in Nat /\ DOMAIN k = 1..Len(k)
  BY RingIs
<1>2. R \in [1..Len(k) -> Generations]
  BY <1>1
<1>3. R \in Seq(Generations)
  BY <1>1, <1>2
<1>4. Len(R) = Len(k)
  <2>1. Len(R) \in Nat /\ DOMAIN R = 1..Len(R)
    BY <1>3, LenProperties
  <2> QED BY <1>1, <2>1
<1> QED BY <1>3, <1>4

(* The key a generation lists.                                             *)
LEMMA KeyInIs ==
    ASSUME NEW g \in Generations, NEW d
    PROVE  \/ KeyIn(g, d) = NoKey /\ \A w \in g.wraps : w.device # d
           \/ \E w \in g.wraps : w.device = d /\ KeyIn(g, d) = w.key
  BY DEF KeyIn

(* No wrap is without a key, and every wrap was made by a command.         *)
Real(k, n) == \A i \in DOMAIN k : \A w \in k[i].wraps : w.key # NoKey /\ w.id <= n

Locked(k) == \A i \in DOMAIN k : \A w \in k[i].wraps : w.key # NoKey

Wrapped == [device : Devices, key : Nat, at : Nat, id : Nat]

LEMMA WrapIs ==
    ASSUME NEW d \in Devices, NEW kd \in Nat, NEW at \in Nat, NEW id \in Nat
    PROVE  /\ Wrap(d, kd, at, id) \in Wrapped
           /\ Wrap(d, kd, at, id).device = d /\ Wrap(d, kd, at, id).key = kd
           /\ Wrap(d, kd, at, id).id = id
  BY DEF Wrap, Wrapped

With(g, wraps) == [g EXCEPT !.wraps = wraps]

LEMMA GenerationIs ==
    ASSUME NEW g \in Generations
    PROVE  /\ g.wraps \subseteq Wrapped
           /\ \A wraps \in SUBSET Wrapped :
                 /\ With(g, wraps) \in Generations
                 /\ With(g, wraps).root = g.root
                 /\ With(g, wraps).wraps = wraps
  BY DEF Generations, Wrapped, With

(* R is what a command with number n wrote in place of k: every generation *)
(* stays, with a wrap for every device that had one, and what is new has   *)
(* the number of the command.                                              *)
Follows(k, R, n) ==
    /\ R \in Seq(Generations) /\ R # <<>> /\ Len(R) >= Len(k)
    /\ \A i \in DOMAIN k :
          /\ R[i].root = k[i].root
          /\ \A w \in k[i].wraps : KeyIn(R[i], w.device) # NoKey
    /\ \A i \in DOMAIN R : \A w \in R[i].wraps :
          \/ i \in DOMAIN k /\ w \in k[i].wraps
          \/ w.id = n /\ w.key # NoKey

(* EnrolAll                                                                *)
Enrols(k, R, gens, d, kd, id) ==
    /\ Follows(k, R, id) /\ Len(R) = Len(k)
    /\ \A i \in gens \cap DOMAIN k : KeyIn(R[i], d) = kd
    /\ \A i \in DOMAIN k : \A w \in R[i].wraps :
          \/ w \in k[i].wraps
          \/ w.id = id /\ w.device = d /\ i \in Appended(k, gens, d, kd)

LEMMA EnrolIs ==
    ASSUME NEW k \in Seq(Generations), k # <<>>, Locked(k), NEW gens,
           NEW d \in Devices, NEW kd \in Nat, kd # NoKey, NEW id \in Nat
    PROVE  Enrols(k, EnrolAll(k, gens, d, kd, id), gens, d, kd, id)
<1> DEFINE R == EnrolAll(k, gens, d, kd, id)
           new == Wrap(d, kd, id, id)
           Adds(i) == i \in gens /\ KeyIn(k[i], d) # kd
           kept(i) == {w \in k[i].wraps : w.device # d} \cup {new}
<1>1. /\ new \in Wrapped /\ new.device = d /\ new.key = kd /\ new.id = id
  BY WrapIs
<1>2. /\ DOMAIN R = DOMAIN k /\ R = [i \in DOMAIN R |-> R[i]]
      /\ \A i \in DOMAIN k : R[i] = IF Adds(i) THEN [k[i] EXCEPT !.wraps = kept(i)] ELSE k[i]
  BY Zenon DEF EnrolAll
<1> HIDE DEF R, new
<1>3. ASSUME NEW i \in DOMAIN k
      PROVE  /\ R[i] \in Generations /\ R[i].root = k[i].root
             /\ R[i].wraps = IF Adds(i) THEN kept(i) ELSE k[i].wraps
  <2>1. k[i] \in Generations /\ k[i].wraps \subseteq Wrapped
    BY RingIs, GenerationIs
  <2>2. kept(i) \in SUBSET Wrapped
    BY <2>1, <1>1
  <2>3. CASE Adds(i)
    <3> DEFINE W == kept(i)
    <3>1. R[i] = With(k[i], W)
      BY <1>2, <2>3 DEF With
    <3> HIDE DEF W
    <3>2. W \in SUBSET Wrapped
      BY <2>2 DEF W
    <3>3. R[i] \in Generations /\ R[i].root = k[i].root /\ R[i].wraps = W
      BY <2>1, <3>1, <3>2, GenerationIs
    <3> QED BY <2>3, <3>3 DEF W
  <2>4. CASE ~Adds(i)
    BY <1>2, <2>1, <2>4
  <2> QED BY <2>3, <2>4
<1>4. R \in Seq(Generations) /\ Len(R) = Len(k) /\ R # <<>>
  <2>1. R \in Seq(Generations) /\ Len(R) = Len(k)
    BY <1>2, <1>3, IsARing
  <2>2. Len(k) # 0
    BY RingIs
  <2> QED BY <2>1, <2>2
<1>5. \A i \in DOMAIN k : \A w \in k[i].wraps : w.key # NoKey
  BY DEF Locked
<1>6. ASSUME NEW i \in DOMAIN k, Adds(i) PROVE KeyIn(R[i], d) = kd
  <2>1. \A w \in R[i].wraps : w.device = d => w = new
    BY <1>3, <1>6
  <2>2. new \in R[i].wraps /\ R[i] \in Generations
    BY <1>3, <1>6
  <2> QED BY <1>1, <2>1, <2>2, KeyInIs
<1>7. ASSUME NEW i \in DOMAIN k, NEW w \in k[i].wraps PROVE KeyIn(R[i], w.device) # NoKey
  <2>1. CASE Adds(i) /\ w.device = d
    BY <2>1, <1>6 DEF NoKey
  <2>2. CASE Adds(i) /\ w.device # d
    <3>1. w \in R[i].wraps /\ R[i] \in Generations
      BY <1>3, <2>2
    <3>2. PICK v \in R[i].wraps : v.device = w.device /\ KeyIn(R[i], w.device) = v.key
      BY <3>1, KeyInIs
    <3>3. v \in k[i].wraps
      BY <1>1, <1>3, <2>2, <3>2
    <3> QED BY <1>5, <3>2, <3>3
  <2>3. CASE ~Adds(i)
    <3>1. w \in R[i].wraps /\ R[i] \in Generations /\ R[i].wraps = k[i].wraps
      BY <1>3, <2>3
    <3>2. PICK v \in R[i].wraps : v.device = w.device /\ KeyIn(R[i], w.device) = v.key
      BY <3>1, KeyInIs
    <3> QED BY <1>5, <3>1, <3>2
  <2> QED BY <2>1, <2>2, <2>3
<1>8. ASSUME NEW i \in DOMAIN k, NEW w \in R[i].wraps
      PROVE  \/ w \in k[i].wraps
             \/ /\ w.id = id /\ w.device = d /\ w.key # NoKey
                /\ i \in Appended(k, gens, d, kd)
  BY <1>1, <1>3 DEF Appended, NoKey
<1>9. ASSUME NEW i \in gens \cap DOMAIN k PROVE KeyIn(R[i], d) = kd
  <2>1. CASE Adds(i)
    BY <2>1, <1>6
  <2>2. CASE ~Adds(i)
    BY <1>2, <2>2
  <2> QED BY <2>1, <2>2
<1>10. Len(R) >= Len(k)
  BY <1>4, RingIs
<1>11. Follows(k, R, id)
  BY <1>2, <1>3, <1>4, <1>7, <1>8, <1>10 DEF Follows
<1>12. Enrols(k, R, gens, d, kd, id)
  BY <1>4, <1>8, <1>9, <1>11 DEF Enrols
<1> QED BY <1>12 DEF R

(* A device with a wrap is listed with a key.                              *)
LEMMA Listed ==
    ASSUME NEW k \in Seq(Generations), NEW n, Real(k, n),
           NEW i \in DOMAIN k, NEW w \in k[i].wraps
    PROVE  KeyIn(k[i], w.device) # NoKey
<1>1. PICK v \in k[i].wraps : v.device = w.device /\ KeyIn(k[i], w.device) = v.key
  BY RingIs, KeyInIs
<1> QED BY <1>1 DEF Real

LEMMA NewGenerationIs ==
    ASSUME NEW root \in Nat, NEW wraps \in SUBSET Wrapped, NEW gone \in SUBSET Devices
    PROVE  /\ Generation(root, wraps, gone) \in Generations
           /\ Generation(root, wraps, gone).wraps = wraps
  BY DEF Generation, Generations, Wrapped

(* Rollover                                                                *)
LEMMA RolloverIs ==
    ASSUME NEW k \in Seq(Generations), k # <<>>, NEW m \in Nat, Real(k, m),
           NEW victim \in Devices, NEW n \in Nat
    PROVE  Follows(k, Rollover(k, victim, n), n)
<1> DEFINE old == {v \in Current(k).wraps : v.device # victim}
           wraps == {Wrap(w.device, w.key, w.at, n) : w \in old}
           last == Generation(n, wraps, {victim})
           R == Append(k, last)
<1>1. Current(k) \in Generations /\ Len(k) \in DOMAIN k /\ Current(k) = k[Len(k)]
  BY RingIs DEF Current
<1>2. old \subseteq Wrapped /\ \A w \in old : w.key # NoKey
  BY <1>1, GenerationIs DEF Real
<1>3. ASSUME NEW w \in wraps PROVE w \in Wrapped /\ w.id = n /\ w.key # NoKey
  <2>1. PICK v \in old : w = Wrap(v.device, v.key, v.at, n)
    OBVIOUS
  <2>2. v \in Wrapped /\ v.key # NoKey
    BY <1>2
  <2>3. v.device \in Devices /\ v.key \in Nat /\ v.at \in Nat
    BY <2>2 DEF Wrapped
  <2> QED BY <2>1, <2>2, <2>3, WrapIs
<1>4. wraps \in SUBSET Wrapped
  BY <1>3
<1> HIDE DEF wraps
<1>5. last \in Generations /\ last.wraps = wraps
  BY <1>4, NewGenerationIs
<1> HIDE DEF last
<1>6. /\ R \in Seq(Generations) /\ Len(R) = Len(k) + 1 /\ Len(k) \in Nat
      /\ DOMAIN k = 1..Len(k) /\ DOMAIN R = 1..(Len(k) + 1)
      /\ \A i \in DOMAIN k : R[i] = k[i]
      /\ R[Len(k) + 1] = last
  <2>1. Len(k) \in Nat /\ DOMAIN k = 1..Len(k)
    BY RingIs
  <2>2. R \in Seq(Generations) /\ Len(R) = Len(k) + 1
    BY <1>5
  <2>3. DOMAIN R = 1..(Len(k) + 1)
    BY <2>2, LenProperties
  <2>4. /\ \A i \in 1..Len(k) : R[i] = k[i]
        /\ R[Len(k) + 1] = last
    BY <1>5, <2>1
  <2> QED BY <2>1, <2>2, <2>3, <2>4
<1> HIDE DEF R
<1>7. R # <<>> /\ Len(R) >= Len(k)
  <2>1. Len(R) # 0
    BY <1>6
  <2> QED BY <1>6, <2>1
<1>8. ASSUME NEW i \in DOMAIN R, NEW w \in R[i].wraps
      PROVE  (i \in DOMAIN k /\ w \in k[i].wraps) \/ (w.id = n /\ w.key # NoKey)
  <2>1. CASE i \in DOMAIN k
    BY <1>6, <2>1
  <2>2. CASE i = Len(k) + 1
    BY <1>3, <1>5, <1>6, <2>2
  <2> QED BY <1>6, <2>1, <2>2
<1>9. \A i \in DOMAIN k : \A w \in k[i].wraps : KeyIn(k[i], w.device) # NoKey
  BY Listed
<1>10. Follows(k, R, n)
  BY <1>6, <1>7, <1>8, <1>9 DEF Follows
<1> QED BY <1>10 DEF R, last, wraps, Rollover

(* UnenrolAppended only takes away.                                        *)
Unenrols(k, R, d, gens, id) ==
    /\ R \in Seq(Generations) /\ Len(R) = Len(k) /\ DOMAIN R = DOMAIN k
    /\ \A i \in DOMAIN k :
          /\ R[i].root = k[i].root
          /\ R[i].wraps = IF i \in gens
                          THEN {w \in k[i].wraps : ~(w.device = d /\ w.id = id)}
                          ELSE k[i].wraps

LEMMA UnenrolIs ==
    ASSUME NEW k \in Seq(Generations), NEW d, NEW gens, NEW id
    PROVE  Unenrols(k, UnenrolAppended(k, d, gens, id), d, gens, id)
<1> DEFINE R == UnenrolAppended(k, d, gens, id)
           left(i) == {w \in k[i].wraps : ~(w.device = d /\ w.id = id)}
<1>1. /\ DOMAIN R = DOMAIN k /\ R = [i \in DOMAIN R |-> R[i]]
      /\ \A i \in DOMAIN k : R[i] = IF i \in gens THEN With(k[i], left(i)) ELSE k[i]
  BY Zenon DEF UnenrolAppended, With
<1> HIDE DEF R
<1>2. ASSUME NEW i \in DOMAIN k
      PROVE  /\ R[i] \in Generations /\ R[i].root = k[i].root
             /\ R[i].wraps = IF i \in gens THEN left(i) ELSE k[i].wraps
  <2>1. k[i] \in Generations /\ k[i].wraps \subseteq Wrapped
    BY RingIs, GenerationIs
  <2> DEFINE W == left(i)
  <2>2. W \in SUBSET Wrapped
    BY <2>1
  <2>3. i \in gens => R[i] = With(k[i], W)
    BY <1>1
  <2> HIDE DEF W
  <2>4. i \in gens => R[i] \in Generations /\ R[i].root = k[i].root /\ R[i].wraps = W
    BY <2>1, <2>2, <2>3, GenerationIs
  <2>5. i \notin gens => R[i] = k[i]
    BY <1>1
  <2> QED BY <2>1, <2>4, <2>5 DEF W
<1>3. R \in Seq(Generations) /\ Len(R) = Len(k)
  BY <1>1, <1>2, IsARing
<1>4. Unenrols(k, R, d, gens, id)
  BY <1>1, <1>2, <1>3 DEF Unenrols
<1> QED BY <1>4 DEF R

(* New, and the keyring of the founders.                                   *)
LEMMA NewIs ==
    ASSUME NEW d \in Devices, NEW n \in Nat \ {0}
    PROVE  Follows(<<>>, New(d, n), n) /\ CanUnwrap(New(d, n), d, n)
<1> DEFINE w == Wrap(d, n, n, n)
           g == Generation(n, {w}, {})
           R == <<g>>
<1>1. w \in Wrapped /\ w.device = d /\ w.key = n /\ w.id = n
  BY WrapIs
<1> HIDE DEF w
<1>2. g \in Generations /\ g.wraps = {w}
  <2>1. {w} \in SUBSET Wrapped /\ {} \in SUBSET Devices
    BY <1>1
  <2> QED BY <2>1, NewGenerationIs
<1> HIDE DEF g
<1>3. R \in Seq(Generations) /\ Len(R) = 1 /\ DOMAIN R = {1} /\ R[1] = g
  BY <1>2
<1>4. KeyIn(g, d) = n
  BY <1>1, <1>2, KeyInIs
<1> HIDE DEF R
<1>5. R # <<>> /\ Len(R) >= Len(<<>>) /\ DOMAIN <<>> = {}
  BY <1>3
<1>6. Follows(<<>>, R, n)
  BY <1>1, <1>2, <1>3, <1>5 DEF Follows, NoKey
<1>7. CanUnwrap(R, d, n)
  BY <1>3, <1>4 DEF CanUnwrap, UnwrapGenerations, Opens, NoKey
<1> QED BY <1>6, <1>7 DEF R, g, w, New

LEMMA FoundersRingIs ==
    ASSUME NEW S \in SUBSET Devices
    PROVE  FoundersRing(S) \in Seq(Generations) /\ Real(FoundersRing(S), 1)
<1>1. CASE S = {}
  <2>1. FoundersRing(S) = <<>>
    BY <1>1 DEF FoundersRing
  <2> QED BY <2>1 DEF Real
<1>2. CASE S # {}
  <2> DEFINE wraps == {Wrap(d, 1, 1, 1) : d \in S}
             g == Generation(1, wraps, {})
             R == <<g>>
  <2>1. wraps \in SUBSET Wrapped /\ \A w \in wraps : w.key = 1 /\ w.id = 1
    BY WrapIs
  <2> HIDE DEF wraps
  <2>2. g \in Generations /\ g.wraps = wraps
    <3>1. {} \in SUBSET Devices /\ 1 \in Nat
      OBVIOUS
    <3> QED BY <2>1, <3>1, NewGenerationIs
  <2> HIDE DEF g
  <2>3. R \in Seq(Generations) /\ DOMAIN R = {1} /\ R[1] = g
    BY <2>2
  <2> HIDE DEF R
  <2>4. Real(R, 1)
    BY <2>1, <2>2, <2>3 DEF Real, NoKey
  <2>5. FoundersRing(S) = R
    BY <1>2 DEF FoundersRing, R, g, wraps
  <2> QED BY <2>3, <2>4, <2>5
<1> QED BY <1>1, <1>2

------------------------------------------------------------------------------
(* Commands.                                                               *)
(* The stages of a command.                                                *)
FlowOf(cmd) ==
    CASE cmd = "none" -> {"idle"}
      [] cmd = "init" -> {"secret", "store", "create", "enrol", "keepFloor"}
      [] cmd = "recover" -> {"confirm", "remember", "decide", "rekey", "load", "put", "enrol",
                             "keepFloor"}
      [] cmd = "join" -> {"store", "request", "wait", "confirm", "remember", "verify", "enrol",
                          "keepFloor"}
      [] cmd = "approve" -> {"confirm", "remember", "load", "put", "observe", "record",
                             "relay", "undo"}
      [] cmd = "revoke" -> {"confirm", "remember", "load", "put", "reload", "observe",
                            "record", "tell", "raise", "close"}
      [] OTHER -> {"confirm", "remember", "trust", "observe", "record", "done"}

Flow(r) == r.pc \in FlowOf(r.cmd)

(* What a command makes of the keyring k.                                  *)
MutatedBy(r, d, k) ==
    CASE r.cmd = "approve" -> IF HasDevice(k, r.target) THEN k
                              ELSE EnrolAll(k, UnwrapGenerations(k, d, r.mine), r.target,
                                            r.reqKey, r.n)
      [] r.cmd = "recover" -> EnrolAll(k, RecoveryGenerations(k), d, r.mine, r.n)
      [] OTHER -> Rollover(k, r.target, r.n)

(* A command has the device, the public key or the device key it works     *)
(* with.                                                                   *)
Equipped(r) ==
    /\ r.cmd \in {"approve", "revoke"} => r.target \in Devices
    /\ r.cmd = "approve" => r.reqKey # NoKey
    /\ r.cmd = "join" => r.mine # NoKey
    /\ r.cmd = "recover" /\ r.pc \in {"rekey", "load", "put"} => r.mine # NoKey
    /\ r.cmd = "init" => r.mine = r.n

(* Where a command has a keyring at hand, there is one.                    *)
HasRing(r, k) ==
    /\ r.pc \in {"decide", "trust", "put", "observe", "record", "relay", "tell", "raise",
                 "close", "done", "enrol"} => r.ring # <<>>
    /\ r.cmd \in {"recover", "use"} /\ r.pc \in {"confirm", "remember"} => r.ring # <<>>
    /\ r.cmd = "recover" \/ r.pc = "reload" => k # <<>>

(* What is about to be written can be, and what is about to be recorded    *)
(* opens.                                                                  *)
Prepared(r, d) ==
    /\ r.pc = "put" => Writable(MutatedBy(r, d, r.ring))
    /\ r.pc = "put" /\ r.cmd = "recover" => ~HasDevice(r.ring, d)
    /\ r.pc = "enrol" => CanUnwrap(r.ring, d, r.mine)

(* What the control plane was told before the end of a revocation.         *)
Reported(r, fl, gone) ==
    /\ r.pc \in {"raise", "close"} => r.target \in gone
    /\ r.pc = "close" /\ CarriesFloor => fl >= Len(r.ring)

(* Each generation the device must not fall below is one of its record, or *)
(* of the floor that the control plane has now, and answers later; and the *)
(* keyring at hand reaches it once it was checked.                         *)
Before == {"secret", "store", "create", "request", "wait", "confirm"}
Checking == {"remember", "rekey", "load", "put", "reload", "trust", "observe", "decide", "verify"}
Checked == {"put", "record"} \cup Acting

Reaches(r) ==
    /\ Len(r.ring) >= r.anchor.gen
    /\ CarriesFloor => \A g \in r.since : Len(r.ring) >= g

Bounded(r, ad, fl) ==
    /\ r.pc \in Before /\ CarriesFloor => \A g \in r.since : g <= ad.gen \/ g <= fl
    /\ r.pc \in Checking /\ CarriesFloor => \A g \in r.since : g <= ad.gen \/ g <= r.floor
    /\ r.pc \in Checking => r.anchor.gen = ad.gen
    /\ r.pc = "remember" => r.record.gen = ad.gen
    /\ r.pc \in Checked /\ r.cmd # "init" => Reaches(r)

(* What a command has in common with its device: the key that it stored is *)
(* there, and a device that is being enrolled has no record yet.           *)
KeyThere(r, kd) ==
    /\ r.cmd \in {"init", "recover", "join"}
          /\ r.pc \in {"create", "request", "wait", "verify", "load", "put", "enrol"} => kd = r.mine
    /\ r.cmd = "join" /\ r.pc = "confirm" => kd = r.mine

Unrecorded(r, ad) ==
    r.cmd \in {"recover", "join"} => r.pc # "remember" /\ (r.pc # "keepFloor" => ad = NoAccount)

Fits(r, kd, ad, fl) == KeyThere(r, kd) /\ Unrecorded(r, ad) /\ Bounded(r, ad, fl)

(* x: another command of the device changed its key or its record.         *)
Sound(r, d, kd, ad, fl, gone, k, x) ==
    /\ Flow(r) /\ Equipped(r) /\ HasRing(r, k) /\ Prepared(r, d)
    /\ Reported(r, fl, gone)
    /\ x \/ Fits(r, kd, ad, fl)

(* Nothing that happens on another device makes a command unsound, and     *)
(* nothing that happens on its own once that is accounted for.             *)
LEMMA SoundStays ==
    ASSUME NEW r \in Commands, NEW d, NEW kd, NEW ad \in Accounts, NEW fl \in Nat, NEW gone,
           NEW k, NEW x, Sound(r, d, kd, ad, fl, gone, k, x),
           NEW later \in Nat, later >= fl, NEW more, gone \subseteq more,
           NEW m, k # <<>> => m # <<>>,
           NEW y, NEW key1, NEW ad1, y \/ (~x /\ key1 = kd /\ ad1 = ad)
    PROVE  Sound(r, d, key1, ad1, later, more, m, y)
<1>1. Flow(r) /\ Equipped(r) /\ Prepared(r, d)
  BY DEF Sound
<1>2. HasRing(r, m)
  BY DEF Sound, HasRing
<1>3. r.ring \in Seq(Generations) /\ r.since \subseteq Nat /\ ad.gen \in Nat
  BY DEF Commands, Accounts
<1>4. Len(r.ring) \in Nat
  BY <1>3, RingIs
<1>5. Reported(r, later, more)
  BY <1>4 DEF Sound, Reported
<1>6. y \/ Fits(r, key1, ad1, later)
  <2> SUFFICES ASSUME ~y PROVE Fits(r, kd, ad, later)
    OBVIOUS
  <2>1. Fits(r, kd, ad, fl)
    BY DEF Sound
  <2>2. CarriesFloor /\ r.pc \in Before => \A g \in r.since : g <= ad.gen \/ g <= later
    BY <1>3, <2>1 DEF Fits, Bounded
  <2> QED BY <2>1, <2>2 DEF Fits, Bounded
<1> QED BY <1>1, <1>2, <1>5, <1>6 DEF Sound

LEMMA IdleIs ==
    /\ Idle \in Commands /\ Idle.cmd = "none" /\ Idle.pc = "idle"
    /\ \A d, kd, ad, fl, gone, k, x : Sound(Idle, d, kd, ad, fl, gone, k, x)
<1>1. Idle \in Commands
  <2>1. NoAccount \in Accounts
    BY DEF NoAccount, Accounts
  <2>2. 0 \in 0..(MaxUpdateRetries - 1)
    BY KeyringAssumption
  <2>3. "idle" \in Stages /\ "none" \in Kinds \cup {"none"} /\ "-" \in Devices \cup {"-"}
    BY DEF Stages
  <2>4. <<>> \in Seq(Generations)
    BY EmptySeq
  <2> QED BY <2>1, <2>2, <2>3, <2>4 DEF Idle, Commands, NoKey
<1>2. Idle.cmd = "none" /\ Idle.pc = "idle"
  BY DEF Idle
<1>3. ASSUME NEW d, NEW kd, NEW ad, NEW fl, NEW gone, NEW k, NEW x
      PROVE  Sound(Idle, d, kd, ad, fl, gone, k, x)
  BY <1>2 DEF Sound, Flow, FlowOf, Equipped, HasRing, Prepared, Reported, Fits, KeyThere,
              Unrecorded, Bounded, Before, Checking, Checked, Acting
<1> QED BY <1>1, <1>2, <1>3

(* What a command becomes in one step.                                     *)
Went(r, pc) == [r EXCEPT !.pc = pc]
Confirmed(r, fl, a, record, pc) ==
    [r EXCEPT !.floor = fl, !.anchor = a, !.record = record, !.pc = pc]
Remembered(r, pc) == [r EXCEPT !.anchor = r.record, !.record = NoAccount, !.pc = pc]
Loaded(r, k, pc) == [r EXCEPT !.ring = k, !.pc = pc]
Wrote(r, k, gens, pc) == [r EXCEPT !.ring = k, !.appended = gens, !.tries = 0, !.pc = pc]
Retried(r, k, pc) == [r EXCEPT !.tries = @ + 1, !.ring = k, !.pc = pc]
Noted(r, record, pc) == [r EXCEPT !.record = record, !.pc = pc]
Attached(r, kd) == [r EXCEPT !.mine = kd, !.pc = "enrol"]
Rekeyed(r, n, old) == [r EXCEPT !.mine = n, !.old = old, !.ring = <<>>, !.pc = "rekey"]
Asked(r, n) == [r EXCEPT !.req = n, !.pc = "wait"]
Claimed(r, payload) == [r EXCEPT !.payload = payload, !.pc = "confirm"]

(* It stays the same command.                                              *)
Same(r, s) ==
    /\ s \in Commands /\ s.cmd = r.cmd /\ s.n = r.n /\ s.target = r.target
    /\ s.reqKey = r.reqKey /\ s.since = r.since

SameCommand(r, s) == Same(r, s) /\ s.mine = r.mine

SameTrust(r, s) == SameCommand(r, s) /\ s.floor = r.floor /\ s.anchor = r.anchor

LEMMA BecomesWent ==
    ASSUME NEW r \in Commands, NEW pc \in Stages
    PROVE  /\ SameTrust(r, Went(r, pc)) /\ Went(r, pc).pc = pc
           /\ Went(r, pc).ring = r.ring /\ Went(r, pc).appended = r.appended
           /\ Went(r, pc).record = r.record
  BY DEF Commands, Went, SameTrust, SameCommand, Same

LEMMA BecomesRemembered ==
    ASSUME NEW r \in Commands, NEW pc \in Stages
    PROVE  /\ SameCommand(r, Remembered(r, pc)) /\ Remembered(r, pc).pc = pc
           /\ Remembered(r, pc).ring = r.ring /\ Remembered(r, pc).appended = r.appended
           /\ Remembered(r, pc).floor = r.floor /\ Remembered(r, pc).anchor = r.record
<1>1. NoAccount \in Accounts
  BY DEF NoAccount, Accounts
<1> QED BY <1>1 DEF Commands, Remembered, SameCommand, Same

LEMMA BecomesConfirmed ==
    ASSUME NEW r \in Commands, NEW pc \in Stages, NEW fl \in Nat, NEW a \in Accounts,
           NEW record \in Accounts
    PROVE  LET s == Confirmed(r, fl, a, record, pc)
           IN  /\ SameCommand(r, s) /\ s.pc = pc /\ s.ring = r.ring /\ s.appended = r.appended
               /\ s.floor = fl /\ s.anchor = a /\ s.record = record
  BY DEF Commands, Confirmed, SameCommand, Same

LEMMA BecomesNoted ==
    ASSUME NEW r \in Commands, NEW pc \in Stages, NEW record \in Accounts
    PROVE  LET s == Noted(r, record, pc)
           IN  /\ SameTrust(r, s) /\ s.pc = pc /\ s.ring = r.ring /\ s.appended = r.appended
               /\ s.record = record
  BY DEF Commands, Noted, Same, SameCommand, SameTrust

LEMMA BecomesLoaded ==
    ASSUME NEW r \in Commands, NEW pc \in Stages, NEW k \in Seq(Generations)
    PROVE  /\ SameTrust(r, Loaded(r, k, pc)) /\ Loaded(r, k, pc).pc = pc
           /\ Loaded(r, k, pc).ring = k /\ Loaded(r, k, pc).appended = r.appended
  BY DEF Commands, Loaded, Same, SameCommand, SameTrust

LEMMA BecomesWrote ==
    ASSUME NEW r \in Commands, NEW pc \in Stages, NEW k \in Seq(Generations),
           NEW gens \in SUBSET Nat
    PROVE  /\ SameTrust(r, Wrote(r, k, gens, pc)) /\ Wrote(r, k, gens, pc).pc = pc
           /\ Wrote(r, k, gens, pc).ring = k /\ Wrote(r, k, gens, pc).appended = gens
<1>1. 0 \in 0..(MaxUpdateRetries - 1)
  BY KeyringAssumption
<1> QED BY <1>1 DEF Commands, Wrote, Same, SameCommand, SameTrust

LEMMA BecomesRetried ==
    ASSUME NEW r \in Commands, NEW pc \in Stages, NEW k \in Seq(Generations),
           r.tries + 1 < MaxUpdateRetries
    PROVE  /\ SameTrust(r, Retried(r, k, pc)) /\ Retried(r, k, pc).pc = pc
           /\ Retried(r, k, pc).ring = k /\ Retried(r, k, pc).appended = r.appended
<1>1. MaxUpdateRetries \in Nat /\ r.tries \in 0..(MaxUpdateRetries - 1)
  BY KeyringAssumption DEF Commands
<1>2. r.tries + 1 \in 0..(MaxUpdateRetries - 1)
  BY <1>1
<1> QED BY <1>2 DEF Commands, Retried, Same, SameCommand, SameTrust

LEMMA BecomesAttached ==
    ASSUME NEW r \in Commands, NEW kd \in Nat
    PROVE  LET s == Attached(r, kd)
           IN  /\ Same(r, s) /\ s.pc = "enrol" /\ s.mine = kd /\ s.ring = r.ring
               /\ s.appended = r.appended /\ s.floor = r.floor /\ s.anchor = r.anchor
<1>1. "enrol" \in Stages
  BY DEF Stages
<1> QED BY <1>1 DEF Commands, Attached, Same

LEMMA BecomesRekeyed ==
    ASSUME NEW r \in Commands, NEW n \in Nat, NEW old \in Nat
    PROVE  LET s == Rekeyed(r, n, old)
           IN  /\ Same(r, s) /\ s.pc = "rekey" /\ s.mine = n /\ s.appended = r.appended
               /\ s.floor = r.floor /\ s.anchor = r.anchor
<1>1. "rekey" \in Stages /\ <<>> \in Seq(Generations)
  BY EmptySeq DEF Stages
<1> QED BY <1>1 DEF Commands, Rekeyed, Same

LEMMA BecomesAsked ==
    ASSUME NEW r \in Commands, NEW n \in Nat
    PROVE  /\ SameTrust(r, Asked(r, n)) /\ Asked(r, n).pc = "wait"
           /\ Asked(r, n).ring = r.ring /\ Asked(r, n).appended = r.appended
<1>1. "wait" \in Stages
  BY DEF Stages
<1> QED BY <1>1 DEF Commands, Asked, Same, SameCommand, SameTrust

LEMMA BecomesClaimed ==
    ASSUME NEW r \in Commands, NEW payload \in Accounts
    PROVE  /\ SameTrust(r, Claimed(r, payload)) /\ Claimed(r, payload).pc = "confirm"
           /\ Claimed(r, payload).ring = r.ring /\ Claimed(r, payload).appended = r.appended
<1>1. "confirm" \in Stages
  BY DEF Stages
<1> QED BY <1>1 DEF Commands, Claimed, Same, SameCommand, SameTrust

------------------------------------------------------------------------------
(* The invariant.                                                          *)
SoundAt(p) == Sound(proc[p], On(p), key[On(p)], account[On(p)], floor, refused, ring,
                    p \in crossed)

(* Each command has a number of its own, which no approval that was undone *)
(* had.                                                                    *)
Numbered ==
    /\ undone \subseteq 0..started
    /\ \A p \in Procs : proc[p].cmd # "none" =>
          proc[p].n \in 1..started /\ proc[p].n \notin undone
    /\ \A p, q \in Procs : proc[p].cmd # "none" /\ proc[q].cmd # "none" /\ p # q =>
          proc[p].n # proc[q].n

(* Both copies of the keyring can be read, and are of commands that began. *)
Stored ==
    /\ Real(ring, started) /\ Real(backup, started)
    /\ Readable /\ (backup # <<>> => Size(backup) \in 0..ReadLimit)

(* The wraps of an approval that is under way are those it will take back. *)
Late == {"observe", "record", "relay", "undo"}

OnlyItsWraps(r, k) ==
    r.cmd = "approve" => \A i \in DOMAIN k : \A w \in k[i].wraps :
        w.id = r.n => r.pc \in Late /\ i \in r.appended /\ w.device = r.target

Signed == restores = 0 => \A p \in Procs : OnlyItsWraps(proc[p], ring)

Keyed == \A d \in Devices : request[d].status = "pending" => request[d].key # NoKey

KeyringInv ==
    /\ TypeOK /\ \A p \in Procs : SoundAt(p)
    /\ Numbered /\ Stored /\ Signed /\ UndoneIsGone /\ Keyed /\ RevocationFinished

LEMMA OnIs == \A p \in Procs : On(p) \in Devices
  BY KeyringAssumption DEF On

LEMMA Unmoved == ASSUME NEW S, NEW T, NEW f \in [S -> T], NEW x \in S
                 PROVE  f = [f EXCEPT ![x] = f[x]]
  OBVIOUS

(* The history keeps to the commands, and forgets none that goes on.       *)
LEMMA CrossedIs ==
    ASSUME KeyringInv, History
    PROVE  /\ crossed' \subseteq Procs
           /\ \A p \in Procs : p \in crossed /\ p \notin crossed' => proc'[p] = Idle
           /\ \A p \in Procs : p \notin crossed' /\ proc'[p] = proc[p] /\ proc[p] # Idle =>
                 key'[On(p)] = key[On(p)] /\ account'[On(p)] = account[On(p)]
  BY DEF History, DeviceChanged

(* A command that takes no step stays sound, whatever the others do.       *)
LEMMA OthersStay ==
    ASSUME KeyringInv, History, NEW q \in Procs, proc'[q] = proc[q],
           floor' \in Nat, floor' >= floor, refused \subseteq refused',
           ring # <<>> => ring' # <<>>
    PROVE  SoundAt(q)'
<1>1. /\ proc[q] \in Commands /\ account[On(q)] \in Accounts /\ floor \in Nat
      /\ Sound(proc[q], On(q), key[On(q)], account[On(q)], floor, refused, ring, q \in crossed)
  BY OnIs DEF KeyringInv, TypeOK, SoundAt
<1>2. CASE proc[q] = Idle
  BY <1>2, IdleIs DEF SoundAt
<1>3. CASE proc[q] # Idle
  <2> DEFINE x == q \in crossed
             y == q \in crossed'
             k1 == key'[On(q)]
             a1 == account'[On(q)]
  <2>1. y \/ (~x /\ k1 = key[On(q)] /\ a1 = account[On(q)])
    BY <1>3, CrossedIs
  <2>2. Sound(proc[q], On(q), key[On(q)], account[On(q)], floor, refused, ring, x)
    BY <1>1
  <2> HIDE DEF x, y, k1, a1
  <2>3. Sound(proc[q], On(q), k1, a1, floor', refused', ring', y)
    BY <1>1, <2>1, <2>2, SoundStays
  <2> QED BY <2>3 DEF SoundAt, k1, a1, y
<1> QED BY <1>2, <1>3

(* A step of one command, in its own record, device key and account.       *)
LEMMA SoundStep ==
    ASSUME KeyringInv, History, NEW p \in Procs, NEW r \in Commands,
           NEW kd \in Nat, NEW ad \in Accounts,
           proc' = [proc EXCEPT ![p] = r], key' = [key EXCEPT ![On(p)] = kd],
           account' = [account EXCEPT ![On(p)] = ad],
           floor' \in Nat, floor' >= floor, refused \subseteq refused',
           ring # <<>> => ring' # <<>>,
           Sound(r, On(p), kd, ad, floor', refused', ring', p \in crossed)
    PROVE  /\ proc' \in [Procs -> Commands] /\ key' \in [Devices -> Nat]
           /\ account' \in [Devices -> Accounts] /\ crossed' \subseteq Procs
           /\ \A q \in Procs : SoundAt(q)'
<1>1. /\ proc \in [Procs -> Commands] /\ key \in [Devices -> Nat]
      /\ account \in [Devices -> Accounts] /\ floor \in Nat
  BY DEF KeyringInv, TypeOK
<1>2. /\ proc' \in [Procs -> Commands] /\ key' \in [Devices -> Nat]
      /\ account' \in [Devices -> Accounts]
  BY <1>1
<1>3. /\ proc'[p] = r /\ key'[On(p)] = kd /\ account'[On(p)] = ad
  BY <1>1, OnIs
<1>4. SoundAt(p)'
  <2>1. CASE r = Idle
    BY <1>3, <2>1, IdleIs DEF SoundAt
  <2>2. CASE r # Idle
    <3>1. p \in crossed => p \in crossed'
      BY <1>3, <2>2, CrossedIs
    <3>2. Sound(r, On(p), kd, ad, floor', refused', ring', p \in crossed')
      BY <3>1 DEF Sound
    <3> QED BY <1>3, <3>2 DEF SoundAt
  <2> QED BY <2>1, <2>2
<1>5. ASSUME NEW q \in Procs, q # p PROVE SoundAt(q)'
  <2>1. proc'[q] = proc[q]
    BY <1>1, <1>5
  <2> QED BY <2>1, OthersStay
<1>6. crossed' \subseteq Procs
  BY CrossedIs
<1> QED BY <1>2, <1>4, <1>5, <1>6

(* The numbers, when a command goes on or ends.                            *)
LEMMA NumberedStep ==
    ASSUME KeyringInv, NEW p \in Procs, NEW r,
           proc' = [proc EXCEPT ![p] = r], started' = started, undone' = undone,
           r.cmd = "none" \/ (r.cmd = proc[p].cmd /\ r.n = proc[p].n)
    PROVE  Numbered'
<1>1. proc \in [Procs -> Commands]
  BY DEF KeyringInv, TypeOK
<1>2. \A q \in Procs : proc'[q] = IF q = p THEN r ELSE proc[q]
  BY <1>1
<1>3. \A q \in Procs : proc'[q].cmd # "none" =>
          proc[q].cmd # "none" /\ proc'[q].n = proc[q].n
  BY <1>2
<1>4. Numbered
  BY DEF KeyringInv
<1>5. undone' \subseteq 0..started'
  BY <1>4 DEF Numbered
<1>6. \A q \in Procs : proc'[q].cmd # "none" =>
          proc'[q].n \in 1..started' /\ proc'[q].n \notin undone'
  BY <1>3, <1>4 DEF Numbered
<1>7. \A q, o \in Procs : proc'[q].cmd # "none" /\ proc'[o].cmd # "none" /\ q # o =>
          proc'[q].n # proc'[o].n
  BY <1>3, <1>4 DEF Numbered
<1> QED BY <1>5, <1>6, <1>7 DEF Numbered

(* A command that goes on and keeps what it will take back, or ends.       *)
GoesOn(r, s) ==
    \/ s = Idle
    \/ Same(r, s) /\ s.appended = r.appended
       /\ (r.cmd = "approve" /\ r.pc \in Late => s.pc \in Late)

LEMMA SignedStep ==
    ASSUME KeyringInv, NEW p \in Procs, NEW r,
           proc' = [proc EXCEPT ![p] = r], ring' = ring, restores' = restores,
           GoesOn(proc[p], r)
    PROVE  Signed'
<1>1. proc \in [Procs -> Commands] /\ Signed
  BY DEF KeyringInv, TypeOK
<1>2. \A q \in Procs : proc'[q] = IF q = p THEN r ELSE proc[q]
  BY <1>1
<1>3. ASSUME restores = 0 PROVE OnlyItsWraps(r, ring)
  <2>1. OnlyItsWraps(proc[p], ring)
    BY <1>1, <1>3 DEF Signed
  <2>2. CASE r = Idle
    BY <2>2, IdleIs DEF OnlyItsWraps
  <2>3. CASE r # Idle
    BY <2>1, <2>3 DEF GoesOn, Same, OnlyItsWraps
  <2> QED BY <2>2, <2>3
<1>4. ASSUME restores = 0, NEW q \in Procs PROVE OnlyItsWraps(proc'[q], ring')
  <2>1. CASE q = p
    BY <1>2, <1>3, <1>4, <2>1
  <2>2. CASE q # p
    BY <1>1, <1>2, <1>4, <2>2 DEF Signed
  <2> QED BY <2>1, <2>2
<1> QED BY <1>4 DEF Signed

(* A step that writes no keyring.                                          *)
LEMMA Quiet ==
    ASSUME KeyringInv, History, NEW p \in Procs, NEW r \in Commands,
           NEW kd \in Nat, NEW ad \in Accounts,
           proc' = [proc EXCEPT ![p] = r], key' = [key EXCEPT ![On(p)] = kd],
           account' = [account EXCEPT ![On(p)] = ad],
           UNCHANGED <<ring, backup, restores, undone, started>>,
           floor' \in Nat, floor' >= floor, refused \subseteq refused', refused' \subseteq Devices,
           request' \in [Devices -> Requests], Keyed',
           closed' \subseteq [victim : Devices, gen : Nat], RevocationFinished',
           GoesOn(proc[p], r), Sound(r, On(p), kd, ad, floor', refused', ring, p \in crossed)
    PROVE  KeyringInv'
<1>1. /\ proc' \in [Procs -> Commands] /\ key' \in [Devices -> Nat]
      /\ account' \in [Devices -> Accounts] /\ crossed' \subseteq Procs
      /\ \A q \in Procs : SoundAt(q)'
  BY SoundStep
<1>2. TypeOK'
  BY <1>1 DEF KeyringInv, TypeOK
<1>3. Numbered'
  BY NumberedStep, IdleIs DEF GoesOn, Same
<1>4. Signed'
  BY SignedStep
<1>5. Stored' /\ UndoneIsGone'
  BY DEF KeyringInv, Stored, Real, Readable, UndoneIsGone
<1> QED BY <1>1, <1>2, <1>3, <1>4, <1>5 DEF KeyringInv

(* ... and changes nothing but what the command has in memory.             *)
LEMMA InMemory ==
    ASSUME KeyringInv, History, NEW p \in Procs, NEW r \in Commands,
           proc' = [proc EXCEPT ![p] = r],
           UNCHANGED <<ring, key, account, controlPlane, started, ghosts>>,
           GoesOn(proc[p], r), Sound(r, On(p), key[On(p)], account[On(p)], floor, refused, ring,
           p \in crossed)
    PROVE  KeyringInv'
<1>1. /\ key \in [Devices -> Nat] /\ account \in [Devices -> Accounts] /\ On(p) \in Devices
      /\ floor \in Nat /\ refused \subseteq Devices /\ request \in [Devices -> Requests]
      /\ closed \subseteq [victim : Devices, gen : Nat] /\ Keyed /\ RevocationFinished
  BY OnIs DEF KeyringInv, TypeOK
<1>2. /\ key' = [key EXCEPT ![On(p)] = key[On(p)]]
      /\ account' = [account EXCEPT ![On(p)] = account[On(p)]]
  BY <1>1, Unmoved
<1>3. Keyed' /\ RevocationFinished'
  BY <1>1 DEF Keyed, RevocationFinished, controlPlane, ghosts
<1>4. /\ UNCHANGED <<ring, backup, restores, undone, started>>
      /\ floor' = floor /\ refused' = refused /\ request' = request /\ closed' = closed
  BY DEF controlPlane, ghosts
<1>5. key[On(p)] \in Nat /\ account[On(p)] \in Accounts /\ floor' >= floor
  BY <1>1, <1>4
<1> QED BY <1>1, <1>2, <1>3, <1>4, <1>5, Quiet

(* What is known of the command that takes a step.                         *)
LEMMA Known ==
    ASSUME KeyringInv, NEW p \in Procs
    PROVE  /\ proc[p] \in Commands /\ On(p) \in Devices
           /\ key[On(p)] \in Nat /\ account[On(p)] \in Accounts
           /\ floor \in Nat /\ ring \in Seq(Generations)
           /\ Sound(proc[p], On(p), key[On(p)], account[On(p)], floor, refused, ring, p \in crossed)
           /\ proc \in [Procs -> Commands]
  BY OnIs DEF KeyringInv, TypeOK, SoundAt

(* A command that ends and changes nothing else.                           *)
LEMMA Ends ==
    ASSUME KeyringInv, History, NEW p \in Procs, Exit(p),
           UNCHANGED <<ring, key, account, controlPlane, started, ghosts>>
    PROVE  KeyringInv'
<1>1. proc' = [proc EXCEPT ![p] = Idle] /\ GoesOn(proc[p], Idle) /\ Idle \in Commands
  BY IdleIs DEF Exit, GoesOn
<1>2. Sound(Idle, On(p), key[On(p)], account[On(p)], floor, refused, ring, p \in crossed)
  BY IdleIs
<1> QED BY <1>1, <1>2, InMemory

------------------------------------------------------------------------------
(* Steps in memory.                                                        *)
LEMMA MutatedIs ==
    ASSUME NEW p \in Procs, NEW k
    PROVE  Mutated(p, k) = MutatedBy(proc[p], On(p), k)
  BY DEF Mutated, MutatedBy, Approved, Recovered

LEMMA ConfirmKeeps ==
    ASSUME KeyringInv, History, NEW p \in Procs, Confirm(p)
    PROVE  KeyringInv'
<1> DEFINE r == proc[p]
           d == On(p)
           fl == KeyGenerationFloor(d)
           higher == account[d] # NoAccount /\ fl > account[d].confirmed
           record == IF higher THEN [account[d] EXCEPT !.confirmed = fl] ELSE NoAccount
           pc == IF higher THEN "remember" ELSE AfterConfirm(p)
           s == Confirmed(r, fl, account[d], record, pc)
<1>1. /\ r \in Commands /\ d \in Devices /\ key[d] \in Nat /\ account[d] \in Accounts
      /\ floor \in Nat /\ Sound(r, d, key[d], account[d], floor, refused, ring, p \in crossed)
      /\ proc \in [Procs -> Commands] /\ r.pc = "confirm"
  BY Known DEF Confirm
<1>2. proc' = [proc EXCEPT ![p] = s] /\ UNCHANGED <<ring, key, account, controlPlane, started, ghosts>>
  BY <1>1 DEF Confirm, Confirmed
<1>3. fl \in Nat /\ (CarriesFloor => fl = floor)
  BY <1>1, KeyringAssumption DEF KeyGenerationFloor, Accounts
<1>4. record \in Accounts /\ (higher => record.gen = account[d].gen)
  BY <1>1, <1>3 DEF Accounts, NoAccount
<1>5. r.cmd \in {"recover", "join", "approve", "revoke", "use"}
  <2>1. r.pc \in FlowOf(r.cmd) /\ r.cmd \in AllKinds \cup {"none"}
    BY <1>1, KeyringAssumption DEF Sound, Flow, Commands
  <2> QED BY <1>1, <2>1 DEF FlowOf, AllKinds
<1>6. /\ pc = IF higher THEN "remember"
              ELSE CASE r.cmd = "recover" -> "decide" [] r.cmd = "join" -> "verify"
                     [] r.cmd = "use" -> "trust" [] OTHER -> "load"
      /\ pc \in Stages
  BY <1>5 DEF AfterConfirm, Stages
<1> HIDE DEF record
<1>7. /\ SameCommand(r, s) /\ s.pc = pc /\ s.ring = r.ring /\ s.appended = r.appended
      /\ s.floor = fl /\ s.anchor = account[d] /\ s.record = record
  BY <1>1, <1>3, <1>4, <1>6, BecomesConfirmed
<1> HIDE DEF s
<1>8. GoesOn(r, s)
  BY <1>1, <1>7 DEF GoesOn, Late, SameCommand
<1>9. Flow(s)
  BY <1>5, <1>6, <1>7 DEF Flow, FlowOf, SameCommand, Same
<1>10. Equipped(s)
  BY <1>1, <1>5, <1>6, <1>7 DEF Sound, Equipped, SameCommand, Same
<1>11. HasRing(s, ring)
  BY <1>1, <1>5, <1>6, <1>7 DEF Sound, HasRing, SameCommand, Same
<1>12. Prepared(s, d) /\ Reported(s, floor, refused)
  BY <1>5, <1>6, <1>7 DEF Prepared, Reported
<1>13. p \in crossed \/ Fits(s, key[d], account[d], floor)
  <2> SUFFICES ASSUME p \notin crossed PROVE Fits(s, key[d], account[d], floor)
    OBVIOUS
  <2>0. KeyThere(r, key[d]) /\ Unrecorded(r, account[d]) /\ Bounded(r, account[d], floor)
    BY <1>1 DEF Sound, Fits
  <2>1. s.pc \in {"decide", "verify", "trust", "remember", "load"} /\ (s.pc = "remember" => higher)
    BY <1>5, <1>6, <1>7
  <2>2. CarriesFloor => \A g \in s.since : g <= account[d].gen \/ g <= s.floor
    BY <1>1, <1>3, <1>7, <2>0 DEF Bounded, Before, SameCommand, Same
  <2>3. Bounded(s, account[d], floor)
    BY <1>4, <1>7, <2>1, <2>2 DEF Bounded, Before, Checking, Checked, Acting
  <2>4. KeyThere(s, key[d])
    BY <1>1, <1>5, <1>6, <1>7, <2>0 DEF KeyThere, SameCommand, Same
  <2>5. Unrecorded(s, account[d])
    BY <1>1, <1>5, <1>6, <1>7, <2>0 DEF Unrecorded, SameCommand, Same
  <2> QED BY <2>3, <2>4, <2>5 DEF Fits
<1>14. Sound(s, d, key[d], account[d], floor, refused, ring, p \in crossed)
  BY <1>9, <1>10, <1>11, <1>12, <1>13 DEF Sound
<1> QED BY <1>2, <1>7, <1>8, <1>14, InMemory DEF SameCommand, Same

(* The check of a keyring reaches what the device must not fall below.     *)
LEMMA CheckReaches ==
    ASSUME NEW r \in Commands, NEW ad \in Accounts, NEW fl \in Nat, Bounded(r, ad, fl),
           r.pc \in Checking, NEW k \in Seq(Generations),
           NEW a \in Accounts, a.gen = ad.gen, Check(k, a, r.floor)
    PROVE  /\ Len(k) >= r.anchor.gen
           /\ CarriesFloor => \A g \in r.since : Len(k) >= g
<1>1. /\ r.since \subseteq Nat /\ r.floor \in Nat /\ a.gen \in Nat /\ Len(k) \in Nat
  BY RingIs DEF Commands, Accounts
<1>2. Len(k) >= r.floor /\ Len(k) >= ad.gen
  BY <1>1 DEF Check
<1>3. r.anchor.gen = ad.gen
  BY DEF Bounded
<1>4. CarriesFloor => \A g \in r.since : g <= ad.gen \/ g <= r.floor
  BY DEF Bounded
<1> QED BY <1>1, <1>2, <1>3, <1>4

(* What the closure of an Update accepts was checked.                      *)
LEMMA AcceptsIs ==
    ASSUME KeyringInv, NEW p \in Procs, proc[p].pc = "load", Accepts(p, ring)
    PROVE  /\ ring # <<>>
           /\ p \notin crossed =>
                 /\ Len(ring) >= proc[p].anchor.gen
                 /\ CarriesFloor => \A g \in proc[p].since : Len(ring) >= g
           /\ proc[p].cmd \in {"recover", "approve", "revoke"}
           /\ proc[p].cmd = "recover" => ~HasDevice(ring, On(p))
<1> DEFINE r == proc[p]
           d == On(p)
<1>1. /\ r \in Commands /\ d \in Devices /\ key[d] \in Nat /\ account[d] \in Accounts
      /\ floor \in Nat /\ Sound(r, d, key[d], account[d], floor, refused, ring, p \in crossed)
      /\ ring \in Seq(Generations)
  BY Known
<1>2. r.cmd \in {"recover", "approve", "revoke"}
  <2>1. r.pc \in FlowOf(r.cmd) /\ r.cmd \in AllKinds \cup {"none"}
    BY <1>1, KeyringAssumption DEF Sound, Flow, Commands
  <2> QED BY <2>1 DEF FlowOf, AllKinds
<1>3. /\ r.pc \in Checking /\ r.anchor \in Accounts
      /\ p \notin crossed => Bounded(r, account[d], floor) /\ r.anchor.gen = account[d].gen
  BY <1>1 DEF Sound, Fits, Bounded, Checking, Commands
<1>4. CASE r.cmd = "recover"
  <2>1. ring # <<>> /\ (p \notin crossed => account[d] = NoAccount)
    BY <1>1, <1>4 DEF Sound, HasRing, Fits, Unrecorded
  <2>2. Check(ring, NoAccount, r.floor) /\ ~HasDevice(ring, d)
    BY <1>4 DEF Accepts, RecoverAccepts
  <2> QED BY <1>1, <1>2, <1>3, <2>1, <2>2, CheckReaches
<1>5. CASE r.cmd # "recover"
  <2>1. Trust(p, ring)
    BY <1>2, <1>5 DEF Accepts, ApproveAccepts, RevokeAccepts
  <2>2. Check(ring, r.anchor, r.floor) /\ ring # <<>>
    <3>1. Len(ring) \in DOMAIN ring
      BY <2>1 DEF Trust, CanUnwrap, UnwrapGenerations
    <3> QED BY <2>1, <3>1, <1>1, RingIs DEF Trust
  <2> QED BY <1>1, <1>2, <1>3, <1>5, <2>2, CheckReaches
<1> QED BY <1>4, <1>5

LEMMA LoadKeeps ==
    ASSUME KeyringInv, History, NEW p \in Procs, Load(p)
    PROVE  KeyringInv'
<1> DEFINE r == proc[p]
           d == On(p)
           s == Loaded(r, ring, "put")
<1>1. /\ r \in Commands /\ d \in Devices /\ key[d] \in Nat /\ account[d] \in Accounts
      /\ floor \in Nat /\ Sound(r, d, key[d], account[d], floor, refused, ring, p \in crossed)
      /\ ring \in Seq(Generations) /\ proc \in [Procs -> Commands] /\ r.pc = "load"
  BY Known DEF Load
<1>2. proc' = [proc EXCEPT ![p] = s] /\ UNCHANGED <<ring, key, account, controlPlane, started, ghosts>>
  BY <1>1 DEF Load, Loaded
<1>3. /\ ring # <<>>
      /\ p \notin crossed =>
            /\ Len(ring) >= r.anchor.gen
            /\ CarriesFloor => \A g \in r.since : Len(ring) >= g
      /\ r.cmd \in {"recover", "approve", "revoke"}
      /\ r.cmd = "recover" => ~HasDevice(ring, d)
  BY <1>1, AcceptsIs DEF Load
<1>4. Writable(MutatedBy(r, d, ring))
  BY MutatedIs DEF Load
<1>5. SameTrust(r, s) /\ s.pc = "put" /\ s.ring = ring /\ s.appended = r.appended
  <2>1. "put" \in Stages
    BY <1>1 DEF Stages
  <2> QED BY <1>1, <2>1, BecomesLoaded
<1> HIDE DEF s
<1>6. GoesOn(r, s)
  BY <1>1, <1>5 DEF GoesOn, Late, SameTrust, SameCommand
<1>7. Flow(s) /\ Equipped(s) /\ HasRing(s, ring)
  BY <1>1, <1>3, <1>5 DEF Flow, FlowOf, Sound, Equipped, HasRing, SameTrust, SameCommand, Same
<1>8. Prepared(s, d) /\ Reported(s, floor, refused)
  <2>1. MutatedBy(s, d, ring) = MutatedBy(r, d, ring)
    BY <1>5 DEF MutatedBy, SameTrust, SameCommand, Same
  <2> QED BY <1>3, <1>4, <1>5, <2>1 DEF Prepared, Reported, SameTrust, SameCommand, Same
<1>9. p \in crossed \/ Fits(s, key[d], account[d], floor)
  <2> SUFFICES ASSUME p \notin crossed PROVE Fits(s, key[d], account[d], floor)
    OBVIOUS
  <2>0. KeyThere(r, key[d]) /\ Unrecorded(r, account[d]) /\ Bounded(r, account[d], floor)
    BY <1>1 DEF Sound, Fits
  <2>1. CarriesFloor => \A g \in s.since : g <= account[d].gen \/ g <= s.floor
    BY <1>1, <1>5, <2>0 DEF Bounded, Checking, SameTrust, SameCommand, Same
  <2>2. s.anchor.gen = account[d].gen
    BY <1>1, <1>5, <2>0 DEF Bounded, Checking, SameTrust
  <2>3. Reaches(s)
    BY <1>3, <1>5 DEF Reaches, SameTrust, SameCommand, Same
  <2>4. Bounded(s, account[d], floor)
    BY <1>5, <2>1, <2>2, <2>3 DEF Bounded, Before
  <2>5. KeyThere(s, key[d]) /\ Unrecorded(s, account[d])
    BY <1>1, <1>5, <2>0 DEF KeyThere, Unrecorded, SameTrust, SameCommand, Same
  <2> QED BY <2>4, <2>5 DEF Fits
<1>10. Sound(s, d, key[d], account[d], floor, refused, ring, p \in crossed)
  BY <1>7, <1>8, <1>9 DEF Sound
<1> QED BY <1>2, <1>5, <1>6, <1>10, InMemory DEF SameTrust, SameCommand, Same

LEMMA LoadAlreadyKeeps ==
    ASSUME KeyringInv, History, NEW p \in Procs, LoadAlready(p)
    PROVE  KeyringInv'
<1> DEFINE r == proc[p]
           d == On(p)
           s == Went(r, "reload")
<1>1. /\ r \in Commands /\ d \in Devices /\ key[d] \in Nat /\ account[d] \in Accounts
      /\ floor \in Nat /\ Sound(r, d, key[d], account[d], floor, refused, ring, p \in crossed)
      /\ ring \in Seq(Generations) /\ proc \in [Procs -> Commands] /\ r.pc = "load"
  BY Known DEF LoadAlready
<1>2. proc' = [proc EXCEPT ![p] = s] /\ UNCHANGED <<ring, key, account, controlPlane, started, ghosts>>
  BY <1>1 DEF LoadAlready, Goto, Went
<1>3. ring # <<>> /\ r.cmd = "revoke"
  <2>1. r.cmd = "revoke" /\ Trust(p, ring)
    BY DEF LoadAlready, AlreadyRevoked
  <2>2. Len(ring) \in DOMAIN ring
    BY <2>1 DEF Trust, CanUnwrap, UnwrapGenerations
  <2> QED BY <1>1, <2>1, <2>2, RingIs
<1>4. /\ SameTrust(r, s) /\ s.pc = "reload" /\ s.ring = r.ring /\ s.appended = r.appended
  BY <1>1, BecomesWent DEF Stages
<1> HIDE DEF s
<1>5. GoesOn(r, s)
  BY <1>1, <1>4 DEF GoesOn, Late, SameTrust, SameCommand
<1>6. Flow(s) /\ Equipped(s) /\ HasRing(s, ring)
  BY <1>1, <1>3, <1>4 DEF Flow, FlowOf, Sound, Equipped, HasRing, SameTrust, SameCommand, Same
<1>7. Prepared(s, d) /\ Reported(s, floor, refused)
  BY <1>4 DEF Prepared, Reported
<1>8. p \in crossed \/ Fits(s, key[d], account[d], floor)
  BY <1>1, <1>4 DEF Sound, Fits, KeyThere, Unrecorded, Bounded, Before, Checking, Checked,
     Acting, SameTrust, SameCommand, Same
<1>9. Sound(s, d, key[d], account[d], floor, refused, ring, p \in crossed)
  BY <1>6, <1>7, <1>8 DEF Sound
<1> QED BY <1>2, <1>4, <1>5, <1>9, InMemory DEF SameTrust, SameCommand, Same

LEMMA ReloadKeeps ==
    ASSUME KeyringInv, History, NEW p \in Procs, Reload(p)
    PROVE  KeyringInv'
<1> DEFINE r == proc[p]
           d == On(p)
           s == Loaded(r, ring, "observe")
<1>1. /\ r \in Commands /\ d \in Devices /\ key[d] \in Nat /\ account[d] \in Accounts
      /\ floor \in Nat /\ Sound(r, d, key[d], account[d], floor, refused, ring, p \in crossed)
      /\ ring \in Seq(Generations) /\ proc \in [Procs -> Commands] /\ r.pc = "reload"
  BY Known DEF Reload
<1>2. proc' = [proc EXCEPT ![p] = s] /\ UNCHANGED <<ring, key, account, controlPlane, started, ghosts>>
  BY <1>1 DEF Reload, Loaded
<1>3. ring # <<>> /\ r.cmd = "revoke"
  <2>1. r.pc \in FlowOf(r.cmd) /\ r.cmd \in AllKinds \cup {"none"}
    BY <1>1, KeyringAssumption DEF Sound, Flow, Commands
  <2> QED BY <1>1, <2>1 DEF FlowOf, AllKinds, Sound, HasRing
<1>4. SameTrust(r, s) /\ s.pc = "observe" /\ s.ring = ring /\ s.appended = r.appended
  <2>1. "observe" \in Stages
    BY <1>1 DEF Stages
  <2> QED BY <1>1, <2>1, BecomesLoaded
<1> HIDE DEF s
<1>5. GoesOn(r, s)
  BY <1>1, <1>4 DEF GoesOn, Late, SameTrust, SameCommand
<1>6. Flow(s) /\ Equipped(s) /\ HasRing(s, ring)
  BY <1>1, <1>3, <1>4 DEF Flow, FlowOf, Sound, Equipped, HasRing, SameTrust, SameCommand, Same
<1>7. Prepared(s, d) /\ Reported(s, floor, refused)
  BY <1>4 DEF Prepared, Reported
<1>8. p \in crossed \/ Fits(s, key[d], account[d], floor)
  BY <1>1, <1>4 DEF Sound, Fits, KeyThere, Unrecorded, Bounded, Before, Checking, Checked,
     Acting, SameTrust, SameCommand, Same
<1>9. Sound(s, d, key[d], account[d], floor, refused, ring, p \in crossed)
  BY <1>6, <1>7, <1>8 DEF Sound
<1> QED BY <1>2, <1>4, <1>5, <1>9, InMemory DEF SameTrust, SameCommand, Same

LEMMA PutConflictKeeps ==
    ASSUME KeyringInv, History, NEW p \in Procs, PutConflict(p)
    PROVE  KeyringInv'
<1> DEFINE r == proc[p]
           d == On(p)
           s == Retried(r, <<>>, "load")
<1>1. /\ r \in Commands /\ d \in Devices /\ key[d] \in Nat /\ account[d] \in Accounts
      /\ floor \in Nat /\ Sound(r, d, key[d], account[d], floor, refused, ring, p \in crossed)
      /\ ring \in Seq(Generations) /\ proc \in [Procs -> Commands] /\ r.pc = "put" /\ r.tries + 1 < MaxUpdateRetries
  BY Known DEF PutConflict
<1>2. proc' = [proc EXCEPT ![p] = s] /\ UNCHANGED <<ring, key, account, controlPlane, started, ghosts>>
  BY <1>1 DEF PutConflict, Retried
<1>3. SameTrust(r, s) /\ s.pc = "load" /\ s.ring = <<>> /\ s.appended = r.appended
  <2> DEFINE none == <<>>
  <2>1. "load" \in Stages /\ r.appended \in SUBSET Nat /\ none \in Seq(Generations)
    BY <1>1, EmptySeq DEF Stages, Commands
  <2>2. s = Retried(r, none, "load")
    OBVIOUS
  <2> HIDE DEF none, s
  <2>3. SameTrust(r, s) /\ s.pc = "load" /\ s.ring = none /\ s.appended = r.appended
    BY <1>1, <2>1, <2>2, BecomesRetried
  <2> QED BY <2>3 DEF none
<1> HIDE DEF s
<1>4. r.cmd \in {"recover", "approve", "revoke"}
  <2>1. r.pc \in FlowOf(r.cmd) /\ r.cmd \in AllKinds \cup {"none"}
    BY <1>1, KeyringAssumption DEF Sound, Flow, Commands
  <2> QED BY <1>1, <2>1 DEF FlowOf, AllKinds
<1>5. GoesOn(r, s)
  BY <1>1, <1>3 DEF GoesOn, Late, SameTrust, SameCommand
<1>6. Flow(s) /\ Equipped(s) /\ HasRing(s, ring)
  BY <1>1, <1>3, <1>4 DEF Flow, FlowOf, Sound, Equipped, HasRing, SameTrust, SameCommand, Same
<1>7. Prepared(s, d) /\ Reported(s, floor, refused)
  BY <1>3 DEF Prepared, Reported
<1>8. p \in crossed \/ Fits(s, key[d], account[d], floor)
  BY <1>1, <1>3 DEF Sound, Fits, KeyThere, Unrecorded, Bounded, Before, Checking, Checked,
     Acting, SameTrust, SameCommand, Same
<1>9. Sound(s, d, key[d], account[d], floor, refused, ring, p \in crossed)
  BY <1>6, <1>7, <1>8 DEF Sound
<1> QED BY <1>2, <1>3, <1>5, <1>9, InMemory DEF SameTrust, SameCommand, Same

LEMMA TrustUseKeeps ==
    ASSUME KeyringInv, History, NEW p \in Procs, TrustUse(p)
    PROVE  KeyringInv'
<1> DEFINE r == proc[p]
           d == On(p)
           s == Went(r, "observe")
<1>1. /\ r \in Commands /\ d \in Devices /\ key[d] \in Nat /\ account[d] \in Accounts
      /\ floor \in Nat /\ Sound(r, d, key[d], account[d], floor, refused, ring, p \in crossed)
      /\ ring \in Seq(Generations) /\ proc \in [Procs -> Commands] /\ r.pc = "trust"
  BY Known DEF TrustUse
<1>2. proc' = [proc EXCEPT ![p] = s] /\ UNCHANGED <<ring, key, account, controlPlane, started, ghosts>>
  BY <1>1 DEF TrustUse, Goto, Went
<1>3. r.cmd = "use"
  <2>1. r.pc \in FlowOf(r.cmd) /\ r.cmd \in AllKinds \cup {"none"}
    BY <1>1, KeyringAssumption DEF Sound, Flow, Commands
  <2> QED BY <1>1, <2>1 DEF FlowOf, AllKinds
<1>4. /\ SameTrust(r, s) /\ s.pc = "observe" /\ s.ring = r.ring /\ s.appended = r.appended
  BY <1>1, BecomesWent DEF Stages
<1> HIDE DEF s
<1>5. GoesOn(r, s)
  BY <1>1, <1>4 DEF GoesOn, Late, SameTrust, SameCommand
<1>6. Flow(s) /\ Equipped(s) /\ HasRing(s, ring)
  BY <1>1, <1>3, <1>4 DEF Flow, FlowOf, Sound, Equipped, HasRing, SameTrust, SameCommand, Same
<1>7. Prepared(s, d) /\ Reported(s, floor, refused)
  BY <1>4 DEF Prepared, Reported
<1>8. p \in crossed \/ Fits(s, key[d], account[d], floor)
  BY <1>1, <1>4 DEF Sound, Fits, KeyThere, Unrecorded, Bounded, Before, Checking, Checked,
     Acting, SameTrust, SameCommand, Same
<1>9. Sound(s, d, key[d], account[d], floor, refused, ring, p \in crossed)
  BY <1>6, <1>7, <1>8 DEF Sound
<1> QED BY <1>2, <1>4, <1>5, <1>9, InMemory DEF SameTrust, SameCommand, Same

LEMMA ObserveKeeps ==
    ASSUME KeyringInv, History, NEW p \in Procs, Observe(p)
    PROVE  KeyringInv'
<1> DEFINE r == proc[p]
           d == On(p)
           mine == account[d]
           moved == mine.gen # Len(r.ring) \/ mine.root # Current(r.ring).root
           record == IF moved THEN [mine EXCEPT !.gen = Len(r.ring), !.root = Current(r.ring).root]
                     ELSE NoAccount
           pc == IF moved THEN "record" ELSE AfterObserve(p)
           s == Noted(r, record, pc)
<1>1. /\ r \in Commands /\ d \in Devices /\ key[d] \in Nat /\ account[d] \in Accounts
      /\ floor \in Nat /\ Sound(r, d, key[d], account[d], floor, refused, ring, p \in crossed)
      /\ ring \in Seq(Generations) /\ proc \in [Procs -> Commands] /\ r.pc = "observe"
  BY Known DEF Observe
<1>2. /\ proc' = [proc EXCEPT ![p] = s] /\ UNCHANGED <<ring, key, account, controlPlane, started, ghosts>>
      /\ Check(r.ring, mine, r.floor)
  BY <1>1 DEF Observe, Noted
<1>3. r.cmd \in {"approve", "revoke", "use"}
  <2>1. r.pc \in FlowOf(r.cmd) /\ r.cmd \in AllKinds \cup {"none"}
    BY <1>1, KeyringAssumption DEF Sound, Flow, Commands
  <2> QED BY <1>1, <2>1 DEF FlowOf, AllKinds
<1>4. /\ pc = IF moved THEN "record" ELSE CASE r.cmd = "approve" -> "relay"
                                            [] r.cmd = "revoke" -> "tell" [] OTHER -> "done"
      /\ pc \in Stages
  BY <1>3 DEF AfterObserve, Stages
<1>5. r.ring # <<>> /\ r.ring \in Seq(Generations)
  BY <1>1 DEF Sound, HasRing, Commands
<1>6. record \in Accounts
  <2>1. Len(r.ring) \in Nat /\ Current(r.ring).root \in Nat
    BY <1>5, RingIs DEF Generations
  <2>2. NoAccount \in Accounts
    BY DEF NoAccount, Accounts
  <2> QED BY <1>1, <2>1, <2>2 DEF Accounts
<1> HIDE DEF record, moved
<1>7. SameTrust(r, s) /\ s.pc = pc /\ s.ring = r.ring /\ s.appended = r.appended
  BY <1>1, <1>4, <1>6, BecomesNoted
<1> HIDE DEF s
<1>8. GoesOn(r, s)
  <2>1. r.cmd = "approve" => pc \in Late
    BY <1>4 DEF Late
  <2> QED BY <1>1, <1>3, <1>4, <1>7, <2>1 DEF GoesOn, SameTrust, SameCommand
<1>9. Flow(s) /\ Equipped(s) /\ HasRing(s, ring)
  BY <1>1, <1>3, <1>4, <1>5, <1>7 DEF Flow, FlowOf, Sound, Equipped, HasRing, SameTrust,
     SameCommand, Same
<1>10. Prepared(s, d) /\ Reported(s, floor, refused)
  BY <1>3, <1>4, <1>7 DEF Prepared, Reported
<1>11. p \in crossed \/ Fits(s, key[d], account[d], floor)
  <2> SUFFICES ASSUME p \notin crossed PROVE Fits(s, key[d], account[d], floor)
    OBVIOUS
  <2>0. KeyThere(r, key[d]) /\ Unrecorded(r, account[d]) /\ Bounded(r, account[d], floor)
    BY <1>1 DEF Sound, Fits
  <2>1. /\ Len(r.ring) >= r.anchor.gen
        /\ CarriesFloor => \A g \in r.since : Len(r.ring) >= g
    BY <1>1, <1>2, <1>5, <2>0, CheckReaches DEF Checking
  <2>2. Reaches(s)
    BY <1>7, <2>1 DEF Reaches, SameTrust, SameCommand, Same
  <2>3. Bounded(s, account[d], floor)
    BY <1>3, <1>4, <1>7, <2>2 DEF Bounded, Before, Checking
  <2>4. KeyThere(s, key[d]) /\ Unrecorded(s, account[d])
    BY <1>3, <1>7 DEF KeyThere, Unrecorded, SameTrust, SameCommand, Same
  <2> QED BY <2>3, <2>4 DEF Fits
<1>12. Sound(s, d, key[d], account[d], floor, refused, ring, p \in crossed)
  BY <1>9, <1>10, <1>11 DEF Sound
<1> QED BY <1>2, <1>7, <1>8, <1>12, InMemory DEF SameTrust, SameCommand, Same

(* Which command is at a stage.                                            *)
LEMMA CommandAt ==
    ASSUME KeyringInv, NEW p \in Procs
    PROVE  /\ proc[p].pc = "idle" <=> proc[p].cmd = "none"
           /\ proc[p].pc \in {"secret", "create"} => proc[p].cmd = "init"
           /\ proc[p].pc = "store" => proc[p].cmd \in {"init", "join"}
           /\ proc[p].pc \in {"request", "wait", "verify"} => proc[p].cmd = "join"
           /\ proc[p].pc \in {"decide", "rekey"} => proc[p].cmd = "recover"
           /\ proc[p].pc \in {"load", "put"} => proc[p].cmd \in {"recover", "approve", "revoke"}
           /\ proc[p].pc \in {"observe", "record"} => proc[p].cmd \in {"approve", "revoke", "use"}
           /\ proc[p].pc = "remember" =>
                 proc[p].cmd \in {"recover", "join", "approve", "revoke", "use"}
           /\ proc[p].pc \in {"relay", "undo"} => proc[p].cmd = "approve"
           /\ proc[p].pc \in {"tell", "raise", "close", "reload"} => proc[p].cmd = "revoke"
           /\ proc[p].pc \in {"trust", "done"} => proc[p].cmd = "use"
           /\ proc[p].pc \in {"enrol", "keepFloor"} => proc[p].cmd \in {"init", "recover", "join"}
<1>1. proc[p].pc \in FlowOf(proc[p].cmd) /\ proc[p].cmd \in AllKinds \cup {"none"}
  BY Known, KeyringAssumption DEF Sound, Flow, Commands
<1> DEFINE c == proc[p].cmd
<1>2. CASE c \in {"none", "init", "join"}
  BY <1>1, <1>2 DEF FlowOf
<1>3. CASE c \in {"recover", "approve"}
  BY <1>1, <1>3 DEF FlowOf
<1>4. CASE c \in {"revoke", "use"}
  BY <1>1, <1>4 DEF FlowOf
<1> QED BY <1>1, <1>2, <1>3, <1>4 DEF AllKinds

LEMMA NumberIs ==
    ASSUME KeyringInv, NEW p \in Procs, proc[p].cmd # "none"
    PROVE  /\ proc[p].n \in Nat \ {0} /\ proc[p].n \in 1..started /\ started \in Nat
           /\ proc[p].n \notin undone
  BY DEF KeyringInv, Numbered, TypeOK

LEMMA RelayRefusedKeeps ==
    ASSUME KeyringInv, History, NEW p \in Procs, RelayRefused(p)
    PROVE  KeyringInv'
<1> DEFINE r == proc[p]
           d == On(p)
           s == Loaded(r, ring, "undo")
<1>1. /\ r \in Commands /\ d \in Devices /\ key[d] \in Nat /\ account[d] \in Accounts
      /\ floor \in Nat /\ Sound(r, d, key[d], account[d], floor, refused, ring, p \in crossed)
      /\ ring \in Seq(Generations) /\ proc \in [Procs -> Commands] /\ r.pc = "relay"
  BY Known DEF RelayRefused
<1>2. proc' = [proc EXCEPT ![p] = s] /\ UNCHANGED <<ring, key, account, controlPlane, started, ghosts>>
  BY <1>1 DEF RelayRefused, Loaded
<1>3. SameTrust(r, s) /\ s.pc = "undo" /\ s.ring = ring /\ s.appended = r.appended
  BY <1>1, BecomesLoaded DEF Stages
<1>4. r.cmd = "approve"
  BY <1>1, CommandAt
<1> HIDE DEF s
<1>5. GoesOn(r, s)
  BY <1>1, <1>3 DEF GoesOn, Late, SameTrust, SameCommand
<1>6. Flow(s) /\ Equipped(s) /\ HasRing(s, ring)
  BY <1>1, <1>3, <1>4 DEF Flow, FlowOf, Sound, Equipped, HasRing, SameTrust, SameCommand, Same
<1>7. Prepared(s, d) /\ Reported(s, floor, refused) /\ Fits(s, key[d], account[d], floor)
  BY <1>3, <1>4 DEF Prepared, Reported, Fits, KeyThere, Unrecorded, Bounded, Before, Checking,
     Checked, Acting, SameTrust, SameCommand, Same
<1>8. Sound(s, d, key[d], account[d], floor, refused, ring, p \in crossed)
  BY <1>6, <1>7 DEF Sound
<1> QED BY <1>2, <1>3, <1>5, <1>8, InMemory DEF SameTrust, SameCommand, Same

Reread(r, k) == [r EXCEPT !.tries = @ + 1, !.ring = k]

LEMMA BecomesReread ==
    ASSUME NEW r \in Commands, NEW k \in Seq(Generations), r.tries + 1 < MaxUpdateRetries
    PROVE  /\ SameTrust(r, Reread(r, k)) /\ Reread(r, k).pc = r.pc
           /\ Reread(r, k).ring = k /\ Reread(r, k).appended = r.appended
<1>1. MaxUpdateRetries \in Nat /\ r.tries \in 0..(MaxUpdateRetries - 1)
  BY KeyringAssumption DEF Commands
<1>2. r.tries + 1 \in 0..(MaxUpdateRetries - 1)
  BY <1>1
<1> QED BY <1>2 DEF Commands, Reread, Same, SameCommand, SameTrust

LEMMA UndoConflictKeeps ==
    ASSUME KeyringInv, History, NEW p \in Procs, UndoConflict(p)
    PROVE  KeyringInv'
<1> DEFINE r == proc[p]
           d == On(p)
           s == Reread(r, ring)
<1>1. /\ r \in Commands /\ d \in Devices /\ key[d] \in Nat /\ account[d] \in Accounts
      /\ floor \in Nat /\ Sound(r, d, key[d], account[d], floor, refused, ring, p \in crossed)
      /\ ring \in Seq(Generations) /\ proc \in [Procs -> Commands] /\ r.pc = "undo" /\ r.tries + 1 < MaxUpdateRetries
  BY Known DEF UndoConflict
<1>2. proc' = [proc EXCEPT ![p] = s] /\ UNCHANGED <<ring, key, account, controlPlane, started, ghosts>>
  BY <1>1 DEF UndoConflict, Reread
<1>3. SameTrust(r, s) /\ s.pc = "undo" /\ s.ring = ring /\ s.appended = r.appended
  BY <1>1, BecomesReread
<1>4. r.cmd = "approve"
  BY <1>1, CommandAt
<1> HIDE DEF s
<1>5. GoesOn(r, s)
  BY <1>1, <1>3 DEF GoesOn, Late, SameTrust, SameCommand
<1>6. Flow(s) /\ Equipped(s) /\ HasRing(s, ring)
  BY <1>1, <1>3, <1>4 DEF Flow, FlowOf, Sound, Equipped, HasRing, SameTrust, SameCommand, Same
<1>7. Prepared(s, d) /\ Reported(s, floor, refused) /\ Fits(s, key[d], account[d], floor)
  BY <1>3, <1>4 DEF Prepared, Reported, Fits, KeyThere, Unrecorded, Bounded, Before, Checking,
     Checked, Acting, SameTrust, SameCommand, Same
<1>8. Sound(s, d, key[d], account[d], floor, refused, ring, p \in crossed)
  BY <1>6, <1>7 DEF Sound
<1> QED BY <1>2, <1>3, <1>5, <1>8, InMemory DEF SameTrust, SameCommand, Same

LEMMA VerifyJoinedKeeps ==
    ASSUME KeyringInv, History, NEW p \in Procs, VerifyJoined(p)
    PROVE  KeyringInv'
<1> DEFINE r == proc[p]
           d == On(p)
           s == Loaded(r, ring, "enrol")
<1>1. /\ r \in Commands /\ d \in Devices /\ key[d] \in Nat /\ account[d] \in Accounts
      /\ floor \in Nat /\ Sound(r, d, key[d], account[d], floor, refused, ring, p \in crossed)
      /\ ring \in Seq(Generations) /\ proc \in [Procs -> Commands] /\ r.pc = "verify"
  BY Known DEF VerifyJoined
<1>2. proc' = [proc EXCEPT ![p] = s] /\ UNCHANGED <<ring, key, account, controlPlane, started, ghosts>>
  BY <1>1 DEF VerifyJoined, Loaded
<1>3. SameTrust(r, s) /\ s.pc = "enrol" /\ s.ring = ring /\ s.appended = r.appended
  BY <1>1, BecomesLoaded DEF Stages
<1>4. r.cmd = "join"
  BY <1>1, CommandAt
<1>5. Check(ring, r.anchor, r.floor) /\ CanUnwrap(ring, d, r.mine) /\ ring # <<>>
  <2>1. Trust(p, ring)
    BY DEF VerifyJoined
  <2>2. Len(ring) \in DOMAIN ring
    BY <2>1 DEF Trust, CanUnwrap, UnwrapGenerations
  <2> QED BY <1>1, <2>1, <2>2, RingIs DEF Trust
<1> HIDE DEF s
<1>6. GoesOn(r, s)
  BY <1>1, <1>3 DEF GoesOn, Late, SameTrust, SameCommand
<1>7. Flow(s) /\ Equipped(s) /\ HasRing(s, ring)
  BY <1>1, <1>3, <1>4, <1>5 DEF Flow, FlowOf, Sound, Equipped, HasRing, SameTrust, SameCommand, Same
<1>8. Prepared(s, d) /\ Reported(s, floor, refused)
  BY <1>3, <1>5 DEF Prepared, Reported, SameTrust, SameCommand
<1>9. p \in crossed \/ Fits(s, key[d], account[d], floor)
  <2> SUFFICES ASSUME p \notin crossed PROVE Fits(s, key[d], account[d], floor)
    OBVIOUS
  <2>0. KeyThere(r, key[d]) /\ Unrecorded(r, account[d]) /\ Bounded(r, account[d], floor)
    BY <1>1 DEF Sound, Fits
  <2>1. r.pc \in Checking /\ r.anchor.gen = account[d].gen /\ r.anchor \in Accounts
    BY <1>1, <2>0 DEF Bounded, Checking, Commands
  <2>2. /\ Len(ring) >= r.anchor.gen
        /\ CarriesFloor => \A g \in r.since : Len(ring) >= g
    BY <1>1, <1>5, <2>0, <2>1, CheckReaches
  <2>3. Reaches(s)
    BY <1>3, <2>2 DEF Reaches, SameTrust, SameCommand, Same
  <2>4. Bounded(s, account[d], floor)
    BY <1>3, <2>3 DEF Bounded, Before, Checking
  <2>5. KeyThere(s, key[d]) /\ Unrecorded(s, account[d])
    BY <1>1, <1>3, <1>4, <2>0 DEF KeyThere, Unrecorded, SameTrust, SameCommand, Same
  <2> QED BY <2>4, <2>5 DEF Fits
<1>10. Sound(s, d, key[d], account[d], floor, refused, ring, p \in crossed)
  BY <1>7, <1>8, <1>9 DEF Sound
<1> QED BY <1>2, <1>3, <1>6, <1>10, InMemory DEF SameTrust, SameCommand, Same

(* A step that changes what is in memory, in the device key or the record. *)
LEMMA OnDevice ==
    ASSUME KeyringInv, History, NEW p \in Procs, NEW r \in Commands,
           NEW kd \in Nat, NEW ad \in Accounts,
           proc' = [proc EXCEPT ![p] = r], key' = [key EXCEPT ![On(p)] = kd],
           account' = [account EXCEPT ![On(p)] = ad],
           UNCHANGED <<ring, controlPlane, started, ghosts>>,
           GoesOn(proc[p], r), Sound(r, On(p), kd, ad, floor, refused, ring, p \in crossed)
    PROVE  KeyringInv'
<1>1. /\ floor \in Nat /\ refused \subseteq Devices /\ request \in [Devices -> Requests]
      /\ closed \subseteq [victim : Devices, gen : Nat] /\ Keyed /\ RevocationFinished
  BY DEF KeyringInv, TypeOK
<1>2. Keyed' /\ RevocationFinished'
  BY <1>1 DEF Keyed, RevocationFinished, controlPlane, ghosts
<1>3. /\ UNCHANGED <<ring, backup, restores, undone, started>>
      /\ floor' = floor /\ refused' = refused /\ request' = request /\ closed' = closed
  BY DEF controlPlane, ghosts
<1>4. floor' >= floor
  BY <1>1, <1>3
<1> QED BY <1>1, <1>2, <1>3, <1>4, Quiet

LEMMA DecideKeeps ==
    ASSUME KeyringInv, History, NEW p \in Procs, Decide(p)
    PROVE  KeyringInv'
<1> DEFINE r == proc[p]
           d == On(p)
<1>1. /\ r \in Commands /\ d \in Devices /\ key[d] \in Nat /\ account[d] \in Accounts
      /\ floor \in Nat /\ Sound(r, d, key[d], account[d], floor, refused, ring, p \in crossed)
      /\ ring \in Seq(Generations) /\ proc \in [Procs -> Commands] /\ r.pc = "decide"
  BY Known DEF Decide
<1>2. /\ Check(r.ring, NoAccount, r.floor) /\ r.cmd = "recover" /\ r.cmd # "none"
      /\ UNCHANGED <<ring, key, account, controlPlane, started, ghosts>>
  BY <1>1, CommandAt DEF Decide
<1>3. r.ring # <<>> /\ r.ring \in Seq(Generations) /\ ring # <<>>
  BY <1>1, <1>2 DEF Sound, HasRing, Commands
<1>4. ASSUME p \notin crossed
      PROVE  /\ KeyThere(r, key[d]) /\ account[d] = NoAccount /\ Bounded(r, account[d], floor)
             /\ r.pc \in Checking
  BY <1>1, <1>2, <1>4 DEF Sound, Fits, Unrecorded, Checking
<1>5. CASE /\ DeviceMembership(r.ring, d, key[d]) = "enrolled"
           /\ proc' = [proc EXCEPT ![p].mine = key[d], ![p].pc = "enrol"]
  <2> DEFINE s == Attached(r, key[d])
  <2>1. proc' = [proc EXCEPT ![p] = s]
    BY <1>1, <1>5 DEF Attached
  <2>2. /\ Same(r, s) /\ s.pc = "enrol" /\ s.mine = key[d] /\ s.ring = r.ring
        /\ s.appended = r.appended /\ s.anchor = r.anchor
    BY <1>1, BecomesAttached
  <2> HIDE DEF s
  <2>3. CanUnwrap(r.ring, d, key[d])
    <3>1. key[d] # NoKey /\ DevicePublicKey(r.ring, d) = key[d]
      BY <1>5 DEF DeviceMembership
    <3>2. Len(r.ring) \in DOMAIN r.ring
      BY <1>3, RingIs
    <3> QED BY <3>1, <3>2 DEF DevicePublicKey, Current, CanUnwrap, UnwrapGenerations, Opens
  <2>4. GoesOn(r, s)
    BY <1>2, <2>2 DEF GoesOn
  <2>5. Flow(s) /\ Equipped(s) /\ HasRing(s, ring)
    BY <1>2, <1>3, <2>2 DEF Flow, FlowOf, Equipped, HasRing, Same
  <2>6. Prepared(s, d) /\ Reported(s, floor, refused)
    BY <2>2, <2>3 DEF Prepared, Reported
  <2>7. p \in crossed \/ Fits(s, key[d], account[d], floor)
    <3> SUFFICES ASSUME p \notin crossed PROVE Fits(s, key[d], account[d], floor)
      OBVIOUS
    <3>1. /\ Len(r.ring) >= r.anchor.gen
          /\ CarriesFloor => \A g \in r.since : Len(r.ring) >= g
      BY <1>1, <1>2, <1>3, <1>4, CheckReaches
    <3>2. Reaches(s)
      BY <2>2, <3>1 DEF Reaches, Same
    <3>3. Bounded(s, account[d], floor)
      BY <2>2, <3>2 DEF Bounded, Before, Checking
    <3>4. KeyThere(s, key[d]) /\ Unrecorded(s, account[d])
      BY <1>4, <2>2 DEF KeyThere, Unrecorded
    <3> QED BY <3>3, <3>4 DEF Fits
  <2>8. Sound(s, d, key[d], account[d], floor, refused, ring, p \in crossed)
    BY <2>5, <2>6, <2>7 DEF Sound
  <2> QED BY <1>2, <2>1, <2>2, <2>4, <2>8, InMemory DEF Same
<1>6. CASE proc' = [proc EXCEPT ![p].mine = r.n, ![p].old = key[d], ![p].ring = <<>>,
                                ![p].pc = "rekey"]
  <2> DEFINE s == Rekeyed(r, r.n, key[d])
  <2>1. proc' = [proc EXCEPT ![p] = s]
    BY <1>1, <1>6 DEF Rekeyed
  <2>2. r.n \in Nat \ {0}
    BY <1>2, NumberIs
  <2>3. /\ Same(r, s) /\ s.pc = "rekey" /\ s.mine = r.n /\ s.appended = r.appended
        /\ s.floor = r.floor /\ s.anchor = r.anchor
    BY <1>1, <2>2, BecomesRekeyed
  <2> HIDE DEF s
  <2>4. GoesOn(r, s)
    BY <1>2, <2>3 DEF GoesOn
  <2>5. Flow(s) /\ Equipped(s) /\ HasRing(s, ring)
    BY <1>2, <1>3, <2>2, <2>3 DEF Flow, FlowOf, Equipped, HasRing, Same, NoKey
  <2>6. Prepared(s, d) /\ Reported(s, floor, refused)
    BY <2>3 DEF Prepared, Reported
  <2>7. p \in crossed \/ Fits(s, key[d], account[d], floor)
    <3> SUFFICES ASSUME p \notin crossed PROVE Fits(s, key[d], account[d], floor)
      OBVIOUS
    <3>1. Bounded(s, account[d], floor)
      BY <1>4, <2>3 DEF Bounded, Before, Checking, Checked, Acting, Same
    <3>2. KeyThere(s, key[d]) /\ Unrecorded(s, account[d])
      BY <1>4, <2>3 DEF KeyThere, Unrecorded
    <3> QED BY <3>1, <3>2 DEF Fits
  <2>8. Sound(s, d, key[d], account[d], floor, refused, ring, p \in crossed)
    BY <2>5, <2>6, <2>7 DEF Sound
  <2> QED BY <1>2, <2>1, <2>3, <2>4, <2>8, InMemory DEF Same
<1> QED BY <1>5, <1>6 DEF Decide

LEMMA RememberKeeps ==
    ASSUME KeyringInv, History, NEW p \in Procs, Remember(p)
    PROVE  KeyringInv'
<1> DEFINE r == proc[p]
           d == On(p)
           s == Remembered(r, AfterConfirm(p))
<1>1. /\ r \in Commands /\ d \in Devices /\ key[d] \in Nat /\ account[d] \in Accounts
      /\ floor \in Nat /\ Sound(r, d, key[d], account[d], floor, refused, ring, p \in crossed)
      /\ ring \in Seq(Generations) /\ proc \in [Procs -> Commands] /\ r.pc = "remember"
  BY Known DEF Remember
<1>2. /\ proc' = [proc EXCEPT ![p] = s] /\ account' = [account EXCEPT ![d] = r.record]
      /\ UNCHANGED <<ring, controlPlane, started, ghosts>> /\ key' = key
  BY <1>1 DEF Remember, Remembered
<1>3. r.cmd \in {"recover", "join", "approve", "revoke", "use"}
  BY <1>1, CommandAt
<1>4. /\ AfterConfirm(p) = CASE r.cmd = "recover" -> "decide" [] r.cmd = "join" -> "verify"
                             [] r.cmd = "use" -> "trust" [] OTHER -> "load"
      /\ AfterConfirm(p) \in Stages
  BY <1>3 DEF AfterConfirm, Stages
<1>5. /\ SameCommand(r, s) /\ s.pc = AfterConfirm(p) /\ s.ring = r.ring
      /\ s.appended = r.appended /\ s.floor = r.floor /\ s.anchor = r.record
  BY <1>1, <1>4, BecomesRemembered
<1> HIDE DEF s
<1>6. r.record \in Accounts
  BY <1>1 DEF Commands
<1>7. GoesOn(r, s)
  BY <1>1, <1>5 DEF GoesOn, Late, SameCommand
<1>8. Flow(s) /\ Equipped(s) /\ HasRing(s, ring)
  BY <1>1, <1>3, <1>4, <1>5 DEF Flow, FlowOf, Sound, Equipped, HasRing, SameCommand, Same
<1>9. Prepared(s, d) /\ Reported(s, floor, refused)
  BY <1>4, <1>5 DEF Prepared, Reported
<1>10. p \in crossed \/ Fits(s, key[d], r.record, floor)
  <2> SUFFICES ASSUME p \notin crossed PROVE Fits(s, key[d], r.record, floor)
    OBVIOUS
  <2>0. /\ Unrecorded(r, account[d]) /\ Bounded(r, account[d], floor)
        /\ r.record.gen = account[d].gen
    BY <1>1 DEF Sound, Fits, Bounded
  <2>3. r.cmd \in {"approve", "revoke", "use"}
    BY <1>1, <1>3, <2>0 DEF Unrecorded
  <2>1. s.pc \in {"load", "trust"}
    BY <1>4, <1>5, <2>3
  <2>2. CarriesFloor => \A g \in s.since : g <= r.record.gen \/ g <= s.floor
    BY <1>1, <1>5, <1>6, <2>0 DEF Bounded, Checking, SameCommand, Same
  <2>4. Bounded(s, r.record, floor)
    BY <1>5, <2>1, <2>2 DEF Bounded, Before, Checking, Checked, Acting
  <2>5. KeyThere(s, key[d]) /\ Unrecorded(s, r.record)
    BY <1>5, <2>3 DEF KeyThere, Unrecorded, SameCommand, Same
  <2> QED BY <2>4, <2>5 DEF Fits
<1>11. Sound(s, d, key[d], r.record, floor, refused, ring, p \in crossed)
  BY <1>8, <1>9, <1>10 DEF Sound
<1>12. key' = [key EXCEPT ![d] = key[d]] /\ s \in Commands
  BY <1>1, <1>2, <1>5, Unmoved DEF KeyringInv, TypeOK, SameCommand, Same
<1> QED BY <1>1, <1>2, <1>6, <1>7, <1>11, <1>12, OnDevice

LEMMA RecordKeeps ==
    ASSUME KeyringInv, History, NEW p \in Procs, Record(p)
    PROVE  KeyringInv'
<1> DEFINE r == proc[p]
           d == On(p)
           s == Noted(r, NoAccount, AfterObserve(p))
<1>1. /\ r \in Commands /\ d \in Devices /\ key[d] \in Nat /\ account[d] \in Accounts
      /\ floor \in Nat /\ Sound(r, d, key[d], account[d], floor, refused, ring, p \in crossed)
      /\ ring \in Seq(Generations) /\ proc \in [Procs -> Commands] /\ r.pc = "record"
  BY Known DEF Record
<1>2. /\ proc' = [proc EXCEPT ![p] = s] /\ account' = [account EXCEPT ![d] = r.record]
      /\ UNCHANGED <<ring, controlPlane, started, ghosts>> /\ key' = key
  BY <1>1 DEF Record, Noted
<1>3. r.cmd \in {"approve", "revoke", "use"}
  BY <1>1, CommandAt
<1>4. /\ AfterObserve(p) = CASE r.cmd = "approve" -> "relay" [] r.cmd = "revoke" -> "tell"
                             [] OTHER -> "done"
      /\ AfterObserve(p) \in Stages
  BY <1>3 DEF AfterObserve, Stages
<1>5. NoAccount \in Accounts /\ r.record \in Accounts
  BY <1>1 DEF NoAccount, Accounts, Commands
<1>6. SameTrust(r, s) /\ s.pc = AfterObserve(p) /\ s.ring = r.ring /\ s.appended = r.appended
  BY <1>1, <1>4, <1>5, BecomesNoted
<1> HIDE DEF s
<1>7. GoesOn(r, s)
  BY <1>1, <1>4, <1>6 DEF GoesOn, Late, SameTrust, SameCommand
<1>8. Flow(s) /\ Equipped(s) /\ HasRing(s, ring)
  BY <1>1, <1>3, <1>4, <1>6 DEF Flow, FlowOf, Sound, Equipped, HasRing, SameTrust, SameCommand, Same
<1>9. Prepared(s, d) /\ Reported(s, floor, refused)
  BY <1>3, <1>4, <1>6 DEF Prepared, Reported
<1>10. p \in crossed \/ Fits(s, key[d], r.record, floor)
  <2> SUFFICES ASSUME p \notin crossed PROVE Fits(s, key[d], r.record, floor)
    OBVIOUS
  <2>1. s.pc \in {"relay", "tell", "done"}
    BY <1>4, <1>6
  <2>2. Reaches(s)
    BY <1>1, <1>3, <1>6 DEF Sound, Fits, Bounded, Checked, Reaches, SameTrust, SameCommand, Same
  <2>3. Bounded(s, r.record, floor)
    BY <2>1, <2>2 DEF Bounded, Before, Checking
  <2>4. KeyThere(s, key[d]) /\ Unrecorded(s, r.record)
    BY <1>3, <1>6 DEF KeyThere, Unrecorded, SameTrust, SameCommand, Same
  <2> QED BY <2>3, <2>4 DEF Fits
<1>11. Sound(s, d, key[d], r.record, floor, refused, ring, p \in crossed)
  BY <1>8, <1>9, <1>10 DEF Sound
<1>12. key' = [key EXCEPT ![d] = key[d]] /\ s \in Commands
  BY <1>1, <1>2, <1>6, Unmoved DEF KeyringInv, TypeOK, SameTrust, SameCommand, Same
<1> QED BY <1>1, <1>2, <1>5, <1>7, <1>11, <1>12, OnDevice

LEMMA InitSecretKeeps ==
    ASSUME KeyringInv, History, NEW p \in Procs, InitSecret(p)
    PROVE  KeyringInv'
<1> DEFINE r == proc[p]
           d == On(p)
           s == Went(r, "store")
<1>1. /\ r \in Commands /\ d \in Devices /\ key[d] \in Nat /\ account[d] \in Accounts
      /\ floor \in Nat /\ Sound(r, d, key[d], account[d], floor, refused, ring, p \in crossed)
      /\ ring \in Seq(Generations) /\ proc \in [Procs -> Commands] /\ r.pc = "secret"
  BY Known DEF InitSecret
<1>2. proc' = [proc EXCEPT ![p] = s] /\ UNCHANGED <<ring, key, account, controlPlane, started, ghosts>>
  BY <1>1 DEF InitSecret, Goto, Went
<1>3. r.cmd = "init"
  BY <1>1, CommandAt
<1>4. /\ SameTrust(r, s) /\ s.pc = "store" /\ s.ring = r.ring /\ s.appended = r.appended
  BY <1>1, BecomesWent DEF Stages
<1> HIDE DEF s
<1>5. GoesOn(r, s)
  BY <1>1, <1>4 DEF GoesOn, Late, SameTrust, SameCommand
<1>6. Flow(s) /\ Equipped(s) /\ HasRing(s, ring)
  BY <1>1, <1>3, <1>4 DEF Flow, FlowOf, Sound, Equipped, HasRing, SameTrust, SameCommand, Same
<1>7. Prepared(s, d) /\ Reported(s, floor, refused)
  BY <1>4 DEF Prepared, Reported
<1>8. p \in crossed \/ Fits(s, key[d], account[d], floor)
  BY <1>1, <1>3, <1>4 DEF Sound, Fits, KeyThere, Unrecorded, Bounded, Before, Checking, Checked,
     Acting, SameTrust, SameCommand, Same
<1>9. Sound(s, d, key[d], account[d], floor, refused, ring, p \in crossed)
  BY <1>6, <1>7, <1>8 DEF Sound
<1> QED BY <1>2, <1>4, <1>5, <1>9, InMemory DEF SameTrust, SameCommand, Same

LEMMA SetSecretKeeps ==
    ASSUME KeyringInv, History, NEW p \in Procs, SetSecret(p)
    PROVE  KeyringInv'
<1> DEFINE r == proc[p]
           d == On(p)
           s == Went(r, AfterSecret(p))
<1>1. /\ r \in Commands /\ d \in Devices /\ key[d] \in Nat /\ account[d] \in Accounts
      /\ floor \in Nat /\ Sound(r, d, key[d], account[d], floor, refused, ring, p \in crossed)
      /\ ring \in Seq(Generations) /\ proc \in [Procs -> Commands] /\ r.pc \in {"store", "rekey"}
  BY Known DEF SetSecret
<1>2. /\ proc' = [proc EXCEPT ![p] = s] /\ key' = [key EXCEPT ![d] = r.mine]
      /\ UNCHANGED <<ring, controlPlane, started, ghosts>> /\ account' = account
  BY <1>1 DEF SetSecret, Goto, Went
<1>3. /\ r.cmd \in {"init", "join", "recover"} /\ (r.pc = "store" => r.cmd \in {"init", "join"})
      /\ (r.pc = "rekey" => r.cmd = "recover")
  BY <1>1, CommandAt
<1>4. /\ AfterSecret(p) = CASE r.cmd = "init" -> "create" [] r.cmd = "join" -> "request"
                             [] OTHER -> "load"
      /\ AfterSecret(p) \in Stages
  BY <1>3 DEF AfterSecret, Stages
<1>5. /\ SameTrust(r, s) /\ s.pc = AfterSecret(p) /\ s.ring = r.ring /\ s.appended = r.appended
  BY <1>1, <1>4, BecomesWent
<1> HIDE DEF s
<1>6. GoesOn(r, s)
  BY <1>3, <1>5 DEF GoesOn, SameTrust, SameCommand
<1>7. Flow(s) /\ Equipped(s) /\ HasRing(s, ring)
  BY <1>1, <1>3, <1>4, <1>5 DEF Flow, FlowOf, Sound, Equipped, HasRing, SameTrust, SameCommand,
     Same
<1>8. Prepared(s, d) /\ Reported(s, floor, refused)
  BY <1>3, <1>4, <1>5 DEF Prepared, Reported
<1>9. p \in crossed \/ Fits(s, r.mine, account[d], floor)
  <2> SUFFICES ASSUME p \notin crossed PROVE Fits(s, r.mine, account[d], floor)
    OBVIOUS
  <2>1. Unrecorded(r, account[d]) /\ Bounded(r, account[d], floor)
    BY <1>1 DEF Sound, Fits
  <2>2. s.pc \in {"create", "request", "load"} /\ (s.pc = "load" <=> r.pc = "rekey")
    BY <1>1, <1>3, <1>4, <1>5
  <2>3. Bounded(s, account[d], floor)
    BY <1>1, <1>5, <2>1, <2>2 DEF Bounded, Before, Checking, Checked, Acting, SameTrust,
       SameCommand, Same
  <2>4. KeyThere(s, r.mine) /\ Unrecorded(s, account[d])
    BY <1>1, <1>5, <2>1, <2>2 DEF KeyThere, Unrecorded, SameTrust, SameCommand, Same
  <2> QED BY <2>3, <2>4 DEF Fits
<1>10. Sound(s, d, r.mine, account[d], floor, refused, ring, p \in crossed)
  BY <1>7, <1>8, <1>9 DEF Sound
<1>11. account' = [account EXCEPT ![d] = account[d]] /\ s \in Commands /\ r.mine \in Nat
  BY <1>1, <1>2, <1>5, Unmoved DEF KeyringInv, TypeOK, SameTrust, SameCommand, Same, Commands
<1> QED BY <1>1, <1>2, <1>6, <1>10, <1>11, OnDevice

(* A step that changes a pairing request.                                  *)
LEMMA OnRequest ==
    ASSUME KeyringInv, History, NEW p \in Procs, NEW r \in Commands,
           NEW d \in Devices, NEW q \in Requests, q.status = "pending" => q.key # NoKey,
           proc' = [proc EXCEPT ![p] = r], request' = [request EXCEPT ![d] = q],
           UNCHANGED <<ring, key, account, floor, refused, started, ghosts>>,
           GoesOn(proc[p], r), Sound(r, On(p), key[On(p)], account[On(p)], floor, refused, ring,
           p \in crossed)
    PROVE  KeyringInv'
<1>1. /\ floor \in Nat /\ refused \subseteq Devices /\ request \in [Devices -> Requests]
      /\ closed \subseteq [victim : Devices, gen : Nat] /\ Keyed /\ RevocationFinished
      /\ key[On(p)] \in Nat /\ account[On(p)] \in Accounts
  BY Known DEF KeyringInv, TypeOK
<1>2. /\ UNCHANGED <<ring, backup, restores, undone, started>>
      /\ floor' = floor /\ refused' = refused /\ closed' = closed
  BY DEF ghosts
<1>3. request' \in [Devices -> Requests] /\ Keyed' /\ RevocationFinished' /\ floor' >= floor
  <2>1. \A e \in Devices : request'[e] = IF e = d THEN q ELSE request[e]
    BY <1>1
  <2> QED BY <1>1, <1>2, <2>1 DEF Keyed, RevocationFinished
<1>4. /\ key' = [key EXCEPT ![On(p)] = key[On(p)]]
      /\ account' = [account EXCEPT ![On(p)] = account[On(p)]]
  BY OnIs, Unmoved DEF KeyringInv, TypeOK
<1> QED BY <1>1, <1>2, <1>3, <1>4, Quiet

LEMMA OpenRequestKeeps ==
    ASSUME KeyringInv, History, NEW p \in Procs, OpenRequest(p)
    PROVE  KeyringInv'
<1> DEFINE r == proc[p]
           d == On(p)
           s == Asked(r, r.n)
           q == [NoRequest EXCEPT !.id = r.n, !.status = "pending", !.key = r.mine]
<1>1. /\ r \in Commands /\ d \in Devices /\ key[d] \in Nat /\ account[d] \in Accounts
      /\ floor \in Nat /\ Sound(r, d, key[d], account[d], floor, refused, ring, p \in crossed)
      /\ ring \in Seq(Generations) /\ proc \in [Procs -> Commands] /\ r.pc = "request"
  BY Known DEF OpenRequest
<1>2. /\ proc' = [proc EXCEPT ![p] = s] /\ request' = [request EXCEPT ![d] = q]
      /\ UNCHANGED <<ring, key, account, floor, refused, started, ghosts>>
  BY <1>1 DEF OpenRequest, CreatePairing, Asked
<1>3. r.cmd = "join" /\ r.n \in Nat
  BY <1>1, CommandAt DEF Commands
<1>4. q \in Requests /\ q.key = r.mine /\ r.mine # NoKey
  BY <1>1, <1>3 DEF NoRequest, Requests, NoKey, Sound, Equipped, Commands
<1> HIDE DEF q
<1>5. SameTrust(r, s) /\ s.pc = "wait" /\ s.ring = r.ring /\ s.appended = r.appended
  BY <1>1, <1>3, BecomesAsked
<1> HIDE DEF s
<1>6. GoesOn(r, s)
  BY <1>1, <1>5 DEF GoesOn, Late, SameTrust, SameCommand
<1>7. Flow(s) /\ Equipped(s) /\ HasRing(s, ring)
  BY <1>1, <1>3, <1>5 DEF Flow, FlowOf, Sound, Equipped, HasRing, SameTrust, SameCommand, Same
<1>8. Prepared(s, d) /\ Reported(s, floor, refused)
  BY <1>5 DEF Prepared, Reported
<1>9. p \in crossed \/ Fits(s, key[d], account[d], floor)
  BY <1>1, <1>5 DEF Sound, Fits, KeyThere, Unrecorded, Bounded, Before, Checking, Checked,
     Acting, SameTrust, SameCommand, Same
<1>10. Sound(s, d, key[d], account[d], floor, refused, ring, p \in crossed)
  BY <1>7, <1>8, <1>9 DEF Sound
<1> QED BY <1>1, <1>2, <1>4, <1>5, <1>6, <1>10, OnRequest DEF SameTrust, SameCommand, Same

LEMMA WaitForPairingKeeps ==
    ASSUME KeyringInv, History, NEW p \in Procs, WaitForPairing(p)
    PROVE  KeyringInv'
<1> DEFINE r == proc[p]
           d == On(p)
           payload == [NoAccount EXCEPT !.gen = request[d].gen, !.root = request[d].root]
           s == Claimed(r, payload)
           q == [request[d] EXCEPT !.status = "consumed"]
<1>1. /\ r \in Commands /\ d \in Devices /\ key[d] \in Nat /\ account[d] \in Accounts
      /\ floor \in Nat /\ Sound(r, d, key[d], account[d], floor, refused, ring, p \in crossed)
      /\ ring \in Seq(Generations) /\ proc \in [Procs -> Commands] /\ r.pc = "wait"
      /\ request \in [Devices -> Requests]
  BY Known DEF WaitForPairing, KeyringInv, TypeOK
<1>2. /\ proc' = [proc EXCEPT ![p] = s] /\ request' = [request EXCEPT ![d] = q]
      /\ UNCHANGED <<ring, key, account, floor, refused, started, ghosts>>
  BY <1>1 DEF WaitForPairing, ClaimPairing, Claimed
<1>3. r.cmd = "join"
  BY <1>1, CommandAt
<1>4. q \in Requests /\ q.status # "pending"
  BY <1>1 DEF Requests
<1>5. payload \in Accounts
  BY <1>1 DEF Requests, NoAccount, Accounts
<1> HIDE DEF q, payload
<1>6. SameTrust(r, s) /\ s.pc = "confirm" /\ s.ring = r.ring /\ s.appended = r.appended
  BY <1>1, <1>5, BecomesClaimed
<1> HIDE DEF s
<1>7. GoesOn(r, s)
  BY <1>1, <1>6 DEF GoesOn, Late, SameTrust, SameCommand
<1>8. Flow(s) /\ Equipped(s) /\ HasRing(s, ring)
  BY <1>1, <1>3, <1>6 DEF Flow, FlowOf, Sound, Equipped, HasRing, SameTrust, SameCommand, Same
<1>9. Prepared(s, d) /\ Reported(s, floor, refused)
  BY <1>6 DEF Prepared, Reported
<1>10. p \in crossed \/ Fits(s, key[d], account[d], floor)
  BY <1>1, <1>6 DEF Sound, Fits, KeyThere, Unrecorded, Bounded, Before, Checking, Checked,
     Acting, SameTrust, SameCommand, Same
<1>11. Sound(s, d, key[d], account[d], floor, refused, ring, p \in crossed)
  BY <1>8, <1>9, <1>10 DEF Sound
<1> QED BY <1>1, <1>2, <1>4, <1>6, <1>7, <1>11, OnRequest DEF SameTrust, SameCommand, Same

LEMMA RelayKeeps ==
    ASSUME KeyringInv, History, NEW p \in Procs, Relay(p)
    PROVE  KeyringInv'
<1> DEFINE r == proc[p]
           d == On(p)
           t == r.target
           q == [request[t] EXCEPT !.status = "approved", !.gen = Len(r.ring),
                                   !.root = Current(r.ring).root]
<1>1. /\ r \in Commands /\ Sound(r, d, key[d], account[d], floor, refused, ring, p \in crossed)
      /\ r.pc = "relay" /\ request \in [Devices -> Requests]
  BY Known DEF Relay, KeyringInv, TypeOK
<1>2. /\ Exit(p) /\ request' = [request EXCEPT ![t] = q]
      /\ UNCHANGED <<ring, key, account, floor, refused, started, ghosts>>
  BY DEF Relay, ApprovePairing
<1>3. r.cmd = "approve"
  BY <1>1, CommandAt
<1>4. t \in Devices /\ r.ring \in Seq(Generations) /\ r.ring # <<>>
  BY <1>1, <1>3 DEF Sound, Equipped, HasRing, Commands
<1>5. Len(r.ring) \in Nat /\ Current(r.ring).root \in Nat
  BY <1>4, RingIs DEF Generations
<1>6. q \in Requests /\ q.status # "pending"
  BY <1>1, <1>4, <1>5 DEF Requests
<1> HIDE DEF q
<1>7. GoesOn(r, Idle) /\ Sound(Idle, d, key[d], account[d], floor, refused, ring, p \in crossed)
  BY IdleIs DEF GoesOn
<1> QED BY <1>2, <1>4, <1>6, <1>7, IdleIs, OnRequest DEF Exit

LEMMA TellKeeps ==
    ASSUME KeyringInv, History, NEW p \in Procs, Tell(p)
    PROVE  KeyringInv'
<1> DEFINE r == proc[p]
           d == On(p)
           s == Went(r, "raise")
<1>1. /\ r \in Commands /\ d \in Devices /\ key[d] \in Nat /\ account[d] \in Accounts
      /\ floor \in Nat /\ Sound(r, d, key[d], account[d], floor, refused, ring, p \in crossed)
      /\ ring \in Seq(Generations) /\ proc \in [Procs -> Commands] /\ r.pc = "tell"
  BY Known DEF Tell
<1>2. /\ proc' = [proc EXCEPT ![p] = s] /\ refused' = refused \cup {r.target}
      /\ UNCHANGED <<ring, key, account, floor, request, started, ghosts>>
  BY <1>1 DEF Tell, RevokeDevice, Goto, Went
<1>3. r.cmd = "revoke"
  BY <1>1, CommandAt
<1>4. r.target \in Devices
  BY <1>1, <1>3 DEF Sound, Equipped
<1>5. /\ SameTrust(r, s) /\ s.pc = "raise" /\ s.ring = r.ring /\ s.appended = r.appended
  BY <1>1, BecomesWent DEF Stages
<1> HIDE DEF s
<1>6. GoesOn(r, s)
  BY <1>1, <1>5 DEF GoesOn, Late, SameTrust, SameCommand
<1>7. Flow(s) /\ Equipped(s) /\ HasRing(s, ring)
  BY <1>1, <1>3, <1>5 DEF Flow, FlowOf, Sound, Equipped, HasRing, SameTrust, SameCommand, Same
<1>8. Prepared(s, d) /\ Reported(s, floor', refused')
  BY <1>2, <1>5 DEF Prepared, Reported, SameTrust, SameCommand, Same
<1>9. p \in crossed \/ Fits(s, key[d], account[d], floor')
  BY <1>1, <1>5 DEF Sound, Fits, KeyThere, Unrecorded, Bounded, Before, Checking, Checked,
     Acting, Reaches, SameTrust,
     SameCommand, Same
<1>10. Sound(s, d, key[d], account[d], floor', refused', ring, p \in crossed)
  BY <1>7, <1>8, <1>9 DEF Sound
<1>11. /\ refused' \subseteq Devices /\ refused \subseteq refused' /\ floor' = floor
       /\ request' \in [Devices -> Requests] /\ closed' \subseteq [victim : Devices, gen : Nat]
       /\ Keyed' /\ RevocationFinished' /\ floor' >= floor
       /\ UNCHANGED <<ring, backup, restores, undone, started>>
  BY <1>1, <1>2, <1>4 DEF KeyringInv, TypeOK, Keyed, RevocationFinished, ghosts
<1>12. /\ key' = [key EXCEPT ![d] = key[d]] /\ account' = [account EXCEPT ![d] = account[d]]
  BY <1>1, <1>2, Unmoved DEF KeyringInv, TypeOK
<1> QED BY <1>1, <1>2, <1>5, <1>6, <1>10, <1>11, <1>12, Quiet DEF SameTrust, SameCommand, Same

LEMMA MaxIs == \A a, b \in Nat : MaxOf(a, b) \in Nat /\ MaxOf(a, b) >= a /\ MaxOf(a, b) >= b
  BY DEF MaxOf

LEMMA TellConsoleKeeps ==
    ASSUME KeyringInv, History, NEW p \in Procs, TellConsole(p)
    PROVE  KeyringInv'
<1> DEFINE r == proc[p]
           d == On(p)
           c == [victim |-> r.target, gen |-> Len(r.ring)]
<1>1. /\ r \in Commands /\ d \in Devices /\ key[d] \in Nat /\ account[d] \in Accounts
      /\ floor \in Nat /\ Sound(r, d, key[d], account[d], floor, refused, ring, p \in crossed)
      /\ r.pc = "tell"
  BY Known DEF TellConsole
<1>2. /\ Exit(p) /\ closed' = closed \cup {c} /\ refused' = refused \cup {r.target}
      /\ floor' = IF CarriesFloor THEN MaxOf(floor, Len(r.ring)) ELSE floor
      /\ UNCHANGED <<ring, key, account, request, started, backup, restores, undone>>
  BY DEF TellConsole, ConfirmDeviceRevocation, Close
<1>3. r.cmd = "revoke"
  BY <1>1, CommandAt
<1>4. r.target \in Devices /\ Len(r.ring) \in Nat
  BY <1>1, <1>3, RingIs DEF Sound, Equipped, Commands
<1>5. floor' \in Nat /\ floor' >= floor /\ (CarriesFloor => floor' >= Len(r.ring))
  <2>1. Len(r.ring) \in Nat /\ floor \in Nat
    BY <1>1, <1>4
  <2>2. CASE CarriesFloor
    BY <1>2, <2>1, <2>2, MaxIs
  <2>3. CASE ~CarriesFloor
    BY <1>2, <2>1, <2>3
  <2> QED BY <2>2, <2>3
<1>6. /\ refused' \subseteq Devices /\ refused \subseteq refused'
      /\ request' \in [Devices -> Requests] /\ closed' \subseteq [victim : Devices, gen : Nat]
      /\ Keyed'
  BY <1>2, <1>4 DEF KeyringInv, TypeOK, Keyed
<1>7. RevocationFinished'
  <2>1. \A x \in closed : x.victim \in refused /\ (CarriesFloor => floor >= x.gen) /\ x.gen \in Nat
    BY DEF KeyringInv, TypeOK, RevocationFinished
  <2>2. \A x \in closed : CarriesFloor => floor' >= x.gen
    BY <1>1, <1>5, <2>1
  <2> QED BY <1>2, <1>5, <1>6, <2>1, <2>2 DEF RevocationFinished
<1>8. /\ key' = [key EXCEPT ![d] = key[d]] /\ account' = [account EXCEPT ![d] = account[d]]
  BY <1>1, <1>2, Unmoved DEF KeyringInv, TypeOK
<1>9. GoesOn(r, Idle) /\ Sound(Idle, d, key[d], account[d], floor', refused', ring, p \in crossed)
  BY IdleIs DEF GoesOn
<1> QED BY <1>1, <1>2, <1>5, <1>6, <1>7, <1>8, <1>9, IdleIs, Quiet DEF Exit

LEMMA RaiseFloorKeeps ==
    ASSUME KeyringInv, History, NEW p \in Procs, RaiseFloor(p)
    PROVE  KeyringInv'
<1> DEFINE r == proc[p]
           d == On(p)
           record == IF CarriesFloor /\ floor' > account[d].confirmed
                     THEN [account[d] EXCEPT !.confirmed = floor'] ELSE NoAccount
           s == Noted(r, record, "close")
<1>1. /\ r \in Commands /\ d \in Devices /\ key[d] \in Nat /\ account[d] \in Accounts
      /\ floor \in Nat /\ Sound(r, d, key[d], account[d], floor, refused, ring, p \in crossed)
      /\ ring \in Seq(Generations) /\ proc \in [Procs -> Commands] /\ r.pc = "raise"
  BY Known DEF RaiseFloor
<1>2. /\ proc' = [proc EXCEPT ![p] = s]
      /\ floor' = IF CarriesFloor THEN MaxOf(floor, Len(r.ring)) ELSE floor
      /\ UNCHANGED <<ring, key, account, refused, request, started, ghosts>>
  BY <1>1 DEF RaiseFloor, RaiseKeyGenerationFloor, Noted
<1>3. r.cmd = "revoke" /\ r.target \in refused
  BY <1>1, CommandAt DEF Sound, Reported
<1>4. Len(r.ring) \in Nat
  BY <1>1, RingIs DEF Commands
<1>5. floor' \in Nat /\ floor' >= floor /\ (CarriesFloor => floor' >= Len(r.ring))
  BY <1>1, <1>2, <1>4, MaxIs
<1>6. record \in Accounts
  BY <1>1, <1>5 DEF Accounts, NoAccount
<1> HIDE DEF record
<1>7. /\ SameTrust(r, s) /\ s.pc = "close" /\ s.ring = r.ring /\ s.appended = r.appended
  BY <1>1, <1>6, BecomesNoted DEF Stages
<1> HIDE DEF s
<1>8. GoesOn(r, s)
  BY <1>1, <1>7 DEF GoesOn, Late, SameTrust, SameCommand
<1>9. Flow(s) /\ Equipped(s) /\ HasRing(s, ring)
  BY <1>1, <1>3, <1>7 DEF Flow, FlowOf, Sound, Equipped, HasRing, SameTrust, SameCommand, Same
<1>10. Prepared(s, d) /\ Reported(s, floor', refused')
  BY <1>2, <1>3, <1>5, <1>7 DEF Prepared, Reported, SameTrust, SameCommand, Same
<1>11. p \in crossed \/ Fits(s, key[d], account[d], floor')
  BY <1>1, <1>7 DEF Sound, Fits, KeyThere, Unrecorded, Bounded, Before, Checking, Checked,
     Acting, Reaches, SameTrust,
     SameCommand, Same
<1>12. Sound(s, d, key[d], account[d], floor', refused', ring, p \in crossed)
  BY <1>9, <1>10, <1>11 DEF Sound
<1>13. /\ refused' \subseteq Devices /\ refused \subseteq refused'
       /\ request' \in [Devices -> Requests] /\ closed' \subseteq [victim : Devices, gen : Nat]
       /\ Keyed' /\ UNCHANGED <<ring, backup, restores, undone, started>>
  BY <1>2 DEF KeyringInv, TypeOK, Keyed, ghosts
<1>14. RevocationFinished'
  <2>1. \A x \in closed : x.victim \in refused /\ (CarriesFloor => floor >= x.gen) /\ x.gen \in Nat
    BY DEF KeyringInv, TypeOK, RevocationFinished
  <2>2. \A x \in closed : CarriesFloor => floor' >= x.gen
    BY <1>1, <1>5, <2>1
  <2> QED BY <1>2, <2>1, <2>2 DEF RevocationFinished, ghosts
<1>15. /\ key' = [key EXCEPT ![d] = key[d]] /\ account' = [account EXCEPT ![d] = account[d]]
  BY <1>1, <1>2, Unmoved DEF KeyringInv, TypeOK
<1> QED BY <1>1, <1>2, <1>5, <1>7, <1>8, <1>12, <1>13, <1>14, <1>15, Quiet DEF SameTrust,
       SameCommand, Same

LEMMA FinishKeeps ==
    ASSUME KeyringInv, History, NEW p \in Procs, Finish(p)
    PROVE  KeyringInv'
<1> DEFINE r == proc[p]
           d == On(p)
           c == [victim |-> r.target, gen |-> Len(r.ring)]
           ad == IF r.record = NoAccount THEN account[d] ELSE r.record
<1>1. /\ r \in Commands /\ d \in Devices /\ key[d] \in Nat /\ account[d] \in Accounts
      /\ floor \in Nat /\ Sound(r, d, key[d], account[d], floor, refused, ring, p \in crossed)
      /\ r.pc = "close" /\ key \in [Devices -> Nat] /\ account \in [Devices -> Accounts]
  BY Known DEF Finish, KeyringInv, TypeOK
<1>2. /\ Exit(p) /\ closed' = closed \cup {c} /\ key' = key
      /\ account' = IF r.record = NoAccount THEN account ELSE [account EXCEPT ![d] = r.record]
      /\ UNCHANGED <<ring, controlPlane, started, backup, restores, undone>>
  BY DEF Finish, Close
<1>3. r.cmd = "revoke"
  BY <1>1, CommandAt
<1>4. /\ r.target \in Devices /\ Len(r.ring) \in Nat
      /\ r.target \in refused /\ (CarriesFloor => floor >= Len(r.ring))
  BY <1>1, <1>3, RingIs DEF Sound, Equipped, Reported, Commands
<1>5. account' = [account EXCEPT ![d] = ad] /\ ad \in Accounts
  BY <1>1, <1>2, Unmoved DEF Commands
<1>6. /\ floor' = floor /\ refused' = refused /\ request' = request
      /\ UNCHANGED <<ring, backup, restores, undone, started>>
  BY <1>2 DEF controlPlane
<1>7. /\ refused' \subseteq Devices /\ request' \in [Devices -> Requests]
      /\ closed' \subseteq [victim : Devices, gen : Nat] /\ Keyed' /\ RevocationFinished'
      /\ floor' >= floor
  BY <1>1, <1>2, <1>4, <1>6 DEF KeyringInv, TypeOK, Keyed, RevocationFinished
<1>8. key' = [key EXCEPT ![d] = key[d]]
  BY <1>1, <1>2, Unmoved
<1>9. GoesOn(r, Idle) /\ Sound(Idle, d, key[d], ad, floor', refused', ring, p \in crossed)
  BY IdleIs DEF GoesOn
<1> HIDE DEF ad, c
<1>10. /\ proc' = [proc EXCEPT ![p] = Idle] /\ Idle \in Commands /\ floor' \in Nat
       /\ refused \subseteq refused' /\ key[d] \in Nat
  BY <1>1, <1>2, <1>6, IdleIs DEF Exit
<1> QED BY <1>5, <1>6, <1>7, <1>8, <1>9, <1>10, Quiet

LEMMA EnrolledKeeps ==
    ASSUME KeyringInv, History, NEW p \in Procs, Enrolled(p)
    PROVE  KeyringInv'
<1> DEFINE r == proc[p]
           d == On(p)
           ad == [gen |-> Len(r.ring), root |-> Current(r.ring).root, confirmed |-> 0]
           s == Went(r, "keepFloor")
<1>1. /\ r \in Commands /\ d \in Devices /\ key[d] \in Nat /\ account[d] \in Accounts
      /\ floor \in Nat /\ Sound(r, d, key[d], account[d], floor, refused, ring, p \in crossed)
      /\ ring \in Seq(Generations) /\ proc \in [Procs -> Commands] /\ r.pc = "enrol"
  BY Known DEF Enrolled
<1>2. /\ IF r.floor > 0 THEN proc' = [proc EXCEPT ![p] = s] ELSE proc' = [proc EXCEPT ![p] = Idle]
      /\ account' = [account EXCEPT ![d] = ad]
      /\ UNCHANGED <<ring, controlPlane, started, ghosts>> /\ key' = key
  BY <1>1 DEF Enrolled, Goto, Exit, Went
<1>3. r.cmd \in {"init", "recover", "join"}
  BY <1>1, CommandAt
<1>4. ad \in Accounts
  <2>1. r.ring \in Seq(Generations) /\ r.ring # <<>>
    BY <1>1 DEF Commands, Sound, HasRing
  <2>2. Len(r.ring) \in Nat /\ Current(r.ring).root \in Nat
    BY <2>1, RingIs DEF Generations
  <2> QED BY <2>2 DEF Accounts
<1>5. key' = [key EXCEPT ![d] = key[d]]
  BY <1>1, <1>2, Unmoved DEF KeyringInv, TypeOK
<1> HIDE DEF ad
<1>6. CASE r.floor > 0
  <2>1. /\ SameTrust(r, s) /\ s.pc = "keepFloor" /\ s.ring = r.ring /\ s.appended = r.appended
    BY <1>1, BecomesWent DEF Stages
  <2> HIDE DEF s
  <2>2. GoesOn(r, s)
    BY <1>1, <2>1 DEF GoesOn, Late, SameTrust, SameCommand
  <2>3. Flow(s) /\ Equipped(s) /\ HasRing(s, ring)
    BY <1>1, <1>3, <2>1 DEF Flow, FlowOf, Sound, Equipped, HasRing, SameTrust, SameCommand, Same
  <2>4. Prepared(s, d) /\ Reported(s, floor, refused)
    BY <2>1 DEF Prepared, Reported
  <2>5. p \in crossed \/ Fits(s, key[d], ad, floor)
    BY <2>1 DEF Fits, KeyThere, Unrecorded, Bounded, Before, Checking, Checked, Acting
  <2>6. Sound(s, d, key[d], ad, floor, refused, ring, p \in crossed)
    BY <2>3, <2>4, <2>5 DEF Sound
  <2>7. s \in Commands
    BY <2>1 DEF SameTrust, SameCommand, Same
  <2> QED BY <1>1, <1>2, <1>4, <1>5, <1>6, <2>2, <2>6, <2>7, OnDevice
<1>7. CASE ~(r.floor > 0)
  <2>1. GoesOn(r, Idle) /\ Sound(Idle, d, key[d], ad, floor, refused, ring, p \in crossed)
    BY IdleIs DEF GoesOn
  <2> QED BY <1>1, <1>2, <1>4, <1>5, <1>7, <2>1, IdleIs, OnDevice
<1> QED BY <1>6, <1>7

LEMMA KeepFloorKeeps ==
    ASSUME KeyringInv, History, NEW p \in Procs, KeepFloor(p)
    PROVE  KeyringInv'
<1> DEFINE r == proc[p]
           d == On(p)
           ad == [account[d] EXCEPT !.confirmed = MaxOf(@, r.floor)]
<1>1. /\ r \in Commands /\ d \in Devices /\ key[d] \in Nat /\ account[d] \in Accounts
      /\ floor \in Nat /\ proc \in [Procs -> Commands]
  BY Known
<1>2. /\ proc' = [proc EXCEPT ![p] = Idle] /\ account' = [account EXCEPT ![d] = ad]
      /\ UNCHANGED <<ring, controlPlane, started, ghosts>> /\ key' = key
  BY DEF KeepFloor, Exit
<1>3. ad \in Accounts
  <2>1. account[d].confirmed \in Nat /\ r.floor \in Nat
    BY <1>1 DEF Accounts, Commands
  <2> QED BY <1>1, <2>1, MaxIs DEF Accounts
<1>4. key' = [key EXCEPT ![d] = key[d]]
  BY <1>1, <1>2, Unmoved DEF KeyringInv, TypeOK
<1> HIDE DEF ad
<1>5. GoesOn(r, Idle) /\ Sound(Idle, d, key[d], ad, floor, refused, ring, p \in crossed)
  BY IdleIs DEF GoesOn
<1> QED BY <1>1, <1>2, <1>3, <1>4, <1>5, IdleIs, OnDevice

------------------------------------------------------------------------------
(* The start of a command.                                                 *)
Begun(cmd, pc, n, d, k, mine, req, reqKey, since) ==
    [Idle EXCEPT !.cmd = cmd, !.pc = pc, !.n = n, !.target = d, !.ring = k, !.mine = mine,
                 !.req = req, !.reqKey = reqKey, !.since = since]

LEMMA BecomesBegun ==
    ASSUME NEW cmd \in Kinds, NEW pc \in Stages, NEW n \in Nat, NEW d \in Devices \cup {"-"},
           NEW k \in Seq(Generations), NEW mine \in Nat, NEW req \in Nat, NEW reqKey \in Nat,
           NEW since \in SUBSET Nat
    PROVE  LET s == Begun(cmd, pc, n, d, k, mine, req, reqKey, since)
           IN  /\ s \in Commands /\ s.cmd = cmd /\ s.pc = pc /\ s.n = n /\ s.target = d
               /\ s.ring = k /\ s.mine = mine /\ s.reqKey = reqKey /\ s.since = since
  BY IdleIs DEF Begun, Commands

LEMMA BeginKeeps ==
    ASSUME KeyringInv, History, NEW p \in Procs, NEW cmd, NEW pc \in Before \cap Stages,
           NEW d \in Devices \cup {"-"}, NEW k \in Seq(Generations), NEW mine \in Nat,
           NEW req \in Nat, NEW reqKey \in Nat,
           Begin(p, cmd, pc, d, k, mine, req, reqKey),
           UNCHANGED <<ring, key, account, controlPlane, ghosts>>,
           pc \in FlowOf(cmd), pc \in {"secret", "store", "request", "confirm"},
           pc = "request" => key[On(p)] = mine, cmd = "join" => pc # "confirm",
           cmd \in {"approve", "revoke"} => d \in Devices,
           cmd = "approve" => reqKey # NoKey,
           cmd = "join" => mine # NoKey, cmd = "init" => mine = started + 1,
           cmd \in {"recover", "join"} => account[On(p)] = NoAccount,
           cmd \in {"recover", "use"} => k # <<>>,
           cmd = "recover" => ring # <<>>
    PROVE  KeyringInv'
<1> DEFINE e == On(p)
           since == {account[e].gen} \cup {c.gen : c \in closed}
           s == Begun(cmd, pc, started + 1, d, k, mine, req, reqKey, since)
<1>1. /\ e \in Devices /\ account[e] \in Accounts /\ floor \in Nat /\ ring \in Seq(Generations)
      /\ proc \in [Procs -> Commands] /\ account \in [Devices -> Accounts] /\ started \in Nat
      /\ closed \subseteq [victim : Devices, gen : Nat] /\ key \in [Devices -> Nat]
  BY Known DEF KeyringInv, TypeOK
<1>2. /\ proc' = [proc EXCEPT ![p] = s] /\ started' = started + 1 /\ cmd \in Kinds
      /\ cmd \in AllKinds
  BY KeyringAssumption DEF Begin, Begun
<1>3. since \in SUBSET Nat
  BY <1>1 DEF Accounts
<1>4. CarriesFloor => \A g \in since : g <= account[e].gen \/ g <= floor
  <2>1. account[e].gen <= account[e].gen
    BY <1>1 DEF Accounts
  <2>2. CarriesFloor => \A c \in closed : c.gen <= floor
    BY <1>1 DEF KeyringInv, RevocationFinished
  <2> QED BY <2>1, <2>2
<1> HIDE DEF since
<1>5. /\ s \in Commands /\ s.cmd = cmd /\ s.pc = pc /\ s.n = started + 1 /\ s.target = d
      /\ s.ring = k /\ s.mine = mine /\ s.reqKey = reqKey /\ s.since = since
  <2> DEFINE n == started + 1
  <2>1. n \in Nat /\ pc \in Stages /\ cmd \in Kinds
    BY <1>1, <1>2
  <2>2. s = Begun(cmd, pc, n, d, k, mine, req, reqKey, since)
    OBVIOUS
  <2> HIDE DEF n, s
  <2>3. /\ s \in Commands /\ s.cmd = cmd /\ s.pc = pc /\ s.n = n /\ s.target = d
        /\ s.ring = k /\ s.mine = mine /\ s.reqKey = reqKey /\ s.since = since
    BY <1>3, <2>1, <2>2, BecomesBegun
  <2> QED BY <2>3 DEF n
<1> HIDE DEF s
<1>6. cmd # "none"
  BY <1>2 DEF AllKinds
<1>7. Flow(s) /\ Equipped(s) /\ HasRing(s, ring)
  BY <1>5 DEF Flow, Equipped, HasRing, Before
<1>8. Prepared(s, e) /\ Reported(s, floor, refused)
  BY <1>5 DEF Prepared, Reported, Before
<1>9. Fits(s, key[e], account[e], floor)
  <2>1. Bounded(s, account[e], floor)
    BY <1>4, <1>5 DEF Bounded, Before, Checking, Checked, Acting
  <2>2. KeyThere(s, key[e]) /\ Unrecorded(s, account[e])
    BY <1>5 DEF KeyThere, Unrecorded
  <2> QED BY <2>1, <2>2 DEF Fits
<1>10. Sound(s, e, key[e], account[e], floor, refused, ring, p \in crossed)
  BY <1>7, <1>8, <1>9 DEF Sound
<1>11. account' = [account EXCEPT ![e] = account[e]] /\ key' = [key EXCEPT ![e] = key[e]]
  BY <1>1, Unmoved
<1>12. /\ floor' = floor /\ refused' = refused /\ request' = request /\ closed' = closed
       /\ UNCHANGED <<ring, account, backup, restores, undone>>
  BY DEF controlPlane, ghosts
<1>13. floor' >= floor /\ floor' \in Nat /\ key[e] \in Nat
  BY <1>1, <1>12
<1>14. /\ proc' \in [Procs -> Commands] /\ key' \in [Devices -> Nat]
       /\ account' \in [Devices -> Accounts] /\ crossed' \subseteq Procs
       /\ \A q \in Procs : SoundAt(q)'
  <2>1. /\ refused \subseteq refused' /\ (ring # <<>> => ring' # <<>>) /\ s \in Commands
        /\ Sound(s, e, key[e], account[e], floor', refused', ring', p \in crossed)
        /\ proc' = [proc EXCEPT ![p] = s] /\ account[e] \in Accounts
    BY <1>1, <1>2, <1>5, <1>10, <1>12
  <2> HIDE DEF s
  <2> QED BY <1>11, <1>13, <2>1, SoundStep
<1>15. TypeOK'
  BY <1>1, <1>2, <1>12, <1>14 DEF KeyringInv, TypeOK
<1>16. \A q \in Procs : proc'[q] = IF q = p THEN s ELSE proc[q]
  BY <1>1, <1>2
<1>17. Numbered /\ \A q \in Procs : proc[q].n \in Nat
  BY <1>1 DEF KeyringInv, Commands
<1>18. Numbered'
  <2>1. started + 1 \in 1..started' /\ started + 1 \notin undone /\ started + 1 \notin 1..started
    BY <1>1, <1>2, <1>17 DEF Numbered
  <2>2. undone' \subseteq 0..started' /\ \A n \in 1..started : n \in 1..started'
    BY <1>1, <1>2, <1>12, <1>17 DEF Numbered
  <2>3. \A q \in Procs : proc'[q].cmd # "none" => proc'[q].n \in 1..started' /\ proc'[q].n \notin undone'
    BY <1>5, <1>12, <1>16, <1>17, <2>1, <2>2 DEF Numbered
  <2>4. ASSUME NEW q \in Procs, NEW o \in Procs, q # o,
               proc'[q].cmd # "none", proc'[o].cmd # "none"
        PROVE  proc'[q].n # proc'[o].n
    <3>1. CASE q = p
      BY <1>5, <1>16, <1>17, <2>1, <2>4, <3>1 DEF Numbered
    <3>2. CASE o = p
      BY <1>5, <1>16, <1>17, <2>1, <2>4, <3>2 DEF Numbered
    <3>3. CASE q # p /\ o # p
      BY <1>16, <1>17, <2>4, <3>3 DEF Numbered
    <3> QED BY <3>1, <3>2, <3>3
  <2> QED BY <2>2, <2>3, <2>4 DEF Numbered
<1>19. ASSUME NEW R, R \in Seq(Generations), Real(R, started) PROVE Real(R, started + 1)
  <2>1. \A i \in DOMAIN R : \A w \in R[i].wraps : w.id \in Nat
    BY <1>19, RingIs, GenerationIs DEF Wrapped
  <2> QED BY <1>1, <1>19, <2>1 DEF Real
<1>20. Stored' /\ UndoneIsGone'
  BY <1>2, <1>12, <1>19 DEF KeyringInv, TypeOK, Stored, Readable, UndoneIsGone
<1>21. Keyed' /\ RevocationFinished'
  BY <1>12 DEF KeyringInv, Keyed, RevocationFinished
<1>22. Signed'
  <2>1. OnlyItsWraps(s, ring)
    <3>1. \A i \in DOMAIN ring : \A w \in ring[i].wraps : w.id \in Nat /\ w.id <= started
      BY <1>1, RingIs, GenerationIs DEF Wrapped, KeyringInv, Stored, Real
    <3>2. \A i \in DOMAIN ring : \A w \in ring[i].wraps : w.id # started + 1
      BY <1>1, <3>1
    <3> QED BY <1>5, <3>2 DEF OnlyItsWraps
  <2> QED BY <1>12, <1>16, <2>1 DEF KeyringInv, Signed
<1> QED BY <1>14, <1>15, <1>18, <1>20, <1>21, <1>22 DEF KeyringInv

LEMMA StartKeeps ==
    ASSUME KeyringInv, History, NEW p \in Procs, Start(p)
    PROVE  KeyringInv'
<1> DEFINE kd == key[On(p)]
           none == <<>>
           fresh == started + 1
           Still == UNCHANGED <<ring, key, account, controlPlane, ghosts>>
<1>1. /\ On(p) \in Devices /\ ring \in Seq(Generations) /\ started \in Nat /\ kd \in Nat
      /\ request \in [Devices -> Requests]
  BY Known DEF KeyringInv, TypeOK
<1>2. none \in Seq(Generations) /\ 0 \in Nat /\ NoKey \in Nat /\ fresh \in Nat /\ fresh # NoKey
  BY <1>1, EmptySeq DEF NoKey
<1>3. \A pc \in {"secret", "store", "request", "confirm"} : pc \in Before \cap Stages
  BY DEF Before, Stages
<1>4. /\ "secret" \in FlowOf("init") /\ "request" \in FlowOf("join") /\ "store" \in FlowOf("join")
      /\ \A c \in {"recover", "approve", "revoke", "use"} : "confirm" \in FlowOf(c)
  BY DEF FlowOf
<1>5. "-" \in Devices \cup {"-"}
  OBVIOUS
<1>6. CASE StartInit(p)
  <2>1. Begin(p, "init", "secret", "-", none, fresh, 0, NoKey) /\ Still
    BY <1>6 DEF StartInit
  <2> HIDE DEF none
  <2> QED BY <1>1, <1>2, <1>3, <1>4, <1>5, <2>1, BeginKeeps
<1>7. CASE StartRecover(p)
  <2>1. /\ Begin(p, "recover", "confirm", "-", ring, NoKey, 0, NoKey) /\ Still
        /\ account[On(p)] = NoAccount /\ ring # <<>>
    BY <1>7 DEF StartRecover
  <2> QED BY <1>1, <1>2, <1>3, <1>4, <1>5, <2>1, BeginKeeps
<1>8. CASE StartJoin(p)
  <2>1. Still /\ account[On(p)] = NoAccount
    BY <1>8 DEF StartJoin
  <2>2. CASE kd # NoKey /\ Begin(p, "join", "request", "-", none, kd, 0, NoKey)
    <3> HIDE DEF none
    <3> QED BY <1>1, <1>2, <1>3, <1>4, <1>5, <2>1, <2>2, BeginKeeps
  <2>3. CASE Begin(p, "join", "store", "-", none, fresh, 0, NoKey)
    <3>1. /\ "store" \in Before \cap Stages /\ "store" \in FlowOf("join")
          /\ "store" \in {"secret", "store", "request", "confirm"}
          /\ "store" # "request" /\ "store" # "confirm"
      BY <1>3, <1>4
    <3> HIDE DEF none, kd
    <3> QED BY <1>2, <1>5, <2>1, <2>3, <3>1, BeginKeeps
  <2> QED BY <1>8, <2>2, <2>3 DEF StartJoin
<1>9. CASE StartApprove(p)
  <2>1. PICK d \in Devices :
          /\ Begin(p, "approve", "confirm", d, none, kd, request[d].id, request[d].key)
          /\ Still /\ request[d].status = "pending"
    BY <1>9 DEF StartApprove
  <2>2. request[d].id \in Nat /\ request[d].key \in Nat /\ request[d].key # NoKey
    BY <1>1, <2>1 DEF Requests, KeyringInv, Keyed
  <2> HIDE DEF none, kd
  <2> QED BY <1>1, <1>2, <1>3, <1>4, <2>1, <2>2, BeginKeeps
<1>10. CASE StartRevoke(p)
  <2>1. PICK d \in Devices \ {On(p)}, asked \in {0, 1} :
          Begin(p, "revoke", "confirm", d, none, kd, asked, NoKey) /\ Still
    BY <1>10 DEF StartRevoke
  <2>2. asked \in Nat
    OBVIOUS
  <2> HIDE DEF none, kd
  <2> QED BY <1>1, <1>2, <1>3, <1>4, <2>1, <2>2, BeginKeeps
<1>11. CASE StartUse(p)
  <2>1. Begin(p, "use", "confirm", "-", ring, kd, 0, NoKey) /\ Still /\ ring # <<>>
    BY <1>11 DEF StartUse
  <2> HIDE DEF kd
  <2> QED BY <1>1, <1>2, <1>3, <1>4, <1>5, <2>1, BeginKeeps
<1> QED BY <1>6, <1>7, <1>8, <1>9, <1>10, <1>11 DEF Start

------------------------------------------------------------------------------
(* The outside world.                                                      *)
LEMMA ExpireKeeps ==
    ASSUME KeyringInv, History, NEW d \in Devices, Expire(d)
    PROVE  KeyringInv'
<1> DEFINE q == [request[d] EXCEPT !.status = "expired"]
<1>1. request \in [Devices -> Requests] /\ request' = [request EXCEPT ![d] = q]
  BY DEF KeyringInv, TypeOK, Expire
<1>2. q \in Requests /\ q.status # "pending"
  BY <1>1 DEF Requests
<1> HIDE DEF q
<1>3. request' \in [Devices -> Requests] /\ Keyed'
  <2>1. \A e \in Devices : request'[e] = IF e = d THEN q ELSE request[e]
    BY <1>1
  <2> QED BY <1>1, <1>2, <2>1 DEF KeyringInv, Keyed
<1>4. UNCHANGED <<ring, key, account, floor, refused, proc, started, backup, restores, undone, closed>>
  BY DEF Expire, ghosts
<1>5. TypeOK' /\ \A p \in Procs : SoundAt(p)'
  <2>1. TypeOK'
    BY <1>3, <1>4, CrossedIs DEF KeyringInv, TypeOK
  <2>2. floor' \in Nat /\ floor' >= floor /\ refused \subseteq refused'
    BY <1>4 DEF KeyringInv, TypeOK
  <2>3. \A p \in Procs : SoundAt(p)'
    BY <1>4, <2>2, OthersStay
  <2> QED BY <2>1, <2>3
<1>6. Numbered' /\ Stored' /\ Signed' /\ UndoneIsGone' /\ RevocationFinished'
  BY <1>4 DEF KeyringInv, Numbered, Stored, Readable, Signed, UndoneIsGone, RevocationFinished
<1> QED BY <1>3, <1>5, <1>6 DEF KeyringInv

LEMMA RestoreKeeps ==
    ASSUME KeyringInv, History, Restore
    PROVE  KeyringInv'
<1>1. /\ ring' = backup /\ backup # <<>> /\ restores' = restores + 1 /\ restores \in Nat
      /\ UNCHANGED <<key, account, floor, refused, request, proc, started, backup, undone, closed>>
      /\ floor \in Nat
  BY DEF Restore, controlPlane, KeyringInv, TypeOK
<1>2. ASSUME NEW p \in Procs PROVE SoundAt(p)'
  <2>1. floor' \in Nat /\ floor' >= floor /\ refused \subseteq refused'
    BY <1>1
  <2> QED BY <1>1, <2>1, OthersStay
<1>3. TypeOK' /\ Numbered' /\ Keyed' /\ RevocationFinished'
  BY <1>1, CrossedIs DEF KeyringInv, TypeOK, Numbered, Keyed, RevocationFinished
<1>4. Stored'
  BY <1>1 DEF KeyringInv, Stored, Readable
<1>5. Signed' /\ UndoneIsGone'
  BY <1>1 DEF Signed, UndoneIsGone
<1> QED BY <1>2, <1>3, <1>4, <1>5 DEF KeyringInv

------------------------------------------------------------------------------
(* Steps that write the keyring.                                           *)
LEMMA Writing ==
    ASSUME KeyringInv, History, NEW p \in Procs, NEW s \in Commands, NEW kd \in Nat,
           NEW R \in Seq(Generations), Real(R, started), Size(R) \in 0..ReadLimit,
           ring # <<>> => R # <<>>,
           proc' = [proc EXCEPT ![p] = s], key' = [key EXCEPT ![On(p)] = kd], ring' = R,
           backup' = backup \/ (ring # <<>> /\ backup' = ring),
           undone' \subseteq Nat,
           UNCHANGED <<account, controlPlane, started, restores, closed>>,
           Sound(s, On(p), kd, account[On(p)], floor, refused, R, p \in crossed)
    PROVE  /\ TypeOK' /\ \A q \in Procs : SoundAt(q)'
           /\ Stored' /\ Keyed' /\ RevocationFinished'
<1>1. /\ account \in [Devices -> Accounts] /\ floor \in Nat /\ account[On(p)] \in Accounts
      /\ ring \in Seq(Generations)
  BY Known DEF KeyringInv, TypeOK
<1>2. account' = [account EXCEPT ![On(p)] = account[On(p)]]
  BY <1>1, Unmoved
<1>3. /\ floor' = floor /\ refused' = refused /\ request' = request /\ closed' = closed
      /\ started' = started /\ restores' = restores
  BY DEF controlPlane
<1>4. floor' \in Nat /\ floor' >= floor /\ refused \subseteq refused'
  BY <1>1, <1>3
<1>5. /\ proc' \in [Procs -> Commands] /\ key' \in [Devices -> Nat]
      /\ account' \in [Devices -> Accounts] /\ crossed' \subseteq Procs
      /\ \A q \in Procs : SoundAt(q)'
  BY <1>1, <1>2, <1>3, <1>4, SoundStep
<1>6. backup' \in Seq(Generations)
  BY <1>1 DEF KeyringInv, TypeOK
<1>7. TypeOK'
  BY <1>3, <1>5, <1>6 DEF KeyringInv, TypeOK
<1>8. Stored'
  <2>1. Real(ring', started') /\ Readable'
    BY <1>3 DEF Readable
  <2>2. Real(backup', started') /\ (backup' # <<>> => Size(backup') \in 0..ReadLimit)
    BY <1>3 DEF KeyringInv, Stored, Readable
  <2> QED BY <2>1, <2>2 DEF Stored
<1>9. Keyed' /\ RevocationFinished'
  BY <1>3 DEF KeyringInv, Keyed, RevocationFinished
<1> QED BY <1>5, <1>7, <1>8, <1>9

(* A write that adds wraps of the command that writes.                     *)
LEMMA Adds ==
    ASSUME KeyringInv, History, NEW p \in Procs, NEW s \in Commands, NEW kd \in Nat, NEW R,
           proc[p].cmd # "none", Follows(ring, R, proc[p].n), Writable(R),
           proc' = [proc EXCEPT ![p] = s], key' = [key EXCEPT ![On(p)] = kd], ring' = R,
           backup' = backup \/ (ring # <<>> /\ backup' = ring),
           UNCHANGED <<account, controlPlane, started, restores, undone, closed>>,
           s = Idle \/ SameCommand(proc[p], s),
           restores = 0 => OnlyItsWraps(s, R),
           Sound(s, On(p), kd, account[On(p)], floor, refused, R, p \in crossed)
    PROVE  KeyringInv'
<1> DEFINE n == proc[p].n
<1>1. n \in Nat \ {0} /\ n \in 1..started /\ started \in Nat /\ n \notin undone
  BY NumberIs
<1>2. R \in Seq(Generations) /\ R # <<>>
  BY DEF Follows
<1>3. ring \in Seq(Generations) /\ Real(ring, started) /\ undone \subseteq Nat
  BY DEF KeyringInv, TypeOK, Stored
<1>4. ASSUME NEW i \in DOMAIN R, NEW w \in R[i].wraps
      PROVE  (i \in DOMAIN ring /\ w \in ring[i].wraps) \/ (w.id = n /\ w.key # NoKey)
  BY <1>4 DEF Follows
<1>5. Real(R, started)
  BY <1>1, <1>3, <1>4 DEF Real
<1>6. Size(R) \in 0..ReadLimit
  BY KeyringAssumption DEF Writable
<1>7. undone' = undone /\ restores' = restores /\ started' = started
  OBVIOUS
<1>8. /\ TypeOK' /\ \A q \in Procs : SoundAt(q)'
      /\ Stored' /\ Keyed' /\ RevocationFinished'
  BY <1>2, <1>3, <1>5, <1>6, <1>7, Writing
<1>9. Numbered'
  BY <1>7, NumberedStep, IdleIs DEF SameCommand, Same
<1>10. UndoneIsGone'
  <2>1. ASSUME restores = 0, NEW i \in DOMAIN R, NEW w \in R[i].wraps PROVE w.id \notin undone
    BY <1>1, <1>4, <2>1 DEF KeyringInv, UndoneIsGone
  <2> QED BY <1>7, <2>1 DEF UndoneIsGone
<1>11. Signed'
  <2>1. ASSUME restores = 0, NEW q \in Procs, q # p PROVE OnlyItsWraps(proc[q], R)
    <3>1. OnlyItsWraps(proc[q], ring)
      BY <2>1 DEF KeyringInv, Signed
    <3>2. proc[q].cmd = "approve" => proc[q].n # n
      BY <2>1 DEF KeyringInv, Numbered
    <3> QED BY <1>4, <3>1, <3>2 DEF OnlyItsWraps
  <2>2. \A q \in Procs : proc'[q] = IF q = p THEN s ELSE proc[q]
    BY Known
  <2> QED BY <1>7, <2>1, <2>2 DEF Signed
<1> QED BY <1>8, <1>9, <1>10, <1>11 DEF KeyringInv

(* What a command is about to write follows the keyring it was made from.  *)
LEMMA PutFollows ==
    ASSUME KeyringInv, NEW p \in Procs, proc[p].pc = "put", Unchanged(p)
    PROVE  LET r == proc[p]
               d == On(p)
               R == MutatedBy(r, d, ring)
               gens == UnwrapGenerations(ring, d, r.mine)
           IN  /\ Follows(ring, R, r.n) /\ Writable(R)
               /\ r.cmd = "recover" => CanUnwrap(R, d, r.mine)
               /\ restores = 0 /\ r.cmd = "approve" =>
                     \A i \in DOMAIN R : \A w \in R[i].wraps : w.id = r.n =>
                        /\ w.device = r.target /\ ~HasDevice(ring, r.target)
                        /\ i \in Appended(ring, gens, r.target, r.reqKey)
<1> DEFINE r == proc[p]
           d == On(p)
           kd == r.mine
           R == MutatedBy(r, d, ring)
           gens == UnwrapGenerations(ring, d, r.mine)
<1>1. /\ r \in Commands /\ d \in Devices /\ kd \in Nat /\ ring \in Seq(Generations)
      /\ Sound(r, d, key[d], account[d], floor, refused, ring, p \in crossed)
  BY Known DEF Commands
<1>2. r.ring = ring /\ ring # <<>> /\ Writable(R)
  BY <1>1 DEF Unchanged, Sound, HasRing, Prepared
<1>3. r.cmd \in {"recover", "approve", "revoke"} /\ r.n \in Nat
  BY <1>1, CommandAt DEF Commands
<1>4. Real(ring, started) /\ started \in Nat
  BY DEF KeyringInv, TypeOK, Stored
<1>5. CASE r.cmd = "recover"
  <2> DEFINE all == RecoveryGenerations(ring)
             E == EnrolAll(ring, all, d, kd, r.n)
  <2>1. R = E
    BY <1>5 DEF MutatedBy
  <2>2. kd \in Nat \ {0}
    BY <1>1, <1>5 DEF Sound, Equipped, NoKey
  <2>3. /\ Follows(ring, E, r.n) /\ Len(E) = Len(ring)
        /\ \A i \in all \cap DOMAIN ring : KeyIn(E[i], d) = kd
    <3> HIDE DEF r, d, kd, all, R
    <3>1. d \in Devices /\ kd \in Nat /\ kd # NoKey /\ r.n \in Nat
          /\ ring \in Seq(Generations) /\ ring # <<>> /\ Locked(ring)
      BY <1>1, <1>2, <1>3, <1>4, <2>2 DEF Real, Locked, NoKey
    <3>2. Enrols(ring, E, all, d, kd, r.n)
      BY <3>1, EnrolIs
    <3> QED BY <3>2 DEF Enrols
  <2>4. Len(ring) \in all /\ Len(ring) \in DOMAIN ring /\ Len(E) \in DOMAIN E
    BY <1>1, <1>2, <2>3, RingIs DEF RecoveryGenerations, Follows
  <2>5. CanUnwrap(E, d, kd)
    BY <2>2, <2>3, <2>4 DEF CanUnwrap, UnwrapGenerations, Opens, NoKey
  <2> HIDE DEF E, R
  <2> QED BY <1>2, <1>5, <2>1, <2>3, <2>5 DEF R
<1>6. CASE r.cmd = "approve"
  <2>1. r.target \in Devices /\ r.reqKey \in Nat \ {0}
    BY <1>1, <1>6 DEF Sound, Equipped, NoKey, Commands
  <2>2. ASSUME restores = 0, NEW i \in DOMAIN ring, NEW w \in ring[i].wraps PROVE w.id # r.n
    <3>1. OnlyItsWraps(r, ring)
      BY <2>2 DEF KeyringInv, Signed
    <3> QED BY <1>6, <2>2, <3>1 DEF OnlyItsWraps, Late
  <2>3. CASE HasDevice(ring, r.target)
    <3>1. R = ring
      BY <1>6, <2>3 DEF MutatedBy
    <3>2. \A i \in DOMAIN ring : \A w \in ring[i].wraps : KeyIn(ring[i], w.device) # NoKey
      BY <1>1, <1>4, Listed
    <3>3. Len(ring) >= Len(ring)
      BY <1>1, RingIs
    <3>4. Follows(ring, ring, r.n)
      BY <1>1, <1>2, <3>2, <3>3 DEF Follows
    <3> HIDE DEF R
    <3> QED BY <1>2, <1>6, <2>2, <3>1, <3>4 DEF R
  <2>4. CASE ~HasDevice(ring, r.target)
    <3> DEFINE E == EnrolAll(ring, gens, r.target, r.reqKey, r.n)
    <3>1. R = E
      BY <1>6, <2>4 DEF MutatedBy
    <3> HIDE DEF gens
    <3>2. /\ Follows(ring, E, r.n)
          /\ Len(E) = Len(ring)
          /\ \A i \in DOMAIN ring : \A w \in E[i].wraps :
                 \/ w \in ring[i].wraps
                 \/ w.id = r.n /\ w.device = r.target /\ i \in Appended(ring, gens, r.target, r.reqKey)
      <4> HIDE DEF r, d, kd, R
      <4>1. r.target \in Devices /\ r.reqKey \in Nat /\ r.reqKey # NoKey /\ r.n \in Nat
            /\ ring \in Seq(Generations) /\ ring # <<>> /\ Locked(ring)
        BY <1>1, <1>2, <1>3, <1>4, <2>1 DEF Real, Locked, NoKey
      <4>2. Enrols(ring, E, gens, r.target, r.reqKey, r.n)
        BY <4>1, EnrolIs
      <4> QED BY <4>2 DEF Enrols
    <3> HIDE DEF E, R
    <3>3. DOMAIN E = DOMAIN ring
      BY <1>1, <3>2, RingIs DEF Follows
    <3>4. ASSUME restores = 0, NEW i \in DOMAIN R, NEW w \in R[i].wraps, w.id = r.n
          PROVE  w.device = r.target /\ i \in Appended(ring, gens, r.target, r.reqKey)
      BY <2>2, <3>1, <3>2, <3>3, <3>4
    <3> QED BY <1>2, <1>6, <2>4, <3>1, <3>2, <3>4 DEF R, gens
  <2> QED BY <2>3, <2>4
<1>7. CASE r.cmd = "revoke"
  <2>1. r.target \in Devices
    BY <1>1, <1>7 DEF Sound, Equipped
  <2>2. R = Rollover(ring, r.target, r.n)
    BY <1>7 DEF MutatedBy
  <2> HIDE DEF R
  <2>3. Follows(ring, R, r.n)
    BY <1>1, <1>2, <1>3, <1>4, <2>1, <2>2, RolloverIs
  <2> QED BY <1>2, <1>7, <2>3 DEF R
<1> QED BY <1>3, <1>5, <1>6, <1>7

LEMMA PutKeeps ==
    ASSUME KeyringInv, History, NEW p \in Procs, Put(p)
    PROVE  KeyringInv'
<1> DEFINE r == proc[p]
           d == On(p)
           R == MutatedBy(r, d, ring)
           gens == UnwrapGenerations(ring, d, r.mine)
           wrote == IF r.cmd = "approve" /\ ~HasDevice(ring, r.target)
                    THEN Appended(ring, gens, r.target, r.reqKey) ELSE {}
           pc == IF r.cmd = "recover" THEN "enrol" ELSE "observe"
           s == Wrote(r, R, wrote, pc)
<1>1. /\ r \in Commands /\ d \in Devices /\ key[d] \in Nat /\ account[d] \in Accounts
      /\ floor \in Nat /\ Sound(r, d, key[d], account[d], floor, refused, ring, p \in crossed)
      /\ ring \in Seq(Generations) /\ proc \in [Procs -> Commands] /\ r.pc = "put"
      /\ Unchanged(p) /\ r.ring = ring
  BY Known DEF Put, Unchanged
<1>2. /\ proc' = [proc EXCEPT ![p] = s] /\ ring' = R
      /\ backup' = backup \/ (ring # <<>> /\ backup' = ring)
      /\ UNCHANGED <<key, account, controlPlane, started, restores, undone, closed>>
  <2>1. R = Mutated(p, ring)
    BY MutatedIs
  <2> HIDE DEF R
  <2> QED BY <1>1, <2>1 DEF Put, Store, Wrote
<1>3. r.cmd \in {"recover", "approve", "revoke"} /\ r.cmd # "none"
  BY <1>1, CommandAt
<1>4. /\ Follows(ring, R, r.n) /\ Writable(R)
      /\ r.cmd = "recover" => CanUnwrap(R, d, r.mine)
      /\ restores = 0 /\ r.cmd = "approve" =>
            \A i \in DOMAIN R : \A w \in R[i].wraps : w.id = r.n =>
               /\ w.device = r.target /\ ~HasDevice(ring, r.target)
               /\ i \in Appended(ring, gens, r.target, r.reqKey)
  BY <1>1, PutFollows
<1>5. wrote \in SUBSET Nat
  <2>1. gens \subseteq DOMAIN ring /\ DOMAIN ring = 1..Len(ring) /\ Len(ring) \in Nat
    BY <1>1, RingIs DEF UnwrapGenerations
  <2>2. gens \subseteq Nat
    BY <2>1
  <2> HIDE DEF gens
  <2> QED BY <2>2 DEF Appended
<1>6. R \in Seq(Generations) /\ R # <<>> /\ Len(R) >= Len(ring)
  BY <1>4 DEF Follows
<1> HIDE DEF R
<1>7. \A i \in DOMAIN R : \A w \in R[i].wraps : restores = 0 /\ r.cmd = "approve" /\ w.id = r.n =>
          w.device = r.target /\ i \in wrote
  BY <1>4
<1> HIDE DEF wrote
<1>8. SameTrust(r, s) /\ s.pc = pc /\ s.ring = R /\ s.appended = wrote
  <2>1. pc \in Stages
    BY DEF Stages
  <2> HIDE DEF pc
  <2> QED BY <1>1, <1>5, <1>6, <2>1, BecomesWrote
<1> HIDE DEF s
<1>9. Flow(s) /\ Equipped(s) /\ HasRing(s, R)
  BY <1>1, <1>3, <1>6, <1>8 DEF Flow, FlowOf, Sound, Equipped, HasRing, SameTrust, SameCommand, Same
<1>10. Prepared(s, d) /\ Reported(s, floor, refused)
  BY <1>4, <1>8 DEF Prepared, Reported, SameTrust, SameCommand, Same
<1>11. p \in crossed \/ Fits(s, key[d], account[d], floor)
  <2> SUFFICES ASSUME p \notin crossed PROVE Fits(s, key[d], account[d], floor)
    OBVIOUS
  <2>0. KeyThere(r, key[d]) /\ Unrecorded(r, account[d]) /\ Bounded(r, account[d], floor)
    BY <1>1 DEF Sound, Fits
  <2>1. Reaches(s)
    <3>1. Reaches(r)
      BY <1>1, <1>3, <2>0 DEF Bounded, Checked
    <3>2. r.anchor.gen \in Nat /\ r.since \subseteq Nat /\ Len(ring) \in Nat /\ Len(R) \in Nat
      BY <1>1, <1>6, RingIs DEF Commands, Accounts
    <3> QED BY <1>1, <1>6, <1>8, <3>1, <3>2 DEF Reaches, SameTrust, SameCommand, Same
  <2>2. CarriesFloor => \A g \in s.since : g <= account[d].gen \/ g <= s.floor
    BY <1>1, <1>8, <2>0 DEF Bounded, Checking, SameTrust, SameCommand, Same
  <2>3. s.anchor.gen = account[d].gen
    BY <1>1, <1>8, <2>0 DEF Bounded, Checking, SameTrust
  <2>4. Bounded(s, account[d], floor)
    BY <1>8, <2>1, <2>2, <2>3 DEF Bounded, Before
  <2>5. KeyThere(s, key[d]) /\ Unrecorded(s, account[d])
    BY <1>1, <1>3, <1>8, <2>0 DEF KeyThere, Unrecorded, SameTrust, SameCommand, Same
  <2> QED BY <2>4, <2>5 DEF Fits
<1>12. Sound(s, d, key[d], account[d], floor, refused, R, p \in crossed)
  BY <1>9, <1>10, <1>11 DEF Sound
<1>13. restores = 0 => OnlyItsWraps(s, R)
  <2>1. s.cmd = "approve" => s.pc \in Late
    BY <1>8 DEF SameTrust, SameCommand, Same, Late
  <2> QED BY <1>7, <1>8, <2>1 DEF OnlyItsWraps, SameTrust, SameCommand, Same
<1>14. key' = [key EXCEPT ![d] = key[d]] /\ s \in Commands /\ SameCommand(r, s)
  BY <1>1, <1>2, <1>8, Unmoved DEF KeyringInv, TypeOK, SameTrust, SameCommand, Same
<1> QED BY <1>1, <1>2, <1>3, <1>4, <1>12, <1>13, <1>14, Adds

LEMMA RecoverFailsKeeps ==
    ASSUME KeyringInv, History, NEW p \in Procs, RecoverFails(p)
    PROVE  KeyringInv'
<1> DEFINE r == proc[p]
           d == On(p)
           R == MutatedBy(r, d, ring)
<1>1. /\ r \in Commands /\ account[d] \in Accounts /\ account \in [Devices -> Accounts]
      /\ r.cmd = "recover" /\ r.old \in Nat
  BY Known DEF RecoverFails, Commands, KeyringInv, TypeOK
<1>2. /\ Exit(p) /\ key' = [key EXCEPT ![d] = r.old] /\ account' = account
      /\ UNCHANGED <<controlPlane, started, restores, undone, closed>>
  BY DEF RecoverFails
<1>3. /\ GoesOn(r, Idle) /\ Idle \in Commands /\ OnlyItsWraps(Idle, R)
      /\ \A k : Sound(Idle, d, r.old, account[d], floor, refused, k, p \in crossed)
  BY IdleIs DEF GoesOn, OnlyItsWraps
<1>4. CASE UNCHANGED <<ring, backup>>
  <2>1. account' = [account EXCEPT ![d] = account[d]]
    BY <1>1, <1>2, Unmoved
  <2>2. UNCHANGED <<ring, controlPlane, started, ghosts>>
    BY <1>2, <1>4 DEF ghosts
  <2> QED BY <1>1, <1>2, <1>3, <2>1, <2>2, OnDevice DEF Exit
<1>5. CASE r.pc = "put" /\ Unchanged(p) /\ Store(Mutated(p, r.ring))
  <2>1. R = Mutated(p, r.ring)
    BY <1>5, MutatedIs DEF Unchanged
  <2>2. Follows(ring, R, r.n) /\ Writable(R)
    BY <1>5, PutFollows
  <2> HIDE DEF R
  <2>3. ring' = R /\ (backup' = backup \/ (ring # <<>> /\ backup' = ring))
    BY <1>5, <2>1 DEF Store
  <2> QED BY <1>1, <1>2, <1>3, <2>2, <2>3, Adds DEF Exit
<1> QED BY <1>4, <1>5 DEF RecoverFails

LEMMA CreateKeeps ==
    ASSUME KeyringInv, History, NEW p \in Procs, Create(p)
    PROVE  KeyringInv'
<1> DEFINE r == proc[p]
           d == On(p)
           R == New(d, r.n)
           s == Loaded(r, R, "enrol")
<1>1. /\ r \in Commands /\ d \in Devices /\ key[d] \in Nat /\ account[d] \in Accounts
      /\ floor \in Nat /\ Sound(r, d, key[d], account[d], floor, refused, ring, p \in crossed)
      /\ ring = <<>> /\ proc \in [Procs -> Commands] /\ r.pc = "create"
  BY Known DEF Create
<1>2. /\ proc' = [proc EXCEPT ![p] = s] /\ ring' = R /\ Writable(R)
      /\ UNCHANGED <<key, account, controlPlane, started, ghosts>>
  BY <1>1 DEF Create, Loaded
<1>3. r.cmd = "init" /\ r.cmd # "none" /\ r.mine = r.n
  BY <1>1, CommandAt DEF Sound, Equipped
<1>4. r.n \in Nat \ {0}
  BY <1>3, NumberIs
<1>5. Follows(ring, R, r.n) /\ CanUnwrap(R, d, r.mine) /\ R \in Seq(Generations) /\ R # <<>>
  BY <1>1, <1>3, <1>4, NewIs DEF Follows
<1> HIDE DEF R
<1>6. SameTrust(r, s) /\ s.pc = "enrol" /\ s.ring = R
  BY <1>1, <1>5, BecomesLoaded DEF Stages
<1> HIDE DEF s
<1>7. Flow(s) /\ Equipped(s) /\ HasRing(s, R)
  BY <1>1, <1>3, <1>5, <1>6 DEF Flow, FlowOf, Sound, Equipped, HasRing, SameTrust, SameCommand, Same
<1>8. Prepared(s, d) /\ Reported(s, floor, refused)
  BY <1>5, <1>6 DEF Prepared, Reported, SameTrust, SameCommand
<1>9. p \in crossed \/ Fits(s, key[d], account[d], floor)
  BY <1>1, <1>3, <1>6 DEF Sound, Fits, KeyThere, Unrecorded, Bounded, Before, Checking, SameTrust,
     SameCommand, Same
<1>10. Sound(s, d, key[d], account[d], floor, refused, R, p \in crossed)
  BY <1>7, <1>8, <1>9 DEF Sound
<1>11. /\ key' = [key EXCEPT ![d] = key[d]] /\ s \in Commands /\ SameCommand(r, s)
       /\ OnlyItsWraps(s, R) /\ backup' = backup
       /\ UNCHANGED <<account, controlPlane, started, restores, undone, closed>>
  BY <1>1, <1>2, <1>3, <1>6, Unmoved DEF KeyringInv, TypeOK, SameTrust, SameCommand, Same,
     OnlyItsWraps,
     ghosts
<1> QED BY <1>1, <1>2, <1>3, <1>5, <1>10, <1>11, Adds

LEMMA CreateFailsKeeps ==
    ASSUME KeyringInv, History, NEW p \in Procs, CreateFails(p)
    PROVE  KeyringInv'
<1> DEFINE r == proc[p]
           d == On(p)
           R == New(d, r.n)
<1>1. /\ d \in Devices /\ account[d] \in Accounts /\ account \in [Devices -> Accounts]
      /\ r.pc = "create" /\ NoKey \in Nat
  BY Known DEF CreateFails, KeyringInv, TypeOK, NoKey
<1>2. /\ Exit(p) /\ key' = [key EXCEPT ![d] = NoKey] /\ account' = account
      /\ UNCHANGED <<controlPlane, started, ghosts>>
  BY DEF CreateFails
<1>3. /\ GoesOn(r, Idle) /\ Idle \in Commands /\ OnlyItsWraps(Idle, R)
      /\ \A k : Sound(Idle, d, NoKey, account[d], floor, refused, k, p \in crossed)
  BY IdleIs DEF GoesOn, OnlyItsWraps
<1>4. CASE UNCHANGED ring
  <2>1. account' = [account EXCEPT ![d] = account[d]]
    BY <1>1, <1>2, Unmoved
  <2> QED BY <1>1, <1>2, <1>3, <1>4, <2>1, OnDevice DEF Exit
<1>5. CASE ring = <<>> /\ Writable(R) /\ ring' = R
  <2>1. r.cmd # "none"
    BY <1>1, CommandAt
  <2>2. Follows(ring, R, r.n)
    BY <1>1, <1>5, <2>1, NumberIs, NewIs
  <2> HIDE DEF R
  <2>3. backup' = backup /\ UNCHANGED <<account, controlPlane, started, restores, undone, closed>>
    BY <1>2 DEF ghosts
  <2> QED BY <1>1, <1>2, <1>3, <1>5, <2>1, <2>2, <2>3, Adds DEF Exit
<1> QED BY <1>4, <1>5 DEF CreateFails

LEMMA UndoKeeps ==
    ASSUME KeyringInv, History, NEW p \in Procs, Undo(p)
    PROVE  KeyringInv'
<1> DEFINE r == proc[p]
           d == On(p)
           R == UnenrolAppended(ring, r.target, r.appended, r.n)
<1>1. /\ r \in Commands /\ d \in Devices /\ key[d] \in Nat /\ key \in [Devices -> Nat]
      /\ ring \in Seq(Generations) /\ proc \in [Procs -> Commands] /\ r.pc = "undo"
  BY Known DEF Undo, KeyringInv, TypeOK
<1>2. /\ proc' = [proc EXCEPT ![p] = Idle] /\ ring' = R /\ Writable(R)
      /\ backup' = backup \/ (ring # <<>> /\ backup' = ring)
      /\ undone' = undone \cup {r.n} /\ key' = key /\ account' = account
      /\ UNCHANGED <<controlPlane, started, restores, closed>>
  BY DEF Undo, Store, Exit
<1>3. r.cmd = "approve" /\ r.cmd # "none"
  BY <1>1, CommandAt
<1>4. r.n \in Nat \ {0} /\ r.n \in 1..started /\ started \in Nat
  BY <1>3, NumberIs
<1>5. /\ R \in Seq(Generations) /\ Len(R) = Len(ring) /\ DOMAIN R = DOMAIN ring
      /\ \A i \in DOMAIN ring :
            R[i].wraps = IF i \in r.appended
                         THEN {w \in ring[i].wraps : ~(w.device = r.target /\ w.id = r.n)}
                         ELSE ring[i].wraps
  <2>1. Unenrols(ring, R, r.target, r.appended, r.n)
    BY <1>1, UnenrolIs
  <2> QED BY <2>1 DEF Unenrols
<1> HIDE DEF R
<1>6. \A i \in DOMAIN R : i \in DOMAIN ring /\ \A w \in R[i].wraps : w \in ring[i].wraps
  BY <1>5
<1>7. Real(R, started)
  BY <1>6 DEF KeyringInv, Stored, Real
<1>8. ring # <<>> => R # <<>>
  <2>1. R = <<>> => Len(R) = 0
    BY <1>5
  <2>2. Len(ring) = 0 => ring = <<>>
    BY <1>1, EmptySeq
  <2> QED BY <1>5, <2>1, <2>2
<1>9. Size(R) \in 0..ReadLimit
  BY <1>2, KeyringAssumption DEF Writable
<1>10. undone' \subseteq Nat
  BY <1>2, <1>4 DEF KeyringInv, TypeOK
<1>11. /\ Idle \in Commands /\ Sound(Idle, d, key[d], account[d], floor, refused, R, p \in crossed)
       /\ key' = [key EXCEPT ![d] = key[d]]
  BY <1>1, <1>2, IdleIs, Unmoved
<1>12. /\ TypeOK' /\ \A q \in Procs : SoundAt(q)'
       /\ Stored' /\ Keyed' /\ RevocationFinished'
  BY <1>1, <1>2, <1>5, <1>7, <1>8, <1>9, <1>10, <1>11, Writing
<1>13. \A q \in Procs : proc'[q] = IF q = p THEN Idle ELSE proc[q]
  BY <1>1, <1>2
<1>14. Numbered'
  <2>1. Numbered /\ started' = started
    BY <1>2 DEF KeyringInv
  <2>2. undone' \subseteq 0..started'
    <3>1. r.n \in 0..started
      BY <1>4
    <3> QED BY <1>2, <2>1, <3>1 DEF Numbered
  <2>3. ASSUME NEW q \in Procs, proc'[q].cmd # "none"
        PROVE  q # p /\ proc'[q] = proc[q] /\ proc[q].n # r.n
    BY <1>3, <1>13, <2>1, <2>3, IdleIs DEF Numbered
  <2>4. \A q \in Procs : proc'[q].cmd # "none" =>
            proc'[q].n \in 1..started' /\ proc'[q].n \notin undone'
    BY <1>2, <2>1, <2>3 DEF Numbered
  <2>5. \A q, o \in Procs : proc'[q].cmd # "none" /\ proc'[o].cmd # "none" /\ q # o =>
            proc'[q].n # proc'[o].n
    BY <2>1, <2>3 DEF Numbered
  <2> QED BY <2>2, <2>4, <2>5 DEF Numbered
<1>15. UndoneIsGone'
  <2>1. ASSUME restores = 0, NEW i \in DOMAIN R, NEW w \in R[i].wraps
        PROVE  w.id \notin undone /\ w.id # r.n
    <3>1. i \in DOMAIN ring /\ w \in ring[i].wraps /\ OnlyItsWraps(r, ring)
      BY <1>6, <2>1 DEF KeyringInv, Signed
    <3>2. w.id \notin undone
      BY <2>1, <3>1 DEF KeyringInv, UndoneIsGone
    <3>3. w.id = r.n => i \in r.appended /\ w.device = r.target
      BY <1>3, <3>1 DEF OnlyItsWraps
    <3> QED BY <1>5, <2>1, <3>1, <3>2, <3>3
  <2> QED BY <1>2, <2>1 DEF UndoneIsGone
<1>16. Signed'
  <2>1. ASSUME restores = 0, NEW q \in Procs PROVE OnlyItsWraps(proc'[q], R)
    <3>1. OnlyItsWraps(proc[q], ring)
      BY <2>1 DEF KeyringInv, Signed
    <3> QED BY <1>6, <1>13, <3>1, IdleIs DEF OnlyItsWraps
  <2> QED BY <1>2, <2>1 DEF Signed
<1> QED BY <1>12, <1>14, <1>15, <1>16 DEF KeyringInv

------------------------------------------------------------------------------
(* The invariant holds.                                                    *)
LEMMA InitKeeps == Init => KeyringInv
<1> SUFFICES ASSUME Init PROVE KeyringInv
  OBVIOUS
<1>1. PICK S \in Founders :
         /\ ring = FoundersRing(S)
         /\ key = [d \in Devices |-> IF d \in S THEN 1 ELSE NoKey]
         /\ account = [d \in Devices |->
                        IF d \in S THEN [gen |-> 1, root |-> 1, confirmed |-> 0] ELSE NoAccount]
         /\ floor = 0 /\ refused = {}
         /\ request = [d \in Devices |-> NoRequest]
         /\ proc = [p \in Procs |-> Idle]
         /\ started = 1
         /\ backup = <<>> /\ restores = 0 /\ undone = {} /\ closed = {}
         /\ crossed = {}
  BY DEF Init
<1>2. ring \in Seq(Generations) /\ Real(ring, 1)
  BY <1>1, KeyringAssumption, FoundersRingIs
<1>3. NoAccount \in Accounts /\ NoRequest \in Requests /\ Idle \in Commands
  BY IdleIs DEF NoAccount, Accounts, NoRequest, Requests, NoKey
<1>4. TypeOK
  <2>1. backup \in Seq(Generations)
    BY <1>1, EmptySeq
  <2>2. key \in [Devices -> Nat]
    BY <1>1 DEF NoKey
  <2>3. account \in [Devices -> Accounts]
    <3>1. [gen |-> 1, root |-> 1, confirmed |-> 0] \in Accounts
      BY DEF Accounts
    <3> QED BY <1>1, <1>3, <3>1
  <2>4. request \in [Devices -> Requests] /\ proc \in [Procs -> Commands]
    BY <1>1, <1>3
  <2> QED BY <1>1, <1>2, <2>1, <2>2, <2>3, <2>4 DEF TypeOK
<1>5. \A p \in Procs : proc[p] = Idle
  BY <1>1
<1>6. \A p \in Procs : SoundAt(p)
  BY <1>5, IdleIs DEF SoundAt
<1>7. Numbered /\ Signed
  BY <1>1, <1>5, IdleIs DEF Numbered, Signed, OnlyItsWraps
<1>8. Stored
  <2>1. Readable
    BY <1>1, FoundersAssumption DEF Readable
  <2> QED BY <1>1, <1>2, <2>1 DEF Stored, Real
<1>9. UndoneIsGone /\ Keyed /\ RevocationFinished
  BY <1>1 DEF UndoneIsGone, Keyed, NoRequest, RevocationFinished
<1> QED BY <1>4, <1>6, <1>7, <1>8, <1>9 DEF KeyringInv

LEMMA ChangeKeeps ==
    ASSUME KeyringInv, Change, History
    PROVE  KeyringInv'
<1>1. CASE \E p \in Procs : Start(p)
  BY <1>1, StartKeeps
<1>2. CASE \E p \in Procs : Stop(p)
  BY <1>2, Ends DEF Stop
<1>3. CASE \E p \in Procs : Step(p)
  <2>1. PICK p \in Procs : Step(p)
    BY <1>3
  <2>2. CASE Confirm(p) \/ Remember(p)
    BY <2>2, ConfirmKeeps, RememberKeeps
  <2>3. CASE Load(p) \/ LoadAlready(p) \/ Reload(p)
    BY <2>3, LoadKeeps, LoadAlreadyKeeps, ReloadKeeps
  <2>4. CASE Put(p) \/ PutConflict(p) \/ RecoverFails(p)
    BY <2>4, PutKeeps, PutConflictKeeps, RecoverFailsKeeps
  <2>5. CASE TrustUse(p) \/ Observe(p) \/ Record(p)
    BY <2>5, TrustUseKeeps, ObserveKeeps, RecordKeeps
  <2>6. CASE Use(p)
    BY <2>6, Ends DEF Use
  <2>7. CASE Relay(p) \/ RelayRefused(p) \/ Undo(p) \/ UndoConflict(p)
    BY <2>7, RelayKeeps, RelayRefusedKeeps, UndoKeeps, UndoConflictKeeps
  <2>8. CASE TellConsole(p) \/ Tell(p) \/ RaiseFloor(p) \/ Finish(p)
    BY <2>8, TellConsoleKeeps, TellKeeps, RaiseFloorKeeps, FinishKeeps
  <2>9. CASE InitSecret(p) \/ SetSecret(p) \/ Create(p) \/ CreateFails(p) \/ Decide(p)
    BY <2>9, InitSecretKeeps, SetSecretKeeps, CreateKeeps, CreateFailsKeeps, DecideKeeps
  <2>10. CASE OpenRequest(p) \/ WaitForPairing(p) \/ VerifyJoined(p)
    BY <2>10, OpenRequestKeeps, WaitForPairingKeeps, VerifyJoinedKeeps
  <2>11. CASE Enrolled(p) \/ KeepFloor(p)
    BY <2>11, EnrolledKeeps, KeepFloorKeeps
  <2> QED BY <2>1, <2>2, <2>3, <2>4, <2>5, <2>6, <2>7, <2>8, <2>9, <2>10, <2>11 DEF Step
<1>4. CASE \E d \in Devices : Expire(d)
  BY <1>4, ExpireKeeps
<1>5. CASE Restore
  BY <1>5, RestoreKeeps
<1> QED BY <1>1, <1>2, <1>3, <1>4, <1>5 DEF Change

LEMMA NextKeeps == KeyringInv /\ [Next]_vars => KeyringInv'
<1> SUFFICES ASSUME KeyringInv, [Next]_vars PROVE KeyringInv'
  OBVIOUS
<1>1. CASE Next
  BY <1>1, ChangeKeeps DEF Next
<1>2. CASE UNCHANGED vars
  <2>1. UNCHANGED <<ring, key, account, floor, refused, request, proc, started, backup, restores,
                    undone, closed, crossed>>
    BY <1>2 DEF vars, machine, controlPlane, ghosts
  <2>2. TypeOK' /\ \A p \in Procs : SoundAt(p)'
    BY <2>1 DEF KeyringInv, TypeOK, SoundAt
  <2>3. Numbered' /\ Stored' /\ Signed' /\ UndoneIsGone' /\ Keyed' /\ RevocationFinished'
    BY <2>1 DEF KeyringInv, Numbered, Stored, Readable, Signed, UndoneIsGone, Keyed,
       RevocationFinished
  <2> QED BY <2>2, <2>3 DEF KeyringInv
<1> QED BY <1>1, <1>2

LEMMA KeyringHolds == Spec => []KeyringInv
<1>1. Init => KeyringInv
  BY InitKeeps
<1>2. KeyringInv /\ [Next]_vars => KeyringInv'
  BY NextKeeps
<1> QED BY <1>1, <1>2, PTL DEF Spec

(* KeyringConsistent (init, join, recover, devices approve and revoke):    *)
(* the keyring in storage can always be read back; a pairing that was      *)
(* taken back has left no wrap; and a device about to record its enrolment *)
(* opens the generation it records with its own key, unless another        *)
(* command on the device wrote its key or its record meanwhile.            *)
THEOREM KeyringStaysConsistent == Spec => []KeyringConsistent
<1>1. KeyringInv => KeyringConsistent
  <2> SUFFICES ASSUME KeyringInv PROVE KeyringConsistent
    OBVIOUS
  <2>1. ASSUME NEW p \in Procs \ crossed, proc[p].pc = "enrol"
        PROVE  CanUnwrap(proc[p].ring, On(p), key[On(p)])
    <3>1. proc[p].cmd \in {"init", "recover", "join"}
      BY <2>1, CommandAt
    <3>2. Sound(proc[p], On(p), key[On(p)], account[On(p)], floor, refused, ring, p \in crossed)
      BY Known
    <3>3. key[On(p)] = proc[p].mine
      BY <2>1, <3>1, <3>2 DEF Sound, Fits, KeyThere
    <3> QED BY <2>1, <3>2, <3>3 DEF Sound, Prepared
  <2> QED BY <2>1 DEF KeyringInv, Stored, EnrolledOpens, KeyringConsistent
<1> QED BY <1>1, KeyringHolds, PTL

(* RevocationHolds (devices revoke, keyring_floor.go): a revocation that   *)
(* is reported as finished has reached the control plane, and no command   *)
(* acts on a keyring from before it, or from before what its device knows, *)
(* unless another command on that device wrote its key or its record.      *)
THEOREM RevokedStaysOut == Spec => []RevocationHolds
<1>1. KeyringInv => RevocationHolds
  <2> SUFFICES ASSUME KeyringInv PROVE RevocationHolds
    OBVIOUS
  <2>1. ASSUME NEW p \in Procs \ crossed, proc[p].pc \in Acting, proc[p].cmd # "init"
        PROVE  \A g \in (IF CarriesFloor THEN proc[p].since ELSE {proc[p].anchor.gen}) :
                  Len(proc[p].ring) >= g
    <3>1. Sound(proc[p], On(p), key[On(p)], account[On(p)], floor, refused, ring, p \in crossed)
      BY Known
    <3>2. Reaches(proc[p])
      BY <2>1, <3>1 DEF Sound, Fits, Bounded, Checked
    <3> QED BY <3>2 DEF Reaches
  <2>2. NeverBelowFloor
    BY <2>1 DEF NeverBelowFloor
  <2> QED BY <2>2 DEF KeyringInv, RevocationHolds
<1> QED BY <1>1, KeyringHolds, PTL

------------------------------------------------------------------------------
(* WrapsKept.                                                              *)
Keeps ==
    restores' = restores =>
      \A i \in DOMAIN ring :
         /\ i \in DOMAIN ring'
         /\ ring'[i].root = ring[i].root
         /\ \A w \in ring[i].wraps :
               \/ KeyIn(ring'[i], w.device) # NoKey
               \/ \E p \in Procs : /\ proc[p].pc = "undo" /\ proc[p].n = w.id
                                    /\ proc[p].target = w.device

LEMMA SameKept == ASSUME KeyringInv, ring' = ring PROVE Keeps
<1>1. \A i \in DOMAIN ring : \A w \in ring[i].wraps : KeyIn(ring[i], w.device) # NoKey
  BY Listed DEF KeyringInv, TypeOK, Stored
<1> QED BY <1>1 DEF Keeps

LEMMA FollowsKept == ASSUME KeyringInv, NEW n, Follows(ring, ring', n) PROVE Keeps
<1>1. /\ Len(ring) \in Nat /\ DOMAIN ring = 1..Len(ring)
      /\ Len(ring') \in Nat /\ DOMAIN ring' = 1..Len(ring')
  BY RingIs DEF KeyringInv, TypeOK, Follows
<1>2. \A i \in DOMAIN ring : i \in DOMAIN ring'
  BY <1>1 DEF Follows
<1> QED BY <1>2 DEF Follows, Keeps

LEMMA UndoKept == ASSUME KeyringInv, NEW p \in Procs, Undo(p) PROVE Keeps
<1> DEFINE r == proc[p]
           R == UnenrolAppended(ring, r.target, r.appended, r.n)
<1>1. ring' = R /\ r.pc = "undo" /\ ring \in Seq(Generations)
  BY Known DEF Undo, Store
<1>2. Unenrols(ring, R, r.target, r.appended, r.n)
  BY <1>1, UnenrolIs
<1> HIDE DEF R
<1>3. R \in Seq(Generations) /\ DOMAIN R = DOMAIN ring
      /\ \A i \in DOMAIN ring : R[i].root = ring[i].root
  BY <1>2 DEF Unenrols
<1>4. Real(R, started)
  BY <1>2 DEF Unenrols, KeyringInv, Stored, Real
<1>5. ASSUME NEW i \in DOMAIN ring, NEW w \in ring[i].wraps
      PROVE  KeyIn(R[i], w.device) # NoKey \/ (w.device = r.target /\ w.id = r.n)
  <2>1. w \in R[i].wraps \/ (w.device = r.target /\ w.id = r.n)
    BY <1>2, <1>5 DEF Unenrols
  <2> QED BY <1>3, <1>4, <2>1, Listed
<1> QED BY <1>1, <1>3, <1>5 DEF Keeps

LEMMA StepKept == KeyringInv /\ [Next]_vars => Keeps
<1> SUFFICES ASSUME KeyringInv, [Next]_vars PROVE Keeps
  OBVIOUS
<1>1. CASE ring' = ring
  BY <1>1, SameKept
<1>2. CASE Restore
  <2>1. restores \in Nat /\ restores' = restores + 1
    BY <1>2 DEF Restore, KeyringInv, TypeOK
  <2> QED BY <2>1 DEF Keeps
<1>3. ASSUME NEW p \in Procs, Undo(p) PROVE Keeps
  BY <1>3, UndoKept
<1>4. ASSUME NEW p \in Procs, proc[p].pc = "put", Unchanged(p), ring' = Mutated(p, proc[p].ring)
      PROVE  Keeps
  <2>1. ring' = MutatedBy(proc[p], On(p), ring)
    BY <1>4, MutatedIs DEF Unchanged
  <2>2. Follows(ring, ring', proc[p].n)
    BY <1>4, <2>1, PutFollows
  <2> QED BY <2>2, FollowsKept
<1>5. ASSUME NEW p \in Procs, proc[p].pc = "create", ring = <<>>, ring' = New(On(p), proc[p].n)
      PROVE  Keeps
  <2>1. proc[p].cmd # "none"
    BY <1>5, CommandAt
  <2>2. Follows(ring, ring', proc[p].n)
    BY <1>5, <2>1, Known, NumberIs, NewIs
  <2> QED BY <2>2, FollowsKept
<1>6. CASE UNCHANGED vars
  BY <1>1, <1>6 DEF vars, machine
<1>7. ASSUME NEW p \in Procs, Start(p) \/ Stop(p) PROVE ring' = ring
  BY <1>7 DEF Start, Stop, StartInit, StartRecover, StartJoin, StartApprove, StartRevoke, StartUse
<1>8. ASSUME NEW p \in Procs, Step(p) PROVE Keeps
  <2>1. CASE Put(p)
    BY <1>4, <2>1 DEF Put, Store, Unchanged
  <2>2. CASE RecoverFails(p)
    BY <1>1, <1>4, <2>2 DEF RecoverFails, Store
  <2>3. CASE Create(p) \/ CreateFails(p)
    BY <1>1, <1>5, <2>3 DEF Create, CreateFails
  <2>4. CASE Undo(p)
    BY <1>3, <2>4
  <2>5. CASE \/ Confirm(p) \/ Remember(p) \/ Load(p) \/ LoadAlready(p) \/ Reload(p)
             \/ PutConflict(p) \/ TrustUse(p) \/ Observe(p) \/ Record(p) \/ Use(p)
    <3>1. ring' = ring
      BY <2>5 DEF Confirm, Remember, Load, LoadAlready, Reload, PutConflict, TrustUse, Observe,
                  Record, Use
    <3> QED BY <1>1, <3>1
  <2>6. CASE \/ Relay(p) \/ RelayRefused(p) \/ UndoConflict(p) \/ TellConsole(p) \/ Tell(p)
             \/ RaiseFloor(p) \/ Finish(p) \/ InitSecret(p) \/ SetSecret(p) \/ Decide(p) \/ OpenRequest(p)
             \/ WaitForPairing(p) \/ VerifyJoined(p) \/ Enrolled(p) \/ KeepFloor(p)
    <3>1. ring' = ring
      BY <2>6 DEF Relay, RelayRefused, UndoConflict, TellConsole, Tell, RaiseFloor, Finish,
                  InitSecret, SetSecret, Decide, OpenRequest, WaitForPairing, VerifyJoined, Enrolled, KeepFloor
    <3> QED BY <1>1, <3>1
  <2> QED BY <1>8, <2>1, <2>2, <2>3, <2>4, <2>5, <2>6 DEF Step
<1>9. CASE \E d \in Devices : Expire(d)
  BY <1>1, <1>9 DEF Expire
<1> QED BY <1>1, <1>2, <1>6, <1>7, <1>8, <1>9 DEF Next, Change

(* WrapsKept (keyring.Update): no command takes a generation or a device   *)
(* out of the keyring, except the approval that takes its own wraps back.  *)
THEOREM WrapsAreKept == Spec => WrapsKept
<1>1. KeyringInv /\ [Next]_vars => [Keeps]_vars
  BY StepKept
<1>2. WrapsKept <=> [][Keeps]_vars
  BY DEF WrapsKept, Keeps
<1> QED BY <1>1, <1>2, KeyringHolds, PTL DEF Spec
==============================================================================
