-------------------------- MODULE WaveFieldProofs --------------------------
(***************************************************************************)
(* Proofs about WaveField, for any keys, nodes, bounds and lifetimes.      *)
(*                                                                         *)
(* The argument follows a wave, not an operation.  A step either leaves    *)
(* the field alone, adds one wave as new_signed or process_message made    *)
(* it, removes waves, or applies the verdicts of a batch (StepKinds).  The *)
(* inductive invariant says what verdicts can have made of a stored wave   *)
(* (WaveOK): nothing, one amplification or attenuation, or at least one    *)
(* damping; a verdict changes the amplitude, so the wave no longer         *)
(* verifies and the next verdict can only damp it.                         *)
(***************************************************************************)
EXTENDS WaveFieldRefinement, FiniteSetTheorems, TLAPS

\* A wave as its maker left it.
Fresh(w) == w.amp = w.orig /\ w.life \in {LifeNew, LifePartial}

Damped(w) == w.amp <= (3 * w.orig) \div 20 /\ w.life = LifeRejected

WaveOK(w) ==
  /\ w.orig >= 2
  /\ \/ Fresh(w)
     \/ w.amp = (3 * w.orig) \div 2 /\ w.life = LifeValidated /\ w.signer = Self
     \/ w.amp = (7 * w.orig) \div 10 /\ w.life = LifePartial
     \/ Damped(w)

IInv ==
  /\ TypeOK
  /\ IsFiniteSet(DOMAIN active)
  /\ Capacity
  /\ \A k \in DOMAIN active : WaveOK(active[k])
  /\ \A n \in DOMAIN call.todo :
       call.todo[n].wave.orig >= 2 /\ Fresh(call.todo[n].wave)

----------------------------------------------------------------------------
(* The operators on the map of waves.                                      *)

IsField(f) ==
  /\ DOMAIN f \subseteq Keys /\ f \in [DOMAIN f -> Wave]
  /\ IsFiniteSet(DOMAIN f) /\ Cardinality(DOMAIN f) <= MaxWaves

\* Removing waves keeps a field a field.
LEMMA KeepField ==
  ASSUME NEW f, IsField(f), NEW S \in SUBSET (DOMAIN f)
  PROVE  IsField(Keep(f, S)) /\ DOMAIN Keep(f, S) = S
         /\ \A k \in S : Keep(f, S)[k] = f[k]
<1>1. DOMAIN Keep(f, S) = S /\ \A k \in S : Keep(f, S)[k] = f[k]
  BY DEF Keep
<1>2. IsFiniteSet(S) /\ Cardinality(S) <= Cardinality(DOMAIN f)
      /\ Cardinality(S) \in Nat /\ Cardinality(DOMAIN f) \in Nat
  BY FS_Subset, FS_CardinalityType DEF IsField
<1>3. Keep(f, S) \in [S -> Wave]
  BY DEF Keep, IsField
<1>4. QED
  BY <1>1, <1>2, <1>3, FieldAssumption DEF IsField

\* g is f with w stored under k and every other wave it keeps as it was; it
\* loses at most one wave, and only of a full field.
Added(g, f, k, w) ==
  /\ k \in DOMAIN g /\ g[k] = w
  /\ \E gone \in SUBSET (DOMAIN f) :
       /\ gone = {} \/ (Cardinality(DOMAIN f) >= MaxWaves /\ \E o \in DOMAIN f : gone = {o})
       /\ Cardinality(DOMAIN f) >= MaxWaves => gone # {}
       /\ DOMAIN g = (DOMAIN f \ gone) \cup {k}
       /\ \A j \in DOMAIN g \ {k} : g[j] = f[j]

\* add_wave is that, and stays within max_waves.
LEMMA AddWaveField ==
  ASSUME NEW f, IsField(f), NEW k \in Keys, NEW w \in Wave, NEW g \in AddWave(f, k, w)
  PROVE  IsField(g) /\ Added(g, f, k, w)
<1>1. PICK h \in MakeRoom(f) : g = Put(h, k, w)
  BY DEF AddWave
<1>2. ASSUME NEW gone \in SUBSET (DOMAIN f), h = Keep(f, DOMAIN f \ gone),
             Cardinality(DOMAIN f \ gone) < MaxWaves
      PROVE  /\ IsField(g) /\ k \in DOMAIN g /\ g[k] = w
             /\ DOMAIN g = (DOMAIN f \ gone) \cup {k}
             /\ \A j \in DOMAIN g \ {k} : g[j] = f[j]
  <2>1. IsField(h) /\ DOMAIN h = DOMAIN f \ gone /\ \A j \in DOMAIN h : h[j] = f[j]
    BY <1>2, KeepField
  <2>2. DOMAIN g = DOMAIN h \cup {k} /\ g[k] = w /\ \A j \in DOMAIN h \ {k} : g[j] = h[j]
    BY <1>1 DEF Put
  <2>3. g \in [DOMAIN g -> Wave]
    BY <1>1, <2>1, <2>2 DEF Put, IsField
  <2>4. IsFiniteSet(DOMAIN g) /\ Cardinality(DOMAIN g) <= MaxWaves
    <3>1. IsFiniteSet(DOMAIN h) /\ Cardinality(DOMAIN h) \in Nat
          /\ Cardinality(DOMAIN h) < MaxWaves
      BY <1>2, <2>1, FS_CardinalityType DEF IsField
    <3>2. IsFiniteSet(DOMAIN h \cup {k})
          /\ Cardinality(DOMAIN h \cup {k}) <= Cardinality(DOMAIN h) + 1
      <4>1. /\ IsFiniteSet(DOMAIN h \cup {k})
            /\ Cardinality(DOMAIN h \cup {k}) =
                 IF k \in DOMAIN h THEN Cardinality(DOMAIN h) ELSE Cardinality(DOMAIN h) + 1
        BY <3>1, FS_AddElement
      <4>2. QED
        BY <3>1, <4>1
    <3>3. Cardinality(DOMAIN h \cup {k}) \in Nat
      BY <3>2, FS_CardinalityType
    <3>4. QED
      BY <2>2, <3>1, <3>2, <3>3, FieldAssumption
  <2>5. QED
    BY <2>1, <2>2, <2>3, <2>4 DEF IsField
<1>3. IsFiniteSet(DOMAIN f) /\ Cardinality(DOMAIN f) \in Nat
      /\ Cardinality(DOMAIN f) <= MaxWaves /\ MaxWaves \in Nat
  BY FS_CardinalityType, FieldAssumption DEF IsField
<1>4. CASE Cardinality(DOMAIN f) >= MaxWaves
  <2>1. PICK o \in DOMAIN f : h = Keep(f, DOMAIN f \ {o})
    BY <1>1, <1>4 DEF MakeRoom, Oldest
  <2>2. Cardinality(DOMAIN f \ {o}) = Cardinality(DOMAIN f) - 1
    BY <1>3, <2>1, FS_RemoveElement
  <2>3. Cardinality(DOMAIN f \ {o}) < MaxWaves
    BY <1>3, <2>2
  <2>4. /\ IsField(g) /\ k \in DOMAIN g /\ g[k] = w
        /\ DOMAIN g = (DOMAIN f \ {o}) \cup {k}
        /\ \A j \in DOMAIN g \ {k} : g[j] = f[j]
    BY <1>2, <2>1, <2>3
  <2>5. {o} \in SUBSET (DOMAIN f)
    OBVIOUS
  <2>6. QED
    BY <1>4, <2>4, <2>5 DEF Added
<1>5. CASE ~(Cardinality(DOMAIN f) >= MaxWaves)
  <2>1. h = f
    BY <1>1, <1>5 DEF MakeRoom
  <2>2. h = Keep(f, DOMAIN f \ {})
    BY <2>1 DEF Keep, IsField
  <2>3. Cardinality(DOMAIN f \ {}) < MaxWaves
    <3>1. DOMAIN f \ {} = DOMAIN f
      OBVIOUS
    <3>2. QED
      BY <1>3, <1>5, <3>1
  <2>4. /\ IsField(g) /\ k \in DOMAIN g /\ g[k] = w
        /\ DOMAIN g = (DOMAIN f \ {}) \cup {k}
        /\ \A j \in DOMAIN g \ {k} : g[j] = f[j]
    BY <1>2, <2>2, <2>3
  <2>5. {} \in SUBSET (DOMAIN f)
    OBVIOUS
  <2>6. QED
    BY <1>5, <2>4, <2>5 DEF Added
<1>6. QED
  BY <1>4, <1>5

----------------------------------------------------------------------------
(* Verdicts.                                                               *)

Verdict3 == {"Validated", "PartiallyValidated", "Rejected"}

\* Only a wave that still carries the amplitude this node signed can be
\* amplified or attenuated.
LEMMA VerdictCases ==
  ASSUME NEW k, NEW c
  PROVE  /\ Verdict(k, c) \in Verdict3
         /\ Verdict(k, c) # "Rejected" => active[k].signer = Self /\ active[k].amp = active[k].orig
BY DEF Verdict, DecideWaveFate, VerifySignature, Verdict3

\* What each verdict makes of a well-formed wave.
LEMMA UpdateWave ==
  ASSUME NEW w \in Wave, w.orig >= 2, NEW v \in Verdict3
  PROVE  LET u == UpdateAmplitude(w, v) IN
         /\ u \in Wave /\ u.orig = w.orig /\ u.signer = w.signer /\ u.born = w.born
         /\ v = "Validated" => u.amp = (3 * w.amp) \div 2 /\ u.life = LifeValidated
         /\ v = "PartiallyValidated" => u.amp = (7 * w.amp) \div 10 /\ u.life = LifePartial
         /\ v = "Rejected" => u.amp = w.amp \div 10 /\ u.life = LifeRejected
<1>1. w.amp \in Nat /\ w.orig \in Nat
  BY DEF Wave
<1>2. (3 * w.amp) \div 2 \in Nat /\ (7 * w.amp) \div 10 \in Nat /\ w.amp \div 10 \in Nat
  BY <1>1
<1>3. CASE v = "Validated"
  BY <1>2, <1>3 DEF UpdateAmplitude, Wave, Lifetimes
<1>4. CASE v = "PartiallyValidated"
  BY <1>2, <1>4 DEF UpdateAmplitude, Wave, Lifetimes
<1>5. CASE v = "Rejected"
  BY <1>2, <1>5 DEF UpdateAmplitude, Wave, Lifetimes
<1>6. QED
  BY <1>3, <1>4, <1>5 DEF Verdict3

\* A verdict keeps a wave well-formed, whatever earlier verdicts made of it.
LEMMA JudgedWaveOK ==
  ASSUME NEW k, active[k] \in Wave, WaveOK(active[k]), NEW c
  PROVE  LET u == UpdateAmplitude(active[k], Verdict(k, c)) IN
         /\ u \in Wave /\ WaveOK(u) /\ u.orig = active[k].orig
         /\ u.amp # u.orig
         /\ active[k].amp # active[k].orig => Damped(u) /\ u.amp <= active[k].amp
<1> DEFINE w == active[k]
           v == Verdict(k, c)
           u == UpdateAmplitude(w, v)
<1>1. w \in Wave /\ w.amp \in Nat /\ w.orig \in Nat /\ w.orig >= 2
  BY DEF WaveOK, Wave
<1>2. v \in Verdict3 /\ (v # "Rejected" => w.signer = Self /\ w.amp = w.orig)
  BY VerdictCases
<1>3. /\ u \in Wave /\ u.orig = w.orig /\ u.signer = w.signer
      /\ v = "Validated" => u.amp = (3 * w.amp) \div 2 /\ u.life = LifeValidated
      /\ v = "PartiallyValidated" => u.amp = (7 * w.amp) \div 10 /\ u.life = LifePartial
      /\ v = "Rejected" => u.amp = w.amp \div 10 /\ u.life = LifeRejected
  <2> HIDE DEF w, v
  <2>1. QED
    BY <1>1, <1>2, UpdateWave
<1>4. \/ w.amp = w.orig
      \/ w.amp = (3 * w.orig) \div 2
      \/ w.amp = (7 * w.orig) \div 10
      \/ w.amp <= (3 * w.orig) \div 20
  BY DEF WaveOK, Fresh, Damped
<1> HIDE DEF w, v, u
<1>5. CASE v = "Validated"
  <2>1. u.amp = (3 * u.orig) \div 2 /\ u.life = LifeValidated /\ u.signer = Self
        /\ w.amp = w.orig
    BY <1>2, <1>3, <1>5
  <2>2. u.amp # u.orig
    BY <1>1, <1>3, <2>1
  <2>3. QED
    BY <1>1, <1>3, <2>1, <2>2 DEF WaveOK, Fresh, w, v, u
<1>6. CASE v = "PartiallyValidated"
  <2>1. u.amp = (7 * u.orig) \div 10 /\ u.life = LifePartial /\ w.amp = w.orig
    BY <1>2, <1>3, <1>6
  <2>2. u.amp # u.orig
    BY <1>1, <1>3, <2>1
  <2>3. QED
    BY <1>1, <1>3, <2>1, <2>2 DEF WaveOK, Fresh, w, v, u
<1>7. CASE v = "Rejected"
  <2>1. u.amp = w.amp \div 10 /\ u.life = LifeRejected
    BY <1>3, <1>7
  <2>2. u.amp <= (3 * w.orig) \div 20 /\ u.amp <= w.amp /\ u.amp # w.orig
    BY <1>1, <1>4, <2>1
  <2>3. QED
    BY <1>1, <1>3, <2>1, <2>2 DEF WaveOK, Fresh, Damped, w, v, u
<1>8. QED
  BY <1>2, <1>5, <1>6, <1>7 DEF Verdict3

----------------------------------------------------------------------------
(* What a step may do to the field and to the call.                        *)

\* A wave as it enters the field.
NewAndFresh(w) == w \in Wave /\ Fresh(w) /\ w.orig >= 2

LEMMA NewWaveFresh ==
  ASSUME NEW p \in 0..3, NEW a \in Nat, a >= 2, NEW s \in Nodes \cup {NoOne},
         NEW b \in Int, NEW l \in {LifeNew, LifePartial}
  PROVE  NewAndFresh(NewWave(p, a, s, b, l))
BY DEF NewAndFresh, NewWave, Wave, Fresh, Lifetimes

LEMMA IncomingFresh ==
  ASSUME now \in Nat, NEW i \in IncomingItems \cup StateItems
  PROVE  i \in Item /\ NewAndFresh(i.wave)
<1>1. CASE i \in IncomingItems
  <2>1. PICK k \in Keys, h \in Shapes, s \in Nodes, d \in 0..MaxDelay, v \in Nodes :
          i = [key |-> k, wave |-> NewWave(h.phase, h.amp, s, now - d, LifeNew), vk |-> v]
    BY <1>1 DEF IncomingItems
  <2>2. h.phase \in 0..3 /\ h.amp \in Nat /\ h.amp >= 2 /\ now - d \in Int
    BY FieldAssumption
  <2>3. NewAndFresh(NewWave(h.phase, h.amp, s, now - d, LifeNew))
    BY <2>2, NewWaveFresh
  <2>4. QED
    BY <2>1, <2>3 DEF Item, NewAndFresh
<1>2. CASE i \in StateItems
  <2>1. PICK k \in Keys, h \in Shapes :
          i = [key |-> k, wave |-> NewWave(h.phase, h.amp, NoOne, now, LifePartial), vk |-> NoOne]
    BY <1>2 DEF StateItems
  <2>2. h.phase \in 0..3 /\ h.amp \in Nat /\ h.amp >= 2 /\ now \in Int
    BY FieldAssumption
  <2>3. NewAndFresh(NewWave(h.phase, h.amp, NoOne, now, LifePartial))
    BY <2>2, NewWaveFresh
  <2>4. QED
    BY <2>1, <2>3 DEF Item, NewAndFresh
<1>3. QED
  BY <1>1, <1>2

Adds(k, w) == NewAndFresh(w) /\ active' \in AddWave(active, k, w)

\* Only what is over or extinguished is removed by itself.
Removes ==
  /\ DOMAIN active' \subseteq DOMAIN active /\ active' = Keep(active, DOMAIN active')
  /\ \A k \in DOMAIN active \ DOMAIN active' : ~Unexpired(active[k]) \/ Extinguished(active[k])

Judges ==
  /\ DOMAIN active' \subseteq DOMAIN active
  /\ active' = [k \in DOMAIN active' |-> active'[k]]
  /\ \A k \in DOMAIN active' : \E c : active'[k] = UpdateAmplitude(active[k], Verdict(k, c))

LEMMA KeepRemoves ==
  ASSUME NEW S \in SUBSET (DOMAIN active), active' = Keep(active, S),
         \A k \in DOMAIN active \ S : ~Unexpired(active[k]) \/ Extinguished(active[k])
  PROVE  Removes
BY DEF Removes, Keep

LEMMA SettleJudges ==
  ASSUME NEW o, NEW whole, NEW reduced, active' = Settled(Verdicts(o, whole, reduced))
  PROVE  Judges
<1> DEFINE f == UpdateWaveAmplitudes(active, Verdicts(o, whole, reduced))
           g == RemoveExtinguishedWaves(f)
<1>1. DOMAIN f = DOMAIN active
      /\ \A k \in DOMAIN active : f[k] = UpdateAmplitude(active[k], Verdict(k, PatternOf(k, o, whole, reduced)))
  BY DEF UpdateWaveAmplitudes, Verdicts
<1> HIDE DEF f
<1>2. DOMAIN g \subseteq DOMAIN f /\ \A k \in DOMAIN g : g[k] = f[k]
  BY DEF RemoveExtinguishedWaves, Keep
<1> HIDE DEF g
<1>3. active' = CleanupExpiredWaves(g)
  BY DEF Settled, f, g
<1>4. /\ DOMAIN active' \subseteq DOMAIN g /\ \A k \in DOMAIN active' : active'[k] = g[k]
      /\ active' = [k \in DOMAIN active' |-> active'[k]]
  BY <1>3 DEF CleanupExpiredWaves, Keep
<1>5. QED
  BY <1>1, <1>2, <1>4 DEF Judges

\* The four things a step may do to the field.
LEMMA StepKinds ==
  ASSUME IInv, Next
  PROVE  \/ active' = active
         \/ \E k \in Keys, w \in Wave : Adds(k, w)
         \/ Removes
         \/ Judges /\ EndOfWavesBatch
<1> USE DEF IInv, TypeOK
<1>1. ASSUME NEW i \in Item, NewAndFresh(i.wave), active' \in AddSignedWave(active, i.key, i.wave, i.vk)
      PROVE  active' = active \/ \E k \in Keys, w \in Wave : Adds(k, w)
  BY <1>1 DEF AddSignedWave, Adds, Item
<1>2. CASE Tick
  BY <1>2 DEF Tick
<1>3. CASE AddSigned
  <2>1. PICK i \in IncomingItems : active' \in AddSignedWave(active, i.key, i.wave, i.vk)
    BY <1>3 DEF AddSigned
  <2>2. i \in Item /\ NewAndFresh(i.wave)
    BY IncomingFresh
  <2>3. QED
    BY <1>1, <2>1, <2>2
<1>4. ASSUME NEW k \in Keys, ProcessMessage(k)
      PROVE  \E w \in Wave : Adds(k, w)
  <2>1. 0 \in 0..3 /\ Unit \in Nat /\ Unit >= 2 /\ now \in Int
    BY DEF Unit
  <2>2. NewAndFresh(NewWave(0, Unit, NoOne, now, LifeNew))
    BY <2>1, NewWaveFresh
  <2>3. QED
    BY <1>4, <2>2 DEF ProcessMessage, Adds, NewAndFresh
<1>5. CASE BeginStates \/ BeginWaves \/ EndStates
  BY <1>5 DEF BeginStates, BeginWaves, EndStates
<1>6. CASE AddNext
  <2> DEFINE i == Head(call.todo)
  <2>1. call.todo \in Seq(Item) /\ call.todo # <<>>
    BY <1>6 DEF AddNext
  <2>2. i \in Item /\ i = call.todo[1] /\ 1 \in DOMAIN call.todo
    BY <2>1
  <2>3. NewAndFresh(i.wave)
    BY <2>2 DEF NewAndFresh, Item
  <2>4. active' \in AddWave(active, i.key, i.wave) \/ active' \in AddSignedWave(active, i.key, i.wave, i.vk)
    BY <1>6 DEF AddNext
  <2> HIDE DEF i
  <2>5. QED
    BY <1>1, <2>2, <2>3, <2>4 DEF Adds, Item
<1>7. ASSUME NEW o \in Keys, NEW whole, NEW reduced, Settle(o, whole, reduced)
      PROVE  Judges /\ EndOfWavesBatch
  BY <1>7, SettleJudges DEF Settle, EndOfWavesBatch, Idle
<1>8. CASE CleanupExpired
  BY <1>8, KeepRemoves DEF CleanupExpired, CleanupExpiredWaves
<1>9. CASE RemoveExtinguished
  BY <1>9, KeepRemoves DEF RemoveExtinguished, RemoveExtinguishedWaves
<1>10. QED
  BY <1>2, <1>3, <1>4, <1>5, <1>6, <1>7, <1>8, <1>9 DEF Next

\* The call keeps its type, and the waves that wait in it are fresh.
LEMMA CallStep ==
  ASSUME IInv, Next
  PROVE  /\ call' \in [op : {"none", "states", "waves"}, todo : Seq(Item), added : SUBSET Keys]
         /\ \A n \in DOMAIN call'.todo :
              call'.todo[n].wave.orig >= 2 /\ Fresh(call'.todo[n].wave)
<1> USE DEF IInv, TypeOK
<1>1. ASSUME NEW S \in SUBSET (IncomingItems \cup StateItems), NEW b \in Batches(S),
             NEW op \in {"states", "waves"}, call' = [Idle EXCEPT !.op = op, !.todo = b]
      PROVE  /\ call' \in [op : {"none", "states", "waves"}, todo : Seq(Item), added : SUBSET Keys]
             /\ \A n \in DOMAIN call'.todo :
                  call'.todo[n].wave.orig >= 2 /\ Fresh(call'.todo[n].wave)
  <2>1. PICK m \in 1..MaxBatch : b \in [1..m -> S]
    BY DEF Batches
  <2>2. \A n \in 1..m : b[n] \in Item /\ NewAndFresh(b[n].wave)
    BY <2>1, IncomingFresh
  <2>3. b \in Seq(Item) /\ DOMAIN b = 1..m
    <3>1. m \in Nat
      BY FieldAssumption
    <3>2. b \in [1..m -> Item]
      BY <2>1, <2>2
    <3>3. QED
      BY <3>1, <3>2
  <2>4. call'.op = op /\ call'.todo = b /\ call'.added = {}
        /\ call' = [op |-> op, todo |-> b, added |-> {}]
    BY <1>1 DEF Idle
  <2>5. QED
    BY <2>2, <2>3, <2>4 DEF NewAndFresh
<1>2. ASSUME call' = call
      PROVE  /\ call' \in [op : {"none", "states", "waves"}, todo : Seq(Item), added : SUBSET Keys]
             /\ \A n \in DOMAIN call'.todo :
                  call'.todo[n].wave.orig >= 2 /\ Fresh(call'.todo[n].wave)
  BY <1>2
<1>3. ASSUME call' = Idle
      PROVE  /\ call' \in [op : {"none", "states", "waves"}, todo : Seq(Item), added : SUBSET Keys]
             /\ \A n \in DOMAIN call'.todo :
                  call'.todo[n].wave.orig >= 2 /\ Fresh(call'.todo[n].wave)
  BY <1>3 DEF Idle
<1>4. CASE Tick \/ AddSigned \/ (\E k \in Keys : ProcessMessage(k)) \/ CleanupExpired \/ RemoveExtinguished
  BY <1>2, <1>4 DEF Tick, AddSigned, ProcessMessage, CleanupExpired, RemoveExtinguished
<1>5. CASE BeginStates
  BY <1>1, <1>5 DEF BeginStates
<1>6. CASE BeginWaves
  <2>1. {i \in IncomingItems : VerifySignature(i.wave, i.vk)} \in SUBSET (IncomingItems \cup StateItems)
    OBVIOUS
  <2>2. QED
    BY <1>1, <1>6, <2>1 DEF BeginWaves
<1>7. CASE AddNext
  <2>1. call.todo \in Seq(Item) /\ call.todo # <<>>
    BY <1>7 DEF AddNext
  <2>2. /\ Tail(call.todo) \in Seq(Item)
        /\ \A n \in DOMAIN Tail(call.todo) :
             n + 1 \in DOMAIN call.todo /\ Tail(call.todo)[n] = call.todo[n + 1]
    BY <2>1
  <2>3. Head(call.todo) \in Item
    BY <2>1
  <2>4. call'.todo = Tail(call.todo)
        /\ call' \in [op : {"none", "states", "waves"}, todo : Seq(Item), added : SUBSET Keys]
    BY <1>7, <2>2, <2>3 DEF AddNext, Item
  <2>5. QED
    BY <2>2, <2>4
<1>8. CASE EndStates \/ (\E o \in Keys, whole, reduced \in Patterns : Settle(o, whole, reduced))
  BY <1>3, <1>8 DEF EndStates, Settle
<1>9. QED
  BY <1>4, <1>5, <1>6, <1>7, <1>8 DEF Next

----------------------------------------------------------------------------
(* The inductive invariant.                                                *)

LEMMA InitIInv == Init => IInv
<1> SUFFICES ASSUME Init PROVE IInv
  OBVIOUS
<1>1. DOMAIN active = {} /\ active \in [DOMAIN active -> Wave]
  BY DEF Init
<1>2. IsFiniteSet(DOMAIN active) /\ Cardinality(DOMAIN active) = 0
  BY <1>1, FS_EmptySet
<1>3. TypeOK
  BY <1>1 DEF Init, TypeOK, Idle
<1>4. QED
  BY <1>1, <1>2, <1>3, FieldAssumption DEF IInv, Capacity, Init, Idle

LEMMA FieldStep ==
  ASSUME IInv, Next
  PROVE  IsField(active') /\ \A k \in DOMAIN active' : WaveOK(active'[k])
<1>1. IsField(active) /\ \A k \in DOMAIN active : active[k] \in Wave /\ WaveOK(active[k])
  BY DEF IInv, TypeOK, Capacity, IsField
<1>2. ASSUME NEW k \in Keys, NEW w \in Wave, Adds(k, w)
      PROVE  IsField(active') /\ \A j \in DOMAIN active' : WaveOK(active'[j])
  <2>1. active' \in AddWave(active, k, w)
    BY <1>2 DEF Adds
  <2>2. IsField(active') /\ Added(active', active, k, w)
    BY <1>1, <2>1, AddWaveField
  <2>3. /\ IsField(active') /\ active'[k] = w
        /\ \A j \in DOMAIN active' \ {k} : j \in DOMAIN active /\ active'[j] = active[j]
    BY <2>2 DEF Added
  <2>4. WaveOK(w)
    BY <1>2 DEF Adds, NewAndFresh, WaveOK
  <2>5. QED
    BY <1>1, <2>3, <2>4
<1>3. CASE Removes
  BY <1>1, <1>3, KeepField DEF Removes
<1>4. CASE Judges
  <2>1. \A k \in DOMAIN active' : active'[k] \in Wave /\ WaveOK(active'[k])
    BY <1>1, <1>4, JudgedWaveOK DEF Judges
  <2>2. IsFiniteSet(DOMAIN active') /\ Cardinality(DOMAIN active') <= Cardinality(DOMAIN active)
        /\ Cardinality(DOMAIN active') \in Nat /\ Cardinality(DOMAIN active) \in Nat
    BY <1>1, <1>4, FS_Subset, FS_CardinalityType DEF Judges, IsField
  <2>3. Cardinality(DOMAIN active') <= MaxWaves
    BY <1>1, <2>2, FieldAssumption DEF IsField
  <2>4. active' \in [DOMAIN active' -> Wave] /\ DOMAIN active' \subseteq Keys
    BY <1>1, <1>4, <2>1 DEF Judges, IsField
  <2>5. QED
    BY <2>1, <2>2, <2>3, <2>4 DEF IsField
<1>5. QED
  BY <1>1, <1>2, <1>3, <1>4, StepKinds

LEMMA NextIInv == IInv /\ [Next]_vars => IInv'
<1> SUFFICES ASSUME IInv, [Next]_vars PROVE IInv'
  OBVIOUS
<1>1. CASE Next
  <2>1. now' \in Nat /\ cache' \subseteq Keys
    <3>1. now \in Nat /\ cache \subseteq Keys
      BY DEF IInv, TypeOK
    <3>2. CASE Tick
      BY <3>1, <3>2 DEF Tick
    <3>3. CASE \E k \in Keys : ProcessMessage(k)
      BY <3>1, <3>3 DEF ProcessMessage
    <3>4. CASE \/ AddSigned \/ BeginStates \/ BeginWaves \/ AddNext \/ EndStates
               \/ (\E o \in Keys, whole, reduced \in Patterns : Settle(o, whole, reduced))
               \/ CleanupExpired \/ RemoveExtinguished
      BY <3>1, <3>4 DEF AddSigned, BeginStates, BeginWaves, AddNext, EndStates, Settle,
                        CleanupExpired, RemoveExtinguished
    <3>5. QED
      BY <1>1, <3>2, <3>3, <3>4 DEF Next
  <2>2. IsField(active') /\ \A k \in DOMAIN active' : WaveOK(active'[k])
    BY <1>1, FieldStep
  <2>3. /\ call' \in [op : {"none", "states", "waves"}, todo : Seq(Item), added : SUBSET Keys]
        /\ \A n \in DOMAIN call'.todo :
             call'.todo[n].wave.orig >= 2 /\ Fresh(call'.todo[n].wave)
    BY <1>1, CallStep
  <2>4. QED
    BY <2>1, <2>2, <2>3 DEF IInv, TypeOK, Capacity, IsField
<1>2. CASE UNCHANGED vars
  BY <1>2 DEF vars, IInv, TypeOK, Capacity
<1>3. QED
  BY <1>1, <1>2

THEOREM Invariance == Spec => []IInv
BY InitIInv, NextIInv, PTL DEF Spec

----------------------------------------------------------------------------
(* The theorems.                                                           *)

\* The variables keep their types.
THEOREM TypeCorrect == Spec => []TypeOK
<1>1. IInv => TypeOK
  BY DEF IInv
<1>2. QED
  BY <1>1, Invariance, PTL

\* The field never exceeds max_waves.
THEOREM CapacityHolds == Spec => []Capacity
<1>1. IInv => Capacity
  BY DEF IInv
<1>2. QED
  BY <1>1, Invariance, PTL

\* No sequence of batches amplifies a wave beyond one and a half times the
\* amplitude it came with.
THEOREM AmplifiedOnceHolds == Spec => []AmplifiedOnce
<1>1. ASSUME NEW w \in Wave, WaveOK(w) PROVE w.amp <= (3 * w.orig) \div 2
  <2>1. w.amp \in Nat /\ w.orig \in Nat
    BY DEF Wave
  <2>2. \/ w.amp = w.orig \/ w.amp = (3 * w.orig) \div 2 \/ w.amp = (7 * w.orig) \div 10
        \/ w.amp <= (3 * w.orig) \div 20
    BY <1>1 DEF WaveOK, Fresh, Damped
  <2>3. QED
    BY <2>1, <2>2
<1>2. IInv => AmplifiedOnce
  BY <1>1 DEF IInv, TypeOK, AmplifiedOnce
<1>3. QED
  BY <1>2, Invariance, PTL

\* Only this node's own waves, amplified exactly once, get ten minutes.
THEOREM LongLivedAreOwnHolds == Spec => []LongLivedAreOwn
<1>1. IInv => LongLivedAreOwn
  BY FieldAssumption DEF IInv, WaveOK, Fresh, Damped, LongLivedAreOwn
<1>2. QED
  BY <1>1, Invariance, PTL

\* A wave judged once only fades until a fresh wave takes its key.
THEOREM JudgedOnlyFadesHolds == Spec => JudgedOnlyFades
<1> DEFINE Fades ==
      \A k \in DOMAIN active \cap DOMAIN active' :
        active[k].amp # active[k].orig /\ active'[k].amp # active'[k].orig =>
          active'[k].amp <= active[k].amp /\ active'[k].life <= active[k].life
<1>1. IInv /\ [Next]_vars => [Fades]_vars
  <2> SUFFICES ASSUME IInv, Next,
                      NEW k \in DOMAIN active \cap DOMAIN active',
                      active[k].amp # active[k].orig, active'[k].amp # active'[k].orig
               PROVE  active'[k].amp <= active[k].amp /\ active'[k].life <= active[k].life
    OBVIOUS
  <2>1. IsField(active) /\ active[k] \in Wave /\ WaveOK(active[k])
    BY DEF IInv, TypeOK, Capacity, IsField
  <2>2. active[k].amp \in Nat /\ active[k].life \in Nat /\ LifeRejected <= active[k].life
    BY <2>1, FieldAssumption DEF Wave, Lifetimes
  <2>3. CASE active'[k] = active[k]
    BY <2>2, <2>3
  <2>4. ASSUME NEW j \in Keys, NEW w \in Wave, Adds(j, w)
        PROVE  active'[k] = active[k]
    <3>1. active' \in AddWave(active, j, w)
      BY <2>4 DEF Adds
    <3>2. Added(active', active, j, w)
      BY <2>1, <3>1, AddWaveField
    <3>3. active'[j] = w /\ \A i \in DOMAIN active' \ {j} : active'[i] = active[i]
      BY <3>2 DEF Added
    <3>4. w.amp = w.orig
      BY <2>4 DEF Adds, NewAndFresh, Fresh
    <3>5. QED
      BY <3>3, <3>4
  <2>5. CASE Removes
    <3>1. active'[k] = active[k]
      BY <2>5 DEF Removes, Keep
    <3>2. QED
      BY <2>3, <3>1
  <2>6. CASE Judges
    <3>1. PICK c : active'[k] = UpdateAmplitude(active[k], Verdict(k, c))
      BY <2>6 DEF Judges
    <3>2. Damped(active'[k]) /\ active'[k].amp <= active[k].amp
      BY <2>1, <3>1, JudgedWaveOK
    <3>3. QED
      BY <2>2, <3>2 DEF Damped
  <2>7. QED
    BY <2>3, <2>4, <2>5, <2>6, StepKinds
<1>2. QED
  BY <1>1, Invariance, PTL DEF Spec, JudgedOnlyFades

\* Outside the end of a batch a wave is lost to time, to extinction, or as an
\* oldest wave of a full field.
THEOREM LossIsJustifiedHolds == Spec => LossIsJustified
<1> DEFINE Reason(k) == \/ EndOfWavesBatch
                        \/ ~Unexpired(active[k])
                        \/ Extinguished(active[k])
                        \/ Cardinality(DOMAIN active) = MaxWaves /\ k \in Oldest(active)
           Justified == \A k \in DOMAIN active \ DOMAIN active' : Reason(k)
<1>1. IInv /\ [Next]_vars => [Justified]_vars
  <2> SUFFICES ASSUME IInv, Next, NEW k \in DOMAIN active \ DOMAIN active' PROVE Reason(k)
    OBVIOUS
  <2>1. ASSUME NEW j \in Keys, NEW w \in Wave, Adds(j, w)
        PROVE  Cardinality(DOMAIN active) = MaxWaves /\ k \in Oldest(active)
    <3>1. PICK h \in MakeRoom(active) : active' = Put(h, j, w)
      BY <2>1 DEF Adds, AddWave
    <3>2. k \notin DOMAIN h
      BY <3>1 DEF Put
    <3>3. /\ Cardinality(DOMAIN active) >= MaxWaves
          /\ \E o \in Oldest(active) : h = Keep(active, DOMAIN active \ {o})
      BY <3>1, <3>2 DEF MakeRoom
    <3>4. k \in Oldest(active)
      BY <3>2, <3>3 DEF Keep
    <3>5. Cardinality(DOMAIN active) \in Nat /\ Cardinality(DOMAIN active) <= MaxWaves
      BY FS_CardinalityType DEF IInv, Capacity
    <3>6. QED
      BY <3>3, <3>4, <3>5, FieldAssumption
  <2>2. CASE Removes
    BY <2>2 DEF Removes
  <2>3. QED
    BY <2>1, <2>2, StepKinds
<1>2. QED
  BY <1>1, Invariance, PTL DEF Spec, LossIsJustified

\* A waves batch leaves live waves only.
THEOREM SettledFieldIsLiveHolds == Spec => SettledFieldIsLive
<1> DEFINE Alive == \A k \in DOMAIN active' :
                      ~Extinguished(active'[k]) /\ now' - active'[k].born < active'[k].life
<1>1. IInv /\ [Next]_vars => [EndOfWavesBatch => Alive]_vars
  <2> SUFFICES ASSUME IInv, Next, EndOfWavesBatch PROVE Alive
    OBVIOUS
  <2>1. PICK o \in Keys, whole \in Patterns, reduced \in Patterns : Settle(o, whole, reduced)
    <3>1. call.op = "waves" /\ call'.op = "none"
      BY DEF EndOfWavesBatch
    <3>2. ~(Tick \/ AddSigned \/ CleanupExpired \/ RemoveExtinguished
            \/ \E k \in Keys : ProcessMessage(k))
      BY <3>1 DEF Tick, AddSigned, CleanupExpired, RemoveExtinguished, ProcessMessage
    <3>3. ~(BeginStates \/ BeginWaves \/ EndStates)
      BY <3>1 DEF BeginStates, BeginWaves, EndStates, Free
    <3>4. ~AddNext
      BY <3>1 DEF AddNext, IInv, TypeOK
    <3>5. QED
      BY <3>2, <3>3, <3>4 DEF Next
  <2> DEFINE f == UpdateWaveAmplitudes(active, Verdicts(o, whole, reduced))
             g == RemoveExtinguishedWaves(f)
  <2>2. \A k \in DOMAIN g : ~Extinguished(g[k])
    BY DEF RemoveExtinguishedWaves, Keep
  <2> HIDE DEF g
  <2>3. active' = CleanupExpiredWaves(g) /\ now' = now
    BY <2>1 DEF Settle, Settled, g
  <2>4. \A k \in DOMAIN active' : k \in DOMAIN g /\ active'[k] = g[k] /\ Unexpired(g[k])
    BY <2>3 DEF CleanupExpiredWaves, Keep
  <2>5. QED
    BY <2>2, <2>3, <2>4 DEF Unexpired, Age
<1>2. QED
  BY <1>1, Invariance, PTL DEF Spec, SettledFieldIsLive

----------------------------------------------------------------------------
(* The field implements the life cycle.                                    *)

LEMMA StageCases ==
  ASSUME NEW w \in Wave, w.orig >= 2
  PROVE  /\ Stage(w) \in {"fresh", "amplified", "attenuated", "damped"}
         /\ w.amp = w.orig <=> Stage(w) = "fresh"
         /\ Damped(w) => Stage(w) = "damped"
<1>1. w.amp \in Nat /\ w.orig \in Nat
  BY DEF Wave
<1>2. w.amp <= (3 * w.orig) \div 20 =>
        w.amp # w.orig /\ w.amp # (3 * w.orig) \div 2 /\ w.amp # (7 * w.orig) \div 10
  BY <1>1
<1>3. QED
  BY <1>2 DEF Stage, Damped

LEMMA StoredKeys ==
  ASSUME IInv
  PROVE  Lifecycle!Stored = DOMAIN active
<1>1. \A k \in DOMAIN active : k \in Keys /\ Stage(active[k]) # "none"
  BY DEF Stage, IInv, TypeOK
<1>2. QED
  BY <1>1 DEF Lifecycle!Stored, StageOf

\* WaveLifecycle counts with the same operator.
LEMMA SameCardinality ==
  ASSUME NEW S
  PROVE  Lifecycle!Cardinality(S) = Cardinality(S)
BY DEF Lifecycle!Cardinality, Cardinality

\* Adding a wave is the abstract insertion.
LEMMA AddInserts ==
  ASSUME IInv, NEW k \in Keys, NEW w \in Wave, Adds(k, w)
  PROVE  Lifecycle!Insert(k)
<1>1. IsField(active) /\ active' \in AddWave(active, k, w)
  BY DEF Adds, IInv, TypeOK, Capacity, IsField
<1>2. Added(active', active, k, w)
  BY <1>1, AddWaveField
<1>3. PICK gone \in SUBSET (DOMAIN active) :
        /\ gone = {} \/ (Cardinality(DOMAIN active) >= MaxWaves /\ \E o \in DOMAIN active : gone = {o})
        /\ Cardinality(DOMAIN active) >= MaxWaves => gone # {}
        /\ DOMAIN active' = (DOMAIN active \ gone) \cup {k}
        /\ \A j \in DOMAIN active' \ {k} : active'[j] = active[j]
  BY <1>2 DEF Added
<1>4. active'[k] = w /\ Stage(w) = "fresh"
  BY <1>2 DEF Added, Adds, NewAndFresh, Fresh, Stage
<1>5. StageOf' = [j \in Keys |-> IF j = k THEN "fresh"
                                 ELSE IF j \in gone THEN "none" ELSE StageOf[j]]
  BY <1>3, <1>4 DEF StageOf, Stage
<1>6. Cardinality(DOMAIN active) \in Nat /\ MaxWaves \in Nat
  BY <1>1, FS_CardinalityType, FieldAssumption DEF IsField
<1>7. IF Cardinality(DOMAIN active) < MaxWaves THEN gone = {}
      ELSE \E j \in DOMAIN active : gone = {j}
  BY <1>3, <1>6
<1>8. Lifecycle!Stored = DOMAIN active
  BY StoredKeys
<1>9. /\ gone \in SUBSET Lifecycle!Stored
      /\ IF Cardinality(Lifecycle!Stored) < MaxWaves THEN gone = {}
         ELSE \E j \in Lifecycle!Stored : gone = {j}
  BY <1>7, <1>8
<1>10. QED
  BY <1>5, <1>9, SameCardinality DEF Lifecycle!Insert

\* Removing waves is the abstract purge.
LEMMA RemovePurges ==
  ASSUME IInv, Removes
  PROVE  Lifecycle!Purge
<1> DEFINE gone == DOMAIN active \ DOMAIN active'
<1>1. StageOf' = [k \in Keys |-> IF k \in gone THEN "none" ELSE StageOf[k]]
  BY DEF StageOf, Stage, Removes, Keep
<1>2. gone \in SUBSET Lifecycle!Stored
  BY StoredKeys
<1>3. QED
  BY <1>1, <1>2 DEF Lifecycle!Purge

\* The end of a batch is the abstract judgement.
LEMMA VerdictsJudge ==
  ASSUME IInv, Judges
  PROVE  Lifecycle!Judge
<1>1. ASSUME NEW k \in Keys
      PROVE  StageOf'[k] \in Lifecycle!Stages /\ StageOf'[k] \in Lifecycle!Judged(StageOf[k])
  <2>1. CASE k \notin DOMAIN active'
    <3>1. StageOf'[k] = "none"
      BY <2>1 DEF StageOf
    <3>2. QED
      BY <3>1 DEF Lifecycle!Stages, Lifecycle!Judged
  <2>2. CASE k \in DOMAIN active'
    <3>1. PICK c : active'[k] = UpdateAmplitude(active[k], Verdict(k, c))
      BY <2>2 DEF Judges
    <3>2. k \in DOMAIN active /\ active[k] \in Wave /\ WaveOK(active[k])
      BY <2>2 DEF Judges, IInv, TypeOK
    <3>3. /\ active'[k] \in Wave /\ WaveOK(active'[k])
          /\ active'[k].amp # active'[k].orig
          /\ active[k].amp # active[k].orig => Damped(active'[k])
      BY <3>1, <3>2, JudgedWaveOK
    <3>4. active[k].orig >= 2 /\ active'[k].orig >= 2
      BY <3>2, <3>3 DEF WaveOK
    <3>5. /\ Stage(active[k]) \in {"fresh", "amplified", "attenuated", "damped"}
          /\ active[k].amp = active[k].orig <=> Stage(active[k]) = "fresh"
          /\ Stage(active'[k]) \in {"amplified", "attenuated", "damped"}
          /\ Damped(active'[k]) => Stage(active'[k]) = "damped"
      BY <3>2, <3>3, <3>4, StageCases
    <3>6. StageOf'[k] = Stage(active'[k]) /\ StageOf[k] = Stage(active[k])
      BY <2>2, <3>2 DEF StageOf, Stage
    <3>7. QED
      BY <3>3, <3>5, <3>6 DEF Lifecycle!Stages, Lifecycle!Judged
  <2>3. QED
    BY <2>1, <2>2
<1>2. StageOf' \in [Keys -> Lifecycle!Stages]
  BY <1>1 DEF StageOf
<1>3. QED
  BY <1>1, <1>2 DEF Lifecycle!Judge

\* Every step of the field is a step of the life cycle or leaves it as it is.
THEOREM Refinement == Spec => LifecycleSpec
<1>1. Init => Lifecycle!Init
  BY DEF Init, Lifecycle!Init, StageOf
<1>2. IInv /\ [Next]_vars => [Lifecycle!Next]_StageOf
  <2> SUFFICES ASSUME IInv, [Next]_vars PROVE [Lifecycle!Next]_StageOf
    OBVIOUS
  <2>1. CASE active' = active
    BY <2>1 DEF StageOf, Stage
  <2>2. ASSUME NEW k \in Keys, NEW w \in Wave, Adds(k, w) PROVE Lifecycle!Next
    BY <2>2, AddInserts DEF Lifecycle!Next
  <2>3. CASE Removes
    BY <2>3, RemovePurges DEF Lifecycle!Next
  <2>4. CASE Judges
    BY <2>4, VerdictsJudge DEF Lifecycle!Next
  <2>5. QED
    BY <2>1, <2>2, <2>3, <2>4, StepKinds DEF vars
<1>3. QED
  BY <1>1, <1>2, Invariance, PTL DEF Spec, LifecycleSpec, Lifecycle!Spec
=============================================================================
