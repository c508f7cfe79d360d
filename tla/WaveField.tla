----------------------------- MODULE WaveField -----------------------------
(***************************************************************************)
(* The wave store of one TRIAD node: QuantumField (src/quantum/field.rs)   *)
(* and the ConsensusNode that drives it (src/quantum/consensus.rs).        *)
(*                                                                         *)
(* A wave is kept with its amplitude in units of 0.0001, its phase in quarter  *)
(* turns and its times in ticks.  An Ed25519 signature covers the wave's   *)
(* id, amplitude, phase and shard, and a stored wave changes its amplitude *)
(* only: a signature is the pair "who signed" and "which amplitude" (orig).*)
(*                                                                         *)
(* process_waves_batch and process_batch run to completion on &mut self,   *)
(* but they read the clock again for every wave: each is a call of several *)
(* steps between which only the clock moves.                               *)
(***************************************************************************)
EXTENDS Integers, Sequences, FiniteSets, FiniteSetsExt

CONSTANTS
  Keys,          \* wave ids (state ids, message ids)
  Nodes,         \* owners of signing keys
  Self,          \* the node whose field this is
  NoOne,         \* the "signer" of a wave with an empty signature
  Shapes,        \* phase (quarter turns) and amplitude (0.0001) of incoming waves
  MaxWaves,      \* QuantumField.max_waves
  LifeRejected, LifeNew, LifePartial, LifeValidated,  \* 50 ms, 100 ms, 300 s, 600 s
  MaxBatch,      \* bound: waves per batch
  MaxDelay,      \* bound: ticks between the creation and the arrival of a wave
  MaxNow         \* bound: the clock

ASSUME FieldAssumption ==
  /\ Self \in Nodes /\ NoOne \notin Nodes
  /\ \A h \in Shapes : h.phase \in 0..3 /\ h.amp \in Nat /\ h.amp >= 2
  /\ MaxWaves \in Nat \ {0}
  /\ {LifeRejected, LifeNew, LifePartial, LifeValidated} \subseteq Nat
  /\ LifeRejected < LifeNew /\ LifeNew < LifePartial /\ LifePartial < LifeValidated
  /\ {MaxBatch, MaxDelay, MaxNow} \subseteq Nat

VARIABLES
  now,      \* Instant::now()
  active,   \* QuantumField.active_waves
  cache,    \* ConsensusNode.cache: the state ids already processed
  call      \* the batch call in progress

vars == <<now, active, cache, call>>

Lifetimes == {LifeRejected, LifeNew, LifePartial, LifeValidated}
Unit == 10000                    \* amplitude 1.0
ExtinctAmp == 100                \* 0.1 * 0.1 exceeds 0.01 by one ulp in f64

Wave == [phase : 0..3, amp : Nat, orig : Nat, signer : Nodes \cup {NoOne},
         born : Int, life : Lifetimes]

NewWave(phase, amp, signer, born, life) ==
  [phase |-> phase, amp |-> amp, orig |-> amp, signer |-> signer,
   born |-> born, life |-> life]

Item == [key : Keys, wave : Wave, vk : Nodes \cup {NoOne}]

Idle == [op |-> "none", todo |-> <<>>, added |-> {}]

----------------------------------------------------------------------------
(* QuantumWave and QuantumField, as operators on the map of active waves.  *)

\* Fault: the signature does not cover the amplitude.
AmplitudeUnsigned(w, vk) == w.signer = vk /\ w.signer # NoOne
VerifySignature(w, vk) == w.signer = vk /\ w.signer # NoOne /\ w.amp = w.orig
Age(w) == now - w.born
Unexpired(w) == Age(w) < w.life
Extinguished(w) == w.amp < ExtinctAmp

Keep(f, S) == [k \in S |-> f[k]]
Put(f, k, w) == [j \in DOMAIN f \cup {k} |-> IF j = k THEN w ELSE f[j]]

\* min_by_key over a HashMap: waves of one instant tie in no particular order.
Oldest(f) == {k \in DOMAIN f : \A j \in DOMAIN f : f[k].born <= f[j].born}

\* Faults in making room: an off-by-one, an arbitrary victim, a cleared map.
RoomTooLate(f) ==
  IF Cardinality(DOMAIN f) > MaxWaves
  THEN {Keep(f, DOMAIN f \ {k}) : k \in Oldest(f)}
  ELSE {f}
RoomAtRandom(f) ==
  IF Cardinality(DOMAIN f) >= MaxWaves
  THEN {Keep(f, DOMAIN f \ {k}) : k \in DOMAIN f}
  ELSE {f}
RoomByClearing(f) ==
  IF Cardinality(DOMAIN f) >= MaxWaves THEN {Keep(f, {})} ELSE {f}

\* The maps that may be left when one place has been made for a wave.
MakeRoom(f) ==
  IF Cardinality(DOMAIN f) >= MaxWaves
  THEN {Keep(f, DOMAIN f \ {k}) : k \in Oldest(f)}
  ELSE {f}

AddWave(f, k, w) == {Put(g, k, w) : g \in MakeRoom(f)}

\* add_signed_wave: the maps it may leave, the unchanged one when it refuses.
AddSignedWave(f, k, w, vk) ==
  IF VerifySignature(w, vk) /\ Age(w) <= w.life THEN AddWave(f, k, w) ELSE {f}

\* Fault: the lifetime is extended instead of set.
LifetimeExtended(w, verdict) ==
  [w EXCEPT !.amp = IF verdict = "Validated" THEN (3 * @) \div 2
                    ELSE IF verdict = "PartiallyValidated" THEN (7 * @) \div 10 ELSE @ \div 10,
            !.life = IF verdict = "Rejected" THEN LifeRejected ELSE @ + LifePartial]

UpdateAmplitude(w, verdict) ==
  CASE verdict = "Validated" ->
         [w EXCEPT !.amp = (3 * @) \div 2, !.life = LifeValidated]
    [] verdict = "PartiallyValidated" ->
         [w EXCEPT !.amp = (7 * @) \div 10, !.life = LifePartial]
    [] verdict = "Rejected" ->
         [w EXCEPT !.amp = @ \div 10, !.life = LifeRejected]

UpdateWaveAmplitudes(f, verdicts) ==
  [k \in DOMAIN f |-> UpdateAmplitude(f[k], verdicts[k])]

CleanupExpiredWaves(f) == Keep(f, {k \in DOMAIN f : Unexpired(f[k])})

RemoveExtinguishedWaves(f) ==
  Keep(f, {k \in DOMAIN f : ~Extinguished(f[k]) /\ Unexpired(f[k])})

----------------------------------------------------------------------------
(* Judging a wave.                                                         *)

\* InterferenceEngine over one period: waves of one frequency add up to a
\* single wave of resultant <<re, im>>, damped along the period, and only its
\* points beyond 0.01 are counted.  The class of the pattern is what
\* decide_wave_fate asks: more than 70 % of the counted points constructive,
\* more than 60 % destructive, or neither.  The intervals are those the engine
\* computes (1000 points, decay 0.95) for a resultant along the cosine axis;
\* off the axis every class is allowed.
Patterns == {"constructive", "destructive", "mixed"}

Component(S, plus, minus) ==
  MapThenSumSet(LAMBDA k : IF active[k].phase = plus THEN active[k].amp
                           ELSE IF active[k].phase = minus THEN -active[k].amp ELSE 0, S)

PatternClasses(S) ==
  LET re == Component(S, 0, 2)
      im == Component(S, 1, 3)
  IN  IF im # 0 THEN Patterns
      ELSE IF re \in 101..161 THEN {"constructive"}
      ELSE IF re \in (223..255) \cup (-165..-101) THEN {"destructive"}
      ELSE {"mixed"}

Distance(a, b) == IF a >= b THEN a - b ELSE b - a

\* |phase difference - pi| / pi of two waves, in halves.
PairConflict(v, w) == Distance(Distance(v.phase, w.phase), 2)

\* The mean over the other waves, kept as a sum and a count.
ConflictSum(k) ==
  MapThenSumSet(LAMBDA j : PairConflict(active[j], active[k]), DOMAIN active \ {k})
Others == Cardinality(DOMAIN active) - 1

LowConflict(k) == Others = 0 \/ 10 * ConflictSum(k) < 6 * Others    \* < 0.3
HighConflict(k) == 10 * ConflictSum(k) > 14 * Others                \* > 0.7

DecideWaveFate(k, pattern) ==
  IF pattern = "constructive" /\ LowConflict(k) THEN "Validated"
  ELSE IF pattern = "destructive" \/ HighConflict(k) THEN "Rejected"
  ELSE "PartiallyValidated"

\* Fault: the signature is not checked again before a wave is judged.
VerdictOnAnyWave(k, pattern) == DecideWaveFate(k, pattern)

\* The judging node verifies every wave with its own public key.
Verdict(k, pattern) ==
  IF VerifySignature(active[k], Self) THEN DecideWaveFate(k, pattern) ELSE "Rejected"

\* A wave is judged in a copy of the field to which it is added once more: in
\* a full field the copy loses its oldest wave o, unless that is the wave.
PatternOf(k, o, whole, reduced) ==
  IF Cardinality(DOMAIN active) >= MaxWaves /\ k # o THEN reduced ELSE whole

Verdicts(o, whole, reduced) ==
  [k \in DOMAIN active |-> Verdict(k, PatternOf(k, o, whole, reduced))]

\* Fault: the dead waves are removed before the verdicts are applied.
SettledTooEarly(verdicts) ==
  UpdateWaveAmplitudes(CleanupExpiredWaves(RemoveExtinguishedWaves(active)), verdicts)

Settled(verdicts) ==
  CleanupExpiredWaves(RemoveExtinguishedWaves(UpdateWaveAmplitudes(active, verdicts)))

----------------------------------------------------------------------------
(* The operations.  All of them take &mut self: none starts in a call.     *)

Free == call.op = "none"

\* Waves that new_signed() made at most MaxDelay ticks ago, with the public
\* key the caller received for each.
IncomingItems ==
  {[key |-> k, wave |-> NewWave(h.phase, h.amp, s, now - d, LifeNew), vk |-> v] :
     k \in Keys, h \in Shapes, s \in Nodes, d \in 0..MaxDelay, v \in Nodes}

\* Waves made from QuantumStates: unsigned, created now, 300 s to live.
StateItems ==
  {[key |-> k, wave |-> NewWave(h.phase, h.amp, NoOne, now, LifePartial), vk |-> NoOne] :
     k \in Keys, h \in Shapes}

Batches(items) == UNION {[1..n -> items] : n \in 1..MaxBatch}

Init ==
  /\ now = 0
  /\ active = [k \in {} |-> NewWave(0, Unit, Self, 0, LifeNew)]
  /\ cache = {}
  /\ call = Idle

Tick ==
  /\ now < MaxNow
  /\ now' = now + 1
  /\ UNCHANGED <<active, cache, call>>

\* QuantumField.add_signed_wave called by itself, as the network handler does.
AddSigned ==
  /\ Free
  /\ \E i \in IncomingItems : active' \in AddSignedWave(active, i.key, i.wave, i.vk)
  /\ UNCHANGED <<now, cache, call>>

\* process_message of a correctly signed message.  A cached state id only reads
\* the field, and fails when the wave is gone; a bad signature changes nothing.
ProcessMessage(k) ==
  /\ Free
  /\ k \notin cache
  /\ active' \in AddWave(active, k, NewWave(0, Unit, NoOne, now, LifeNew))
  /\ cache' = cache \cup {k}
  /\ UNCHANGED <<now, call>>

\* process_batch: every wave is made first, then they are added one by one,
\* and the verdict on the batch leaves the field as it is, Ok or Err.
BeginStates ==
  /\ Free
  /\ \E b \in Batches(StateItems) : call' = [Idle EXCEPT !.op = "states", !.todo = b]
  /\ UNCHANGED <<now, active, cache>>

\* process_waves_batch: one bad signature and the whole batch is refused.
VerifyWavesBatch(b) == \A n \in DOMAIN b : VerifySignature(b[n].wave, b[n].vk)

BeginWaves ==
  /\ Free
  /\ \E b \in Batches({i \in IncomingItems : VerifySignature(i.wave, i.vk)}) :
       /\ VerifyWavesBatch(b)
       /\ call' = [Idle EXCEPT !.op = "waves", !.todo = b]
  /\ UNCHANGED <<now, active, cache>>

\* The next wave of the batch: a signed wave that has become too old is skipped.
AddNext ==
  /\ call.todo # <<>>
  /\ LET i == Head(call.todo)
         skip == call.op = "waves" /\ Age(i.wave) > i.wave.life
     IN  /\ active' \in IF call.op = "states" THEN AddWave(active, i.key, i.wave)
                        ELSE AddSignedWave(active, i.key, i.wave, i.vk)
         /\ call' = [call EXCEPT !.todo = Tail(@),
                                 !.added = IF skip THEN @ ELSE @ \cup {i.key}]
  /\ UNCHANGED <<now, cache>>

EndStates ==
  /\ call.op = "states" /\ call.todo = <<>>
  /\ call' = Idle
  /\ UNCHANGED <<now, active, cache>>

\* The end of process_waves_batch: judge every active wave, new or old, apply
\* the verdicts, remove what is extinguished or expired.
Settle(o, whole, reduced) ==
  /\ call.op = "waves" /\ call.todo = <<>>
  /\ DOMAIN active # {} => o \in Oldest(active)
  /\ whole \in PatternClasses(DOMAIN active)
  /\ reduced \in PatternClasses(DOMAIN active \ {o})
  /\ active' = Settled(Verdicts(o, whole, reduced))
  /\ call' = Idle
  /\ UNCHANGED <<now, cache>>

CleanupExpired ==
  /\ Free
  /\ active' = CleanupExpiredWaves(active)
  /\ UNCHANGED <<now, cache, call>>

RemoveExtinguished ==
  /\ Free
  /\ active' = RemoveExtinguishedWaves(active)
  /\ UNCHANGED <<now, cache, call>>

Next ==
  \/ Tick
  \/ AddSigned
  \/ \E k \in Keys : ProcessMessage(k)
  \/ BeginStates
  \/ BeginWaves
  \/ AddNext
  \/ EndStates
  \/ \E o \in Keys, whole, reduced \in Patterns : Settle(o, whole, reduced)
  \/ CleanupExpired
  \/ RemoveExtinguished

Spec == Init /\ [][Next]_vars

----------------------------------------------------------------------------
(* Properties.                                                             *)

EndOfWavesBatch == call.op = "waves" /\ call'.op = "none"

\* The types of the variables.
TypeOK ==
  /\ now \in Nat
  /\ DOMAIN active \subseteq Keys /\ active \in [DOMAIN active -> Wave]
  /\ cache \subseteq Keys
  /\ call \in [op : {"none", "states", "waves"}, todo : Seq(Item), added : SUBSET Keys]

\* The field never holds more than max_waves waves, whatever mixture of single
\* messages, batches and evictions filled it (add_wave makes room first).
Capacity == Cardinality(DOMAIN active) <= MaxWaves

\* Amplification does not compound: update_amplitude changes what the
\* signature covers, so no sequence of batches takes a wave above one and a
\* half times the amplitude it came with.
AmplifiedOnce == \A k \in DOMAIN active : active[k].amp <= (3 * active[k].orig) \div 2

\* The ten minutes of a validated wave are kept by this node's own waves only,
\* each amplified exactly once: the waves of other nodes and the unsigned ones
\* never verify under this node's key.
LongLivedAreOwn ==
  \A k \in DOMAIN active :
    active[k].life = LifeValidated =>
      active[k].signer = Self /\ active[k].amp = (3 * active[k].orig) \div 2

\* A wave that has been judged once only fades from then on, in amplitude and
\* in lifetime, until a new wave takes its key.
JudgedOnlyFades ==
  [][\A k \in DOMAIN active \cap DOMAIN active' :
       active[k].amp # active[k].orig /\ active'[k].amp # active'[k].orig =>
         active'[k].amp <= active[k].amp /\ active'[k].life <= active[k].life]_vars

\* Outside the end of a waves batch a wave is lost only when its time is over,
\* when it is extinguished, or as an oldest wave of a full field.
LossIsJustified ==
  [][\A k \in DOMAIN active \ DOMAIN active' :
       \/ EndOfWavesBatch
       \/ ~Unexpired(active[k])
       \/ Extinguished(active[k])
       \/ Cardinality(DOMAIN active) = MaxWaves /\ k \in Oldest(active)]_vars

\* process_waves_batch ends with a field in which every wave is alive, by the
\* lifetime and the amplitude its verdict has just given it.
SettledFieldIsLive ==
  [][EndOfWavesBatch =>
       \A k \in DOMAIN active' :
         ~Extinguished(active'[k]) /\ now' - active'[k].born < active'[k].life]_vars

----------------------------------------------------------------------------
(* What comments of the code say and the code does not do: each is refuted *)
(* by a run of its own.                                                    *)

\* "Antiphase (pi) = maximal conflict" (consensus.rs:599): a wave to which all
\* the others are in antiphase is in conflict, hence never amplified.
AntiphaseIsNotAmplified ==
  [][EndOfWavesBatch =>
       \A k \in DOMAIN active \cap DOMAIN active' :
         /\ DOMAIN active # {k}
         /\ \A j \in DOMAIN active \ {k} : Distance(active[j].phase, active[k].phase) = 2
         => active'[k].amp <= active[k].amp]_vars
=============================================================================
