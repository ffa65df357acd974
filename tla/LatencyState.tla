---------------------------- MODULE LatencyState -----------------------------
(* What LatencyHandshake and its proofs are about: parameters, state, and the promises
   that other modules cite. *)
EXTENDS Naturals

CONSTANTS
    Models, NoRef,
    Rates,
    Latency,        \* model |-> rate |-> the samples its resampler adds
    Loads,          \* what a state may name: models, or NoRef
    Hands,          \* the pool's threads
    FadeBlocks, SettleBlocks,
    NoClaim, NoFade,
    MaxChanges      \* made from outside: loads, files, deactivations, rates, delays

ASSUME LatencyAssumption ==
    /\ Latency \in [Models -> [Rates -> Nat]]
    /\ NoRef \notin Models /\ Loads \subseteq Models \cup {NoRef}
    /\ FadeBlocks \in Nat /\ SettleBlocks \in Nat \ {0} /\ FadeBlocks < SettleBlocks
    /\ NoClaim \notin [announced : Nat, bumped : BOOLEAN, settle : Nat \cup {NoClaim}]
    /\ MaxChanges \in Nat

VARIABLES
    ref,        \* the reference the instance holds
    file,       \* model |-> what has become of its file
    rate,       \* of this activation, or of the last
    active,
    figure,     \* latency_samples
    basis,      \* latency_basis_rate; 0 stands for none yet
    announced,  \* latency_announced: what the host was last told
    dirty,      \* latency_dirty
    engine,     \* the engine's own reading, as last seen by process()
    fade,       \* the latency a handover is bringing and the calls it has left
    claim,      \* CarriedLatency
    stores,     \* what announce_latency has still to store
    asking,     \* it has still to ask for a callback
    callback,   \* the host owes a callback
    deciding,   \* on_main_thread has taken the flag down and must act on it
    restart,    \* the host owes a restart
    reopening,  \* it has begun: the plug-in is inactive meanwhile
    jobs,       \* replays queued
    entries,    \* loads of library entries queued
    bumping,    \* the threads that have left the engine and owe the epoch
    recording,  \* thread |-> the reference it will set after that
    lapsed,     \* history: see ToldOrAboutToBe
    changes     \* made so far

\* An outstanding prediction is about the figure the host holds now, and
\* about an engine that has not spoken since it was built.
ClaimStands ==
    claim # NoClaim =>
        active /\ claim.announced = announced /\ announced # 0 /\ engine = 0

\* A change of latency is never forgotten: if the host holds another figure
\* than the engine's own, a prediction is about to be judged by a job that is
\* queued or done, or the audio thread, the callback or the restart that will
\* tell it is under way.  Two lapses are excepted, which the code allows: the
\* flag was taken down before the relaxed store of the figure was seen, or a
\* replay found nothing to replay while a figure was predicted.
ToldOrAboutToBe ==
    active /\ announced # engine =>
        \/ claim # NoClaim /\ (claim.bumped \/ jobs > 0 \/ bumping # {})
        \/ asking \/ (dirty /\ callback) \/ deciding \/ restart
        \/ lapsed
=============================================================================
