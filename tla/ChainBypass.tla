----------------------------- MODULE ChainBypass -----------------------------
(* The global bypass of the signal chain (namir-engine: chain). A block goes *)
(* through the stages, around them through a delay line, or both ways in a   *)
(* crossfade, and every block feeds the line.                                *)
(*                                                                           *)
(* The loops over the frames of a block are taken frame by frame, one channel *)
(* stands for all. The weight of the crossfade moves in Gradations steps of  *)
(* one instead of ever smaller ones: as in the code it stays short of its    *)
(* end until the block is over and is set to it then. The values of samples, *)
(* the ceiling and the scan for faults among them, are left out.             *)
EXTENDS Integers, EngineState

\* prepare_crosscutting
Init ==
    /\ global_bypass = FALSE /\ latency \in Latencies
    /\ line = [i \in 0..(LineLength - 1) |-> 0] /\ write = 0
    /\ mix = 0 /\ begun = FALSE
    /\ left = 0 /\ position = 0 /\ frame = 0 /\ steady = 0
    /\ heard = [dry |-> 0, weight |-> 0, wet |-> FALSE]

\* Chain::apply
SetGlobalBypass(enabled) ==
    /\ left = 0
    /\ global_bypass' = enabled
    /\ steady' = IF enabled = global_bypass THEN steady ELSE 0
    /\ UNCHANGED <<latency, line, write, mix, begun, left, position, frame, heard>>

\* A model is installed, or leaves.
ChangeLatency(samples) ==
    /\ left = 0
    /\ latency' = samples
    /\ UNCHANGED <<global_bypass, line, write, mix, begun, left, position, frame, heard, steady>>

\* The first block begins where the bypass is.
Begin(block) ==
    /\ left = 0 /\ frame + block <= MaxFrame
    /\ left' = block /\ begun' = TRUE
    /\ mix' = IF begun THEN mix ELSE Target
    /\ position' = mix'
    /\ UNCHANGED <<global_bypass, latency, line, write, frame, heard, steady>>

\* Mutant: the way around the stages is taken by the switch alone.
DryIfBypassed == Target > 0
DryContributes == mix > 0 \/ Target > 0
WetContributes == mix < Gradations \/ Target < Gradations

\* DelayLine::run
Following == IF write + 1 = LineLength THEN 0 ELSE write + 1
Read == IF Delay <= write THEN write - Delay ELSE write + LineLength - Delay
Delayed == IF Delay > 0 THEN line[Read] ELSE frame + 1

\* Mutant: a block that needs no delayed input does not feed the line.
FedIfHeard ==
    IF DryContributes THEN <<[line EXCEPT ![write] = frame + 1], Following>> ELSE <<line, write>>
\* Mutant: it does, unless the delay is none.
FedIfDelayed ==
    IF DryContributes \/ Delay > 0
      THEN <<[line EXCEPT ![write] = frame + 1], Following>> ELSE <<line, write>>
Fed == <<[line EXCEPT ![write] = frame + 1], Following>>

\* blend: a step towards the target, which the block never reaches,
Near(place) == place - Target \in -1..1
Toward(place) ==
    IF Near(place) THEN place ELSE IF place < Target THEN place + 1 ELSE place - 1
\* Mutant: the fade is never ended.
Unsnapped(place) == place
\* and its end is set.
Snapped(place) == IF Near(place) THEN Target ELSE place

Blending == DryContributes /\ WetContributes

\* The next frame of the block.
Frame ==
    /\ left > 0
    /\ frame' = frame + 1 /\ left' = left - 1 /\ steady' = steady + 1
    /\ line' = Fed[1] /\ write' = Fed[2]
    /\ position' = IF Blending THEN Toward(position) ELSE position
    /\ mix' = IF left = 1 /\ Blending THEN Snapped(position') ELSE mix
    /\ heard' = [dry |-> IF DryContributes THEN Delayed ELSE 0,
                 weight |-> IF Blending THEN position' ELSE IF DryContributes THEN Gradations ELSE 0,
                 wet |-> WetContributes]
    /\ UNCHANGED <<global_bypass, latency, begun>>

Next ==
    \/ \E enabled \in BOOLEAN : SetGlobalBypass(enabled)
    \/ \E samples \in Latencies : ChangeLatency(samples)
    \/ \E block \in 1..MaxFrames : Begin(block)
    \/ Frame

Spec == Init /\ [][Next]_chain
------------------------------------------------------------------------------

TypeOK ==
    /\ global_bypass \in BOOLEAN /\ begun \in BOOLEAN
    /\ latency \in Latencies
    /\ line \in [0..(LineLength - 1) -> Nat] /\ write \in 0..(LineLength - 1)
    /\ mix \in 0..Gradations /\ position \in 0..Gradations
    /\ left \in 0..MaxFrames /\ frame \in Nat /\ steady \in Nat
    /\ heard \in [dry : Nat, weight : 0..Gradations, wet : BOOLEAN]

\* The line holds the last LineLength frames, the latest before write.
LineInv ==
    \A i \in 0..(LineLength - 1) :
        LET held == frame - write + i + 1 - (IF i < write THEN 0 ELSE LineLength)
        IN line[i] = IF held > 0 THEN held ELSE 0

\* Where the fade is: it has gone a step a frame since the last change, or is
\* within its last step; a block that began before it settled began early enough.
Distance(place) == IF place < Target THEN Target - place ELSE place - Target
FadeInv ==
    /\ left > 0 => begun
    /\ frame > 0 => begun
    /\ ~begun => mix = 0
    /\ begun /\ left = 0 => mix = Target \/ (Distance(mix) + steady <= Gradations
                                                 /\ steady <= Gradations - 2)
    /\ left > 0 /\ mix # Target => steady + left <= Gradations + MaxFrames - 2
    /\ left > 0 /\ mix = Target => position = mix
    /\ left > 0 /\ mix # Target =>
         Distance(position) <= 1 \/ Distance(position) + steady <= Gradations

\* What was heard last is where the fade is, unless the fade has just been set to
\* its end.
Place == IF left > 0 THEN position ELSE mix
HeardInv ==
    frame > 0 => \/ heard.weight = Place
                 \/ Place \in {0, Gradations} /\ heard.weight - Place \in -1..1
=============================================================================
