----------------------------- MODULE EngineProofs ----------------------------
(* The way around the stages is in step with what the chain reports, and the *)
(* fade between the two is smooth and ends, for every length of line, fade   *)
(* and block.                                                                *)
(*                                                                           *)
(* For the first, the line holds the last frames whole (LineInv), because    *)
(* every block feeds it. For the second, a fade has gone a step a frame or   *)
(* is within its last one (FadeInv), and what was heard last is where it is, *)
(* or one step short of an end it has just been set to (HeardInv), so that   *)
(* whichever way it goes next it goes back past what was heard.              *)
(*                                                                           *)
(* Then: the resampled NAM slot delays its signal by one engine block        *)
(* and never splices silence into it, for every engine block and host block  *)
(* size.  Its invariant is the one the source states between calls, carried  *)
(* into the call: the FIFOs hold one engine block plus what the call         *)
(* brought.  Under it an output that is short means an input longer than a   *)
(* block, so the loop ends only once the output is long enough.              *)
(*                                                                           *)
(* The telemetry ring never gives a reader what it has gone past, nor        *)
(* invents a loss: see RingInv.                                              *)
(*                                                                           *)
(* And the partitioned convolution of an impulse response is its convolution *)
(* in the time domain, with its work spread over the calls, for every length *)
(* of response, block, growth and ceiling and every cut of the input into    *)
(* calls: see ConvolverInv.                                                  *)
(*                                                                           *)
(* So is a neural model run block by block the network over the whole of its *)
(* input, for every shape and weights and every cut into blocks: see         *)
(* WaveNetInv.                                                               *)
EXTENDS Convolver, EngineState, TelemetryState, WaveNetState, FiniteSetTheorems, TLAPS

Chain == INSTANCE ChainBypass
Net == INSTANCE WaveNet

IInv == Chain!TypeOK /\ Chain!LineInv /\ Chain!FadeInv /\ Chain!HeardInv

LEMMA InitOK ==
  ASSUME ChainAssumption, Chain!Init
  PROVE  IInv
<1>1. Chain!TypeOK
  <2>1. heard \in [dry : Nat, weight : 0..Gradations, wet : BOOLEAN]
    BY DEF ChainAssumption, Chain!Init
  <2>2. line \in [0..(LineLength - 1) -> Nat] /\ write \in 0..(LineLength - 1)
    BY DEF ChainAssumption, Chain!Init
  <2>3. global_bypass \in BOOLEAN /\ begun \in BOOLEAN /\ latency \in Latencies
    BY DEF Chain!Init
  <2>4. /\ mix \in 0..Gradations /\ position \in 0..Gradations
        /\ left \in 0..MaxFrames /\ frame \in Nat /\ steady \in Nat
    BY DEF ChainAssumption, Chain!Init
  <2> QED
    BY <2>1, <2>2, <2>3, <2>4 DEF Chain!TypeOK
<1>2. Chain!LineInv
  BY DEF ChainAssumption, Chain!Init, Chain!LineInv
<1>3. Chain!FadeInv /\ Chain!HeardInv
  BY DEF Chain!Init, Chain!FadeInv, Chain!HeardInv
<1> QED
  BY <1>1, <1>2, <1>3 DEF IInv

\* Where the frame due now is, as long as the line is whole.
LEMMA DueFrame ==
  ASSUME ChainAssumption, Chain!TypeOK, Chain!LineInv
  PROVE  Chain!Delayed = IF Chain!Delay < frame + 1 THEN frame + 1 - Chain!Delay ELSE 0
<1>1. Chain!Delay \in 0..(LineLength - 1)
  BY DEF ChainAssumption, Chain!TypeOK, Chain!Delay
<1>2. CASE Chain!Delay = 0
  BY <1>2 DEF Chain!Delayed, Chain!TypeOK
<1>3. CASE Chain!Delay > 0
  <2>1. Chain!Read \in 0..(LineLength - 1)
    BY <1>1, <1>3 DEF Chain!Read, Chain!TypeOK, ChainAssumption
  <2>2. (IF Chain!Read < write THEN Chain!Read ELSE Chain!Read - LineLength) = write - Chain!Delay
    BY <1>1, <1>3 DEF Chain!Read, Chain!TypeOK, ChainAssumption
  <2>3. frame - write + Chain!Read + 1 - (IF Chain!Read < write THEN 0 ELSE LineLength)
          = frame + 1 - Chain!Delay
    BY <1>1, <2>1, <2>2 DEF Chain!TypeOK, ChainAssumption
  <2> QED
    BY <1>1, <1>3, <2>1, <2>3 DEF Chain!LineInv, Chain!Delayed, Chain!TypeOK, ChainAssumption
<1> QED
  BY <1>1, <1>2, <1>3

------------------------------------------------------------------------------
(* A frame of a block.                                                       *)

LEMMA FramePlaces ==
  ASSUME ChainAssumption, Chain!TypeOK, Chain!Frame
  PROVE  /\ Chain!Target \in {0, Gradations} /\ Chain!Target' = Chain!Target
         /\ Chain!Toward(position) \in 0..Gradations
         /\ position' \in 0..Gradations /\ mix' \in 0..Gradations
         /\ Chain!Delayed \in Nat
         /\ Chain!Following \in 0..(LineLength - 1)
<1>1. Chain!Target \in {0, Gradations} /\ Chain!Target' = Chain!Target
  BY DEF Chain!Target, Chain!Frame
<1>2. Chain!Toward(position) \in 0..Gradations
  BY <1>1 DEF Chain!Toward, Chain!Near, Chain!TypeOK, ChainAssumption
<1>3. position' \in 0..Gradations
  BY <1>2 DEF Chain!Frame, Chain!TypeOK
<1>4. mix' \in 0..Gradations
  BY <1>1, <1>3 DEF Chain!Frame, Chain!TypeOK, Chain!Snapped, ChainAssumption
<1>5. Chain!Delay \in 0..(LineLength - 1) /\ (Chain!Delay > 0 => Chain!Read \in 0..(LineLength - 1))
  BY DEF Chain!Delay, Chain!Read, Chain!TypeOK, ChainAssumption
<1>6. Chain!Delayed \in Nat
  BY <1>5 DEF Chain!Delayed, Chain!TypeOK
<1>7. Chain!Following \in 0..(LineLength - 1)
  BY DEF Chain!Following, Chain!TypeOK, ChainAssumption
<1> QED
  BY <1>1, <1>2, <1>3, <1>4, <1>6, <1>7

LEMMA FrameTyped ==
  ASSUME ChainAssumption, Chain!TypeOK, Chain!Frame
  PROVE  Chain!TypeOK'
<1>1. line' \in [0..(LineLength - 1) -> Nat] /\ write' \in 0..(LineLength - 1)
  BY FramePlaces DEF Chain!Frame, Chain!Fed, Chain!TypeOK, ChainAssumption
<1>2. heard' \in [dry : Nat, weight : 0..Gradations, wet : BOOLEAN]
  BY FramePlaces DEF Chain!Frame, Chain!WetContributes, Chain!TypeOK, ChainAssumption
<1>3. position' \in 0..Gradations /\ mix' \in 0..Gradations
  BY FramePlaces
<1>4. left' \in 0..MaxFrames /\ frame' \in Nat /\ steady' \in Nat
  BY DEF Chain!Frame, Chain!TypeOK, ChainAssumption
<1>5. global_bypass' \in BOOLEAN /\ begun' \in BOOLEAN /\ latency' \in Latencies
  BY DEF Chain!Frame, Chain!TypeOK
<1> QED
  BY <1>1, <1>2, <1>3, <1>4, <1>5 DEF Chain!TypeOK

LEMMA FrameFeeds ==
  ASSUME ChainAssumption, Chain!TypeOK, Chain!LineInv, Chain!Frame
  PROVE  Chain!LineInv'
<1> SUFFICES ASSUME NEW i \in 0..(LineLength - 1)
             PROVE  line'[i] = IF (frame - write + i + 1 - (IF i < write THEN 0 ELSE LineLength))' > 0
                                 THEN (frame - write + i + 1 - (IF i < write THEN 0 ELSE LineLength))'
                                 ELSE 0
  BY DEF Chain!LineInv
<1>1. line' = [line EXCEPT ![write] = frame + 1] /\ write' = Chain!Following /\ frame' = frame + 1
  BY DEF Chain!Frame, Chain!Fed
<1>2. CASE i = write
  <2>1. (frame - write + i + 1 - (IF i < write THEN 0 ELSE LineLength))' = frame + 1
    BY <1>1, <1>2 DEF Chain!Following, Chain!TypeOK, ChainAssumption
  <2> QED
    BY <1>1, <1>2, <2>1 DEF Chain!TypeOK, ChainAssumption
<1>3. CASE i # write
  <2>1. (frame - write + i + 1 - (IF i < write THEN 0 ELSE LineLength))'
          = frame - write + i + 1 - (IF i < write THEN 0 ELSE LineLength)
    BY <1>1, <1>3 DEF Chain!Following, Chain!TypeOK, ChainAssumption
  <2>2. line'[i] = line[i]
    BY <1>1, <1>3 DEF Chain!TypeOK
  <2> QED
    BY <2>1, <2>2 DEF Chain!LineInv
<1> QED
  BY <1>2, <1>3
\* The fade, and what is heard of it.
LEMMA Numbers ==
  ASSUME ChainAssumption, Chain!TypeOK
  PROVE  /\ Gradations \in Nat /\ Gradations > 1 /\ MaxFrames \in Nat /\ MaxFrames > 0
         /\ Chain!Target \in Int /\ Chain!Target \in {0, Gradations}
         /\ mix \in 0..Gradations /\ position \in 0..Gradations
         /\ mix \in Int /\ position \in Int
         /\ left \in 0..MaxFrames /\ left \in Nat /\ frame \in Nat /\ steady \in Nat
         /\ heard.weight \in 0..Gradations
BY DEF ChainAssumption, Chain!TypeOK, Chain!Target

\* A block goes one way when the fade is at its target, and both when it is not.
LEMMA BlendsUnlessSettled ==
  ASSUME ChainAssumption, Chain!TypeOK
  PROVE  /\ Chain!Blending <=> mix # Chain!Target
         /\ Chain!DryContributes <=> (Chain!Blending \/ Chain!Target = Gradations)
         /\ Chain!WetContributes <=> (Chain!Blending \/ Chain!Target = 0)
BY Numbers DEF Chain!Blending, Chain!DryContributes, Chain!WetContributes

LEMMA FrameFades ==
  ASSUME ChainAssumption, Chain!TypeOK, Chain!FadeInv, Chain!HeardInv, Chain!Frame
  PROVE  Chain!FadeInv' /\ Chain!HeardInv'
<1>1. /\ left > 0 /\ left' = left - 1 /\ steady' = steady + 1 /\ frame' = frame + 1
      /\ begun' = begun /\ begun /\ Chain!Target' = Chain!Target
  BY FramePlaces DEF Chain!Frame, Chain!FadeInv
<1>2. CASE ~Chain!Blending
  <2>1. mix = Chain!Target /\ position = mix /\ position' = position /\ mix' = mix
    BY <1>1, <1>2, BlendsUnlessSettled DEF Chain!Frame, Chain!FadeInv
  <2>2. heard'.weight = mix
    BY <1>2, <2>1, BlendsUnlessSettled, Numbers DEF Chain!Frame
  <2>3. Chain!FadeInv'
    BY <1>1, <2>1, Numbers DEF Chain!FadeInv
  <2> QED
    BY <2>1, <2>2, <2>3 DEF Chain!HeardInv, Chain!Place
<1>3. CASE Chain!Blending
  <2>1. mix # Chain!Target
    BY <1>3, BlendsUnlessSettled
  <2>2. heard'.weight = position' /\ position' = Chain!Toward(position)
    BY <1>3 DEF Chain!Frame
  <2>3. position' \in 0..Gradations /\ mix' \in 0..Gradations
    BY FramePlaces
  <2>4. Chain!Distance(position') <= 1 \/ Chain!Distance(position') + steady' <= Gradations
    BY <1>1, <2>1, <2>2, Numbers DEF Chain!FadeInv, Chain!Distance, Chain!Toward, Chain!Near
  <2>5. Chain!Distance(position)' = Chain!Distance(position')
    BY <1>1 DEF Chain!Distance
  <2>6. CASE left > 1
    <3>1. mix' = mix
      BY <2>6 DEF Chain!Frame
    <3>2. Chain!FadeInv'
      BY <1>1, <2>1, <2>3, <2>4, <2>5, <2>6, <3>1, Numbers DEF Chain!FadeInv
    <3> QED
      BY <1>1, <2>2, <2>6, <3>2, Numbers DEF Chain!HeardInv, Chain!Place
  <2>7. CASE left = 1
    <3>1. mix' = IF position' - Chain!Target \in -1..1 THEN Chain!Target ELSE position'
      BY <1>3, <2>7 DEF Chain!Frame, Chain!Snapped, Chain!Near
    <3>2. mix' = Chain!Target \/ (Chain!Distance(mix') + steady' <= Gradations /\ steady' <= Gradations - 2)
      <4>1. CASE Chain!Distance(position') <= 1
        <5>1. position' - Chain!Target \in -1..1
          BY <2>3, <4>1, Numbers DEF Chain!Distance
        <5>2. mix' = Chain!Target
          BY <3>1, <5>1
        <5> QED
          BY <5>2
      <4>2. CASE ~(Chain!Distance(position') <= 1)
        <5>1. Chain!Distance(position') + steady' <= Gradations
          BY <2>4, <4>2
        <5>2. position' - Chain!Target \notin -1..1 /\ Chain!Distance(position') >= 2
          BY <2>3, <4>2, Numbers DEF Chain!Distance
        <5>3. mix' = position' /\ Chain!Distance(position') \in Int
          BY <2>3, <3>1, <5>2, Numbers DEF Chain!Distance
        <5>4. steady' <= Gradations - 2
          BY <1>1, <5>1, <5>2, <5>3, Numbers
        <5> QED
          BY <5>1, <5>3, <5>4
      <4> QED
        BY <4>1, <4>2
    <3>3. Chain!Distance(mix)' = Chain!Distance(mix')
      BY <1>1 DEF Chain!Distance
    <3>4. Chain!FadeInv'
      BY <1>1, <2>7, <3>2, <3>3, Numbers DEF Chain!FadeInv
    <3>5. Chain!HeardInv'
      BY <1>1, <2>2, <2>3, <2>7, <3>1, Numbers DEF Chain!HeardInv, Chain!Place
    <3> QED
      BY <3>4, <3>5
  <2> QED
    BY <1>1, <2>6, <2>7, Numbers
<1> QED
  BY <1>2, <1>3

------------------------------------------------------------------------------
(* Between blocks.                                                           *)

\* A change of parameters leaves line and frames as they are.
LEMMA Untouched ==
  ASSUME ChainAssumption, Chain!TypeOK, Chain!LineInv,
         UNCHANGED <<line, write, frame, heard>>,
         global_bypass' \in BOOLEAN, begun' \in BOOLEAN, latency' \in Latencies,
         mix' \in 0..Gradations, position' \in 0..Gradations,
         left' \in 0..MaxFrames, steady' \in Nat
  PROVE  Chain!TypeOK' /\ Chain!LineInv'
<1>1. Chain!TypeOK'
  BY DEF Chain!TypeOK
<1>2. Chain!LineInv'
  BY DEF Chain!LineInv
<1> QED
  BY <1>1, <1>2

LEMMA BetweenBlocks ==
  ASSUME ChainAssumption, IInv,
         \/ \E enabled \in BOOLEAN : Chain!SetGlobalBypass(enabled)
         \/ \E samples \in Latencies : Chain!ChangeLatency(samples)
         \/ \E block \in 1..MaxFrames : Chain!Begin(block)
         \/ UNCHANGED Chain!chain
  PROVE  IInv'
<1> USE DEF IInv
<1>1. ASSUME NEW enabled \in BOOLEAN, Chain!SetGlobalBypass(enabled) PROVE IInv'
  <2>1. steady' \in Nat /\ (global_bypass' = global_bypass => steady' = steady)
        /\ (global_bypass' # global_bypass => steady' = 0)
    BY <1>1 DEF Chain!SetGlobalBypass, Chain!TypeOK
  <2>2. Chain!TypeOK' /\ Chain!LineInv'
    BY <1>1, <2>1, Untouched DEF Chain!SetGlobalBypass, Chain!TypeOK
  <2>3. Chain!FadeInv' /\ Chain!HeardInv'
    <3>0. left = 0 /\ left' = 0 /\ begun' = begun /\ mix' = mix /\ frame' = frame
      BY <1>1 DEF Chain!SetGlobalBypass
    <3>1. Chain!HeardInv'
      BY <1>1 DEF Chain!SetGlobalBypass, Chain!HeardInv, Chain!Place
    <3>2. Chain!Target' \in {0, Gradations} /\ (global_bypass' = global_bypass => Chain!Target' = Chain!Target)
      BY DEF Chain!Target
    <3>3. Chain!Distance(mix)' <= Gradations /\ Chain!Distance(mix)' \in Int
      BY <1>1, <3>2, Numbers DEF Chain!SetGlobalBypass, Chain!Distance
    <3>4. CASE global_bypass' = global_bypass
      <4>1. Chain!Distance(mix)' = Chain!Distance(mix)
        BY <1>1, <3>2, <3>4 DEF Chain!SetGlobalBypass, Chain!Distance
      <4> QED
        BY <2>1, <3>0, <3>1, <3>2, <3>4, <4>1 DEF Chain!FadeInv
    <3>5. CASE global_bypass' # global_bypass
      <4>1. Chain!Distance(mix)' + steady' <= Gradations /\ steady' <= Gradations - 2
        BY <2>1, <3>3, <3>5, Numbers
      <4> QED
        BY <3>0, <3>1, <4>1 DEF Chain!FadeInv
    <3> QED
      BY <3>4, <3>5
  <2> QED
    BY <2>2, <2>3
<1>2. ASSUME NEW samples \in Latencies, Chain!ChangeLatency(samples) PROVE IInv'
  <2>1. Chain!TypeOK' /\ Chain!LineInv'
    BY <1>2, Untouched DEF Chain!ChangeLatency, Chain!TypeOK
  <2>2. Chain!FadeInv' /\ Chain!HeardInv'
    BY <1>2 DEF Chain!ChangeLatency, Chain!FadeInv, Chain!HeardInv, Chain!Place, Chain!Target,
                Chain!Distance
  <2> QED
    BY <2>1, <2>2
<1>3. ASSUME NEW block \in 1..MaxFrames, Chain!Begin(block) PROVE IInv'
  <2>1. /\ left' = block /\ block > 0 /\ block <= MaxFrames /\ left = 0
        /\ begun' /\ Chain!Target' = Chain!Target /\ steady' = steady
        /\ position' = mix' /\ mix' \in {mix, Chain!Target} /\ (begun => mix' = mix)
        /\ (~begun => mix' = Chain!Target)
    BY <1>3, ChainAssumption DEF Chain!Begin, Chain!Target, ChainAssumption
  <2>2. Chain!TypeOK' /\ Chain!LineInv'
    BY <1>3, <2>1, Untouched, Numbers DEF Chain!Begin, Chain!TypeOK
  <2>3. Chain!Distance(position)' = Chain!Distance(mix') /\ (begun => Chain!Distance(mix') = Chain!Distance(mix))
    BY <2>1 DEF Chain!Distance
  <2>4. mix' # Chain!Target => Chain!Distance(mix') + steady <= Gradations /\ steady <= Gradations - 2
    BY <2>1, <2>3 DEF Chain!FadeInv
  <2>5. mix' # Chain!Target' => steady' + left' <= Gradations + MaxFrames - 2
    BY <2>1, <2>4, Numbers
  <2>7. Chain!FadeInv'
    BY <2>1, <2>3, <2>4, <2>5, Numbers DEF Chain!FadeInv
  <2>8. Chain!HeardInv'
    BY <1>3, <2>1 DEF Chain!Begin, Chain!FadeInv, Chain!HeardInv, Chain!Place
  <2> QED
    BY <2>2, <2>7, <2>8
<1>4. CASE UNCHANGED Chain!chain
  <2>1. Chain!TypeOK' /\ Chain!LineInv'
    BY <1>4, Untouched DEF Chain!chain, Chain!TypeOK
  <2>2. Chain!FadeInv' /\ Chain!HeardInv'
    BY <1>4 DEF Chain!chain, Chain!FadeInv, Chain!HeardInv, Chain!Place, Chain!Target,
                Chain!Distance
  <2> QED
    BY <2>1, <2>2
<1> QED
  BY <1>1, <1>2, <1>3, <1>4

LEMMA Inductive == Chain!Spec => []IInv
<1>1. Chain!Init => IInv
  BY InitOK, ChainAssumption
<1>2. IInv /\ [Chain!Next]_(Chain!chain) => IInv'
  <2> SUFFICES ASSUME IInv, [Chain!Next]_(Chain!chain) PROVE IInv'
    OBVIOUS
  <2>1. CASE Chain!Frame
    BY <2>1, ChainAssumption, FrameTyped, FrameFeeds, FrameFades DEF IInv
  <2> QED
    BY <2>1, ChainAssumption, BetweenBlocks DEF Chain!Next
<1> QED
  BY <1>1, <1>2, PTL DEF Chain!Spec

\* A frame is processed by Frame alone.
LEMMA OnlyFrame ==
  ASSUME [Chain!Next]_(Chain!chain), frame' # frame
  PROVE  Chain!Frame
BY DEF Chain!Next, Chain!SetGlobalBypass, Chain!ChangeLatency, Chain!Begin, Chain!chain

------------------------------------------------------------------------------

\* The delayed input is the one the reported latency asks for, whatever became of
\* bypass and latency before, for every length of the line and every block.
THEOREM AlwaysInStep == Chain!Spec => DryIsInStep
<1>1. IInv /\ [Chain!Next]_(Chain!chain)
        => [frame' # frame /\ heard'.weight > 0
              => heard'.dry = IF Delay < frame' THEN frame' - Delay ELSE 0]_chain
  <2> SUFFICES ASSUME IInv, [Chain!Next]_(Chain!chain), frame' # frame, heard'.weight > 0
               PROVE  heard'.dry = IF Delay < frame' THEN frame' - Delay ELSE 0
    OBVIOUS
  <2>1. Chain!Frame
    BY OnlyFrame
  <2>2. Chain!DryContributes
    BY <2>1 DEF Chain!Frame, Chain!Blending
  <2>3. heard'.dry = Chain!Delayed /\ frame' = frame + 1
    BY <2>1, <2>2 DEF Chain!Frame
  <2>4. Chain!Delayed = IF Chain!Delay < frame + 1 THEN frame + 1 - Chain!Delay ELSE 0
    BY DueFrame, ChainAssumption DEF IInv
  <2>5. Chain!Delay = Delay /\ Delay \in Int /\ frame \in Int
    BY ChainAssumption DEF IInv, Chain!TypeOK, Chain!Delay, Delay, ChainAssumption
  <2> QED
    BY <2>3, <2>4, <2>5
<1> QED
  BY <1>1, Inductive, PTL DEF Chain!Spec, DryIsInStep

\* A change of the bypass is heard as a fade without a jump and is over within the
\* fade's length and a block, for every length of fade and sequence of blocks.
THEOREM SmoothAndFinite == Chain!Spec => FadesAndSettles
<1>1. IInv /\ [Chain!Next]_(Chain!chain)
        => [frame' # frame =>
              /\ frame > 0 => heard'.weight - heard.weight \in -1..1
              /\ steady' >= Gradations + MaxFrames - 1
                   => heard'.weight = Target /\ heard'.wet = ~global_bypass]_chain
  <2> SUFFICES ASSUME IInv, [Chain!Next]_(Chain!chain), frame' # frame
               PROVE  /\ frame > 0 => heard'.weight - heard.weight \in -1..1
                      /\ steady' >= Gradations + MaxFrames - 1
                           => heard'.weight = Target /\ heard'.wet = ~global_bypass
    OBVIOUS
  <2>1. Chain!Frame /\ Chain!TypeOK /\ Chain!FadeInv /\ Chain!HeardInv
    BY OnlyFrame DEF IInv
  <2>2. CASE Chain!Blending
    <3>1. heard'.weight = Chain!Toward(position) /\ mix # Chain!Target
      BY <2>1, <2>2, ChainAssumption
      DEF Chain!Frame, Chain!Blending, Chain!DryContributes, Chain!WetContributes, Chain!Target,
          Chain!TypeOK, ChainAssumption
    <3>2. frame > 0 => heard'.weight - heard.weight \in -1..1
      BY <2>1, <3>1, ChainAssumption
      DEF Chain!Frame, Chain!HeardInv, Chain!Place, Chain!Toward, Chain!Near, Chain!Target,
          Chain!TypeOK, ChainAssumption
    <3>3. steady' < Gradations + MaxFrames - 1
      BY <2>1, <3>1, ChainAssumption DEF Chain!Frame, Chain!FadeInv, Chain!TypeOK, ChainAssumption
    <3> QED
      BY <2>1, <3>2, <3>3, FrameTyped, ChainAssumption DEF Chain!TypeOK, ChainAssumption
  <2>3. CASE ~Chain!Blending
    <3>1. mix = Chain!Target /\ Chain!Place = mix
      BY <2>1, <2>3, ChainAssumption
      DEF Chain!Frame, Chain!Blending, Chain!DryContributes, Chain!WetContributes, Chain!Target,
          Chain!FadeInv, Chain!Place, Chain!TypeOK,
          ChainAssumption
    <3>2. heard'.weight = Chain!Target /\ heard'.wet = ~global_bypass
      BY <2>1, <2>3, <3>1, ChainAssumption
      DEF Chain!Frame, Chain!Blending, Chain!DryContributes, Chain!WetContributes, Chain!Target,
          Chain!TypeOK, ChainAssumption
    <3> QED
      BY <2>1, <3>1, <3>2, ChainAssumption
      DEF Chain!HeardInv, Chain!Target, Target, Chain!TypeOK, ChainAssumption
  <2>4. Chain!Target = Target
    BY DEF Chain!Target, Target
  <2> QED
    BY <2>2, <2>3, <2>4
<1> QED
  BY <1>1, Inductive, PTL DEF Chain!Spec, FadesAndSettles

------------------------------------------------------------------------------
(* The block-size adapter of a resampled model.                              *)

Resampler == INSTANCE ResamplerFifo

FifosInv ==
  /\ Resampler!TypeOK
  /\ Resampler!OneBlockInFlight
  /\ pc = "idle" => frames = 0
  /\ inFifo <= EngineBlock + frames
  /\ outFifo <= EngineBlock + frames
  /\ spliced = 0

\* The loop of process ends only with the output satisfied.
LEMMA NoShortfall ==
  ASSUME BlocksAssumption, FifosInv, ~Resampler!TickDue
  PROVE  Resampler!Shortfall = 0
BY DEF BlocksAssumption, FifosInv, Resampler!TypeOK, Resampler!OneBlockInFlight,
       Resampler!TickDue, Resampler!Shortfall

LEMMA FifosInductive == Resampler!Spec => []FifosInv
<1>1. Resampler!Init => FifosInv
  BY BlocksAssumption DEF Resampler!Init, FifosInv, Resampler!TypeOK, Resampler!OneBlockInFlight
<1>2. FifosInv /\ [Resampler!Next]_(Resampler!vars) => FifosInv'
  <2> SUFFICES ASSUME FifosInv, [Resampler!Next]_(Resampler!vars) PROVE FifosInv'
    OBVIOUS
  <2> USE BlocksAssumption DEF FifosInv, Resampler!TypeOK, Resampler!OneBlockInFlight
  <2>1. ASSUME NEW n \in 1..MaxBlock, Resampler!Push(n) PROVE FifosInv'
    BY <2>1 DEF Resampler!Push
  <2>2. CASE Resampler!Tick
    BY <2>2 DEF Resampler!Tick, Resampler!TickDue
  <2>3. CASE Resampler!Pop
    <3>1. Resampler!Shortfall = 0
      BY <2>3, NoShortfall DEF Resampler!Pop
    <3>2. outFifo >= frames
      BY <3>1 DEF Resampler!Shortfall
    <3> QED
      BY <2>3, <3>1, <3>2 DEF Resampler!Pop
  <2>4. CASE Resampler!Reset
    BY <2>4 DEF Resampler!Reset
  <2>5. CASE UNCHANGED Resampler!vars
    BY <2>5 DEF Resampler!vars
  <2> QED
    BY <2>1, <2>2, <2>3, <2>4, <2>5 DEF Resampler!Next
<1> QED
  BY <1>1, <1>2, PTL DEF Resampler!Spec

\* SlotResampler::process neither starves nor drifts: between two calls the FIFOs
\* hold exactly one engine block and no silence has been spliced in, for all
\* rates, block sizes and call sequences.
THEOREM ConstantDelay == Resampler!Spec => [](DelayIsConstant /\ Resampler!OneBlockInFlight)
<1>1. FifosInv => DelayIsConstant /\ Resampler!OneBlockInFlight
  BY DEF FifosInv, DelayIsConstant
<1> QED
  BY <1>1, FifosInductive, PTL

\* The bound on the FIFOs that the source leaves empirical: neither ever holds
\* more than one engine block and one host block.
THEOREM FifosBounded == Resampler!Spec => []Resampler!FifosFit
<1>1. FifosInv => Resampler!FifosFit
  BY BlocksAssumption
  DEF FifosInv, Resampler!TypeOK, Resampler!OneBlockInFlight, Resampler!FifosFit,
      Resampler!FifoCapacity
<1> QED
  BY <1>1, FifosInductive, PTL

-----------------------------------------------------------------------------
(* The telemetry ring. The invariant that carries it: the slot of every     *)
(* position stored so far holds that entry or a newer one. A store keeps it *)
(* because it puts the newest entry of all into the one slot it touches.    *)

Ring == INSTANCE TelemetryRing

SlotsHold ==
  /\ slots \in [Ring!Indices -> Int]
  /\ \A p \in 0..(written - 1) : slots[p % Cap] >= p
  /\ \A i \in Ring!Indices : slots[i] < written

Counters == written \in Nat /\ seq \in Nat /\ seq <= written

CursorsOK ==
  /\ cursor \in [Readers -> Nat]
  /\ pos \in [Readers -> Nat] /\ end \in [Readers -> Nat]
  /\ draining \in [Readers -> BOOLEAN]
  /\ \A r \in Readers : end[r] <= written

LastOK == last \in [Readers -> Int]

RingInv == SlotsHold /\ Counters /\ CursorsOK /\ LastOK

LEMMA IndexInRange ==
  ASSUME RingAssumption, NEW p \in Nat
  PROVE  p % Cap \in Ring!Indices
BY DEF RingAssumption, Ring!Indices

LEMMA StoreKeepsSlots ==
  ASSUME RingAssumption, SlotsHold, Counters, Ring!Store
  PROVE  SlotsHold'
<1>1. written \in Nat /\ written' = written + 1
  BY DEF Counters, Ring!Store
<1>2. written % Cap \in Ring!Indices
  BY <1>1, IndexInRange
<1>3. slots' = [slots EXCEPT ![written % Cap] = written]
  BY DEF Ring!Store
<1>4. slots' \in [Ring!Indices -> Int]
  BY <1>1, <1>2, <1>3 DEF SlotsHold
<1>5. ASSUME NEW p \in 0..written PROVE slots'[p % Cap] >= p
  <2>1. p % Cap \in Ring!Indices
    BY <1>1, <1>5, IndexInRange
  <2>2. CASE p % Cap = written % Cap
    BY <1>1, <1>2, <1>3, <1>5, <2>2 DEF SlotsHold
  <2>3. CASE p % Cap # written % Cap
    <3>1. p \in 0..(written - 1)
      BY <1>1, <1>5, <2>3
    <3>2. slots'[p % Cap] = slots[p % Cap]
      BY <1>3, <2>1, <2>3 DEF SlotsHold
    <3> QED
      BY <3>1, <3>2 DEF SlotsHold
  <2> QED
    BY <2>2, <2>3
<1>6. ASSUME NEW i \in Ring!Indices PROVE slots'[i] < written'
  BY <1>1, <1>2, <1>3, <1>6 DEF SlotsHold
<1> QED
  BY <1>1, <1>4, <1>5, <1>6 DEF SlotsHold

LEMMA DrainKeepsCursors ==
  ASSUME RingAssumption, Counters, CursorsOK, SlotsHold, LastOK,
         NEW r \in Readers, Ring!Drain(r)
  PROVE  CursorsOK' /\ LastOK'
<1>1. CASE Ring!BeginDrain(r)
  <2>1. Ring!OldestLive \in Nat
    BY DEF RingAssumption, Counters, Ring!OldestLive, Ring!AtLeast
  <2> DEFINE first == Ring!AtLeast(cursor[r], Ring!OldestLive)
             stop  == Ring!AtMost(seq, first + OutLen)
  <2>2. first \in Nat
    BY <2>1 DEF CursorsOK, Ring!AtLeast
  <2>3. stop \in Nat /\ stop <= written
    BY <2>2 DEF RingAssumption, Counters, Ring!AtMost
  <2>4. /\ pos' = [pos EXCEPT ![r] = first]
        /\ end' = [end EXCEPT ![r] = stop]
        /\ draining' = [draining EXCEPT ![r] = TRUE]
        /\ UNCHANGED <<written, cursor, last>>
    BY <1>1 DEF Ring!BeginDrain
  <2> HIDE DEF first, stop
  <2> QED
    BY <2>2, <2>3, <2>4 DEF CursorsOK, LastOK
<1>2. CASE Ring!Copy(r)
  <2>1. slots[pos[r] % Cap] \in Int
    BY IndexInRange DEF CursorsOK, SlotsHold
  <2> QED
    BY <1>2, <2>1 DEF Ring!Copy, CursorsOK, LastOK
<1>3. CASE Ring!EndDrain(r)
  BY <1>3 DEF Ring!EndDrain, CursorsOK, LastOK
<1> QED
  BY <1>1, <1>2, <1>3 DEF Ring!Drain

LEMMA RingInductive == Ring!Spec => []RingInv
<1>1. Ring!Init => RingInv
  BY RingAssumption
     DEF Ring!Init, RingInv, SlotsHold, Counters, CursorsOK, LastOK, Ring!Unwritten
<1>2. RingInv /\ [Ring!Next]_(Ring!vars) => RingInv'
  <2> SUFFICES ASSUME RingInv, [Ring!Next]_(Ring!vars) PROVE RingInv'
    OBVIOUS
  <2> USE DEF RingInv
  <2>1. CASE Ring!Store
    <3>1. SlotsHold'
      BY <2>1, RingAssumption, StoreKeepsSlots
    <3>2. Counters' /\ CursorsOK' /\ LastOK'
      BY <2>1 DEF Ring!Store, reader, Ring!reader, Counters, CursorsOK, LastOK
    <3> QED
      BY <3>1, <3>2
  <2>2. CASE Ring!Publish
    BY <2>2 DEF Ring!Publish, reader, Ring!reader, SlotsHold, Counters, CursorsOK, LastOK
  <2>3. ASSUME NEW r \in Readers, Ring!Drain(r) PROVE RingInv'
    <3>1. UNCHANGED <<slots, written, seq>>
      BY <2>3 DEF Ring!Drain, Ring!BeginDrain, Ring!Copy, Ring!EndDrain
    <3>2. SlotsHold' /\ Counters'
      BY <3>1 DEF SlotsHold, Counters
    <3> QED
      BY <2>3, <3>2, RingAssumption, DrainKeepsCursors
  <2>4. CASE UNCHANGED Ring!vars
    BY <2>4 DEF Ring!vars, reader, Ring!reader, SlotsHold, Counters, CursorsOK, LastOK
  <2> QED
    BY <2>1, <2>2, <2>3, <2>4 DEF Ring!Next
<1> QED
  BY <1>1, <1>2, PTL DEF Ring!Spec

\* TelemetryReader::drain, at any position it copies, gets the entry pushed there
\* or a newer one, and one that has been stored: a lap in the middle of a drain
\* never brings an old reading back or invents one.
THEOREM ReadersNeverGoBack == Ring!Spec => NeverStale
<1> DEFINE Fresh == \A r \in Readers : draining[r] /\ pos'[r] = pos[r] + 1 =>
                      last'[r] >= pos[r] /\ last'[r] < written
<1>1. RingInv /\ [Ring!Next]_(Ring!vars) => [Fresh]_reader
  <2> SUFFICES ASSUME RingInv, Ring!Next,
                      NEW r \in Readers, draining[r], pos'[r] = pos[r] + 1
               PROVE  last'[r] >= pos[r] /\ last'[r] < written
    BY DEF Ring!vars, Ring!reader, reader
  <2>0. pos[r] \in Nat
    BY DEF RingInv, CursorsOK
  <2>1. Ring!Copy(r)
    <3>1. ASSUME NEW q \in Readers, Ring!Drain(q), q # r PROVE FALSE
      BY <2>0, <3>1 DEF Ring!Drain, Ring!BeginDrain, Ring!Copy, Ring!EndDrain, RingInv, CursorsOK
    <3>2. ~Ring!Store /\ ~Ring!Publish
      BY <2>0 DEF Ring!Store, Ring!Publish, reader, Ring!reader
    <3>3. ~Ring!BeginDrain(r) /\ ~Ring!EndDrain(r)
      BY <2>0 DEF Ring!BeginDrain, Ring!EndDrain
    <3> QED
      BY <3>1, <3>2, <3>3 DEF Ring!Next, Ring!Drain
  <2>2. last'[r] = slots[pos[r] % Cap]
    BY <2>1 DEF Ring!Copy, RingInv, LastOK
  <2>3. pos[r] \in 0..(written - 1)
    BY <2>0, <2>1 DEF Ring!Copy, RingInv, CursorsOK, Counters
  <2>4. pos[r] % Cap \in Ring!Indices
    BY <2>0, RingAssumption, IndexInRange
  <2> QED
    BY <2>2, <2>3, <2>4 DEF RingInv, SlotsHold
<1> QED
  BY <1>1, RingInductive, PTL DEF Ring!Spec, NeverStale
-----------------------------------------------------------------------------

\* What a reader has counted and copied.
CountsOK == missed \in [Readers -> Nat] /\ got \in [Readers -> SUBSET Int]

LEMMA DrainKeepsCounts ==
  ASSUME RingAssumption, RingInv, CountsOK, NEW r \in Readers, Ring!Drain(r)
  PROVE  CountsOK'
<1>1. CASE Ring!BeginDrain(r)
  <2> DEFINE lost == Ring!AtLeast(0, Ring!OldestLive - cursor[r])
  <2>1. lost \in Nat
    BY DEF RingInv, Counters, CursorsOK, RingAssumption, Ring!OldestLive, Ring!AtLeast
  <2>2. missed' = [missed EXCEPT ![r] = missed[r] + lost] /\ got' = got
    BY <1>1 DEF Ring!BeginDrain
  <2> HIDE DEF lost
  <2> QED
    BY <2>1, <2>2 DEF CountsOK
<1>2. CASE Ring!Copy(r)
  <2>1. slots[pos[r] % Cap] \in Int
    BY IndexInRange DEF RingInv, CursorsOK, SlotsHold
  <2>2. got' = [got EXCEPT ![r] = got[r] \union {slots[pos[r] % Cap]}] /\ missed' = missed
    BY <1>2 DEF Ring!Copy
  <2> QED
    BY <2>1, <2>2 DEF CountsOK
<1>3. CASE Ring!EndDrain(r)
  BY <1>3 DEF Ring!EndDrain, CountsOK
<1> QED
  BY <1>1, <1>2, <1>3 DEF Ring!Drain

\* Every variable keeps its type, missed never counts down below zero.
THEOREM RingTypes == Ring!Spec => []Ring!TypeOK
<1>1. Ring!Init => CountsOK
  BY DEF Ring!Init, CountsOK
<1>2. RingInv /\ CountsOK /\ [Ring!Next]_(Ring!vars) => CountsOK'
  <2> SUFFICES ASSUME RingInv, CountsOK, [Ring!Next]_(Ring!vars) PROVE CountsOK'
    OBVIOUS
  <2>1. ASSUME NEW r \in Readers, Ring!Drain(r) PROVE CountsOK'
    BY <2>1, RingAssumption, DrainKeepsCounts
  <2>2. CASE Ring!Store \/ Ring!Publish \/ UNCHANGED Ring!vars
    BY <2>2 DEF Ring!Store, Ring!Publish, Ring!vars, reader, Ring!reader, CountsOK
  <2> QED
    BY <2>1, <2>2 DEF Ring!Next
<1>3. RingInv /\ CountsOK => Ring!TypeOK
  BY DEF RingInv, SlotsHold, Counters, CursorsOK, LastOK, CountsOK, Ring!TypeOK
<1> QED
  BY <1>1, <1>2, <1>3, RingInductive, PTL DEF Ring!Spec

-----------------------------------------------------------------------------
(* What a reader believes it has lost.  Every position it has gone past was *)
(* copied from or counted in missed, and a copy adds at most one entry.     *)

Passed(r) == IF draining[r] THEN pos[r] ELSE cursor[r]

FewCopied(r) == IsFiniteSet(got[r]) /\ Cardinality(got[r]) + missed[r] <= Passed(r)
CountInv == \A r \in Readers : FewCopied(r)

LEMMA DrainKeepsCount ==
  ASSUME RingAssumption, RingInv, CountsOK, CountInv, NEW r \in Readers, Ring!Drain(r)
  PROVE  CountInv'
<1> USE DEF RingInv, CursorsOK, CountsOK
<1>0. \A q \in Readers \ {r} : FewCopied(q)'
  <2> TAKE q \in Readers \ {r}
  <2>1. /\ got'[q] = got[q] /\ missed'[q] = missed[q] /\ draining'[q] = draining[q]
        /\ pos'[q] = pos[q] /\ cursor'[q] = cursor[q]
    BY DEF Ring!Drain, Ring!BeginDrain, Ring!Copy, Ring!EndDrain
  <2> QED
    BY <2>1 DEF CountInv, FewCopied, Passed
<1>1. CASE Ring!BeginDrain(r)
  <2> DEFINE lost == Ring!AtLeast(0, Ring!OldestLive - cursor[r])
  <2>1. Ring!OldestLive \in Nat
    BY DEF Counters, RingAssumption, Ring!OldestLive, Ring!AtLeast
  <2>2. lost \in Nat /\ Ring!AtLeast(cursor[r], Ring!OldestLive) = cursor[r] + lost
    BY <2>1 DEF Ring!AtLeast
  <2> HIDE DEF lost
  <2>3. /\ got' = got /\ missed'[r] = missed[r] + lost
        /\ ~draining[r] /\ draining'[r] /\ pos'[r] = cursor[r] + lost
    BY <1>1, <2>2 DEF Ring!BeginDrain, lost
  <2>4. IsFiniteSet(got[r]) /\ Cardinality(got[r]) + missed[r] <= cursor[r]
    BY <2>3 DEF CountInv, FewCopied, Passed
  <2>5. Cardinality(got[r]) \in Nat
    BY <2>4, FS_CardinalityType
  <2>6. FewCopied(r)'
    BY <2>2, <2>3, <2>4, <2>5 DEF FewCopied, Passed
  <2> QED
    BY <1>0, <2>6 DEF CountInv
<1>2. CASE Ring!Copy(r)
  <2> DEFINE q == slots[pos[r] % Cap]
  <2>1. /\ got'[r] = got[r] \union {q} /\ missed' = missed
        /\ draining[r] /\ draining'[r] /\ pos'[r] = pos[r] + 1
    BY <1>2 DEF Ring!Copy
  <2>2. IsFiniteSet(got[r]) /\ Cardinality(got[r]) + missed[r] <= pos[r]
    BY <2>1 DEF CountInv, FewCopied, Passed
  <2>3. /\ IsFiniteSet(got[r] \union {q}) /\ Cardinality(got[r]) \in Nat
        /\ \/ Cardinality(got[r] \union {q}) = Cardinality(got[r])
           \/ Cardinality(got[r] \union {q}) = Cardinality(got[r]) + 1
    BY <2>2, FS_CardinalityType, FS_AddElement
  <2> HIDE DEF q
  <2>4. FewCopied(r)'
    BY <2>1, <2>2, <2>3 DEF FewCopied, Passed
  <2> QED
    BY <1>0, <2>4 DEF CountInv
<1>3. CASE Ring!EndDrain(r)
  <2>1. /\ got' = got /\ missed' = missed
        /\ draining[r] /\ ~draining'[r] /\ cursor'[r] = pos[r]
    BY <1>3 DEF Ring!EndDrain
  <2>2. FewCopied(r)'
    BY <2>1 DEF CountInv, FewCopied, Passed
  <2> QED
    BY <1>0, <2>2 DEF CountInv
<1> QED
  BY <1>1, <1>2, <1>3 DEF Ring!Drain

\* What drain reports as missed is never more than was lost, however often the
\* reader was lapped, before a drain or in the middle of one.
THEOREM MissedNeverOverstates == Ring!Spec => []MissedIsLowerBound
<1>1. Ring!Init => CountsOK /\ CountInv
  BY FS_EmptySet DEF Ring!Init, CountsOK, CountInv, FewCopied, Passed
<1>2. RingInv /\ CountsOK /\ CountInv /\ [Ring!Next]_(Ring!vars) => CountsOK' /\ CountInv'
  <2> SUFFICES ASSUME RingInv, CountsOK, CountInv, [Ring!Next]_(Ring!vars) PROVE CountsOK' /\ CountInv'
    OBVIOUS
  <2>1. ASSUME NEW r \in Readers, Ring!Drain(r) PROVE CountsOK' /\ CountInv'
    BY <2>1, RingAssumption, DrainKeepsCounts, DrainKeepsCount
  <2>2. CASE Ring!Store \/ Ring!Publish \/ UNCHANGED Ring!vars
    BY <2>2 DEF Ring!Store, Ring!Publish, Ring!vars, reader, Ring!reader, CountsOK, CountInv,
                FewCopied, Passed
  <2> QED
    BY <2>1, <2>2 DEF Ring!Next
<1>3. RingInv /\ CountsOK /\ CountInv => MissedIsLowerBound
  <2> SUFFICES ASSUME RingInv, CountsOK, CountInv, NEW r \in Readers, ~draining[r]
               PROVE  missed[r] <= Cardinality((0..(cursor[r] - 1)) \ got[r])
    BY DEF MissedIsLowerBound
  <2> DEFINE past == 0..(cursor[r] - 1)
  <2>1. cursor[r] \in Nat /\ missed[r] \in Nat
    BY DEF RingInv, CursorsOK, CountsOK
  <2>2. IsFiniteSet(got[r]) /\ Cardinality(got[r]) + missed[r] <= cursor[r]
    BY DEF CountInv, FewCopied, Passed
  <2>3. IsFiniteSet(past) /\ Cardinality(past) = cursor[r]
    <3> DEFINE newest == cursor[r] - 1
    <3>1. newest \in Int /\ 0 \in Int
      BY <2>1
    <3> HIDE DEF newest
    <3>2. /\ IsFiniteSet(0..newest)
          /\ Cardinality(0..newest) = IF 0 > newest THEN 0 ELSE newest - 0 + 1
      BY <3>1, FS_Interval, Zenon
    <3>3. newest = cursor[r] - 1
      BY DEF newest
    <3> QED
      BY <2>1, <3>2, <3>3
  <2>4. /\ Cardinality(past \ got[r]) = Cardinality(past) - Cardinality(past \cap got[r])
        /\ IsFiniteSet(past \ got[r]) /\ IsFiniteSet(past \cap got[r])
    BY <2>3, FS_Difference, FS_Intersection
  <2>5. Cardinality(past \cap got[r]) <= Cardinality(got[r])
    BY <2>2, FS_Intersection
  <2>6. Cardinality(past \cap got[r]) \in Nat /\ Cardinality(got[r]) \in Nat
    BY <2>2, <2>4, FS_CardinalityType
  <2> HIDE DEF past
  <2>7. missed[r] <= Cardinality(past \ got[r])
    BY <2>1, <2>2, <2>3, <2>4, <2>5, <2>6
  <2> QED
    BY <2>7 DEF past
<1> QED
  BY <1>1, <1>2, <1>3, RingInductive, PTL DEF Ring!Spec

------------------------------------------------------------------------------
(* The impulse response. The prepared channel is laid out as it should be       *)
(* (ChannelOK): the partitions cover every tap behind the head once, each lies  *)
(* at least its size deep, so that what a window owes is not yet due when it    *)
(* fills, and the ring holds all that any of them owes. The windows and the     *)
(* history hold the last samples (WindowsOK, HistoryOK). The invariant is what  *)
(* the ring holds of the future (RingOK): of every time to come the products of *)
(* the windows that were transformed, each once. What of a time is not in the   *)
(* ring when it is played is in the head (AllProducts).                         *)
Covers(stage, k) == stage.offset <= k /\ k < stage.offset + stage.actual

StageOK(c, i) ==
    LET stage == c.stages[i]
    IN /\ stage.offset \in Nat /\ stage.size \in Nat
       /\ stage.actual \in Nat /\ stage.stagger \in Nat
       /\ c.block <= stage.size /\ stage.stagger < stage.size /\ stage.actual <= stage.size
       /\ c.head <= stage.offset /\ stage.size <= stage.offset
       /\ stage.offset + stage.actual <= c.len
       /\ stage.offset + 2 * stage.size <= c.ring

Partitioned(c) ==
    /\ \A k \in c.head..(c.len - 1) : \E i \in DOMAIN c.stages : Covers(c.stages[i], k)
    /\ \A i, j \in DOMAIN c.stages : \A k \in Nat :
          Covers(c.stages[i], k) /\ Covers(c.stages[j], k) => i = j

ChannelOK(c) ==
    /\ c.len \in Nat /\ c.block \in Nat /\ c.head \in Nat /\ c.ring \in Nat
    /\ 0 < c.block /\ 0 < c.head /\ c.head <= c.len /\ c.head <= c.block /\ c.len <= c.ring
    /\ \E n \in Nat : DOMAIN c.stages = 1..n
    /\ \A i \in DOMAIN c.stages : StageOK(c, i)
    /\ Partitioned(c)

\* One phase has no more than its share of a size, and two phases are a block apart.
StaggersSpread(c) ==
    \A i \in DOMAIN c.stages :
        LET phases == Phases(c.stages[i].size, c.block)
            peers == Peers(c.stages, i)
        IN /\ Cardinality({j \in peers : c.stages[j].stagger = c.stages[i].stagger})
                 <= (Cardinality(peers) + phases - 1) \div phases
           /\ \A j \in peers :
                LET d == c.stages[i].stagger - c.stages[j].stagger
                IN \/ d = 0
                   \/ c.block <= d /\ d <= c.stages[i].size - c.block
                   \/ d <= -c.block /\ c.block - c.stages[i].size <= d

\* The input at a time: there was none before the first.
Heard(u) == IF u < 0 THEN Silence ELSE u
Stages == DOMAIN ir.stages
Samples == Int \cup {Silence}

\* The products of the stages due at a time whose windows were transformed.
Expected(at) ==
    {<<k, at - k>> : k \in {k \in ir.head..(ir.len - 1) :
        k <= at /\ \E i \in Stages :
                      Covers(ir.stages[i], k) /\ at - k < time - Len(windows[i])}}
HeadProducts(u) == {<<k, u - k>> : k \in 0..Least(ir.head - 1, u)}

CountersOK == time \in Nat /\ unplayed \in Nat /\ fault \in Nat \cup {Silence}

WindowsOK ==
    /\ windows \in [Stages -> Seq(Samples)]
    /\ \A i \in Stages : Len(windows[i]) < ir.stages[i].size
    /\ \A i \in Stages : \A j \in 1..Len(windows[i]) :
          windows[i][j] = Heard(time - Len(windows[i]) + j - 1)

HistoryOK ==
    /\ history \in Seq(Samples) /\ Len(history) = ir.head - 1
    /\ \A j \in 1..(ir.head - 1) : history[j] = Heard(time + unplayed - ir.head + j)

RingOK ==
    /\ DOMAIN ring = 0..(ir.ring - 1)
    /\ \A at \in time..(time + ir.ring - 1) :
          LET cell == ring[at % ir.ring] IN
          /\ cell = SetToBag(DOMAIN cell)
          /\ DOMAIN cell \subseteq Expected(at)
          /\ ~Spoilt(at) => DOMAIN cell = Expected(at)

\* The samples not yet played are the part of the head.
OutOK ==
    /\ out \in Seq({out[i] : i \in DOMAIN out})
    /\ unplayed <= Len(out) /\ Len(out) <= ir.block
    /\ \A i \in 1..Len(out) : i > Len(out) - unplayed =>
          out[i] = SetToBag(HeadProducts(time + unplayed - Len(out) + i - 1))

LoadOK ==
    /\ fired \subseteq Stages
    /\ \A i \in fired : Len(windows[i]) < Len(out) - unplayed
    /\ \A i \in Stages : \A j \in Peers(ir.stages, i) :
          LET d == ir.stages[i].stagger - ir.stages[j].stagger IN
          Len(windows[i]) - Len(windows[j])
            \in {d - ir.stages[i].size, d, d + ir.stages[i].size}

ConvolverInv ==
    /\ ChannelOK(ir) /\ StaggersSpread(ir)
    /\ CountersOK /\ WindowsOK /\ HistoryOK /\ RingOK /\ OutOK /\ LoadOK

(* Numbers and finite sets.                                                 *)
LEMMA HasLeast ==
  ASSUME NEW S, S \subseteq Nat, S # {}
  PROVE  \E x \in S : \A y \in S : x <= y
<1> DEFINE segments == {1..n : n \in S}
<1>1. segments # {} /\ segments \subseteq FiniteSubsetsOf(Nat)
  <2>1. ASSUME NEW n \in S PROVE 1..n \in SUBSET Nat /\ IsFiniteSet(1..n)
    BY FS_Interval
  <2> QED BY <2>1 DEF FiniteSubsetsOf
<1> HIDE DEF segments
<1>2. IsWellFoundedOn(StrictSubsetOrdering(Nat), FiniteSubsetsOf(Nat))
  BY FS_StrictSubsetOrderingWellFounded
<1>3. PICK least \in segments : \A t \in segments : ~ (<<t, least>> \in StrictSubsetOrdering(Nat))
  BY <1>1, <1>2, WFMin
<1> USE DEF segments
<1>4. PICK x \in S : least = 1..x
  OBVIOUS
<1>5. ASSUME NEW y \in S PROVE x <= y
  <2>1. SUFFICES ASSUME y < x PROVE FALSE
    OBVIOUS
  <2>2. 1..y \subseteq 1..x /\ 1..y # 1..x /\ 1..x \subseteq Nat
    <3>1. x \in 1..x /\ x \notin 1..y
      BY <2>1
    <3> QED BY <2>1, <3>1
  <2>3. 1..y \in segments
    OBVIOUS
  <2>4. <<1..y, 1..x>> \in StrictSubsetOrdering(Nat)
    BY <2>2 DEF StrictSubsetOrdering
  <2> QED BY <1>3, <1>4, <2>3, <2>4
<1> QED
  BY <1>5

\* Induction over the numbers, for a set of them.
LEMMA AllNumbers ==
  ASSUME NEW S, 0 \in S, \A n \in Nat : n \in S => n + 1 \in S
  PROVE  Nat \subseteq S
<1> DEFINE missing == Nat \ S
<1> SUFFICES ASSUME missing # {} PROVE FALSE
  OBVIOUS
<1>1. PICK x \in missing : \A y \in missing : x <= y
  BY HasLeast
<1>2. x \in Nat /\ x # 0 /\ x - 1 \in Nat
  BY <1>1
<1>3. x - 1 \in S
  BY <1>1, <1>2
<1>4. x - 1 + 1 = x
  BY <1>2
<1> QED
  BY <1>1, <1>2, <1>3, <1>4

LEMMA HasGreatest ==
  ASSUME NEW S, IsFiniteSet(S), S \subseteq Nat, S # {}
  PROVE  Max(S) \in S /\ \A y \in S : Max(S) >= y
<1> DEFINE above(x) == {y \in S : y > x}
           tails == {above(x) : x \in S}
<1>1. tails # {} /\ tails \subseteq FiniteSubsetsOf(Nat)
  <2>1. ASSUME NEW x \in S PROVE above(x) \in SUBSET Nat /\ IsFiniteSet(above(x))
    BY FS_Subset
  <2> QED BY <2>1 DEF FiniteSubsetsOf
<1> HIDE DEF tails
<1>2. IsWellFoundedOn(StrictSubsetOrdering(Nat), FiniteSubsetsOf(Nat))
  BY FS_StrictSubsetOrderingWellFounded
<1>3. PICK least \in tails : \A t \in tails : ~ (<<t, least>> \in StrictSubsetOrdering(Nat))
  BY <1>1, <1>2, WFMin
<1>4. PICK x \in S : least = above(x)
  BY DEF tails
<1>5. ASSUME NEW y \in S PROVE x >= y
  <2>1. SUFFICES ASSUME y > x PROVE FALSE
    OBVIOUS
  <2>2. above(y) \subseteq above(x) /\ above(y) # above(x) /\ above(x) \subseteq Nat
    <3>1. y \in above(x) /\ y \notin above(y)
      BY <2>1
    <3>2. \A z \in S : z > y => z > x
      BY <2>1
    <3> QED BY <3>1, <3>2
  <2>3. above(y) \in tails
    BY DEF tails
  <2>4. <<above(y), above(x)>> \in StrictSubsetOrdering(Nat)
    BY <2>2 DEF StrictSubsetOrdering
  <2> QED BY <1>3, <1>4, <2>3, <2>4
<1> QED
  BY <1>5 DEF Max

LEMMA FiniteImage ==
  ASSUME NEW S, IsFiniteSet(S), NEW f, DOMAIN f = S
  PROVE  IsFiniteSet({f[x] : x \in S})
<1> DEFINE T == {f[x] : x \in S}
           g == [x \in S |-> f[x]]
<1>1. g \in Surjection(S, T)
  BY DEF Surjection
<1> QED
  BY <1>1, FS_Surjection

(* A sample is played: what the head left out is in the ring.               *)
LEMMA Division ==
  ASSUME NEW a \in Int, NEW b \in Nat, b > 0
  PROVE  a % b \in 0..(b - 1) /\ a \div b \in Int /\ a = b * (a \div b) + (a % b)
OBVIOUS

\* Two numbers less than r apart are not the same modulo r.
LEMMA Apart ==
  ASSUME NEW a \in Int, NEW b \in Int, NEW r \in Nat, a < b, b < a + r
  PROVE  a % r # b % r
<1>1. r > 0
  OBVIOUS
<1> DEFINE p == a \div r
           q == b \div r
<1>2. /\ p \in Int /\ a = r * p + (a % r) /\ a % r \in Int
      /\ q \in Int /\ b = r * q + (b % r) /\ b % r \in Int
  BY <1>1, Division
<1> HIDE DEF p, q
<1> SUFFICES ASSUME a % r = b % r PROVE FALSE
  OBVIOUS
<1>3. b - a = r * (q - p)
  BY <1>2
<1>4. CASE q - p <= 0
  <2>1. r * (q - p) <= 0
    BY <1>1, <1>2, <1>4
  <2> QED
    BY <1>2, <1>3, <2>1
<1>5. CASE q - p >= 1
  <2>1. r * (q - p) >= r
    BY <1>1, <1>2, <1>5
  <2> QED
    BY <1>2, <1>3, <2>1
<1> QED
  BY <1>2, <1>4, <1>5

LEMMA BagsJoin ==
  ASSUME NEW A, NEW B, A \cap B = {}
  PROVE  SetToBag(A) (+) SetToBag(B) = SetToBag(A \cup B)
BY DEF SetToBag, (+)

\* What is due from the head and from the stages is all that is due.
LEMMA AllProducts ==
  ASSUME ChannelOK(ir), CountersOK, WindowsOK
  PROVE  /\ HeadProducts(time) \cap Expected(time) = {}
         /\ SetToBag(HeadProducts(time) \cup Expected(time)) = Direct(time)
<1>1. \A i \in Stages : Len(windows[i]) < ir.stages[i].offset /\ Len(windows[i]) \in Nat
                        /\ ir.stages[i].offset \in Nat
  <2> TAKE i \in Stages
  <2>1. /\ ir.stages[i].offset \in Nat /\ ir.stages[i].size \in Nat
        /\ ir.stages[i].size <= ir.stages[i].offset
    BY DEF ChannelOK, StageOK, Stages
  <2>2. windows[i] \in Seq(Samples) /\ Len(windows[i]) < ir.stages[i].size
    BY DEF WindowsOK
  <2>3. Len(windows[i]) \in Nat
    BY <2>2
  <2> QED
    BY <2>1, <2>2, <2>3
<1>2. ir.head \in Nat /\ ir.len \in Nat /\ time \in Nat /\ ir.head <= ir.len
  BY DEF ChannelOK, CountersOK
<1>3. Expected(time) = {<<k, time - k>> : k \in {k \in ir.head..(ir.len - 1) : k <= time}}
  <2>1. \A k \in ir.head..(ir.len - 1) : \E i \in Stages :
           Covers(ir.stages[i], k) /\ time - k < time - Len(windows[i])
    <3> TAKE k \in ir.head..(ir.len - 1)
    <3>1. PICK i \in Stages : Covers(ir.stages[i], k)
      BY DEF ChannelOK, Partitioned, Stages
    <3>2. Len(windows[i]) < k
      BY <1>1, <1>2, <3>1 DEF Covers
    <3>3. Len(windows[i]) \in Nat
      BY <1>1
    <3> QED
      BY <1>2, <3>1, <3>2, <3>3
  <2> QED
    BY <2>1 DEF Expected
<1>4. HeadProducts(time) \cup Expected(time) = {<<k, time - k>> : k \in 0..Least(ir.len - 1, time)}
  BY <1>2, <1>3 DEF HeadProducts, Least
<1>5. HeadProducts(time) \cap Expected(time) = {}
  BY <1>2, <1>3 DEF HeadProducts, Least
<1> QED
  BY <1>4, <1>5 DEF Direct

LEMMA SeqOfItsOwn ==
  ASSUME NEW S, NEW s \in Seq(S)
  PROVE  s \in Seq({s[i] : i \in DOMAIN s}) /\ Len(s) \in Nat /\ DOMAIN s = 1..Len(s)
OBVIOUS

\* Through the head and the ring.
LEMMA SamplePlays ==
  ASSUME ChannelOK(ir), CountersOK, WindowsOK, RingOK, OutOK, OutputIsConvolution, Sample
  PROVE  OutOK' /\ OutputIsConvolution'
<1> DEFINE n == Len(out)
           now == n - unplayed + 1
           v == out[now] (+) ring[time % ir.ring]
           own == {out[i] : i \in DOMAIN out}
<1>1. unplayed > 0 /\ unplayed' = unplayed - 1 /\ time' = time + 1 /\ ir' = ir /\ fault' = fault
  BY DEF Sample
<1>1a. out' = [out EXCEPT ![now] = v]
  BY DEF Sample
<1>2. out \in Seq(own) /\ n \in Nat /\ unplayed \in Nat /\ time \in Nat /\ unplayed <= n /\ n <= ir.block
  BY SeqOfItsOwn DEF CountersOK, OutOK
<1>2a. /\ now \in 1..n /\ now = n - unplayed + 1 /\ n = Len(out)
       /\ v = out[now] (+) ring[time % ir.ring]
  BY <1>1, <1>2
<1> HIDE DEF own, n, now, v
<1>3. /\ out' \in Seq({out'[j] : j \in DOMAIN out'}) /\ Len(out') = n
      /\ out'[now] = v /\ \A j \in 1..n : j # now => out'[j] = out[j]
  <2>1. out \in Seq(own) /\ now \in 1..Len(out)
    BY <1>2, <1>2a
  <2>2. out' \in Seq(own \cup {v}) /\ Len(out') = Len(out)
    BY <1>1a, <2>1
  <2>3. out'[now] = v /\ \A j \in 1..Len(out) : j # now => out'[j] = out[j]
    BY <1>1a, <2>1
  <2> QED
    BY <1>2a, <2>2, <2>3, SeqOfItsOwn
<1>3a. \A u : Spoilt(u)' = Spoilt(u) /\ Direct(u)' = Direct(u) /\ HeadProducts(u)' = HeadProducts(u)
  BY <1>1 DEF Spoilt, Direct, Largest, HeadProducts
<1>4. OutOK'
  <2>1. unplayed' <= Len(out') /\ Len(out') <= ir'.block
    BY <1>1, <1>2, <1>3
  <2>2. ASSUME NEW i \in 1..n, i > n - unplayed'
        PROVE  out'[i] = SetToBag(HeadProducts(time + unplayed - n + i - 1))
    <3>0. i > now /\ i # now /\ i > n - unplayed
      BY <1>1, <1>2, <1>2a, <2>2
    <3>1. out'[i] = out[i] /\ i > n - unplayed
      BY <1>3, <2>2, <3>0
    <3>2. out[i] = SetToBag(HeadProducts(time + unplayed - n + i - 1))
      BY <1>2a, <3>1 DEF OutOK
    <3> QED
      BY <3>1, <3>2
  <2>3. \A i \in 1..n : time' + unplayed' - n + i - 1 = time + unplayed - n + i - 1
    BY <1>1, <1>2
  <2>4. \A i \in 1..n : i > n - unplayed' =>
          out'[i] = SetToBag(HeadProducts(time + unplayed - Len(out) + i - 1)')
    BY <1>3, <1>3a, <2>2, <2>3
  <2> QED
    BY <1>3, <2>1, <2>4 DEF OutOK
<1>5. ~Spoilt(time) => v = Direct(time)
  <2> SUFFICES ASSUME ~Spoilt(time) PROVE v = Direct(time)
    OBVIOUS
  <2>1. out[now] = SetToBag(HeadProducts(time))
    <3>1. now > n - unplayed /\ time + unplayed - n + now - 1 = time
      BY <1>1, <1>2, <1>2a
    <3> QED
      BY <1>2a, <3>1 DEF OutOK
  <2>2. ring[time % ir.ring] = SetToBag(Expected(time))
    <3>1. time \in time..(time + ir.ring - 1)
      BY <1>2 DEF ChannelOK
    <3> QED
      BY <3>1 DEF RingOK
  <2> QED
    BY <1>2a, <2>1, <2>2, AllProducts, BagsJoin
<1>7. OutputIsConvolution'
  <2> DEFINE u(i) == time + unplayed - n + i - 1
  <2>1. \A i \in 1..(n - unplayed') : time' + unplayed' - n + i - 1 = u(i)
    BY <1>1, <1>2
  <2>2. ASSUME NEW i \in 1..(n - unplayed'), ~Spoilt(u(i))
        PROVE  out'[i] = Direct(u(i))
    <3>1. CASE i = now
      <4>1. u(i) = time
        BY <1>1, <1>2, <1>2a, <3>1
      <4> HIDE DEF u
      <4> QED
        BY <1>3, <1>2a, <1>5, <2>2, <3>1, <4>1
    <3>2. CASE i # now
      <4>1. i \in 1..(n - unplayed) /\ i \in 1..n
        BY <1>1, <1>2, <1>2a, <3>2
      <4>2. out[i] = Direct(u(i))
        BY <1>2a, <2>2, <4>1 DEF OutputIsConvolution
      <4> QED
        BY <1>3, <3>2, <4>1, <4>2
    <3> QED
      BY <3>1, <3>2
  <2>3. \A i \in 1..(n - unplayed') :
           ~Spoilt(time + unplayed - Len(out) + i - 1)'
             => out'[i] = Direct(time + unplayed - Len(out) + i - 1)'
    BY <1>3, <1>3a, <2>1, <2>2
  <2> QED
    BY <1>3, <2>3 DEF OutputIsConvolution
<1> QED
  BY <1>4, <1>7

(* A sample goes into the windows.                                          *)
\* The stages whose windows the next sample fills, and what they add to a cell.
Filling == {i \in Stages : Len(windows[i]) + 1 = ir.stages[i].size}
Adds(i, p) == Added(ir.stages[i], Append(windows[i], time), time, p)
AddedTo(p) == [product \in UNION {Adds(i, p) : i \in Filling} |->
                 Cardinality({i \in Filling : product \in Adds(i, p)})]

LEMMA StageTyped ==
  ASSUME ChannelOK(ir), NEW i \in Stages
  PROVE  /\ ir.stages[i].offset \in Nat /\ ir.stages[i].size \in Nat
         /\ ir.stages[i].actual \in Nat /\ ir.stages[i].stagger \in Nat
         /\ ir.block \in Nat /\ ir.head \in Nat /\ ir.len \in Nat /\ ir.ring \in Nat
         /\ 0 < ir.block /\ 0 < ir.head /\ ir.len <= ir.ring
         /\ ir.block <= ir.stages[i].size /\ ir.stages[i].stagger < ir.stages[i].size
         /\ ir.stages[i].actual <= ir.stages[i].size
         /\ ir.head <= ir.stages[i].offset /\ ir.stages[i].size <= ir.stages[i].offset
         /\ ir.stages[i].offset + ir.stages[i].actual <= ir.len
         /\ ir.stages[i].offset + 2 * ir.stages[i].size <= ir.ring
BY DEF ChannelOK, StageOK, Stages

LEMMA WindowTyped ==
  ASSUME WindowsOK, NEW i \in Stages
  PROVE  /\ windows[i] \in Seq(Samples) /\ Len(windows[i]) \in Nat
         /\ Len(windows[i]) < ir.stages[i].size
         /\ \A j \in 1..Len(windows[i]) : windows[i][j] = Heard(time - Len(windows[i]) + j - 1)
BY DEF WindowsOK

LEMMA SampleShape ==
  ASSUME WindowsOK, CountersOK, Sample
  PROVE  /\ windows' = [i \in Stages |->
                          IF i \in Filling THEN <<>> ELSE Append(windows[i], time)]
         /\ ring' = [p \in DOMAIN ring |->
                       (IF p = time % ir.ring THEN EmptyBag ELSE ring[p]) (+) AddedTo(p)]
         /\ fired' = fired \cup Filling
         /\ time' = time + 1 /\ ir' = ir /\ fault' = fault /\ history' = history
         /\ unplayed' = unplayed - 1
<1> DEFINE pushed == [i \in DOMAIN ir.stages |-> Append(windows[i], time)]
           full   == {i \in DOMAIN ir.stages : Len(pushed[i]) = ir.stages[i].size}
           adds(i, p) == Added(ir.stages[i], pushed[i], time, p)
           added(p) == [product \in UNION {adds(i, p) : i \in full} |->
                          Cardinality({i \in full : product \in adds(i, p)})]
<1>1. full = Filling
  <2>1. \A i \in Stages : Len(Append(windows[i], time)) = Len(windows[i]) + 1
    BY WindowTyped DEF CountersOK, Samples
  <2> QED
    BY <2>1 DEF Filling, Stages
<1>2. \A p : added(p) = AddedTo(p)
  <2>1. \A p : \A i \in full : adds(i, p) = Adds(i, p)
    BY DEF Adds
  <2> HIDE DEF adds, full
  <2>2. ASSUME NEW p PROVE added(p) = AddedTo(p)
    <3>1. UNION {adds(i, p) : i \in full} = UNION {Adds(i, p) : i \in full}
      BY <2>1
    <3>2. \A product : {i \in full : product \in adds(i, p)} = {i \in full : product \in Adds(i, p)}
      BY <2>1
    <3> QED
      BY <1>1, <3>1, <3>2 DEF AddedTo
  <2> QED
    BY <2>2
<1>3. /\ windows' = [i \in DOMAIN ir.stages |-> IF i \in full THEN <<>> ELSE pushed[i]]
      /\ ring' = [p \in DOMAIN ring |->
                    (IF p = time % ir.ring THEN EmptyBag ELSE ring[p]) (+) added(p)]
      /\ fired' = fired \cup full
      /\ time' = time + 1 /\ ir' = ir /\ fault' = fault /\ history' = history
      /\ unplayed' = unplayed - 1
  BY DEF Sample
<1>4. windows' = [i \in Stages |-> IF i \in Filling THEN <<>> ELSE Append(windows[i], time)]
  BY <1>1, <1>3 DEF Stages
<1> HIDE DEF added, full, pushed
<1> QED
  BY <1>1, <1>2, <1>3, <1>4

LEMMA SampleWindows ==
  ASSUME ChannelOK(ir), WindowsOK, CountersOK, Sample
  PROVE  /\ WindowsOK'
         /\ \A i \in Stages : Len(windows'[i]) = IF i \in Filling THEN 0 ELSE Len(windows[i]) + 1
<1>1. /\ windows' = [i \in Stages |->
                       IF i \in Filling THEN <<>> ELSE Append(windows[i], time)]
      /\ time' = time + 1 /\ ir' = ir /\ time \in Nat
  BY SampleShape DEF CountersOK
<1>2. ASSUME NEW i \in Stages
      PROVE  /\ windows'[i] \in Seq(Samples) /\ Len(windows'[i]) < ir.stages[i].size
             /\ Len(windows'[i]) = IF i \in Filling THEN 0 ELSE Len(windows[i]) + 1
             /\ \A j \in 1..Len(windows'[i]) :
                  windows'[i][j] = Heard(time + 1 - Len(windows'[i]) + j - 1)
  <2>1. CASE i \in Filling
    <3>1. windows'[i] = <<>>
      BY <1>1, <2>1
    <3> QED
      BY <2>1, <3>1, StageTyped
  <2>2. CASE i \notin Filling
    <3>1. windows'[i] = Append(windows[i], time)
      BY <1>1, <2>2
    <3>0. /\ windows[i] \in Seq(Samples) /\ Len(windows[i]) \in Nat
          /\ Len(windows[i]) < ir.stages[i].size /\ ir.stages[i].size \in Nat
          /\ \A j \in 1..Len(windows[i]) : windows[i][j] = Heard(time - Len(windows[i]) + j - 1)
      BY WindowTyped, StageTyped
    <3>2. time \in Samples /\ Len(windows[i]) + 1 < ir.stages[i].size
      <4>1. Len(windows[i]) + 1 # ir.stages[i].size
        BY <2>2 DEF Filling
      <4> QED
        BY <1>1, <3>0, <4>1 DEF Samples
    <3>3. windows'[i] \in Seq(Samples) /\ Len(windows'[i]) = Len(windows[i]) + 1
      BY <3>0, <3>1, <3>2
    <3> DEFINE L == Len(windows[i])
    <3>3a. L \in Nat /\ L = Len(windows[i]) /\ Len(windows'[i]) = L + 1 /\ time \in Nat
      BY <1>1, <3>0, <3>3
    <3> HIDE DEF L
    <3>4. ASSUME NEW j \in 1..(L + 1)
          PROVE  windows'[i][j] = Heard(time - L + j - 1)
      <4>1. CASE j = L + 1
        <5>1. windows'[i][j] = time
          BY <3>0, <3>1, <3>2, <3>3a, <4>1
        <5>2. time - L + j - 1 = time
          BY <3>3a, <4>1
        <5>3. Heard(time) = time
          BY <3>3a DEF Heard
        <5> QED
          BY <5>1, <5>2, <5>3
      <4>2. CASE j \in 1..L
        <5>1. j \in 1..Len(windows[i])
          BY <3>3a, <4>2
        <5>2. windows'[i][j] = windows[i][j]
          BY <3>0, <3>1, <3>2, <5>1
        <5>3. windows[i][j] = Heard(time - Len(windows[i]) + j - 1)
          BY <3>0, <5>1
        <5> QED
          BY <3>3a, <5>2, <5>3
      <4>3. j = L + 1 \/ j \in 1..L
        BY <3>3a
      <4> QED
        BY <4>1, <4>2, <4>3
    <3> QED
      <4>1. \A j \in 1..(L + 1) : time - L + j - 1 = time + 1 - (L + 1) + j - 1
        BY <3>3a
      <4>2. \A j \in 1..(L + 1) : windows'[i][j] = Heard(time + 1 - (L + 1) + j - 1)
        BY <3>4, <4>1
      <4> QED
        BY <2>2, <3>2, <3>3, <3>3a, <4>2
  <2> QED
    BY <2>1, <2>2
<1>3. windows' \in [Stages -> Seq(Samples)]
  BY <1>1, <1>2
<1>4. Stages' = Stages /\ Samples' = Samples /\ \A u : Heard(u)' = Heard(u)
  BY <1>1 DEF Stages, Samples, Heard
<1>5. \A i \in Stages : \A j \in 1..Len(windows'[i]) :
         windows'[i][j] = Heard(time' - Len(windows'[i]) + j - 1)
  <2> TAKE i \in Stages
  <2>1. \A j \in 1..Len(windows'[i]) :
           windows'[i][j] = Heard(time + 1 - Len(windows'[i]) + j - 1)
    BY <1>2
  <2>2. time' = time + 1 /\ time \in Nat /\ Len(windows'[i]) \in Nat
    BY <1>1, <1>2
  <2>3. \A j \in 1..Len(windows'[i]) :
           time' - Len(windows'[i]) + j - 1 = time + 1 - Len(windows'[i]) + j - 1
    BY <2>2
  <2> QED
    BY <2>1, <2>3
<1>6. \A i \in Stages : \A j \in 1..Len(windows'[i]) :
         windows'[i][j] = Heard(time - Len(windows[i]) + j - 1)'
  BY <1>4, <1>5
<1> QED
  BY <1>1, <1>2, <1>3, <1>4, <1>6 DEF WindowsOK

(* A window that fills adds what it owes: tap k of the sample heard at time u *)
(* belongs to time u + k.                                                     *)
\* The window a stage is about to fill has met the sample that is not finite.
Refused(i) == fault # Silence /\ fault \in (time + 1 - ir.stages[i].size)..time
\* What a stage owes a time out of the window it is about to fill.
Owed(i, at) == {<<k, at - k>> : k \in {k \in Nat :
    /\ Covers(ir.stages[i], k) /\ k <= at
    /\ time + 1 - ir.stages[i].size <= at - k /\ at - k <= time}}

LEMMA FullWindow ==
  ASSUME ChannelOK(ir), CountersOK, WindowsOK, NEW i \in Filling
  PROVE  LET w == Append(windows[i], time) size == ir.stages[i].size IN
         /\ DOMAIN w = 1..size
         /\ \A j \in 1..size : w[j] = Heard(time - size + j)
<1> DEFINE w == Append(windows[i], time)
           size == ir.stages[i].size
           L == Len(windows[i])
<1>1. i \in Stages /\ L + 1 = size
  BY DEF Filling
<1>2. /\ windows[i] \in Seq(Samples) /\ L \in Nat /\ size \in Nat
      /\ \A j \in 1..L : windows[i][j] = Heard(time - L + j - 1)
  BY <1>1, WindowTyped, StageTyped
<1>3. time \in Samples /\ time \in Nat
  BY DEF CountersOK, Samples
<1>4. DOMAIN w = 1..(L + 1) /\ w[L + 1] = time /\ \A j \in 1..L : w[j] = windows[i][j]
  BY <1>2, <1>3
<1> HIDE DEF w, L, size
<1>5. ASSUME NEW j \in 1..size PROVE w[j] = Heard(time - size + j)
  <2>1. CASE j = size
    <3>1. time - size + j = time
      BY <1>2, <1>3, <2>1
    <3>2. Heard(time) = time
      BY <1>3 DEF Heard
    <3> QED
      BY <1>1, <1>4, <2>1, <3>1, <3>2
  <2>2. CASE j \in 1..L
    <3>1. time - L + j - 1 = time - size + j
      BY <1>1, <1>2, <1>3, <2>2
    <3> QED
      BY <1>2, <1>4, <2>2, <3>1
  <2>3. j = size \/ j \in 1..L
    BY <1>1, <1>2
  <2> QED
    BY <2>1, <2>2, <2>3
<1> QED
  BY <1>1, <1>4, <1>5 DEF w, size

\* A window adds its products to the cells of the times they belong to.
LEMMA AddsWhatIsOwed ==
  ASSUME ChannelOK(ir), CountersOK, WindowsOK, NEW i \in Filling,
         NEW at \in (time + 1)..(time + ir.ring)
  PROVE  Adds(i, at % ir.ring) = IF Refused(i) THEN {} ELSE Owed(i, at)
<1> DEFINE w == Append(windows[i], time)
           size == ir.stages[i].size
           offset == ir.stages[i].offset
           actual == ir.stages[i].actual
<1>1. i \in Stages
  BY DEF Filling
<1>2. /\ size \in Nat /\ offset \in Nat /\ actual \in Nat /\ ir.len \in Nat /\ ir.ring \in Nat
      /\ size <= offset /\ offset + actual <= ir.len /\ ir.len <= ir.ring
  BY <1>1, StageTyped
<1>3. DOMAIN w = 1..size /\ \A j \in 1..size : w[j] = Heard(time - size + j)
  BY FullWindow
<1>4. time \in Nat /\ fault \in Nat \cup {Silence} /\ Silence \notin Int
  BY ConvolverAssumption DEF CountersOK, ConvolverAssumption
<1> HIDE DEF w, size, offset, actual
<1>5. (\E j \in DOMAIN w : w[j] = fault /\ fault # Silence) <=> Refused(i)
  <2>1. ASSUME NEW j \in DOMAIN w, w[j] = fault, fault # Silence PROVE Refused(i)
    <3>1. fault = time - size + j /\ j \in 1..size
      BY <1>2, <1>3, <1>4, <2>1 DEF Heard
    <3> QED
      BY <1>2, <1>4, <2>1, <3>1 DEF Refused, size
  <2>2. ASSUME Refused(i) PROVE \E j \in DOMAIN w : w[j] = fault /\ fault # Silence
    <3>1. fault \in Nat /\ fault # Silence /\ time + 1 - size <= fault /\ fault <= time
      BY <1>4, <2>2 DEF Refused, size
    <3>2. fault - time + size \in 1..size /\ time - size + (fault - time + size) = fault
      BY <1>2, <1>4, <3>1
    <3>3. w[fault - time + size] = fault
      BY <1>3, <3>1, <3>2 DEF Heard
    <3> QED
      BY <1>3, <3>1, <3>2, <3>3
  <2> QED
    BY <2>1, <2>2
<1> DEFINE start == time + 1 - size + offset
           real == {j \in DOMAIN w : w[j] # Silence}
           due == {jk \in real \X (0..(actual - 1)) :
                     LET then == start + (jk[1] - 1) + jk[2]
                     IN then >= 0 /\ then % ir.ring = at % ir.ring}
           made == {<<offset + jk[2], w[jk[1]]>> : jk \in due}
<1>6. Adds(i, at % ir.ring) = IF Refused(i) THEN {} ELSE made
  <2>1. CASE Refused(i)
    BY <1>5, <2>1 DEF Adds, Added, Spectrum, w
  <2>2. CASE ~Refused(i)
    <3>1. Spectrum(ir.stages[i], w) = real \X (0..(actual - 1))
      BY <1>5, <2>2 DEF Spectrum, actual
    <3> HIDE DEF real
    <3>2. Adds(i, at % ir.ring) = made
      BY <3>1 DEF Adds, Added, size, offset, actual, w
    <3> QED
      BY <2>2, <3>2
  <2> QED
    BY <2>1, <2>2
<1>7. \A j \in 1..size : /\ j \in real <=> 0 <= time - size + j
                         /\ j \in real => w[j] = time - size + j
  BY <1>2, <1>3, <1>4 DEF Heard
<1> HIDE DEF real
<1>8. real \subseteq 1..size
  BY <1>3 DEF real
<1>9. ASSUME NEW j \in real, NEW k \in 0..(actual - 1)
      PROVE  LET then == start + (j - 1) + k IN
             (then >= 0 /\ then % ir.ring = at % ir.ring) <=> at = (time - size + j) + (offset + k)
  <2> DEFINE then == start + (j - 1) + k
  <2>1. /\ then = (time - size + j) + (offset + k) /\ then \in Int
        /\ time + 1 <= then /\ then < time + ir.ring /\ at \in Int
    <3>1. j \in 1..size /\ 0 <= time - size + j
      BY <1>7, <1>8
    <3> QED
      BY <1>2, <1>4, <3>1
  <2>2. then < at => then % ir.ring # at % ir.ring
    <3>1. at < then + ir.ring \/ ~(then < at)
      BY <1>2, <1>4, <2>1
    <3> HIDE DEF then
    <3> QED
      BY <1>2, <2>1, <3>1, Apart
  <2>3. at < then => then % ir.ring # at % ir.ring
    <3>1. then < at + ir.ring
      BY <1>2, <1>4, <2>1
    <3> HIDE DEF then
    <3> QED
      BY <1>2, <2>1, <3>1, Apart
  <2> HIDE DEF then
  <2>4. (then >= 0 /\ then % ir.ring = at % ir.ring) <=> at = (time - size + j) + (offset + k)
    BY <1>2, <1>4, <2>1, <2>2, <2>3
  <2> QED
    BY <2>4 DEF then
<1>10. made = Owed(i, at)
  <2>1. ASSUME NEW p \in made PROVE p \in Owed(i, at)
    <3>1. PICK jk \in due : p = <<offset + jk[2], w[jk[1]]>>
      BY <2>1
    <3> DEFINE j == jk[1]
               k == jk[2]
    <3>2. j \in real /\ k \in 0..(actual - 1) /\ j \in 1..size
      BY <1>8, <3>1
    <3>3. at = (time - size + j) + (offset + k)
      BY <1>9, <3>1, <3>2
    <3>4. w[j] = time - size + j /\ 0 <= time - size + j
      BY <1>7, <3>2
    <3> HIDE DEF j, k
    <3>5. w[j] = at - (offset + k) /\ offset + k <= at /\ offset + k \in Nat
          /\ time + 1 - size <= at - (offset + k) /\ at - (offset + k) <= time
      BY <1>2, <1>4, <3>2, <3>3, <3>4
    <3>6. Covers(ir.stages[i], offset + k)
      BY <1>2, <3>2 DEF Covers, offset, actual
    <3> QED
      BY <3>1, <3>5, <3>6 DEF Owed, j, k, size
  <2>2. ASSUME NEW p \in Owed(i, at) PROVE p \in made
    <3>1. PICK m \in Nat : /\ p = <<m, at - m>> /\ Covers(ir.stages[i], m) /\ m <= at
                           /\ time + 1 - size <= at - m /\ at - m <= time
      BY <2>2 DEF Owed, size
    <3> DEFINE j == at - m - time + size
               k == m - offset
    <3>2. k \in 0..(actual - 1) /\ offset + k = m
      BY <1>2, <3>1 DEF Covers, offset, actual
    <3>3. j \in 1..size /\ time - size + j = at - m /\ 0 <= at - m
      BY <1>2, <1>4, <3>1
    <3>4. j \in real /\ w[j] = at - m
      BY <1>7, <3>3
    <3>5. at = (time - size + j) + (offset + k)
      BY <1>2, <1>4, <3>1, <3>2, <3>3
    <3> HIDE DEF j, k
    <3>6. <<j, k>> \in due
      BY <1>9, <3>2, <3>4, <3>5
    <3> HIDE DEF due
    <3>7. p = <<offset + <<j, k>>[2], w[<<j, k>>[1]]>>
      BY <3>1, <3>2, <3>4
    <3> QED
      BY <3>6, <3>7
  <2> QED
    BY <2>1, <2>2
<1> QED
  BY <1>6, <1>10

(* What the stages add to the cell of a time, all together.                 *)
\* What a time lacks once the sample has gone through the stages: the windows
\* it filled were heard and not yet due, and no two stages owe the same product.
LEMMA OwedIsNew ==
  ASSUME ChannelOK(ir), CountersOK, WindowsOK, NEW at \in Int, NEW i \in Filling
  PROVE  /\ Owed(i, at) \cap Expected(at) = {}
         /\ \A j \in Filling : j # i => Owed(i, at) \cap Owed(j, at) = {}
<1>1. \A j \in Filling : j \in Stages /\ Len(windows[j]) + 1 = ir.stages[j].size
  BY DEF Filling
<1>2. \A j \in Filling : ir.stages[j].size \in Nat /\ Len(windows[j]) \in Nat
  BY <1>1, StageTyped, WindowTyped
<1>3. \A j, l \in Stages : \A k \in Nat :
        Covers(ir.stages[j], k) /\ Covers(ir.stages[l], k) => j = l
  BY DEF ChannelOK, Partitioned, Stages
<1>4. time \in Nat /\ ir.head \in Nat
  BY DEF CountersOK, ChannelOK
<1>5. ASSUME NEW p \in Owed(i, at), p \in Expected(at) PROVE FALSE
  <2>1. PICK k \in Nat : /\ p = <<k, at - k>> /\ Covers(ir.stages[i], k)
                         /\ time + 1 - ir.stages[i].size <= at - k
    BY <1>5 DEF Owed
  <2>2. PICK m \in ir.head..(ir.len - 1) :
          /\ p = <<m, at - m>>
          /\ \E j \in Stages : Covers(ir.stages[j], m) /\ at - m < time - Len(windows[j])
    BY <1>5 DEF Expected
  <2>3. m = k
    BY <2>1, <2>2
  <2>4. at - k < time - Len(windows[i])
    BY <1>1, <1>3, <2>1, <2>2, <2>3
  <2> DEFINE w == Len(windows[i])
             size == ir.stages[i].size
  <2>5. /\ w \in Nat /\ size \in Nat /\ w + 1 = size /\ at - k \in Int
        /\ time + 1 - size <= at - k /\ at - k < time - w
    BY <1>1, <1>2, <1>4, <2>1, <2>4
  <2> HIDE DEF w, size
  <2> QED
    BY <1>4, <2>5
<1>6. ASSUME NEW j \in Filling, j # i, NEW p \in Owed(i, at), p \in Owed(j, at) PROVE FALSE
  <2>1. PICK k \in Nat : p = <<k, at - k>> /\ Covers(ir.stages[i], k)
    BY <1>6 DEF Owed
  <2>2. PICK m \in Nat : p = <<m, at - m>> /\ Covers(ir.stages[j], m)
    BY <1>6 DEF Owed
  <2> QED
    BY <1>1, <1>3, <1>6, <2>1, <2>2
<1> QED
  BY <1>5, <1>6

\* What the stages add to a cell is every product once.
LEMMA AddedOnce ==
  ASSUME ChannelOK(ir), CountersOK, WindowsOK, NEW at \in (time + 1)..(time + ir.ring)
  PROVE  LET made == UNION {Adds(i, at % ir.ring) : i \in Filling} IN
         AddedTo(at % ir.ring) = SetToBag(made) /\ made \cap Expected(at) = {}
<1> DEFINE p == at % ir.ring
           made == UNION {Adds(i, p) : i \in Filling}
<1>0. at \in Int
  BY DEF CountersOK, ChannelOK
<1>1. \A i \in Filling : Adds(i, p) \subseteq Owed(i, at)
  BY AddsWhatIsOwed
<1>2. made \cap Expected(at) = {}
  BY <1>0, <1>1, OwedIsNew
<1>3. ASSUME NEW q \in made PROVE Cardinality({i \in Filling : q \in Adds(i, p)}) = 1
  <2>1. PICK i \in Filling : q \in Adds(i, p)
    BY <1>3
  <2>2. \A j \in Filling : q \in Adds(j, p) => j = i
    BY <1>0, <1>1, <2>1, OwedIsNew
  <2>3. {j \in Filling : q \in Adds(j, p)} = {i}
    BY <2>1, <2>2
  <2> QED
    BY <2>3, FS_Singleton
<1> HIDE DEF p
<1>4. AddedTo(p) = SetToBag(made)
  BY <1>3 DEF AddedTo, SetToBag
<1> QED
  BY <1>2, <1>4 DEF p

LEMMA LargestBounds ==
  ASSUME ChannelOK(ir)
  PROVE  Largest \in Nat /\ \A i \in Stages : ir.stages[i].size <= Largest
<1> DEFINE size == [i \in Stages |-> ir.stages[i].size]
           sizes == {0} \cup {size[i] : i \in Stages}
<1>1. IsFiniteSet(Stages)
  BY FS_Interval DEF ChannelOK, Stages
<1>2. \A i \in Stages : size[i] \in Nat
  BY StageTyped
<1>3. Largest = Max(sizes)
  BY DEF Largest, Stages
<1>4. IsFiniteSet({size[i] : i \in Stages})
  BY <1>1, FiniteImage
<1> HIDE DEF size
<1>5. IsFiniteSet(sizes) /\ sizes \subseteq Nat /\ 0 \in sizes
  <2>1. IsFiniteSet({0})
    BY FS_Singleton
  <2> QED
    <3>1. IsFiniteSet(sizes)
      BY <1>4, <2>1, FS_Union
    <3> QED
      BY <1>2, <3>1
<1>6. Max(sizes) \in Nat /\ \A y \in sizes : y <= Max(sizes)
  <2> HIDE DEF sizes
  <2> QED
    BY <1>5, HasGreatest
<1>7. \A i \in Stages : size[i] <= Max(sizes)
  BY <1>6
<1> QED
  BY <1>3, <1>6, <1>7 DEF size

\* After the sample a time lacks nothing the windows have been asked for, unless
\* the sample that is not finite was in one of them.
LEMMA ExpectedGrows ==
  ASSUME ChannelOK(ir), CountersOK, WindowsOK, Sample,
         NEW at \in (time + 1)..(time + ir.ring)
  PROVE  LET made == UNION {Adds(i, at % ir.ring) : i \in Filling}
             held == IF at = time + ir.ring THEN {} ELSE Expected(at)
         IN /\ made \subseteq Expected(at)' /\ held \subseteq Expected(at)'
            /\ ~Spoilt(at) => Expected(at)' = held \cup made
<1> DEFINE made == UNION {Adds(i, at % ir.ring) : i \in Filling}
           held == IF at = time + ir.ring THEN {} ELSE Expected(at)
           later(j) == IF j \in Filling THEN 0 ELSE Len(windows[j]) + 1
<1>1. /\ time' = time + 1 /\ ir' = ir /\ time \in Nat /\ at \in Nat
      /\ time + 1 <= at /\ at <= time + ir.ring
      /\ ir.head \in Nat /\ ir.len \in Nat /\ ir.ring \in Nat /\ ir.len <= ir.ring
  BY SampleShape DEF CountersOK, ChannelOK
<1>2. ASSUME NEW j \in Stages
      PROVE  /\ Len(windows[j]) \in Nat /\ ir.stages[j].size \in Nat
             /\ Len(windows[j]) + 1 <= ir.stages[j].size
             /\ j \in Filling <=> Len(windows[j]) + 1 = ir.stages[j].size
             /\ later(j) \in Nat
  BY WindowTyped, StageTyped DEF Filling
<1>3. Expected(at)' = {<<k, at - k>> : k \in {k \in ir.head..(ir.len - 1) :
         k <= at /\ \E j \in Stages : Covers(ir.stages[j], k) /\ at - k < time + 1 - later(j)}}
  <2>1. \A j \in Stages : time' - Len(windows'[j]) = time + 1 - later(j)
    <3> TAKE j \in Stages
    <3>1. Len(windows'[j]) = later(j) /\ later(j) \in Nat
      BY <1>2, SampleWindows
    <3> QED
      BY <1>1, <3>1
  <2>2. Stages' = Stages /\ \A j, k : Covers(ir.stages[j], k)' = Covers(ir.stages[j], k)
    BY <1>1 DEF Stages, Covers
  <2> HIDE DEF later
  <2> QED
    BY <1>1, <2>1, <2>2 DEF Expected
<1> HIDE DEF later
<1>4. \A j \in Stages : time - Len(windows[j]) <= time + 1 - later(j)
  <2> TAKE j \in Stages
  <2>1. later(j) = 0 \/ later(j) = Len(windows[j]) + 1
    BY DEF later
  <2>2. Len(windows[j]) \in Nat
    BY <1>2
  <2> QED
    BY <1>1, <2>1, <2>2
<1>5. held \subseteq Expected(at)'
  <2>1. ASSUME NEW k \in ir.head..(ir.len - 1), k <= at, NEW j \in Stages,
               Covers(ir.stages[j], k), at - k < time - Len(windows[j])
        PROVE  at - k < time + 1 - later(j)
    BY <1>1, <1>2, <1>4, <2>1
  <2>2. held \subseteq Expected(at)
    OBVIOUS
  <2> HIDE DEF held
  <2> QED
    BY <1>3, <2>1, <2>2 DEF Expected
<1>6. ASSUME NEW i \in Filling PROVE Owed(i, at) \subseteq Expected(at)'
  <2>1. i \in Stages /\ later(i) = 0
    BY DEF Filling, later
  <2>2. /\ ir.stages[i].offset \in Nat /\ ir.stages[i].actual \in Nat
        /\ ir.head <= ir.stages[i].offset
        /\ ir.stages[i].offset + ir.stages[i].actual <= ir.len
    BY <2>1, StageTyped
  <2>3. ASSUME NEW k \in Nat, Covers(ir.stages[i], k), k <= at, at - k <= time
        PROVE  k \in ir.head..(ir.len - 1) /\ at - k < time + 1 - later(i)
    BY <1>1, <2>1, <2>2, <2>3 DEF Covers
  <2> QED
    BY <1>3, <2>1, <2>3 DEF Owed
<1>7. made \subseteq Expected(at)'
  BY <1>6, AddsWhatIsOwed
<1>8. ASSUME ~Spoilt(at), NEW k \in ir.head..(ir.len - 1), k <= at, NEW j \in Stages,
             Covers(ir.stages[j], k), at - k < time + 1 - later(j)
      PROVE  <<k, at - k>> \in held \cup made
  <2>1. CASE at - k < time - Len(windows[j])
    <3>1. at # time + ir.ring
      <4>1. Len(windows[j]) \in Nat /\ k \in Nat /\ k < ir.len
        BY <1>1, <1>2
      <4> QED
        BY <1>1, <1>8, <2>1, <4>1
    <3> QED
      BY <1>8, <2>1, <3>1 DEF Expected
  <2>2. CASE at - k >= time - Len(windows[j])
    <3>1. j \in Filling
      <4>1. Len(windows[j]) \in Nat /\ k \in Nat
        BY <1>1, <1>2
      <4> QED
        <5>1. j \notin Filling => later(j) = Len(windows[j]) + 1
          BY DEF later
        <5> QED
          BY <1>1, <1>8, <2>2, <4>1, <5>1
    <3>2. time + 1 - ir.stages[j].size <= at - k /\ at - k <= time
      <4>1. later(j) = 0 /\ Len(windows[j]) + 1 = ir.stages[j].size
        BY <1>2, <3>1 DEF later
      <4>2. Len(windows[j]) \in Nat /\ ir.stages[j].size \in Nat /\ at - k \in Int
        BY <1>1, <1>2
      <4> QED
        <5> DEFINE x == at - k
        <5>1. x \in Int /\ x >= time - Len(windows[j]) /\ x < time + 1 - 0
          BY <1>8, <2>2, <4>1, <4>2
        <5> HIDE DEF x
        <5>2. time + 1 - ir.stages[j].size <= x /\ x <= time
          <6> DEFINE w == Len(windows[j])
                     size == ir.stages[j].size
          <6>1. /\ w \in Int /\ size \in Int /\ time \in Int /\ w + 1 = size
                /\ x \in Int /\ x >= time - w /\ x < time + 1 - 0
            BY <1>1, <4>1, <4>2, <5>1
          <6> HIDE DEF w, size
          <6>2. time + 1 - size <= x /\ x <= time
            BY <6>1
          <6> QED
            BY <6>2 DEF size
        <5> QED
          BY <5>2 DEF x
    <3>3. <<k, at - k>> \in Owed(j, at)
      <4>1. k \in Nat
        BY <1>1
      <4> QED
        BY <1>8, <3>2, <4>1 DEF Owed
    <3>4. ~Refused(j)
      <4> SUFFICES ASSUME Refused(j) PROVE FALSE
        OBVIOUS
      <4>1. /\ fault \in Nat /\ fault # Silence
            /\ time + 1 - ir.stages[j].size <= fault /\ fault <= time
        BY <1>1, <1>2 DEF Refused, CountersOK
      <4>2. Largest \in Nat /\ ir.stages[j].size <= Largest
        BY LargestBounds DEF ChannelOK
      <4>3. at <= fault + ir.len + Largest
        <5>1. k \in Nat /\ k < ir.len /\ ir.stages[j].size \in Nat
          BY <1>1, <1>2
        <5> HIDE DEF Largest
        <5>2. at <= time + k
          BY <1>1, <3>2, <5>1
        <5>3. time <= fault + Largest
          BY <1>1, <4>1, <4>2, <5>1
        <5> QED
          BY <1>1, <4>1, <4>2, <5>1, <5>2, <5>3
      <4> QED
        BY <1>1, <1>8, <4>1, <4>2, <4>3 DEF Spoilt
    <3>5. Adds(j, at % ir.ring) = Owed(j, at)
      BY <3>1, <3>4, AddsWhatIsOwed
    <3> QED
      BY <3>1, <3>3, <3>5
  <2>3. time - Len(windows[j]) \in Int /\ at - k \in Int
    BY <1>1, <1>2
  <2> QED
    BY <2>1, <2>2, <2>3
<1> HIDE DEF held, made
<1>9. ~Spoilt(at) => Expected(at)' \subseteq held \cup made
  BY <1>3, <1>8
<1>10. /\ made \subseteq Expected(at)' /\ held \subseteq Expected(at)'
       /\ ~Spoilt(at) => Expected(at)' = held \cup made
  BY <1>5, <1>7, <1>9
<1> QED
  BY <1>10 DEF held, made

(* The ring and the history after a sample; the beginning of a call.        *)
LEMMA Around ==
  ASSUME NEW a \in Int, NEW r \in Nat, r > 0
  PROVE  (a + r) % r = a % r
<1> DEFINE p == a \div r
           q == (a + r) \div r
           x == a % r
           y == (a + r) % r
<1>1. /\ p \in Int /\ a = r * p + x /\ x \in 0..(r - 1)
      /\ q \in Int /\ a + r = r * q + y /\ y \in 0..(r - 1)
  BY Division
<1> HIDE DEF p, q, x, y
<1>2. x - y = r * (q - p - 1)
  BY <1>1
<1>3. q - p - 1 >= 1 => r * (q - p - 1) >= r
  BY <1>1
<1>4. q - p - 1 <= -1 => r * (q - p - 1) <= -r
  BY <1>1
<1>5. q - p - 1 = 0
  BY <1>1, <1>2, <1>3, <1>4
<1>6. x = y
  BY <1>1, <1>2, <1>5
<1> QED
  BY <1>6 DEF x, y

LEMMA BagOfSet ==
  ASSUME NEW S
  PROVE  DOMAIN SetToBag(S) = S
BY DEF SetToBag

LEMMA SampleRing ==
  ASSUME ChannelOK(ir), CountersOK, WindowsOK, RingOK, Sample
  PROVE  RingOK'
<1>1. /\ time' = time + 1 /\ ir' = ir /\ fault' = fault /\ time \in Nat
      /\ ir.ring \in Nat /\ ir.ring > 0
      /\ ring' = [p \in DOMAIN ring |->
                    (IF p = time % ir.ring THEN EmptyBag ELSE ring[p]) (+) AddedTo(p)]
      /\ DOMAIN ring = 0..(ir.ring - 1)
  BY SampleShape DEF CountersOK, ChannelOK, RingOK
<1>2. \A u : Spoilt(u)' = Spoilt(u)
  BY <1>1 DEF Spoilt, Largest
<1>3. ASSUME NEW at \in (time + 1)..(time + ir.ring)
      PROVE  LET cell == ring'[at % ir.ring] IN
             /\ cell = SetToBag(DOMAIN cell)
             /\ DOMAIN cell \subseteq Expected(at)'
             /\ ~Spoilt(at) => DOMAIN cell = Expected(at)'
  <2> DEFINE p == at % ir.ring
             made == UNION {Adds(i, p) : i \in Filling}
             held == IF at = time + ir.ring THEN {} ELSE Expected(at)
             kept == IF p = time % ir.ring THEN EmptyBag ELSE ring[p]
  <2>1. at \in Int /\ time < at /\ at <= time + ir.ring
    BY <1>1
  <2>2. p \in 0..(ir.ring - 1)
    BY <1>1, <2>1, Division
  <2>3. p = time % ir.ring <=> at = time + ir.ring
    <3>1. CASE at = time + ir.ring
      BY <1>1, <3>1, Around
    <3>2. CASE at # time + ir.ring
      <4>1. time \in Int /\ at \in Int /\ time < at /\ at < time + ir.ring
        BY <1>1, <2>1, <3>2
      <4>2. time % ir.ring # at % ir.ring
        BY <1>1, <4>1, Apart
      <4> QED
        BY <3>2, <4>2
    <3> QED
      BY <3>1, <3>2
  <2>4. /\ kept = SetToBag(DOMAIN kept) /\ DOMAIN kept \subseteq held
        /\ ~Spoilt(at) => DOMAIN kept = held
    <3>1. CASE at = time + ir.ring
      <4>1. kept = SetToBag({})
        BY <2>3, <3>1 DEF EmptyBag
      <4> HIDE DEF kept
      <4> QED
        BY <3>1, <4>1, BagOfSet
    <3>2. CASE at # time + ir.ring
      <4>1. kept = ring[at % ir.ring] /\ held = Expected(at) /\ at \in time..(time + ir.ring - 1)
        BY <1>1, <2>1, <2>3, <3>2
      <4> HIDE DEF kept, held
      <4> QED
        BY <4>1 DEF RingOK
    <3> QED
      BY <3>1, <3>2
  <2>5. AddedTo(p) = SetToBag(made) /\ made \cap Expected(at) = {}
    BY AddedOnce
  <2>6. /\ made \subseteq Expected(at)' /\ held \subseteq Expected(at)'
        /\ ~Spoilt(at) => Expected(at)' = held \cup made
    BY ExpectedGrows
  <2>7. ring'[p] = kept (+) AddedTo(p)
    BY <1>1, <2>2
  <2>8. held \subseteq Expected(at)
    OBVIOUS
  <2> HIDE DEF p, made, held, kept
  <2>9. ring'[p] = SetToBag(DOMAIN kept \cup made)
    BY <2>4, <2>5, <2>7, <2>8, BagsJoin
  <2>10. DOMAIN ring'[p] = DOMAIN kept \cup made
    BY <2>9, BagOfSet
  <2> QED
    BY <2>4, <2>6, <2>9, <2>10 DEF p
<1>4. DOMAIN ring' = 0..(ir'.ring - 1)
  BY <1>1
<1>5. time'..(time' + ir'.ring - 1) = (time + 1)..(time + ir.ring)
  BY <1>1
<1>6. \A at \in time'..(time' + ir'.ring - 1) :
         LET cell == ring'[at % ir'.ring] IN
             /\ cell = SetToBag(DOMAIN cell)
             /\ DOMAIN cell \subseteq Expected(at)'
             /\ ~Spoilt(at)' => DOMAIN cell = Expected(at)'
  BY <1>1, <1>2, <1>3, <1>5
<1> QED
  BY <1>4, <1>6 DEF RingOK

LEMMA SampleHistory ==
  ASSUME ChannelOK(ir), CountersOK, HistoryOK, Sample
  PROVE  HistoryOK' /\ CountersOK'
<1>1. /\ time' = time + 1 /\ unplayed > 0 /\ unplayed' = unplayed - 1 /\ history' = history
      /\ ir' = ir /\ fault' = fault /\ time \in Nat /\ unplayed \in Nat
      /\ fault \in Nat \cup {Silence}
  BY DEF Sample, CountersOK
<1>2. time' + unplayed' = time + unplayed
  BY <1>1
<1>3. \A u : Heard(u)' = Heard(u)
  BY DEF Heard
<1>4. \A j \in 1..(ir.head - 1) : history'[j] = Heard(time' + unplayed' - ir.head + j)
  <2>1. \A j \in 1..(ir.head - 1) : history[j] = Heard(time + unplayed - ir.head + j)
    BY DEF HistoryOK
  <2> QED
    <3>1. /\ time \in Nat /\ unplayed \in Nat /\ ir.head \in Nat
          /\ time' = time + 1 /\ unplayed' = unplayed - 1
      BY <1>1 DEF ChannelOK
    <3>2. \A j \in Int : time' + unplayed' - ir.head + j = time + unplayed - ir.head + j
      BY <3>1
    <3>3. \A j \in 1..(ir.head - 1) : j \in Int
      OBVIOUS
    <3> QED
      BY <1>1, <2>1, <3>2, <3>3
<1>5. \A j \in 1..(ir.head - 1) : history'[j] = Heard(time + unplayed - ir.head + j)'
  BY <1>1, <1>4 DEF Heard
<1>6. HistoryOK'
  BY <1>1, <1>5 DEF HistoryOK, Samples
<1> QED
  BY <1>1, <1>6 DEF CountersOK

LEMMA ElementsOf ==
  ASSUME NEW S, NEW s \in Seq(S)
  PROVE  \A m \in DOMAIN s : s[m] \in S
OBVIOUS

\* Begin(n): what the call hears.
LEMMA BeginHears ==
  ASSUME ChannelOK(ir), CountersOK, HistoryOK, NEW n \in 1..ir.block, Begin(n)
  PROVE  LET padded == history \o [i \in 1..n |-> time + i - 1] IN
         /\ DOMAIN padded = 1..(ir.head - 1 + n) /\ padded \in Seq(Samples)
         /\ \A j \in 1..(ir.head - 1 + n) : padded[j] = Heard(time - ir.head + j)
<1> DEFINE new == [i \in 1..n |-> time + i - 1]
           padded == history \o new
<1>1. /\ unplayed = 0 /\ time \in Nat /\ ir.head \in Nat /\ ir.head > 0 /\ n \in Nat
      /\ history \in Seq(Samples) /\ Len(history) = ir.head - 1
      /\ \A j \in 1..(ir.head - 1) : history[j] = Heard(time + unplayed - ir.head + j)
  BY DEF CountersOK, HistoryOK, ChannelOK, Begin
<1>2. new \in Seq(Samples) /\ Len(new) = n /\ \A i \in 1..n : new[i] = time + i - 1
  BY <1>1 DEF Samples
<1> HIDE DEF new
<1>3. /\ padded \in Seq(Samples) /\ DOMAIN padded = 1..(ir.head - 1 + n)
      /\ \A j \in 1..(ir.head - 1) : padded[j] = history[j]
      /\ \A j \in ir.head..(ir.head - 1 + n) : padded[j] = new[j - (ir.head - 1)]
  <2> DEFINE L == ir.head - 1
  <2>1. /\ L \in Nat /\ Len(history) = L /\ history \in Seq(Samples) /\ new \in Seq(Samples)
        /\ Len(new) = n /\ n \in Nat
    BY <1>1, <1>2
  <2>2. ir.head = L + 1
    BY <1>1
  <2> HIDE DEF L
  <2>3. /\ padded \in Seq(Samples) /\ DOMAIN padded = 1..(L + n)
        /\ \A j \in 1..L : padded[j] = history[j]
        /\ \A j \in (L + 1)..(L + n) : padded[j] = new[j - L]
    BY <2>1
  <2> HIDE DEF padded
  <2>4. ir.head - 1 + n = L + n /\ ir.head - 1 = L
    BY <2>1, <2>2
  <2> QED
    BY <2>2, <2>3, <2>4
<1> HIDE DEF padded
<1>4. ASSUME NEW j \in 1..(ir.head - 1 + n) PROVE padded[j] = Heard(time - ir.head + j)
  <2>1. CASE j \in 1..(ir.head - 1)
    <3>1. time + unplayed - ir.head + j = time - ir.head + j
      BY <1>1, <2>1
    <3> QED
      BY <1>1, <1>3, <2>1, <3>1
  <2>2. CASE j \in ir.head..(ir.head - 1 + n)
    <3>1. j - (ir.head - 1) \in 1..n /\ time + (j - (ir.head - 1)) - 1 = time - ir.head + j
          /\ time - ir.head + j >= 0
      <4>1. j \in Nat /\ ir.head <= j /\ j <= ir.head - 1 + n
        BY <1>1, <2>2
      <4> QED
        BY <1>1, <4>1
    <3>2. padded[j] = time - ir.head + j
      BY <1>2, <1>3, <2>2, <3>1
    <3>3. Heard(time - ir.head + j) = time - ir.head + j
      <4> DEFINE u == time - ir.head + j
      <4>1. u \in Int /\ u >= 0
        BY <1>1, <2>2, <3>1
      <4> HIDE DEF u
      <4>2. Heard(u) = u
        BY <4>1 DEF Heard
      <4> QED
        BY <4>2 DEF u
    <3> QED
      BY <3>2, <3>3
  <2> QED
    BY <1>1, <2>1, <2>2
<1> QED
  BY <1>3, <1>4 DEF padded, new

LEMMA BeginHead ==
  ASSUME ChannelOK(ir), CountersOK, NEW n \in 1..ir.block, NEW i \in 1..n, NEW padded,
         \A j \in 1..(ir.head - 1 + n) : padded[j] = Heard(time - ir.head + j)
  PROVE  HeadPart(padded, i) = SetToBag(HeadProducts(time + i - 1))
<1> DEFINE u == time + i - 1
           products == {<<k, padded[ir.head - k + i - 1]>> : k \in 0..(ir.head - 1)}
           real == {product \in products : product[2] # Silence}
<1>1. /\ time \in Nat /\ ir.head \in Nat /\ ir.head > 0 /\ n \in Nat /\ i \in Nat
         /\ Silence \notin Int
      /\ i >= 1 /\ i <= n
  BY ConvolverAssumption DEF CountersOK, ChannelOK, ConvolverAssumption
<1>2. ASSUME NEW k \in 0..(ir.head - 1)
      PROVE  /\ k <= u => padded[ir.head - k + i - 1] = u - k
             /\ ~ (k <= u) => padded[ir.head - k + i - 1] = Silence
  <2> DEFINE j == ir.head - k + i - 1
  <2>1. j \in 1..(ir.head - 1 + n) /\ time - ir.head + j = u - k /\ u - k \in Int
    BY <1>1
  <2> HIDE DEF j, u
  <2>2. padded[j] = Heard(u - k)
    BY <2>1
  <2>3. u \in Int
    BY <1>1 DEF u
  <2> QED
    BY <1>1, <2>2, <2>3 DEF Heard, j
<1>3. u \in Nat
  BY <1>1
<1> HIDE DEF u
<1>4. real = HeadProducts(u)
  <2>1. ASSUME NEW p \in real PROVE p \in HeadProducts(u)
    <3>1. PICK k \in 0..(ir.head - 1) : p = <<k, padded[ir.head - k + i - 1]>> /\ p[2] # Silence
      OBVIOUS
    <3>2. k <= u /\ p = <<k, u - k>>
      BY <1>2, <3>1
    <3> QED
      BY <1>1, <1>3, <3>1, <3>2 DEF HeadProducts, Least
  <2>2. ASSUME NEW p \in HeadProducts(u) PROVE p \in real
    <3>1. PICK k \in 0..Least(ir.head - 1, u) : p = <<k, u - k>>
      BY DEF HeadProducts
    <3>2. k \in 0..(ir.head - 1) /\ k <= u
      BY <1>1, <1>3 DEF Least
    <3>3. p = <<k, padded[ir.head - k + i - 1]>> /\ u - k \in Int
      BY <1>2, <1>3, <3>1, <3>2
    <3> QED
      BY <1>1, <3>1, <3>2, <3>3
  <2> QED
    BY <2>1, <2>2
<1> QED
  BY <1>4 DEF HeadPart, u

LEMMA BeginPreserves ==
  ASSUME ChannelOK(ir), CountersOK, WindowsOK, HistoryOK, RingOK,
         NEW n \in 1..ir.block, Begin(n)
  PROVE  /\ CountersOK' /\ WindowsOK' /\ HistoryOK' /\ RingOK' /\ OutOK'
         /\ OutputIsConvolution'
<1> DEFINE padded == history \o [i \in 1..n |-> time + i - 1]
<1>1. /\ unplayed = 0 /\ unplayed' = n /\ n \in Nat /\ n >= 1 /\ n <= ir.block
      /\ out' = [i \in 1..n |-> HeadPart(padded, i)]
      /\ history' = [i \in DOMAIN history |-> padded[n + i]]
      /\ ir' = ir /\ fault' = fault /\ time' = time /\ windows' = windows /\ ring' = ring
      /\ time \in Nat /\ ir.head \in Nat /\ ir.head > 0
  BY DEF Begin, CountersOK, ChannelOK
<1>2. /\ padded \in Seq(Samples) /\ DOMAIN padded = 1..(ir.head - 1 + n)
      /\ \A j \in 1..(ir.head - 1 + n) : padded[j] = Heard(time - ir.head + j)
  BY BeginHears
<1> HIDE DEF padded
<1>3. CountersOK'
  BY <1>1 DEF CountersOK
<1>4. WindowsOK'
  BY <1>1 DEF WindowsOK, Stages, Heard, Samples
<1>5. RingOK'
  <2>1. /\ \A at : Spoilt(at)' = Spoilt(at)
        /\ \A at : Expected(at)' = Expected(at)
    BY <1>1 DEF Expected, Spoilt, Largest, Stages, Covers
  <2> QED
    BY <1>1, <2>1 DEF RingOK
<1>6. HistoryOK'
  <2>1. DOMAIN history = 1..(ir.head - 1)
    BY DEF HistoryOK
  <2>2. ASSUME NEW j \in 1..(ir.head - 1)
        PROVE  /\ history'[j] = padded[n + j] /\ padded[n + j] \in Samples
               /\ padded[n + j] = Heard(time' + unplayed' - ir.head + j)
    <3>1. n + j \in 1..(ir.head - 1 + n) /\ time - ir.head + (n + j) = time' + unplayed' - ir.head + j
      BY <1>1
    <3>2. padded[n + j] \in Samples
      <4>1. \A m \in DOMAIN padded : padded[m] \in Samples
        BY <1>2, ElementsOf
      <4> QED
        BY <1>2, <3>1, <4>1
    <3> QED
      BY <1>1, <1>2, <2>1, <3>1, <3>2
  <2>3. history' \in Seq(Samples) /\ Len(history') = ir.head - 1
    <3> DEFINE L == ir.head - 1
    <3>1. L \in Nat /\ history' = [j \in 1..L |-> padded[n + j]]
      BY <1>1, <2>1
    <3>2. \A j \in 1..L : padded[n + j] \in Samples
      BY <2>2
    <3> HIDE DEF L
    <3>3. history' \in Seq(Samples) /\ Len(history') = L
      BY <3>1, <3>2
    <3> QED
      BY <3>3 DEF L
  <2>4. \A j \in 1..(ir.head - 1) : history'[j] = Heard(time + unplayed - ir.head + j)'
    BY <1>1, <2>2 DEF Heard
  <2> QED
    BY <1>1, <2>3, <2>4 DEF HistoryOK, Samples
<1>7. DOMAIN out' = 1..n /\ Len(out') = n /\ out' \in Seq({out'[i] : i \in DOMAIN out'})
  <2>1. out' \in Seq({HeadPart(padded, i) : i \in 1..n})
    BY <1>1
  <2> QED
    BY <1>1, <2>1, SeqOfItsOwn
<1>8. OutOK'
  <2>1. ASSUME NEW i \in 1..n
        PROVE  out'[i] = SetToBag(HeadProducts(time' + unplayed' - n + i - 1))
    <3>1. time' + unplayed' - n + i - 1 = time + i - 1
      BY <1>1
    <3>2. HeadPart(padded, i) = SetToBag(HeadProducts(time + i - 1))
      BY <1>2, BeginHead
    <3> QED
      BY <1>1, <3>1, <3>2
  <2>2. \A u : HeadProducts(u)' = HeadProducts(u)
    BY <1>1 DEF HeadProducts
  <2>3. \A i \in 1..n : out'[i] = SetToBag(HeadProducts(time + unplayed - Len(out) + i - 1)')
    BY <1>7, <2>1, <2>2
  <2>4. unplayed' <= Len(out') /\ Len(out') <= ir'.block
    BY <1>1, <1>7
  <2> QED
    BY <1>7, <2>3, <2>4 DEF OutOK
<1>9. OutputIsConvolution'
  <2>1. 1..(Len(out') - unplayed') = {}
    BY <1>1, <1>7
  <2> QED
    BY <2>1 DEF OutputIsConvolution
<1> QED
  BY <1>3, <1>4, <1>5, <1>6, <1>8, <1>9

(* The load. Two windows of one size fill as far apart as their staggers, give *)
(* or take a whole window (LoadOK), and a call is shorter than the least       *)
(* distance of two staggers that differ: those that fill in it share one.      *)
LEMMA SampleLoad ==
  ASSUME ChannelOK(ir), CountersOK, WindowsOK, OutOK, LoadOK, Sample
  PROVE  LoadOK'
<1>1. /\ ir' = ir /\ fired' = fired \cup Filling /\ Filling \subseteq Stages
         /\ fired \subseteq Stages
      /\ unplayed > 0 /\ unplayed' = unplayed - 1 /\ unplayed \in Nat
  BY SampleShape DEF Sample, Filling, LoadOK, CountersOK
<1>2. Len(out') = Len(out) /\ Len(out) \in Nat /\ unplayed <= Len(out)
  <2>1. out \in Seq({out[i] : i \in DOMAIN out}) /\ unplayed <= Len(out)
    BY DEF OutOK
  <2>2. out' = [out EXCEPT ![Len(out) - unplayed + 1] = @ (+) ring[time % ir.ring]]
    BY DEF Sample
  <2>3. DOMAIN out' = DOMAIN out /\ DOMAIN out = 1..Len(out) /\ Len(out) \in Nat
    BY <2>1, <2>2, SeqOfItsOwn
  <2>4. Len(out) - unplayed + 1 \in 1..Len(out)
    BY <1>1, <2>1, <2>3
  <2> DEFINE now == Len(out) - unplayed + 1
             v == out[now] (+) ring[time % ir.ring]
  <2>5. out' = [out EXCEPT ![now] = v] /\ now \in 1..Len(out)
    BY <2>2, <2>4
  <2> HIDE DEF now, v
  <2>6. out' \in Seq({out[i] : i \in DOMAIN out} \cup {v}) /\ Len(out') = Len(out)
    BY <2>1, <2>3, <2>5
  <2> QED
    BY <2>1, <2>3, <2>6
<1>3. \A i \in Stages : /\ Len(windows[i]) \in Nat /\ ir.stages[i].size \in Nat
                        /\ Len(windows[i]) < ir.stages[i].size
                        /\ ir.stages[i].stagger \in Nat /\ ir.stages[i].stagger < ir.stages[i].size
                        /\ i \in Filling <=> Len(windows[i]) + 1 = ir.stages[i].size
                        /\ Len(windows'[i]) = IF i \in Filling THEN 0 ELSE Len(windows[i]) + 1
  BY WindowTyped, StageTyped, SampleWindows DEF Filling
<1>4. \A i \in fired' : Len(windows'[i]) < Len(out') - unplayed'
  <2> TAKE i \in fired'
  <2>1. i \in Stages /\ (i \notin Filling => i \in fired)
    BY <1>1
  <2>2. CASE i \in Filling
    BY <1>1, <1>2, <1>3, <2>1, <2>2
  <2>3. CASE i \notin Filling
    <3>1. Len(windows[i]) < Len(out) - unplayed
      BY <2>1, <2>3 DEF LoadOK
    <3> QED
      BY <1>1, <1>2, <1>3, <2>1, <2>3, <3>1
  <2> QED
    BY <2>2, <2>3
<1>5. ASSUME NEW i \in Stages, NEW j \in Peers(ir.stages, i)
      PROVE  LET d == ir.stages[i].stagger - ir.stages[j].stagger IN
             Len(windows'[i]) - Len(windows'[j])
                 \in {d - ir.stages[i].size, d, d + ir.stages[i].size}
  <2> DEFINE d == ir.stages[i].stagger - ir.stages[j].stagger
             size == ir.stages[i].size
             a == Len(windows[i])
             b == Len(windows[j])
  <2>1. j \in Stages /\ ir.stages[j].size = size
    BY DEF Peers, Stages
  <2>2. /\ d \in Int /\ d < size /\ -size < d /\ size \in Nat /\ a \in Nat /\ b \in Nat
           /\ a < size /\ b < size
        /\ i \in Filling <=> a + 1 = size
        /\ j \in Filling <=> b + 1 = size
        /\ Len(windows'[i]) = IF i \in Filling THEN 0 ELSE a + 1
        /\ Len(windows'[j]) = IF j \in Filling THEN 0 ELSE b + 1
    <3>1. /\ d \in Int /\ d < size /\ -size < d /\ size \in Nat /\ a \in Nat /\ b \in Nat
             /\ a < size /\ b < size
      <4> DEFINE s == ir.stages[i].stagger
                 t == ir.stages[j].stagger
      <4>1. /\ s \in Nat /\ t \in Nat /\ s < size /\ t < size /\ size \in Nat
            /\ a \in Nat /\ b \in Nat /\ a < size /\ b < size
        BY <1>3, <2>1
      <4>2. d = s - t
        OBVIOUS
      <4> HIDE DEF a, b, d, s, t, size
      <4> QED
        BY <4>1, <4>2
    <3>2. /\ i \in Filling <=> a + 1 = size
          /\ Len(windows'[i]) = IF i \in Filling THEN 0 ELSE a + 1
      BY <1>3, <2>1
    <3>3. /\ j \in Filling <=> b + 1 = size
          /\ Len(windows'[j]) = IF j \in Filling THEN 0 ELSE b + 1
      BY <1>3, <2>1
    <3> QED
      BY <3>1, <3>2, <3>3
  <2>3. a - b \in {d - size, d, d + size}
    BY DEF LoadOK
  <2> HIDE DEF a, b, d, size
  <2>4. Len(windows'[i]) - Len(windows'[j]) \in {d - size, d, d + size}
    BY <2>2, <2>3
  <2> QED
    BY <2>4 DEF d, size
<1> QED
  <2>1. fired' \subseteq Stages'
    BY <1>1 DEF Stages
  <2>2. \A i \in Stages' : \A j \in Peers(ir.stages, i)' :
          Len(windows'[i]) - Len(windows'[j])
            \in {ir'.stages[i].stagger - ir'.stages[j].stagger - ir'.stages[i].size,
                 ir'.stages[i].stagger - ir'.stages[j].stagger,
                 ir'.stages[i].stagger - ir'.stages[j].stagger + ir'.stages[i].size}
    BY <1>1, <1>5 DEF Stages, Peers
  <2> QED
    BY <1>4, <2>1, <2>2 DEF LoadOK

LEMMA BeginLoad ==
  ASSUME ChannelOK(ir), LoadOK, NEW n \in 1..ir.block, Begin(n)
  PROVE  LoadOK'
<1>1. ir' = ir /\ windows' = windows /\ fired' = {}
  BY DEF Begin
<1> QED
  BY <1>1 DEF LoadOK, Stages, Peers

LEMMA Phased ==
  ASSUME NEW size \in Nat, NEW block \in Nat, 0 < block, block <= size
  PROVE  Phases(size, block) \in Nat /\ Phases(size, block) > 0
<1> DEFINE p == Phases(size, block)
           rest == size % block
<1>1. rest \in 0..(block - 1) /\ p \in Int /\ size = block * p + rest
  BY Division DEF Phases
<1> HIDE DEF p, rest
<1>2. p <= 0 => block * p <= 0
  BY <1>1
<1>3. p > 0
  BY <1>1, <1>2
<1> QED
  BY <1>1, <1>3 DEF p

LEMMA LoadSpreads ==
  ASSUME ChannelOK(ir), CountersOK, WindowsOK, OutOK, LoadOK, StaggersSpread(ir)
  PROVE  LoadIsSpread
<1> SUFFICES ASSUME NEW i \in fired
             PROVE  LET peers  == Peers(ir.stages, i)
                        phases == Phases(ir.stages[i].size, ir.block)
                    IN Cardinality(fired \cap peers) <= (Cardinality(peers) + phases - 1) \div phases
  BY DEF LoadIsSpread
<1> DEFINE peers == Peers(ir.stages, i)
           phases == Phases(ir.stages[i].size, ir.block)
           same == {j \in peers : ir.stages[j].stagger = ir.stages[i].stagger}
           share == (Cardinality(peers) + phases - 1) \div phases
<1>1. i \in Stages /\ fired \subseteq Stages /\ peers \subseteq Stages /\ IsFiniteSet(Stages)
  <2>1. IsFiniteSet(Stages)
    BY FS_Interval DEF Stages, ChannelOK
  <2> QED
    BY <2>1 DEF LoadOK, Stages, Peers
<1>2. Cardinality(same) <= share
  BY <1>1 DEF StaggersSpread, Stages
<1>3. ASSUME NEW j \in fired, j \in peers PROVE j \in same
  <2> DEFINE d == ir.stages[i].stagger - ir.stages[j].stagger
             size == ir.stages[i].size
             a == Len(windows[i])
             b == Len(windows[j])
             done == Len(out) - unplayed
             block == ir.block
  <2>1. /\ a \in Nat /\ b \in Nat /\ size \in Nat /\ block \in Nat /\ d \in Int
        /\ ir.stages[i].stagger \in Int /\ ir.stages[j].stagger \in Int
    BY <1>1, WindowTyped, StageTyped
  <2>2. done \in Int /\ done <= block /\ a < done /\ b < done
    <3>1. Len(out) \in Nat /\ Len(out) <= ir.block /\ unplayed \in Nat
      BY SeqOfItsOwn DEF OutOK, CountersOK
    <3> QED
      BY <1>3, <2>1, <3>1 DEF LoadOK
  <2>3. a - b \in {d - size, d, d + size}
    BY <1>1, <1>3 DEF LoadOK
  <2>4. d = 0 \/ (block <= d /\ d <= size - block) \/ (d <= -block /\ block - size <= d)
    BY <1>1, <1>3 DEF StaggersSpread, Stages
  <2> HIDE DEF a, b, size, done, block, d
  <2>5. d = 0
    BY <2>1, <2>2, <2>3, <2>4
  <2>6. ir.stages[j].stagger = ir.stages[i].stagger
    BY <2>1, <2>5 DEF d
  <2> QED
    BY <1>3, <2>6
<1>4. fired \cap peers \subseteq same /\ IsFiniteSet(same)
  BY <1>1, <1>3, FS_Subset
<1>5. Cardinality(fired \cap peers) <= Cardinality(same)
  BY <1>4, FS_Subset
<1>6. Cardinality(fired \cap peers) \in Nat /\ Cardinality(same) \in Nat
      /\ Cardinality(peers) \in Nat
  BY <1>1, <1>4, FS_Subset, FS_CardinalityType
<1>7. share \in Int
  <2>1. phases \in Int
    BY <1>1, StageTyped, Division DEF Phases
  <2>2. phases > 0
    <3>1. /\ ir.stages[i].size \in Nat /\ ir.block \in Nat /\ ir.block > 0
             /\ ir.block <= ir.stages[i].size
      BY <1>1, StageTyped
    <3> QED
      BY <3>1, Phased
  <2> HIDE DEF phases
  <2> QED
    BY <1>6, <2>1, <2>2, Division
<1> HIDE DEF share, same, peers
<1>8. Cardinality(fired \cap peers) <= share
  BY <1>2, <1>5, <1>6, <1>7
<1> QED
  BY <1>8 DEF share, peers

(* The schedule. Its walk and the powers of two are recursive functions: that *)
(* there is such a function is shown first, step by step.                     *)
\* The schedule as build_schedule walks it, and the powers of two.
IsWalk(part, n, len, block, growth, max) ==
  part = [i \in 1..n |-> IF i = 1 THEN First(len, block) ELSE Following(part[i - 1], growth, max)]
IsPower(power, m, n) ==
  power = [e \in 0..m |-> IF e = 0 THEN 1
                          ELSE LET half == power[e - 1] IN IF half < n THEN 2 * half ELSE half]

LEMMA Walks ==
  ASSUME NEW n \in Nat, NEW len, NEW block, NEW growth, NEW max
  PROVE  \E part : IsWalk(part, n, len, block, growth, max)
<1> DEFINE S == {m \in Nat : \E part : IsWalk(part, m, len, block, growth, max)}
           step(part, i) == IF i = 1 THEN First(len, block)
                            ELSE Following(part[i - 1], growth, max)
<1>0. \A part : \A m \in Nat :
         IsWalk(part, m, len, block, growth, max) <=> part = [i \in 1..m |-> step(part, i)]
  BY DEF IsWalk
<1> HIDE DEF step
<1>1. 0 \in S
  <2> DEFINE none == [i \in 1..0 |-> 0]
  <2>1. none = [i \in 1..0 |-> step(none, i)]
    OBVIOUS
  <2> QED
    BY <1>0, <2>1
<1>2. ASSUME NEW m \in Nat, m \in S PROVE m + 1 \in S
  <2>1. PICK part : part = [i \in 1..m |-> step(part, i)]
    BY <1>0, <1>2
  <2> DEFINE more == [i \in 1..(m + 1) |-> IF i \in 1..m THEN part[i] ELSE step(part, i)]
  <2>2. ASSUME NEW i \in 1..(m + 1) PROVE step(more, i) = step(part, i)
    <3>1. i # 1 => i - 1 \in 1..m /\ i - 1 \in 1..(m + 1)
      OBVIOUS
    <3> QED
      BY <3>1 DEF step
  <2>3. ASSUME NEW i \in 1..(m + 1) PROVE more[i] = step(more, i)
    BY <2>1, <2>2
  <2>4. more = [i \in 1..(m + 1) |-> step(more, i)]
    BY <2>3
  <2> HIDE DEF more
  <2> QED
    BY <1>0, <2>4
<1> QED
  BY <1>1, <1>2, AllNumbers

LEMMA Powers ==
  ASSUME NEW m \in Nat, NEW n
  PROVE  \E power : IsPower(power, m, n)
<1> DEFINE S == {k \in Nat : \E power : IsPower(power, k, n)}
           step(power, e) == IF e = 0 THEN 1
                          ELSE LET half == power[e - 1] IN IF half < n THEN 2 * half ELSE half
<1>0. \A power : \A k \in Nat : IsPower(power, k, n) <=> power = [e \in 0..k |-> step(power, e)]
  BY DEF IsPower
<1> HIDE DEF step
<1>1. 0 \in S
  <2> DEFINE one == [e \in 0..0 |-> 1]
  <2>1. \A e \in 0..0 : step(one, e) = 1
    BY DEF step
  <2>2. one = [e \in 0..0 |-> step(one, e)]
    BY <2>1
  <2> QED
    BY <1>0, <2>2
<1>2. ASSUME NEW k \in Nat, k \in S PROVE k + 1 \in S
  <2>1. PICK power : power = [e \in 0..k |-> step(power, e)]
    BY <1>0, <1>2
  <2> DEFINE more == [e \in 0..(k + 1) |-> IF e \in 0..k THEN power[e] ELSE step(power, e)]
  <2>2. ASSUME NEW e \in 0..(k + 1) PROVE step(more, e) = step(power, e)
    <3>1. e # 0 => e - 1 \in 0..k /\ e - 1 \in 0..(k + 1)
      OBVIOUS
    <3> QED
      BY <3>1 DEF step
  <2>3. ASSUME NEW e \in 0..(k + 1) PROVE more[e] = step(more, e)
    BY <2>1, <2>2
  <2>4. more = [e \in 0..(k + 1) |-> step(more, e)]
    BY <2>3
  <2> HIDE DEF more
  <2> QED
    BY <1>0, <2>4
<1> QED
  BY <1>1, <1>2, AllNumbers

LEMMA PowerOfTwo ==
  ASSUME NEW n \in Nat
  PROVE  \E power : IsPower(power, n, n) /\ NextPowerOfTwo(n) = power[n]
<1> DEFINE power[e \in 0..n] ==
            IF e = 0 THEN 1
            ELSE LET half == power[e - 1] IN IF half < n THEN 2 * half ELSE half
<1>1. NextPowerOfTwo(n) = power[n]
  BY DEF NextPowerOfTwo
<1>2. \E p : p = [e \in 0..n |-> IF e = 0 THEN 1
            ELSE LET half == p[e - 1] IN IF half < n THEN 2 * half ELSE half]
  BY Powers DEF IsPower
<1>3. IsPower(power, n, n)
  BY <1>2 DEF IsPower
<1> QED
  BY <1>1, <1>3

LEMMA PowerReaches ==
  ASSUME NEW n \in Nat
  PROVE  NextPowerOfTwo(n) \in Nat /\ NextPowerOfTwo(n) >= n
<1>1. PICK power : IsPower(power, n, n) /\ NextPowerOfTwo(n) = power[n]
  BY PowerOfTwo
<1>2. /\ power[0] = 1
      /\ \A e \in 1..n : power[e] = IF power[e - 1] < n THEN 2 * power[e - 1] ELSE power[e - 1]
  BY <1>1 DEF IsPower
<1> DEFINE S == {e \in Nat : e <= n => power[e] \in Nat /\ power[e] >= 1
                                        /\ (power[e] >= n \/ power[e] >= e + 1)}
<1>3. 0 \in S
  BY <1>2
<1>4. ASSUME NEW e \in Nat, e \in S PROVE e + 1 \in S
  <2> SUFFICES ASSUME e + 1 <= n
               PROVE  /\ power[e + 1] \in Nat /\ power[e + 1] >= 1
                      /\ (power[e + 1] >= n \/ power[e + 1] >= e + 2)
    OBVIOUS
  <2>1. power[e] \in Nat /\ power[e] >= 1 /\ (power[e] >= n \/ power[e] >= e + 1)
    BY <1>4
  <2>2. power[e + 1] = IF power[e] < n THEN 2 * power[e] ELSE power[e]
    <3>1. e + 1 \in 1..n /\ e + 1 - 1 = e
      OBVIOUS
    <3> QED
      BY <1>2, <3>1
  <2> QED
    BY <2>1, <2>2
<1> HIDE DEF S
<1>5. n \in S
  BY <1>3, <1>4, AllNumbers
<1> QED
  BY <1>1, <1>5 DEF S

Positive == Nat \ {0}
TheMax(block, ceiling) == IF ceiling < block THEN block ELSE ceiling

Counted(part, len) == Max({0} \cup {i \in 1..len : part[i].offset < len})
Scheduled(part, count, len) ==
  [i \in 1..count |-> [offset |-> part[i].offset, size |-> part[i].size,
                       actual |-> Least(len - part[i].offset, part[i].size)]]

LEMMA PartitionsAre ==
  ASSUME NEW len \in Nat, NEW block, NEW growth, NEW ceiling
  PROVE  \E part :
           /\ IsWalk(part, len, len, block, growth, TheMax(block, ceiling))
           /\ Partitions(len, block, growth, ceiling) = Scheduled(part, Counted(part, len), len)
<1> DEFINE max   == IF ceiling < block THEN block ELSE ceiling
           part[i \in 1..len] ==
            IF i = 1 THEN First(len, block) ELSE Following(part[i - 1], growth, max)
           count == Max({0} \cup {i \in 1..len : part[i].offset < len})
<1>1. Partitions(len, block, growth, ceiling) =
                [i \in 1..count |-> [offset |-> part[i].offset, size |-> part[i].size,
                                     actual |-> Least(len - part[i].offset, part[i].size)]]
  BY DEF Partitions
<1>2. \E p : p = [i \in 1..len |-> IF i = 1 THEN First(len, block)
                                             ELSE Following(p[i - 1], growth, max)]
  <2> HIDE DEF max
  <2>1. \E p : IsWalk(p, len, len, block, growth, max)
    BY Walks
  <2> QED
    BY <2>1 DEF IsWalk
<1>3. IsWalk(part, len, len, block, growth, max)
  BY <1>2 DEF IsWalk
<1> HIDE DEF part
<1> QED
  BY <1>1, <1>3 DEF TheMax, Scheduled, Counted

LEMMA Growing ==
  ASSUME NEW len \in Positive, NEW block \in Positive, NEW growth \in Positive, NEW ceiling \in Nat,
         block < len,
         NEW part, IsWalk(part, len, len, block, growth, TheMax(block, ceiling)), NEW i \in 1..len
  PROVE  /\ part[i].offset \in Nat /\ part[i].size \in Nat
         /\ block <= part[i].size /\ part[i].size <= part[i].offset
         /\ part[1].offset = block /\ i <= part[i].offset
         /\ \A j \in (i + 1)..len : part[j].offset \in Nat
                                    /\ part[i].offset + part[i].size <= part[j].offset
         /\ i < len => part[i + 1].offset = part[i].offset + part[i].size
<1> DEFINE max == TheMax(block, ceiling)
<1>1. /\ part[1] = First(len, block)
      /\ \A n \in 2..len : part[n] = Following(part[n - 1], growth, max)
  BY DEF IsWalk, Positive
<1>2. max \in Nat /\ block <= max /\ len \in Nat /\ block \in Nat /\ growth \in Nat
      /\ block > 0 /\ growth > 0 /\ len > 0
  BY DEF TheMax, Positive
<1> HIDE DEF max
<1> DEFINE Right(n) == /\ part[n].offset \in Nat /\ part[n].size \in Nat /\ part[n].turn \in Nat
                       /\ block <= part[n].size /\ part[n].turn > 0
                       /\ part[n].size * part[n].turn <= part[n].offset /\ n <= part[n].offset
           S == {n \in Nat : n + 1 <= len => Right(n + 1)}
<1>3. part[1].offset = block /\ part[1].size = block /\ part[1].turn = 1
  BY <1>1, <1>2 DEF First, Least
<1>4. 0 \in S
  BY <1>2, <1>3
<1>5. ASSUME NEW n \in Nat, n \in S PROVE n + 1 \in S
  <2> SUFFICES ASSUME n + 2 <= len PROVE Right(n + 2)
    OBVIOUS
  <2> DEFINE p == part[n + 1]
             q == part[n + 2]
  <2>1. Right(n + 1)
    BY <1>2, <1>5
  <2>2. q = Following(p, growth, max)
    <3>1. n + 2 \in 2..len /\ n + 2 - 1 = n + 1
      BY <1>2
    <3> QED
      BY <1>1, <3>1
  <2>3. /\ q.offset = p.offset + p.size
        /\ p.turn < growth => q.size = p.size /\ q.turn = p.turn + 1
        /\ ~ (p.turn < growth) => q.size = Least(p.size * growth, max) /\ q.turn = 1
    BY <2>2 DEF Following, PerLevel
  <2> DEFINE a == p.offset
             s == p.size
             t == p.turn
  <2>4. /\ a \in Nat /\ s \in Nat /\ t \in Nat /\ block <= s /\ t > 0 /\ s * t <= a /\ n + 1 <= a
    BY <2>1
  <2> HIDE DEF p, q, a, s, t
  <2>5. /\ q.offset = a + s
        /\ t < growth => q.size = s /\ q.turn = t + 1
        /\ ~ (t < growth) => q.size = Least(s * growth, max) /\ q.turn = 1
    BY <2>3 DEF a, s, t
  <2>6. CASE t < growth
    <3>1. s * (t + 1) <= a + s
      BY <2>4
    <3> QED
      BY <1>2, <2>4, <2>5, <2>6, <3>1 DEF q
  <2>7. CASE ~ (t < growth)
    <3>1. s * growth \in Nat /\ s * growth <= s * t /\ s <= s * growth /\ s * t \in Nat
      <4>1. growth <= t
        BY <1>2, <2>4, <2>7
      <4>2. PICK x \in Nat : t = growth + x
        <5>1. t - growth \in Nat /\ t = growth + (t - growth)
          BY <1>2, <2>4, <4>1
        <5> QED
          BY <5>1
      <4>3. s * t = s * growth + s * x /\ s * x \in Nat /\ s * growth \in Nat
        BY <1>2, <2>4, <4>2
      <4>4. PICK y \in Nat : growth = 1 + y
        <5>1. growth - 1 \in Nat /\ growth = 1 + (growth - 1)
          BY <1>2
        <5> QED
          BY <5>1
      <4>5. s * growth = s + s * y /\ s * y \in Nat
        BY <2>4, <4>4
      <4> QED
        BY <2>4, <4>3, <4>5
    <3> DEFINE grown == s * growth
    <3>2. grown \in Nat /\ grown <= a /\ s <= grown
      BY <2>4, <3>1
    <3> HIDE DEF grown
    <3>3. q.size = Least(grown, max) /\ q.turn = 1 /\ q.offset = a + s
      BY <2>5, <2>7 DEF grown
    <3>4. q.size \in Nat /\ q.size <= grown /\ block <= q.size
      BY <1>2, <2>4, <3>2, <3>3 DEF Least
    <3>5. q.size * q.turn = q.size
      BY <3>3, <3>4
    <3> QED
      BY <1>2, <2>4, <3>2, <3>3, <3>4, <3>5 DEF q
  <2> QED
    BY <2>6, <2>7
<1> HIDE DEF S, Right
<1>6. ASSUME NEW n \in 1..len PROVE Right(n)
  <2>1. n - 1 \in S
    BY <1>4, <1>5, AllNumbers
  <2> QED
    BY <1>2, <2>1 DEF S
<1>7. \A n \in 1..len : part[n].size <= part[n].offset /\ part[n].offset \in Nat /\ part[n].size \in Nat
  <2> TAKE n \in 1..len
  <2>1. /\ part[n].size \in Nat /\ part[n].turn \in Nat /\ part[n].offset \in Nat
           /\ part[n].turn > 0
        /\ part[n].size * part[n].turn <= part[n].offset
    BY <1>6 DEF Right
  <2> DEFINE s == part[n].size
             t == part[n].turn
             a == part[n].offset
  <2>2. s \in Nat /\ t \in Nat /\ a \in Nat /\ t > 0 /\ s * t <= a
    BY <2>1
  <2> HIDE DEF s, t, a
  <2>3. s * t = s + s * (t - 1) /\ s * (t - 1) >= 0 /\ s * (t - 1) \in Int
    BY <2>2
  <2>4. s <= a
    BY <2>2, <2>3
  <2> QED
    BY <2>2, <2>4 DEF s, a
<1>8. \A n \in 1..(len - 1) : part[n + 1].offset = part[n].offset + part[n].size
  <2> TAKE n \in 1..(len - 1)
  <2>1. n + 1 \in 2..len /\ n + 1 - 1 = n
    BY <1>2
  <2>2. part[n + 1] = Following(part[n], growth, max)
    BY <1>1, <2>1
  <2> QED
    BY <2>2 DEF Following
<1> DEFINE T == {n \in Nat : i + 1 + n <= len =>
                    part[i].offset + part[i].size <= part[i + 1 + n].offset}
<1>9. 0 \in T
  <2>1. i + 1 <= len => i \in 1..(len - 1)
    BY <1>2
  <2> QED
    BY <1>2, <1>7, <1>8, <2>1
<1>10. ASSUME NEW n \in Nat, n \in T PROVE n + 1 \in T
  <2> SUFFICES ASSUME i + 2 + n <= len
               PROVE  part[i].offset + part[i].size <= part[i + 2 + n].offset
    BY <1>2
  <2>1. i + 1 + n \in 1..(len - 1) /\ i + 1 + n + 1 = i + 2 + n /\ i + 1 + n \in 1..len
    BY <1>2
  <2>2. part[i + 2 + n].offset = part[i + 1 + n].offset + part[i + 1 + n].size
    BY <1>8, <2>1
  <2>3. part[i].offset + part[i].size <= part[i + 1 + n].offset
    BY <1>2, <1>10, <2>1
  <2> QED
    BY <1>7, <2>1, <2>2, <2>3
<1> HIDE DEF T
<1>11. ASSUME NEW j \in (i + 1)..len PROVE part[i].offset + part[i].size <= part[j].offset
  <2>1. j - (i + 1) \in T
    BY <1>9, <1>10, AllNumbers
  <2>2. i + 1 + (j - (i + 1)) = j /\ j <= len
    BY <1>2
  <2> QED
    BY <2>1, <2>2 DEF T
<1>12. \A j \in (i + 1)..len : j \in 1..len
  BY <1>2
<1> QED
  <2>1. i < len => i \in 1..(len - 1)
    BY <1>2
  <2> QED
    BY <1>3, <1>6, <1>7, <1>8, <1>11, <1>12, <2>1 DEF Right

(* The partitions cover what the head does not, once.                       *)
\* A response no longer than the block is all head.
LEMMA AllHead ==
  ASSUME NEW len \in Positive, NEW block \in Positive, NEW growth \in Positive, NEW ceiling \in Nat,
         len <= block,
         NEW part, IsWalk(part, len, len, block, growth, TheMax(block, ceiling)), NEW i \in 1..len
  PROVE  part[i].offset \in Nat /\ len <= part[i].offset
<1> DEFINE max == TheMax(block, ceiling)
<1>1. /\ part[1] = First(len, block)
      /\ \A n \in 2..len : part[n] = Following(part[n - 1], growth, max)
  BY DEF IsWalk, Positive
<1>2. max \in Nat /\ len \in Nat /\ block \in Nat /\ growth \in Nat
  BY DEF TheMax, Positive
<1> HIDE DEF max
<1> DEFINE Right(n) == part[n].offset \in Nat /\ part[n].size \in Nat /\ len <= part[n].offset
           S == {n \in Nat : n + 1 <= len => Right(n + 1)}
<1>3. Right(1)
  BY <1>1, <1>2 DEF First, Least
<1>4. 0 \in S
  BY <1>3
<1>5. ASSUME NEW n \in Nat, n \in S PROVE n + 1 \in S
  <2> SUFFICES ASSUME n + 2 <= len PROVE Right(n + 2)
    OBVIOUS
  <2> DEFINE p == part[n + 1]
             q == part[n + 2]
  <2>1. Right(n + 1)
    BY <1>2, <1>5
  <2>2. q = Following(p, growth, max)
    <3>1. n + 2 \in 2..len /\ n + 2 - 1 = n + 1
      BY <1>2
    <3> QED
      BY <1>1, <3>1
  <2>3. q.offset = p.offset + p.size /\ q.size \in {p.size, Least(p.size * growth, max)}
    BY <2>2 DEF Following
  <2>4. p.size * growth \in Nat
    BY <1>2, <2>1
  <2>5. q.size \in Nat
    BY <1>2, <2>1, <2>3, <2>4 DEF Least
  <2> QED
    BY <1>2, <2>1, <2>3, <2>5
<1> HIDE DEF S, Right
<1>6. i - 1 \in S
  BY <1>4, <1>5, AllNumbers
<1>7. Right(i)
  BY <1>2, <1>6 DEF S
<1> QED
  BY <1>7 DEF Right

LEMMA Schedule ==
  ASSUME NEW len \in Positive, NEW block \in Positive, NEW growth \in Positive, NEW ceiling \in Nat
  PROVE  LET parts == Partitions(len, block, growth, ceiling)
             head == Least(block, len)
         IN /\ \E n \in Nat : DOMAIN parts = 1..n
            /\ \A i \in DOMAIN parts :
                  /\ parts[i].offset \in Nat /\ parts[i].size \in Nat /\ parts[i].actual \in Nat
                  /\ block <= parts[i].size /\ parts[i].size <= parts[i].offset
                  /\ head <= parts[i].offset /\ parts[i].actual <= parts[i].size
                  /\ parts[i].offset + parts[i].actual <= len
            /\ \A k \in head..(len - 1) : \E i \in DOMAIN parts : Covers(parts[i], k)
            /\ \A i, j \in DOMAIN parts : \A k \in Nat :
                  Covers(parts[i], k) /\ Covers(parts[j], k) => i = j
<1> DEFINE parts == Partitions(len, block, growth, ceiling)
           head == Least(block, len)
           max == TheMax(block, ceiling)
<1>0. PICK part : /\ IsWalk(part, len, len, block, growth, max)
                  /\ parts = Scheduled(part, Counted(part, len), len)
  BY PartitionsAre DEF Positive
<1> DEFINE count == Counted(part, len)
<1>1. /\ IsWalk(part, len, len, block, growth, max)
      /\ count = Max({0} \cup {i \in 1..len : part[i].offset < len})
      /\ parts = [i \in 1..count |-> [offset |-> part[i].offset, size |-> part[i].size,
                                      actual |-> Least(len - part[i].offset, part[i].size)]]
  BY <1>0 DEF Scheduled, Counted
<1> HIDE DEF count
<1>2. len \in Nat /\ len > 0 /\ block \in Nat /\ block > 0 /\ head \in Nat
  BY DEF Positive, Least
<1> DEFINE some == {0} \cup {i \in 1..len : part[i].offset < len}
<1>3. count \in some /\ \A i \in some : i <= count
  <2>1. IsFiniteSet(0..len) /\ some \subseteq 0..len
    <3>1. IsFiniteSet(0..len)
      BY <1>2, FS_Interval
    <3> QED
      BY <1>2, <3>1
  <2>2. IsFiniteSet(some) /\ some \subseteq Nat /\ 0 \in some
    BY <1>2, <2>1, FS_Subset
  <2> HIDE DEF some
  <2>3. Max(some) \in some /\ \A i \in some : Max(some) >= i
    BY <2>2, HasGreatest
  <2> QED
    BY <1>1, <2>2, <2>3 DEF some
<1>4. count \in Nat /\ count <= len /\ DOMAIN parts = 1..count
  BY <1>1, <1>2, <1>3
<1> HIDE DEF parts, head, max
<1>5. CASE len <= block
  <2>1. \A i \in 1..len : ~ (part[i].offset < len)
    <3> TAKE i \in 1..len
    <3>1. part[i].offset \in Nat /\ len <= part[i].offset
      BY <1>1, <1>5, AllHead DEF max
    <3> QED
      BY <1>2, <3>1
  <2>2. count = 0
    BY <1>3, <2>1
  <2>3. head = len
    BY <1>2, <1>5 DEF head, Least
  <2>4. head..(len - 1) = {} /\ DOMAIN parts = {}
    BY <1>2, <1>4, <2>2, <2>3
  <2> QED
    BY <1>4, <2>4 DEF parts, head
<1>6. CASE block < len
  <2>1. head = block
    BY <1>2, <1>6 DEF head, Least
  <2>2. ASSUME NEW i \in 1..len
        PROVE  /\ part[i].offset \in Nat /\ part[i].size \in Nat
               /\ block <= part[i].size /\ part[i].size <= part[i].offset
               /\ part[1].offset = block /\ i <= part[i].offset
               /\ \A j \in (i + 1)..len : part[j].offset \in Nat
                                          /\ part[i].offset + part[i].size <= part[j].offset
               /\ i < len => part[i + 1].offset = part[i].offset + part[i].size
    BY <1>1, <1>6, Growing DEF max
  <2>3. ASSUME NEW i \in DOMAIN parts
        PROVE  /\ i \in 1..len /\ part[i].offset < len
               /\ parts[i].offset = part[i].offset /\ parts[i].size = part[i].size
               /\ parts[i].actual = Least(len - part[i].offset, part[i].size)
    <3>1. i \in 1..count /\ i \in 1..len
      BY <1>2, <1>4
    <3>2. part[i].offset < len
      <4>1. count \in 1..len /\ part[count].offset < len
        BY <1>3, <1>4, <3>1
      <4>2. CASE i = count
        BY <4>1, <4>2
      <4>3. CASE i # count
        <5>1. count \in (i + 1)..len
          BY <1>2, <1>4, <3>1, <4>3
        <5> QED
          BY <1>2, <2>2, <3>1, <4>1, <5>1
      <4> QED
        BY <4>2, <4>3
    <3> QED
      BY <1>1, <3>1, <3>2
  <2>4. ASSUME NEW i \in DOMAIN parts
        PROVE  /\ parts[i].offset \in Nat /\ parts[i].size \in Nat /\ parts[i].actual \in Nat
               /\ block <= parts[i].size /\ parts[i].size <= parts[i].offset
               /\ head <= parts[i].offset /\ parts[i].actual <= parts[i].size
               /\ parts[i].offset + parts[i].actual <= len
    <3>1. i \in 1..len
      BY <2>3
    <3>2. /\ parts[i].offset \in Nat /\ parts[i].size \in Nat
          /\ block <= parts[i].size /\ parts[i].size <= parts[i].offset /\ parts[i].offset < len
          /\ parts[i].actual = Least(len - parts[i].offset, parts[i].size)
      BY <2>2, <2>3, <3>1
    <3> QED
      BY <1>2, <2>1, <3>2 DEF Least
  <2>5. ASSUME NEW k \in head..(len - 1) PROVE \E i \in DOMAIN parts : Covers(parts[i], k)
    <3> DEFINE before == {i \in 1..len : part[i].offset <= k}
    <3>1. IsFiniteSet(before) /\ before \subseteq Nat
      <4>1. IsFiniteSet(1..len) /\ before \subseteq 1..len
        BY <1>2, FS_Interval
      <4> QED
        BY <1>2, <4>1, FS_Subset
    <3>2. 1 \in before /\ k \in Nat /\ k < len
      <4>1. 1 \in 1..len
        BY <1>2
      <4>2. part[1].offset = block
        BY <2>2, <4>1
      <4> QED
        BY <1>2, <2>1, <4>1, <4>2
    <3>3. PICK i \in before : \A j \in before : i >= j
      <4> HIDE DEF before
      <4> QED
        BY <3>1, <3>2, HasGreatest
    <3>4. i \in 1..len /\ part[i].offset <= k /\ i <= part[i].offset
      BY <2>2
    <3>5. i < len
      BY <1>2, <2>2, <3>2, <3>4
    <3>6. i + 1 \in 1..len /\ i + 1 \notin before
      BY <1>2, <3>3, <3>4, <3>5
    <3>7. k < part[i].offset + part[i].size
      BY <2>2, <3>2, <3>4, <3>5, <3>6
    <3>8. i \in DOMAIN parts
      <4>1. part[i].offset < len
        BY <1>2, <2>2, <3>2, <3>4
      <4>2. i \in some
        BY <3>4, <4>1
      <4> QED
        BY <1>3, <1>4, <3>4, <4>2
    <3>9. Covers(parts[i], k)
      BY <1>2, <2>2, <2>3, <3>2, <3>4, <3>7, <3>8 DEF Covers, Least
    <3> QED
      BY <3>8, <3>9
  <2>6. ASSUME NEW i \in DOMAIN parts, NEW j \in DOMAIN parts, NEW k \in Nat,
               Covers(parts[i], k), Covers(parts[j], k), i < j
        PROVE  FALSE
    <3>1. i \in 1..len /\ j \in (i + 1)..len
      <4>1. i \in 1..len /\ j \in 1..len
        BY <2>3
      <4> QED
        BY <1>2, <2>6, <4>1
    <3>2. part[i].offset + part[i].size <= part[j].offset
      BY <2>2, <3>1
    <3>3. parts[i].offset + parts[i].size <= parts[j].offset
      BY <2>3, <3>2
    <3> QED
      BY <2>4, <2>6, <3>3 DEF Covers
  <2>7. \A i, j \in DOMAIN parts : \A k \in Nat :
           Covers(parts[i], k) /\ Covers(parts[j], k) => i = j
    <3>1. \A i, j \in DOMAIN parts : i < j \/ j < i \/ i = j
      BY <1>2, <1>4
    <3> QED
      BY <2>6, <3>1
  <2>8. \E n \in Nat : DOMAIN parts = 1..n
    BY <1>4
  <2> QED
    BY <2>4, <2>5, <2>7, <2>8 DEF parts, head
<1> QED
  BY <1>2, <1>5, <1>6

(* The staggers.                                                            *)
\* Stagger, taken apart.
Nth(parts, i) == Cardinality({j \in Peers(parts, i) : j < i})
Level(parts, i) ==
  Cardinality({parts[j].size : j \in DOMAIN parts} \cap 0..(parts[i].size - 1))
Within(nth, count, phases) ==
  IF count <= phases THEN (nth * phases) \div count ELSE nth % phases
Phase(parts, i, block) ==
  LET phases == Phases(parts[i].size, block)
  IN (Within(Nth(parts, i), Cardinality(Peers(parts, i)), phases) + Level(parts, i)) % phases

LEMMA WithinPhases ==
  ASSUME NEW count \in Nat, NEW phases \in Nat, count > 0, phases > 0, NEW nth \in 0..(count - 1)
  PROVE  Within(nth, count, phases) \in 0..(phases - 1)
<1>1. CASE count <= phases
  <2> DEFINE q == (nth * phases) \div count
             r == (nth * phases) % count
  <2>0. nth * phases \in Nat /\ nth * phases <= count * phases - phases
    <3>1. PICK x \in Nat : count = nth + 1 + x
      <4>1. count - 1 - nth \in Nat /\ count = nth + 1 + (count - 1 - nth)
        OBVIOUS
      <4> QED
        BY <4>1
    <3>2. count * phases = nth * phases + phases + x * phases /\ x * phases \in Nat
      BY <3>1
    <3>3. nth * phases \in Nat
      OBVIOUS
    <3> QED
      BY <3>2, <3>3
  <2>1. nth * phases = count * q + r /\ q \in Int /\ r \in 0..(count - 1)
    BY <2>0, Division
  <2> HIDE DEF q, r
  <2>2. q <= -1 => count * q <= -count
    BY <2>1
  <2>3. q >= phases => count * q >= count * phases
    <3> SUFFICES ASSUME q >= phases PROVE count * q >= count * phases
      OBVIOUS
    <3>1. PICK x \in Nat : q = phases + x
      <4>1. q - phases \in Nat /\ q = phases + (q - phases)
        BY <2>1
      <4> QED
        BY <4>1
    <3>2. count * q = count * phases + count * x /\ count * x \in Nat /\ count * phases \in Nat
      BY <3>1
    <3> QED
      BY <3>2
  <2>4. q >= 0 /\ q < phases
    BY <2>0, <2>1, <2>2, <2>3
  <2> QED
    BY <1>1, <2>1, <2>4 DEF Within, q
<1>2. CASE ~ (count <= phases)
  BY <1>2, Division DEF Within
<1> QED
  BY <1>1, <1>2

\* With phases to spare no two members of a size share one ...
LEMMA SpareApart ==
  ASSUME NEW count \in Nat, NEW phases \in Nat, count > 0, count <= phases,
         NEW a \in Nat, NEW b \in Nat, a < b
  PROVE  Within(a, count, phases) # Within(b, count, phases)
<1> DEFINE p == (a * phases) \div count
           r == (a * phases) % count
           q == (b * phases) \div count
           s == (b * phases) % count
<1>1. a * phases \in Nat /\ b * phases \in Nat /\ b * phases >= a * phases + phases
  <2>1. PICK x \in Nat : b = a + 1 + x
    <3>1. b - a - 1 \in Nat /\ b = a + 1 + (b - a - 1)
      OBVIOUS
    <3> QED
      BY <3>1
  <2>2. b * phases = a * phases + phases + x * phases /\ x * phases \in Nat
    BY <2>1
  <2>3. a * phases \in Nat
    OBVIOUS
  <2> QED
    BY <2>2, <2>3
<1>2. /\ a * phases = count * p + r /\ p \in Int /\ r \in 0..(count - 1)
      /\ b * phases = count * q + s /\ q \in Int /\ s \in 0..(count - 1)
  BY <1>1, Division
<1> HIDE DEF p, q, r, s
<1>3. p # q
  BY <1>1, <1>2
<1> QED
  BY <1>3 DEF Within, p, q

\* ... and with none to spare they share them evenly.
LEMMA SharedEvenly ==
  ASSUME NEW count \in Nat, NEW phases \in Nat, phases > 0, NEW nth \in 0..(count - 1)
  PROVE  /\ nth \div phases \in 0..((count + phases - 1) \div phases - 1)
         /\ nth = phases * (nth \div phases) + (nth % phases)
<1> DEFINE q == nth \div phases
           r == nth % phases
           share == (count + phases - 1) \div phases
           s == (count + phases - 1) % phases
<1>1. /\ nth = phases * q + r /\ q \in Int /\ r \in 0..(phases - 1)
      /\ count + phases - 1 = phases * share + s /\ share \in Int /\ s \in 0..(phases - 1)
  <2>1. nth \in Int /\ count + phases - 1 \in Int
    OBVIOUS
  <2> QED
    BY <2>1, Division
<1> HIDE DEF q, r, share, s
<1>2. q <= -1 => phases * q <= -phases
  BY <1>1
<1>3. q - share + 1 >= 1 => phases * (q - share + 1) >= phases
  BY <1>1
<1>4. phases * (q - share + 1) = phases * q - phases * share + phases
  BY <1>1
<1>5. phases * q \in Int /\ phases * share \in Int
  BY <1>1
<1>6. q >= 0 /\ q <= share - 1
  BY <1>1, <1>2, <1>3, <1>4, <1>5
<1>7. q \in 0..(share - 1) /\ nth = phases * q + r
  BY <1>1, <1>6
<1> QED
  BY <1>7 DEF q, r, share

LEMMA NthIsOrder ==
  ASSUME NEW P, P \subseteq Nat, IsFiniteSet(P)
  PROVE  /\ \A i \in P : Cardinality({j \in P : j < i}) \in 0..(Cardinality(P) - 1)
         /\ \A i, j \in P : i < j =>
               Cardinality({l \in P : l < i}) < Cardinality({l \in P : l < j})
<1> DEFINE below(i) == {j \in P : j < i}
<1>1. \A i \in P : IsFiniteSet(below(i)) /\ Cardinality(below(i)) \in Nat
  BY FS_Subset, FS_CardinalityType
<1>2. ASSUME NEW S, NEW T, IsFiniteSet(T), S \subseteq T, NEW x \in T, x \notin S
      PROVE  Cardinality(S) < Cardinality(T)
  <2>1. IsFiniteSet(S) /\ Cardinality(S) <= Cardinality(T) /\ Cardinality(S) # Cardinality(T)
    BY <1>2, FS_Subset
  <2>2. Cardinality(S) \in Nat /\ Cardinality(T) \in Nat
    BY <1>2, <2>1, FS_CardinalityType
  <2> QED
    BY <2>1, <2>2
<1>3. ASSUME NEW i \in P PROVE Cardinality(below(i)) < Cardinality(P)
  <2>1. below(i) \subseteq P /\ i \notin below(i)
    OBVIOUS
  <2> QED
    BY <1>2, <2>1
<1>4. ASSUME NEW i \in P, NEW j \in P, i < j PROVE Cardinality(below(i)) < Cardinality(below(j))
  <2>1. below(i) \subseteq below(j) /\ i \in below(j) /\ i \notin below(i)
    <3>1. i \in Nat /\ j \in Nat /\ \A l \in P : l \in Nat
      OBVIOUS
    <3> QED
      <4>1. \A l \in P : l < i => l < j
        BY <1>4, <3>1
      <4>2. ~ (i < i)
        BY <3>1
      <4> QED
        BY <1>4, <4>1, <4>2
  <2> HIDE DEF below
  <2> QED
    BY <1>1, <1>2, <2>1
<1>5. Cardinality(P) \in Nat
  BY FS_CardinalityType
<1> QED
  BY <1>1, <1>3, <1>4, <1>5

LEMMA FiniteUpTo ==
  ASSUME NEW m \in Int
  PROVE  IsFiniteSet(0..m) /\ Cardinality(0..m) = IF 0 > m THEN 0 ELSE m + 1
<1>1. 0 \in Int
  OBVIOUS
<1> QED
  BY <1>1, FS_Interval

LEMMA StaggerPhase ==
  ASSUME NEW parts, NEW block \in Nat, block > 0, NEW n \in Nat, DOMAIN parts = 1..n,
         NEW i \in DOMAIN parts, parts[i].size \in Nat, block <= parts[i].size
  PROVE  /\ Stagger(parts, i, block) = Phase(parts, i, block) * block
         /\ Phase(parts, i, block) \in 0..(Phases(parts[i].size, block) - 1)
         /\ IsFiniteSet(Peers(parts, i)) /\ Peers(parts, i) \subseteq 1..n
         /\ Cardinality(Peers(parts, i)) \in Nat /\ Cardinality(Peers(parts, i)) > 0
         /\ Nth(parts, i) \in 0..(Cardinality(Peers(parts, i)) - 1)
         /\ Level(parts, i) \in Nat
         /\ Within(Nth(parts, i), Cardinality(Peers(parts, i)), Phases(parts[i].size, block))
               \in 0..(Phases(parts[i].size, block) - 1)
<1> DEFINE peers == Peers(parts, i)
           phases == Phases(parts[i].size, block)
<1>1. Stagger(parts, i, block) = Phase(parts, i, block) * block
  BY DEF Stagger, Phase, Within, Nth, Level
<1>2. IsFiniteSet(peers) /\ peers \subseteq 1..n /\ i \in peers
  <2>1. IsFiniteSet(1..n) /\ peers \subseteq 1..n /\ i \in peers
    BY FS_Interval DEF Peers
  <2> QED
    BY <2>1, FS_Subset
<1>3. Cardinality(peers) \in Nat /\ Cardinality(peers) > 0
  BY <1>2, FS_CardinalityType, FS_EmptySet
<1>4. Nth(parts, i) \in 0..(Cardinality(peers) - 1)
  <2>1. peers \subseteq Nat
    BY <1>2
  <2> HIDE DEF peers
  <2>2. Cardinality({j \in peers : j < i}) \in 0..(Cardinality(peers) - 1)
    BY <1>2, <2>1, NthIsOrder
  <2> QED
    BY <2>2 DEF Nth, peers
<1>5. Level(parts, i) \in Nat
  <2>1. IsFiniteSet(0..(parts[i].size - 1))
    <3>1. parts[i].size - 1 \in Int
      OBVIOUS
    <3> QED
      BY <3>1, FiniteUpTo
  <2>2. IsFiniteSet({parts[j].size : j \in DOMAIN parts} \cap 0..(parts[i].size - 1))
    BY <2>1, FS_Intersection
  <2> QED
    BY <2>2, FS_CardinalityType DEF Level
<1>6. phases \in Nat /\ phases > 0
  BY Phased
<1> DEFINE within == Within(Nth(parts, i), Cardinality(peers), phases)
<1>7. within \in 0..(phases - 1)
  BY <1>3, <1>4, <1>6, WithinPhases
<1>8. Phase(parts, i, block) \in 0..(phases - 1)
  <2>1. Phase(parts, i, block) = (within + Level(parts, i)) % phases
    BY DEF Phase
  <2>2. within + Level(parts, i) \in Int
    <3> HIDE DEF within
    <3> QED
      BY <1>5, <1>6, <1>7
  <2> HIDE DEF within, phases
  <2> QED
    BY <1>6, <2>1, <2>2, Division
<1> QED
  BY <1>1, <1>2, <1>3, <1>4, <1>5, <1>7, <1>8

\* Within one size no phase has more than its share of the members.
LEMMA PhaseShares ==
  ASSUME NEW parts, NEW block \in Nat, block > 0, NEW n \in Nat, DOMAIN parts = 1..n,
         \A j \in DOMAIN parts : parts[j].size \in Nat /\ block <= parts[j].size,
         NEW i \in DOMAIN parts
  PROVE  LET peers  == Peers(parts, i)
             phases == Phases(parts[i].size, block)
         IN Cardinality({j \in peers : Phase(parts, j, block) = Phase(parts, i, block)})
              <= (Cardinality(peers) + phases - 1) \div phases
<1> DEFINE peers == Peers(parts, i)
           phases == Phases(parts[i].size, block)
           count == Cardinality(peers)
           nth(j) == Cardinality({l \in peers : l < j})
           within(j) == Within(nth(j), count, phases)
           level == Level(parts, i)
           phase(j) == (within(j) + level) % phases
           same == {j \in peers : phase(j) = phase(i)}
           share == (count + phases - 1) \div phases
<1>1. ASSUME NEW j \in peers
      PROVE  /\ Phase(parts, j, block) = phase(j)
             /\ nth(j) \in 0..(count - 1) /\ within(j) \in 0..(phases - 1)
             /\ j \in 1..n
  <2>1. j \in DOMAIN parts /\ parts[j].size = parts[i].size
    BY DEF Peers
  <2>2. Peers(parts, j) = peers /\ Level(parts, j) = level
    BY <2>1 DEF Peers, Level
  <2>3. /\ Nth(parts, j) \in 0..(Cardinality(Peers(parts, j)) - 1)
        /\ Within(Nth(parts, j), Cardinality(Peers(parts, j)), Phases(parts[j].size, block))
               \in 0..(Phases(parts[j].size, block) - 1)
    BY <2>1, StaggerPhase
  <2>4. Nth(parts, j) = nth(j)
    BY <2>2 DEF Nth
  <2>5. Phase(parts, j, block) = phase(j)
    BY <2>1, <2>2, <2>4 DEF Phase
  <2> QED
    BY <2>1, <2>2, <2>3, <2>4, <2>5
<1>2. /\ IsFiniteSet(peers) /\ peers \subseteq 1..n /\ count \in Nat /\ count > 0
      /\ level \in Nat /\ phases \in Nat /\ phases > 0 /\ i \in peers
  <2>1. i \in peers
    BY DEF Peers
  <2> QED
    BY <2>1, StaggerPhase, Phased
<1>3. \A j, l \in peers : j < l => nth(j) < nth(l)
  <2>1. peers \subseteq Nat
    BY <1>2
  <2> HIDE DEF peers
  <2> QED
    BY <1>2, <2>1, NthIsOrder
<1> HIDE DEF peers, phases, count, nth, level
<1>4. ASSUME NEW j \in same, NEW l \in same, j # l PROVE within(j) = within(l) /\ nth(j) # nth(l)
  <2>1. /\ j \in peers /\ l \in peers /\ phase(j) = phase(l)
        /\ j \in Nat /\ l \in Nat
    BY <1>1
  <2> DEFINE a == within(j) + level
             b == within(l) + level
  <2>2. /\ within(j) \in 0..(phases - 1) /\ within(l) \in 0..(phases - 1)
        /\ a % phases = b % phases
    BY <1>1, <2>1
  <2> DEFINE x == within(j)
             y == within(l)
  <2>2a. x \in Int /\ y \in Int /\ 0 <= x /\ x < phases /\ 0 <= y /\ y < phases
    BY <1>2, <2>2
  <2> HIDE DEF x, y
  <2>2b. a = x + level /\ b = y + level
    BY DEF x, y
  <2> HIDE DEF within, a, b
  <2>3. a \in Int /\ b \in Int /\ a < b + phases /\ b < a + phases
    BY <1>2, <2>2a, <2>2b
  <2>4. a - level = within(j) /\ b - level = within(l)
    <3>1. a - level = x /\ b - level = y
      BY <1>2, <2>2a, <2>2b
    <3> QED
      BY <3>1 DEF x, y
  <2>5. ~ (a < b) /\ ~ (b < a)
    BY <1>2, <2>2, <2>3, Apart
  <2>6. a = b
    BY <2>3, <2>5
  <2>7. nth(j) \in Nat /\ nth(l) \in Nat
    BY <1>1, <2>1
  <2>8. j < l \/ l < j
    BY <1>4, <2>1
  <2> QED
    BY <1>3, <2>1, <2>4, <2>6, <2>7, <2>8
<1>5. ASSUME count <= phases PROVE Cardinality(same) <= share
  <2>1. same \subseteq {i}
    <3> SUFFICES ASSUME NEW j \in same, j # i PROVE FALSE
      OBVIOUS
    <3>1. i \in same /\ j \in peers
      BY <1>2
    <3>2. within(j) = within(i) /\ nth(j) # nth(i)
      BY <1>4, <3>1
    <3>3. nth(j) \in Nat /\ nth(i) \in Nat
      BY <1>1, <1>2, <3>1
    <3>4. nth(j) < nth(i) => within(j) # within(i)
      BY <1>2, <1>5, <3>3, SpareApart
    <3>5. nth(i) < nth(j) => within(j) # within(i)
      BY <1>2, <1>5, <3>3, SpareApart
    <3> QED
      BY <3>2, <3>3, <3>4, <3>5
  <2>2. Cardinality(same) <= 1 /\ Cardinality(same) \in Nat
    <3>1. IsFiniteSet({i}) /\ Cardinality({i}) = 1
      BY FS_Singleton
    <3> HIDE DEF same
    <3> QED
      BY <2>1, <3>1, FS_Subset, FS_CardinalityType
  <2>3. share \in Int /\ share >= 1
    <3> DEFINE s == (count + phases - 1) % phases
    <3>1. count + phases - 1 = phases * share + s /\ share \in Int /\ s \in 0..(phases - 1)
      <4>1. count + phases - 1 \in Int
        BY <1>2
      <4> QED
        BY <1>2, <4>1, Division
    <3> HIDE DEF share, s
    <3>2. share <= 0 => phases * share <= 0
      BY <1>2, <3>1
    <3> QED
      BY <1>2, <3>1, <3>2
  <2> HIDE DEF same, share
  <2> QED
    BY <2>2, <2>3
<1>6. ASSUME ~ (count <= phases) PROVE Cardinality(same) <= share
  <2> DEFINE turn == [j \in same |-> nth(j) \div phases]
  <2>1. ASSUME NEW j \in same
        PROVE  /\ turn[j] \in 0..(share - 1) /\ within(j) = nth(j) % phases
               /\ nth(j) = phases * turn[j] + within(j)
    <3>1. nth(j) \in 0..(count - 1)
      BY <1>1
    <3>2. within(j) = nth(j) % phases
      BY <1>6 DEF Within
    <3> QED
      BY <1>2, <3>1, <3>2, SharedEvenly
  <2>2. \A j, l \in same : turn[j] = turn[l] => j = l
    <3> SUFFICES ASSUME NEW j \in same, NEW l \in same, turn[j] = turn[l], j # l PROVE FALSE
      OBVIOUS
    <3>1. within(j) = within(l) /\ nth(j) # nth(l)
      BY <1>4
    <3> HIDE DEF turn, same, within
    <3> QED
      BY <2>1, <3>1
  <2>3. turn \in Injection(same, 0..(share - 1))
    <3>1. turn \in [same -> 0..(share - 1)]
      BY <2>1
    <3> HIDE DEF turn
    <3> QED
      BY <2>2, <3>1 DEF Injection, IsInjective
  <2>4. share \in Int
    <3>1. count + phases - 1 \in Int
      BY <1>2
    <3> QED
      BY <1>2, <3>1, Division
  <2>5. IsFiniteSet(0..(share - 1)) /\ Cardinality(0..(share - 1)) = IF 0 > share - 1 THEN 0 ELSE share
    <3> HIDE DEF share
    <3>1. share - 1 \in Int /\ share - 1 + 1 = share
      BY <2>4
    <3> QED
      BY <3>1, FiniteUpTo
  <2>6. i \in same
    BY <1>2
  <2>7. 0 <= share - 1
    <3>1. turn[i] \in 0..(share - 1)
      BY <2>1, <2>6
    <3> HIDE DEF turn, share
    <3> QED
      BY <2>4, <3>1
  <2> HIDE DEF share, same, turn
  <2> QED
    BY <2>3, <2>4, <2>5, <2>7, FS_Injection
<1>7. {j \in peers : Phase(parts, j, block) = Phase(parts, i, block)} = same
  BY <1>1, <1>2
<1>8. Cardinality(same) <= share
  BY <1>5, <1>6
<1> HIDE DEF same, share
<1> QED
  BY <1>7, <1>8 DEF share, peers, phases, count

(* The channel, the first state and every step.                             *)
\* What new makes of a channel.
LEMMA Prepared ==
  ASSUME NEW len \in Positive, NEW block \in Positive, NEW growth \in Positive, NEW ceiling \in Nat
  PROVE  ChannelOK(Prepare(len, block, growth, ceiling))
         /\ StaggersSpread(Prepare(len, block, growth, ceiling))
<1> DEFINE c == Prepare(len, block, growth, ceiling)
           parts == Partitions(len, block, growth, ceiling)
           head == Least(block, len)
           reach == {parts[i].offset + 2 * parts[i].size : i \in DOMAIN parts}
           all == {len + 2 * block, head} \cup reach
<1>1. /\ c.len = len /\ c.block = block /\ c.head = head /\ c.ring = NextPowerOfTwo(Max(all))
      /\ DOMAIN c.stages = DOMAIN parts
      /\ \A i \in DOMAIN parts :
            /\ c.stages[i].offset = parts[i].offset /\ c.stages[i].size = parts[i].size
            /\ c.stages[i].actual = parts[i].actual
            /\ c.stages[i].stagger = Stagger(parts, i, block)
  BY DEF Prepare
<1>2. /\ len \in Nat /\ len > 0 /\ block \in Nat /\ block > 0
      /\ head \in Nat /\ 0 < head /\ head <= len /\ head <= block
  BY DEF Positive, Least
<1>3. /\ \E n \in Nat : DOMAIN parts = 1..n
      /\ \A i \in DOMAIN parts :
            /\ parts[i].offset \in Nat /\ parts[i].size \in Nat /\ parts[i].actual \in Nat
            /\ block <= parts[i].size /\ parts[i].size <= parts[i].offset
            /\ head <= parts[i].offset /\ parts[i].actual <= parts[i].size
            /\ parts[i].offset + parts[i].actual <= len
      /\ \A k \in head..(len - 1) : \E i \in DOMAIN parts : Covers(parts[i], k)
      /\ \A i, j \in DOMAIN parts : \A k \in Nat :
            Covers(parts[i], k) /\ Covers(parts[j], k) => i = j
  BY Schedule
<1> HIDE DEF c, parts, head
<1>4. PICK n \in Nat : DOMAIN parts = 1..n
  BY <1>3
<1>5. c.ring \in Nat /\ len <= c.ring /\ \A i \in DOMAIN parts : parts[i].offset + 2 * parts[i].size <= c.ring
  <2> DEFINE far == [i \in 1..n |-> parts[i].offset + 2 * parts[i].size]
  <2>1. IsFiniteSet(1..n)
    BY FS_Interval
  <2>2. IsFiniteSet({far[i] : i \in 1..n})
    BY <2>1, FiniteImage
  <2>3. reach = {far[i] : i \in 1..n}
    BY <1>4
  <2>4. reach \subseteq Nat /\ IsFiniteSet(reach)
    <3>1. reach \subseteq Nat
      BY <1>3
    <3> HIDE DEF reach, far
    <3> QED
      BY <2>2, <2>3, <3>1
  <2> HIDE DEF reach, far
  <2>5. IsFiniteSet({len + 2 * block, head})
    <3>1. IsFiniteSet({head}) /\ {len + 2 * block, head} = {head} \cup {len + 2 * block}
      BY FS_Singleton
    <3> QED
      BY <3>1, FS_AddElement
  <2>6. IsFiniteSet(all) /\ all \subseteq Nat /\ len + 2 * block \in all /\ reach \subseteq all
    <3>1. IsFiniteSet(all)
      BY <2>4, <2>5, FS_Union
    <3> QED
      BY <1>2, <2>4, <3>1
  <2> HIDE DEF all
  <2>7. Max(all) \in Nat /\ \A y \in all : y <= Max(all)
    BY <2>6, HasGreatest
  <2>8. c.ring \in Nat /\ c.ring >= Max(all)
    BY <1>1, <2>7, PowerReaches
  <2>9. \A y \in all : y <= c.ring
    BY <2>6, <2>7, <2>8
  <2>10. \A i \in DOMAIN parts : parts[i].offset + 2 * parts[i].size \in all
    BY <2>6 DEF reach
  <2>11. len + 2 * block <= c.ring
    BY <2>6, <2>9
  <2> QED
    BY <1>2, <2>8, <2>9, <2>10, <2>11
<1>6. ASSUME NEW i \in DOMAIN parts
      PROVE  /\ c.stages[i].stagger = Phase(parts, i, block) * block
             /\ Phase(parts, i, block) \in 0..(Phases(parts[i].size, block) - 1)
             /\ Phases(parts[i].size, block) \in Nat
             /\ Phases(parts[i].size, block) * block <= parts[i].size
  <2>1. /\ Stagger(parts, i, block) = Phase(parts, i, block) * block
        /\ Phase(parts, i, block) \in 0..(Phases(parts[i].size, block) - 1)
    BY <1>2, <1>3, <1>4, StaggerPhase
  <2>2. Phases(parts[i].size, block) \in Nat
    BY <1>2, <1>3, Phased
  <2>3. Phases(parts[i].size, block) * block <= parts[i].size
    <3> DEFINE p == Phases(parts[i].size, block)
               rest == parts[i].size % block
    <3>1. parts[i].size = block * p + rest /\ rest \in 0..(block - 1) /\ p \in Int
      <4>1. parts[i].size \in Int
        BY <1>3
      <4> QED
        BY <1>2, <4>1, Division DEF Phases
    <3> HIDE DEF p, rest
    <3>2. block * p = p * block /\ block * p \in Int
      BY <1>2, <3>1
    <3>3. p * block <= parts[i].size
      BY <1>2, <1>3, <3>1, <3>2
    <3> QED
      BY <3>3 DEF p
  <2> QED
    BY <1>1, <2>1, <2>2, <2>3
<1>7. ASSUME NEW i \in DOMAIN parts
      PROVE  c.stages[i].stagger \in Nat /\ c.stages[i].stagger < parts[i].size
  <2> DEFINE phase == Phase(parts, i, block)
             phases == Phases(parts[i].size, block)
             size == parts[i].size
             x == phases - 1 - phase
  <2>1. /\ phase \in Nat /\ phases \in Nat /\ phase <= phases - 1 /\ phases * block <= size
        /\ size \in Nat
    BY <1>3, <1>6
  <2>2. c.stages[i].stagger = phase * block
    BY <1>6
  <2> HIDE DEF phase, phases, size
  <2>3. x \in Nat /\ phases = phase + 1 + x
    BY <2>1
  <2> HIDE DEF x
  <2>4. phases * block = phase * block + block + x * block /\ x * block \in Nat
        /\ phase * block \in Nat
    BY <1>2, <2>1, <2>3
  <2>5. phase * block < size
    BY <1>2, <2>1, <2>4
  <2> QED
    BY <2>2, <2>4, <2>5 DEF size
<1>8. \A i \in DOMAIN c.stages : StageOK(c, i)
  BY <1>1, <1>3, <1>5, <1>7 DEF StageOK
<1>9. Partitioned(c)
  <2>1. \A i \in DOMAIN parts : \A k : Covers(c.stages[i], k) <=> Covers(parts[i], k)
    BY <1>1 DEF Covers
  <2> QED
    BY <1>1, <1>3, <2>1 DEF Partitioned
<1>10. ChannelOK(c)
  BY <1>1, <1>2, <1>3, <1>5, <1>8, <1>9 DEF ChannelOK
<1>11. \A i \in DOMAIN parts : Peers(c.stages, i) = Peers(parts, i)
  BY <1>1 DEF Peers
<1>12. ASSUME NEW i \in DOMAIN parts, NEW j \in Peers(parts, i)
       PROVE  /\ c.stages[j].stagger = c.stages[i].stagger
                   => Phase(parts, j, block) = Phase(parts, i, block)
              /\ LET d == c.stages[i].stagger - c.stages[j].stagger IN
                    \/ d = 0
                    \/ block <= d /\ d <= parts[i].size - block
                    \/ d <= -block /\ block - parts[i].size <= d
  <2> DEFINE a == Phase(parts, i, block)
             b == Phase(parts, j, block)
             phases == Phases(parts[i].size, block)
             size == parts[i].size
  <2>1. j \in DOMAIN parts /\ parts[j].size = parts[i].size
    BY DEF Peers
  <2>2. /\ a \in Nat /\ b \in Nat /\ phases \in Nat /\ a <= phases - 1 /\ b <= phases - 1
        /\ phases * block <= size /\ size \in Nat
        /\ c.stages[i].stagger = a * block /\ c.stages[j].stagger = b * block
    BY <1>3, <1>6, <2>1
  <2> HIDE DEF a, b, phases, size
  <2> DEFINE d == a * block - b * block
             spare == size - phases * block
  <2>3. /\ a > b => block <= d /\ d <= size - block
    <3> SUFFICES ASSUME a > b PROVE block <= d /\ d <= size - block
      OBVIOUS
    <3> DEFINE x == a - b - 1
               y == phases - 1 - (a - b)
    <3>1. x \in Nat /\ y \in Nat /\ a = b + 1 + x /\ phases = a - b + 1 + y
      BY <2>2
    <3> HIDE DEF x, y
    <3>2. a * block = b * block + block + x * block /\ x * block \in Nat /\ b * block \in Nat
      BY <1>2, <2>2, <3>1
    <3>3. phases * block = a * block - b * block + block + y * block /\ y * block \in Nat
          /\ a * block \in Nat
      BY <1>2, <2>2, <3>1
    <3> QED
      BY <1>2, <2>2, <3>2, <3>3
  <2>4. /\ b > a => d <= -block /\ block - size <= d
    <3> SUFFICES ASSUME b > a PROVE d <= -block /\ block - size <= d
      OBVIOUS
    <3> DEFINE x == b - a - 1
               y == phases - 1 - (b - a)
    <3>1. x \in Nat /\ y \in Nat /\ b = a + 1 + x /\ phases = b - a + 1 + y
      BY <2>2
    <3> HIDE DEF x, y
    <3>2. b * block = a * block + block + x * block /\ x * block \in Nat /\ a * block \in Nat
      BY <1>2, <2>2, <3>1
    <3>3. phases * block = b * block - a * block + block + y * block /\ y * block \in Nat
          /\ b * block \in Nat
      BY <1>2, <2>2, <3>1
    <3> QED
      BY <1>2, <2>2, <3>2, <3>3
  <2>5. a = b => d = 0
    BY <1>2, <2>2
  <2>6. a = b \/ a > b \/ b > a
    BY <2>2
  <2>7. d = 0 => a = b
    BY <1>2, <2>2, <2>3, <2>4, <2>6
  <2>8. c.stages[i].stagger - c.stages[j].stagger = d
    BY <2>2
  <2>9. c.stages[j].stagger = c.stages[i].stagger => d = 0
    BY <1>2, <2>2
  <2> HIDE DEF d
  <2> QED
    BY <2>3, <2>4, <2>5, <2>6, <2>7, <2>8, <2>9 DEF a, b, size
<1>13. ASSUME NEW i \in DOMAIN c.stages
       PROVE  LET phases == Phases(c.stages[i].size, c.block)
                  peers == Peers(c.stages, i)
              IN /\ Cardinality({j \in peers : c.stages[j].stagger = c.stages[i].stagger})
                       <= (Cardinality(peers) + phases - 1) \div phases
                 /\ \A j \in peers :
                      LET d == c.stages[i].stagger - c.stages[j].stagger IN
                      \/ d = 0
                      \/ c.block <= d /\ d <= c.stages[i].size - c.block
                      \/ d <= -c.block /\ c.block - c.stages[i].size <= d
  <2>1. i \in DOMAIN parts /\ c.stages[i].size = parts[i].size /\ c.block = block
    BY <1>1
  <2> DEFINE peers == Peers(parts, i)
             phases == Phases(parts[i].size, block)
             same == {j \in peers : c.stages[j].stagger = c.stages[i].stagger}
             share == (Cardinality(peers) + phases - 1) \div phases
             level == {j \in peers : Phase(parts, j, block) = Phase(parts, i, block)}
  <2>2. Cardinality(level) <= share
    BY <1>2, <1>3, <1>4, <2>1, PhaseShares
  <2>3. same \subseteq level
    BY <1>12, <2>1
  <2>4. IsFiniteSet(peers) /\ Cardinality(peers) \in Nat
    BY <1>2, <1>3, <1>4, <2>1, StaggerPhase
  <2>5. phases \in Nat /\ phases > 0
    BY <1>2, <1>3, <2>1, Phased
  <2>6. IsFiniteSet(level)
    BY <2>4, FS_Subset
  <2>7. share \in Int
    <3> HIDE DEF peers, phases
    <3>1. Cardinality(peers) + phases - 1 \in Int
      BY <2>4, <2>5
    <3> QED
      BY <2>5, <3>1, Division
  <2> HIDE DEF same, level, share
  <2>8. Cardinality(same) <= share
    <3>1. Cardinality(same) <= Cardinality(level) /\ IsFiniteSet(same)
      BY <2>3, <2>6, FS_Subset
    <3>2. Cardinality(same) \in Nat /\ Cardinality(level) \in Nat
      BY <2>6, <3>1, FS_CardinalityType
    <3> QED
      BY <2>2, <2>7, <3>1, <3>2
  <2>9. Peers(c.stages, i) = peers
    BY <1>11, <2>1
  <2>10. Cardinality({j \in Peers(c.stages, i) : c.stages[j].stagger = c.stages[i].stagger})
           <= (Cardinality(Peers(c.stages, i)) + Phases(c.stages[i].size, c.block) - 1)
                \div Phases(c.stages[i].size, c.block)
    BY <2>1, <2>8, <2>9 DEF same, share
  <2> QED
    BY <1>12, <2>1, <2>9, <2>10
<1>14. StaggersSpread(c)
  BY <1>13 DEF StaggersSpread
<1> QED
  BY <1>10, <1>14 DEF c

LEMMA Begins ==
  ASSUME Init
  PROVE  ConvolverInv /\ OutputIsConvolution
<1>1. ChannelOK(ir) /\ StaggersSpread(ir)
  <2>1. PICK len \in Lengths, block \in Blocks, growth \in Growths, ceiling \in Ceilings :
           ir = Prepare(len, block, growth, ceiling)
    BY DEF Init
  <2>2. /\ len \in Positive /\ block \in Positive /\ growth \in Positive /\ ceiling \in Nat
    BY ConvolverAssumption DEF ConvolverAssumption, Positive
  <2> QED
    BY <2>1, <2>2, Prepared
<1>2. /\ time = 0 /\ unplayed = 0 /\ out = <<>> /\ fired = {}
      /\ history = Silent(ir.head - 1) /\ fault \in Spoils \cup {Silence}
      /\ windows = [i \in Stages |-> Silent(ir.stages[i].stagger)]
      /\ ring = [p \in 0..(ir.ring - 1) |-> EmptyBag]
  BY DEF Init, Stages
<1>3. CountersOK
  BY <1>2, ConvolverAssumption DEF CountersOK, ConvolverAssumption
<1>4. ASSUME NEW n \in Nat
      PROVE  Silent(n) \in Seq(Samples) /\ Len(Silent(n)) = n /\ \A j \in 1..n : Silent(n)[j] = Silence
  BY DEF Silent, Samples
<1>5. \A i \in Stages : /\ ir.stages[i].stagger \in Nat /\ ir.stages[i].size \in Nat
                        /\ ir.stages[i].stagger < ir.stages[i].size
  BY <1>1, StageTyped
<1>6. WindowsOK
  <2>1. ASSUME NEW i \in Stages
        PROVE  /\ windows[i] \in Seq(Samples) /\ Len(windows[i]) = ir.stages[i].stagger
               /\ Len(windows[i]) < ir.stages[i].size
               /\ \A j \in 1..Len(windows[i]) : windows[i][j] = Heard(time - Len(windows[i]) + j - 1)
    <3> DEFINE n == ir.stages[i].stagger
    <3>1. n \in Nat /\ windows[i] = Silent(n)
      BY <1>2, <1>5
    <3>2. n < ir.stages[i].size
      BY <1>5
    <3> HIDE DEF n
    <3>3. \A j \in 1..n : 0 - n + j - 1 < 0
      BY <3>1
    <3>4. \A j \in 1..n : Heard(0 - n + j - 1) = Silence
      BY <3>3 DEF Heard
    <3>5. windows[i] \in Seq(Samples) /\ Len(windows[i]) = n /\ \A j \in 1..n : windows[i][j] = Silence
      BY <1>4, <3>1
    <3> QED
      BY <1>2, <3>2, <3>4, <3>5 DEF n
  <2>2. windows \in [Stages -> Seq(Samples)]
    BY <1>2, <2>1
  <2> QED
    BY <2>1, <2>2 DEF WindowsOK
<1>7. HistoryOK
  <2> DEFINE n == ir.head - 1
  <2>1. n \in Nat /\ ir.head = n + 1 /\ history = Silent(n)
    BY <1>1, <1>2 DEF ChannelOK
  <2> HIDE DEF n
  <2>2. \A j \in 1..n : 0 + 0 - (n + 1) + j < 0
    BY <2>1
  <2>3. \A j \in 1..n : Heard(0 + 0 - (n + 1) + j) = Silence
    BY <2>2 DEF Heard
  <2>4. history \in Seq(Samples) /\ Len(history) = n /\ \A j \in 1..n : history[j] = Silence
    BY <1>4, <2>1
  <2>5. \A j \in 1..n : history[j] = Heard(0 + 0 - (n + 1) + j)
    BY <2>3, <2>4
  <2> QED
    BY <1>2, <2>1, <2>4, <2>5 DEF HistoryOK, n
<1>8. RingOK
  <2>0. ir.ring \in Nat /\ ir.ring > 0 /\ ir.head \in Nat /\ ir.head > 0 /\ ir.len \in Nat
    BY <1>1 DEF ChannelOK
  <2>1. \A at \in Nat : Expected(at) = {}
    <3> SUFFICES ASSUME NEW at \in Nat, NEW k \in ir.head..(ir.len - 1), k <= at, NEW i \in Stages,
                        at - k < time - Len(windows[i])
                 PROVE  FALSE
      BY DEF Expected
    <3>1. Len(windows[i]) \in Nat
      BY <1>6, WindowTyped
    <3> QED
      BY <1>2, <2>0, <3>1
  <2>2. \A at \in time..(time + ir.ring - 1) : at \in Nat /\ ring[at % ir.ring] = EmptyBag
    <3> TAKE at \in time..(time + ir.ring - 1)
    <3>1. at \in Nat
      BY <1>2, <2>0
    <3>2. at % ir.ring \in 0..(ir.ring - 1)
      BY <2>0, <3>1, Division
    <3> QED
      BY <1>2, <3>1, <3>2
  <2>3. EmptyBag = SetToBag({}) /\ DOMAIN EmptyBag = {}
    BY BagOfSet DEF EmptyBag
  <2>4. DOMAIN ring = 0..(ir.ring - 1)
    BY <1>2
  <2> QED
    BY <2>1, <2>2, <2>3, <2>4 DEF RingOK
<1>9. OutOK
  <2>1. out = <<>> /\ Len(out) = 0 /\ DOMAIN out = {} /\ out \in Seq({out[i] : i \in DOMAIN out})
    BY <1>2
  <2>2. ir.block \in Nat
    BY <1>1 DEF ChannelOK
  <2> QED
    BY <1>2, <2>1, <2>2 DEF OutOK
<1>10. LoadOK
  <2>1. ASSUME NEW i \in Stages, NEW j \in Peers(ir.stages, i)
        PROVE  Len(windows[i]) - Len(windows[j]) = ir.stages[i].stagger - ir.stages[j].stagger
    <3>1. j \in Stages
      BY DEF Peers, Stages
    <3> QED
      BY <1>2, <1>4, <1>5, <3>1
  <2> QED
    BY <1>2, <2>1 DEF LoadOK
<1>11. OutputIsConvolution
  <2>1. 1..(Len(out) - unplayed) = {}
    BY <1>2
  <2> QED
    BY <2>1 DEF OutputIsConvolution
<1> QED
  BY <1>1, <1>3, <1>6, <1>7, <1>8, <1>9, <1>10, <1>11 DEF ConvolverInv

LEMMA Continues ==
  ASSUME ConvolverInv, OutputIsConvolution, [Next]_vars
  PROVE  ConvolverInv' /\ OutputIsConvolution'
<1> USE DEF ConvolverInv
<1>1. CASE Sample
  <2>1. ir' = ir
    BY <1>1, SampleShape
  <2>2. ChannelOK(ir)' /\ StaggersSpread(ir)'
    BY <2>1
  <2> QED
    BY <1>1, <2>2, SamplePlays, SampleWindows, SampleRing, SampleHistory, SampleLoad
<1>2. ASSUME NEW n \in 1..ir.block, Begin(n) PROVE ConvolverInv' /\ OutputIsConvolution'
  <2>1. ir' = ir
    BY <1>2 DEF Begin
  <2>2. ChannelOK(ir)' /\ StaggersSpread(ir)'
    BY <2>1
  <2> QED
    BY <1>2, <2>2, BeginPreserves, BeginLoad
<1>3. CASE UNCHANGED vars
  <2>1. /\ ir' = ir /\ fault' = fault /\ time' = time /\ unplayed' = unplayed
        /\ history' = history /\ windows' = windows /\ ring' = ring /\ out' = out /\ fired' = fired
    BY <1>3 DEF vars
  <2>2. ChannelOK(ir)' /\ StaggersSpread(ir)' /\ CountersOK'
    BY <2>1 DEF CountersOK
  <2>3. WindowsOK'
    BY <2>1 DEF WindowsOK, Stages, Samples, Heard
  <2>4. HistoryOK'
    BY <2>1 DEF HistoryOK, Samples, Heard
  <2>5. RingOK'
    <3>1. /\ \A at : Spoilt(at)' = Spoilt(at)
          /\ \A at : Expected(at)' = Expected(at)
      BY <2>1 DEF Expected, Spoilt, Largest, Stages, Covers
    <3> QED
      BY <2>1, <3>1 DEF RingOK
  <2>6. OutOK' /\ LoadOK'
    <3>1. \A u : HeadProducts(u)' = HeadProducts(u)
      BY <2>1 DEF HeadProducts
    <3>2. OutOK'
      BY <2>1, <3>1 DEF OutOK
    <3> QED
      BY <2>1, <3>2 DEF LoadOK, Stages, Peers
  <2>7. OutputIsConvolution'
    <3>1. \A u : Spoilt(u)' = Spoilt(u) /\ Direct(u)' = Direct(u)
      BY <2>1 DEF Spoilt, Largest, Direct
    <3> QED
      BY <2>1, <3>1 DEF OutputIsConvolution
  <2> QED
    BY <2>2, <2>3, <2>4, <2>5, <2>6, <2>7
<1> QED
  BY <1>1, <1>2, <1>3 DEF Next

\* Whatever the response, the schedule, the block and the lengths of the calls,
\* the output is the convolution: every product at its time and once.
THEOREM OutputStaysConvolution == Spec => []OutputIsConvolution
<1>1. Init => ConvolverInv /\ OutputIsConvolution
  BY Begins
<1>2. ConvolverInv /\ OutputIsConvolution /\ [Next]_vars => ConvolverInv' /\ OutputIsConvolution'
  BY Continues
<1> QED
  BY <1>1, <1>2, PTL DEF Spec

\* However the calls cut the input, none of them transforms more members of a
\* size than its share: the members over the phases.
THEOREM LoadStaysSpread == Spec => []LoadIsSpread
<1>1. Init => ConvolverInv /\ OutputIsConvolution
  BY Begins
<1>2. ConvolverInv /\ OutputIsConvolution /\ [Next]_vars => ConvolverInv' /\ OutputIsConvolution'
  BY Continues
<1>3. ConvolverInv => LoadIsSpread
  BY LoadSpreads DEF ConvolverInv
<1> QED
  BY <1>1, <1>2, <1>3, PTL DEF Spec

------------------------------------------------------------------------------
(* The model run block by block. First that the recursive functions of the    *)
(* model exist: a proof may use the definition of one only then.              *)

IsTotals(g, n, f) ==
  g = [i \in 0..n |-> IF i = 0 THEN 0
                      ELSE g[i - 1] + f[i]]

LEMMA TotalsWalk ==
  ASSUME NEW f, NEW n \in Nat
  PROVE  \E g : IsTotals(g, n, f)
<1> DEFINE step(g, i) == IF i = 0 THEN 0
                         ELSE g[i - 1] + f[i]
           S == {m \in Nat : \E g : g = [i \in 0..m |-> step(g, i)]}
<1>1. \A g, h, i : (i # 0 => g[i - 1] = h[i - 1]) => step(g, i) = step(h, i)
  BY DEF step
<1>2. \A g : IsTotals(g, n, f) <=> g = [i \in 0..n |-> step(g, i)]
  BY DEF step, IsTotals
<1> HIDE DEF step
<1>3. 0 \in S
  <2> DEFINE one == [i \in 0..0 |-> step(0, 0)]
  <2>1. one = [i \in 0..0 |-> step(one, i)]
    BY <1>1
  <2> QED
    BY <2>1
<1>4. ASSUME NEW m \in Nat, m \in S PROVE m + 1 \in S
  <2>1. PICK g : g = [i \in 0..m |-> step(g, i)]
    BY <1>4
  <2> DEFINE more == [i \in 0..(m + 1) |-> IF i \in 0..m THEN g[i] ELSE step(g, i)]
  <2>2. ASSUME NEW i \in 0..(m + 1) PROVE step(more, i) = step(g, i)
    <3>1. i # 0 => i - 1 \in 0..m /\ i - 1 \in 0..(m + 1)
      OBVIOUS
    <3> QED
      BY <1>1, <3>1
  <2>3. ASSUME NEW i \in 0..(m + 1) PROVE more[i] = step(more, i)
    BY <2>1, <2>2
  <2>4. more = [i \in 0..(m + 1) |-> step(more, i)]
    BY <2>3
  <2> HIDE DEF more
  <2> QED
    BY <2>4
<1>5. n \in S
  BY <1>3, <1>4, AllNumbers
<1> QED
  BY <1>2, <1>5

LEMMA TotalsAre ==
  ASSUME NEW f, NEW n \in Nat
  PROVE  LET after == Totals(f, n) IN
         /\ after[0] = 0
         /\ \A i \in 1..n :
               after[i] = after[i - 1] + f[i]
<1> DEFINE after[i \in 0..n] ==
             IF i = 0 THEN 0
             ELSE after[i - 1] + f[i]
<1>1. Totals(f, n) = after
  BY DEF Totals
<1>2. \E g : IsTotals(g, n, f)
  BY TotalsWalk
<1>3. IsTotals(after, n, f)
  BY <1>2 DEF IsTotals
<1> HIDE DEF after
<1>4. \A i \in 1..n : i # 0 /\ i \in 0..n
  OBVIOUS
<1>5. after = [i \in 0..n |-> IF i = 0 THEN 0
                  ELSE after[i - 1] + f[i]]
  BY <1>3 DEF IsTotals
<1>6. after[0] = 0
  BY <1>5
<1>7. ASSUME NEW i \in 1..n
      PROVE  after[i] = after[i - 1] + f[i]
  BY <1>4, <1>5
<1> QED
  BY <1>1, <1>6, <1>7

IsLayers(g, n, s, a, both) ==
  g = [i \in 0..n |-> IF i = 0 THEN [trunk |-> Scaled(a, Rechannel, both.trunk), sum |-> both.sum]
                      ELSE WholeLayer(a, i, s[a].layers[i], g[i - 1])]

LEMMA LayersWalk ==
  ASSUME NEW s, NEW a, NEW both, NEW n \in Nat
  PROVE  \E g : IsLayers(g, n, s, a, both)
<1> DEFINE step(g, i) == IF i = 0 THEN [trunk |-> Scaled(a, Rechannel, both.trunk), sum |-> both.sum]
                         ELSE WholeLayer(a, i, s[a].layers[i], g[i - 1])
           S == {m \in Nat : \E g : g = [i \in 0..m |-> step(g, i)]}
<1>1. \A g, h, i : (i # 0 => g[i - 1] = h[i - 1]) => step(g, i) = step(h, i)
  BY DEF step
<1>2. \A g : IsLayers(g, n, s, a, both) <=> g = [i \in 0..n |-> step(g, i)]
  BY DEF step, IsLayers
<1> HIDE DEF step
<1>3. 0 \in S
  <2> DEFINE one == [i \in 0..0 |-> step(0, 0)]
  <2>1. one = [i \in 0..0 |-> step(one, i)]
    BY <1>1
  <2> QED
    BY <2>1
<1>4. ASSUME NEW m \in Nat, m \in S PROVE m + 1 \in S
  <2>1. PICK g : g = [i \in 0..m |-> step(g, i)]
    BY <1>4
  <2> DEFINE more == [i \in 0..(m + 1) |-> IF i \in 0..m THEN g[i] ELSE step(g, i)]
  <2>2. ASSUME NEW i \in 0..(m + 1) PROVE step(more, i) = step(g, i)
    <3>1. i # 0 => i - 1 \in 0..m /\ i - 1 \in 0..(m + 1)
      OBVIOUS
    <3> QED
      BY <1>1, <3>1
  <2>3. ASSUME NEW i \in 0..(m + 1) PROVE more[i] = step(more, i)
    BY <2>1, <2>2
  <2>4. more = [i \in 0..(m + 1) |-> step(more, i)]
    BY <2>3
  <2> HIDE DEF more
  <2> QED
    BY <2>4
<1>5. n \in S
  BY <1>3, <1>4, AllNumbers
<1> QED
  BY <1>2, <1>5

LEMMA LayersAre ==
  ASSUME NEW s, NEW a, NEW both, Len(s[a].layers) \in Nat
  PROVE  LET after == WholeLayers(s, a, both) IN
         /\ after[0] = [trunk |-> Scaled(a, Rechannel, both.trunk), sum |-> both.sum]
         /\ \A i \in 1..Len(s[a].layers) :
               after[i] = WholeLayer(a, i, s[a].layers[i], after[i - 1])
<1> DEFINE after[i \in 0..Len(s[a].layers)] ==
             IF i = 0 THEN [trunk |-> Scaled(a, Rechannel, both.trunk), sum |-> both.sum]
             ELSE WholeLayer(a, i, s[a].layers[i], after[i - 1])
<1>1. WholeLayers(s, a, both) = after
  BY DEF WholeLayers
<1>2. \E g : IsLayers(g, Len(s[a].layers), s, a, both)
  BY LayersWalk
<1>3. IsLayers(after, Len(s[a].layers), s, a, both)
  BY <1>2 DEF IsLayers
<1> HIDE DEF after
<1>4. \A i \in 1..Len(s[a].layers) : i # 0 /\ i \in 0..Len(s[a].layers)
  OBVIOUS
<1>5. after = [i \in 0..Len(s[a].layers) |-> IF i = 0 THEN [trunk |-> Scaled(a, Rechannel, both.trunk), sum |-> both.sum]
                  ELSE WholeLayer(a, i, s[a].layers[i], after[i - 1])]
  BY <1>3 DEF IsLayers
<1>6. after[0] = [trunk |-> Scaled(a, Rechannel, both.trunk), sum |-> both.sum]
  BY <1>5
<1>7. ASSUME NEW i \in 1..Len(s[a].layers)
      PROVE  after[i] = WholeLayer(a, i, s[a].layers[i], after[i - 1])
  BY <1>4, <1>5
<1> QED
  BY <1>1, <1>6, <1>7

IsArrays(g, n, s) ==
  g = [i \in 0..n |-> IF i = 0 THEN [trunk |-> Condition, sum |-> [t \in Times |-> 0]]
                      ELSE LET count == WholeLayers(s, i, g[i - 1])[Len(s[i].layers)] IN
                           [trunk |-> count.trunk,
                            sum |-> WholeConv(i, HeadTaps, s[i].head, count.sum)]]

LEMMA ArraysWalk ==
  ASSUME NEW s, NEW n \in Nat
  PROVE  \E g : IsArrays(g, n, s)
<1> DEFINE step(g, i) == IF i = 0 THEN [trunk |-> Condition, sum |-> [t \in Times |-> 0]]
                         ELSE LET count == WholeLayers(s, i, g[i - 1])[Len(s[i].layers)] IN
                           [trunk |-> count.trunk,
                            sum |-> WholeConv(i, HeadTaps, s[i].head, count.sum)]
           S == {m \in Nat : \E g : g = [i \in 0..m |-> step(g, i)]}
<1>1. \A g, h, i : (i # 0 => g[i - 1] = h[i - 1]) => step(g, i) = step(h, i)
  BY DEF step
<1>2. \A g : IsArrays(g, n, s) <=> g = [i \in 0..n |-> step(g, i)]
  BY DEF step, IsArrays
<1> HIDE DEF step
<1>3. 0 \in S
  <2> DEFINE one == [i \in 0..0 |-> step(0, 0)]
  <2>1. one = [i \in 0..0 |-> step(one, i)]
    BY <1>1
  <2> QED
    BY <2>1
<1>4. ASSUME NEW m \in Nat, m \in S PROVE m + 1 \in S
  <2>1. PICK g : g = [i \in 0..m |-> step(g, i)]
    BY <1>4
  <2> DEFINE more == [i \in 0..(m + 1) |-> IF i \in 0..m THEN g[i] ELSE step(g, i)]
  <2>2. ASSUME NEW i \in 0..(m + 1) PROVE step(more, i) = step(g, i)
    <3>1. i # 0 => i - 1 \in 0..m /\ i - 1 \in 0..(m + 1)
      OBVIOUS
    <3> QED
      BY <1>1, <3>1
  <2>3. ASSUME NEW i \in 0..(m + 1) PROVE more[i] = step(more, i)
    BY <2>1, <2>2
  <2>4. more = [i \in 0..(m + 1) |-> step(more, i)]
    BY <2>3
  <2> HIDE DEF more
  <2> QED
    BY <2>4
<1>5. n \in S
  BY <1>3, <1>4, AllNumbers
<1> QED
  BY <1>2, <1>5

LEMMA ArraysAre ==
  ASSUME NEW s, Len(s) \in Nat
  PROVE  LET after == WholeArrays(s) IN
         /\ after[0] = [trunk |-> Condition, sum |-> [t \in Times |-> 0]]
         /\ \A i \in 1..Len(s) :
               after[i] = LET count == WholeLayers(s, i, after[i - 1])[Len(s[i].layers)] IN
                           [trunk |-> count.trunk,
                            sum |-> WholeConv(i, HeadTaps, s[i].head, count.sum)]
<1> DEFINE after[i \in 0..Len(s)] ==
             IF i = 0 THEN [trunk |-> Condition, sum |-> [t \in Times |-> 0]]
             ELSE LET count == WholeLayers(s, i, after[i - 1])[Len(s[i].layers)] IN
                           [trunk |-> count.trunk,
                            sum |-> WholeConv(i, HeadTaps, s[i].head, count.sum)]
<1>1. WholeArrays(s) = after
  BY DEF WholeArrays
<1>2. \E g : IsArrays(g, Len(s), s)
  BY ArraysWalk
<1>3. IsArrays(after, Len(s), s)
  BY <1>2 DEF IsArrays
<1> HIDE DEF after
<1>4. \A i \in 1..Len(s) : i # 0 /\ i \in 0..Len(s)
  OBVIOUS
<1>5. after = [i \in 0..Len(s) |-> IF i = 0 THEN [trunk |-> Condition, sum |-> [t \in Times |-> 0]]
                  ELSE LET count == WholeLayers(s, i, after[i - 1])[Len(s[i].layers)] IN
                           [trunk |-> count.trunk,
                            sum |-> WholeConv(i, HeadTaps, s[i].head, count.sum)]]
  BY <1>3 DEF IsArrays
<1>6. after[0] = [trunk |-> Condition, sum |-> [t \in Times |-> 0]]
  BY <1>5
<1>7. ASSUME NEW i \in 1..Len(s)
      PROVE  after[i] = LET count == WholeLayers(s, i, after[i - 1])[Len(s[i].layers)] IN
                           [trunk |-> count.trunk,
                            sum |-> WholeConv(i, HeadTaps, s[i].head, count.sum)]
  BY <1>4, <1>5
<1> QED
  BY <1>1, <1>6, <1>7

IsLayered(g, n, a, condition, array) ==
  g = [i \in 0..n |-> IF i = 0 THEN array
                      ELSE Net!ApplyLayer(a, i, (i - 1) % 2, condition, g[i - 1])]

LEMMA LayeredWalk ==
  ASSUME NEW a, NEW condition, NEW array, NEW n \in Nat
  PROVE  \E g : IsLayered(g, n, a, condition, array)
<1> DEFINE step(g, i) == IF i = 0 THEN array
                         ELSE Net!ApplyLayer(a, i, (i - 1) % 2, condition, g[i - 1])
           S == {m \in Nat : \E g : g = [i \in 0..m |-> step(g, i)]}
<1>1. \A g, h, i : (i # 0 => g[i - 1] = h[i - 1]) => step(g, i) = step(h, i)
  BY DEF step
<1>2. \A g : IsLayered(g, n, a, condition, array) <=> g = [i \in 0..n |-> step(g, i)]
  BY DEF step, IsLayered
<1> HIDE DEF step
<1>3. 0 \in S
  <2> DEFINE one == [i \in 0..0 |-> step(0, 0)]
  <2>1. one = [i \in 0..0 |-> step(one, i)]
    BY <1>1
  <2> QED
    BY <2>1
<1>4. ASSUME NEW m \in Nat, m \in S PROVE m + 1 \in S
  <2>1. PICK g : g = [i \in 0..m |-> step(g, i)]
    BY <1>4
  <2> DEFINE more == [i \in 0..(m + 1) |-> IF i \in 0..m THEN g[i] ELSE step(g, i)]
  <2>2. ASSUME NEW i \in 0..(m + 1) PROVE step(more, i) = step(g, i)
    <3>1. i # 0 => i - 1 \in 0..m /\ i - 1 \in 0..(m + 1)
      OBVIOUS
    <3> QED
      BY <1>1, <3>1
  <2>3. ASSUME NEW i \in 0..(m + 1) PROVE more[i] = step(more, i)
    BY <2>1, <2>2
  <2>4. more = [i \in 0..(m + 1) |-> step(more, i)]
    BY <2>3
  <2> HIDE DEF more
  <2> QED
    BY <2>4
<1>5. n \in S
  BY <1>3, <1>4, AllNumbers
<1> QED
  BY <1>2, <1>5

LEMMA LayeredAre ==
  ASSUME NEW a, NEW condition, NEW array, Len(shape[a].layers) \in Nat
  PROVE  LET after == Net!Layered(a, condition, array) IN
         /\ after[0] = array
         /\ \A i \in 1..Len(shape[a].layers) :
               after[i] = Net!ApplyLayer(a, i, (i - 1) % 2, condition, after[i - 1])
<1> DEFINE after[i \in 0..Len(shape[a].layers)] ==
             IF i = 0 THEN array
             ELSE Net!ApplyLayer(a, i, (i - 1) % 2, condition, after[i - 1])
<1>1. Net!Layered(a, condition, array) = after
  BY DEF Net!Layered
<1>2. \E g : IsLayered(g, Len(shape[a].layers), a, condition, array)
  BY LayeredWalk
<1>3. IsLayered(after, Len(shape[a].layers), a, condition, array)
  BY <1>2 DEF IsLayered
<1> HIDE DEF after
<1>4. \A i \in 1..Len(shape[a].layers) : i # 0 /\ i \in 0..Len(shape[a].layers)
  OBVIOUS
<1>5. after = [i \in 0..Len(shape[a].layers) |-> IF i = 0 THEN array
                  ELSE Net!ApplyLayer(a, i, (i - 1) % 2, condition, after[i - 1])]
  BY <1>3 DEF IsLayered
<1>6. after[0] = array
  BY <1>5
<1>7. ASSUME NEW i \in 1..Len(shape[a].layers)
      PROVE  after[i] = Net!ApplyLayer(a, i, (i - 1) % 2, condition, after[i - 1])
  BY <1>4, <1>5
<1> QED
  BY <1>1, <1>6, <1>7

\* One array of a block.
Through(a, condition, arrays) ==
  Net!Headed(a, Len(condition),
    Net!Layered(a, condition, Net!Entered(a, condition, arrays))[Len(shape[a].layers)])

IsProcessed(g, n, condition) ==
  g = [i \in 0..n |-> IF i = 0 THEN buffers
                      ELSE [g[i - 1] EXCEPT ![i] = Through(i, condition, g[i - 1])]]

LEMMA ProcessedWalk ==
  ASSUME NEW condition, NEW n \in Nat
  PROVE  \E g : IsProcessed(g, n, condition)
<1> DEFINE step(g, i) == IF i = 0 THEN buffers
                         ELSE [g[i - 1] EXCEPT ![i] = Through(i, condition, g[i - 1])]
           S == {m \in Nat : \E g : g = [i \in 0..m |-> step(g, i)]}
<1>1. \A g, h, i : (i # 0 => g[i - 1] = h[i - 1]) => step(g, i) = step(h, i)
  BY DEF step
<1>2. \A g : IsProcessed(g, n, condition) <=> g = [i \in 0..n |-> step(g, i)]
  BY DEF step, IsProcessed
<1> HIDE DEF step
<1>3. 0 \in S
  <2> DEFINE one == [i \in 0..0 |-> step(0, 0)]
  <2>1. one = [i \in 0..0 |-> step(one, i)]
    BY <1>1
  <2> QED
    BY <2>1
<1>4. ASSUME NEW m \in Nat, m \in S PROVE m + 1 \in S
  <2>1. PICK g : g = [i \in 0..m |-> step(g, i)]
    BY <1>4
  <2> DEFINE more == [i \in 0..(m + 1) |-> IF i \in 0..m THEN g[i] ELSE step(g, i)]
  <2>2. ASSUME NEW i \in 0..(m + 1) PROVE step(more, i) = step(g, i)
    <3>1. i # 0 => i - 1 \in 0..m /\ i - 1 \in 0..(m + 1)
      OBVIOUS
    <3> QED
      BY <1>1, <3>1
  <2>3. ASSUME NEW i \in 0..(m + 1) PROVE more[i] = step(more, i)
    BY <2>1, <2>2
  <2>4. more = [i \in 0..(m + 1) |-> step(more, i)]
    BY <2>3
  <2> HIDE DEF more
  <2> QED
    BY <2>4
<1>5. n \in S
  BY <1>3, <1>4, AllNumbers
<1> QED
  BY <1>2, <1>5

LEMMA ProcessedAre ==
  ASSUME NEW condition, Len(shape) \in Nat
  PROVE  LET after == Net!Processed(condition) IN
         /\ after[0] = buffers
         /\ \A i \in 1..Len(shape) :
               after[i] = [after[i - 1] EXCEPT ![i] = Through(i, condition, after[i - 1])]
<1> DEFINE after[i \in 0..Len(shape)] ==
             IF i = 0 THEN buffers
             ELSE [after[i - 1] EXCEPT ![i] = Through(i, condition, after[i - 1])]
<1>1. Net!Processed(condition) = after
  BY DEF Net!Processed, Through
<1>2. \E g : IsProcessed(g, Len(shape), condition)
  BY ProcessedWalk
<1>3. IsProcessed(after, Len(shape), condition)
  BY <1>2 DEF IsProcessed
<1> HIDE DEF after
<1>4. \A i \in 1..Len(shape) : i # 0 /\ i \in 0..Len(shape)
  OBVIOUS
<1>5. after = [i \in 0..Len(shape) |-> IF i = 0 THEN buffers
                  ELSE [after[i - 1] EXCEPT ![i] = Through(i, condition, after[i - 1])]]
  BY <1>3 DEF IsProcessed
<1>6. after[0] = buffers
  BY <1>5
<1>7. ASSUME NEW i \in 1..Len(shape)
      PROVE  after[i] = [after[i - 1] EXCEPT ![i] = Through(i, condition, after[i - 1])]
  BY <1>4, <1>5
<1> QED
  BY <1>1, <1>6, <1>7

\* A sequence of n samples, whatever they are.
IsList(s, n) == s = [i \in 1..n |-> s[i]]

LEMMA ListLen ==
  ASSUME NEW n \in Nat, NEW s, IsList(s, n)
  PROVE  s \in Seq({s[i] : i \in 1..n}) /\ Len(s) = n /\ DOMAIN s = 1..n
<1> DEFINE V == {s[i] : i \in 1..n}
<1>1. \A i \in 1..n : s[i] \in V
  OBVIOUS
<1> HIDE DEF V
<1>2. s \in [1..n -> V]
  BY <1>1 DEF IsList
<1>3. s \in Seq(V)
  BY <1>2
<1>4. Len(s) = n /\ DOMAIN s = 1..n
  BY <1>2, <1>3
<1> QED
  BY <1>3, <1>4 DEF V

Glued(s, t) == s \o t

LEMMA Joined ==
  ASSUME NEW m \in Nat, NEW n \in Nat, NEW s, NEW t, IsList(s, m), IsList(t, n)
  PROVE  /\ IsList(Glued(s, t), m + n)
         /\ \A i \in 1..m : Glued(s, t)[i] = s[i]
         /\ \A i \in 1..n : Glued(s, t)[m + i] = t[i]
<1> DEFINE V == {s[i] : i \in 1..m} \cup {t[i] : i \in 1..n}
<1>1. (\A i \in 1..m : s[i] \in V) /\ (\A i \in 1..n : t[i] \in V)
  OBVIOUS
<1>2. Len(s) = m /\ Len(t) = n /\ DOMAIN s = 1..m /\ DOMAIN t = 1..n
  BY ListLen
<1> HIDE DEF V
<1>3. s \in [1..m -> V] /\ t \in [1..n -> V]
  BY <1>1 DEF IsList
<1>4. s \in Seq(V) /\ t \in Seq(V)
  BY <1>3
<1>5. s \o t \in Seq(V) /\ Len(s \o t) = m + n
  BY <1>2, <1>4
<1>6. DOMAIN (s \o t) = 1..(m + n)
  BY <1>5
<1>7. s \o t = [i \in 1..(m + n) |-> (s \o t)[i]]
  <2> DEFINE whole == s \o t
  <2>1. whole \in Seq(V) /\ DOMAIN whole = 1..(m + n)
    BY <1>5, <1>6
  <2> HIDE DEF whole
  <2>2. whole = [i \in 1..(m + n) |-> whole[i]]
    BY <2>1
  <2> QED
    BY <2>2 DEF whole
<1>8. \A i \in 1..m : (s \o t)[i] = s[i]
  BY <1>2, <1>4
<1>9. \A i \in 1..n : (s \o t)[m + i] = t[i]
  BY <1>2, <1>4
<1> QED
  BY <1>7, <1>8, <1>9 DEF IsList, Glued

LEMMA Cut ==
  ASSUME NEW n \in Nat, NEW s, IsList(s, n), NEW a \in Nat, NEW b \in Nat,
         0 < a, a <= b + 1, b <= n
  PROVE  /\ IsList(SubSeq(s, a, b), b - a + 1)
         /\ \A i \in 1..(b - a + 1) : SubSeq(s, a, b)[i] = s[a + i - 1]
<1> DEFINE V == {s[i] : i \in 1..n}
<1>1. s \in Seq(V) /\ Len(s) = n
  BY ListLen
<1> HIDE DEF V
<1>2. SubSeq(s, a, b) = [i \in 1..(b - a + 1) |-> s[a + i - 1]]
  BY <1>1
<1> QED
  BY <1>2 DEF IsList

LEMMA FirstOf ==
  ASSUME NEW m \in Nat, NEW n \in Nat, n <= m, NEW s, IsList(s, m)
  PROVE  IsList(Net!First(n, s), n) /\ \A i \in 1..n : Net!First(n, s)[i] = s[i]
<1>1. IsList(SubSeq(s, 1, n), n - 1 + 1)
      /\ \A i \in 1..(n - 1 + 1) : SubSeq(s, 1, n)[i] = s[1 + i - 1]
  BY Cut
<1>2. n - 1 + 1 = n /\ \A i \in 1..n : 1 + i - 1 = i
  OBVIOUS
<1> QED
  BY <1>1, <1>2 DEF Net!First

LEMMA Written ==
  ASSUME NEW m \in Nat, NEW n \in Nat, n <= m, NEW buffer, NEW s, IsList(buffer, m), IsList(s, n)
  PROVE  IsList(Net!Write(buffer, s), m) /\ \A i \in 1..n : Net!Write(buffer, s)[i] = s[i]
<1>1. Len(buffer) = m /\ Len(s) = n
  BY ListLen
<1> DEFINE rest == SubSeq(buffer, n + 1, m)
<1>2. IsList(rest, m - (n + 1) + 1)
  BY Cut
<1>3. m - (n + 1) + 1 = m - n /\ m - n \in Nat /\ n + (m - n) = m
  OBVIOUS
<1>4. Net!Write(buffer, s) = Glued(s, rest)
  BY <1>1 DEF Net!Write, Glued
<1>6. IsList(rest, m - n)
  BY <1>2, <1>3
<1> HIDE DEF rest
<1>5. IsList(Glued(s, rest), n + (m - n)) /\ \A i \in 1..n : Glued(s, rest)[i] = s[i]
  BY <1>3, <1>6, Joined
<1> QED
  BY <1>3, <1>4, <1>5

LEMMA SlidIs ==
  ASSUME NEW m \in Nat, NEW n \in Nat, NEW memory, NEW s, IsList(memory, m), IsList(s, n)
  PROVE  /\ IsList(Net!Slid(memory, s), m)
         /\ \A j \in 1..m : Net!Slid(memory, s)[j] = Glued(memory, s)[n + j]
<1>1. Len(memory) = m /\ Len(s) = n
  BY ListLen
<1>2. IsList(Glued(memory, s), m + n)
  BY Joined
<1> DEFINE whole == Glued(memory, s)
<1>3. Net!Slid(memory, s) = SubSeq(whole, n + 1, n + m)
  BY <1>1 DEF Net!Slid, Glued
<1> HIDE DEF whole
<1>4. IsList(whole, m + n)
  BY <1>2 DEF whole
<1>5. IsList(SubSeq(whole, n + 1, n + m), n + m - (n + 1) + 1)
      /\ \A j \in 1..(n + m - (n + 1) + 1) : SubSeq(whole, n + 1, n + m)[j] = whole[n + 1 + j - 1]
  BY <1>4, Cut
<1>6. n + m - (n + 1) + 1 = m /\ \A j \in 1..m : n + 1 + j - 1 = n + j
  OBVIOUS
<1>7. IsList(SubSeq(whole, n + 1, n + m), m)
      /\ \A j \in 1..m : SubSeq(whole, n + 1, n + m)[j] = whole[n + j]
  BY <1>5, <1>6
<1> QED
  BY <1>3, <1>7 DEF whole

\* The first n samples of a buffer are those of a signal since a time, as far as
\* they are late enough.
Agrees(s, n, sig, start, from) ==
  \A i \in 1..n : start + i - 1 >= from => s[i] = Past(sig, start + i - 1)

LEMMA AgreesLater ==
  ASSUME NEW s, NEW n \in Nat, NEW sig, NEW start \in Int, NEW from \in Int, NEW later \in Int,
         Agrees(s, n, sig, start, from), from <= later
  PROVE  Agrees(s, n, sig, start, later)
<1> SUFFICES ASSUME NEW i \in 1..n, start + i - 1 >= later
             PROVE  s[i] = Past(sig, start + i - 1)
  BY DEF Agrees
<1>1. start + i - 1 >= from
  OBVIOUS
<1> QED
  BY <1>1 DEF Agrees

LEMMA AgreesFirst ==
  ASSUME NEW m \in Nat, NEW n \in Nat, n <= m, NEW s, IsList(s, m), NEW sig, NEW start, NEW from
  PROVE  Agrees(Net!First(n, s), n, sig, start, from) <=> Agrees(s, n, sig, start, from)
<1>1. \A i \in 1..n : Net!First(n, s)[i] = s[i]
  BY FirstOf
<1> QED
  BY <1>1 DEF Agrees

LEMMA AgreesWritten ==
  ASSUME NEW m \in Nat, NEW n \in Nat, n <= m, NEW buffer, NEW s, IsList(buffer, m), IsList(s, n),
         NEW sig, NEW start, NEW from, Agrees(s, n, sig, start, from)
  PROVE  Agrees(Net!Write(buffer, s), n, sig, start, from)
<1>1. \A i \in 1..n : Net!Write(buffer, s)[i] = s[i]
  BY Written
<1> QED
  BY <1>1 DEF Agrees

LEMMA AgreesJoined ==
  ASSUME NEW m \in Nat, NEW n \in Nat, NEW memory, NEW s, IsList(memory, m), IsList(s, n),
         NEW sig, NEW now \in Int, NEW from \in Int,
         Agrees(memory, m, sig, now - m, from), Agrees(s, n, sig, now, from)
  PROVE  Agrees(Glued(memory, s), m + n, sig, now - m, from)
<1> DEFINE whole == Glued(memory, s)
<1>3. /\ \A i \in 1..m : whole[i] = memory[i]
      /\ \A i \in 1..n : whole[m + i] = s[i]
  BY Joined
<1> HIDE DEF whole
<1> SUFFICES ASSUME NEW i \in 1..(m + n), now - m + i - 1 >= from
             PROVE  whole[i] = Past(sig, now - m + i - 1)
  BY DEF Agrees, whole
<1>1. CASE i \in 1..m
  BY <1>1, <1>3 DEF Agrees
<1>2. CASE i \notin 1..m
  <2> DEFINE j == i - m
  <2>1. j \in 1..n /\ i = m + j /\ now - m + i - 1 = now + j - 1
    BY <1>2
  <2> HIDE DEF j
  <2>2. whole[m + j] = s[j]
    BY <1>3, <2>1
  <2>3. s[j] = Past(sig, now + j - 1)
    BY <2>1 DEF Agrees
  <2> QED
    BY <2>1, <2>2, <2>3
<1> QED
  BY <1>1, <1>2

LEMMA AgreesSlid ==
  ASSUME NEW m \in Nat, NEW n \in Nat, NEW memory, NEW s, IsList(memory, m), IsList(s, n),
         NEW sig, NEW now \in Int, NEW from \in Int,
         Agrees(memory, m, sig, now - m, from), Agrees(s, n, sig, now, from)
  PROVE  Agrees(Net!Slid(memory, s), m, sig, now + n - m, from)
<1> DEFINE whole == Glued(memory, s)
<1>1. Agrees(whole, m + n, sig, now - m, from)
  BY AgreesJoined
<1>4. \A j \in 1..m : Net!Slid(memory, s)[j] = whole[n + j]
  BY SlidIs
<1> HIDE DEF whole
<1> SUFFICES ASSUME NEW j \in 1..m, now + n - m + j - 1 >= from
             PROVE  Net!Slid(memory, s)[j] = Past(sig, now + n - m + j - 1)
  BY DEF Agrees
<1>2. n + j \in 1..(m + n) /\ now - m + (n + j) - 1 = now + n - m + j - 1
  OBVIOUS
<1>3. whole[n + j] = Past(sig, now - m + (n + j) - 1)
  BY <1>1, <1>2 DEF Agrees
<1> QED
  BY <1>2, <1>3, <1>4

\* The parts of the network are the same in the module of the steps.
LEMMA SameParts ==
  /\ \A f, n : Net!Total(f, n) = Total(f, n)
  /\ \A conv : Net!HistoryLen(conv) = HistoryLen(conv)
  /\ \A a, part, s : Net!Scaled(a, part, s) = Scaled(a, part, s)
  /\ \A s, t : Net!Mixed(s, t) = Mixed(s, t)
  /\ \A s : Net!Activated(s) = Activated(s)
  /\ Net!Rechannel = Rechannel /\ Net!HeadTaps = HeadTaps
  /\ \A l : /\ Net!Dilated(l) = Dilated(l) /\ Net!Mixin(l) = Mixin(l)
            /\ Net!Layer1x1(l) = Layer1x1(l)
<1>1. \A f, n : Net!Total(f, n) = Total(f, n)
  BY DEF Net!Total, Total, Net!Totals, Totals
<1>2. \A conv : Net!HistoryLen(conv) = HistoryLen(conv)
  BY DEF Net!HistoryLen, HistoryLen
<1>3. /\ \A a, part, s : Net!Scaled(a, part, s) = Scaled(a, part, s)
      /\ \A s, t : Net!Mixed(s, t) = Mixed(s, t)
      /\ \A s : Net!Activated(s) = Activated(s)
  BY DEF Net!Scaled, Scaled, Net!Mixed, Mixed, Net!Activated, Activated
<1>4. /\ Net!Rechannel = Rechannel /\ Net!HeadTaps = HeadTaps
      /\ \A l : /\ Net!Dilated(l) = Dilated(l) /\ Net!Mixin(l) = Mixin(l)
                /\ Net!Layer1x1(l) = Layer1x1(l)
  BY DEF Net!Rechannel, Rechannel, Net!HeadTaps, HeadTaps, Net!Dilated, Dilated, Net!Mixin, Mixin,
         Net!Layer1x1, Layer1x1
<1> QED
  BY <1>1, <1>2, <1>3, <1>4

LEMMA NowAndThen == -1 \in Times /\ \A t \in Int : (t < MaxFed /\ ~(t < -1)) => t \in Times
  BY WaveNetAssumption DEF Times

LEMMA PastScaled ==
  ASSUME NEW a, NEW part, NEW sig, DOMAIN sig = Times, NEW t \in Int, t < MaxFed
  PROVE  Past(Scaled(a, part, sig), t)
           = (Weight(a, part, 0) + Weight(a, part, 1) * Past(sig, t)) % Prime
<1>1. \A u \in Times : Scaled(a, part, sig)[u]
                         = (Weight(a, part, 0) + Weight(a, part, 1) * sig[u]) % Prime
  BY DEF Scaled
<1> QED
  BY <1>1, NowAndThen DEF Past

LEMMA PastMixed ==
  ASSUME NEW sig, NEW other, DOMAIN sig = Times, NEW t \in Int, t < MaxFed
  PROVE  Past(Mixed(sig, other), t) = (Past(sig, t) + Past(other, t)) % Prime
<1>1. \A u \in Times : Mixed(sig, other)[u] = (sig[u] + other[u]) % Prime
  BY DEF Mixed
<1> QED
  BY <1>1, NowAndThen DEF Past

LEMMA PastActivated ==
  ASSUME NEW sig, DOMAIN sig = Times, NEW t \in Int, t < MaxFed
  PROVE  Past(Activated(sig), t) = Activation(Past(sig, t)) % Prime
<1>1. \A u \in Times : Activated(sig)[u] = Activation(sig[u]) % Prime
  BY DEF Activated
<1> QED
  BY <1>1, NowAndThen DEF Past

LEMMA AgreesScaled ==
  ASSUME NEW a, NEW part, NEW sig, DOMAIN sig = Times, NEW n \in Nat, NEW s, IsList(s, n),
         NEW start \in Int, NEW from \in Int, start + n <= MaxFed, Agrees(s, n, sig, start, from)
  PROVE  /\ IsList(Scaled(a, part, s), n)
         /\ DOMAIN Scaled(a, part, sig) = Times
         /\ Agrees(Scaled(a, part, s), n, Scaled(a, part, sig), start, from)
<1>1. DOMAIN s = 1..n
  BY ListLen
<1>2. Scaled(a, part, s)
        = [i \in 1..n |-> (Weight(a, part, 0) + Weight(a, part, 1) * s[i]) % Prime]
  BY <1>1 DEF Scaled
<1>3. IsList(Scaled(a, part, s), n)
  BY <1>2 DEF IsList
<1>4. DOMAIN Scaled(a, part, sig) = Times
  BY DEF Scaled
<1>5. ASSUME NEW i \in 1..n, start + i - 1 >= from
      PROVE  Scaled(a, part, s)[i] = Past(Scaled(a, part, sig), start + i - 1)
  <2>1. s[i] = Past(sig, start + i - 1)
    BY <1>5 DEF Agrees
  <2>2. start + i - 1 \in Int /\ start + i - 1 < MaxFed
    BY WaveNetAssumption
  <2>3. Past(Scaled(a, part, sig), start + i - 1)
          = (Weight(a, part, 0) + Weight(a, part, 1) * Past(sig, start + i - 1)) % Prime
    BY <2>2, PastScaled
  <2>4. Scaled(a, part, s)[i] = (Weight(a, part, 0) + Weight(a, part, 1) * s[i]) % Prime
    BY <1>2
  <2> QED
    BY <2>1, <2>3, <2>4
<1> QED
  BY <1>3, <1>4, <1>5 DEF Agrees

LEMMA AgreesMixed ==
  ASSUME NEW sig, NEW other, DOMAIN sig = Times, NEW n \in Nat, NEW s, NEW t,
         IsList(s, n), IsList(t, n), NEW start \in Int, NEW from \in Int, start + n <= MaxFed,
         Agrees(s, n, sig, start, from), Agrees(t, n, other, start, from)
  PROVE  /\ IsList(Mixed(s, t), n)
         /\ DOMAIN Mixed(sig, other) = Times
         /\ Agrees(Mixed(s, t), n, Mixed(sig, other), start, from)
<1>1. DOMAIN s = 1..n
  BY ListLen
<1>2. Mixed(s, t) = [i \in 1..n |-> (s[i] + t[i]) % Prime]
  BY <1>1 DEF Mixed
<1>3. IsList(Mixed(s, t), n)
  BY <1>2 DEF IsList
<1>4. DOMAIN Mixed(sig, other) = Times
  BY DEF Mixed
<1>5. ASSUME NEW i \in 1..n, start + i - 1 >= from
      PROVE  Mixed(s, t)[i] = Past(Mixed(sig, other), start + i - 1)
  <2>1. s[i] = Past(sig, start + i - 1) /\ t[i] = Past(other, start + i - 1)
    BY <1>5 DEF Agrees
  <2>2. start + i - 1 \in Int /\ start + i - 1 < MaxFed
    BY WaveNetAssumption
  <2>3. Past(Mixed(sig, other), start + i - 1)
          = (Past(sig, start + i - 1) + Past(other, start + i - 1)) % Prime
    BY <2>2, PastMixed
  <2>4. Mixed(s, t)[i] = (s[i] + t[i]) % Prime
    BY <1>2
  <2> QED
    BY <2>1, <2>3, <2>4
<1> QED
  BY <1>3, <1>4, <1>5 DEF Agrees

LEMMA AgreesActivated ==
  ASSUME NEW sig, DOMAIN sig = Times, NEW n \in Nat, NEW s, IsList(s, n),
         NEW start \in Int, NEW from \in Int, start + n <= MaxFed, Agrees(s, n, sig, start, from)
  PROVE  /\ IsList(Activated(s), n)
         /\ DOMAIN Activated(sig) = Times
         /\ Agrees(Activated(s), n, Activated(sig), start, from)
<1>1. DOMAIN s = 1..n
  BY ListLen
<1>2. Activated(s) = [i \in 1..n |-> Activation(s[i]) % Prime]
  BY <1>1 DEF Activated
<1>3. IsList(Activated(s), n)
  BY <1>2 DEF IsList
<1>4. DOMAIN Activated(sig) = Times
  BY DEF Activated
<1>5. ASSUME NEW i \in 1..n, start + i - 1 >= from
      PROVE  Activated(s)[i] = Past(Activated(sig), start + i - 1)
  <2>1. s[i] = Past(sig, start + i - 1)
    BY <1>5 DEF Agrees
  <2>2. start + i - 1 \in Int /\ start + i - 1 < MaxFed
    BY WaveNetAssumption
  <2>3. Past(Activated(sig), start + i - 1) = Activation(Past(sig, start + i - 1)) % Prime
    BY <2>2, PastActivated
  <2>4. Activated(s)[i] = Activation(s[i]) % Prime
    BY <1>2
  <2> QED
    BY <2>1, <2>3, <2>4
<1> QED
  BY <1>3, <1>4, <1>5 DEF Agrees

\* How far back each tap reaches.
LEMMA TapReach ==
  ASSUME NEW conv \in Convolutions, NEW k \in 1..conv.kernel
  PROVE  /\ HistoryLen(conv) \in Nat
         /\ (k - 1) * conv.dilation \in Nat
         /\ (conv.kernel - k) * conv.dilation \in Nat
         /\ (k - 1) * conv.dilation + (conv.kernel - k) * conv.dilation = HistoryLen(conv)
<1>1. conv.kernel \in Nat /\ conv.dilation \in Nat /\ conv.kernel >= 1
  BY DEF Convolutions
<1> DEFINE d == conv.dilation
           b == k - 1
           c == conv.kernel - k
<1>2. d \in Nat /\ b \in Nat /\ c \in Nat /\ conv.kernel - 1 = b + c
  BY <1>1
<1>3. HistoryLen(conv) = (b + c) * d
  BY <1>2 DEF HistoryLen
<1> HIDE DEF d, b, c
<1>4. b * d \in Nat /\ c * d \in Nat /\ (b + c) * d = b * d + c * d
  BY <1>2
<1> QED
  BY <1>3, <1>4 DEF d, b, c

LEMMA HistoryNat ==
  ASSUME NEW conv \in Convolutions
  PROVE  HistoryLen(conv) \in Nat
<1>1. 1 \in 1..conv.kernel
  BY DEF Convolutions
<1> QED
  BY <1>1, TapReach

\* A convolution over a block and its history is the one over the whole signal,
\* once the history is that of the signal.
LEMMA ConvolvedWhole ==
  ASSUME NEW a, NEW part, NEW conv \in Convolutions, NEW padded, NEW sig, NEW n \in Nat,
         NEW now \in Int, NEW from \in Int, now + n <= MaxFed,
         Agrees(padded, HistoryLen(conv) + n, sig, now - HistoryLen(conv), from)
  PROVE  /\ IsList(Net!Convolved(a, part, conv, padded, n), n)
         /\ DOMAIN WholeConv(a, part, conv, sig) = Times
         /\ Agrees(Net!Convolved(a, part, conv, padded, n), n, WholeConv(a, part, conv, sig),
                   now, from + HistoryLen(conv))
<1> DEFINE reach == HistoryLen(conv)
           given(i, k) == padded[i + (k - 1) * conv.dilation]
           meant(t, k) == Past(sig, t - (conv.kernel - k) * conv.dilation)
           taps(i) == [k \in 1..conv.kernel |-> Weight(a, part, k) * given(i, k)]
           whole(t) == [k \in 1..conv.kernel |-> Weight(a, part, k) * meant(t, k)]
           sample(f) == (Weight(a, part, 0) + Total(f, conv.kernel)) % Prime
           made == Net!Convolved(a, part, conv, padded, n)
           ideal == WholeConv(a, part, conv, sig)
<1>1. made = [i \in 1..n |-> sample(taps(i))]
  BY SameParts DEF Net!Convolved
<1>2. ideal = [t \in Times |-> sample(whole(t))]
  BY DEF WholeConv
<1>3. reach \in Nat
  BY HistoryNat
<1>4. ASSUME NEW i \in 1..n, now + i - 1 >= from + reach
      PROVE  taps(i) = whole(now + i - 1)
  <2>1. ASSUME NEW k \in 1..conv.kernel
        PROVE  given(i, k) = meant(now + i - 1, k)
    <3> DEFINE before == (k - 1) * conv.dilation
               after == (conv.kernel - k) * conv.dilation
    <3>1. before \in Nat /\ after \in Nat /\ before + after = reach
      BY TapReach
    <3>5. conv.kernel \in Nat /\ conv.dilation \in Nat
      BY DEF Convolutions
    <3> HIDE DEF before, after, reach
    <3>2. /\ i + before \in 1..(reach + n)
          /\ now - reach + (i + before) - 1 = now + i - 1 - after
          /\ now - reach + (i + before) - 1 >= from
      BY <1>3, <1>4, <3>1
    <3>3. padded[i + before] = Past(sig, now - reach + (i + before) - 1)
      BY <3>2 DEF Agrees, reach
    <3>4. given(i, k) = padded[i + before] /\ meant(now + i - 1, k) = Past(sig, now + i - 1 - after)
      BY <3>5 DEF before, after
    <3> HIDE DEF given, meant
    <3> QED
      BY <3>2, <3>3, <3>4
  <2> HIDE DEF given, meant
  <2> QED
    BY <2>1
<1>5. ASSUME NEW t \in Int, t < -1
      PROVE  whole(t) = whole(-1)
  <2>1. ASSUME NEW k \in 1..conv.kernel
        PROVE  Past(sig, t - (conv.kernel - k) * conv.dilation)
                 = Past(sig, -1 - (conv.kernel - k) * conv.dilation)
    <3> DEFINE after == (conv.kernel - k) * conv.dilation
    <3>1. after \in Nat
      BY TapReach
    <3> HIDE DEF after
    <3>2. \A u \in Int : u < 0 => Past(sig, u) = sig[-1]
      <4>1. ASSUME NEW u \in Int, u < 0 PROVE u < -1 \/ u = -1
        BY <4>1
      <4> QED
        BY <4>1 DEF Past
    <3>3. t - after \in Int /\ t - after < 0 /\ -1 - after \in Int /\ -1 - after < 0
      BY <1>5, <3>1
    <3>4. Past(sig, t - after) = sig[-1] /\ Past(sig, -1 - after) = sig[-1]
      BY <3>2, <3>3
    <3> QED
      BY <3>4 DEF after
  <2>2. \A k \in 1..conv.kernel : meant(t, k) = meant(-1, k)
    BY <2>1
  <2> HIDE DEF given, meant
  <2> QED
    BY <2>2
<1> HIDE DEF given, meant, taps, whole, sample, made, ideal
<1>6. IsList(made, n) /\ DOMAIN ideal = Times
  BY <1>1, <1>2 DEF IsList
<1>7. ASSUME NEW i \in 1..n, now + i - 1 >= from + reach
      PROVE  made[i] = Past(ideal, now + i - 1)
  <2>1. made[i] = sample(whole(now + i - 1))
    BY <1>1, <1>4, <1>7
  <2>2. now + i - 1 \in Int /\ now + i - 1 < MaxFed
    BY WaveNetAssumption
  <2>3. CASE now + i - 1 < -1
    <3>1. Past(ideal, now + i - 1) = ideal[-1]
      BY <2>3 DEF Past
    <3>2. ideal[-1] = sample(whole(-1))
      BY <1>2, NowAndThen
    <3>3. whole(now + i - 1) = whole(-1)
      BY <1>5, <2>2, <2>3
    <3> QED
      BY <2>1, <3>1, <3>2, <3>3
  <2>4. CASE ~(now + i - 1 < -1)
    <3>1. now + i - 1 \in Times
      BY <2>2, <2>4, NowAndThen
    <3>2. Past(ideal, now + i - 1) = ideal[now + i - 1]
      BY <2>4 DEF Past
    <3> QED
      BY <1>2, <2>1, <3>1, <3>2
  <2> QED
    BY <2>3, <2>4
<1> QED
  BY <1>6, <1>7 DEF Agrees, made, ideal

\* The samples of a block are those of the input at its times.
Feeds(condition, n, now) ==
  /\ IsList(condition, n)
  /\ \A i \in 1..n : condition[i] = Past(Condition, now + i - 1)

LEMMA FeedsAgrees ==
  ASSUME NEW condition, NEW n \in Nat, NEW now \in Int, NEW from \in Int, Feeds(condition, n, now)
  PROVE  /\ IsList(condition, n) /\ Len(condition) = n /\ DOMAIN Condition = Times
         /\ Agrees(condition, n, Condition, now, from)
<1>1. IsList(condition, n)
  BY DEF Feeds
<1>2. Len(condition) = n
  BY <1>1, ListLen
<1>3. DOMAIN Condition = Times
  BY DEF Condition
<1>4. Agrees(condition, n, Condition, now, from)
  BY DEF Feeds, Agrees
<1> QED
  BY <1>1, <1>2, <1>3, <1>4

\* A layer over a block is the one over the whole signal, a convolution's reach
\* later than what it is given.
LEMMA LayerWhole ==
  ASSUME NEW a, NEW l, NEW conv \in Convolutions, NEW memory, NEW input, NEW sum,
         NEW condition, NEW both, NEW n \in Nat, NEW now \in Int, NEW from \in Int,
         now + n <= MaxFed, Feeds(condition, n, now), DOMAIN both.trunk = Times,
         DOMAIN both.sum = Times, IsList(memory, HistoryLen(conv)), IsList(input, n),
         IsList(sum, n),
         Agrees(memory, HistoryLen(conv), both.trunk, now - HistoryLen(conv), from),
         Agrees(input, n, both.trunk, now, from), Agrees(sum, n, both.sum, now, from)
  PROVE  LET taps == Net!Convolved(a, Dilated(l), conv, Glued(memory, input), n)
             z == Activated(Mixed(taps, Scaled(a, Mixin(l), condition)))
             next == Mixed(Scaled(a, Layer1x1(l), z), input)
             whole == WholeLayer(a, l, conv, both)
             later == from + HistoryLen(conv)
         IN  /\ IsList(z, n) /\ IsList(next, n) /\ IsList(Mixed(sum, z), n)
             /\ DOMAIN whole.trunk = Times /\ DOMAIN whole.sum = Times
             /\ Agrees(next, n, whole.trunk, now, later)
             /\ Agrees(Mixed(sum, z), n, whole.sum, now, later)
<1> DEFINE taps == Net!Convolved(a, Dilated(l), conv, Glued(memory, input), n)
           mixin == Scaled(a, Mixin(l), condition)
           before == Mixed(taps, mixin)
           z == Activated(before)
           scaled == Scaled(a, Layer1x1(l), z)
           wTaps == WholeConv(a, Dilated(l), conv, both.trunk)
           wMixin == Scaled(a, Mixin(l), Condition)
           wBefore == Mixed(wTaps, wMixin)
           wZ == Activated(wBefore)
           wScaled == Scaled(a, Layer1x1(l), wZ)
           whole == WholeLayer(a, l, conv, both)
           later == from + HistoryLen(conv)
<1>1. HistoryLen(conv) \in Nat /\ later \in Int /\ from <= later
  BY HistoryNat
<1>2. whole.trunk = Mixed(wScaled, both.trunk) /\ whole.sum = Mixed(both.sum, wZ)
  BY DEF WholeLayer
<1>3. Agrees(Glued(memory, input), HistoryLen(conv) + n, both.trunk, now - HistoryLen(conv), from)
  BY <1>1, AgreesJoined
<1> HIDE DEF later, whole
<1>4. IsList(taps, n) /\ DOMAIN wTaps = Times /\ Agrees(taps, n, wTaps, now, later)
  BY <1>3, ConvolvedWhole DEF later
<1> HIDE DEF taps, wTaps
<1>5. IsList(mixin, n) /\ DOMAIN wMixin = Times /\ Agrees(mixin, n, wMixin, now, later)
  <2>1. IsList(condition, n) /\ DOMAIN Condition = Times /\ Agrees(condition, n, Condition, now, later)
    BY <1>1, FeedsAgrees
  <2> QED
    BY <1>1, <2>1, AgreesScaled
<1> HIDE DEF mixin, wMixin
<1>6. IsList(before, n) /\ DOMAIN wBefore = Times /\ Agrees(before, n, wBefore, now, later)
  BY <1>1, <1>4, <1>5, AgreesMixed
<1> HIDE DEF before, wBefore
<1>7. IsList(z, n) /\ DOMAIN wZ = Times /\ Agrees(z, n, wZ, now, later)
  BY <1>1, <1>6, AgreesActivated
<1> HIDE DEF z, wZ
<1>8. IsList(scaled, n) /\ DOMAIN wScaled = Times /\ Agrees(scaled, n, wScaled, now, later)
  BY <1>1, <1>7, AgreesScaled
<1> HIDE DEF scaled, wScaled
<1>9. Agrees(input, n, both.trunk, now, later) /\ Agrees(sum, n, both.sum, now, later)
  BY <1>1, AgreesLater
<1>10. /\ IsList(Mixed(scaled, input), n) /\ DOMAIN Mixed(wScaled, both.trunk) = Times
       /\ Agrees(Mixed(scaled, input), n, Mixed(wScaled, both.trunk), now, later)
  BY <1>1, <1>8, <1>9, AgreesMixed
<1>11. /\ IsList(Mixed(sum, z), n) /\ DOMAIN Mixed(both.sum, wZ) = Times
       /\ Agrees(Mixed(sum, z), n, Mixed(both.sum, wZ), now, later)
  BY <1>1, <1>7, <1>9, AgreesMixed
<1>12. /\ DOMAIN whole.trunk = Times /\ DOMAIN whole.sum = Times
       /\ Agrees(Mixed(scaled, input), n, whole.trunk, now, later)
       /\ Agrees(Mixed(sum, z), n, whole.sum, now, later)
  BY <1>2, <1>10, <1>11
<1> QED
  BY <1>7, <1>10, <1>11, <1>12 DEF taps, mixin, before, z, scaled, whole, later

LEMMA ShapeIs ==
  ASSUME NEW s \in Shapes
  PROVE  /\ Len(s) \in Nat /\ Len(s) > 0 /\ DOMAIN s = 1..Len(s)
         /\ \A a \in 1..Len(s) :
              /\ s[a].head \in Convolutions /\ Len(s[a].layers) \in Nat
              /\ DOMAIN s[a].layers = 1..Len(s[a].layers)
              /\ \A l \in 1..Len(s[a].layers) : s[a].layers[l] \in Convolutions
<1>1. s \in Seq(Arrays) /\ s # <<>>
  BY WaveNetAssumption
<1>2. Len(s) \in Nat /\ Len(s) > 0 /\ DOMAIN s = 1..Len(s)
  BY <1>1
<1>3. ASSUME NEW a \in 1..Len(s)
      PROVE  s[a].head \in Convolutions /\ s[a].layers \in Seq(Convolutions)
  <2>1. s[a] \in Arrays
    BY <1>1, <1>2
  <2> QED
    BY <2>1 DEF Arrays
<1>4. ASSUME NEW a \in 1..Len(s)
      PROVE  /\ Len(s[a].layers) \in Nat /\ DOMAIN s[a].layers = 1..Len(s[a].layers)
             /\ \A l \in 1..Len(s[a].layers) : s[a].layers[l] \in Convolutions
  BY <1>3
<1> QED
  BY <1>2, <1>3, <1>4

LEMMA TotalsNat ==
  ASSUME NEW f, NEW n \in Nat, \A i \in 1..n : f[i] \in Nat
  PROVE  \A i \in 0..n : Totals(f, n)[i] \in Nat
<1> DEFINE after == Totals(f, n)
           S == {i \in Nat : i <= n => after[i] \in Nat}
<1>1. after[0] = 0 /\ \A i \in 1..n : after[i] = after[i - 1] + f[i]
  BY TotalsAre
<1> HIDE DEF after
<1>2. 0 \in S
  BY <1>1
<1>3. ASSUME NEW i \in Nat, i \in S PROVE i + 1 \in S
  <2> SUFFICES ASSUME i + 1 <= n PROVE after[i + 1] \in Nat
    OBVIOUS
  <2>1. i + 1 \in 1..n /\ i + 1 - 1 = i /\ after[i] \in Nat
    BY <1>3
  <2>2. after[i + 1] = after[i] + f[i + 1]
    BY <1>1, <2>1
  <2> QED
    BY <2>1, <2>2
<1>4. \A i \in Nat : i \in S
  BY <1>2, <1>3, AllNumbers
<1> QED
  BY <1>4 DEF after

\* What precedes layer l of array a: how far back the layers and the heads up to
\* there reach, and the time it is whole from when p samples of silence are fed.
Since(s, p, a, l) ==
  Totals(Reaches(s), Len(s))[a - 1] + Totals(LayerReaches(s[a]), Len(s[a].layers))[l] - p
\* The trunk and the sum after layer l of array a, for the whole input.
Trunk(s, a, l) == WholeLayers(s, a, WholeArrays(s)[a - 1])[l].trunk
Summed(s, a, l) == WholeLayers(s, a, WholeArrays(s)[a - 1])[l].sum

LEMMA ReachesNat ==
  ASSUME NEW s \in Shapes, NEW a \in 1..Len(s)
  PROVE  /\ \A l \in 1..Len(s[a].layers) :
              LayerReaches(s[a])[l] = HistoryLen(s[a].layers[l]) /\ LayerReaches(s[a])[l] \in Nat
         /\ \A l \in 0..Len(s[a].layers) :
              Totals(LayerReaches(s[a]), Len(s[a].layers))[l] \in Nat
         /\ LayerSamples(s[a]) \in Nat
         /\ Reaches(s)[a] = LayerSamples(s[a]) + HistoryLen(s[a].head) /\ Reaches(s)[a] \in Nat
<1>1. /\ s[a].head \in Convolutions /\ Len(s[a].layers) \in Nat
      /\ DOMAIN s[a].layers = 1..Len(s[a].layers) /\ DOMAIN s = 1..Len(s)
      /\ \A l \in 1..Len(s[a].layers) : s[a].layers[l] \in Convolutions
  BY ShapeIs
<1>2. ASSUME NEW l \in 1..Len(s[a].layers)
      PROVE  LayerReaches(s[a])[l] = HistoryLen(s[a].layers[l]) /\ LayerReaches(s[a])[l] \in Nat
  <2>1. LayerReaches(s[a])[l] = HistoryLen(s[a].layers[l])
    BY <1>1 DEF LayerReaches
  <2>2. HistoryLen(s[a].layers[l]) \in Nat
    BY <1>1, HistoryNat
  <2> QED
    BY <2>1, <2>2
<1>3. \A l \in 0..Len(s[a].layers) : Totals(LayerReaches(s[a]), Len(s[a].layers))[l] \in Nat
  BY <1>1, <1>2, TotalsNat
<1>4. LayerSamples(s[a]) = Totals(LayerReaches(s[a]), Len(s[a].layers))[Len(s[a].layers)]
  BY DEF LayerSamples, Total
<1>5. LayerSamples(s[a]) \in Nat
  BY <1>1, <1>3, <1>4
<1>6. Reaches(s)[a] = LayerSamples(s[a]) + HistoryLen(s[a].head)
  BY <1>1 DEF Reaches
<1>7. HistoryLen(s[a].head) \in Nat
  BY <1>1, HistoryNat
<1>8. Reaches(s)[a] \in Nat
  BY <1>5, <1>6, <1>7
<1> QED
  BY <1>2, <1>3, <1>5, <1>6, <1>8

LEMMA SinceGrows ==
  ASSUME NEW s \in Shapes, NEW p \in Int, NEW a \in 1..Len(s)
  PROVE  /\ \A l \in 0..Len(s[a].layers) : Since(s, p, a, l) \in Int /\ Since(s, p, a, l) >= - p
         /\ \A l \in 1..Len(s[a].layers) :
              Since(s, p, a, l) = Since(s, p, a, l - 1) + HistoryLen(s[a].layers[l])
         /\ Since(s, p, a, 0) = Totals(Reaches(s), Len(s))[a - 1] - p
         /\ Totals(Reaches(s), Len(s))[a] - p
              = Since(s, p, a, Len(s[a].layers)) + HistoryLen(s[a].head)
         /\ Totals(Reaches(s), Len(s))[a] \in Nat
         /\ HistoryLen(s[a].head) \in Nat
<1> DEFINE arrays == Totals(Reaches(s), Len(s))
           reaches == LayerReaches(s[a])
           layers == Totals(reaches, Len(s[a].layers))
           n == Len(s[a].layers)
<1>1. Len(s) \in Nat /\ n \in Nat /\ s[a].head \in Convolutions
  BY ShapeIs
<1>2. \A b \in 1..Len(s) : Reaches(s)[b] \in Nat
  BY ReachesNat
<1>3. \A b \in 0..Len(s) : arrays[b] \in Nat
  BY <1>1, <1>2, TotalsNat
<1>4. arrays[a] = arrays[a - 1] + Reaches(s)[a]
  BY <1>1, TotalsAre
<1>5. /\ \A l \in 1..n : reaches[l] = HistoryLen(s[a].layers[l]) /\ reaches[l] \in Nat
      /\ \A l \in 0..n : layers[l] \in Nat
      /\ Reaches(s)[a] = LayerSamples(s[a]) + HistoryLen(s[a].head)
  BY ReachesNat
<1>6. layers[0] = 0 /\ \A l \in 1..n : layers[l] = layers[l - 1] + reaches[l]
  BY <1>1, TotalsAre
<1>7. LayerSamples(s[a]) = layers[n]
  BY DEF LayerSamples, Total
<1>8. HistoryLen(s[a].head) \in Nat
  BY <1>1, HistoryNat
<1>9. \A l : Since(s, p, a, l) = arrays[a - 1] + layers[l] - p
  BY DEF Since
<1>10. a - 1 \in 0..Len(s) /\ a \in 0..Len(s)
  BY <1>1
<1> HIDE DEF arrays, layers, reaches, n
<1>11. arrays[a - 1] \in Nat /\ arrays[a] \in Nat
  BY <1>3, <1>10
<1>12. ASSUME NEW l \in 0..n PROVE Since(s, p, a, l) \in Int /\ Since(s, p, a, l) >= - p
  BY <1>5, <1>9, <1>11
<1>13. ASSUME NEW l \in 1..n
       PROVE  Since(s, p, a, l) = Since(s, p, a, l - 1) + HistoryLen(s[a].layers[l])
  <2>1. l - 1 \in 0..n /\ l \in 0..n
    BY <1>1
  <2>2. layers[l - 1] \in Nat /\ layers[l] \in Nat /\ reaches[l] \in Nat
        /\ layers[l] = layers[l - 1] + HistoryLen(s[a].layers[l])
        /\ reaches[l] = HistoryLen(s[a].layers[l])
    BY <1>5, <1>6, <2>1
  <2> DEFINE start == arrays[a - 1]
             before == layers[l - 1]
             reach == HistoryLen(s[a].layers[l])
  <2>3. Since(s, p, a, l) = start + layers[l] - p /\ Since(s, p, a, l - 1) = start + before - p
    BY <1>9
  <2>4. start \in Nat /\ before \in Nat /\ reach \in Nat /\ layers[l] = before + reach
    BY <1>11, <2>2
  <2> HIDE DEF start, before, reach
  <2>5. Since(s, p, a, l) = Since(s, p, a, l - 1) + reach
    BY <2>3, <2>4
  <2> QED
    BY <2>5 DEF reach
<1>14. Since(s, p, a, 0) = arrays[a - 1] - p
  BY <1>6, <1>9, <1>11
<1>15. arrays[a] - p = Since(s, p, a, n) + HistoryLen(s[a].head)
  <2>1. layers[n] \in Nat
    BY <1>1, <1>5
  <2>2. arrays[a] = arrays[a - 1] + (layers[n] + HistoryLen(s[a].head))
    BY <1>4, <1>5, <1>7
  <2>3. Since(s, p, a, n) = arrays[a - 1] + layers[n] - p
    BY <1>9
  <2> QED
    BY <1>8, <1>11, <2>1, <2>2, <2>3
<1> QED
  BY <1>8, <1>11, <1>12, <1>13, <1>14, <1>15 DEF arrays, n

LEMMA LayersSignals ==
  ASSUME NEW s \in Shapes, NEW a \in 1..Len(s), NEW both,
         DOMAIN both.trunk = Times, DOMAIN both.sum = Times
  PROVE  \A l \in 0..Len(s[a].layers) :
           /\ DOMAIN WholeLayers(s, a, both)[l].trunk = Times
           /\ DOMAIN WholeLayers(s, a, both)[l].sum = Times
<1> DEFINE n == Len(s[a].layers)
           after == WholeLayers(s, a, both)
           S == {l \in Nat : l <= n => DOMAIN after[l].trunk = Times /\ DOMAIN after[l].sum = Times}
<1>1. n \in Nat
  BY ShapeIs
<1>2. /\ after[0] = [trunk |-> Scaled(a, Rechannel, both.trunk), sum |-> both.sum]
      /\ \A l \in 1..n : after[l] = WholeLayer(a, l, s[a].layers[l], after[l - 1])
  BY <1>1, LayersAre
<1> HIDE DEF after, n
<1>3. 0 \in S
  <2>1. DOMAIN Scaled(a, Rechannel, both.trunk) = Times
    BY DEF Scaled
  <2> QED
    BY <1>2, <2>1
<1>4. \A l, conv, z : DOMAIN z.sum = Times =>
        /\ DOMAIN WholeLayer(a, l, conv, z).trunk = Times
        /\ DOMAIN WholeLayer(a, l, conv, z).sum = Times
  BY DEF WholeLayer, Mixed, Scaled, Activated, WholeConv
<1>5. ASSUME NEW l \in Nat, l \in S PROVE l + 1 \in S
  <2> SUFFICES ASSUME l + 1 <= n
               PROVE  DOMAIN after[l + 1].trunk = Times /\ DOMAIN after[l + 1].sum = Times
    OBVIOUS
  <2>1. l + 1 \in 1..n /\ l + 1 - 1 = l /\ DOMAIN after[l].sum = Times
    BY <1>1, <1>5
  <2>2. after[l + 1] = WholeLayer(a, l + 1, s[a].layers[l + 1], after[l])
    BY <1>2, <2>1
  <2> QED
    BY <1>4, <2>1, <2>2
<1>6. \A l \in Nat : l \in S
  BY <1>3, <1>5, AllNumbers
<1> QED
  BY <1>1, <1>6 DEF after, n

LEMMA ArraysSignals ==
  ASSUME NEW s \in Shapes
  PROVE  \A a \in 0..Len(s) :
           DOMAIN WholeArrays(s)[a].trunk = Times /\ DOMAIN WholeArrays(s)[a].sum = Times
<1> DEFINE n == Len(s)
           after == WholeArrays(s)
           S == {a \in Nat : a <= n => DOMAIN after[a].trunk = Times /\ DOMAIN after[a].sum = Times}
<1>1. n \in Nat
  BY ShapeIs
<1>2. /\ after[0] = [trunk |-> Condition, sum |-> [t \in Times |-> 0]]
      /\ \A a \in 1..n :
           after[a] = LET count == WholeLayers(s, a, after[a - 1])[Len(s[a].layers)] IN
                      [trunk |-> count.trunk, sum |-> WholeConv(a, HeadTaps, s[a].head, count.sum)]
  BY <1>1, ArraysAre
<1> HIDE DEF after
<1>3. 0 \in S
  <2>1. DOMAIN Condition = Times
    BY DEF Condition
  <2> QED
    BY <1>2, <2>1
<1>4. ASSUME NEW a \in Nat, a \in S PROVE a + 1 \in S
  <2> SUFFICES ASSUME a + 1 <= n
               PROVE  DOMAIN after[a + 1].trunk = Times /\ DOMAIN after[a + 1].sum = Times
    OBVIOUS
  <2> DEFINE b == a + 1
             count == WholeLayers(s, b, after[a])[Len(s[b].layers)]
  <2>1. b \in 1..n /\ b - 1 = a /\ DOMAIN after[a].trunk = Times /\ DOMAIN after[a].sum = Times
    BY <1>1, <1>4
  <2>2. after[b] = [trunk |-> count.trunk, sum |-> WholeConv(b, HeadTaps, s[b].head, count.sum)]
    BY <1>2, <2>1
  <2>3. Len(s[b].layers) \in 0..Len(s[b].layers)
    BY <2>1, ShapeIs
  <2> HIDE DEF b
  <2>4. DOMAIN count.trunk = Times
    BY <2>1, <2>3, LayersSignals
  <2>5. DOMAIN WholeConv(b, HeadTaps, s[b].head, count.sum) = Times
    BY DEF WholeConv
  <2> HIDE DEF count
  <2>6. DOMAIN after[b].trunk = Times /\ DOMAIN after[b].sum = Times
    BY <2>2, <2>4, <2>5
  <2> QED
    BY <2>6 DEF b
<1>5. \A a \in Nat : a \in S
  BY <1>3, <1>4, AllNumbers
<1> QED
  BY <1>1, <1>5 DEF after

\* The trunk and the sums from layer to layer and from array to array.
LEMMA TrunkWalk ==
  ASSUME NEW s \in Shapes, NEW a \in 1..Len(s)
  PROVE  LET n == Len(s[a].layers)
             both(l) == WholeLayers(s, a, WholeArrays(s)[a - 1])[l]
         IN  /\ Trunk(s, a, 0) = Scaled(a, Rechannel, WholeArrays(s)[a - 1].trunk)
             /\ Summed(s, a, 0) = WholeArrays(s)[a - 1].sum
             /\ \A l \in 0..n : DOMAIN Trunk(s, a, l) = Times /\ DOMAIN Summed(s, a, l) = Times
             /\ \A l \in 1..n :
                  /\ Trunk(s, a, l) = WholeLayer(a, l, s[a].layers[l], both(l - 1)).trunk
                  /\ Summed(s, a, l) = WholeLayer(a, l, s[a].layers[l], both(l - 1)).sum
             /\ WholeArrays(s)[a].trunk = Trunk(s, a, n)
             /\ WholeArrays(s)[a].sum = WholeConv(a, HeadTaps, s[a].head, Summed(s, a, n))
<1> DEFINE n == Len(s[a].layers)
           before == WholeArrays(s)[a - 1]
           after == WholeLayers(s, a, before)
<1>1. n \in Nat /\ Len(s) \in Nat
  BY ShapeIs
<1>2. /\ after[0] = [trunk |-> Scaled(a, Rechannel, before.trunk), sum |-> before.sum]
      /\ \A l \in 1..n : after[l] = WholeLayer(a, l, s[a].layers[l], after[l - 1])
  BY <1>1, LayersAre
<1>3. \A l : Trunk(s, a, l) = after[l].trunk /\ Summed(s, a, l) = after[l].sum
  BY DEF Trunk, Summed
<1>4. a - 1 \in 0..Len(s)
  BY <1>1
<1>5. DOMAIN before.trunk = Times /\ DOMAIN before.sum = Times
  BY <1>4, ArraysSignals
<1>6. \A l \in 0..n : DOMAIN after[l].trunk = Times /\ DOMAIN after[l].sum = Times
  BY <1>5, LayersSignals
<1>7. WholeArrays(s)[a] = [trunk |-> after[n].trunk,
                           sum |-> WholeConv(a, HeadTaps, s[a].head, after[n].sum)]
  BY <1>1, ArraysAre
<1> HIDE DEF after
<1>8. Trunk(s, a, 0) = Scaled(a, Rechannel, before.trunk) /\ Summed(s, a, 0) = before.sum
  BY <1>2, <1>3
<1>9. /\ WholeArrays(s)[a].trunk = Trunk(s, a, n)
      /\ WholeArrays(s)[a].sum = WholeConv(a, HeadTaps, s[a].head, Summed(s, a, n))
  BY <1>3, <1>7
<1>10. \A l \in 0..n : DOMAIN Trunk(s, a, l) = Times /\ DOMAIN Summed(s, a, l) = Times
  BY <1>3, <1>6
<1>11. \A l \in 1..n :
         /\ Trunk(s, a, l) = WholeLayer(a, l, s[a].layers[l], after[l - 1]).trunk
         /\ Summed(s, a, l) = WholeLayer(a, l, s[a].layers[l], after[l - 1]).sum
  BY <1>2, <1>3
<1> QED
  BY <1>8, <1>9, <1>10, <1>11 DEF after

\* An array's buffers, of the lengths the model gives them.
Shaped(s, m, a, array) ==
  /\ array = [io |-> array.io, sum |-> array.sum, head |-> array.head,
              layers |-> array.layers, headHistory |-> array.headHistory]
  /\ array.io = [b \in 0..1 |-> array.io[b]]
  /\ array.layers = [l \in DOMAIN s[a].layers |-> array.layers[l]]
  /\ \A b \in 0..1 : IsList(array.io[b], m)
  /\ IsList(array.sum, m) /\ IsList(array.head, m)
  /\ \A l \in 1..Len(s[a].layers) : IsList(array.layers[l], HistoryLen(s[a].layers[l]))
  /\ IsList(array.headHistory, HistoryLen(s[a].head))

\* What a convolution keeps is the end of its input up to a time.
Keeps(s, p, a, l, memory, now) ==
  LET reach == HistoryLen(s[a].layers[l]) IN
  Agrees(memory, reach, Trunk(s, a, l - 1), now - reach, Since(s, p, a, l - 1))
KeepsHead(s, p, a, memory, now) ==
  LET reach == HistoryLen(s[a].head)
      n == Len(s[a].layers)
  IN Agrees(memory, reach, Summed(s, a, n), now - reach, Since(s, p, a, n))

\* A block that may come next.
Block(p, condition, n, now) ==
  /\ p \in Int /\ n \in Nat /\ n <= max_n /\ now \in Int /\ now + n <= MaxFed
  /\ Feeds(condition, n, now)

Altered(array, l, memory, sum, b, buffer) ==
  [array EXCEPT !.layers[l] = memory, !.sum = sum, !.io[b] = buffer]

LEMMA AlteredIs ==
  ASSUME NEW io, NEW sum, NEW head, NEW layers, NEW headHistory, NEW l, NEW b,
         NEW memory, NEW total, NEW buffer
  PROVE  Altered([io |-> io, sum |-> sum, head |-> head, layers |-> layers,
                  headHistory |-> headHistory], l, memory, total, b, buffer)
           = [io |-> [io EXCEPT ![b] = buffer], sum |-> total, head |-> head,
              layers |-> [layers EXCEPT ![l] = memory], headHistory |-> headHistory]
<1> DEFINE array == [io |-> io, sum |-> sum, head |-> head, layers |-> layers,
                     headHistory |-> headHistory]
           one == [io |-> io, sum |-> sum, head |-> head,
                   layers |-> [layers EXCEPT ![l] = memory], headHistory |-> headHistory]
           two == [io |-> io, sum |-> total, head |-> head,
                   layers |-> [layers EXCEPT ![l] = memory], headHistory |-> headHistory]
           three == [io |-> [io EXCEPT ![b] = buffer], sum |-> total, head |-> head,
                     layers |-> [layers EXCEPT ![l] = memory], headHistory |-> headHistory]
<1>1. [array EXCEPT !.layers[l] = memory] = one
  OBVIOUS
<1>2. [one EXCEPT !.sum = total] = two
  OBVIOUS
<1>3. [two EXCEPT !.io[b] = buffer] = three
  OBVIOUS
<1>4. Altered(array, l, memory, total, b, buffer)
        = [[[array EXCEPT !.layers[l] = memory] EXCEPT !.sum = total] EXCEPT !.io[b] = buffer]
  BY DEF Altered
<1> HIDE DEF array, one, two, three
<1>5. Altered(array, l, memory, total, b, buffer) = three
  BY <1>1, <1>2, <1>3, <1>4
<1> QED
  BY <1>5 DEF array, three

LEMMA AlteredRecord ==
  ASSUME NEW m, NEW a, NEW array, Shaped(shape, m, a, array), NEW l, NEW b, NEW memory,
         NEW sum, NEW buffer
  PROVE  Altered(array, l, memory, sum, b, buffer)
           = [io |-> [array.io EXCEPT ![b] = buffer], sum |-> sum, head |-> array.head,
              layers |-> [array.layers EXCEPT ![l] = memory],
              headHistory |-> array.headHistory]
<1> DEFINE same == [io |-> array.io, sum |-> array.sum, head |-> array.head,
                    layers |-> array.layers, headHistory |-> array.headHistory]
<1>1. array = same
  BY DEF Shaped
<1>2. Altered(array, l, memory, sum, b, buffer) = Altered(same, l, memory, sum, b, buffer)
  BY <1>1
<1> QED
  BY <1>2, AlteredIs

LEMMA AlteredShaped ==
  ASSUME NEW m \in Nat, NEW a \in 1..Len(shape), NEW array, NEW l \in 1..Len(shape[a].layers),
         NEW b \in 0..1, NEW memory, NEW sum, NEW buffer, shape \in Shapes,
         Shaped(shape, m, a, array), IsList(memory, HistoryLen(shape[a].layers[l])),
         IsList(sum, m), IsList(buffer, m), NEW next,
         next = Altered(array, l, memory, sum, b, buffer)
  PROVE  Shaped(shape, m, a, next)
<1> DEFINE layers == [array.layers EXCEPT ![l] = memory]
           io == [array.io EXCEPT ![b] = buffer]
<1>1. DOMAIN shape[a].layers = 1..Len(shape[a].layers)
  BY ShapeIs
<1>2. next = [io |-> io, sum |-> sum, head |-> array.head, layers |-> layers,
              headHistory |-> array.headHistory]
  BY AlteredRecord
<1>3. /\ layers[l] = memory /\ layers = [k \in DOMAIN shape[a].layers |-> layers[k]]
      /\ \A k \in 1..Len(shape[a].layers) : k # l => layers[k] = array.layers[k]
  BY <1>1 DEF Shaped
<1>4. /\ io[b] = buffer /\ io = [c \in 0..1 |-> io[c]]
      /\ \A c \in 0..1 : c # b => io[c] = array.io[c]
  BY DEF Shaped
<1> HIDE DEF layers, io
<1>5. /\ next.io = io /\ next.sum = sum /\ next.head = array.head /\ next.layers = layers
      /\ next.headHistory = array.headHistory
  BY <1>2
<1>6. \A c \in 0..1 : IsList(io[c], m)
  BY <1>4 DEF Shaped
<1>7. \A k \in 1..Len(shape[a].layers) : IsList(layers[k], HistoryLen(shape[a].layers[k]))
  BY <1>3 DEF Shaped
<1>8. IsList(array.head, m) /\ IsList(array.headHistory, HistoryLen(shape[a].head))
  BY DEF Shaped
<1> QED
  BY <1>2, <1>3, <1>4, <1>5, <1>6, <1>7, <1>8 DEF Shaped

LEMMA LayerApplied ==
  ASSUME NEW p, NEW condition, NEW n, NEW now, Block(p, condition, n, now),
         shape \in Shapes, max_n \in Nat, NEW a \in 1..Len(shape),
         NEW l \in 1..Len(shape[a].layers), NEW cur \in 0..1, NEW array, NEW next,
         next = Net!ApplyLayer(a, l, cur, condition, array), Shaped(shape, max_n, a, array), Keeps(shape, p, a, l, array.layers[l], now),
         Agrees(array.io[cur], n, Trunk(shape, a, l - 1), now, Since(shape, p, a, l - 1)),
         Agrees(array.sum, n, Summed(shape, a, l - 1), now, Since(shape, p, a, l - 1))
  PROVE  /\ Shaped(shape, max_n, a, next)
         /\ next.headHistory = array.headHistory
         /\ \A k \in 1..Len(shape[a].layers) : k # l => next.layers[k] = array.layers[k]
         /\ Keeps(shape, p, a, l, next.layers[l], now + n)
         /\ Agrees(next.io[1 - cur], n, Trunk(shape, a, l), now, Since(shape, p, a, l))
         /\ Agrees(next.sum, n, Summed(shape, a, l), now, Since(shape, p, a, l))
<1> DEFINE conv == shape[a].layers[l]
           reach == HistoryLen(conv)
           from == Since(shape, p, a, l - 1)
           both == WholeLayers(shape, a, WholeArrays(shape)[a - 1])[l - 1]
           memory == array.layers[l]
           input == Net!First(n, array.io[cur])
           sum == Net!First(n, array.sum)
           taps == Net!Convolved(a, Dilated(l), conv, Glued(memory, input), n)
           z == Activated(Mixed(taps, Scaled(a, Mixin(l), condition)))
           made == Mixed(Scaled(a, Layer1x1(l), z), input)
           whole == WholeLayer(a, l, conv, both)
<1>1. p \in Int /\ n \in Nat /\ n <= max_n /\ now \in Int /\ now + n <= MaxFed
      /\ Feeds(condition, n, now)
  BY DEF Block
<1>2. conv \in Convolutions /\ l - 1 \in 0..Len(shape[a].layers) /\ l \in 0..Len(shape[a].layers)
  BY ShapeIs
<1>3. reach \in Nat
  BY <1>2, HistoryNat
<1>4. from \in Int /\ Since(shape, p, a, l) = from + reach
  BY <1>1, <1>2, SinceGrows
<1>5. Trunk(shape, a, l - 1) = both.trunk /\ Summed(shape, a, l - 1) = both.sum
  BY DEF Trunk, Summed
<1>6. DOMAIN both.trunk = Times /\ DOMAIN both.sum = Times
  BY <1>2, <1>5, TrunkWalk
<1>7. Trunk(shape, a, l) = whole.trunk /\ Summed(shape, a, l) = whole.sum
  BY TrunkWalk
<1>8. /\ IsList(memory, reach) /\ IsList(array.io[cur], max_n) /\ IsList(array.sum, max_n)
      /\ IsList(array.io[1 - cur], max_n)
  <2>1. 1 - cur \in 0..1
    OBVIOUS
  <2> QED
    BY <2>1 DEF Shaped
<1>9. Agrees(memory, reach, both.trunk, now - reach, from)
  BY <1>5 DEF Keeps
<1>10. IsList(input, n) /\ Agrees(input, n, both.trunk, now, from)
  BY <1>1, <1>5, <1>8, FirstOf, AgreesFirst
<1>11. IsList(sum, n) /\ Agrees(sum, n, both.sum, now, from)
  BY <1>1, <1>5, <1>8, FirstOf, AgreesFirst
<1>12. Len(condition) = n
  BY <1>1, FeedsAgrees
<1> HIDE DEF conv, from, both, memory, input, sum
<1>13. /\ IsList(z, n) /\ IsList(made, n) /\ IsList(Mixed(sum, z), n)
       /\ Agrees(made, n, whole.trunk, now, from + reach)
       /\ Agrees(Mixed(sum, z), n, whole.sum, now, from + reach)
  BY <1>1, <1>2, <1>4, <1>6, <1>8, <1>9, <1>10, <1>11, LayerWhole
<1>14. next = [array EXCEPT !.layers[l] = Net!Slid(memory, input),
                            !.sum = Net!Write(array.sum, Mixed(sum, z)),
                            !.io[1 - cur] = Net!Write(array.io[1 - cur], made)]
  BY <1>12, SameParts DEF Net!ApplyLayer, Glued, conv, memory, input, sum
<1> HIDE DEF reach, taps, z, made, whole
<1> DEFINE kept == Net!Slid(memory, input)
           total == Net!Write(array.sum, Mixed(sum, z))
           buffer == Net!Write(array.io[1 - cur], made)
<1>15. IsList(kept, reach) /\ IsList(total, max_n) /\ IsList(buffer, max_n)
  BY <1>1, <1>3, <1>8, <1>10, <1>13, SlidIs, Written
<1>16. Agrees(kept, reach, both.trunk, now + n - reach, from)
  BY <1>1, <1>3, <1>4, <1>8, <1>9, <1>10, AgreesSlid
<1>17. Agrees(total, n, whole.sum, now, from + reach)
  BY <1>1, <1>8, <1>13, AgreesWritten
<1>18. Agrees(buffer, n, whole.trunk, now, from + reach)
  BY <1>1, <1>8, <1>13, AgreesWritten
<1> HIDE DEF kept, total, buffer
<1>19. next = Altered(array, l, kept, total, 1 - cur, buffer)
  BY <1>14 DEF Altered, kept, total, buffer
<1>20. /\ Shaped(shape, max_n, a, next)
       /\ next.layers[l] = kept /\ next.sum = total /\ next.io[1 - cur] = buffer
       /\ next.headHistory = array.headHistory
       /\ \A k \in 1..Len(shape[a].layers) : k # l => next.layers[k] = array.layers[k]
  <2> DEFINE other == 1 - cur
  <2>1. other \in 0..1 /\ IsList(kept, HistoryLen(shape[a].layers[l]))
    BY <1>15 DEF reach, conv
  <2>2. next = Altered(array, l, kept, total, other, buffer)
    BY <1>19
  <2> HIDE DEF other
  <2>3. Shaped(shape, max_n, a, next)
    BY <1>15, <2>1, <2>2, AlteredShaped
  <2> DEFINE layers == [array.layers EXCEPT ![l] = kept]
             io == [array.io EXCEPT ![other] = buffer]
  <2>4. next = [io |-> io, sum |-> total, head |-> array.head, layers |-> layers,
                headHistory |-> array.headHistory]
    BY <2>2, AlteredRecord
  <2>5. io[other] = buffer /\ layers[l] = kept
        /\ \A k \in 1..Len(shape[a].layers) : k # l => layers[k] = array.layers[k]
    <3>1. DOMAIN shape[a].layers = 1..Len(shape[a].layers)
      BY ShapeIs
    <3> QED
      BY <2>1, <3>1 DEF Shaped
  <2> HIDE DEF layers, io
  <2>6. /\ next.io = io /\ next.sum = total /\ next.layers = layers
        /\ next.headHistory = array.headHistory
    BY <2>4
  <2> QED
    BY <2>3, <2>5, <2>6 DEF other
<1>21. Keeps(shape, p, a, l, next.layers[l], now + n)
  <2>1. next.layers[l] = kept
    BY <1>20
  <2> QED
    BY <1>1, <1>3, <1>5, <1>16, <2>1 DEF Keeps, reach, conv, from
<1> QED
  BY <1>4, <1>7, <1>17, <1>18, <1>20, <1>21 DEF whole

\* Every layer of an array, one after another.
LEMMA LayeredWhole ==
  ASSUME NEW p, NEW condition, NEW n, NEW now, Block(p, condition, n, now),
         shape \in Shapes, max_n \in Nat, NEW a \in 1..Len(shape), NEW array,
         Shaped(shape, max_n, a, array),
         \A l \in 1..Len(shape[a].layers) : Keeps(shape, p, a, l, array.layers[l], now),
         Agrees(array.io[0], n, Trunk(shape, a, 0), now, Since(shape, p, a, 0)),
         Agrees(array.sum, n, Summed(shape, a, 0), now, Since(shape, p, a, 0))
  PROVE  LET count == Len(shape[a].layers)
             next == Net!Layered(a, condition, array)[count]
         IN  /\ Shaped(shape, max_n, a, next)
             /\ next.headHistory = array.headHistory
             /\ \A l \in 1..count : Keeps(shape, p, a, l, next.layers[l], now + n)
             /\ Agrees(next.io[count % 2], n, Trunk(shape, a, count), now, Since(shape, p, a, count))
             /\ Agrees(next.sum, n, Summed(shape, a, count), now, Since(shape, p, a, count))
<1> DEFINE count == Len(shape[a].layers)
           after == Net!Layered(a, condition, array)
           Good(l) ==
             /\ Shaped(shape, max_n, a, after[l])
             /\ after[l].headHistory = array.headHistory
             /\ \A k \in 1..l : Keeps(shape, p, a, k, after[l].layers[k], now + n)
             /\ \A k \in (l + 1)..count : Keeps(shape, p, a, k, after[l].layers[k], now)
             /\ Agrees(after[l].io[l % 2], n, Trunk(shape, a, l), now, Since(shape, p, a, l))
             /\ Agrees(after[l].sum, n, Summed(shape, a, l), now, Since(shape, p, a, l))
           S == {l \in Nat : l <= count => Good(l)}
<1>1. count \in Nat
  BY ShapeIs
<1>2. /\ after[0] = array
      /\ \A l \in 1..count : after[l] = Net!ApplyLayer(a, l, (l - 1) % 2, condition, after[l - 1])
  BY <1>1, LayeredAre
<1> HIDE DEF after
<1>3. 0 \in S
  <2>1. 0 % 2 = 0 /\ 0 + 1 = 1 /\ 1..0 = {}
    OBVIOUS
  <2>2. Good(0)
    BY <1>2, <2>1
  <2> QED
    BY <2>2
<1> HIDE DEF count
<1>4. ASSUME NEW k \in Nat, k \in S PROVE k + 1 \in S
  <2> SUFFICES ASSUME k + 1 <= count PROVE Good(k + 1)
    OBVIOUS
  <2> DEFINE l == k + 1
             cur == k % 2
             before == after[k]
  <2>1. l \in 1..count /\ l - 1 = k /\ cur \in 0..1 /\ 1 - cur = l % 2
    BY <1>1
  <2>12. l \in Nat /\ l = k + 1 /\ l <= count
    BY <1>1
  <2>2. Good(k)
    BY <1>1, <1>4
  <2>3. after[l] = Net!ApplyLayer(a, l, cur, condition, before)
    BY <1>2, <2>1
  <2>4. l \in (k + 1)..count
    BY <2>1
  <2> HIDE DEF l, cur
  <2>5. Keeps(shape, p, a, l, before.layers[l], now)
    BY <2>2, <2>4
  <2>6. /\ Agrees(before.io[cur], n, Trunk(shape, a, l - 1), now, Since(shape, p, a, l - 1))
        /\ Agrees(before.sum, n, Summed(shape, a, l - 1), now, Since(shape, p, a, l - 1))
    BY <2>1, <2>2 DEF cur
  <2>7. Shaped(shape, max_n, a, before) /\ before.headHistory = array.headHistory
    BY <2>2
  <2> HIDE DEF before
  <2>8. /\ Shaped(shape, max_n, a, after[l])
        /\ after[l].headHistory = before.headHistory
        /\ \A j \in 1..count : j # l => after[l].layers[j] = before.layers[j]
        /\ Keeps(shape, p, a, l, after[l].layers[l], now + n)
        /\ Agrees(after[l].io[1 - cur], n, Trunk(shape, a, l), now, Since(shape, p, a, l))
        /\ Agrees(after[l].sum, n, Summed(shape, a, l), now, Since(shape, p, a, l))
    <3> DEFINE next == after[l]
    <3>1. l \in 1..Len(shape[a].layers) /\ cur \in 0..1
      BY <2>1 DEF count
    <3>2. next = Net!ApplyLayer(a, l, cur, condition, before)
      BY <2>3
    <3> HIDE DEF next, count
    <3>3. /\ Shaped(shape, max_n, a, next)
          /\ next.headHistory = before.headHistory
          /\ \A j \in 1..Len(shape[a].layers) : j # l => next.layers[j] = before.layers[j]
          /\ Keeps(shape, p, a, l, next.layers[l], now + n)
          /\ Agrees(next.io[1 - cur], n, Trunk(shape, a, l), now, Since(shape, p, a, l))
          /\ Agrees(next.sum, n, Summed(shape, a, l), now, Since(shape, p, a, l))
      BY <2>5, <2>6, <2>7, <3>1, <3>2, LayerApplied
    <3> QED
      BY <3>3 DEF next, count
  <2>9. ASSUME NEW j \in 1..l PROVE Keeps(shape, p, a, j, after[l].layers[j], now + n)
    <3>1. CASE j = l
      BY <2>8, <3>1
    <3>2. CASE j # l
      <4>1. j \in 1..k /\ j \in 1..count
        BY <1>1, <2>12, <3>2
      <4>2. Keeps(shape, p, a, j, before.layers[j], now + n)
        BY <2>2, <4>1 DEF before
      <4> QED
        BY <2>8, <3>2, <4>1, <4>2
    <3> QED
      BY <3>1, <3>2
  <2>10. ASSUME NEW j \in (l + 1)..count PROVE Keeps(shape, p, a, j, after[l].layers[j], now)
    <3>1. j \in (k + 1)..count /\ j \in 1..count /\ j # l
      BY <1>1, <2>12
    <3>2. Keeps(shape, p, a, j, before.layers[j], now)
      BY <2>2, <3>1 DEF before
    <3> QED
      BY <2>8, <3>1, <3>2
  <2>11. Good(l)
    BY <2>1, <2>7, <2>8, <2>9, <2>10
  <2> QED
    BY <2>11 DEF l
<1>5. \A l \in Nat : l \in S
  BY <1>3, <1>4, AllNumbers
<1>6. Good(count)
  BY <1>1, <1>5
<1> QED
  BY <1>6 DEF after, count

Entering(array, first, sum) == [array EXCEPT !.io[0] = first, !.sum = sum]
Heading(array, head, memory) == [array EXCEPT !.head = head, !.headHistory = memory]

LEMMA EnteringIs ==
  ASSUME NEW m, NEW a, NEW array, Shaped(shape, m, a, array), NEW first, NEW sum
  PROVE  Entering(array, first, sum)
           = [io |-> [array.io EXCEPT ![0] = first], sum |-> sum, head |-> array.head,
              layers |-> array.layers, headHistory |-> array.headHistory]
<1> DEFINE same == [io |-> array.io, sum |-> array.sum, head |-> array.head,
                    layers |-> array.layers, headHistory |-> array.headHistory]
           one == [io |-> [array.io EXCEPT ![0] = first], sum |-> array.sum, head |-> array.head,
                   layers |-> array.layers, headHistory |-> array.headHistory]
           two == [io |-> [array.io EXCEPT ![0] = first], sum |-> sum, head |-> array.head,
                   layers |-> array.layers, headHistory |-> array.headHistory]
<1>1. array = same
  BY DEF Shaped
<1>2. [same EXCEPT !.io[0] = first] = one
  OBVIOUS
<1>3. [one EXCEPT !.sum = sum] = two
  OBVIOUS
<1>4. Entering(same, first, sum) = [[same EXCEPT !.io[0] = first] EXCEPT !.sum = sum]
  BY DEF Entering
<1> HIDE DEF same, one, two
<1>5. Entering(array, first, sum) = two
  BY <1>1, <1>2, <1>3, <1>4
<1> QED
  BY <1>5 DEF two

LEMMA HeadingIs ==
  ASSUME NEW m, NEW a, NEW array, Shaped(shape, m, a, array), NEW head, NEW memory
  PROVE  Heading(array, head, memory)
           = [io |-> array.io, sum |-> array.sum, head |-> head,
              layers |-> array.layers, headHistory |-> memory]
<1> DEFINE same == [io |-> array.io, sum |-> array.sum, head |-> array.head,
                    layers |-> array.layers, headHistory |-> array.headHistory]
           one == [io |-> array.io, sum |-> array.sum, head |-> head,
                   layers |-> array.layers, headHistory |-> array.headHistory]
           two == [io |-> array.io, sum |-> array.sum, head |-> head,
                   layers |-> array.layers, headHistory |-> memory]
<1>1. array = same
  BY DEF Shaped
<1>2. [same EXCEPT !.head = head] = one
  OBVIOUS
<1>3. [one EXCEPT !.headHistory = memory] = two
  OBVIOUS
<1>4. Heading(same, head, memory) = [[same EXCEPT !.head = head] EXCEPT !.headHistory = memory]
  BY DEF Heading
<1> HIDE DEF same, one, two
<1>5. Heading(array, head, memory) = two
  BY <1>1, <1>2, <1>3, <1>4
<1> QED
  BY <1>5 DEF two

LEMMA ZerosAre ==
  ASSUME NEW n \in Nat
  PROVE  IsList(Net!Zeros(n), n) /\ \A i \in 1..n : Net!Zeros(n)[i] = 0
  BY DEF IsList, Net!Zeros

\* What an array hands to the next one.
Handed(p, a, array, n, now) ==
  LET from == Totals(Reaches(shape), Len(shape))[a] - p IN
  /\ Agrees(array.io[Len(shape[a].layers) % 2], n, WholeArrays(shape)[a].trunk, now, from)
  /\ Agrees(array.head, n, WholeArrays(shape)[a].sum, now, from)

\* The first array is given the input and no sum, each other one what the array
\* before it has made of the same block.
LEMMA EnteredWhole ==
  ASSUME NEW p, NEW condition, NEW n, NEW now, Block(p, condition, n, now),
         shape \in Shapes, max_n \in Nat, NEW a \in 1..Len(shape), NEW arrays,
         Shaped(shape, max_n, a, arrays[a]),
         a # 1 => /\ Shaped(shape, max_n, a - 1, arrays[a - 1])
                  /\ Handed(p, a - 1, arrays[a - 1], n, now)
  PROVE  LET next == Net!Entered(a, condition, arrays) IN
         /\ Shaped(shape, max_n, a, next)
         /\ next.layers = arrays[a].layers /\ next.headHistory = arrays[a].headHistory
         /\ Agrees(next.io[0], n, Trunk(shape, a, 0), now, Since(shape, p, a, 0))
         /\ Agrees(next.sum, n, Summed(shape, a, 0), now, Since(shape, p, a, 0))
<1> DEFINE array == arrays[a]
           before == arrays[a - 1]
           whole == WholeArrays(shape)[a - 1]
           from == Since(shape, p, a, 0)
           ends == Net!EndsWith(shape[a - 1].layers)
           trunk == IF a = 1 THEN condition ELSE Net!First(n, before.io[ends])
           base == IF a = 1 THEN Net!Zeros(n) ELSE Net!First(n, before.head)
           scaled == Scaled(a, Rechannel, trunk)
           first == Net!Write(array.io[0], scaled)
           sum == Net!Write(array.sum, base)
           next == Net!Entered(a, condition, arrays)
<1>1. p \in Int /\ n \in Nat /\ n <= max_n /\ now \in Int /\ now + n <= MaxFed
      /\ Feeds(condition, n, now)
  BY DEF Block
<1>2. Len(shape) \in Nat /\ 0 \in 0..Len(shape[a].layers)
  BY ShapeIs
<1>3. from \in Int /\ from = Totals(Reaches(shape), Len(shape))[a - 1] - p
  BY <1>1, <1>2, SinceGrows
<1>4. a - 1 \in 0..Len(shape)
  BY <1>2
<1>5. DOMAIN whole.trunk = Times /\ DOMAIN whole.sum = Times
  BY <1>4, ArraysSignals
<1>6. Trunk(shape, a, 0) = Scaled(a, Rechannel, whole.trunk) /\ Summed(shape, a, 0) = whole.sum
  BY TrunkWalk
<1>7. Len(condition) = n
  BY <1>1, FeedsAgrees
<1> HIDE DEF from
<1>8. /\ IsList(trunk, n) /\ Agrees(trunk, n, whole.trunk, now, from)
      /\ IsList(base, n) /\ Agrees(base, n, whole.sum, now, from)
  <2>1. CASE a = 1
    <3>1. whole = [trunk |-> Condition, sum |-> [t \in Times |-> 0]]
      BY <1>2, <2>1, ArraysAre
    <3>2. IsList(condition, n) /\ Agrees(condition, n, Condition, now, from)
      BY <1>1, <1>3, FeedsAgrees
    <3>3. \A t \in Int : t < MaxFed => Past([u \in Times |-> 0], t) = 0
      BY NowAndThen DEF Past
    <3>4. ASSUME NEW i \in 1..n PROVE Past([u \in Times |-> 0], now + i - 1) = 0
      <4>1. now + i - 1 \in Int /\ now + i - 1 < MaxFed
        BY <1>1, WaveNetAssumption
      <4> QED
        BY <3>3, <4>1
    <3>5. IsList(Net!Zeros(n), n) /\ \A i \in 1..n : Net!Zeros(n)[i] = 0
      BY <1>1, ZerosAre
    <3>6. Agrees(Net!Zeros(n), n, [t \in Times |-> 0], now, from)
      BY <3>4, <3>5 DEF Agrees
    <3> QED
      BY <2>1, <3>1, <3>2, <3>5, <3>6
  <2>2. CASE a # 1
    <3> DEFINE b == a - 1
    <3>1. b \in 1..Len(shape)
      BY <1>2, <2>2
    <3>2. Shaped(shape, max_n, b, before) /\ Handed(p, b, before, n, now)
      BY <2>2
    <3> HIDE DEF b
    <3>3. ends = Len(shape[b].layers) % 2 /\ ends \in 0..1
      <4>1. Len(shape[b].layers) \in Nat
        BY <3>1, ShapeIs
      <4>2. ends = Len(shape[b].layers) % 2
        BY DEF Net!EndsWith, b
      <4>3. \A k \in Nat : k % 2 \in 0..1
        OBVIOUS
      <4> QED
        BY <4>1, <4>2, <4>3
    <3> HIDE DEF before, whole, ends
    <3>4. IsList(before.io[ends], max_n) /\ IsList(before.head, max_n)
      BY <3>2, <3>3 DEF Shaped
    <3>5. /\ Agrees(before.io[ends], n, whole.trunk, now, from)
          /\ Agrees(before.head, n, whole.sum, now, from)
      BY <1>3, <3>2, <3>3 DEF Handed, b, whole
    <3>6. /\ IsList(Net!First(n, before.io[ends]), n)
          /\ Agrees(Net!First(n, before.io[ends]), n, whole.trunk, now, from)
      BY <1>1, <3>4, <3>5, FirstOf, AgreesFirst
    <3>7. /\ IsList(Net!First(n, before.head), n)
          /\ Agrees(Net!First(n, before.head), n, whole.sum, now, from)
      BY <1>1, <3>4, <3>5, FirstOf, AgreesFirst
    <3> QED
      BY <2>2, <3>6, <3>7
  <2> QED
    BY <2>1, <2>2
<1>9. next = Entering(array, first, sum)
  BY <1>7, SameParts DEF Net!Entered, Entering
<1> HIDE DEF trunk, base, whole, next, array
<1>10. IsList(scaled, n) /\ Agrees(scaled, n, Scaled(a, Rechannel, whole.trunk), now, from)
  BY <1>1, <1>3, <1>5, <1>8, AgreesScaled
<1> HIDE DEF scaled
<1>11. /\ array.io = [b \in 0..1 |-> array.io[b]] /\ \A b \in 0..1 : IsList(array.io[b], max_n)
       /\ IsList(array.sum, max_n)
  BY DEF Shaped, array
<1>12. IsList(first, max_n) /\ Agrees(first, n, Scaled(a, Rechannel, whole.trunk), now, from)
  <2>1. IsList(array.io[0], max_n)
    BY <1>11
  <2> QED
    BY <1>1, <1>10, <2>1, Written, AgreesWritten
<1>13. IsList(sum, max_n) /\ Agrees(sum, n, whole.sum, now, from)
  BY <1>1, <1>8, <1>11, Written, AgreesWritten
<1> HIDE DEF first, sum
<1> DEFINE io == [array.io EXCEPT ![0] = first]
<1>14. next = [io |-> io, sum |-> sum, head |-> array.head, layers |-> array.layers,
               headHistory |-> array.headHistory]
  BY <1>9, EnteringIs DEF array
<1>15. io[0] = first /\ io = [b \in 0..1 |-> io[b]] /\ \A b \in 0..1 : IsList(io[b], max_n)
  BY <1>11, <1>12
<1> HIDE DEF io
<1>16. /\ next.io = io /\ next.sum = sum /\ next.head = array.head
       /\ next.layers = array.layers /\ next.headHistory = array.headHistory
  BY <1>14
<1>17. Shaped(shape, max_n, a, next)
  <2>1. Shaped(shape, max_n, a, array)
    BY DEF array
  <2> QED
    BY <1>13, <1>14, <1>15, <1>16, <2>1 DEF Shaped
<1>18. /\ Agrees(next.io[0], n, Trunk(shape, a, 0), now, from)
       /\ Agrees(next.sum, n, Summed(shape, a, 0), now, from)
  BY <1>6, <1>12, <1>13, <1>15, <1>16
<1> QED
  BY <1>16, <1>17, <1>18 DEF next, array, from

LEMMA HeadedWhole ==
  ASSUME NEW p, NEW condition, NEW n, NEW now, Block(p, condition, n, now),
         shape \in Shapes, max_n \in Nat, NEW a \in 1..Len(shape), NEW array,
         Shaped(shape, max_n, a, array), KeepsHead(shape, p, a, array.headHistory, now),
         Agrees(array.sum, n, Summed(shape, a, Len(shape[a].layers)), now,
                Since(shape, p, a, Len(shape[a].layers)))
  PROVE  LET next == Net!Headed(a, n, array) IN
         /\ Shaped(shape, max_n, a, next)
         /\ next.io = array.io /\ next.layers = array.layers
         /\ KeepsHead(shape, p, a, next.headHistory, now + n)
         /\ Agrees(next.head, n, WholeArrays(shape)[a].sum, now,
                   Totals(Reaches(shape), Len(shape))[a] - p)
<1> DEFINE count == Len(shape[a].layers)
           conv == shape[a].head
           reach == HistoryLen(conv)
           from == Since(shape, p, a, count)
           signal == Summed(shape, a, count)
           memory == array.headHistory
           sum == Net!First(n, array.sum)
           padded == Glued(memory, sum)
           made == Net!Convolved(a, HeadTaps, conv, padded, n)
           whole == WholeConv(a, HeadTaps, conv, signal)
           head == Net!Write(array.head, made)
           kept == Net!Slid(memory, sum)
           next == Net!Headed(a, n, array)
<1>1. p \in Int /\ n \in Nat /\ n <= max_n /\ now \in Int /\ now + n <= MaxFed
  BY DEF Block
<1>2. conv \in Convolutions /\ count \in 0..count
  BY ShapeIs
<1>3. reach \in Nat /\ from \in Int /\ Totals(Reaches(shape), Len(shape))[a] - p = from + reach
  BY <1>1, <1>2, SinceGrows
<1>4. WholeArrays(shape)[a].sum = whole
  BY TrunkWalk
<1>5. IsList(memory, reach) /\ IsList(array.sum, max_n) /\ IsList(array.head, max_n)
  BY DEF Shaped
<1>6. Agrees(memory, reach, signal, now - reach, from)
  BY DEF KeepsHead
<1>7. next = Heading(array, head, kept)
  BY SameParts DEF Net!Headed, Heading, Glued
<1>8. IsList(sum, n) /\ Agrees(sum, n, signal, now, from)
  BY <1>1, <1>5, FirstOf, AgreesFirst
<1> HIDE DEF conv, from, signal, memory, sum, next
<1>9. Agrees(padded, reach + n, signal, now - reach, from)
  BY <1>1, <1>3, <1>5, <1>6, <1>8, AgreesJoined
<1> HIDE DEF padded
<1>10. IsList(made, n) /\ Agrees(made, n, whole, now, from + reach)
  BY <1>1, <1>2, <1>3, <1>9, ConvolvedWhole
<1> HIDE DEF made, whole
<1>11. IsList(head, max_n) /\ Agrees(head, n, whole, now, from + reach)
  BY <1>1, <1>5, <1>10, Written, AgreesWritten
<1> HIDE DEF reach
<1>12. IsList(kept, reach) /\ Agrees(kept, reach, signal, now + n - reach, from)
  BY <1>1, <1>3, <1>5, <1>6, <1>8, SlidIs, AgreesSlid
<1> HIDE DEF head, kept
<1>13. next = [io |-> array.io, sum |-> array.sum, head |-> head, layers |-> array.layers,
               headHistory |-> kept]
  BY <1>7, HeadingIs
<1>14. /\ next.io = array.io /\ next.sum = array.sum /\ next.head = head
       /\ next.layers = array.layers /\ next.headHistory = kept
  BY <1>13
<1>15. Shaped(shape, max_n, a, next)
  BY <1>11, <1>12, <1>13, <1>14 DEF Shaped, reach, conv
<1>16. KeepsHead(shape, p, a, kept, now + n)
  BY <1>1, <1>3, <1>12 DEF KeepsHead, reach, conv, from, signal
<1> QED
  BY <1>3, <1>4, <1>11, <1>14, <1>15, <1>16 DEF next

\* What the convolutions of an array keep up to a time.
Kept(s, p, a, array, now) ==
  /\ \A l \in 1..Len(s[a].layers) : Keeps(s, p, a, l, array.layers[l], now)
  /\ KeepsHead(s, p, a, array.headHistory, now)

LEMMA ThroughWhole ==
  ASSUME NEW p, NEW condition, NEW n, NEW now, Block(p, condition, n, now),
         shape \in Shapes, max_n \in Nat, NEW a \in 1..Len(shape), NEW arrays,
         Shaped(shape, max_n, a, arrays[a]), Kept(shape, p, a, arrays[a], now),
         a # 1 => /\ Shaped(shape, max_n, a - 1, arrays[a - 1])
                  /\ Handed(p, a - 1, arrays[a - 1], n, now)
  PROVE  LET next == Through(a, condition, arrays) IN
         /\ Shaped(shape, max_n, a, next)
         /\ Kept(shape, p, a, next, now + n)
         /\ Handed(p, a, next, n, now)
<1> DEFINE count == Len(shape[a].layers)
           entered == Net!Entered(a, condition, arrays)
           layered == Net!Layered(a, condition, entered)[count]
           next == Through(a, condition, arrays)
           from == Totals(Reaches(shape), Len(shape))[a] - p
<1>1. p \in Int /\ n \in Nat /\ n <= max_n /\ now \in Int /\ now + n <= MaxFed
      /\ Feeds(condition, n, now)
  BY DEF Block
<1>2. Len(condition) = n
  BY <1>1, FeedsAgrees
<1>3. next = Net!Headed(a, n, layered)
  BY <1>2 DEF Through
<1>4. /\ Shaped(shape, max_n, a, entered)
      /\ entered.layers = arrays[a].layers /\ entered.headHistory = arrays[a].headHistory
      /\ Agrees(entered.io[0], n, Trunk(shape, a, 0), now, Since(shape, p, a, 0))
      /\ Agrees(entered.sum, n, Summed(shape, a, 0), now, Since(shape, p, a, 0))
  BY EnteredWhole
<1> HIDE DEF entered
<1>5. \A l \in 1..count : Keeps(shape, p, a, l, entered.layers[l], now)
  BY <1>4 DEF Kept
<1>6. /\ Shaped(shape, max_n, a, layered)
      /\ layered.headHistory = entered.headHistory
      /\ \A l \in 1..count : Keeps(shape, p, a, l, layered.layers[l], now + n)
      /\ Agrees(layered.io[count % 2], n, Trunk(shape, a, count), now, Since(shape, p, a, count))
      /\ Agrees(layered.sum, n, Summed(shape, a, count), now, Since(shape, p, a, count))
  BY <1>4, <1>5, LayeredWhole
<1> HIDE DEF layered, next
<1>7. KeepsHead(shape, p, a, layered.headHistory, now)
  BY <1>4, <1>6 DEF Kept
<1>8. /\ Shaped(shape, max_n, a, next)
      /\ next.io = layered.io /\ next.layers = layered.layers
      /\ KeepsHead(shape, p, a, next.headHistory, now + n)
      /\ Agrees(next.head, n, WholeArrays(shape)[a].sum, now, from)
  BY <1>3, <1>6, <1>7, HeadedWhole
<1>9. Kept(shape, p, a, next, now + n)
  BY <1>6, <1>8 DEF Kept
<1>10. Agrees(next.io[count % 2], n, WholeArrays(shape)[a].trunk, now, from)
  <2>1. WholeArrays(shape)[a].trunk = Trunk(shape, a, count)
    BY TrunkWalk
  <2>2. count \in Nat /\ count \in 0..count
    BY ShapeIs
  <2>3. /\ Since(shape, p, a, count) \in Int /\ HistoryLen(shape[a].head) \in Nat
        /\ from = Since(shape, p, a, count) + HistoryLen(shape[a].head)
    BY <1>1, <2>2, SinceGrows
  <2>4. from \in Int /\ Since(shape, p, a, count) <= from
    BY <2>3
  <2> HIDE DEF from, count
  <2>5. Agrees(next.io[count % 2], n, Trunk(shape, a, count), now, Since(shape, p, a, count))
    BY <1>6, <1>8
  <2>6. Agrees(next.io[count % 2], n, Trunk(shape, a, count), now, from)
    BY <1>1, <2>3, <2>4, <2>5, AgreesLater
  <2> QED
    BY <2>1, <2>6
<1>11. Handed(p, a, next, n, now)
  BY <1>8, <1>10 DEF Handed
<1> QED
  BY <1>8, <1>9, <1>11 DEF next

\* Every array's buffers, and what its convolutions keep.
Ready(s, p, m, arrays, now) ==
  /\ arrays = [a \in 1..Len(s) |-> arrays[a]]
  /\ \A a \in 1..Len(s) : Shaped(s, m, a, arrays[a]) /\ Kept(s, p, a, arrays[a], now)

\* Every array of the network, one after another.
LEMMA ProcessedWhole ==
  ASSUME NEW p, NEW condition, NEW n, NEW now, Block(p, condition, n, now),
         shape \in Shapes, max_n \in Nat, Ready(shape, p, max_n, buffers, now)
  PROVE  LET count == Len(shape)
             next == Net!Processed(condition)[count]
         IN  /\ Ready(shape, p, max_n, next, now + n)
             /\ Agrees(next[count].head, n, WholeArrays(shape)[count].sum, now,
                       Totals(Reaches(shape), count)[count] - p)
<1> DEFINE count == Len(shape)
           after == Net!Processed(condition)
           Good(a) ==
             /\ after[a] = [b \in 1..count |-> after[a][b]]
             /\ \A b \in 1..count : Shaped(shape, max_n, b, after[a][b])
             /\ \A b \in 1..a : Kept(shape, p, b, after[a][b], now + n)
             /\ \A b \in (a + 1)..count : Kept(shape, p, b, after[a][b], now)
             /\ a # 0 => Handed(p, a, after[a][a], n, now)
           S == {a \in Nat : a <= count => Good(a)}
<1>1. count \in Nat /\ count > 0
  BY ShapeIs
<1>2. /\ after[0] = buffers
      /\ \A a \in 1..count :
           after[a] = [after[a - 1] EXCEPT ![a] = Through(a, condition, after[a - 1])]
  BY <1>1, ProcessedAre
<1> HIDE DEF after
<1>3. 0 \in S
  <2>1. 0 + 1 = 1 /\ 1..0 = {}
    OBVIOUS
  <2>2. Good(0)
    BY <1>2, <2>1 DEF Ready
  <2> QED
    BY <2>2
<1>4. ASSUME NEW k \in Nat, k \in S PROVE k + 1 \in S
  <2> SUFFICES ASSUME k + 1 <= count PROVE Good(k + 1)
    OBVIOUS
  <2> DEFINE a == k + 1
             before == after[k]
             through == Through(a, condition, before)
  <2>1. a \in 1..count /\ a - 1 = k /\ a \in Nat /\ a = k + 1 /\ a <= count /\ a \in (k + 1)..count
    BY <1>1
  <2>2. Good(k)
    BY <1>1, <1>4
  <2> HIDE DEF a
  <2>3. after[a] = [before EXCEPT ![a] = through]
    BY <1>2, <2>1
  <2>4. /\ before = [b \in 1..count |-> before[b]]
        /\ \A b \in 1..count : Shaped(shape, max_n, b, before[b])
        /\ \A b \in 1..k : Kept(shape, p, b, before[b], now + n)
        /\ \A b \in (k + 1)..count : Kept(shape, p, b, before[b], now)
        /\ k # 0 => Handed(p, k, before[k], n, now)
    BY <2>2
  <2> HIDE DEF before
  <2>5. a # 1 => k # 0 /\ k \in 1..count
    BY <2>1
  <2>6. Shaped(shape, max_n, a, before[a]) /\ Kept(shape, p, a, before[a], now)
    BY <2>1, <2>4
  <2>7. a # 1 => /\ Shaped(shape, max_n, a - 1, before[a - 1])
                 /\ Handed(p, a - 1, before[a - 1], n, now)
    BY <2>1, <2>4, <2>5
  <2>8. /\ Shaped(shape, max_n, a, through)
        /\ Kept(shape, p, a, through, now + n)
        /\ Handed(p, a, through, n, now)
    BY <2>1, <2>6, <2>7, ThroughWhole
  <2> HIDE DEF through
  <2>9. /\ after[a] = [b \in 1..count |-> after[a][b]]
        /\ after[a][a] = through
        /\ \A b \in 1..count : b # a => after[a][b] = before[b]
    BY <2>1, <2>3, <2>4
  <2> HIDE DEF count
  <2>10. \A b \in 1..count : Shaped(shape, max_n, b, after[a][b])
    BY <2>4, <2>8, <2>9
  <2>11. ASSUME NEW b \in 1..a PROVE Kept(shape, p, b, after[a][b], now + n)
    <3>1. CASE b = a
      BY <2>8, <2>9, <3>1
    <3>2. CASE b # a
      <4>1. b \in 1..k /\ b \in 1..count
        BY <1>1, <2>1, <3>2
      <4> QED
        BY <2>4, <2>9, <3>2, <4>1
    <3> QED
      BY <3>1, <3>2
  <2>12. ASSUME NEW b \in (a + 1)..count PROVE Kept(shape, p, b, after[a][b], now)
    <3>1. b \in (k + 1)..count /\ b \in 1..count /\ b # a
      BY <1>1, <2>1
    <3> QED
      BY <2>4, <2>9, <3>1
  <2>13. Good(a)
    BY <2>8, <2>9, <2>10, <2>11, <2>12
  <2> QED
    BY <2>13 DEF a
<1>5. \A a \in Nat : a \in S
  BY <1>3, <1>4, AllNumbers
<1> HIDE DEF count
<1>6. Good(count) /\ count # 0 /\ count \in 1..count
  <2>1. count \in S
    BY <1>1, <1>5
  <2>2. Good(count)
    BY <1>1, <2>1
  <2> QED
    BY <1>1, <2>2
<1>7. Ready(shape, p, max_n, after[count], now + n)
  BY <1>6 DEF Ready, count
<1>8. Agrees(after[count][count].head, n, WholeArrays(shape)[count].sum, now,
             Totals(Reaches(shape), count)[count] - p)
  BY <1>6 DEF Handed, count
<1> QED
  BY <1>7, <1>8 DEF after, count

\* Before the input comes the silence a model is warmed up on: what is whole, and
\* from when, does not depend on how the two are cut into blocks.
WaveNetInv ==
  /\ shape \in Shapes /\ max_n \in Nat /\ remaining \in Nat /\ warmed \in Nat
  /\ fed \in Nat /\ fed <= MaxFed
  /\ remaining > 0 => fed = 0 /\ played = <<>>
  /\ Ready(shape, warmed + remaining, max_n, buffers, fed - remaining)
  /\ OutputIsWhole

\* Nothing is said of a history older than the silence.
LEMMA NothingKept ==
  ASSUME NEW memory, NEW reach \in Nat, NEW sig, NEW p \in Int, NEW from \in Int, from >= - p
  PROVE  Agrees(memory, reach, sig, - p - reach, from)
<1>1. \A i \in 1..reach : - p - reach + i - 1 < from
  OBVIOUS
<1> QED
  BY <1>1 DEF Agrees

LEMMA NewArrayShaped ==
  ASSUME NEW s \in Shapes, NEW a \in 1..Len(s), NEW m \in Nat
  PROVE  Shaped(s, m, a, Net!NewArray(s[a], m))
<1> DEFINE reaches(l) == HistoryLen(s[a].layers[l])
           array == Net!NewArray(s[a], m)
           io == [b \in 0..1 |-> Net!Zeros(m)]
           layers == [l \in DOMAIN s[a].layers |-> Net!Zeros(reaches(l))]
           memory == Net!Zeros(HistoryLen(s[a].head))
<1>1. /\ s[a].head \in Convolutions /\ DOMAIN s[a].layers = 1..Len(s[a].layers)
      /\ \A l \in 1..Len(s[a].layers) : s[a].layers[l] \in Convolutions
  BY ShapeIs
<1>2. HistoryLen(s[a].head) \in Nat /\ \A l \in 1..Len(s[a].layers) : reaches(l) \in Nat
  BY <1>1, HistoryNat
<1>3. array = [io |-> io, sum |-> Net!Zeros(m), head |-> Net!Zeros(m), layers |-> layers,
               headHistory |-> memory]
  BY SameParts DEF Net!NewArray
<1>4. \A k \in Nat : IsList(Net!Zeros(k), k)
  BY ZerosAre
<1>5. /\ io = [b \in 0..1 |-> io[b]] /\ \A b \in 0..1 : IsList(io[b], m)
      /\ layers = [l \in DOMAIN s[a].layers |-> layers[l]]
      /\ \A l \in 1..Len(s[a].layers) : IsList(layers[l], reaches(l))
      /\ IsList(memory, HistoryLen(s[a].head)) /\ IsList(Net!Zeros(m), m)
  BY <1>1, <1>2, <1>4
<1> HIDE DEF array, io, layers, memory
<1>6. /\ array.io = io /\ array.sum = Net!Zeros(m) /\ array.head = Net!Zeros(m)
      /\ array.layers = layers /\ array.headHistory = memory
  BY <1>3
<1> QED
  BY <1>3, <1>5, <1>6 DEF Shaped, array

LEMMA WaveNetStarts == Net!Init => WaveNetInv
<1> SUFFICES ASSUME Net!Init PROVE WaveNetInv
  OBVIOUS
<1>1. shape \in Shapes /\ max_n \in Nat /\ prewarm \in Nat /\ MaxFed \in Nat
  BY WaveNetAssumption DEF Net!Init
<1>2. /\ Len(shape) \in Nat /\ DOMAIN shape = 1..Len(shape)
      /\ \A a \in 1..Len(shape) : Len(shape[a].layers) \in Nat
  BY <1>1, ShapeIs
<1>3. PrewarmSamples(shape) \in Nat
  <2>1. \A a \in 1..Len(shape) : Reaches(shape)[a] \in Nat
    BY <1>1, ReachesNat
  <2>2. Total(Reaches(shape), Len(shape)) \in Nat
    BY <1>2, <2>1, TotalsNat DEF Total
  <2> QED
    BY <2>2 DEF PrewarmSamples
<1>4. Net!PrewarmSamples(shape) = PrewarmSamples(shape)
  BY DEF Net!PrewarmSamples, PrewarmSamples, Net!Reaches, Reaches, Net!LayerSamples, LayerSamples,
         Net!LayerReaches, LayerReaches, Net!Total, Total, Net!Totals, Totals,
         Net!HistoryLen, HistoryLen
<1>5. warmed = 0 /\ fed = 0 /\ played = <<>> /\ remaining \in Nat
  BY <1>1, <1>3, <1>4 DEF Net!Init
<1> DEFINE p == warmed + remaining
<1>6. p \in Int /\ fed - remaining = - p
  BY <1>5
<1>7. buffers = [a \in 1..Len(shape) |-> Net!NewArray(shape[a], max_n)]
  BY <1>2 DEF Net!Init
<1> HIDE DEF p
<1>8. \A a \in 1..Len(shape) : Shaped(shape, max_n, a, buffers[a])
  BY <1>1, <1>7, NewArrayShaped
<1>9. ASSUME NEW a \in 1..Len(shape) PROVE Kept(shape, p, a, buffers[a], - p)
  <2>1. ASSUME NEW l \in 1..Len(shape[a].layers)
        PROVE  Keeps(shape, p, a, l, buffers[a].layers[l], - p)
    <3>1. shape[a].layers[l] \in Convolutions /\ l - 1 \in 0..Len(shape[a].layers)
      BY <1>1, <1>2, ShapeIs
    <3>2. HistoryLen(shape[a].layers[l]) \in Nat
      BY <3>1, HistoryNat
    <3>3. Since(shape, p, a, l - 1) \in Int /\ Since(shape, p, a, l - 1) >= - p
      BY <1>1, <1>6, <3>1, SinceGrows
    <3> QED
      BY <1>6, <3>2, <3>3, NothingKept DEF Keeps
  <2>2. KeepsHead(shape, p, a, buffers[a].headHistory, - p)
    <3>1. shape[a].head \in Convolutions /\ Len(shape[a].layers) \in 0..Len(shape[a].layers)
      BY <1>1, <1>2, ShapeIs
    <3>2. HistoryLen(shape[a].head) \in Nat
      BY <3>1, HistoryNat
    <3>3. /\ Since(shape, p, a, Len(shape[a].layers)) \in Int
          /\ Since(shape, p, a, Len(shape[a].layers)) >= - p
      BY <1>1, <1>6, <3>1, SinceGrows
    <3> QED
      BY <1>6, <3>2, <3>3, NothingKept DEF KeepsHead
  <2> QED
    BY <2>1, <2>2 DEF Kept
<1>10. Ready(shape, p, max_n, buffers, - p)
  <2>1. buffers = [a \in 1..Len(shape) |-> buffers[a]]
    BY <1>7
  <2> QED
    BY <1>8, <1>9, <2>1 DEF Ready
<1>11. OutputIsWhole
  BY <1>5 DEF OutputIsWhole
<1>12. Ready(shape, warmed + remaining, max_n, buffers, fed - remaining)
  BY <1>6, <1>10 DEF p
<1> QED
  BY <1>1, <1>5, <1>11, <1>12 DEF WaveNetInv

LEMMA WarmStaysWhole == WaveNetInv /\ Net!Warm => WaveNetInv'
<1> SUFFICES ASSUME WaveNetInv, Net!Warm PROVE WaveNetInv'
  OBVIOUS
<1> DEFINE n == IF remaining < max_n THEN remaining ELSE max_n
           p == warmed + remaining
           now == fed - remaining
<1>1. /\ shape \in Shapes /\ max_n \in Nat /\ remaining \in Nat /\ warmed \in Nat
      /\ fed = 0 /\ played = <<>> /\ remaining > 0
      /\ Ready(shape, p, max_n, buffers, now)
  BY DEF WaveNetInv, Net!Warm
<1>2. /\ buffers' = Net!Processed(Net!Zeros(n))[Len(shape)]
      /\ remaining' = remaining - n /\ warmed' = warmed + n
      /\ shape' = shape /\ max_n' = max_n /\ fed' = fed /\ played' = played
  BY DEF Net!Warm
<1>3. n \in Nat /\ n <= max_n /\ n <= remaining /\ MaxFed \in Nat
  BY <1>1, WaveNetAssumption
<1> HIDE DEF n
<1>4. /\ p \in Int /\ now \in Int /\ now + n <= MaxFed /\ now + n <= 0
      /\ warmed' + remaining' = p /\ fed' - remaining' = now + n
      /\ remaining' \in Nat /\ warmed' \in Nat
  BY <1>1, <1>2, <1>3
<1> HIDE DEF p, now
<1>5. Feeds(Net!Zeros(n), n, now)
  <2>1. \A t \in Int : t < 0 => Past(Condition, t) = 0
    <3>1. Condition[-1] = 0
      BY NowAndThen DEF Condition
    <3>2. \A t \in Int : t < 0 => t < -1 \/ t = -1
      OBVIOUS
    <3> QED
      BY <3>1, <3>2 DEF Past
  <2>2. ASSUME NEW i \in 1..n PROVE Past(Condition, now + i - 1) = 0
    <3>1. now + i - 1 \in Int /\ now + i - 1 < 0
      BY <1>3, <1>4
    <3> QED
      BY <2>1, <3>1
  <2>3. IsList(Net!Zeros(n), n) /\ \A i \in 1..n : Net!Zeros(n)[i] = 0
    BY <1>3, ZerosAre
  <2> QED
    BY <2>2, <2>3 DEF Feeds
<1>6. Block(p, Net!Zeros(n), n, now)
  BY <1>3, <1>4, <1>5 DEF Block
<1>7. Ready(shape, p, max_n, buffers', now + n)
  BY <1>1, <1>2, <1>6, ProcessedWhole
<1>8. Ready(shape, warmed + remaining, max_n, buffers, fed - remaining)'
  BY <1>2, <1>4, <1>7
<1>9. OutputIsWhole'
  BY <1>1, <1>2 DEF OutputIsWhole
<1> QED
  BY <1>1, <1>2, <1>3, <1>4, <1>8, <1>9 DEF WaveNetInv

LEMMA ProcessStaysWhole ==
  ASSUME NEW n \in Nat, n <= max_n, WaveNetInv, Net!Process(n)
  PROVE  WaveNetInv'
<1> DEFINE p == warmed + remaining
           condition == [i \in 1..n |-> Input(fed + i - 1) % Prime]
           count == Len(shape)
           next == Net!Processed(condition)[count]
           whole == WholeArrays(shape)[count].sum
<1>1. /\ shape \in Shapes /\ max_n \in Nat /\ warmed \in Nat /\ fed \in Nat
      /\ remaining = 0 /\ fed + n <= MaxFed /\ MaxFed \in Nat /\ p = warmed /\ fed - remaining = fed
      /\ Ready(shape, p, max_n, buffers, fed)
  <2>1. fed - 0 = fed /\ \A x \in Nat : x + 0 = x
    BY DEF WaveNetInv
  <2> QED
    BY <2>1, WaveNetAssumption DEF WaveNetInv, Net!Process
<1>2. /\ buffers' = next /\ fed' = fed + n /\ played' = Net!First(n, buffers'[count].head)
      /\ shape' = shape /\ max_n' = max_n /\ remaining' = remaining /\ warmed' = warmed
  BY DEF Net!Process
<1>3. Feeds(condition, n, fed)
  <2>1. ASSUME NEW i \in 1..n PROVE Past(Condition, fed + i - 1) = Input(fed + i - 1) % Prime
    <3>1. fed + i - 1 \in Nat /\ fed + i - 1 < MaxFed /\ ~(fed + i - 1 < -1)
          /\ fed + i - 1 # -1
      BY <1>1
    <3>2. fed + i - 1 \in Times
      BY <3>1, NowAndThen
    <3> QED
      BY <3>1, <3>2 DEF Past, Condition
  <2>2. IsList(condition, n)
    BY DEF IsList
  <2> QED
    BY <2>1, <2>2 DEF Feeds
<1> HIDE DEF condition, p
<1>4. Block(p, condition, n, fed)
  BY <1>1, <1>3 DEF Block
<1>5. /\ Ready(shape, p, max_n, next, fed + n)
      /\ Agrees(next[count].head, n, whole, fed, Totals(Reaches(shape), count)[count] - p)
  BY <1>1, <1>4, ProcessedWhole
<1>6. IsList(next[count].head, max_n)
  <2>1. count \in 1..count
    BY <1>1, ShapeIs
  <2> QED
    BY <1>5, <2>1 DEF Ready, Shaped
<1> HIDE DEF next, count, whole
<1>7. IsList(played', n) /\ Agrees(played', n, whole, fed, Totals(Reaches(shape), count)[count] - p)
  BY <1>1, <1>2, <1>5, <1>6, FirstOf, AgreesFirst
<1>8. OutputIsWhole'
  <2>1. Len(played') = n /\ DOMAIN played' = 1..n
    BY <1>7, ListLen
  <2>2. Wholes[shape] = whole
    BY <1>1 DEF Wholes, whole, count
  <2>3. PrewarmSamples(shape) = 1 + Totals(Reaches(shape), count)[count]
    BY DEF PrewarmSamples, Total, count
  <2>4. Totals(Reaches(shape), count)[count] \in Nat
    <3>1. count \in Nat /\ count \in 0..count
      BY <1>1, ShapeIs DEF count
    <3>2. \A a \in 1..count : Reaches(shape)[a] \in Nat
      BY <1>1, ReachesNat DEF count
    <3> QED
      BY <3>1, <3>2, TotalsNat
  <2>5. ASSUME NEW i \in 1..n, warmed + fed + i >= PrewarmSamples(shape)
        PROVE  played'[i] = Wholes[shape][fed + i - 1]
    <3>1. fed + i - 1 >= Totals(Reaches(shape), count)[count] - p /\ ~(fed + i - 1 < -1)
      BY <1>1, <2>3, <2>4, <2>5
    <3>2. played'[i] = Past(whole, fed + i - 1)
      BY <1>7, <3>1 DEF Agrees
    <3> QED
      BY <2>2, <3>1, <3>2 DEF Past
  <2>6. fed' - Len(played') = fed
    BY <1>1, <1>2, <2>1
  <2> QED
    BY <1>2, <2>1, <2>5, <2>6 DEF OutputIsWhole
<1>9. Ready(shape, warmed + remaining, max_n, buffers, fed - remaining)'
  <2>1. warmed' + remaining' = p /\ fed' - remaining' = fed + n
    BY <1>1, <1>2 DEF p
  <2> QED
    BY <1>2, <1>5, <2>1
<1> QED
  BY <1>1, <1>2, <1>8, <1>9 DEF WaveNetInv

\* A model run block by block, on silence first and then on the input, gives the
\* output of the network over the whole input at once, as soon as it has been fed
\* as much as it looks back on: for every shape of a network, all weights and
\* activations, every length of the blocks and of the silence
\* (model.rs:57-84, wavenet.rs:2018-2030).
THEOREM OutputStaysWhole == Net!Spec => []OutputIsWhole
<1>1. Net!Init => WaveNetInv
  BY WaveNetStarts
<1>2. WaveNetInv /\ [Net!Next]_Net!vars => WaveNetInv'
  <2> SUFFICES ASSUME WaveNetInv, [Net!Next]_Net!vars PROVE WaveNetInv'
    OBVIOUS
  <2>1. CASE Net!Warm
    BY <2>1, WarmStaysWhole
  <2>2. ASSUME NEW n \in 1..max_n, Net!Process(n) PROVE WaveNetInv'
    <3>1. max_n \in Nat
      BY DEF WaveNetInv
    <3>2. n \in Nat /\ n <= max_n
      BY <3>1
    <3> QED
      BY <2>2, <3>2, ProcessStaysWhole
  <2>3. CASE UNCHANGED Net!vars
    <3>1. /\ shape' = shape /\ max_n' = max_n /\ remaining' = remaining /\ warmed' = warmed
          /\ fed' = fed /\ played' = played /\ buffers' = buffers
      BY <2>3 DEF Net!vars
    <3>2. OutputIsWhole'
      BY <3>1 DEF OutputIsWhole, WaveNetInv
    <3> QED
      BY <3>1, <3>2 DEF WaveNetInv
  <2> QED
    BY <2>1, <2>2, <2>3 DEF Net!Next
<1>3. WaveNetInv => OutputIsWhole
  BY DEF WaveNetInv
<1> QED
  BY <1>1, <1>2, <1>3, PTL DEF Net!Spec
=============================================================================
