----------------------------- MODULE EngineState -----------------------------
(* What ChainBypass and ResamplerFifo, two parts of the engine's signal path, *)
(* and their proofs are about: parameters, state, and the promises that other *)
(* modules cite.                                                              *)
EXTENDS Integers

------------------------------------------------------------------------------
(* The chain (ChainBypass).                                                   *)

CONSTANTS
    LineLength,     \* of a DelayLine: the longest delay it reaches, and one more
    Gradations,     \* positions of the crossfade above that of the stages alone
    MaxFrames,      \* max_block_size
    Latencies,      \* figures Chain::latency_samples may return
    MaxFrame        \* bound: frames processed

ASSUME ChainAssumption ==
    /\ LineLength \in Nat \ {0} /\ Gradations \in Nat \ {0, 1} /\ MaxFrames \in Nat \ {0}
    /\ Latencies \subseteq Nat /\ MaxFrame \in Nat

VARIABLES
    global_bypass,
    latency,    \* of the stages
    line,       \* per place of the delay line, the frame it holds; 0 is silence
    write,
    mix,        \* 0 the stages alone, Gradations the delayed input alone
    begun,      \* started
    left,       \* frames of the block still to do; 0 between blocks
    position,   \* of the crossfade within the block (m)
    frame,      \* frames processed
    heard,      \* the last frame put out: its dry frame and the weight of that, and
                \* whether the stages ran for it
    steady      \* frames processed since global_bypass last changed

chain == <<global_bypass, latency, line, write, mix, begun, left, position, frame, heard, steady>>

Target == IF global_bypass THEN Gradations ELSE 0
Delay  == IF latency < LineLength THEN latency ELSE LineLength - 1

\* Whenever the input is heard around the stages, whole or in a crossfade, it is
\* as late as the latency reported for this block: the line has been fed by every
\* block before, and a latency that has just risen finds the signal there and not
\* silence or what an earlier bypass left (issues #58, #59, #145; capture_dry).
DryIsInStep ==
    [][frame' # frame /\ heard'.weight > 0
         => heard'.dry = IF Delay < frame' THEN frame' - Delay ELSE 0]_chain

\* The bypass never steps: from one frame to the next, blocks and changes of mind
\* between them included, the balance moves by no more than the fade's largest
\* step.  And it ends: once as many frames as the fade is long and the rest of a
\* block have passed, one side is heard alone, to the bit, and a bypassed chain
\* has stopped running its stages (issue #142; blend, process).
FadesAndSettles ==
    [][frame' # frame =>
         /\ frame > 0 => heard'.weight - heard.weight \in -1..1
         /\ steady' >= Gradations + MaxFrames - 1
              => heard'.weight = Target /\ heard'.wet = ~global_bypass]_chain

------------------------------------------------------------------------------
(* The resampled slot (ResamplerFifo).                                        *)

CONSTANTS
  EngineBlock,   \* SlotResampler::engine_block, fixed by the two rates
  MaxBlock       \* max_block_size of the PrepareContext

ASSUME BlocksAssumption ==
  EngineBlock \in Nat \ {0} /\ MaxBlock \in Nat \ {0}

VARIABLES
  inFifo,    \* engine_in_fifo.len()
  outFifo,   \* engine_out_fifo.len()
  frames,    \* the length of the call in progress, input and output alike
  pc,        \* where process is
  spliced    \* frames of silence unwrap_or(0.0) has put into the output so far

\* No frame of silence is ever spliced into the signal, whatever block sizes the
\* host uses and however it mixes them with resets: the stage delays its input by
\* exactly one engine block, the figure latency_samples reports.
DelayIsConstant == spliced = 0
=============================================================================
