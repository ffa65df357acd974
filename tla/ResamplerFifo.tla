---------------------------- MODULE ResamplerFifo ----------------------------
(***************************************************************************)
(* The two FIFOs of SlotResampler (namir-engine: stages/nam.rs), which let *)
(* a model run in whole ticks of EngineBlock frames under a host that asks *)
(* for any number of frames per call.  Only the lengths of the FIFOs are   *)
(* kept: the frames themselves pass through in order.                      *)
(*                                                                         *)
(* The source calls the bound on the FIFOs unproven and derives from the   *)
(* priming in `new` that the output never starves; both are theorems of    *)
(* ChainProofs.                                                            *)
(***************************************************************************)
EXTENDS Integers, EngineState

vars == <<inFifo, outFifo, frames, pc, spliced>>

\* SlotResampler::new.
Init ==
  /\ inFifo = 0 /\ outFifo = EngineBlock
  /\ frames = 0 /\ pc = "idle" /\ spliced = 0

\* process is called; the input is queued whole.
Push(n) ==
  /\ pc = "idle"
  /\ frames' = n /\ inFifo' = inFifo + n
  /\ pc' = "ticks"
  /\ UNCHANGED <<outFifo, spliced>>

TickDue == outFifo < frames /\ inFifo >= EngineBlock

\* One internal tick: a block in, a block out.
Tick ==
  /\ pc = "ticks" /\ TickDue
  /\ inFifo' = inFifo - EngineBlock
  /\ outFifo' = outFifo + EngineBlock
  /\ UNCHANGED <<frames, pc, spliced>>

Shortfall == IF outFifo < frames THEN frames - outFifo ELSE 0

\* The output is popped; what is missing is filled with silence.
Pop ==
  /\ pc = "ticks" /\ ~TickDue
  /\ outFifo' = outFifo - (frames - Shortfall)
  /\ spliced' = spliced + Shortfall
  /\ frames' = 0 /\ pc' = "idle"
  /\ UNCHANGED inFifo

\* Mutant: reset empties the FIFOs and forgets to prime again.
ResetUnprimed ==
  /\ pc = "idle"
  /\ inFifo' = 0 /\ outFifo' = 0
  /\ UNCHANGED <<frames, pc, spliced>>

\* NamStage::reset, on each resampled slot.
Reset ==
  /\ pc = "idle"
  /\ inFifo' = 0 /\ outFifo' = EngineBlock
  /\ UNCHANGED <<frames, pc, spliced>>

Next == (\E n \in 1..MaxBlock : Push(n)) \/ Tick \/ Pop \/ Reset

Spec == Init /\ [][Next]_vars

-----------------------------------------------------------------------------
TypeOK ==
  /\ inFifo \in Nat /\ outFifo \in Nat
  /\ frames \in 0..MaxBlock
  /\ pc \in {"idle", "ticks"}
  /\ spliced \in Nat

\* Between calls the two FIFOs together hold one engine block; within a call
\* they also hold the frames the call brought (nam.rs:510).
OneBlockInFlight == inFifo + outFifo = EngineBlock + frames

\* fifo_capacity in SlotResampler::new.
FifoCapacity == 16 * (EngineBlock + MaxBlock) + 4096

\* Neither FIFO outgrows one engine block and one host block, a sixteenth of what
\* new reserves, so no extend on the audio thread ever allocates (NFR-RT-010).
FifosFit ==
  /\ inFifo <= EngineBlock + MaxBlock
  /\ outFifo <= EngineBlock + MaxBlock
  /\ EngineBlock + MaxBlock <= FifoCapacity
=============================================================================
