---------------------------- MODULE ImpulseState -----------------------------
(* What Convolver and its proofs are about: the parameters, the state and   *)
(* what is promised of it.                                                  *)
EXTENDS Integers, Sequences, FiniteSets, Bags, FiniteSetsExt

CONSTANTS
    Lengths,    \* ir_len
    Blocks,     \* block_size
    Growths,    \* growth_factor
    Ceilings,   \* max_partition
    Spoils,     \* times at which a sample may be non-finite
    MaxTime,    \* bound: samples processed
    Silence

ASSUME ConvolverAssumption ==
    /\ Lengths \cup Blocks \cup Growths \cup Ceilings \subseteq Nat \ {0}
    /\ Spoils \subseteq Nat /\ MaxTime \in Nat /\ Silence \notin Int

VARIABLES
    ir,         \* the prepared channel
    fault,      \* when the input is non-finite, Silence for never
    time,       \* t: samples processed
    unplayed,   \* of the samples of the call
    history,    \* head_history: times of the last samples
    windows,    \* stage |-> in_buf up to in_pos: times of samples
    ring,       \* the output yet to come
    out,        \* the output of the call
    fired       \* the stages whose window filled in the call

Least(a, b) == IF a < b THEN a ELSE b
Peers(parts, i)  == {j \in DOMAIN parts : parts[j].size = parts[i].size}
Phases(size, block) == size \div block

(* D-9.5: the output is the full time-domain convolution (direct_convolve): *)
(* every product once, at its time, whatever the schedule, the staggers and *)
(* the lengths of the calls. A non-finite sample may cost the output until  *)
(* the impulse response and the longest window have passed, and no longer.  *)
Direct(u) == SetToBag({<<k, u - k>> : k \in 0..Least(ir.len - 1, u)})
Largest   == Max({0} \cup {ir.stages[i].size : i \in DOMAIN ir.stages})
Spoilt(u) == fault # Silence /\ u \in fault..(fault + ir.len + Largest)

OutputIsConvolution ==
    \A i \in 1..(Len(out) - unplayed) :
        LET u == time + unplayed - Len(out) + i - 1 IN ~ Spoilt(u) => out[i] = Direct(u)

(* R-8: the transforms of one size are spread over the calls. No call pays  *)
(* for more than its share: the partitions of the size over its phases.     *)
LoadIsSpread ==
    \A i \in fired :
        LET peers  == Peers(ir.stages, i)
            phases == Phases(ir.stages[i].size, ir.block)
        IN Cardinality(fired \cap peers) <= (Cardinality(peers) + phases - 1) \div phases
=============================================================================
