---------------------------- MODULE WaveNetState -----------------------------
(* What WaveNet and its proofs are about: the parameters, the state, the      *)
(* network over all of its input at once, and the promise that the one run    *)
(* block by block is the same.                                                *)
(*                                                                            *)
(* A signal has one channel and its samples are residues of a prime: sums     *)
(* and products are exact, an activation is a polynomial, and a sample that   *)
(* is lost, repeated or taken at the wrong time shows in the output.          *)
EXTENDS Integers, Sequences

CONSTANTS
    Shapes,             \* sequences of arrays: [layers, head], a sequence of
                        \* convolutions and one more, all [kernel, dilation]
    Weight(_, _, _),    \* of an array, a part of it and a tap; tap 0 is the bias
    Activation(_),
    Input(_),           \* the sample at a time
    Prime,
    BlockSizes,         \* max_block_size
    Prewarms,           \* MAX_PREWARM_SAMPLES
    MaxFed              \* bound: samples processed

Convolutions == [kernel : Nat \ {0}, dilation : Nat \ {0}]
Arrays       == [layers : Seq(Convolutions), head : Convolutions]

ASSUME WaveNetAssumption ==
    /\ Shapes \subseteq Seq(Arrays) \ {<<>>}
    /\ Prime \in Nat \ {0} /\ BlockSizes \subseteq Nat \ {0}
    /\ Prewarms \subseteq Nat /\ MaxFed \in Nat

VARIABLES
    shape, max_n, prewarm,
    buffers,    \* per array, its buffers and the histories of its convolutions
    remaining,  \* of the silence
    warmed,     \* samples of silence fed
    fed,        \* samples of input fed
    played      \* of the last block

\* f[1] to f[n], and as many of them as one likes.
Totals(f, n) ==
    LET upTo[j \in 0..n] == IF j = 0 THEN 0 ELSE upTo[j - 1] + f[j] IN upTo
Total(f, n) == Totals(f, n)[n]

HistoryLen(conv) == (conv.kernel - 1) * conv.dilation
LayerReaches(array) == [l \in DOMAIN array.layers |-> HistoryLen(array.layers[l])]
LayerSamples(array) == Total(LayerReaches(array), Len(array.layers))
Reaches(s) == [a \in DOMAIN s |-> LayerSamples(s[a]) + HistoryLen(s[a].head)]

\* Mutant: the heads are taken to have no history.
PrewarmOfLayers(s) == 1 + Total([a \in DOMAIN s |-> LayerSamples(s[a])], Len(s))
PrewarmSamples(s) == 1 + Total(Reaches(s), Len(s))

\* The parts of an array, in the order of its weights.
Rechannel == 1
HeadTaps == 2
Dilated(l) == 3 * l
Mixin(l) == 3 * l + 1
Layer1x1(l) == 3 * l + 2

\* `Conv1x1::apply_into`, over a block or a whole signal, and `axpy`.
Scaled(a, part, s) == [i \in DOMAIN s |-> (Weight(a, part, 0) + Weight(a, part, 1) * s[i]) % Prime]
Mixed(s, t) == [i \in DOMAIN s |-> (s[i] + t[i]) % Prime]
Activated(s) == [i \in DOMAIN s |-> Activation(s[i]) % Prime]

------------------------------------------------------------------------------
(* The whole network. Silence precedes the input for ever: a signal is a      *)
(* function from the times since -1, and before that it is what it is at -1.  *)

Times == -1..(MaxFed - 1)
Past(s, t) == IF t < -1 THEN s[-1] ELSE s[t]
Condition == [t \in Times |-> IF t = -1 THEN 0 ELSE Input(t) % Prime]

WholeConv(a, part, conv, s) ==
    [t \in Times |-> (Weight(a, part, 0)
        + Total([k \in 1..conv.kernel |->
                  Weight(a, part, k) * Past(s, t - (conv.kernel - k) * conv.dilation)],
                conv.kernel)) % Prime]

\* The trunk and the head's sum after one more layer.
WholeLayer(a, l, conv, both) ==
    LET z == Activated(Mixed(WholeConv(a, Dilated(l), conv, both.trunk),
                             Scaled(a, Mixin(l), Condition)))
    IN [trunk |-> Mixed(Scaled(a, Layer1x1(l), z), both.trunk), sum |-> Mixed(both.sum, z)]

\* After every layer of an array, and after every array of the network.
WholeLayers(s, a, both) ==
    LET after[l \in 0..Len(s[a].layers)] ==
            IF l = 0 THEN [trunk |-> Scaled(a, Rechannel, both.trunk), sum |-> both.sum]
            ELSE WholeLayer(a, l, s[a].layers[l], after[l - 1])
    IN after
WholeArrays(s) ==
    LET after[a \in 0..Len(s)] ==
            IF a = 0 THEN [trunk |-> Condition, sum |-> [t \in Times |-> 0]]
            ELSE LET last == WholeLayers(s, a, after[a - 1])[Len(s[a].layers)]
                 IN [trunk |-> last.trunk, sum |-> WholeConv(a, HeadTaps, s[a].head, last.sum)]
    IN after

Wholes == [s \in Shapes |-> WholeArrays(s)[Len(s)].sum]

\* However the input is cut into blocks, the output is that of the network
\* over all of it at once, preceded by endless silence: from the first sample
\* after a whole prewarm, and as soon as the rest of the reach has gone by when
\* the prewarm was cut short (model.rs:57-84, wavenet.rs:2018-2030).
OutputIsWhole ==
    LET begin == fed - Len(played) IN
    \A i \in DOMAIN played :
        warmed + begin + i >= PrewarmSamples(shape) => played[i] = Wholes[shape][begin + i - 1]
=============================================================================
