------------------------------ MODULE WaveNet -------------------------------
(* A neural amplifier model run block by block (namir-nam: wavenet, model).  *)
(*                                                                           *)
(* The model is a chain of layer arrays. A layer is a dilated convolution    *)
(* over the trunk, whose output feeds the head's sum and the next layer's    *)
(* input; the two of them alternate between two buffers. An array's head is  *)
(* a convolution as well, and the next array's sum begins with its output.   *)
(* Each convolution keeps the end of its input from block to block, every    *)
(* other buffer is scratch of the length of the largest block. Before it is  *)
(* heard, a model is run on silence.                                         *)
EXTENDS WaveNetState

vars == <<shape, max_n, prewarm, buffers, remaining, warmed, fed, played>>

Zeros(n) == [i \in 1..n |-> 0]
First(n, buffer) == SubSeq(buffer, 1, n)
Write(buffer, s) == s \o SubSeq(buffer, Len(s) + 1, Len(buffer))

\* `Conv1D::apply_into`: the history and the block side by side.
Convolved(a, part, conv, padded, n) ==
    [i \in 1..n |-> (Weight(a, part, 0)
        + Total([k \in 1..conv.kernel |-> Weight(a, part, k) * padded[i + (k - 1) * conv.dilation]],
                conv.kernel)) % Prime]
Slid(history, input) == SubSeq(history \o input, Len(input) + 1, Len(input) + Len(history))

NewArray(array, n) ==
    [io |-> [b \in 0..1 |-> Zeros(n)], sum |-> Zeros(n), head |-> Zeros(n),
     layers |-> [l \in DOMAIN array.layers |-> Zeros(HistoryLen(array.layers[l]))],
     headHistory |-> Zeros(HistoryLen(array.head))]

Init ==
    /\ shape \in Shapes /\ max_n \in BlockSizes /\ prewarm \in Prewarms
    /\ buffers = [a \in DOMAIN shape |-> NewArray(shape[a], max_n)]
    /\ remaining = IF PrewarmSamples(shape) < prewarm THEN PrewarmSamples(shape) ELSE prewarm
    /\ warmed = 0 /\ fed = 0 /\ played = <<>>

\* `Layer::apply_into`, of layer l from buffer cur to the other.
ApplyLayer(a, l, cur, condition, array) ==
    LET conv  == shape[a].layers[l]
        n     == Len(condition)
        input == First(n, array.io[cur])
        taps  == Convolved(a, Dilated(l), conv, array.layers[l] \o input, n)
        z     == Activated(Mixed(taps, Scaled(a, Mixin(l), condition)))
        next  == Mixed(Scaled(a, Layer1x1(l), z), input)
    IN [array EXCEPT !.layers[l] = Slid(@, input),
                     !.sum = Write(@, Mixed(First(n, @), z)),
                     !.io[1 - cur] = Write(@, next)]

\* Mutant: the buffer the layers begin with is taken for the one they end with.
BeginsWith(layers) == 0
EndsWith(layers) == Len(layers) % 2

\* The array's input and the sum its head begins with.
Entered(a, condition, arrays) ==
    LET n     == Len(condition)
        trunk == IF a = 1 THEN condition
                 ELSE First(n, arrays[a - 1].io[EndsWith(shape[a - 1].layers)])
    IN [arrays[a] EXCEPT !.io[0] = Write(@, Scaled(a, Rechannel, trunk)),
                         !.sum = Write(@, IF a = 1 THEN Zeros(n)
                                          ELSE First(n, arrays[a - 1].head))]

\* After every layer of the array.
Layered(a, condition, array) ==
    LET after[l \in 0..Len(shape[a].layers)] ==
            IF l = 0 THEN array ELSE ApplyLayer(a, l, (l - 1) % 2, condition, after[l - 1])
    IN after

\* The head's convolution, over the sum of the layers.
Headed(a, n, array) ==
    LET sum == First(n, array.sum)
    IN [array EXCEPT
            !.head = Write(@, Convolved(a, HeadTaps, shape[a].head, array.headHistory \o sum, n)),
            !.headHistory = Slid(@, sum)]

\* `process_block`, after every array.
Processed(condition) ==
    LET through(a, arrays) ==
            Headed(a, Len(condition),
                   Layered(a, condition, Entered(a, condition, arrays))[Len(shape[a].layers)])
        after[a \in 0..Len(shape)] ==
            IF a = 0 THEN buffers ELSE [after[a - 1] EXCEPT ![a] = through(a, after[a - 1])]
    IN after

\* `new_state_prewarmed`, one block of silence.
Warm ==
    LET n == IF remaining < max_n THEN remaining ELSE max_n IN
    /\ remaining > 0
    /\ buffers' = Processed(Zeros(n))[Len(shape)]
    /\ remaining' = remaining - n
    /\ warmed' = warmed + n
    /\ UNCHANGED <<shape, max_n, prewarm, fed, played>>

Process(n) ==
    /\ remaining = 0 /\ fed + n <= MaxFed
    /\ buffers' = Processed([i \in 1..n |-> Input(fed + i - 1) % Prime])[Len(shape)]
    /\ fed' = fed + n
    /\ played' = First(n, buffers'[Len(shape)].head)
    /\ UNCHANGED <<shape, max_n, prewarm, remaining, warmed>>

Next == Warm \/ \E n \in 1..max_n : Process(n)

Spec == Init /\ [][Next]_vars
=============================================================================
