----------------------------- MODULE Convolver -----------------------------
(* The partitioned convolution of namir-ir: a head convolved directly, and  *)
(* partitions of growing size, each of which collects a window of input,    *)
(* transforms it and adds its part of the output, ahead of time, to a ring. *)
(* The windows of a size are staggered, so that they do not all fill in one *)
(* call.                                                                    *)
(*                                                                          *)
(* Audio is modelled by where it comes from. A product of tap k and the     *)
(* sample taken at time u is the pair <<k, u>>, a value is the bag of the   *)
(* products summed in it, and silence is the empty bag: a product lost,     *)
(* added twice or played at the wrong time shows in any impulse response.   *)
EXTENDS ImpulseState

NextPowerOfTwo(n) ==
    LET power[e \in 0..n] ==
            IF e = 0 THEN 1
            ELSE LET half == power[e - 1] IN IF half < n THEN 2 * half ELSE half
    IN power[n]

------------------------------------------------------------------------------
(* build_schedule.                                                          *)

\* How many partitions there are of one size before the next, larger one.
OnePerSize(growth) == 1
PerLevel(growth) == growth

\* Where the schedule stands: the turn counts the partitions of a level.
First(len, block) == [offset |-> Least(block, len), size |-> block, turn |-> 1]
Following(part, growth, max) ==
    LET again == part.turn < PerLevel(growth)
    IN [offset |-> part.offset + part.size,
        size   |-> IF again THEN part.size ELSE Least(part.size * growth, max),
        turn   |-> IF again THEN part.turn + 1 ELSE 1]

Partitions(len, block, growth, ceiling) ==
    LET max   == IF ceiling < block THEN block ELSE ceiling
        part[i \in 1..len] ==
            IF i = 1 THEN First(len, block) ELSE Following(part[i - 1], growth, max)
        count == Max({0} \cup {i \in 1..len : part[i].offset < len})
    IN [i \in 1..count |-> [offset |-> part[i].offset, size |-> part[i].size,
                            actual |-> Least(len - part[i].offset, part[i].size)]]

\* The scheme of an earlier milestone: the members of a group side by side.
GroupStagger(parts, i, block) ==
    IF Cardinality(Peers(parts, i)) > 1 /\ i % 2 = 0 THEN parts[i].size \div 2 ELSE 0
Stagger(parts, i, block) ==
    LET phases == Phases(parts[i].size, block)
        count  == Cardinality(Peers(parts, i))
        nth    == Cardinality({j \in Peers(parts, i) : j < i})
        level  == Cardinality({parts[j].size : j \in DOMAIN parts} \cap 0..(parts[i].size - 1))
        within == IF count <= phases THEN (nth * phases) \div count ELSE nth % phases
    IN ((within + level) % phases) * block

(* PreparedChannel::new.                                                    *)
Prepare(len, block, growth, ceiling) ==
    LET parts  == Partitions(len, block, growth, ceiling)
        head   == Least(block, len)
        reach  == {parts[i].offset + 2 * parts[i].size : i \in DOMAIN parts}
    IN [len |-> len, block |-> block, head |-> head,
        stages |-> [i \in DOMAIN parts |->
            [offset |-> parts[i].offset, size |-> parts[i].size, actual |-> parts[i].actual,
             stagger |-> Stagger(parts, i, block)]],
        ring |-> NextPowerOfTwo(Max({len + 2 * block, head} \cup reach))]

vars == <<ir, fault, time, unplayed, history, windows, ring, out, fired>>

Silent(n) == [i \in 1..n |-> Silence]

Init ==
    /\ ir \in {Prepare(len, block, growth, ceiling) :
                  len \in Lengths, block \in Blocks, growth \in Growths, ceiling \in Ceilings}
    /\ fault \in Spoils \cup {Silence}
    /\ time = 0 /\ unplayed = 0
    /\ history = Silent(ir.head - 1)
    /\ windows = [i \in DOMAIN ir.stages |-> Silent(ir.stages[i].stagger)]
    /\ ring = [p \in 0..(ir.ring - 1) |-> EmptyBag]
    /\ out = <<>> /\ fired = {}

------------------------------------------------------------------------------
(* process_block, first the head, for the whole block.                      *)

HeadPart(padded, i) ==
    LET products == {<<k, padded[ir.head - k + i - 1]>> : k \in 0..(ir.head - 1)}
    IN SetToBag({product \in products : product[2] # Silence})

Begin(n) ==
    LET padded == history \o [i \in 1..n |-> time + i - 1]
    IN /\ unplayed = 0 /\ time + n <= MaxTime /\ unplayed' = n
       /\ out' = [i \in 1..n |-> HeadPart(padded, i)]
       /\ history' = [i \in DOMAIN history |-> padded[n + i]]
       /\ fired' = {}
       /\ UNCHANGED <<ir, fault, time, windows, ring>>

(* fft_stage_process_sample: a window that fills is convolved with the taps *)
(* of its stage. A product belongs to the time that follows the sample by   *)
(* as much as the tap is deep. One non-finite sample in the window and the  *)
(* inverse transform refuses the spectrum: the window counts as silence.    *)

Spectrum(stage, window) ==
    IF \E j \in DOMAIN window : window[j] = fault /\ fault # Silence THEN {}
    ELSE {j \in DOMAIN window : window[j] # Silence} \X (0..(stage.actual - 1))

\* The products a window that fills at time t adds to cell p of the ring.
Added(stage, window, t, p) ==
    LET start == t + 1 - stage.size + stage.offset
        due   == {jk \in Spectrum(stage, window) :
                     LET at == start + (jk[1] - 1) + jk[2] IN at >= 0 /\ at % ir.ring = p}
    IN {<<stage.offset + jk[2], window[jk[1]]>> : jk \in due}

(* process_block, then one sample through the ring and every stage.         *)
Sample ==
    LET now    == time % ir.ring
        pushed == [i \in DOMAIN ir.stages |-> Append(windows[i], time)]
        full   == {i \in DOMAIN ir.stages : Len(pushed[i]) = ir.stages[i].size}
        adds(i, p) == Added(ir.stages[i], pushed[i], time, p)
        added(p) == [product \in UNION {adds(i, p) : i \in full} |->
                        Cardinality({i \in full : product \in adds(i, p)})]
    IN /\ unplayed > 0 /\ unplayed' = unplayed - 1 /\ time' = time + 1
       /\ out' = [out EXCEPT ![Len(out) - unplayed + 1] = @ (+) ring[now]]
       /\ windows' = [i \in DOMAIN ir.stages |-> IF i \in full THEN <<>> ELSE pushed[i]]
       /\ ring' = [p \in DOMAIN ring |-> (IF p = now THEN EmptyBag ELSE ring[p]) (+) added(p)]
       /\ fired' = fired \cup full
       /\ UNCHANGED <<ir, fault, history>>

Next == Sample \/ \E n \in 1..ir.block : Begin(n)
Spec == Init /\ [][Next]_vars
=============================================================================
