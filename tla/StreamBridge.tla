---------------------------- MODULE StreamBridge ----------------------------
(* The two callbacks of the standalone application's open streams and the   *)
(* ring between them (namir-app: stream, bridge, audio_io/convert, xrun).   *)
(* The input's pushes what it captured, the output's pulls what the engine  *)
(* will process, and both count dropouts for the user to read.              *)
(*                                                                          *)
(* A device callback reaches these closures in slices when its samples have *)
(* to be converted, and they take a slice in chunks of one block; frames    *)
(* cross the ring one by one, each side at its own pace. What the samples   *)
(* are is left out, and so is what the engine does with them.               *)
EXTENDS Naturals, AudioState

CONSTANTS
    Block,              \* max_block_size
    Capacity,           \* of the ring, at least eight blocks
    Slice,              \* frames of the conversion's scratch
    Buffers,            \* the sizes of a device callback
    Settling, Ceiling   \* settling_pulls and activation_pulls_max

BridgeAssumption ==
    /\ {Block, Capacity, Slice, Settling, Ceiling} \subseteq Nat \ {0}
    /\ Capacity >= 8 * Block /\ Buffers \subseteq Nat

VARIABLES
    running,    \* the sides whose stream plays
    stopping,   \* RunningStreams is being dropped
    fill,       \* frames in the ring
    started,    \* capture_started
    pulls, since    \* pulls, and pulls_since_capture
vars == <<running, stopping, fill, callback, started, pulls, since>>

\* Its frames and those dealt with, whether this chunk fell short, whether
\* the latch is set and what was counted; and whether there was a dropout.
Fresh(n, reported) ==
    [total |-> n, done |-> 0, short |-> FALSE, recorded |-> reported,
     counted |-> IF reported THEN 1 ELSE 0, dropout |-> reported]

\* `open` prefills one block.
Init ==
    /\ running = {} /\ stopping = FALSE /\ fill = Block
    /\ callback = [s \in Sides |-> Fresh(0, FALSE)]
    /\ started = FALSE /\ pulls = 0 /\ since = 0

ChunkEnds(c) == c.done = c.total \/ (c.done % Slice) % Block = 0

\* A dropout counts unless the callback has counted already.
RecordEach(c) == [c EXCEPT !.recorded = TRUE, !.counted = @ + 1]
Record(c) == IF c.recorded THEN c ELSE [c EXCEPT !.recorded = TRUE, !.counted = @ + 1]

------------------------------------------------------------------------------
\* The device calls: the latch is reset by the first slice, and the device's
\* own report counts. An empty callback has not started the capture.
DeviceCallback(s, n, reported) ==
    /\ s \in running /\ ~ Busy(s)
    /\ callback' = [callback EXCEPT ![s] = Fresh(n, reported)]
    /\ started' = (started \/ (s = "in" /\ n > 0))
    /\ UNCHANGED <<running, stopping, fill, pulls, since>>

\* push_captured drops what does not fit.
Push ==
    /\ Busy("in")
    /\ fill' = IF fill < Capacity THEN fill + 1 ELSE fill
    /\ LET full == fill = Capacity
           c == [callback["in"] EXCEPT !.done = @ + 1, !.short = @ \/ full,
                                       !.dropout = @ \/ full]
           counts == ChunkEnds(c) /\ c.short
       IN callback' = [callback EXCEPT !["in"] =
              IF ChunkEnds(c) THEN [(IF counts THEN Record(c) ELSE c) EXCEPT !.short = FALSE]
              ELSE c]
    /\ UNCHANGED <<running, stopping, started, pulls, since>>

\* Counters past their limit tell nothing further.
UpTo(limit, n) == IF n > limit THEN limit + 1 ELSE n

\* The pads of a pair that is still starting up are not dropouts.
Settled == since' > Settling \/ pulls' > Ceiling

\* pull_into pads what the ring does not have.
Pull ==
    /\ Busy("out")
    /\ fill' = IF fill > 0 THEN fill - 1 ELSE fill
    /\ LET c == [callback["out"] EXCEPT !.done = @ + 1, !.short = @ \/ fill = 0]
           counted == [Record(c) EXCEPT !.short = FALSE, !.dropout = TRUE]
       IN IF ChunkEnds(c)
          THEN /\ pulls' = UpTo(Ceiling, pulls + 1)
               /\ since' = IF started THEN UpTo(Settling, since + 1) ELSE since
               /\ callback' = [callback EXCEPT !["out"] =
                     IF c.short /\ Settled THEN counted ELSE [c EXCEPT !.short = FALSE]]
          ELSE callback' = [callback EXCEPT !["out"] = c] /\ UNCHANGED <<pulls, since>>
    /\ UNCHANGED <<running, stopping, started>>

------------------------------------------------------------------------------
(* play starts the input first and drop stops the output first; stopping a  *)
(* stream waits for the callback that is running.                           *)

Play ==
    /\ ~ stopping
    /\ \/ running = {} /\ running' = {"in"}
       \/ running = {"in"} /\ running' = Sides
    /\ UNCHANGED <<stopping, fill, callback, started, pulls, since>>

Stop(first, second) ==
    /\ \/ ~ stopping /\ stopping' = TRUE /\ ~ Busy(first) /\ running' = running \ {first}
       \/ stopping /\ second \in running /\ ~ Busy(second) /\ running' = running \ {second}
          /\ UNCHANGED stopping
    /\ UNCHANGED <<fill, callback, started, pulls, since>>
Drop == Stop("out", "in")

Next ==
    \/ \E s \in Sides, n \in Buffers, reported \in BOOLEAN : DeviceCallback(s, n, reported)
    \/ Push \/ Pull \/ Play \/ Drop
Spec == Init /\ [][Next]_vars
=============================================================================
