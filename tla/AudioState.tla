----------------------------- MODULE AudioState -----------------------------
(* What StreamBridge, DeviceNegotiation and the proofs about them are       *)
(* about: the device callbacks, what the streams are opened with, and the   *)
(* promises that other modules cite.                                        *)
EXTENDS Naturals, Absence

VARIABLES
    callback,   \* side |-> the device callback it is in
    formats,    \* side |-> share mode |-> what the device takes
    picked,     \* what the user picked last, None at start-up
    step,       \* how far the negotiation is
    listed,     \* side |-> the list enumerated, and the mode it describes
    settled,    \* rate, frames, channels of each side
    share       \* ShareModeDecision::mode

Sides == {"in", "out"}
Busy(s) == callback[s].done < callback[s].total

(* One device callback contributes at most one xrun, and one that reported, *)
(* dropped or starved contributes it (stream.rs:13-25), however its slices  *)
(* and chunks lie and whatever the other side does meanwhile.               *)
XrunsAreDropouts ==
    \A s \in Sides : ~ Busy(s) => callback[s].counted = IF callback[s].dropout THEN 1 ELSE 0

Covers(c, hz) == c.low <= hz /\ hz <= c.high
AtRate(configs, hz) == {c \in configs : Covers(c, hz)}

Found == \A s \in Sides : AtRate(listed[s].configs, settled.rate) # {}

(* Whatever the lists are, what the streams are opened with is one          *)
(* configuration each device reports in the very mode they are opened in    *)
(* (issues #86 and #190, PR #212), provided a common rate was found; and    *)
(* what the user picked from a selector is what the next opening has        *)
(* (FR-IO-040), as long as it is granted the same mode.                     *)
OpensAsReported ==
    step = "open" /\ Found =>
        /\ \A s \in Sides : \E c \in AtRate(formats[s][share], settled.rate) :
            /\ c.channels = settled.channels[s]
            /\ settled.frames = None \/ c.frames = {} \/ settled.frames \in c.frames
        /\ picked # None /\ picked.mode = share => settled[picked.what] = picked.value
=============================================================================
