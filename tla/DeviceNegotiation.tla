------------------------- MODULE DeviceNegotiation -------------------------
(* What the standalone application opens its two streams with: the rate,    *)
(* buffer size and channels it settles with both devices, in the share mode *)
(* they grant, and again when the user picks from the selectors.            *)
(*                                                                          *)
(* A direction reports one list of configurations in shared mode and, where *)
(* it has an exclusive endpoint, another in exclusive mode.  A config is    *)
(* [channels, low, high, frames]: frames is the set of buffer sizes it      *)
(* takes, {} for BufferSizeRange::Unknown.  The order of a list only breaks *)
(* ties between sizes equally near to the preferred one.                    *)
EXTENDS Naturals, Sequences, FiniteSetsExt, AudioState

CONSTANTS
    Reports,            \* the lists a device may report
    Preferred,          \* PREFERRED_SAMPLE_RATES_HZ, the first the default
    Standard,           \* STANDARD_SAMPLE_RATES
    PreferredFrames,    \* PREFERRED_BUFFER_FRAMES
    StandardFrames,     \* STANDARD_BUFFER_SIZES
    MaxChannels,        \* what a u16 holds
    Remembered          \* the settings a session may start from

Modes == {"shared", "exclusive"}

NegotiationAssumption ==
    /\ \A r \in Reports : \A c \in r : c.low <= c.high /\ c.channels \in 0..MaxChannels
    /\ Preferred \in Seq(Nat) /\ Preferred # <<>> /\ MaxChannels \in Nat
    /\ Standard \subseteq Nat /\ StandardFrames \subseteq Nat
    /\ None \notin Nat /\ {} \in Reports
    /\ Remembered \subseteq [rate : Nat \cup {None}, frames : Nat \cup {None},
                             channel : Nat \cup {None}, exclusive : BOOLEAN]

VARIABLE prefs      \* AudioPreferences

vars == <<formats, prefs, picked, step, listed, settled, share>>

Nowhere == [s \in Sides |-> [mode |-> "shared", configs |-> {}]]
Unsettled == [rate |-> 0, frames |-> None, channels |-> [s \in Sides |-> 0]]

Init ==
    /\ formats \in [Sides -> [Modes -> Reports]]
    /\ prefs \in Remembered /\ picked = None /\ step = "negotiate"
    /\ listed = Nowhere /\ settled = Unsettled /\ share = "shared"

------------------------------------------------------------------------------
(* device_state.rs.                                                         *)

\* The first of some rates that every one of some lists covers, or None.
FirstCovered(rates, lists) ==
    LET usable == {k \in DOMAIN rates :
                    rates[k] # None /\ \A l \in lists : AtRate(l, rates[k]) # {}}
    IN IF usable = {} THEN None ELSE rates[Min(usable)]

NegotiateRate(configs, remembered) ==
    LET tried == FirstCovered(<<remembered>> \o Preferred, {configs}) IN
    CASE configs = {}  -> None
      [] tried # None  -> tried
      [] OTHER         -> Max({c.high : c \in configs})

\* The input's answer if the output covers it, else the other way round.
SharedRate(in, out, remembered) ==
    FirstCovered(<<NegotiateRate(in, remembered), NegotiateRate(out, remembered)>>, {in, out})

\* The fewest channels that suffice, else the most there are; 1 if no config
\* covers the rate.
Channels(configs, hz, minimum) ==
    LET counts == {c.channels : c \in AtRate(configs, hz)}
        enough == {n \in counts : n >= minimum}
    IN CASE counts = {} -> 1
         [] enough # {} -> Min(enough)
         [] OTHER       -> Max(counts)

WithChannels(configs, n) ==
    LET narrowed == {c \in configs : c.channels = n} IN
    IF narrowed = {} THEN configs ELSE narrowed

Accepts(configs, f) == \E c \in configs : c.frames = {} \/ f \in c.frames

Distance(f) == IF f < PreferredFrames THEN PreferredFrames - f ELSE f - PreferredFrames

\* The remembered size if both sides take it; else one nearest to the preferred
\* size among those a range of either side has in common; else None.
SharedFrames(in, out, hz, remembered) ==
    LET ins  == AtRate(in, hz)
        outs == AtRate(out, hz)
        common == UNION {i.frames \cap o.frames : i \in ins, o \in outs}
    IN IF remembered # None /\ Accepts(ins, remembered) /\ Accepts(outs, remembered)
       THEN {remembered}
       ELSE IF common # {} THEN {f \in common : \A g \in common : Distance(f) <= Distance(g)}
       ELSE {None}

OfferedRates(in, out) ==
    LET both == {hz \in Standard : AtRate(in, hz) # {} /\ AtRate(out, hz) # {}} IN
    IF both # {} THEN both ELSE {SharedRate(in, out, None)} \ {None}

OfferedFrames(in, out, hz) ==
    LET both == {f \in StandardFrames : Accepts(AtRate(in, hz), f) /\ Accepts(AtRate(out, hz), f)}
    IN IF both # {} THEN both ELSE SharedFrames(in, out, hz, None) \ {None}

------------------------------------------------------------------------------
(* app.rs, negotiate_audio.                                                 *)

\* A device without an exclusive endpoint answers with its shared list.
Enumerated(m) ==
    [s \in Sides |-> LET own == IF formats[s][m] = {} THEN "shared" ELSE m IN
                     [mode |-> own, configs |-> formats[s][own]]]

RateOf(lists) ==
    LET shared == SharedRate(lists["in"].configs, lists["out"].configs, prefs.rate)
    IN IF shared = None THEN Head(Preferred) ELSE shared

Minimum(s) == IF s = "out" THEN 2 ELSE IF prefs.channel = None THEN 1 ELSE prefs.channel + 1

ChannelsOf(lists, hz) == [s \in Sides |-> Channels(lists[s].configs, hz, Minimum(s))]

\* Mutant: the buffer size is settled before the channels narrow the lists.
SettleFlat(lists) ==
    LET hz == RateOf(lists)
        n  == ChannelsOf(lists, hz)
    IN \E f \in SharedFrames(lists["in"].configs, lists["out"].configs, hz, prefs.frames) :
            settled' = [rate |-> hz, frames |-> f, channels |-> n]

Settle(lists) ==
    LET hz == RateOf(lists)
        n  == ChannelsOf(lists, hz)
        Opened(s) == WithChannels(lists[s].configs, n[s])
    IN \E f \in SharedFrames(Opened("in"), Opened("out"), hz, prefs.frames) :
            settled' = [rate |-> hz, frames |-> f, channels |-> n]

Requested == IF prefs.exclusive THEN "exclusive" ELSE "shared"

\* Both lists in the mode that is asked for, and a first settlement on them.
FirstPass ==
    /\ step = "negotiate" /\ step' = "ask"
    /\ listed' = Enumerated(Requested)
    /\ Settle(listed')
    /\ UNCHANGED <<formats, prefs, picked, share>>

\* supports_exclusive is Engaged.
Engages(s) ==
    \E c \in AtRate(formats[s]["exclusive"], settled.rate) : c.channels = settled.channels[s]

\* Both devices are asked; a refusal of lists that were exclusive needs a
\* second settlement on those that apply.
Decide ==
    LET granted == prefs.exclusive /\ \A s \in Sides : Engages(s)
        skewed  == \E s \in Sides : listed[s].mode = "exclusive"
    IN
    /\ step = "ask" /\ step' = "open"
    /\ share' = IF granted THEN "exclusive" ELSE "shared"
    /\ IF skewed /\ ~granted
         THEN listed' = Enumerated("shared") /\ Settle(listed')
         ELSE UNCHANGED <<listed, settled>>
    /\ UNCHANGED <<formats, prefs, picked>>

\* The selectors of the settings panel, as assemble_stream_config fills them.
Offers(what) ==
    LET in  == listed["in"].configs
        out == listed["out"].configs
    IN CASE what = "rate"   -> OfferedRates(in, out)
         [] what = "frames" -> OfferedFrames(WithChannels(in, settled.channels["in"]),
                                             WithChannels(out, settled.channels["out"]),
                                             settled.rate)

\* The user picks and the streams are opened again.
Pick ==
    /\ step = "open" /\ step' = "negotiate" /\ picked = None
    /\ \E what \in {"rate", "frames"} : \E v \in Offers(what) :
        /\ prefs' = [prefs EXCEPT ![what] = v]
        /\ picked' = [what |-> what, value |-> v, mode |-> share]
    /\ UNCHANGED <<formats, listed, settled, share>>

Next == FirstPass \/ Decide \/ Pick
Spec == Init /\ [][Next]_vars

=============================================================================
