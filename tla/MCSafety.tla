------------------------------ MODULE MCSafety ------------------------------
(* Small instances of components whose safety is checked.  They share no    *)
(* state: the initial state chooses the one that runs, the others stay in   *)
(* their own initial states.                                                *)
EXTENDS EngineState, CacheState, AudioState, ServiceState,
        ScanState, DocumentState, ImpulseState, WaveNetState, Functions, TLC

CONSTANTS
    Dirs, Links, Roots, Faults, Grain, Window,
    MaxNow, MaxEdits, MaxScans, MaxFaults,
    Block, Capacity, Slice, Buffers, Settling, Ceiling,
    Files, MaxDamage, MaxFails, MaxCrashes, MaxSweeps, MaxMoves,
    Standard, PreferredFrames, StandardFrames, MaxChannels,
    older, newer, a, novel, Turns, MaxCalls

VARIABLES unit,
    now, edits, faults, baseline, handle, scans,
    moves, loading, scanning, job, damage, fails,
    crashes, sweeps,
    running, stopping, fill, started, pulls, since,
    prefs,
    state, last, crossed, calls

\* A library with one collection and a link to it.
Library    == <<"Library">>
Amps       == <<"Library", "Amps">>
Fav        == <<"Library", "Fav">>
Linked     == {Library, Amps, Fav}
OnlyFav    == {Fav}
FavIsAmps  == [d \in Linked |-> IF d = Fav THEN Amps ELSE d]
EitherName == {<<Amps, "x">>, <<Fav, "x">>}
OneRoot    == <<Library>>

\* Devices of one or two configurations, in one mode or in either.
Stereo  == [channels |-> 2, low |-> 44, high |-> 48, frames |-> 1..4]
Wide    == [channels |-> 8, low |-> 48, high |-> 96, frames |-> 4..6]
Mono    == [channels |-> 1, low |-> 44, high |-> 44, frames |-> {}]
Fast    == [channels |-> 2, low |-> 96, high |-> 96, frames |-> 5..6]
Reports == {{}, {Stereo}, {Stereo, Wide}, {Mono, Fast}, {Wide}}
Settings == [rate : {None, 96}, frames : {None, 4}, channel : {None, 2}, exclusive : BOOLEAN]

\* Both products scan the same roots, one at a time.
OwnProcess == [s \in Processes |-> s]
SameRoots  == [s \in Processes |-> Files]

\* Two builds of the plug-in, the newer with one more parameter, a wider range
\* and one more form of reference.
Known     == ("global.bypass" :> 1) @@ ("gain" :> 2) @@ ("air" :> 1)
Registers == (older :> Restrict([Known EXCEPT !["gain"] = 1], {"global.bypass", "gain"})) @@ (newer :> Known)
Readable  == (older :> {a}) @@ (newer :> {a, novel})
\* From before the parameters were one section; from a newer build; damaged;
\* without its version.
Versioned   == <<"format_version", "">> :> 1
Legacies    == Versioned @@ (<<"global", "bypass">> :> 1)
Newest      == Versioned @@ (<<"parameters", "global.bypass">> :> 0) @@ (<<"global", "bypass">> :> 1)
                @@ (<<"parameters", "gain">> :> 2) @@ (<<"parameters", "air">> :> 1)
                @@ (<<"references", "nam">> :> novel) @@ (<<"references", "memo">> :> 1)
                @@ (<<"host", "">> :> 1)
Mangled     == Versioned @@ (<<"parameters", "gain">> :> NaN) @@ (<<"references", "ir">> :> a)
Unversioned == <<"parameters", "air">> :> 1

\* Models of one or two arrays, of an even or odd number of layers, with heads
\* that reach back or do not.
Conv(kernel, dilation) == [kernel |-> kernel, dilation |-> dilation]
Networks ==
    {<<[layers |-> <<Conv(2, 1), Conv(3, 2)>>, head |-> Conv(1, 1)]>>,
     <<[layers |-> <<Conv(2, 1), Conv(2, 2), Conv(3, 1)>>, head |-> Conv(2, 1)],
       [layers |-> <<Conv(2, 3)>>, head |-> Conv(2, 2)]>>,
     <<[layers |-> <<Conv(2, 2)>>, head |-> Conv(3, 1)],
       [layers |-> <<Conv(1, 1), Conv(2, 2)>>, head |-> Conv(1, 1)]>>}
WeightOf(array, part, tap) ==
    ((array * 31 + part * 7 + tap * 13 + array * part * tap) % 97) + 1
Polynomial(x) == x * x + 3 * x + 5
InputAt(t) == t * t + 7

Scans     == INSTANCE LibraryScan WITH held <- handle
Indexes   == INSTANCE LibraryService WITH Services <- Processes,
                 Home <- OwnProcess, Roots <- SameRoots, Overlap <- FALSE,
                 MaxEdits <- MaxMoves, MaxScans <- MaxSweeps, edits <- moves, scans <- sweeps
Impulse   == INSTANCE Convolver
Resampler == INSTANCE ResamplerFifo
Bridge    == INSTANCE StreamBridge
Cache     == INSTANCE ResourceCache
Devices   == INSTANCE DeviceNegotiation WITH Preferred <- <<48, 44>>,
                 Remembered <- Settings
Documents == INSTANCE StateDocument WITH Carriers <- Builds, Picks <- {a, novel},
                 Documents <- {Legacies, Newest, Mangled, Unversioned}
Chain     == INSTANCE ChainBypass
Model     == INSTANCE WaveNet

ASSUME Scans!PathsAssumption /\ Scans!TreeAssumption /\ Scans!NoneAssumption
ASSUME Scans!ClockAssumption /\ Scans!FaultsAssumption
ASSUME Bridge!BridgeAssumption /\ Devices!NegotiationAssumption
ASSUME Indexes!ServicesAssumption
ASSUME Documents!DocumentAssumption

library   == <<disk, now, edits, faults, index, baseline, scan, cancel, handle, scans, touched,
               unsure>>
indexes   == <<shelf, moves, doc, sidecar, changed, shared, loading, scanning, job, damage,
               fails, crashes, sweeps>>
impulse   == <<ir, fault, time, unplayed, history, windows, ring, out, fired>>
resampler == <<inFifo, outFifo, frames, pc, spliced>>
bridge    == <<running, stopping, fill, callback, started, pulls, since>>
resources == <<cache, prepared, held, pending>>
devices   == <<formats, prefs, picked, step, listed, settled, share>>
documents == <<texts, state, last, task, meant, crossed, calls>>
model     == <<shape, max_n, prewarm, buffers, remaining, warmed, fed, played>>
vars == <<unit, library, indexes, impulse, resampler, bridge, resources, devices, documents,
          model, chain>>

Init ==
    /\ unit \in {"library", "indexes", "impulse", "resampler", "bridge", "cache", "devices",
              "documents", "model", "chain"}
    /\ Scans!Init /\ Indexes!Init /\ Resampler!Init /\ Bridge!Init /\ Cache!Init /\ Documents!Init
    /\ Model!Init /\ Chain!Init /\ (unit # "chain" => latency = 0)
    /\ unit # "model" => /\ shape = CHOOSE s \in Networks : DOMAIN s = {1}
                         /\ max_n = 1 /\ prewarm = 3
    /\ texts["two"] = Newest /\ (unit # "documents" => texts["one"] = Newest)
    /\ unit # "indexes" => shelf = {}
    /\ IF unit = "impulse" THEN Impulse!Init
         ELSE /\ ir = Impulse!Prepare(1, 1, 1, 1) /\ fault = Silence
              /\ time = 0 /\ unplayed = 0
              /\ history = <<>> /\ windows = <<>> /\ ring = <<>> /\ out = <<>> /\ fired = {}
    /\ IF unit = "devices" THEN Devices!Init
         ELSE /\ formats = [s \in Sides |-> [m \in Devices!Modes |-> {}]]
              /\ prefs = [rate |-> None, frames |-> None, channel |-> None, exclusive |-> FALSE]
              /\ picked = None /\ step = "negotiate" /\ share = "shared"
              /\ listed = Devices!Nowhere /\ settled = Devices!Unsettled

Next ==
    \/ unit = "library" /\ Scans!Next
       /\ UNCHANGED <<unit, indexes, impulse, resampler, bridge, resources, devices,
                      documents, model, chain>>
    \/ unit = "indexes" /\ Indexes!Next
       /\ UNCHANGED <<unit, library, impulse, resampler, bridge, resources, devices,
                      documents, model, chain>>
    \/ unit = "impulse" /\ Impulse!Next
       /\ UNCHANGED <<unit, library, indexes, resampler, bridge, resources, devices,
                      documents, model, chain>>
    \/ unit = "resampler" /\ Resampler!Next
       /\ UNCHANGED <<unit, library, indexes, impulse, bridge, resources, devices,
                      documents, model, chain>>
    \/ unit = "bridge" /\ Bridge!Next
       /\ UNCHANGED <<unit, library, indexes, impulse, resampler, resources, devices,
                      documents, model, chain>>
    \/ unit = "cache" /\ Cache!Next
       /\ UNCHANGED <<unit, library, indexes, impulse, resampler, bridge, devices,
                      documents, model, chain>>
    \/ unit = "devices" /\ Devices!Next
       /\ UNCHANGED <<unit, library, indexes, impulse, resampler, bridge, resources,
                      documents, model, chain>>
    \/ unit = "documents" /\ Documents!Next
       /\ UNCHANGED <<unit, library, indexes, impulse, resampler, bridge, resources, devices,
                      model, chain>>
    \/ unit = "model" /\ Model!Next
       /\ UNCHANGED <<unit, library, indexes, impulse, resampler, bridge, resources, devices,
                      documents, chain>>
    \/ unit = "chain" /\ Chain!Next
       /\ UNCHANGED <<unit, library, indexes, impulse, resampler, bridge, resources, devices,
                      documents, model>>

Spec == Init /\ [][Next]_vars

=============================================================================
