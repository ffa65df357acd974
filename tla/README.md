# Verification of Namir

Namir is a guitar amplifier simulator written in Rust: one engine, shipped as a
standalone application and as a CLAP plug-in. This directory holds TLA+ models of
it, the TLC configurations that check them on small instances, and proofs, checked
by TLAPS, of the properties that matter most, for every value of the constants.
The models cover the places where threads meet (the handover of resources, the
telemetry, the pool, the plug-in's exchanges with its host, the application's
session and streams), where processes and builds meet (the shared library index,
state documents), and the sequential algorithms whose state is easily got
wrong (the scan, the convolver, the network, the bypass).

Everything is translated from the Rust source. Comments and documents
(`docs/01` to `docs/05`) are used for what they *claim*, which is then checked.
File names below are relative to `src/crates/`.

Contents

1. Inventory of the system
2. Modules, and how they correspond to the code
3. Runs, bounds and what they show
4. Fairness and environment assumptions
5. Proofs
6. Where the code and its documentation part
7. What is only model-checked, and what is not modelled
8. Plan
9. Running the checks

## 1. Inventory of the system

### 1.1 Threads

| thread | owner | what it does |
|---|---|---|
| audio | host or audio driver | calls `AudioEngine::process`; may not block, allocate or free. The application has an input and an output callback |
| pool threads (1 or 2) | `namir-worker/src/pool.rs` | read and parse files, prepare resources, offer them to engines, free what comes back; scan the library |
| main | host | CLAP lifecycle, state load and save, flushes, `on_main_thread` |
| editor | host or application | draws, reads telemetry, sets parameters, dispatches loads and recalls |
| application worker | `namir-app/src/worker.rs` | the standalone application's counterpart of the pool's jobs |
| another product | the other shell, in a process of its own | shares the index file, and writes presets this one reads |

### 1.2 Components

| component | state it keeps | operations | meets |
|---|---|---|---|
| Handover, engine side (`namir-engine/src/engine.rs`, `stages/nam.rs`, `stages/ir.rs`, `chain.rs`, `ring.rs`, `command.rs`) | command ring, return ring, two slots per stage, retire pen per stage, crossfade counters, blend target, global bypass, `stalled_offer`, `retire_backlog` | `process` (retry, drain, collect, stages, collect), `apply_param_direct` | worker, through two bounded rings |
| Handover, worker side (`namir-worker/src/lib.rs`, `submit.rs`) | the submitter's lock, the return ring's consumer | `load`, `unload`, `drain_retired`, `submit`, `try_submit` | engine, cache, recall |
| Signal chain (`namir-engine/src/chain.rs`) | global bypass, delay lines, crossfade, latency | `apply`, `process` | every stage |
| Block-size adapter (`SlotResampler` in `stages/nam.rs`) | input and output FIFO | `process`, `reset` | the NAM stage |
| Telemetry ring (`telemetry_ring.rs`) | slots, `write_seq`, a cursor per reader | `push`, `drain` | audio to editor |
| Convolver (`namir-ir/src/convolver.rs`) | head history, a window and a stagger per partition, output ring | `prepare`, `process_block` | the IR stage |
| Neural model (`namir-nam/src/wavenet.rs`, `model.rs`) | a history per convolution, scratch of one block | prewarm, `process_block` | the NAM stage |
| Thread pool (`pool.rs`) | queue, shutdown flag, thread handles, joined flag | `spawn`, `worker_loop`, `shutdown` | every job; teardown of instances |
| Cache of prepared resources (`cache.rs`) | key to weak pointer, one map for models, one for responses | `get_or_load_nam`, `get_or_load_ir`, `reap` | every instance of the process |
| Recall (`recall.rs`) | none | `Instance::recall`: parameters, then each reference | state, handover |
| CLAP instance (`namir-clap/src/shared.rs`, `worker_jobs.rs`, `state_ext.rs`, `ui_host.rs`) | parameter mirror, two references, dirty flag, the live engine's endpoint, last document | state load and save, preset recall, library load, knob, replay jobs | main, editor, pool |
| CLAP latency (`audio.rs`, `main_thread.rs`, `shared.rs`) | figure, basis rate, announced figure, dirty flag, epoch, prediction | `process`, `on_main_thread`, `activate` | audio, main, host, pool |
| CLAP parameters (`param_mirror.rs`, `params_ext.rs`) | mirror cells, pending and gesture bits | flush, process events, GUI edits | audio, main, editor, host |
| Library scan (`namir-library/src/scan.rs`, `fs.rs`, `index.rs`) | queues of directories, links and files, what was seen, what could not be | `Scanner::step`, `finish`, `Index::apply` | library service, the file system |
| Library service and store (`namir-worker/src/library.rs`, `namir-library/src/store.rs`) | one shared index per path and process, its stamp, a scan flag per service; on disk the index document and the sidecar of favourite marks | deferred load, `start_scan`, cancellation, save, publish | pool, editor, other processes |
| State documents (`namir-state`, `state_ext.rs`, `worker_jobs.rs`, `namir-app/src/worker.rs`) | a JSON document; the last one an instance loaded or wrote | read, clamp, migrate, write onto | recall, presets, other builds |
| Application session (`namir-app/src/host.rs`, `worker.rs`, `instance.rs`) | session state, generation and pending reopen, open streams, what is shown as saved and loaded | intents, worker commands, events read once a frame | editor, worker, audio driver |
| Application streams (`stream.rs`, `bridge.rs`, `audio_io/convert.rs`) | capture ring, xrun latches, counters of pulls | both callbacks, `play`, drop | audio driver |
| Device negotiation (`app.rs`, `device_state.rs`) | preferences | negotiation, share mode, selectors | audio driver, settings panel |
| DSP (`namir-dsp`, remaining stages) | filter state | arithmetic on samples | stages |
| `namir-params`, `namir-core`, `namir-platform`, `namir-ui` | tables, value types, OS calls, drawing | | all |

### 1.3 What is hard, and what makes each component correct

The list of hazards, each with its line and the properties that watch it, is in
`PROJECT.json`; those that no property watches are in section 7. In outline:

* **Handover.** A prepared slot is worth megabytes and may be freed on the
  worker only. It goes through two bounded rings and a one-place pen between
  steps of two threads that never wait for one another. Correct means: no slot is
  dropped, doubled or freed on the audio thread, whatever ring is full; a command
  the gate lets through never meets an occupied pen; nothing stops for good; the
  sound changes only when a command says so, and never with a cut.
* **Bypass.** A bypassed chain plays its input as late as the stages would have.
  Correct means: the delayed input is always of the right time, also in the first
  block after a latency has risen, and a change is a fade that ends.
* **Adapter.** A host may ask for any number of frames per call. Correct means: no
  silence is spliced in, the delay is constant, and the FIFOs never reallocate.
* **Convolver and model.** Both keep state from block to block and must not let
  the lengths of the blocks be heard. Correct means: the output is that of the
  textbook definition over the whole input, and the work is spread evenly.
* **Telemetry.** The writer may lap a reader in mid-drain. Correct means: no entry
  older than its position, and no invented loss.
* **Pool.** `shutdown` may run on any thread, on two at once, and inside a job.
  Correct means: it returns, and no worker outlives it.
* **Cache.** Parsing runs outside the lock. Correct means: one live copy per
  content, none handed to an engine it was not laid out for, bounded residue.
* **CLAP instance.** The mirror and the references have no lock in common with
  the engine. Correct means: what a save writes is what is heard.
* **CLAP parameters.** A knob's move reaches the host through events it may refuse,
  while host, loads and recalls write the same cells. Correct means: gestures nest
  and end, and no move is lost on its way.
* **CLAP latency.** The figure changes while running and every restart resets it.
  Correct means: the host ends up holding the right figure, and restarts end.
* **Library.** A scan concludes from what it did not see that files are gone, while
  listings fail, walks are cancelled and files change under it; products, builds and
  crashes meet in one document. Correct means: no entry goes whose file is there,
  every change is noticed, and the favourite marks survive whatever befalls the index.
* **Documents.** A build reads what it knows and writes over what it does not.
  Correct means: a document says what its users have set, whoever saved it.
* **Application.** Window and worker exchange messages over an engine that is replaced
  while its streams may be open. Correct means: no engine is replaced under a
  callback, what the window shows is so, every reopen is answered; the streams are
  opened with something both devices report; a dropout is counted once.

## 2. Modules, and how they correspond to the code

| module | component | belongs with |
|---|---|---|
| `Handover` | handover, both sides, with the chain's bypass as far as it freezes stages | refines `Custody`; `HandoverProofs`; `MCHandover` |
| `Custody` | what the handover promises about one slot | |
| `ChainBypass` | delay line and crossfade of the global bypass | `EngineState`, `EngineProofs` |
| `ResamplerFifo` | block-size adapter | `EngineState`, `EngineProofs` |
| `Convolver` | partitioned convolution, against its definition | `ImpulseState`, `EngineProofs` |
| `WaveNet` | the model run block by block, against the whole | `WaveNetState`, `EngineProofs` |
| `TelemetryRing` | telemetry ring | `TelemetryState`, `EngineProofs` |
| `ThreadPool` | pool | `PoolState`, `WorkerProofs` |
| `ResourceCache` | cache | `CacheState`, `WorkerProofs` |
| `PluginReplay` | CLAP instance | `ReplayState`, `PluginProofs` |
| `ParamGestures` | CLAP parameters | `ParamGesturesProofs`; `MCParamGestures` |
| `LatencyHandshake` | CLAP latency | `LatencyState`, `PluginProofs` |
| `LibraryScan` | library scan | `ScanState`, `StoreProofs`; `MCLibraryScan` |
| `LibraryService` | library service and store | `ServiceState`, `LibraryProofs`; `MCLibraryService` |
| `StateDocument` | state documents under several builds | `DocumentState`, `StoreProofs` |
| `AppSession` | application session | `SessionState`, `ApplicationProofs` |
| `StreamBridge` | application streams | `AudioState`, `ApplicationProofs` |
| `DeviceNegotiation` | device negotiation | `AudioState`, `ApplicationProofs` |
| `Absence` | `None`, the value of what is not there, for all of them | |
| `MCSafety`, `MCLiveness` | instances of several of these, one at a time (section 3) | |

A `…State` module holds the constants, assumptions, variables and promised properties
of a component; the module of its actions extends it, and so does the MC module that
instantiates it, so that the definition a run checks is the one a theorem is about. A
`…Proofs` module holds the theorems of one component or a few and their lemmas; where it is
about several, it extends one and names the others as instances (`Resampler`, `Ring`, `Pool`,
`Docs`, `Devices`).
Definitions marked "Mutant" in a module are plausible mistakes in the definition
that follows them; for each property one of them is known to break it.

### 2.1 Handover

One call of `AudioEngine::process` is a chain of steps, so that the worker pushes
and drains between any two of them:

| `pc` | action | code |
|---|---|---|
| `idle` | `BeginBlock` | `retry_stalled_offer`, and `drain_commands`' return while an offer is stalled |
| `drain` | `DrainEmpty`, `DrainGated`, `DrainLimit` | the three ways out of the loop in `drain_commands` |
| `drain` | `DrainParam`, `DrainUnload`, `DrainLoad` | one command taken and applied by `apply_command` |
| `collectBefore`, `collectAfter` | `Collect`, `Collected` | `collect_retired`, stage by stage, before and after the stages run |
| `stages` | `RunStages` | `Chain::process`: frozen when fully bypassed, else one block of each stage |
| `idle` | `ApplyParamDirect` | host automation between two blocks |

On the worker, `Begin`, `FreeRetired` (one popped slot at a time), `Prepare`,
`Submit` and `GiveUp` are `Instance::load` and `unload`; `TrySubmitParam` is a
knob's single attempt from an editor thread.

`slots`, `active`, `fading`, `remaining`, `retired`, `enabled` and `mixTarget` are
the fields of `NamStage` and `IrStage`, one value per stage. A crossfade is
measured in abstract units, of which a block spends at least one and at most all
that are left: a fade of `Fade` units stands for every fade of 1 to `Fade` blocks,
and for the priming frames of a resampled model, which lengthen the fade. `offered`,
`reserved` and `budget` are locals of `drain_commands`; `asked` and `rejected` are
the position and the sink of `collect_retired`.

Left out: the audio, counters and telemetry entries, blocks rejected for their
shape, `Command::Reset` (no caller submits it), teardown of the endpoint, and the
pause with which `EngineJobHandle` keeps the crossfades of the two stages apart
(a matter of processor load: the model lets them overlap in every way).

`Custody` says what docs/02, D-8.1 promises of one slot: prepared, queued, taken by
the engine, returned, freed, in that order. `Handover!FollowsCustody` maps the
whole state to one place per slot.

### 2.2 ResamplerFifo

The FIFO lengths of `SlotResampler`: `Push` queues a call's input, `Tick` runs one
engine block while output is short, `Pop` hands out the output and counts in
`spliced` every frame `unwrap_or(0.0)` had to invent.

### 2.3 TelemetryRing

`Store` is the relaxed store of a slot and `Publish` the release store of
`write_seq`. A reader that sees the number sees the slot, but may see a *later*
slot before its number, so stores run up to `Ahead` entries ahead of what
is loaded as the number. `BeginDrain`, `Copy`, `EndDrain` are one call of `drain`
with every load of a slot a step of its own. An entry is its position in the stream.

### 2.4 ThreadPool

A critical section of the queue's mutex is one step; notifying and joining, which
happen outside, are steps of their own. `shutdown` may be called from outside and
from inside a job (a job that holds the last reference to the pool's owner drops
it on a worker). Wake-ups may be spurious and a notification wakes any waiter.

### 2.5 ResourceCache

`Lookup` is the first lock, `ParseFails` a file that does not parse, `Converge` and
`Insert` the second lock. Models and responses have a map and a lock each and the
same code but for the key, so one map over both kinds of key stands for the two.
`Release` drops an instance's reference; a weak pointer is then dead.
`reap` is public but called by tests only; the model has it as a step.

### 2.6 PluginReplay

What an instance stands for (`stands`: the mirror and the references), the engine
(`live`), the pool's queue (`recalls`), and the program counter of each of three kinds of
thread. Adoption of a state is three steps (`AdoptParams`, `AdoptNam`, `AdoptIr`),
a snapshot is three (`SnapParams`, `SnapNam`, `SnapIr`), and a library load is two,
one under the instance's lock (`LoadIntoEngine`) and one after it
(`RecordReference`). One parameter stands for all of them. A command submitted counts
as applied, because the ring keeps its order and the audio thread is assumed to run;
the editor's single attempt may fail. `AdoptIr` contains `mark_clean` and the
queueing of the replay, and `Activate` installs the engine and queues its replay: no
other thread can tell the steps apart.

A recall makes one of three things of each stage (`Recalled`): it holds the file of
its reference; or nothing, if there is no reference or no file; or what it held before, if the
file does not parse or the engine does not take it in time, and then the reference stands
all the same. So engine and references may differ for good, and what can be promised depends on
what the jobs made of each part. Two history variables, which no action reads but to update
them, say so: `heard` has a word for each part, "given", "gone" or "unsure", and `raced` is up
while jobs of two threads have met since the pool was last at rest.

### 2.7 LatencyHandshake

`Process` is one call of `process` on the audio thread with `publish_latency`;
`StoreFigure`, `StoreDirty` and `AskCallback` are `announce_latency`, whose two relaxed stores
may be seen in either order. `TakeFlag` and `Decide` are the two reads of `on_main_thread`.
`Replay` and `EnterEntry` are jobs of a pool thread in the instance's lock: a replay, and the
load of a library entry, which takes the model before its reference is recorded (`Record`).
`Bump` is the epoch a job moves once the lock is released, be it in the next activation.
The epoch is kept as `claim.bumped`, that is, "moved since this activation recorded it".
`engine` is the latency `process` saw last. A model's file may be there, gone, or there and
unreadable to the parser (`FileStates`), and may change at any time; a recall unloads, loads or
leaves the stage as it is (`Recall`). `SettleBlocks` stands for `CARRY_SETTLE_MS` and is
longer than a crossfade (`FadeBlocks`), as it is in the code.

The code lets a change go unheard in two ways, which the history variable `lapsed` records and
the properties except: `on_main_thread` takes the flag down before it can see the figure, and
the replay an activation relies on finds nothing to replay, so that the prediction is never
judged. Each lasts until the engine's latency next moves, or the next activation.

### 2.8 ParamGestures

`StoreEdit` and `MarkEdit` are the two stores of `set_by_key_from_gui`; `StartLoad`,
`AdoptOne` and `FinishLoad` a state loaded by the host's thread or a preset recalled by
a job, with one store per parameter. An emission (`emit_gui_param_changes`) begins with
`Quiet` or `HostMoves`, which are `process` and either `flush` up to that call; `Close`
ends what was left open and takes the pending set, `ReadValue` and `Push` report one
parameter, `PutOff` skips the rest once an end was refused, `Settle` puts back what
was not delivered. Every push is accepted or refused on its own, because the
events have different sizes and the host owes no explanation.

`heard` and `depth` are the host's: the value it holds and the gestures it counts. A
move by the host changes its own value and the mirror in one step: in between
lies only the way of the event into the same call. `crossed` is a ghost variable: see
`NoEditLost` in section 6.

### 2.9 ChainBypass

`SetGlobalBypass` and `ChangeLatency` happen between blocks; `Begin` and one `Frame` for
each frame of it are a call of `Chain::process`. `DryContributes` and `WetContributes`
are its two flags, hence the three shapes of a block: the stages alone, the delayed input
alone, or both in a crossfade. `line` and `write` are a `DelayLine`; a sample is
the number of its frame, so that a property can say *which* frame is heard. `Fed` is
the feeding of the line, which every block does, heard or not. The exponential ramp is
a position that moves one of `Gradations` steps a frame, stays short of its target
until the block is over, and is set to it then (`Snapped`). Left out: the values of
samples, and with them the output ceiling and the scan for faults; the tail.

### 2.10 Convolver

`Prepare` is `build_schedule` with `PreparedChannel::new`, for every length, block size,
growth and ceiling of the configuration. `Begin(n)` and one `Sample` for each of the `n`
samples are a call of `process_block`: the head goes over the whole block, and then the
loop takes the samples one by one to the ring and the windows (`unplayed` counts those to
come). Nothing else touches a channel during a call. A value is the bag of products of a tap and a sample that were
summed in it; `Direct` is `direct_convolve`, the time-domain sum. A transform is
modelled by what it computes, with one exception: a window with a non-finite
sample counts as silence, because the inverse transform refuses its spectrum.

### 2.11 WaveNet

`Warm` is a block of `new_state_prewarmed`, `Process(n)` a block of
`process_block`, with the code's two alternating trunk buffers, the running sum of
the head and a history per convolution. `Wholes` is the same network over all of the
input at once, without buffers: a signal is a function of time, and endless silence
precedes the input. Samples are residues of a prime and an activation is a polynomial, so
that the comparison is exact. One channel stands for all; gating and the constant factor
`head_scale` are left out. `WaveNetState` holds the whole network and the promise, `WaveNet`
the buffers.

### 2.12 LibraryScan

`ExpandDir`, `ExpandLink` and `ExamineFile` are the three kinds of
`Scanner::step`; the order of the queues is the code's. `ListChildren` has every way a
listing may fail: refused, cut short, a child whose type or metadata cannot be read, a
link whose target cannot be. `blind` is `unreadable_prefixes`, `found` the upserts,
`Removals` is the method of that name; `Apply` is `Index::apply` with the
baseline's move. The user edits and deletes files, and cancels or asks again, at any
step. A file's time is the clock rounded to `Grain`; an edit keeps its length. `Leads` is
what canonicalising the path of a directory gives.
`touched` and `unsure` are ghost variables: what changed since the scan began,
and what was suspect when a scan moved on without reading it.

### 2.13 LibraryService

`Open`, `Read`, `Recover` and `Install` are `ensure_loaded`, under its lock, a system
call each; `StartScan` to `Restamp` are the scan job with `save` and
`publish`; `Create` and `Rename` are `write_atomic`, `Mirror` the sidecar. Any write may
fail, a process may crash at any step, the document may be replaced, damaged
or written by a newer build. The walk is one step, `Walk`: what it finds and is blind to
is any set `LibraryScan` could give. A service is a `LibraryService` value with its
roots; a process holds one shared index per path. `shelf` is what is really on disk.

### 2.14 StateDocument

A document maps places (a section and a key) to values; a build is a registry of
parameters with ranges and a set of references it can parse, and a newer build has
more of each. `BeginLoad` and `Adopt` are `adopt_document_bytes` and the state taken
over; `BeginSave`, `Merge`, `Write` and `Keep` a save with `write_onto`, on the host's
thread or in a job of the pool. `Carriers` are the instances that keep the document
they loaded. `meant` is a ghost variable: what the users have set. `crossed` excepts
documents of an instance that adopted another one while a call was under way
(`worker_jobs.rs:183` and `state_ext.rs:51` set the last document without a lock in
common with the state).

### 2.15 AppSession

The window's intents are actions of their own (`SetParam`, `Ask`, `SelectAudio`,
`SelectAudioRefused`, `DeviceLost`), and so are the events it reads in a frame
(`LoadFinished`, `StateSaved`, `StateLoaded`, `AudioStreamReady`). The worker takes one
command at a time; a save, a recall and a rebuild are two steps, because the state is
read before and stored after. An engine has the number of the reopen that built
it; `instance` is the engine of the `Instance`, with what was submitted to it, `streams` the one
the open streams run, `Submitter` the one that
`SharedInstance` was made with. One parameter and one file stand for all.

A recall makes of the stage one of three `Outcomes`: the file is loaded, or unloaded
because it is not to be found, or the stage is left as it was because the file does not parse or
nobody takes it from the ring. `TakeRecall` reports the outcome, and the window keeps or changes the
name by it (`NameAfter`); `Rebuild` has an outcome as well, and drops it, as
`worker.rs:586-591` does. `unsaid` is a history variable: what the engine holds was changed
without the window being told, or the window was told of a state it read too late.

### 2.16 StreamBridge

`DeviceCallback` begins a callback of the input or output device, `Push` and `Pull` move
one frame each, so that the two sides interleave frame by frame; slices and chunks end
where the code ends them (`ChunkEnds`). `started`, `pulls` and `since` are the counters
that hide the pads of a pair that is starting up. `Play` and `Drop` start and stop the
streams in the code's order.

### 2.17 DeviceNegotiation

`FirstPass`, `Decide` and `Pick` are `negotiate_audio`, the decision on the share mode
with its second settlement, and a choice in the settings panel. A device
reports one list in shared and another in exclusive mode. The operators have the names and
order of those in `device_state.rs`. A successful open writes the settled rate to the settings
file (`persist_negotiated_audio`), but not to the settings in memory, which are what a later
reopen goes by (`host.rs:604`): it is the next launch that starts from it, and `Init` starts
from any settings. The output stream in fact asks for the device's own buffer
(`app.rs:295-300`), so that `OpensAsReported` demands of the output side more than is needed of it.

## 3. Runs, bounds and what they show

Every passing run explores its whole state space.

| run | instance | what it shows |
|---|---|---|
| `handover_full` | 4 slots, rings of 2 and 2, two commands a block, fades of up to 3 blocks, offers that fit and that do not | 4.0 million states. `OnePlace`: no slot lost or doubled. `FadeMeetsFreePen`: a fade is finalized in the block it ends in, as the debug assertions have it |
| `handover_moves` | 2 slots, the NAM switch and the bypass moved by host and editor | 2.2 million states. `NoCut`: a slot leaves its stage only faded out, or displaced while it was fading in; and the refinement `FollowsCustody` |
| `handover_live` | 3 slots, fades of up to 3 blocks, fair threads | 1.4 million states. `FadesEnd` (issue #56): every fade ends, drained or not. `DrainingUnblocks`: as long as the worker drains, commands are taken |
| `param_gestures` | two parameters of two values, four calls | 148 thousand states. `GesturesNest`, `NoEditLost`, `EditsReported`, `GesturesEnd` |
| `liveness` | five units, below | 900 thousand states |
| `safety` | ten units, below | 3.3 million states |
| `handover_idle_worker`, `replay_bare`, `library_offline_link`, `library_two_shells`, `app_reopen`, `app_unsaved` | one promise each | violated, see section 6 |

`liveness` and `safety` hold several components that share no state. The initial state
chooses the one that runs (`unit`); the others stay in one initial state of theirs. No
component is put beside another for it to interact: this is a way of checking small
components in one run, and what a property says of one unit is what it would say in a run of
its own. The fairness of a unit is enabled only while it runs.

| unit of `liveness` | instance | properties |
|---|---|---|
| `telemetry` | two slots, eight entries, one reader with a buffer of two | `NeverStale`, `MissedIsLowerBound`, `DeliveredOrOverwritten` |
| `pool` | two workers, two outside callers, two jobs | `ReturnedMeansStopped`, `AcceptedJobsRun`, `ShutdownReturns` |
| `session` | two values, two files, an older preset, recalls with any outcome, four calls among knobs, files, presets, devices and device losses | `StreamsFit`, `ShownIsTrue`, `ReopenEnds` |
| `replay` | two pool threads, three calls of every kind, recalls with any outcome, states with a model, with a response and with neither | `ResourcesAgree`: once quiet, what the engine has answers to the references, as the jobs last left it. `Converges`: the engine always comes back to that, in its parameters too, unless a knob's attempt came in between |
| `handshake` | two models, two rates, one pool thread, three changes from outside among states, library entries, files, rates, deactivations and delays | `ToldOrAboutToBe`, `HostLearns`, `RestartsEnd` |

| unit of `safety` | instance | properties |
|---|---|---|
| `library` | a library with one collection and a link to it, one file under two paths, two edits, three scans, one failure of the file system | `NeverErased`, `ListedIsReflected` |
| `indexes` | two products in two processes on one index, two scans, one failing write, one crash, one damage | `KeptIfPresent`, `MarksKept` |
| `impulse` | responses of 1 to 14 taps, blocks of 1 to 3, growth 1 to 3, ceilings 2 and 5, calls of every length, with and without a sample that is not finite | `OutputIsConvolution`, `LoadIsSpread` |
| `resampler` | engine block of 7, calls of 1 to 24 frames | `DelayIsConstant` |
| `bridge` | blocks of 2, a ring of eight blocks, slices of 3, callbacks of 0, 3 and 7 frames | `XrunsAreDropouts` |
| `cache` | two instances, three models, one response that parses and one that does not, two contexts, a floor of one entry | `SingleCopy`, `ResidueBounded` |
| `devices` | every pair of five lists in either mode, 16 settings | `OpensAsReported` |
| `documents` | two builds of the plug-in, two files, four kinds of document, three calls | `ReadsBack`, `NothingLost` |
| `model` | three networks, blocks of up to 1, 3 and 5, a whole prewarm and one cut short, 12 samples | `OutputIsWhole` |
| `chain` | a line of five frames, latencies of 0, 3 and more than the line, a fade of four steps, blocks of 1 to 4, 16 frames | `DryIsInStep`, `FadesAndSettles` |

What the properties say is written above each definition. Type correctness and several
invariants of the gate, the FIFOs, the cache and the latency claim are proved for every value
of the constants (section 5), and no run repeats those.

Why the bounds are enough:

* **Handover.** The default rings hold 256 commands and 8 returns. What matters is
  the room left, and two returns (`RETIRE_HEADROOM_PER_OFFER`, the least `split`
  allows) is where all of the gate's cases lie: one place, two, none. A stage holds
  at most two slots and a pen, so four slots and both stages fill every place that
  matters and a ring too. Three units of fade let a fade outlast the block it
  began in and the one after, which it takes for one stage's pen to fill while the
  other stage still fades. In the runs with parameters the command ring has one
  place, since what matters is when a command is taken and not how many wait.
* **Telemetry.** Eight entries through two slots lap a reader more than three
  times, in every phase of a drain.
* **Pool.** Two workers is the most `pool_size` ever returns.
* **Session.** Four calls are two changes of the device, a load or a recall between them
  and a loss: enough for the answer of an older reopen to arrive after a newer one was
  asked for. Messages, losses of a write and failures of a rebuild are not bounded.
* **Replay.** Three calls are a load, an activation and one more of any kind, so that three jobs
  meet on two threads, with every pair of outcomes.
* **Gestures.** With two parameters one can be owed an end while the other is pending.
  Four calls are an edit, an activation, a load and a move by the host, which is every
  writer of a mirror cell at once; callbacks, flushes and refusals are not bounded.
* **Handshake.** Three changes suffice for a model to be deleted while the figure it gave
  is carried over a restart, and swapped again before it is judged. One thread of the pool does
  for the run, since what two can do more is to have two jobs between lock and epoch, and one may
  linger there through a restart; two threads and three changes were checked once (1.3 million
  states), and the theorems are about any number.
* **Scan.** A scan to learn of the file, one to go wrong and one to put it right; an edit
  each; a time whose grain is as coarse as the settling window. One failure at a time is
  what the code's comments speak of, and it may be of any kind but one (section 6).
* **Indexes.** One file tells whether entries survive; two scans are one for each product or
  two of one. `Overlap` is `FALSE`: two scans at once, or damage during a scan, are known to
  lose entries (section 6).
* **Impulse.** 54 schedules with none to four partitions, groups of equal size included, and
  34 samples, more than twice the longest response with its longest window.
* **Adapter.** 24 is more than three blocks of 7, and 7 divides no other size but its
  multiples, so calls of every residue follow one another in every order.
* **Bridge.** Slices and blocks that do not divide each other; callbacks longer than both; the
  ring can run empty and full.
* **Cache.** Two instances that hold one object each, over a floor of one entry, let the sweep
  run with live, dead and fresh entries in the map.
* **Devices.** The lists overlap in rates, channels and sizes in every way the code
  distinguishes, with unknown ranges, and some devices have no exclusive mode.
* **Documents.** Three calls are a load, an edit and a save by the build that knows less, or a
  load and a save by one build with another call overlapping them.
* **Model.** Even and odd numbers of layers, one and two arrays, heads with and without a
  history, histories longer than a block; 12 samples are more than the reach of any of them.
* **Chain.** 16 frames fill the line three times over; the fade takes as long as one block or
  as four; and bypass and latency may change between any two blocks.

A deadlock is reported as an error except where the system may stop: in `liveness` and
`safety` (bounded calls and entries) and the violated runs but `handover_idle_worker`.

## 4. Fairness and environment assumptions

* **Handover**: `WF(AudioStep)`, the host keeps calling `process`; `WF(WorkerStep)`,
  a worker finishes the job it began. Nothing obliges the worker to begin one.
* **TelemetryRing**: a `push` begun ends, and the editor drains once per frame.
* **ThreadPool**: threads are scheduled and jobs end. Nobody has to spawn a job or to
  shut the pool down. A notification is delivered to some waiter.
* **AppSession**: the window is drawn again and again and reads its events
  (`WF(Window)`), and the worker's loop takes what it is sent (`WF(Worker)`). Nobody has to
  ask for anything, and a rebuild may fail.
* **PluginReplay**: calls once begun go on and each of the pool's threads runs its jobs.
* **ParamGestures**: an edit and a load once begun go on; the host calls `process`
  while active, answers a request for a callback or a flush, and does not refuse the
  same event for ever. Nobody has to wake the main thread of an inactive plug-in:
  `EditsReported` and `GesturesEnd` speak of a plug-in that stays active or whose main
  thread is woken again and again (`Attended`), because `main_thread.rs` says that an
  edit in an inactive plug-in is held until some callback happens.
* **LatencyHandshake**: the host calls `process` while active, answers a request for a
  callback or a restart (CLAP requires both), and the pool's threads run. The host need not
  reactivate a plug-in it deactivated of its own accord. A restart that overtakes a job between
  its lock and its epoch is a delay of that job and counts against `MaxChanges`, as does a
  replay the engine does not take in time: if either befell every restart, the restarts would
  not end, and TLC shows the loop.

The other modules have safety properties only and assume no fairness: nothing in them waits
for anybody. The file system of `LibraryScan` and `LibraryService` may fail and a process may
crash as often as their bounds say; the clock never runs backwards.

## 5. Proofs

All theorems hold for every value of the constants that the modules' assumptions
allow. Four need a condition more: `EntriesSurvive` (`Orderly`),
`NothingIsErased` (`Describable`), `ScanIsExact` (`Unnested`) and `NothingIsLost`
(`Carriers = Builds`). Section 6 shows how the property fails without it.

| theorem | module | statement |
|---|---|---|
| `TypeCorrect`, `PoolTypes`, `RingTypes` | `HandoverProofs`, `PluginProofs`; `WorkerProofs`; `EngineProofs` | `Spec => []TypeOK`; in `Handover` that includes both rings within capacity. In the other modules it is part of the inductive invariant |
| `GateInvariant` | `HandoverProofs` | `TypeOK` and `GateInv` always hold |
| `PenProtected`, `NoStall`, `FadesMeetFreePens` | `HandoverProofs` | the three safety properties of the gate |
| `BlendAlwaysFollows` | `HandoverProofs` | what a stage plays agrees with its slots and its switch |
| `HandoverFollowsCustody` | `HandoverProofs` | the refinement: `Spec => FollowsCustody` |
| `EverySlotHasOnePlace` | `HandoverProofs` | `OnePlace`: no slot is lost, doubled, or freed on the audio thread |
| `NothingIsCut` | `HandoverProofs` | the action property `NoCut` |
| `AlwaysInStep`, `SmoothAndFinite` | `EngineProofs` | the action properties `DryIsInStep` and `FadesAndSettles` |
| `ConstantDelay`, `FifosBounded` | `EngineProofs` | no silence spliced in; FIFOs within one engine block and one host block |
| `OutputStaysConvolution` | `EngineProofs` | `OutputIsConvolution`: the partitioned convolution is the convolution |
| `LoadStaysSpread` | `EngineProofs` | `LoadIsSpread`: no call pays for more than its share of the transforms |
| `OutputStaysWhole` | `EngineProofs` | `OutputIsWhole`: a model run block by block is the network over the whole input |
| `ReadersNeverGoBack` | `EngineProofs` | the action property `NeverStale` |
| `MissedNeverOverstates` | `EngineProofs` | `MissedIsLowerBound`: no invented loss |
| `NothingLeftBehind`, `ShutdownStops` | `WorkerProofs` | an ended worker leaves an empty queue; a returned shutdown leaves no worker |
| `OneCopy`, `NeverMisfit`, `LiveAlwaysCached` | `WorkerProofs` | one live copy per content; nobody gets a misfit; what is held can be found |
| `DeadEntriesBounded` | `WorkerProofs` | `ResidueBounded`: dead entries within the floor of the sweep or what can be alive |
| `NoEngineReplacedInUse` | `ApplicationProofs` | `StreamsFit`: no engine is replaced under a callback |
| `WindowShowsWhatIs` | `ApplicationProofs` | `ShownIsTrue`: the mode the window shows, and the name but after the steps that leave it unsaid |
| `EveryDropoutCountsOnce` | `ApplicationProofs` | `XrunsAreDropouts` |
| `OpenedAsReported` | `ApplicationProofs` | `OpensAsReported`, for all lists of configurations |
| `NothingIsErased` | `StoreProofs` | the action property `NeverErased`, if what is listed can be described |
| `ScanIsExact` | `StoreProofs` | the action property `ListedIsReflected`, if no root lies below another |
| `SavedIsReadBack` | `StoreProofs` | `ReadsBack`: a build reads back the state it saved |
| `NothingIsLost` | `StoreProofs` | `NothingLost`, if all instances keep the document they loaded |
| `MarksSurvive` | `LibraryProofs` | `MarksKept`, however many scans overlap |
| `EntriesSurvive` | `LibraryProofs` | the action property `KeptIfPresent`, if scans of the same roots follow one another |
| `GesturesAlwaysNest`, `NoEditEverLost` | `ParamGesturesProofs` | the host sees gestures that nest; what it does not hold is on its way to it |
| `PredictionStands` | `PluginProofs` | `ClaimStands`: what an outstanding latency prediction is about |
| `NoChangeForgotten` | `PluginProofs` | `ToldOrAboutToBe`: a latency the host does not hold is on its way to it, but for the two lapses |
| `WhatIsSavedIsHeard` | `PluginProofs` | `ResourcesAgree`, for any number of pool threads, all states and every outcome of a recall |

Where `PROJECT.json` names a property with a theorem, a run checks the same definition on a
small instance. The others (`PenProtected`, `NoStall`, `BlendAlwaysFollows`, `FifosBounded`,
`NothingLeftBehind`, `NeverMisfit`, `LiveAlwaysCached`, `PredictionStands`) stand on their
proofs alone.

### 5.1 The gate's invariant

`GateProtectsPen` is not inductive: that the pen is empty when a command passes
depends on what the collect pass of the *previous* block reported. `GateInv` says
what the engine knows at each point of a block:

* between blocks, a pen still occupied is announced by `backlog`;
* while draining, an occupied pen is announced by `backlog` or belongs to a
  stage already offered to in this block, and then `backlog` is down;
* room is set aside: `reserved` is `Headroom` per stage offered, and the return
  ring has at least that much (the worker only adds room);
* hence, in the collect pass before the stages, every pen filled in this drain can be
  pushed; so a stage that fades has its pen free when it is processed, and a fade that
  ends in this block is finalized in it;
* in a collect pass, a pen that was asked and is still occupied has been counted as
  rejected, which is what `Collected` turns into `backlog`.

The room is why `Headroom` is 2: each offer may retire a displaced slot at once and
the faded-out slot later. The proof treats the actions one by one (`GateStep`), with
the arithmetic of the two stages in lemmas of their own. `NeverStalled` and
`FadeMeetsFreePen` are conjuncts of the invariant or follow from it. A consequence worth
knowing: the deferred state in `try_finalize_handover`, which waits for an occupied pen,
and the stalled offer in the engine are unreachable as long as the gate is what it is.

### 5.2 The bypass

`LineInv` says what frame each place of the line holds, as a function of the frames
processed and the place written next; every block keeps it, because every block feeds the
line, and `Delayed` reads the place that holds the frame wanted. Then `AlwaysInStep` is a
fact about one step. `FadeInv` says how far the fade may be from its target: since the
last change it has come a step nearer every frame, or is within its last; a block that began
before the fade settled began early enough that the length of a block bounds what is left.
`HeardInv` ties what was heard last to where the fade is now, but for the step by which
the end of a block sets it to its target. The proof shows that a fade of one step would be
over before it is heard, which is why `Gradations` must exceed one.

### 5.3 Custody, places and cuts

`OnePlace` counts positions; `CustodyInv` is what makes it inductive: no two commands, no two
entries of the return ring and no two cells (a position or the pen of a stage) have the same
slot, and the four holders of a slot (the worker, the command ring, the engine, the
return ring) exclude each other and are `live`. `QueueTakes` and its like say what a
step does to a ring seen as the set of what is in it. The gate's invariant comes in where
a stage retires a slot into its pen: had the pen been occupied, what was in it would be gone.
`HandoverFollowsCustody` reads each action off the same lemmas: a slot changes holder as
`Custody` says, or its holder stays. `NothingIsCut` needs that a stage which does not fade
has nothing in its idle position and that a fade has frames left between blocks (`FadeInv`);
the gate gives it the free pen a fade ends into.

### 5.4 The application

`StreamsFit` looks at one moment, but whether an engine is replaced under its streams is
decided by messages on their way. `ReopenInv`: the reopens in the inbox are in the order in
which they were asked for, behind the one the worker is at; the window waits for one that is
no earlier than any of them; so when the answer it waits for arrives, no rebuild is left
(`Answered`), and the streams it opens are safe.

`ShownIsTrue` says what the name is when nothing is on its way; `NameInv` says what it will be:
of the events in the outbox that bear on the name the last agrees with the engine's file, and
where there is none the name shown does, `unsaid` apart. The answer of a recall that loaded a file does not
say which; the window reads that from the session's state when it reads the event, so the state has
to be the engine's then as well. A recall that leaves its stage alone keeps the engine's file and the
name, but not the session's, which is why a recall before it whose answer is unread sets `unsaid`. While the
worker is half way through a recall the engine is ahead of what anyone was told, and the worker
holds the difference.

`XrunsAreDropouts` is about the end of a callback. In between, a callback has counted one xrun
exactly if its latch is up, and had a dropout exactly if the latch is up or frames of the
current input chunk were refused, which `CallbackInv` says for the two sides separately.

### 5.5 The index document

`MarksSurvive` needs that every copy of the marks is there before the next thing is done with
it: the document and the sidecar, the index of every process that has loaded one, a load about
to be installed, a scan that has its entries. The point is that no scan goes past its load
before its process has an index, which is what `LoadsAreAwaited` gives: a load that a scan began
is the load it waits for, even across the crash of another process. It holds with any number
of services, processes and overlapping scans, for all damage.

`EntriesSurvive` needs more, and holds under `Orderly`: no scan begins while another runs and no
one else writes the document meanwhile (`~Overlap`), and all services scan the same roots, as
`open_default` means them to. Without either, section 6 has the counterexample. The
invariant says that an index whose stamp is the document's lacks none of its entries but
those of files touched since (`Current`), and that from the moment a scan takes its entries
from the index until it has published, what it holds is current. Stamps must never come
back (`StampsInv`), or a load that read an older document would pass for one of the new.

### 5.6 The scan

`NothingIsErased` is about what a scan did *not* see. `Careful`: whatever the snapshot holds
and is on disk, untouched, is covered, and that is, was seen or is queued, or lies below a
directory that is queued or could not be read (`Covered`). A listing hands what it covered on to
the children it queues (`WalkKeeps`), and when nothing is queued any more, what is covered was
seen or lies below what `Removals` excepts. The induction goes along the path of a file, from the
root down: the next directory on the way is a child of the one that is listed, unless that one
holds the file (`NextBelow`). `Describable` excludes the two failures with which a child is
neither queued nor recorded, a directory or a link whose own metadata cannot be read; with
either the property fails, which is the finding of `library_offline_link`.

`ScanIsExact` is about what a scan did see, and needs in addition that what it remembers
is still so. `Exact` says it of the queue, of what was read and of what was passed by;
`ListedExact` that a directory listed to its end has given up all its files; `Frontier` that of
the directories queued none lies below another and none was walked before, so that what was
listed is not counted as unreadable by a second visit. That is where `Unnested` is needed, and
section 6 has what happens without. An entry that is not read again is right for a reason that
goes back to earlier scans: `Trusted` says that an entry nobody has to doubt whose time is
still that of its file, and lies before the baseline by more than the window, has the content
of the file. An edit breaks the premise, since it stamps the file with the clock, which never
runs behind the baseline, rounded down by less than the window (`Grain <= Window`);
`Dated` says the same of what was touched during the scan. Hence the window is exactly what
the argument needs: an edit later than the baseline leaves a time the next scan suspects.

### 5.7 Documents

A document written over another is read back if what is written is within what the build
understands: parameters within its ranges, references it can parse. `Own` says that of a
state, and `Intact` that every instance's state and every load and save in progress has it.
It is closed under what a build does: reading clamps and drops what cannot be parsed
(`ReadIsOwn`), whatever the file says; the user turns a knob within its range. Then
`OwnIsReadBack` is one argument on `WriteOnto`: the sections written win over those of the old
document, the legacy section is shadowed, and an empty slot is read as empty, either because
its entry was removed or because the build could not have read it. No overlap of loads and
saves matters, because what is merged is whatever document is there, over which any state is
read back.

`NothingIsLost` is about what *others* read. `Said(i, s, d)` is what a document would say to a
build that knows everything, once `i` has written the state `s` over `d`: what is in `s`, and of
`d` the parameters `i` has not heard of, the references it cannot parse and what no build reads.
`Uncrossed` says that this is what `i`'s users have set (`meant`) at every step of a call, with
`d` the document kept, as long as no call of `i` has crossed another. A load breaks it when it
keeps the document and restores it when the state is taken over: that has to be a load of its
own, and `ReadingSays` is the lemma. An edit changes both sides alike. `WritingSays` has two
halves: what is written says what is to be said, and differs from the document below it only in
what the state overwrites (`SameRest`), so that the instance may keep it for the next save. An
edit between the two only fills slots (`Emptier`). A call that crosses another leaves its
document out of the claim, but not out of `NothingLost`: what a file says is then by definition
what was meant, and the other builds carry that on. The application is left out, because it
keeps nothing to write over.

### 5.8 The convolver

`ConvolverInv` is about the channel, which never changes, and about what is in its buffers.

Of the channel (`ChannelOK`): the partitions cover every tap behind the head exactly once,
each begins at least as deep in the response as its window is long, and the ring is longer than
the reach of any of them. The schedule is a walk of unknown length, so this is an induction
(`Schedule`); it goes by the least counterexample, since the library's induction theorems are
out of reach (below). The depth is the subtle part. A size may grow only once the partitions
passed have added up to at least the next one (`Growing`): with `growth` of them to a level
they do, with one they may not, and then a window fills after its output is due. That is the
mutant `OnePerSize`. The walk and the powers of two are recursive functions, and a proof may
use such a definition only once it is shown that a function satisfies it (`Walks`, `Powers`).

Of the buffers (`RingOK`): for every time within the ring's length ahead, its cell holds the
products due at that time of the samples whose windows were transformed (`Expected`), each once,
and nothing else. A sample that goes into a window changes nothing in this; a window that fills
adds exactly what it owes (`AddsWhatIsOwed`), none of it was there before (`OwedIsNew`), none of
it is owed by another stage, and none falls on a cell that has been played or wraps round to
another time. When a time is played, every tap behind the head is at least as deep as its
window, so the window of the sample it takes was transformed: what the head computed and the
cell are together the whole sum (`AllProducts`, `SamplePlays`). A window with the non-finite
sample contributes nothing, and `Spoilt` is shown to cover all times it is missed at.

For the load: two windows of one size are filled to lengths that differ by the difference of
their staggers, give or take a whole window (`LoadOK`). Two staggers are the same or at least
a block apart, also round the end of the window (`StaggersSpread`), so those that fill in one
call have one stagger; and the formula puts no more than the size's share on any
(`PhaseShares`): `count <= phases` makes `nth * phases / count` different for each, otherwise
`nth % phases` deals them out in turn.

### 5.9 The network

A buffer and a signal of the whole network are compared by `Agrees(s, n, sig, start, from)`: the
`n` samples of `s` are those of `sig` from the time `start` on, as far as they are not before
`from`. Time begins with the silence of the prewarm, at minus its length, and a whole signal is
constant before -1 (`Past`), as the network over endless silence is.

* A convolution has what it needs its own reach later than its input has: if history and
  input agree from a time on, the output does from `HistoryLen` later (`ConvolvedWhole`),
  and the history it keeps does from the same time as the input (`AgreesSlid`). Mixing,
  scaling and activating keep the time (`AgreesMixed`, `AgreesScaled`, `AgreesActivated`).
* So the trunk is whole, after layer `l` of array `a`, from `Since` on: the sum of the
  reaches before it. For one layer that is `LayerWhole`, for all of an array
  `LayeredWhole`, for all arrays the same walk again. The sum the head takes is not later
  than the trunk. `PrewarmSamples` is one more than the sum of all.
* `WaveNetInv` says this of every history between two blocks (`Keeps`, `KeepsHead`): it agrees
  with the last samples of its input, from `Since` on. At first nothing is claimed of it, since
  all of it is older than the silence (`NothingKept`). Scratch buffers carry nothing from block to
  block, and the invariant says only how long they are. That the last layer wrote the
  buffer the next array reads is where `EndsWith` comes in.

The walks over layers and arrays are recursive functions; each is shown to exist before it
is used (`LayersAre`, `ArraysAre`, `LayeredAre`, `ProcessedAre`, `TotalsAre`), and what is said
of all its values goes by induction over the numbers (`AllNumbers`).

### 5.10 The others

* **ResamplerFifo**: `inFifo + outFifo = EngineBlock + frames`, with `inFifo` below a
  block unless output is plentiful. When the loop ends, either the output suffices or
  less than a block of input is left, and then the sum says the output suffices.
* **TelemetryRing**: the slot of position `q` holds an entry congruent to `q` and no
  older than the last one stored there; a drain reads only positions below `seq`. The
  missed count is bounded because a copy adds at most one entry to what a reader has got:
  got and missed together never exceed the positions it went past.
* **ThreadPool**: `ExitedMeansEmpty` needs that a worker exits only with the flag up,
  and that the flag is read and jobs are pushed under one lock. `ReturnedMeansStopped`
  needs that handles are taken once and that a handle leaves `joining` only by its
  thread's end or by being the caller's own. The lemma `SomeWorker` proves that the
  formula for the size of the pool gives a thread for every number of cores.
* **ResourceCache**: `LiveIsCached` strengthened by "an object's entry is under the key
  of what it was prepared from". `SingleCopy` then follows, as the key determines the
  entry; this is where `IrKey` has to include rate and block size. For `ResidueBounded`,
  an instance holds at most `HoldMax` objects, a load in progress included, so that the
  entries a sweep leaves are bounded by what is held (`UnionBound`), and a map over its floor
  is swept whenever it has grown.
* **ParamGestures**: the parameters owed an end lie in `open` between emissions and in
  the emission's own set during one; a begin is pushed only when both are empty, so
  there is never more than one. For `NoEditLost` the value read by an emission needs a
  clause of its own: it is current, or the editor has stored another and marks it, or a
  state has overtaken it.
* **LatencyHandshake**: `ClaimStands` with the shape of the record. For `ToldOrAboutToBe`: as long as
  there is no prediction, the figure is the engine's unless it is yet to be stored (`Figured`),
  a figure to come is followed by its flag (`Flagged`), and a flag that is up has a callback coming,
  while a difference has a flag, a decision or a restart (`Answered`); a prediction is
  awaited by a job (`Awaited`), and no stores are pending while there is one (`Still`). `lapsed` is
  where the second and the fourth of these break.
* **PluginReplay**: as long as no replay is queued, about to take its snapshot, or sure to be
  queued by an adoption that has begun (`Pending`), the engine answers to the references as `heard` has
  it when no job is at work (`Settled`), and while one job is, alone, it holds what will
  make that so: a snapshot as new as the references, or the reference of a file that is in the engine
  already (`Held`). When jobs meet, all words become "unsure" and stay so until a replay or the
  rest of the pool (`Met`); an unsure stage is claimed nothing of, so the meeting can do no harm,
  and the first job taken from a pool at rest is alone again (`Alone`).
* **DeviceNegotiation**: what the streams are opened with was settled on the lists of the mode
  they are opened in (`DevicesInv`): `Decide` settles a second time exactly if a list is of the
  exclusive mode and that is not granted, and where no list is, both were shared already. A
  settled channel count is that of some configuration at the settled rate
  (`ChannelsAreThere`), so that the lists narrowed to it cover the rate, and the buffer size is
  one they accept (`FramesAreTaken`). What was offered in a selector would be taken of the lists
  of the same mode (`Kept`, `OfferedIsTaken`), and what is remembered and would be taken, is
  (`RateRemembered`, `FramesRemembered`). That a set of channel counts has a least and a
  largest member follows from the well-foundedness of inclusion among finite sets (`Smallest`,
  `Largest`); the largest exists because a count is a `u16` (`MaxChannels`).
* **Blend**: `BlendFollowsSlots` is inductive with `TypeOK`: every step that changes the slots,
  the fade or the switch of a stage sets its target from what they have become.

Out of the prover's reach, and left to TLC: liveness under fairness (`DrainingUnblocks`,
`FadesEnd`, `AcceptedJobsRun`, `HostLearns` and the others). Every invariant and every action
property that a passing run checks is stated by a theorem of the table.

## 6. Where the code and its documentation part

Six runs are expected to find a violation; `PROJECT.json` quotes the lines.

* `handover_idle_worker`: `engine.rs` says the gate stays shut only if the worker has
  died. It also stays shut when the worker is alive and has nothing to do, since the
  return ring is drained only at the start of the next load or unload. At the default
  capacities that takes nine or more loads queued while no block runs.
* `replay_bare`: `spawn_recall` says that whatever the instance stands for is pushed onto
  the live engine; it returns early when neither reference is set, so a state of
  parameters alone changes the editor and not the sound, and a state that names nothing leaves
  the model of the state before in the engine.
* `library_offline_link`: `scan.rs` says that nothing below a link whose target could not be
  resolved is removed. A link whose target cannot be *described*, as when a drive is
  offline, is reported as neither directory nor link, is not recorded as unreadable, and
  everything below it goes.
* `library_two_shells`: `open_default` exists so that both products scan the same roots over
  the index they share. The application opens it with the roots of its settings, and a
  scan by the plug-in erases what was found under the others.
* `app_reopen`: the application keeps the submitter of the engine it was started with. After
  the first change of the audio device every knob goes to a ring nobody reads.
* `app_unsaved`: when the answer of a save is read, what is shown as saved is the state of
  that moment, and not the one that was written.

Other instances of the same modules fail too. They show limits of what the runs above
assert, and anyone changing this code may want to try them:

| change | fails | why |
|---|---|---|
| `PluginReplay`: `raced` always `FALSE` | `ResourcesAgree` | a job's snapshot (`worker_jobs.rs:254`) is taken before the instance's lock (`:283`); another job may run in between, and the older snapshot is pushed last |
| `PluginReplay`: a stage that keeps what it held counts as "given" (`Recalled`) | `ResourcesAgree` | a file that was there and does not parse, or is not delivered, leaves the stage as it was while the reference stands (`recall.rs:206-210`, `namir-worker/src/lib.rs:478-521`) |
| `PluginReplay`: a replay that returns early changes no word (`Skipped`) | `ResourcesAgree` | a load and a recall at once write the two references in turn (`shared.rs:365-366`); what is left may be the absent half of each, and both replays return early (`worker_jobs.rs:255`) |
| `Liveness.cfg`: `Knobs = {}`, `Flushes = {}` | `Replay!CleanMeansSaved` | a library load marks the state dirty when it is dispatched and records its reference when its job ends; a save in between takes the mark off. With flushes there is a shorter way: a value the host sets while the plug-in is inactive does not mark the state dirty at all |
| `ParamGestures`: `NoEditLost` without `crossed` | `NoEditLost` | an emission reads a value, a state replaces it and the host reads everything again, and the older value is pushed last: the host keeps it until the parameter moves again |
| `LatencyHandshake`: `lapsed` not set by `Skip` | `ToldOrAboutToBe`, `HostLearns` | a reference cleared before the activation's replay runs: the replay returns early, the epoch never moves, the prediction is never judged |
| `LatencyHandshake`: `lapsed` not set by `TakeFlag` | `ToldOrAboutToBe`, `HostLearns` | a callback asked for by something else sees the flag and not yet the figure, and takes the flag down |
| `LatencyHandshake`: `Restart` not counted while `bumping` is not empty | `RestartsEnd` | a job that always moves the epoch in the activation after its own has every prediction judged before the replay's turn (`shared.rs:667-675`), and each judgement asks for a restart |
| `SessionState`: `NameIsLoaded` without `unsaid` | `ShownIsTrue` | a file is loaded, the device is changed, and the file is gone or damaged by the time the engine is rebuilt: the rebuild drops the outcome of its recall (`namir-app/src/worker.rs:586-591`), the engine has no model, and the name stays. `namir-ui/src/host.rs:220` defines the name as that of the loaded model, "`None` when no model is loaded". Also: a recall that finds an engine nobody runs keeps the old name, and the rebuild that follows loads the new file |
| `LibraryScan`: a root inside another, or twice | `ListedIsReflected` | the second visit of a directory counts as unreadable, and files deleted below it are never removed: the condition `Unnested` of `ScanIsExact` |
| `LibraryScan`: `ListedIsReflected` without `unsure` | `ListedIsReflected` | an entry that was suspect when a scan moved the baseline on without reading it is no longer suspect in the next |
| `LibraryService`: `Overlap = TRUE` | `KeptIfPresent` | two scans at once save over each other what they began with; a document replaced between the publication and its stamp counts as loaded |
| `StateDocument`: `Carriers = {newer}` | `NothingLost` | the older build is then the application, whose preset save (`namir-app/src/worker.rs:486-511`) writes a document of its own and drops what a newer build had put there, against docs/04, lines 241-256 |

The passing runs stay clear of these, or take them and except what follows from them (`raced`,
`heard`, `lapsed`, `unsaid`, `crossed`, `unsure`): one product scans at a time, both builds in `documents` are plug-ins, and no root lies inside another.

## 7. What is only model-checked, and what is not modelled

Only model-checked: every liveness property.

### 7.1 Hazards no property watches

These are real, and were met while modelling; the reason no property names them follows.

| where | what | why |
|---|---|---|
| `namir-library/src/scan.rs:221` | a first scan that is cancelled leaves no baseline, and a suspect entry that cannot be read is not suspect in the next scan | the code gives no guarantee; excepted by `unsure` |
| `namir-library/src/scan.rs:270` | roots inside one another (against FR-LIB-070) | see section 6; such trees are left out of the runs |
| `namir-worker/src/library.rs:233` | the stamp of the document is read after the index is published | the window of two system calls; fails with `Overlap` |
| `namir-library/src/store.rs:152` | a document without marks is taken for one whose marks cannot be read, and the sidecar brings back marks that were removed | no product code removes a mark at this commit |
| `namir-app/src/worker.rs:464` | a second scan request overwrites the handle of the one in progress, which can no longer be cancelled | part of `LibraryScan` (`held`); nothing promises otherwise |
| `namir-app/src/worker.rs:546` | a recall gives the state to the engine first and to the session afterwards; a parameter set in between stays in the engine alone | part of `AppSession`; no promise excludes it |
| `namir-app/src/worker.rs:507` | a preset is written in place, and a failure half way leaves a file nobody can read | part of `AppSession` and `StateDocument`; no promise excludes it |
| `namir-app/src/worker.rs:590` | a rebuild drops the outcome of its recall, and the window goes on naming a model the engine does not have; a recall that finds an engine nobody runs keeps a name the next rebuild makes wrong | a defect, shown by the row on `NameIsLoaded` above; `ShownIsTrue` excepts it by `unsaid` |
| `namir-worker/src/recall.rs:206` | a reference whose file does not parse or is not delivered leaves the stage as it was, so that a save writes what is not heard | excepted by the word "unsure" of `heard`; nothing promises otherwise, but `spawn_recall` reports missing files only |
| `namir-worker/src/library.rs:466` | two scans at once save over each other | fails with `Overlap` |
| `namir-app/src/stream.rs:559` | the window in which pads count as start-up is too short or too long | `XrunsAreDropouts` defines a dropout with the same window |
| `namir-app/src/stream.rs:561` | pads are hidden for a number of pulls, so that small buffers shorten the time that stands for | the properties count pulls, as the code does |
| `namir-app/src/device_state.rs:170` | a rate both devices have is missed, since only the one each would choose alone is tried on the other | `OpensAsReported` speaks only of rates that were found |
| `namir-engine/src/stages/nam.rs:861` | the wet/dry target is computed from slots the handover then changes | proved: `BlendAlwaysFollows` |
| `namir-engine/src/stages/nam.rs:498` | a FIFO outgrows its capacity and allocates on the audio thread | proved: `FifosBounded` |
| `namir-worker/src/cache.rs:176` | a response laid out for another rate or block size | proved: `NeverMisfit` |
| `namir-worker/src/pool.rs:64` | no worker on one core | proved: the lemma `SomeWorker` |
| `namir-worker/src/submit.rs:160` | `try_submit` gives up after a number of attempts at the lock and reports a full ring that was not full | the lock is one step in `Handover`; section 8 |
| `namir-worker/src/lib.rs:352` | the crossfades of the two stages are kept apart by a sleep measured from the last submission, while the command may still wait in the ring | a matter of processor load; `Handover` lets them overlap in every way |
| `namir-engine/src/engine.rs:216` | a block whose shape is rejected returns before the drain | rejected blocks are not modelled |
| `namir-clap/src/ui_host.rs:331` | a knob makes one attempt and drops the outcome | the attempt may fail in `PluginReplay`; `Converges` is stated without knobs in between |
| `namir-clap/src/audio.rs:211` | host automation is applied ahead of an older change that waits in the ring | section 8 |
| `namir-clap/src/params_ext.rs:243` | a value is read for the host, a state replaces it, and the older value is pushed last | excepted by `crossed` |

### 7.2 Not modelled

* The filters, the gate, the EQ and the level stages, interpolation, level measurement,
  the resampling kernel, gating and several channels of a network, the LSTM:
  floating-point arithmetic on samples, or one recurrence per sample.
* File formats and parsers beyond "parses" or "does not", metadata, search and audition in the
  library, the text of documents and the limits on their size.
* The order in which a reference's candidate paths are tried (`namir-state/src/resolve.rs`),
  a sequential search of the file system.
* Drawing (`namir-ui`), OS calls and logging (`namir-platform`), the parameter table
  (`namir-params`), the glue to the CLAP bindings and to windowing.
* Fixtures, `xtask`, `spikes`, `packaging`: not part of the program that runs.

The models stand for about 6 400 of 98 000 lines. Of the others, nearly 78 000 are
tests, test fixtures, development tools, comments and blank lines; the program proper has
about 20 700 lines of code, of which the models cover about a fifth, and what is left is mostly
drawing, parsing, arithmetic and bindings.

## 8. Plan

Done: every module of section 2.

Left, in the order of what it would add:

1. Log rotation (`namir-platform/src/logging.rs:415-556`): two processes that rotate the same
   files, a rename at a time. The comment at `:72-77` says that history is shortened and nothing
   destroyed; a rotation that finds the first rename impossible and goes on with the second
   looks as if it could overwrite the newest generation.
2. `CommandSubmitter` (`submit.rs`): lock and ring between a blocking and a
   non-blocking submitter; a time-out means the ring was full; mirror and engine agree
   once the ring is empty, with host automation applied directly.
3. Pure operators with a reference definition: candidate paths of a reference, the search
   order, the noise gate's state machine.
4. Compositions: `ParamGestures` over `Handover`'s command ring; `PluginReplay` over
   `ThreadPool`'s queue; what the stages play when a bypass ends, whose delay comes from
   FIFOs frozen since it began (`Handover` freezes the stages, `ChainBypass` does not look
   into them).

Theorems: every safety property the passing runs check is proved; what is left is liveness.

## 9. Running the checks

    tlc -config Safety.cfg MCSafety       # and so on, as PROJECT.json lists
    tlapm HandoverProofs.tla

Each run ends within five minutes on two workers; the longest are `safety` and `liveness`, at about
three, and those of `Handover`, at one to two and a quarter.
