---------------------------- MODULE SessionState ----------------------------
(* What AppSession and its proofs are about: state, and the promises that   *)
(* other modules cite.                                                      *)
EXTENDS Naturals, Sequences, Absence

VARIABLES
    instance,   \* the Instance's engine: its name and what was submitted to it
    inbox,      \* commands to the worker
    outbox,     \* events to the window
    worker,     \* what the worker is half way through
    name,       \* loaded_model_name
    unsaid,     \* history: what the engine holds was changed, or read, amiss (below)
    generation, \* reopen_generation
    pending,    \* the generation of pending_reopen
    streams,    \* the engine the open streams run
    mode,       \* whether audio_mode names a device
    failed      \* the device behind the last streams was lost

Message(kind, arg) == [kind |-> kind, arg |-> arg]

Rebuilding(g) ==
    \/ \E i \in DOMAIN inbox : inbox[i] = Message("reopen", g)
    \/ worker # None /\ worker.kind = "reopen" /\ worker.gen = g

(* An engine is replaced only while no callback runs it (host.rs:694-695):  *)
(* streams that are open run the engine of the Instance, and no rebuild is  *)
(* on its way, however the reopens, their answers and the losses of a       *)
(* device follow one another.                                               *)
StreamsFit ==
    streams # None => streams = instance.id /\ \A g \in 1..generation : ~ Rebuilding(g)

(* The application is never silent behind a mode it shows (PR #159): a mode *)
(* without streams is one whose reopen is on its way or whose device the    *)
(* user has been told is lost.                                              *)
ModeIsTrue == mode => streams # None \/ pending # None \/ failed

Quiet == inbox = <<>> /\ outbox = <<>> /\ worker = None

(* What the window names as loaded is what the engine holds, once every     *)
(* command is answered and read: over loads, recalls and rebuilds that find *)
(* the file, find it gone, cannot parse it or cannot deliver it.  Two steps *)
(* tell the window nothing or the wrong thing, and set unsaid until a load  *)
(* or a recall reaches the engine: a rebuild that leaves the engine with    *)
(* another file than the engine before it, and a recall that reaches        *)
(* nothing while the answer of one that did is still to be read.            *)
NameIsLoaded == Quiet /\ ~ unsaid => name = instance.file

(* What the window shows of the audio is so, and of the model as said.      *)
ShownIsTrue == ModeIsTrue /\ NameIsLoaded
=============================================================================
