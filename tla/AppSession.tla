----------------------------- MODULE AppSession -----------------------------
(* The standalone application (namir-app: host, worker, instance): the      *)
(* window's thread, which turns what the user does into commands and reads  *)
(* events once a frame, and the one worker thread that loads, saves,        *)
(* recalls and rebuilds the engine. They share the state under a mutex and  *)
(* the Instance under another.                                              *)
(*                                                                          *)
(* An engine is named by the reopen that built it, 0 at start-up. What was  *)
(* submitted to it counts as applied: its ring delivers in order (Handover) *)
(* for as long as somebody holds its other end. One parameter stands for    *)
(* all of them, one file for the model and the IR. The promises that relate *)
(* the two threads' states are in SessionState.                             *)
EXTENDS SessionState

CONSTANTS
    Values, Default,    \* of the parameter
    Files,              \* the library entries
    Presets,            \* what the preset files hold that are only read
    MaxCalls            \* what the user and the devices do, in all

States == [param : Values, file : Files \cup {None}]

\* What a recall makes of the stage: it holds the file; or nothing, when the
\* state names none or the file is not to be found; or what it held, when the
\* file does not parse or the engine does not take it in time.
Outcomes == {"loaded", "unloaded", "kept"}

\* What the worker can be half way through, what it is told and what it answers.
Halves ==
    [kind : {"save"}, state : States]
    \cup [kind : {"recall"}, state : States, outcome : Outcomes]
    \cup [kind : {"reopen"}, state : States, gen : Nat]
Commands ==
    [kind : {"save", "recall"}, arg : {None}]
    \cup [kind : {"load"}, arg : Files] \cup [kind : {"reopen"}, arg : Nat]
Events ==
    [kind : {"loaded"}, arg : Files \cup {None}] \cup [kind : {"saved"}, arg : {"ok", "error"}]
    \cup [kind : {"recalled"}, arg : Outcomes \cup {"error"}]
    \cup [kind : {"ready"}, arg : Nat]

SessionAssumption ==
    /\ Default \in Values /\ Presets \subseteq States
    /\ None \notin Files \cup Nat \cup States \cup Halves /\ MaxCalls \in Nat

Blank  == [param |-> Default, file |-> None]

VARIABLES
    mirror,     \* the session's state, shared under its mutex
    preset,     \* the one saves write, None while it is not to be read
    drawing,    \* a frame is reading the events
    saved,      \* last_saved
    written,    \* what was last written to or recalled from the preset
    built,      \* the generations whose slot was filled
    calls
shared == <<mirror, instance, preset, unsaid>>
audio  == <<generation, pending, streams, mode, failed>>
shown  == <<saved, written, name>>
vars   == <<shared, inbox, outbox, worker, drawing, shown, audio, built, calls>>

Init ==
    /\ mirror = Blank /\ saved = Blank /\ written = Blank
    /\ instance = [id |-> 0, param |-> Default, file |-> None]
    /\ preset = None /\ name = None /\ unsaid = FALSE
    /\ inbox = <<>> /\ outbox = <<>> /\ worker = None /\ drawing = FALSE
    /\ generation = 0 /\ pending = None /\ built = {}
    /\ streams = 0 /\ mode = TRUE /\ failed = FALSE /\ calls = 0

Send(kind, arg) == inbox' = Append(inbox, Message(kind, arg))
Report(kind, arg) == outbox' = Append(outbox, Message(kind, arg))
Unread(e) == \E i \in DOMAIN outbox : outbox[i] = e

\* Somebody holds the audio thread's end of the engine's rings.
Alive == streams = instance.id \/ pending = instance.id

------------------------------------------------------------------------------
(* The window: what the user does between two frames.                       *)

Intent == ~ drawing /\ calls < MaxCalls /\ calls' = calls + 1

\* The submitter is the one SharedInstance took at start-up.
Submitter == 0

SetParam(v) ==
    /\ Intent
    /\ mirror' = [mirror EXCEPT !.param = v]
    /\ instance' = IF instance.id = Submitter /\ Alive THEN [instance EXCEPT !.param = v] ELSE instance
    /\ UNCHANGED <<preset, unsaid, inbox, outbox, worker, drawing, shown, audio, built>>

Ask ==
    /\ Intent
    /\ Send("save", None) \/ Send("recall", None) \/ \E f \in Files : Send("load", f)
    /\ UNCHANGED <<shared, outbox, worker, drawing, shown, audio, built>>

\* initiate_audio_reopen: no device, or no valid rate, and the streams or the
\* reopen in progress stay; or the streams stop before the engine is replaced.
SelectAudioRefused ==
    /\ Intent
    /\ generation' = generation + 1 /\ mode' = FALSE
    /\ UNCHANGED <<shared, inbox, outbox, worker, drawing, shown, pending, built, streams, failed>>

SelectAudioStillPlaying ==
    /\ Intent
    /\ generation' = generation + 1
    /\ pending' = generation' /\ Send("reopen", generation')
    /\ failed' = FALSE
    /\ UNCHANGED <<shared, outbox, worker, drawing, shown, built, streams, mode>>

SelectAudio ==
    /\ Intent
    /\ generation' = generation + 1
    /\ pending' = generation' /\ Send("reopen", generation')
    /\ streams' = None /\ failed' = FALSE
    /\ UNCHANGED <<shared, outbox, worker, drawing, shown, built, mode>>

DeviceLost ==
    /\ streams # None /\ ~ failed /\ calls < MaxCalls
    /\ calls' = calls + 1 /\ failed' = TRUE
    /\ UNCHANGED <<shared, inbox, outbox, worker, drawing, shown, built,
                   generation, pending, streams, mode>>

------------------------------------------------------------------------------
(* A frame: the events in order until there is none, then the failures.     *)

Frame ==
    /\ ~ drawing /\ drawing' = TRUE
    /\ UNCHANGED <<shared, inbox, outbox, worker, shown, audio, built, calls>>

EndFrame ==
    /\ drawing /\ outbox = <<>> /\ drawing' = FALSE
    /\ streams' = IF failed THEN None ELSE streams
    /\ UNCHANGED <<shared, inbox, outbox, worker, shown, generation, pending, mode,
                   failed, built, calls>>

Event(kind) == drawing /\ outbox # <<>> /\ Head(outbox).kind = kind /\ outbox' = Tail(outbox)
Arg == Head(outbox).arg

LoadFinished ==
    /\ Event("loaded")
    /\ name' = IF Arg = None THEN name ELSE Arg
    /\ UNCHANGED <<shared, inbox, worker, drawing, saved, written, audio, built, calls>>

StateSaved ==
    /\ Event("saved")
    /\ saved' = IF Arg = "ok" THEN mirror ELSE saved
    /\ UNCHANGED <<shared, inbox, worker, drawing, name, written, audio, built, calls>>

\* apply_recall_summary: the name shown follows the stage, and stays when
\* nothing reached it.
NameKept(outcome) == IF outcome = "loaded" THEN mirror.file ELSE name
NameAfter(outcome) ==
    IF outcome = "loaded" THEN mirror.file
    ELSE IF outcome = "unloaded" THEN None ELSE name

StateLoaded ==
    /\ Event("recalled")
    /\ saved' = IF Arg = "error" THEN saved ELSE mirror
    /\ name' = NameAfter(Arg)
    /\ UNCHANGED <<shared, inbox, worker, drawing, written, audio, built, calls>>

\* apply_audio_reopen.
OpenOrNothing(g) ==
    \/ g \in built /\ streams' = g /\ mode' = TRUE /\ failed' = FALSE
    \/ g \in built /\ mode' = FALSE /\ failed' = FALSE /\ UNCHANGED streams
    \/ g \notin built /\ UNCHANGED <<streams, mode, failed>>
Open(g) ==
    \/ g \in built /\ streams' = g /\ mode' = TRUE /\ failed' = FALSE
    \/ g \in built /\ mode' = FALSE /\ failed' = FALSE /\ UNCHANGED streams
    \/ g \notin built /\ mode' = FALSE /\ UNCHANGED <<streams, failed>>

AudioStreamReady ==
    /\ Event("ready")
    /\ IF pending = Arg THEN pending' = None /\ Open(Arg)
       ELSE UNCHANGED <<pending, streams, mode, failed>>
    /\ UNCHANGED <<shared, inbox, worker, drawing, shown, generation, built, calls>>

------------------------------------------------------------------------------
(* The worker: one command at a time.                                       *)

Takes(kind) == worker = None /\ inbox # <<>> /\ Head(inbox).kind = kind /\ inbox' = Tail(inbox)
Command == Head(inbox).arg

\* A reference is recorded only if the stage was given the file.
Load ==
    /\ Takes("load")
    /\ \/ /\ Alive
          /\ instance' = [instance EXCEPT !.file = Command]
          /\ mirror' = [mirror EXCEPT !.file = Command]
          /\ Report("loaded", Command) /\ unsaid' = FALSE
       \/ UNCHANGED <<instance, mirror, unsaid>> /\ Report("loaded", None)
    /\ UNCHANGED <<preset, worker, drawing, shown, audio, built, calls>>

\* The file is truncated and written in place: a write that fails half way
\* leaves one nobody can read.
TakeSave ==
    /\ Takes("save")
    /\ worker' = [kind |-> "save", state |-> mirror]
    /\ UNCHANGED <<shared, outbox, drawing, shown, audio, built, calls>>

Save ==
    /\ worker # None /\ worker.kind = "save" /\ worker' = None
    /\ \/ preset' = worker.state /\ written' = worker.state /\ Report("saved", "ok")
       \/ preset' \in {preset, None} /\ UNCHANGED written /\ Report("saved", "error")
    /\ UNCHANGED <<mirror, instance, inbox, drawing, saved, name, unsaid, audio, built, calls>>

\* What may come of a file that was there when the state was written.
OutcomesOf(file) == IF file = None THEN {"unloaded", "kept"} ELSE Outcomes
Stage(outcome, file, held) ==
    CASE outcome = "loaded" -> file [] outcome = "unloaded" -> None [] outcome = "kept" -> held

\* The engine is given the state first, the session after it.
TakeRecall ==
    /\ Takes("recall")
    /\ \/ \E state \in Presets \cup ({preset} \ {None}) :
          \E outcome \in IF Alive THEN OutcomesOf(state.file) ELSE {"kept"} :
            /\ worker' = [kind |-> "recall", state |-> state, outcome |-> outcome]
            /\ instance' =
                 IF Alive THEN [instance EXCEPT !.param = state.param,
                                                !.file = Stage(outcome, state.file, @)]
                 ELSE instance
            /\ UNCHANGED outbox
       \/ UNCHANGED <<worker, instance>> /\ Report("recalled", "error")
    /\ UNCHANGED <<mirror, preset, unsaid, drawing, shown, audio, built, calls>>

Recall ==
    /\ worker # None /\ worker.kind = "recall" /\ worker' = None
    /\ mirror' = worker.state /\ written' = worker.state
    /\ Report("recalled", worker.outcome)
    /\ unsaid' = (worker.outcome = "kept" /\ (unsaid \/ Unread(Message("recalled", "loaded"))))
    /\ UNCHANGED <<instance, preset, inbox, drawing, saved, name, audio, built, calls>>

\* ReopenAudioStream: a rebuild that fails answers all the same. The state is
\* copied first, then the Instance is replaced and given the copy; what comes
\* of that is dropped.
RebuildFailsSilently ==
    /\ Takes("reopen")
    /\ UNCHANGED <<shared, outbox, worker, drawing, shown, audio, built, calls>>
RebuildFails ==
    /\ Takes("reopen") /\ Report("ready", Command)
    /\ UNCHANGED <<shared, worker, drawing, shown, audio, built, calls>>

TakeRebuild ==
    /\ Takes("reopen")
    /\ worker' = [kind |-> "reopen", state |-> mirror, gen |-> Command]
    /\ UNCHANGED <<shared, outbox, drawing, shown, audio, built, calls>>

Rebuild ==
    /\ worker # None /\ worker.kind = "reopen" /\ worker' = None
    /\ \E outcome \in OutcomesOf(worker.state.file) :
          instance' = [id |-> worker.gen, param |-> worker.state.param,
                       file |-> Stage(outcome, worker.state.file, None)]
    /\ unsaid' = (unsaid \/ instance'.file # instance.file)
    /\ built' = built \cup {worker.gen}
    /\ Report("ready", worker.gen)
    /\ UNCHANGED <<mirror, preset, inbox, drawing, shown, audio, calls>>

------------------------------------------------------------------------------
Window ==
    \/ Frame \/ EndFrame
    \/ LoadFinished \/ StateSaved \/ StateLoaded \/ AudioStreamReady
Worker ==
    \/ Load \/ TakeSave \/ Save \/ TakeRecall \/ Recall
    \/ RebuildFails \/ TakeRebuild \/ Rebuild
User ==
    \/ (\E v \in Values : SetParam(v)) \/ Ask
    \/ SelectAudioRefused \/ SelectAudio \/ DeviceLost
Next == Window \/ Worker \/ User
Spec == Init /\ [][Next]_vars

\* The window is drawn again and again, and the worker's loop takes what it
\* is sent.
FairSpec == Spec /\ WF_vars(Window) /\ WF_vars(Worker)

------------------------------------------------------------------------------
TypeOK ==
    /\ {mirror, saved, written} \subseteq States /\ preset \in States \cup {None}
    /\ instance \in [id : Nat, param : Values, file : Files \cup {None}]
    /\ inbox \in Seq(Commands) /\ outbox \in Seq(Events) /\ worker \in Halves \cup {None}
    /\ name \in Files \cup {None} /\ {drawing, unsaid} \subseteq BOOLEAN
    /\ generation \in Nat /\ {pending, streams} \subseteq Nat \cup {None}
    /\ built \subseteq Nat /\ {mode, failed} \subseteq BOOLEAN /\ calls \in Nat

(* Every reopen is answered and the answer is read (worker.rs:560-563).     *)
ReopenEnds == pending # None ~> pending = None

(* A SetParam intent reaches the engine that plays (host.rs:1734-1737).     *)
ParamReaches ==
    [][\A v \in Values : SetParam(v) /\ Quiet /\ streams # None => instance'.param = v]_vars

(* unsaved_changes (namir-ui host.rs:230-234): a state shown as saved is    *)
(* the one last saved or recalled.                                          *)
SavedIsWritten == mirror = saved => mirror = written
=============================================================================
