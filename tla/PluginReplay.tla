---------------------------- MODULE PluginReplay ----------------------------
(***************************************************************************)
(* How the CLAP plug-in keeps its live engine in step with what it stands  *)
(* for (namir-clap: shared, worker_jobs, state_ext, audio).                *)
(*                                                                         *)
(* What the instance stands for is a parameter mirror and two references,  *)
(* written by the host's thread, the editor's and the pool's with no lock  *)
(* common to the three.  An engine is built afresh, with nothing loaded,   *)
(* by every activation, and a job on the pool replays the mirror and the   *)
(* references onto it; so does one after every state load.                 *)
(*                                                                         *)
(* One parameter stands for all.  A command submitted counts as applied:   *)
(* the ring delivers in order (Handover), and the audio thread is assumed  *)
(* to be calling.  Commands that miss a full ring are modelled for the     *)
(* editor's single attempt, not for the jobs' 500 ms deadline.             *)
(***************************************************************************)
EXTENDS ReplayState

CONSTANTS
    Values, Default,\* of the parameter
    NamRefs, IrRefs,
    Docs,           \* the states the host may load
    Presets,        \* the states the editor may recall
    Entries,        \* the library entries the editor may load
    Knobs,          \* the values the editor may set
    Flushes,        \* the values the host may set while inactive
    MaxCalls        \* calls made from outside, in all

States == [param : Values, nam : NamRefs \cup {None}, ir : IrRefs \cup {None}]

ReplayAssumption ==
    /\ Default \in Values /\ Knobs \subseteq Values /\ Flushes \subseteq Values
    /\ None \notin NamRefs \cup IrRefs /\ NamRefs \cap IrRefs = {}
    /\ Docs \subseteq States /\ Presets \subseteq States
    /\ Entries \subseteq NamRefs \cup IrRefs
    /\ NoEngine \notin States /\ MaxCalls \in Nat
    /\ Main \notin PoolThreads /\ Gui \notin PoolThreads

Threads == PoolThreads \cup {Main, Gui}
\* The states that name no resource.
Bare == {s \in States : s.nam = None /\ s.ir = None}
Blank == [param |-> Default, nam |-> None, ir |-> None]

vars == <<stands, live, heard, raced, recalls, pc, doc, saved, unsaved, calls>>

-----------------------------------------------------------------------------

Recall == [kind |-> "recall", doc |-> Blank]
Recalling(d) == [kind |-> "preset", doc |-> d]
Loading(e) == [kind |-> "entry",
               doc  |-> IF e \in NamRefs THEN [Blank EXCEPT !.nam = e]
                                         ELSE [Blank EXCEPT !.ir = e]]

\* s with the one reference d carries.
With(s, d) == IF d.nam # None THEN [s EXCEPT !.nam = d.nam] ELSE [s EXCEPT !.ir = d.ir]

\* A fresh engine holds nothing until the replay that was queued with it.
Fresh == [param |-> "given", nam |-> "given", ir |-> "given"]
Saying(words) == heard' = IF raced THEN Unsure ELSE words

Goto(t, l) == pc' = [pc EXCEPT ![t] = l]
Spawn(job) == recalls' = Append(recalls, job)

Init ==
    /\ stands = Blank /\ saved = Blank /\ live = NoEngine
    /\ heard = Fresh /\ raced = FALSE
    /\ recalls = <<>> /\ unsaved = FALSE /\ calls = 0
    /\ pc = [t \in Threads |-> "idle"]
    /\ doc = [t \in Threads |-> Blank]

\* A call from outside reaches an idle thread.
Call(t) ==
    /\ pc[t] = "idle" /\ calls < MaxCalls
    /\ calls' = calls + 1

-----------------------------------------------------------------------------
(* The adoption of a state, on the main thread or in a preset's job: the   *)
(* parameters, then each reference, then the replay.                       *)

BeginAdopt(t, d) ==
    /\ Goto(t, "adopt_params")
    /\ doc' = [doc EXCEPT ![t] = d]

AdoptParams(t) ==
    /\ pc[t] = "adopt_params"
    /\ stands' = [stands EXCEPT !.param = doc[t].param]
    /\ Goto(t, "adopt_nam")
    /\ UNCHANGED <<live, heard, raced, recalls, doc, saved, unsaved, calls>>

AdoptNam(t) ==
    /\ pc[t] = "adopt_nam"
    /\ stands' = [stands EXCEPT !.nam = doc[t].nam]
    /\ Goto(t, "adopt_ir")
    /\ UNCHANGED <<live, heard, raced, recalls, doc, saved, unsaved, calls>>

\* Mutant: the replay is not queued.
AdoptIrAlone(t) ==
    /\ pc[t] = "adopt_ir"
    /\ stands' = [stands EXCEPT !.ir = doc[t].ir]
    /\ unsaved' = FALSE /\ saved' = doc[t]
    /\ Goto(t, "idle")
    /\ UNCHANGED <<live, heard, raced, recalls, doc, calls>>

AdoptIr(t) ==
    /\ pc[t] = "adopt_ir"
    /\ stands' = [stands EXCEPT !.ir = doc[t].ir]
    /\ unsaved' = FALSE /\ saved' = doc[t]
    /\ Spawn(Recall)
    /\ Goto(t, "idle")
    /\ UNCHANGED <<live, heard, raced, doc, calls>>

-----------------------------------------------------------------------------
(* The host's main thread.                                                 *)

Load ==
    /\ Call(Main)
    /\ \E d \in Docs : BeginAdopt(Main, d)
    /\ UNCHANGED <<stands, live, heard, raced, recalls, saved, unsaved>>

\* A default engine is built and installed, and its replay queued.
Activate ==
    /\ Call(Main) /\ live = NoEngine
    /\ live' = Blank /\ heard' = Fresh
    /\ Spawn(Recall)
    /\ UNCHANGED <<stands, raced, pc, doc, saved, unsaved>>

Deactivate ==
    /\ Call(Main) /\ live # NoEngine
    /\ live' = NoEngine
    /\ UNCHANGED <<stands, heard, raced, recalls, pc, doc, saved, unsaved>>

\* A parameter flush while inactive: there is no engine to submit it to.
Flush ==
    /\ Call(Main) /\ live = NoEngine
    /\ \E v \in Flushes : stands' = [stands EXCEPT !.param = v]
    /\ UNCHANGED <<live, heard, raced, recalls, pc, doc, saved, unsaved>>

\* The state is read and written out, and then the mark is taken off.
Save ==
    /\ Call(Main)
    /\ doc' = [doc EXCEPT ![Main] = stands]
    /\ Goto(Main, "save")
    /\ UNCHANGED <<stands, live, heard, raced, recalls, saved, unsaved>>

MarkClean ==
    /\ pc[Main] = "save"
    /\ saved' = doc[Main] /\ unsaved' = FALSE
    /\ Goto(Main, "idle")
    /\ UNCHANGED <<stands, live, heard, raced, recalls, doc, calls>>

-----------------------------------------------------------------------------
(* The editor.                                                             *)

MoveKnob ==
    /\ Call(Gui)
    /\ \E v \in Knobs :
        /\ stands' = [stands EXCEPT !.param = v]
        /\ doc' = [doc EXCEPT ![Gui] = [Blank EXCEPT !.param = v]]
    /\ Goto(Gui, "submit")
    /\ UNCHANGED <<live, heard, raced, recalls, saved, unsaved>>

\* One attempt, and nothing is made of its outcome.
SubmitKnob ==
    /\ pc[Gui] = "submit"
    /\ \/ /\ live # NoEngine
          /\ live' = [live EXCEPT !.param = doc[Gui].param]
       \/ UNCHANGED live
    /\ unsaved' = TRUE
    /\ Goto(Gui, "idle")
    /\ UNCHANGED <<stands, heard, raced, recalls, doc, saved, calls>>

LoadEntry ==
    /\ Call(Gui)
    /\ \E e \in Entries : Spawn(Loading(e))
    /\ unsaved' = TRUE
    /\ UNCHANGED <<stands, live, heard, raced, pc, doc, saved>>

RecallPreset ==
    /\ Call(Gui)
    /\ \E d \in Presets : Spawn(Recalling(d))
    /\ UNCHANGED <<stands, live, heard, raced, pc, doc, saved, unsaved>>

-----------------------------------------------------------------------------
(* The pool.                                                               *)

TakeJob(w) ==
    /\ pc[w] = "idle" /\ recalls # <<>>
    /\ recalls' = Tail(recalls)
    /\ doc' = [doc EXCEPT ![w] = Head(recalls).doc]
    /\ Goto(w, CASE Head(recalls).kind = "recall" -> "snap_params"
                 [] Head(recalls).kind = "preset" -> "adopt_params"
                 [] Head(recalls).kind = "entry"  -> "load")
    /\ raced' = \E v \in PoolThreads : pc[v] # "idle"
    /\ heard' = IF raced' THEN Unsure ELSE heard
    /\ UNCHANGED <<stands, live, saved, unsaved, calls>>

\* `snapshot_state`: the parameters, then each reference under its own lock.
SnapParams(w) ==
    /\ pc[w] = "snap_params"
    /\ doc' = [doc EXCEPT ![w].param = stands.param]
    /\ Goto(w, "snap_nam")
    /\ UNCHANGED <<stands, live, heard, raced, recalls, saved, unsaved, calls>>

SnapNam(w) ==
    /\ pc[w] = "snap_nam"
    /\ doc' = [doc EXCEPT ![w].nam = stands.nam]
    /\ Goto(w, "snap_ir")
    /\ UNCHANGED <<stands, live, heard, raced, recalls, saved, unsaved, calls>>

\* The job returns here if there is no reference to replay, and leaves the
\* engine what it has.
Skipped(word, held, asked) == IF held = asked THEN word ELSE "unsure"
SnapIr(w) ==
    /\ pc[w] = "snap_ir"
    /\ doc' = [doc EXCEPT ![w].ir = stands.ir]
    /\ \/ /\ doc[w].nam # None \/ stands.ir # None
          /\ Goto(w, "replay") /\ UNCHANGED heard
       \/ /\ doc[w].nam = None /\ stands.ir = None
          /\ Goto(w, "idle")
          /\ heard' = IF live = NoEngine THEN heard
                      ELSE [param |-> Skipped(heard.param, live.param, doc[w].param),
                            nam   |-> Skipped(heard.nam, live.nam, None),
                            ir    |-> Skipped(heard.ir, live.ir, None)]
    /\ UNCHANGED <<stands, live, raced, recalls, saved, unsaved, calls>>

\* `recall_resource`: the stage holds the file of its reference; or nothing,
\* when there is no reference or no candidate path has it; or what it held,
\* when the file does not parse or the engine does not take it in time.
Recalled(reference, held) ==
    {[word |-> "given", holds |-> reference], [word |-> "gone", holds |-> None],
     [word |-> "unsure", holds |-> held]}

\* `Instance::recall`, under the instance's lock: every parameter, then each
\* stage.  With no engine the job is done.
Replay(w) ==
    /\ pc[w] = "replay"
    /\ \/ live = NoEngine /\ UNCHANGED <<live, heard>>
       \/ /\ live # NoEngine
          /\ \E nam \in Recalled(doc[w].nam, live.nam), ir \in Recalled(doc[w].ir, live.ir) :
               /\ live' = [param |-> doc[w].param, nam |-> nam.holds, ir |-> ir.holds]
               /\ Saying([param |-> "given", nam |-> nam.word, ir |-> ir.word])
    /\ Goto(w, "idle")
    /\ UNCHANGED <<stands, raced, recalls, doc, saved, unsaved, calls>>

\* A library entry goes into the engine under the lock, if it can be read,
\* parses and is delivered, and into the references once the lock is released;
\* with no engine, into the references alone.
LoadIntoEngine(w) ==
    /\ pc[w] = "load"
    /\ \/ /\ live # NoEngine
          /\ live' = With(live, doc[w])
          /\ Saying(IF doc[w].nam # None THEN [heard EXCEPT !.nam = "given"]
                                         ELSE [heard EXCEPT !.ir = "given"])
          /\ Goto(w, "record")
       \/ /\ Goto(w, "idle")
          /\ UNCHANGED <<live, heard>>
       \/ /\ live = NoEngine
          /\ Goto(w, "record")
          /\ UNCHANGED <<live, heard>>
    /\ UNCHANGED <<stands, raced, recalls, doc, saved, unsaved, calls>>

\* Mutant: a loaded entry is not remembered.
RecordNothing(w) ==
    /\ pc[w] = "record"
    /\ Goto(w, "idle")
    /\ UNCHANGED <<stands, live, heard, raced, recalls, doc, saved, unsaved, calls>>

RecordReference(w) ==
    /\ pc[w] = "record"
    /\ stands' = With(stands, doc[w])
    /\ Goto(w, "idle")
    /\ UNCHANGED <<live, heard, raced, recalls, doc, saved, unsaved, calls>>

-----------------------------------------------------------------------------

Adopt(t) == AdoptParams(t) \/ AdoptNam(t) \/ AdoptIr(t)

Outside ==
    \/ Load \/ Activate \/ Deactivate \/ Flush \/ Save
    \/ MoveKnob \/ LoadEntry \/ RecallPreset

Work(w) ==
    \/ TakeJob(w) \/ SnapParams(w) \/ SnapNam(w) \/ SnapIr(w) \/ Replay(w)
    \/ LoadIntoEngine(w) \/ RecordReference(w) \/ Adopt(w)

Next == Outside \/ Adopt(Main) \/ MarkClean \/ SubmitKnob \/ \E w \in PoolThreads : Work(w)

\* A call once begun goes on, and the pool's threads run; nobody has to call.
Fairness ==
    /\ WF_vars(Adopt(Main)) /\ WF_vars(MarkClean) /\ WF_vars(SubmitKnob)
    /\ \A w \in PoolThreads : WF_vars(Work(w))

Spec == Init /\ [][Next]_vars /\ Fairness

-----------------------------------------------------------------------------

\* Every variable has its type.
TypeOK ==
    /\ stands \in States /\ saved \in States
    /\ live \in States \cup {NoEngine}
    /\ heard \in [param : Words, nam : Words, ir : Words] /\ raced \in BOOLEAN
    /\ recalls \in Seq([kind : {"recall", "preset", "entry"}, doc : States])
    /\ pc \in [Threads -> {"idle", "adopt_params", "adopt_nam", "adopt_ir", "save", "submit",
                           "snap_params", "snap_nam", "snap_ir", "replay", "load", "record"}]
    /\ doc \in [Threads -> States]
    /\ unsaved \in BOOLEAN /\ calls \in 0..MaxCalls

\* A live engine always comes back to everything the instance stands for, its
\* parameters too, as far as the files were there and parsed and the replay did
\* not return early ("whatever `shared`'s `ParamMirror`/resource references
\* currently stand for is pushed onto its live engine"); unless the editor moves
\* a knob, whose one attempt may miss.
KnobMoved == doc[Gui] # Blank
Converges ==
    []<>(\/ live = NoEngine \/ KnobMoved
         \/ /\ Answers(heard.param, live.param, stands.param)
            /\ Answers(heard.nam, live.nam, stands.nam)
            /\ Answers(heard.ir, live.ir, stands.ir))

\* The same of quiet states, for every state and every history.
EngineStandsForState == AtRest /\ live # NoEngine => live = stands

\* The editor shows unsaved changes whenever the state differs from what was
\* last saved or recalled ("Whether the current in-memory state differs").
CleanMeansSaved == AtRest /\ ~unsaved => stands = saved
=============================================================================
