--------------------------- MODULE ParamGestures ---------------------------
(***************************************************************************)
(* How a parameter moved in the plug-in's own editor reaches the host      *)
(* (namir-clap: param_mirror, params_ext, main_thread, audio).             *)
(*                                                                         *)
(* The editor stores the value and marks the parameter as pending.  The    *)
(* next call in which the plug-in may emit events, `process` or `flush`,   *)
(* takes the pending set and pushes a gesture for each: a begin, the value *)
(* and an end, each of which the host may refuse.  Meanwhile the host      *)
(* moves parameters itself, and a state loaded by the host or a preset     *)
(* recalled by a job replaces them one at a time, after which the host is  *)
(* told to read all of them again.                                         *)
(*                                                                         *)
(* Emission is one thread at a time: on the audio thread while active, on  *)
(* the main thread otherwise.  Values that are not finite are not          *)
(* modelled, nor is the engine (see PluginReplay).                         *)
(***************************************************************************)
EXTENDS Naturals

CONSTANTS
    N,          \* parameters, in the order of the registry
    Values,
    Default,
    Docs,       \* the states that may be loaded or recalled
    MaxCalls    \* calls made from outside, in all

Params == 1..N

ASSUME GesturesAssumption ==
    /\ N \in Nat
    /\ Default \in Values
    /\ Docs \subseteq [Params -> Values]
    /\ MaxCalls \in Nat

Loaders == {"main", "job"}

VARIABLES
    mirror,     \* parameter |-> value
    pending,    \* the parameters the host has to be told of
    open,       \* those whose begin was accepted and whose end was not
    heard,      \* parameter |-> the value the host holds
    depth,      \* parameter |-> gestures begun and not ended, as the host counts
    em,         \* the emission in progress
    gui,        \* the parameter the editor stored and did not mark yet, or 0
    load,       \* loader |-> the state it adopts, and how far it has come
    rescan,     \* params_rescan_pending
    woken,      \* the host owes a call of on_main_thread
    asked,      \* the host owes a flush
    active,
    crossed,    \* ghost: the host last heard a value that was read before a
                \* state was adopted and pushed after
    calls

vars == <<mirror, pending, open, heard, depth, em, gui, load, rescan, woken, asked, active,
          crossed, calls>>

-----------------------------------------------------------------------------

NoEmission == [pc |-> "idle", todo |-> {}, still |-> {}, undelivered |-> {},
               now |-> 0, value |-> Default, crossed |-> {}]
NoLoad == [at |-> 0, doc |-> [p \in Params |-> Default]]

Init ==
    /\ mirror = [p \in Params |-> Default] /\ heard = mirror
    /\ pending = {} /\ open = {} /\ crossed = {}
    /\ depth = [p \in Params |-> 0]
    /\ em = NoEmission /\ gui = 0
    /\ load = [t \in Loaders |-> NoLoad]
    /\ rescan = FALSE /\ woken = FALSE /\ asked = FALSE /\ active = FALSE
    /\ calls = 0

\* A call from outside.
Call == calls < MaxCalls /\ calls' = calls + 1

\* The main thread is in no other call: it emits while inactive, and loads.
MainFree == load["main"].at = 0 /\ (active \/ em.pc = "idle")

-----------------------------------------------------------------------------
(* The editor: `set_by_key_from_gui`, the value first and then its mark.   *)

StoreEdit(p, v) ==
    /\ Call /\ gui = 0
    /\ mirror' = [mirror EXCEPT ![p] = v]
    /\ gui' = p
    /\ UNCHANGED <<pending, open, heard, depth, em, load, rescan, woken, asked, active, crossed>>

MarkEdit ==
    /\ gui # 0
    /\ pending' = pending \cup {gui}
    /\ gui' = 0
    /\ UNCHANGED <<mirror, open, heard, depth, em, load, rescan, woken, asked, active, crossed,
                   calls>>

-----------------------------------------------------------------------------
(* Adoption: `ParamMirror::load`, one store per parameter.  A value that   *)
(* an emission has just read is out of date from then on.                  *)

StartLoad(t, d) ==
    /\ Call /\ load[t].at = 0
    /\ t = "main" => MainFree
    /\ load' = [load EXCEPT ![t] = [at |-> 1, doc |-> d]]
    /\ UNCHANGED <<mirror, pending, open, heard, depth, em, gui, rescan, woken, asked, active,
                   crossed>>

AdoptOne(t) ==
    LET p == load[t].at IN
    /\ p \in Params
    /\ mirror' = [mirror EXCEPT ![p] = load[t].doc[p]]
    /\ load' = [load EXCEPT ![t].at = p + 1]
    /\ em' = IF em.pc = "push" /\ em.now = p THEN [em EXCEPT !.crossed = {p}] ELSE em
    /\ UNCHANGED <<pending, open, heard, depth, gui, rescan, woken, asked, active, crossed, calls>>

\* `rescan(VALUES)`: the host reads every parameter again.
HostRereads ==
    /\ heard' = mirror
    /\ crossed' = {}

\* Mutant: the job leaves it to some later callback to find out.
FinishQuietly(t) ==
    /\ load[t].at = N + 1
    /\ load' = [load EXCEPT ![t] = NoLoad]
    /\ \/ t = "main" /\ HostRereads /\ UNCHANGED <<rescan, woken>>
       \/ t = "job" /\ rescan' = TRUE /\ UNCHANGED <<heard, crossed, woken>>
    /\ UNCHANGED <<mirror, pending, open, depth, em, gui, asked, active, calls>>

\* The host's own load announces the change at once; a job leaves a flag and
\* asks for a callback.
FinishLoad(t) ==
    /\ load[t].at = N + 1
    /\ load' = [load EXCEPT ![t] = NoLoad]
    /\ \/ t = "main" /\ HostRereads /\ UNCHANGED <<rescan, woken>>
       \/ t = "job" /\ rescan' = TRUE /\ woken' = TRUE /\ UNCHANGED <<heard, crossed>>
    /\ UNCHANGED <<mirror, pending, open, depth, em, gui, asked, active, calls>>

-----------------------------------------------------------------------------
(* The main thread.                                                        *)

\* Mutant: only values count as work left to do.
ValuesOwed == pending # {}

\* `request_param_flush_if_pending`
FlushWanted == pending # {} \/ open # {}

OnMainThread ==
    /\ MainFree /\ woken
    /\ woken' = FALSE
    /\ rescan' = FALSE
    /\ IF rescan THEN HostRereads ELSE UNCHANGED <<heard, crossed>>
    /\ asked' = (asked \/ FlushWanted)
    /\ UNCHANGED <<mirror, pending, open, depth, em, gui, load, active, calls>>

\* Something else asks for a callback: a latency, the thread's priority.
WokenOtherwise ==
    /\ ~woken
    /\ woken' = TRUE
    /\ UNCHANGED <<mirror, pending, open, heard, depth, em, gui, load, rescan, asked, active,
                   crossed, calls>>

\* `activate` and `deactivate`: no emission is in progress.
Switch ==
    /\ Call /\ load["main"].at = 0 /\ em.pc = "idle"
    /\ active' = ~active
    /\ UNCHANGED <<mirror, pending, open, heard, depth, em, gui, load, rescan, woken, asked,
                   crossed>>

-----------------------------------------------------------------------------
(* `emit_gui_param_changes`, at the end of `process` and of both `flush`s, *)
(* after the host's own changes have been applied to the mirror.           *)

BeginEmission ==
    /\ em.pc = "idle"
    /\ em' = [NoEmission EXCEPT !.pc = "close"]
    /\ asked' = FALSE

\* `flush` on the main thread services the rescan, before it applies changes.
Serviced ==
    /\ rescan' = (rescan /\ active)
    /\ active \/ load["main"].at = 0

HostMoves(p, v) ==
    /\ Call /\ BeginEmission /\ Serviced
    /\ mirror' = [mirror EXCEPT ![p] = v]
    /\ heard' = [IF rescan /\ ~active THEN mirror ELSE heard EXCEPT ![p] = v]
    /\ crossed' = IF rescan /\ ~active THEN {} ELSE crossed \ {p}
    /\ UNCHANGED <<pending, open, depth, gui, load, woken, active>>

Quiet ==
    /\ BeginEmission /\ Serviced
    /\ IF rescan /\ ~active THEN HostRereads ELSE UNCHANGED <<heard, crossed>>
    /\ UNCHANGED <<mirror, pending, open, depth, gui, load, woken, active, calls>>

\* `process` while active, `flush` when asked for: these have to come.
Due == (active \/ asked) /\ Quiet

\* First what is owed: an end for every gesture left open, some of them
\* refused again.  Then the pending set is taken.
Close(refused) ==
    /\ em.pc = "close" /\ refused \subseteq open
    /\ depth' = [p \in Params |-> IF p \in open \ refused THEN depth[p] - 1 ELSE depth[p]]
    /\ open' = {}
    /\ pending' = {}
    /\ em' = [em EXCEPT !.pc = "emit", !.still = refused, !.todo = pending]
    /\ UNCHANGED <<mirror, heard, gui, load, rescan, woken, asked, active, crossed, calls>>

\* Nothing new is begun while an end is owed.
NothingOwed == em.still = {}

\* The rest of the set is put off.
PutOff ==
    /\ em.pc = "emit" /\ em.todo # {} /\ ~NothingOwed
    /\ em' = [em EXCEPT !.todo = {}, !.undelivered = @ \cup em.todo]
    /\ UNCHANGED <<mirror, pending, open, heard, depth, gui, load, rescan, woken, asked, active,
                   crossed, calls>>

\* `value_at`, for the least of the parameters left.
ReadValue ==
    /\ em.pc = "emit" /\ NothingOwed
    /\ \E p \in em.todo :
        /\ \A q \in em.todo : p =< q
        /\ em' = [em EXCEPT !.pc = "push", !.now = p, !.value = mirror[p]]
    /\ UNCHANGED <<mirror, pending, open, heard, depth, gui, load, rescan, woken, asked, active,
                   crossed, calls>>

\* Mutant: the three pushes chained, no end after a refused value.
OwedIfSaid(begun, said, ended) == begun /\ said /\ ~ended

\* An end is owed once the begin is accepted, whatever became of the value.
EndOwed(begun, said, ended) == begun /\ ~ended

\* Mutant: a gesture counts as a report.
MissedIfNotBegun(begun, said) == ~begun

\* What has to be reported again.
Missed(begun, said) == ~begun \/ ~said

\* The begin, the value and the end, each accepted or refused.  Without the
\* begin nothing else is pushed.
Push(begun, said, ended) ==
    LET p == em.now
        owed == EndOwed(begun, said, ended)
        missed == Missed(begun, said) IN
    /\ em.pc = "push"
    /\ depth' = [depth EXCEPT ![p] = IF begun /\ ~ended THEN @ + 1 ELSE @]
    /\ heard' = IF begun /\ said THEN [heard EXCEPT ![p] = em.value] ELSE heard
    /\ crossed' = IF begun /\ said THEN (crossed \ {p}) \cup em.crossed ELSE crossed
    /\ em' = [em EXCEPT !.pc = "emit",
                        !.todo = @ \ {p},
                        !.crossed = {},
                        !.still = IF owed THEN @ \cup {p} ELSE @,
                        !.undelivered = IF missed THEN @ \cup {p} ELSE @]
    /\ UNCHANGED <<mirror, pending, open, gui, load, rescan, woken, asked, active, calls>>

\* What was not delivered is pending again, what was not closed stays open.
Settle ==
    /\ em.pc = "emit" /\ em.todo = {}
    /\ pending' = pending \cup em.undelivered
    /\ open' = em.still
    /\ em' = NoEmission
    /\ UNCHANGED <<mirror, heard, depth, gui, load, rescan, woken, asked, active, crossed, calls>>

-----------------------------------------------------------------------------

Editor == (\E p \in Params, v \in Values : StoreEdit(p, v)) \/ MarkEdit
Adoption(t) == (\E d \in Docs : StartLoad(t, d)) \/ AdoptOne(t) \/ FinishLoad(t)
Emission ==
    \/ \E p \in Params, v \in Values : HostMoves(p, v)
    \/ Quiet
    \/ \E refused \in SUBSET open : Close(refused)
    \/ PutOff \/ ReadValue
    \/ \E begun, said, ended \in BOOLEAN : Push(begun, said, ended)
    \/ Settle

Next ==
    \/ Editor
    \/ \E t \in Loaders : Adoption(t)
    \/ OnMainThread \/ WokenOtherwise \/ Switch
    \/ Emission

\* Threads run on; the host keeps calling `process` while active, answers a
\* request for a callback or a flush, and does not refuse events for ever.
Fairness ==
    /\ WF_vars(MarkEdit)
    /\ \A t \in Loaders : WF_vars(AdoptOne(t) \/ FinishLoad(t))
    /\ SF_vars(OnMainThread)
    /\ WF_vars(Due)
    /\ WF_vars(\E refused \in SUBSET open : Close(refused))
    /\ WF_vars(PutOff \/ ReadValue \/ Settle)
    /\ WF_vars(\E begun, said, ended \in BOOLEAN : Push(begun, said, ended))
    /\ SF_vars(Close({}))
    /\ \A p \in Params : SF_vars(em.now = p /\ Push(TRUE, TRUE, TRUE))

Spec == Init /\ [][Next]_vars /\ Fairness

-----------------------------------------------------------------------------

Emissions == [pc : {"idle", "close", "emit", "push"}, todo : SUBSET Params,
              still : SUBSET Params, undelivered : SUBSET Params,
              now : 0..N, value : Values, crossed : SUBSET Params]

\* Type correctness.  The host never counts two gestures of one parameter.
TypeOK ==
    /\ mirror \in [Params -> Values] /\ heard \in [Params -> Values]
    /\ pending \subseteq Params /\ open \subseteq Params /\ crossed \subseteq Params
    /\ depth \in [Params -> 0..1]
    /\ em \in Emissions
    /\ em.pc = "push" => em.now \in em.todo
    /\ gui \in 0..N
    /\ load \in [Loaders -> [at : 0..(N + 1), doc : [Params -> Values]]]
    /\ rescan \in BOOLEAN /\ woken \in BOOLEAN /\ asked \in BOOLEAN /\ active \in BOOLEAN
    /\ calls \in Nat

\* However the host refuses events, and whichever of `process` and the two
\* `flush`s runs next, it sees gestures that nest: a begin is followed by one
\* end before the next begin, of any parameter, and what it sees begun and
\* not ended is exactly what the plug-in knows it owes (issue #145).
GesturesNest ==
    LET owed == open \cup em.still IN
    /\ \A p \in Params : depth[p] = IF p \in owed THEN 1 ELSE 0
    /\ \A p, q \in owed : p = q

Adopting == \E t \in Loaders : load[t].at # 0

\* A value the host does not hold is one it will be told of: the parameter is
\* pending or in an emission, the editor is about to mark it, a state is being
\* adopted, or a rescan is waiting.  The exception is a value read by an
\* emission before a state replaced it and pushed after.
NoEditLost ==
    \A p \in Params : heard[p] # mirror[p] =>
        \/ p \in pending \cup em.todo \cup em.undelivered \cup crossed
        \/ gui = p
        \/ rescan \/ Adopting

\* The plug-in goes on processing, or something keeps waking the main thread.
Attended == []<>active \/ []<>woken

\* An edit reaches the host in the end, and so does a recalled preset.
EditsReported ==
    Attended => \A p \in Params : []<>(heard[p] = mirror[p] \/ p \in crossed)

\* Every gesture is ended, even when there is no value left to report and the
\* plug-in is inactive.
GesturesEnd ==
    Attended => \A p \in Params : []<>(depth[p] = 0)
=============================================================================
