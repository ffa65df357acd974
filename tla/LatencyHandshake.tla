-------------------------- MODULE LatencyHandshake --------------------------
(***************************************************************************)
(* How the host learns the plug-in's latency (namir-clap: audio,           *)
(* main_thread, shared; FR-CLAP-040).                                      *)
(*                                                                         *)
(* The figure depends on the model and the sample rate and moves when a    *)
(* model's handover ends.  The audio thread publishes the move and asks    *)
(* for a callback; the main thread asks for a restart if the plug-in is    *)
(* active; the next activation tells the host.  But every activation       *)
(* builds an engine with no latency and replays the model onto it, so it   *)
(* carries the host's figure over as a prediction, which the audio thread  *)
(* judges once a job has had its turn at an engine, which moves an epoch,  *)
(* and some audio has passed.                                              *)
(*                                                                         *)
(* A handover takes at most FadeBlocks calls of process() from the time it *)
(* is submitted; SettleBlocks stands for CARRY_SETTLE_MS.  A job reads the *)
(* reference and replays it in one step here (PluginReplay has them apart).*)
(***************************************************************************)
EXTENDS LatencyState

main  == <<announced, deciding, restart, reopening, active, rate, basis>>
pool  == <<jobs, entries, bumping, recording>>
world == <<ref, file, changes>>
vars  == <<main, pool, world, figure, dirty, engine, fade, claim, stores, asking, callback, lapsed>>

-----------------------------------------------------------------------------

\* What may become of a model's file: it may also be there and not parse.
FileStates == {"good", "gone", "broken"}

Init ==
    /\ ref \in Loads /\ file = [m \in Models |-> "good"] /\ rate \in Rates
    /\ active = FALSE /\ figure = 0 /\ basis = 0 /\ announced = 0 /\ dirty = FALSE
    /\ engine = 0 /\ fade = NoFade /\ claim = NoClaim
    /\ stores = {} /\ asking = FALSE /\ callback = FALSE
    /\ deciding = FALSE /\ restart = FALSE /\ reopening = FALSE
    /\ jobs = 0 /\ entries = 0 /\ bumping = {} /\ recording = [w \in Hands |-> NoRef]
    /\ lapsed = FALSE /\ changes = 0

AudioIdle == stores = {} /\ ~asking

Change == changes < MaxChanges /\ changes' = changes + 1

-----------------------------------------------------------------------------
(* The host.                                                               *)

\* `carried_latency`: there is something to replay, at the rate the figure
\* was measured at.
Carries(r) == ref # NoRef /\ basis # 0 /\ basis = r

\* A fresh engine, the figure carried or not, the host told, the replay queued.
ActivateAt(r) ==
    LET reported == IF Carries(r) THEN figure ELSE 0 IN
    /\ rate' = r /\ basis' = r
    /\ active' = TRUE /\ engine' = 0 /\ fade' = NoFade
    /\ figure' = reported /\ announced' = reported
    /\ claim' = IF reported # 0
                THEN [announced |-> reported, bumped |-> FALSE, settle |-> NoClaim]
                ELSE NoClaim
    /\ jobs' = jobs + 1 /\ lapsed' = FALSE

\* The host activates at the rate it had, or at another.
Activate ==
    /\ ~active /\ ~deciding
    /\ \/ ActivateAt(rate) /\ UNCHANGED changes
       \/ Change /\ \E r \in Rates \ {rate} : ActivateAt(r)
    /\ reopening' = FALSE
    /\ UNCHANGED <<ref, file, dirty, stores, asking, callback, deciding, restart, entries, bumping,
                   recording>>

DropEngine ==
    /\ active /\ AudioIdle /\ ~deciding
    /\ active' = FALSE /\ claim' = NoClaim /\ fade' = NoFade
    /\ restart' = FALSE
    /\ UNCHANGED <<ref, file, rate, figure, basis, announced, dirty, engine, stores, asking,
                   callback, deciding, pool, lapsed>>

\* A restart between a job's release of the engine and its move of the epoch
\* is a delay of that job, and counted.
Restart ==
    /\ restart /\ DropEngine /\ reopening' = TRUE
    /\ Change \/ (bumping = {} /\ UNCHANGED changes)
Deactivate == Change /\ DropEngine /\ UNCHANGED reopening

\* Another state is adopted, and its replay queued.
Load ==
    /\ Change
    /\ \E r \in Loads \ {ref} : ref' = r
    /\ jobs' = jobs + 1
    /\ UNCHANGED <<main, file, figure, dirty, engine, fade, claim, stores, asking, callback,
                   entries, bumping, recording, lapsed>>

\* A library entry is chosen, and its load queued.
LoadEntry ==
    /\ Change
    /\ entries' = entries + 1
    /\ UNCHANGED <<main, ref, file, figure, dirty, engine, fade, claim, stores, asking, callback,
                   jobs, bumping, recording, lapsed>>

\* A model's file disappears, is damaged, or comes back.
ChangeFile ==
    /\ Change
    /\ \E m \in Models, f \in FileStates : file[m] # f /\ file' = [file EXCEPT ![m] = f]
    /\ UNCHANGED <<main, pool, ref, figure, dirty, engine, fade, claim, stores, asking, callback,
                   lapsed>>

\* A callback for some other reason: a thread's priority, a preset's rescan.
Wake ==
    /\ ~callback /\ Change
    /\ callback' = TRUE
    /\ UNCHANGED <<main, pool, ref, file, figure, dirty, engine, fade, claim, stores, asking, lapsed>>

-----------------------------------------------------------------------------
(* The main thread: on_main_thread, whose flag and figure are two reads.   *)

TakeFlag ==
    /\ callback /\ ~deciding
    /\ callback' = FALSE
    /\ dirty' = FALSE /\ deciding' = dirty
    /\ lapsed' = (lapsed \/ (dirty /\ stores = {"figure"}))
    /\ UNCHANGED <<pool, world, announced, restart, reopening, active, rate, basis, figure, engine,
                   fade, claim, stores, asking>>

\* Mutant: a restart for every change while active (issue #93).
DecideAlways ==
    /\ deciding /\ deciding' = FALSE
    /\ IF active THEN restart' = TRUE /\ UNCHANGED announced
                 ELSE announced' = figure /\ UNCHANGED restart
    /\ UNCHANGED <<pool, world, reopening, active, rate, basis, figure, dirty, engine, fade, claim,
                   stores, asking, callback, lapsed>>

\* Mutant: the flag is taken down once more when the figure has been compared.
DecideClearing ==
    /\ deciding /\ deciding' = FALSE /\ dirty' = FALSE
    /\ IF active THEN restart' = (restart \/ figure # announced) /\ UNCHANGED announced
                 ELSE announced' = figure /\ UNCHANGED restart
    /\ UNCHANGED <<pool, world, reopening, active, rate, basis, figure, engine, fade, claim,
                   stores, asking, callback, lapsed>>

Decide ==
    /\ deciding /\ deciding' = FALSE
    /\ IF active THEN restart' = (restart \/ figure # announced) /\ UNCHANGED announced
                 ELSE announced' = figure /\ UNCHANGED restart
    /\ UNCHANGED <<pool, world, reopening, active, rate, basis, figure, dirty, engine, fade, claim,
                   stores, asking, callback, lapsed>>

-----------------------------------------------------------------------------
(* The pool: a replay, or a load, in the engine; and the epoch moved after *)
(* the engine's lock, for every job that found an engine.                  *)

Free(w) == w \notin bumping /\ recording[w] = NoRef
HandOver(latency) == fade' = [to |-> latency, left |-> FadeBlocks]

\* `recall_resource`: the model is handed over; or none, if there is no file;
\* or the stage is left as it is, if the file does not parse or the engine
\* does not take it in time.
Recall ==
    \/ UNCHANGED changes /\ file[ref] = "good" /\ HandOver(Latency[ref][rate])
    \/ UNCHANGED changes /\ file[ref] = "gone" /\ HandOver(0)
    \/ UNCHANGED changes /\ file[ref] = "broken" /\ UNCHANGED fade
    \/ Change /\ UNCHANGED fade

\* With no engine, or no reference, the job has nothing to do.
Skip ==
    /\ ref = NoRef \/ ~active
    /\ lapsed' = (lapsed \/ claim # NoClaim)
    /\ UNCHANGED <<fade, changes>>

\* Mutant: the epoch moves only if the stage changed hands.
ReplayBumpingIfTaken(w) ==
    /\ jobs > 0 /\ Free(w)
    /\ jobs' = jobs - 1
    /\ \/ Skip /\ UNCHANGED bumping
       \/ /\ ref # NoRef /\ active /\ Recall
          /\ bumping' = IF fade' = fade THEN bumping ELSE bumping \cup {w}
          /\ UNCHANGED lapsed
    /\ UNCHANGED <<main, ref, file, entries, recording, figure, dirty, engine, claim, stores, asking,
                   callback>>

Replay(w) ==
    /\ jobs > 0 /\ Free(w)
    /\ jobs' = jobs - 1
    /\ \/ Skip /\ UNCHANGED bumping
       \/ /\ ref # NoRef /\ active /\ Recall
          /\ bumping' = bumping \cup {w}
          /\ UNCHANGED lapsed
    /\ UNCHANGED <<main, ref, file, entries, recording, figure, dirty, engine, claim, stores, asking,
                   callback>>

\* A file that cannot be read is the end of the job; one that does not parse
\* reaches the engine and changes nothing.
EnterEntry(w) ==
    /\ entries > 0 /\ Free(w)
    /\ entries' = entries - 1
    /\ \E m \in Models :
        \/ /\ file[m] = "gone"
           /\ UNCHANGED <<fade, bumping, recording>>
        \/ /\ file[m] # "gone" /\ ~active
           /\ recording' = [recording EXCEPT ![w] = m]
           /\ UNCHANGED <<fade, bumping>>
        \/ /\ file[m] = "good" /\ active
           /\ HandOver(Latency[m][rate])
           /\ bumping' = bumping \cup {w}
           /\ recording' = [recording EXCEPT ![w] = m]
        \/ /\ file[m] = "broken" /\ active
           /\ bumping' = bumping \cup {w}
           /\ UNCHANGED <<fade, recording>>
    /\ UNCHANGED <<main, world, jobs, figure, dirty, engine, claim, stores, asking, callback, lapsed>>

Bump(w) ==
    /\ w \in bumping /\ bumping' = bumping \ {w}
    /\ claim' = IF claim = NoClaim THEN claim ELSE [claim EXCEPT !.bumped = TRUE]
    /\ UNCHANGED <<main, world, jobs, entries, recording, figure, dirty, engine, fade, stores,
                   asking, callback, lapsed>>

Record(w) ==
    /\ w \notin bumping /\ recording[w] # NoRef
    /\ ref' = recording[w] /\ recording' = [recording EXCEPT ![w] = NoRef]
    /\ UNCHANGED <<main, file, changes, jobs, entries, bumping, figure, dirty, engine, fade, claim,
                   stores, asking, callback, lapsed>>

-----------------------------------------------------------------------------
(* The audio thread: one call of process(), then announce_latency's stores.*)

\* The handover in flight ends in this call, or has not yet.
Fades(reading) ==
    \/ /\ fade = NoFade
       /\ reading = engine /\ UNCHANGED fade
    \/ /\ fade # NoFade
       /\ reading = fade.to /\ fade' = NoFade
    \/ /\ fade # NoFade /\ fade.left > 0
       /\ reading = engine /\ fade' = [fade EXCEPT !.left = @ - 1]

Announce == stores' = {"figure", "dirty"} /\ asking' = TRUE /\ lapsed' = FALSE
Silent == UNCHANGED <<stores, asking, lapsed>>

Observe(reading) ==
    /\ Announce
    /\ claim' = NoClaim

\* The reading has not moved: what of the prediction?
Judge(reading) ==
    \/ /\ claim = NoClaim
       /\ Silent /\ UNCHANGED claim
    \/ /\ claim # NoClaim /\ claim.settle = NoClaim /\ ~claim.bumped
       /\ Silent /\ UNCHANGED claim
    \/ /\ claim # NoClaim /\ claim.settle = NoClaim /\ claim.bumped
       /\ claim' = [claim EXCEPT !.settle = SettleBlocks]
       /\ Silent
    \/ /\ claim # NoClaim /\ claim.settle # NoClaim /\ claim.settle > 1
       /\ claim' = [claim EXCEPT !.settle = @ - 1]
       /\ Silent
    \/ /\ claim # NoClaim /\ claim.settle # NoClaim /\ claim.settle <= 1
       /\ claim' = NoClaim
       /\ IF reading # claim.announced THEN Announce ELSE Silent

Process ==
    /\ active /\ AudioIdle
    /\ \E reading \in {engine} \cup (IF fade = NoFade THEN {} ELSE {fade.to}) :
        /\ Fades(reading)
        /\ engine' = reading
        /\ IF reading # engine THEN Observe(reading) ELSE Judge(reading)
    /\ UNCHANGED <<main, pool, world, figure, dirty, callback>>

StoreFigure ==
    /\ "figure" \in stores
    /\ stores' = stores \ {"figure"} /\ figure' = engine
    /\ UNCHANGED <<main, pool, world, dirty, engine, fade, claim, asking, callback, lapsed>>

\* Two relaxed stores, which other threads may see in either order.
StoreDirty ==
    /\ "dirty" \in stores
    /\ stores' = stores \ {"dirty"} /\ dirty' = TRUE
    /\ UNCHANGED <<main, pool, world, figure, engine, fade, claim, asking, callback, lapsed>>

AskCallback ==
    /\ stores = {} /\ asking
    /\ asking' = FALSE /\ callback' = TRUE
    /\ UNCHANGED <<main, pool, world, figure, dirty, engine, fade, claim, stores, lapsed>>

-----------------------------------------------------------------------------

Audio == Process \/ StoreFigure \/ StoreDirty \/ AskCallback
Host == Activate \/ Deactivate \/ Load \/ LoadEntry \/ ChangeFile \/ Wake
Work(w) == Replay(w) \/ EnterEntry(w) \/ Bump(w) \/ Record(w)
Owed == Restart \/ (reopening /\ Activate)

Next == Host \/ Restart \/ TakeFlag \/ Decide \/ (\E w \in Hands : Work(w)) \/ Audio

\* The host keeps calling process() while the plug-in is active, answers a
\* request for a callback or a restart, and the pool's threads run; it need not
\* activate a plug-in it has deactivated of its own accord.
Fairness ==
    /\ WF_vars(Audio)
    /\ WF_vars(TakeFlag) /\ WF_vars(Decide)
    /\ WF_vars(Owed)
    /\ \A w \in Hands : WF_vars(Work(w))

Spec == Init /\ [][Next]_vars /\ Fairness

-----------------------------------------------------------------------------

Readings == {0} \cup {Latency[m][r] : m \in Models, r \in Rates}

\* Every variable has its type.
TypeOK ==
    /\ ref \in Models \cup {NoRef} /\ file \in [Models -> FileStates]
    /\ rate \in Rates /\ basis \in Rates \cup {0}
    /\ active \in BOOLEAN /\ dirty \in BOOLEAN /\ asking \in BOOLEAN /\ callback \in BOOLEAN
    /\ deciding \in BOOLEAN /\ restart \in BOOLEAN /\ reopening \in BOOLEAN
    /\ bumping \subseteq Hands /\ recording \in [Hands -> Models \cup {NoRef}]
    /\ lapsed \in BOOLEAN
    /\ figure \in Readings /\ announced \in Readings /\ engine \in Readings
    /\ fade \in [to : Readings, left : 0..FadeBlocks] \cup {NoFade}
    /\ claim \in [announced : Readings, bumped : BOOLEAN, settle : (1..SettleBlocks) \cup {NoClaim}]
                 \cup {NoClaim}
    /\ stores \subseteq {"figure", "dirty"} /\ stores # {} => asking
    /\ jobs \in Nat /\ entries \in Nat /\ changes \in 0..MaxChanges

\* FR-CLAP-040: once nobody changes anything more, the host comes to hold the
\* engine's own latency, and keeps it, however wrong the prediction was; but
\* for the two lapses.
HostLearns == <>[](active => announced = engine \/ lapsed)

\* Issue #93: the restarts come to an end, though every one of them makes the
\* engine's latency move again.
RestartsEnd == <>[]~(restart \/ reopening)

=============================================================================
