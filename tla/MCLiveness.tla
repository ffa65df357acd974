----------------------------- MODULE MCLiveness -----------------------------
(* Small instances of components whose liveness is checked.  They share no  *)
(* state: the initial state chooses the one that runs, the others stay in   *)
(* their own initial states.                                                *)
EXTENDS TelemetryState, PoolState, LatencyState, SessionState, ReplayState

CONSTANTS
    Files, Old, MaxSteps,
    NamRefs, IrRefs, m1, m2, r1, p0, p1,
    Entries, Knobs, Flushes, MaxCalls,
    a, b

VARIABLES unit,
    mirror, preset, drawing, shown, put, built, steps

\* What another preset file holds.
OlderPreset == {[param |-> p1, file |-> f] : f \in Old}
\* States that name a model and more, and one of parameters alone.
Referenced == {[param |-> p1, nam |-> m1, ir |-> r1], [param |-> p0, nam |-> m2, ir |-> None],
               [param |-> p1, nam |-> None, ir |-> None]}
OneReferenced == {[param |-> p1, nam |-> m2, ir |-> None]}
\* States with a model and with none; and one model adds latency at either rate,
\* the other at the second alone.
AnyModel == {a, b, NoRef}
Samples == [m \in {a, b} |-> IF m = a THEN [r \in {44, 48} |-> IF r = 44 THEN 1 ELSE 2]
                                     ELSE [r \in {44, 48} |-> IF r = 44 THEN 0 ELSE 2]]

Telemetry == INSTANCE TelemetryRing
Pool      == INSTANCE ThreadPool
Session   == INSTANCE AppSession WITH Values <- {p0, p1}, Default <- p0,
                 Presets <- OlderPreset, MaxCalls <- MaxSteps,
                 saved <- shown, written <- put, calls <- steps
Replay    == INSTANCE PluginReplay WITH Values <- {p0, p1}, Default <- p0,
                 Docs <- Referenced, Presets <- OneReferenced
Handshake == INSTANCE LatencyHandshake

ASSUME Session!SessionAssumption /\ Replay!ReplayAssumption

telemetry == <<slots, written, seq, reader>>
pool      == <<queue, shutdown, notifies, wpc, job, job_state, handles, spc, joining, joined,
               taker>>
session   == <<mirror, instance, preset, inbox, outbox, worker, drawing, shown, put, name,
               unsaid, generation, pending, built, streams, mode, failed, steps>>
replay    == <<stands, live, heard, raced, recalls, pc, doc, saved, unsaved, calls>>
handshake == <<ref, file, rate, active, figure, basis, announced, dirty, engine, fade,
               claim, stores, asking, callback, deciding, restart, reopening, jobs, entries,
               bumping, recording, lapsed, changes>>
vars == <<unit, telemetry, pool, session, replay, handshake>>

Init ==
    /\ unit \in {"telemetry", "pool", "session", "replay", "handshake"}
    /\ Telemetry!Init /\ Pool!Init /\ Session!Init /\ Replay!Init /\ Handshake!Init
    /\ unit # "handshake" => ref = a /\ rate = 44

Next ==
    \/ unit = "telemetry" /\ Telemetry!Next
       /\ UNCHANGED <<unit, pool, session, replay, handshake>>
    \/ unit = "pool" /\ Pool!Next
       /\ UNCHANGED <<unit, telemetry, session, replay, handshake>>
    \/ unit = "session" /\ Session!Next
       /\ UNCHANGED <<unit, telemetry, pool, replay, handshake>>
    \/ unit = "replay" /\ Replay!Next
       /\ UNCHANGED <<unit, telemetry, pool, session, handshake>>
    \/ unit = "handshake" /\ Handshake!Next
       /\ UNCHANGED <<unit, telemetry, pool, session, replay>>

\* The fairness each component states, of the one that runs.
Fairness ==
    /\ WF_telemetry(unit = "telemetry" /\ Telemetry!Publish)
    /\ \A r \in Readers : WF_telemetry(unit = "telemetry" /\ Telemetry!Drain(r))
    /\ WF_pool(unit = "pool" /\ Pool!NotifyOne)
    /\ \A w \in Workers : WF_pool(unit = "pool" /\ Pool!WorkerStep(w))
    /\ \A t \in Threads : WF_pool(unit = "pool" /\ Pool!ShutdownStep(t))
    /\ WF_session(unit = "session" /\ Session!Window)
    /\ WF_session(unit = "session" /\ Session!Worker)
    /\ WF_replay(unit = "replay" /\ Replay!Adopt(Main))
    /\ WF_replay(unit = "replay" /\ Replay!MarkClean)
    /\ WF_replay(unit = "replay" /\ Replay!SubmitKnob)
    /\ \A w \in PoolThreads : WF_replay(unit = "replay" /\ Replay!Work(w))
    /\ WF_handshake(unit = "handshake" /\ Handshake!Audio)
    /\ WF_handshake(unit = "handshake" /\ Handshake!TakeFlag)
    /\ WF_handshake(unit = "handshake" /\ Handshake!Decide)
    /\ WF_handshake(unit = "handshake" /\ Handshake!Owed)
    /\ \A w \in Hands : WF_handshake(unit = "handshake" /\ Handshake!Work(w))

Spec == Init /\ [][Next]_vars /\ Fairness

------------------------------------------------------------------------------
\* What no writer overwrites is delivered (TelemetryRing).
DeliveredOrOverwritten == Telemetry!DeliveredOrOverwritten
\* Every accepted job is run (ThreadPool).
AcceptedJobsRun == Pool!AcceptedJobsRun
\* Every call of shutdown returns (ThreadPool).
ShutdownReturns == Pool!ShutdownReturns
\* Every reopen ends (AppSession).
ReopenEnds == Session!ReopenEnds
\* The engine comes back to what the instance stands for (PluginReplay).
Converges == Replay!Converges
\* The host comes to hold the engine's latency (LatencyHandshake).
HostLearns == Handshake!HostLearns
\* The restarts come to an end (LatencyHandshake).
RestartsEnd == Handshake!RestartsEnd
=============================================================================
