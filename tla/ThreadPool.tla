----------------------------- MODULE ThreadPool -----------------------------
(***************************************************************************)
(* The worker pool and its shutdown (namir-worker: pool.rs).  A critical   *)
(* section of the queue mutex is one step; what happens after the mutex is *)
(* released, notifying and joining, is a step of its own.                  *)
(*                                                                         *)
(* shutdown may be called by any thread, by several at once, and from      *)
(* inside a job: a job that holds the last reference to the pool's owner   *)
(* drops it on a worker thread.                                            *)
(***************************************************************************)
EXTENDS Integers, Sequences, FiniteSets, PoolState

pool  == <<queue, shutdown, notifies>>
loop  == <<wpc, job, job_state>>
ending == <<handles, spc, joining, joined, taker>>
vars  == <<pool, loop, ending>>

Init ==
  /\ queue = <<>> /\ shutdown = FALSE /\ notifies = 0
  /\ wpc = [w \in Workers |-> "lock"]
  /\ job = [w \in Workers |-> None]
  /\ job_state = [j \in Jobs |-> "new"]
  /\ handles = Workers
  /\ spc = [t \in Threads |-> "out"]
  /\ joining = [t \in Threads |-> {}]
  /\ joined = FALSE /\ taker = None

-----------------------------------------------------------------------------
(* spawn, from any thread.                                                 *)

\* Mutant: nobody is notified of the push.
SpawnUnnotified(j) ==
  /\ job_state[j] = "new"
  /\ IF shutdown
       THEN /\ job_state' = [job_state EXCEPT ![j] = "dropped"]
            /\ UNCHANGED queue
       ELSE /\ queue' = Append(queue, j)
            /\ job_state' = [job_state EXCEPT ![j] = "queued"]
  /\ UNCHANGED <<notifies, shutdown, wpc, job, ending>>

Spawn(j) ==
  /\ job_state[j] = "new"
  /\ IF shutdown
       THEN /\ job_state' = [job_state EXCEPT ![j] = "dropped"]
            /\ UNCHANGED <<queue, notifies>>
       ELSE /\ queue' = Append(queue, j) /\ notifies' = notifies + 1
            /\ job_state' = [job_state EXCEPT ![j] = "queued"]
  /\ UNCHANGED <<shutdown, wpc, job, ending>>

\* notify_one: one waiting worker wakes, whichever the system picks.
NotifyOne ==
  /\ notifies > 0 /\ notifies' = notifies - 1
  /\ IF \E w \in Workers : wpc[w] = "wait"
       THEN \E w \in Workers : wpc[w] = "wait" /\ wpc' = [wpc EXCEPT ![w] = "lock"]
       ELSE UNCHANGED wpc
  /\ UNCHANGED <<queue, shutdown, job, job_state, ending>>

-----------------------------------------------------------------------------
(* worker_loop.                                                            *)

TakeJob(w) ==
  /\ wpc[w] = "lock" /\ queue # <<>>
  /\ job' = [job EXCEPT ![w] = Head(queue)]
  /\ job_state' = [job_state EXCEPT ![Head(queue)] = "running"]
  /\ queue' = Tail(queue)
  /\ wpc' = [wpc EXCEPT ![w] = "run"]
  /\ UNCHANGED <<shutdown, notifies, ending>>

Wait(w) ==
  /\ wpc[w] = "lock" /\ queue = <<>> /\ ~shutdown
  /\ wpc' = [wpc EXCEPT ![w] = "wait"]
  /\ UNCHANGED <<pool, job, job_state, ending>>

\* Condvar::wait may return without a notification.
SpuriousWake(w) ==
  /\ wpc[w] = "wait" /\ wpc' = [wpc EXCEPT ![w] = "lock"]
  /\ UNCHANGED <<pool, job, job_state, ending>>

Exit(w) ==
  /\ wpc[w] = "lock" /\ queue = <<>> /\ shutdown
  /\ wpc' = [wpc EXCEPT ![w] = "exited"]
  /\ UNCHANGED <<pool, job, job_state, ending>>

\* The job ends, normally or by a panic that is caught and recorded.
Finish(w) ==
  /\ wpc[w] = "run" /\ spc[w] \in {"out", "returned"}
  /\ job_state' = [job_state EXCEPT ![job[w]] = "done"]
  /\ job' = [job EXCEPT ![w] = None]
  /\ wpc' = [wpc EXCEPT ![w] = "lock"]
  /\ spc' = [spc EXCEPT ![w] = "out"]
  /\ UNCHANGED <<pool, handles, joining, joined, taker>>

WorkerStep(w) == TakeJob(w) \/ Wait(w) \/ Exit(w) \/ Finish(w)

-----------------------------------------------------------------------------
(* shutdown, on a thread outside the pool or inside a job.                 *)

MayCall(t) == spc[t] = "out" /\ (t \in Workers => wpc[t] = "run")

SetFlag(t) ==
  /\ MayCall(t)
  /\ shutdown' = TRUE
  /\ spc' = [spc EXCEPT ![t] = "notify"]
  /\ UNCHANGED <<queue, notifies, loop, handles, joining, joined, taker>>

NotifyAll(t) ==
  /\ spc[t] = "notify" /\ spc' = [spc EXCEPT ![t] = "take"]
  /\ wpc' = [w \in Workers |-> IF wpc[w] = "wait" THEN "lock" ELSE wpc[w]]
  /\ UNCHANGED <<pool, job, job_state, handles, joining, joined, taker>>

TakeHandles(t) ==
  /\ spc[t] = "take" /\ handles # {}
  /\ joining' = [joining EXCEPT ![t] = handles]
  /\ handles' = {} /\ taker' = t
  /\ spc' = [spc EXCEPT ![t] = "join"]
  /\ UNCHANGED <<pool, loop, joined>>

\* Mutant: an empty list means there is nothing to wait for (issue #111).
FindNoneReturning(t) ==
  /\ spc[t] = "take" /\ handles = {}
  /\ spc' = [spc EXCEPT ![t] = "returned"]
  /\ UNCHANGED <<pool, loop, handles, joining, joined, taker>>

\* The handles are gone: await_join, which a worker of this pool leaves at once.
FindNone(t) ==
  /\ spc[t] = "take" /\ handles = {}
  /\ spc' = [spc EXCEPT ![t] = IF t \in Workers THEN "returned" ELSE "await"]
  /\ UNCHANGED <<pool, loop, handles, joining, joined, taker>>

\* Mutant: a worker joins itself too.
JoinSelf(t) ==
  /\ spc[t] = "join"
  /\ \E w \in joining[t] :
       /\ wpc[w] = "exited"
       /\ joining' = [joining EXCEPT ![t] = @ \ {w}]
  /\ UNCHANGED <<pool, loop, handles, spc, joined, taker>>

\* One handle: joined once its thread has ended, skipped if it is the caller's own.
Join(t) ==
  /\ spc[t] = "join"
  /\ \E w \in joining[t] :
       /\ w = t \/ wpc[w] = "exited"
       /\ joining' = [joining EXCEPT ![t] = @ \ {w}]
  /\ UNCHANGED <<pool, loop, handles, spc, joined, taker>>

\* PublishJoined is dropped and shutdown returns.
PublishJoined(t) ==
  /\ spc[t] = "join" /\ joining[t] = {}
  /\ joined' = TRUE
  /\ spc' = [spc EXCEPT ![t] = "returned"]
  /\ UNCHANGED <<pool, loop, handles, joining, taker>>

Awaited(t) ==
  /\ spc[t] = "await" /\ joined
  /\ spc' = [spc EXCEPT ![t] = "returned"]
  /\ UNCHANGED <<pool, loop, handles, joining, joined, taker>>

ShutdownStep(t) ==
  \/ NotifyAll(t) \/ TakeHandles(t) \/ FindNone(t)
  \/ Join(t) \/ PublishJoined(t) \/ Awaited(t)

Next ==
  \/ \E j \in Jobs : Spawn(j)
  \/ NotifyOne
  \/ \E w \in Workers : WorkerStep(w) \/ SpuriousWake(w)
  \/ \E t \in Threads : SetFlag(t) \/ ShutdownStep(t)

Spec == Init /\ [][Next]_vars

\* Every thread is scheduled and every job ends; nobody is obliged to spawn a job
\* or to shut the pool down.
Fairness ==
  /\ WF_vars(NotifyOne)
  /\ \A w \in Workers : WF_vars(WorkerStep(w))
  /\ \A t \in Threads : WF_vars(ShutdownStep(t))
FairSpec == Spec /\ Fairness

-----------------------------------------------------------------------------
TypeOK ==
  /\ queue \in Seq(Jobs) /\ shutdown \in BOOLEAN /\ notifies \in Nat
  /\ wpc \in [Workers -> {"lock", "wait", "run", "exited"}]
  /\ job \in [Workers -> Jobs \union {None}]
  /\ \A w \in Workers : job[w] # None <=> wpc[w] = "run"
  /\ job_state \in [Jobs -> {"new", "queued", "running", "done", "dropped"}]
  /\ handles \subseteq Workers
  /\ spc \in [Threads -> {"out", "notify", "take", "join", "await", "returned"}]
  /\ joining \in [Threads -> SUBSET Workers]
  /\ joined \in BOOLEAN /\ taker \in Threads \union {None}

\* A thread that has exited leaves nothing in the queue, and nothing enters it any
\* more: a job can never be left there owning what it captured (pool.rs:157-160).
ExitedMeansEmpty ==
  (\E w \in Workers : wpc[w] = "exited") => queue = <<>>

\* Every accepted job is run to its end, also across a shutdown and with wake-ups
\* lost to a worker that was not waiting.  A job is spawned once and done for good, so
\* that each ends if again and again none is left.
AcceptedJobsRun == []<>(\A j \in Jobs : job_state[j] \notin {"queued", "running"})

\* Every call of shutdown returns: re-entrant, concurrent, or both.  A caller makes
\* one and a job makes one, so that each ends if again and again none is going on.
ShutdownReturns == []<>(\A t \in Threads : spc[t] \in {"returned", "out"})

=============================================================================
