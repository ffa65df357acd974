----------------------------- MODULE PoolState -------------------------------
(* What ThreadPool and its proofs are about: parameters, state, and the promises
   that other modules cite. *)
EXTENDS Integers, Absence

CONSTANTS
  Cores,    \* available_parallelism
  Callers,  \* threads outside the pool that shut it down
  Jobs      \* the jobs that are ever spawned, each once

PoolSize(cores) == IF cores >= 3 THEN 2 ELSE 1
Workers == 1..PoolSize(Cores)
Threads == Workers \union Callers

ASSUME PoolAssumption ==
  /\ Cores \in Nat
  /\ Callers \intersect Int = {}
  /\ None \notin Jobs \union Threads

VARIABLES
  queue,     \* Shared::queue
  shutdown,  \* Shared::shutdown
  notifies,  \* spawns that have pushed and not yet called notify_one
  wpc,       \* where each worker is in worker_loop
  job,       \* the job a worker is running
  job_state, \* the fate of each job
  handles,   \* ThreadPool::threads, the handles not yet taken
  spc,       \* where each thread is in shutdown
  joining,   \* the handles a thread in shutdown has yet to join
  joined,    \* ThreadPool::joined
  taker      \* the thread that took the handles

\* When shutdown returns to a thread outside the pool, no worker runs any more and
\* no accepted job is left behind: all have exited, but for a worker that took the
\* handles inside its own job and can be waited for by nobody (the contract of
\* shutdown, pool.rs:173-175 and 209-212).
ReturnedMeansStopped ==
  \A c \in Callers : spc[c] = "returned" =>
    /\ \A w \in Workers : wpc[w] = "exited" \/ w = taker
    /\ taker \in Callers => \A j \in Jobs : job_state[j] \notin {"queued", "running"}
=============================================================================
