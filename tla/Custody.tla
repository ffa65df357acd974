------------------------------- MODULE Custody -------------------------------
(***************************************************************************)
(* What the handover protocol promises about one prepared slot (docs/02,   *)
(* D-8.1): it is prepared by the worker, queued, taken by the engine,      *)
(* retired into the return ring and freed by the worker, in that order;    *)
(* a slot that could not be queued is freed by the worker too.  Nothing    *)
(* leaves the engine but through the return ring.                          *)
(***************************************************************************)
CONSTANT Res

VARIABLE place

Places == {"free", "worker", "queued", "engine", "returned"}

Init == place = [r \in Res |-> "free"]

Move(r, from, to) == place[r] = from /\ place' = [place EXCEPT ![r] = to]

Prepare(r)  == Move(r, "free", "worker")
Offer(r)    == Move(r, "worker", "queued")
Withdraw(r) == Move(r, "worker", "free")
Take(r)     == Move(r, "queued", "engine")
Retire(r)   == Move(r, "engine", "returned")
Free(r)     == Move(r, "returned", "free")

Next == \E r \in Res :
  Prepare(r) \/ Offer(r) \/ Withdraw(r) \/ Take(r) \/ Retire(r) \/ Free(r)

Spec == Init /\ [][Next]_place
=============================================================================
