--------------------------- MODULE ResourceCache ---------------------------
(***************************************************************************)
(* The process-wide cache of prepared resources (namir-worker/cache.rs):   *)
(* key |-> Weak<Prepared>.  A worker looks the key up, parses with the     *)
(* lock released when it misses, and checks again before it inserts; every *)
(* object lives exactly as long as some instance of the plug-in holds it.  *)
(*                                                                         *)
(* Models and impulse responses have a map, a lock and a code path each;   *)
(* the two paths differ in their key alone, so one set of actions serves   *)
(* both and one map over the two kinds of key stands for both.             *)
(***************************************************************************)
EXTENDS Naturals, FiniteSets, CacheState

vars == <<cache, prepared, held, pending>>

-----------------------------------------------------------------------------

\* Strong counts: an object lives while an instance holds it.
Live(o) == \E i \in Instances : \E h \in held[i] : h[1] = o

\* Weak::upgrade of the entry under key k succeeds.
Upgrades(k) == cache[k] # None /\ Live(cache[k])

\* An allocation nothing refers to, strongly or weakly.
Fresh(o) == ~Live(o) /\ \A k \in Keys : cache[k] # o

\* Which free allocation is used does not matter.
NewObject == CHOOSE o \in Objects : Fresh(o)

Init ==
    /\ cache = [k \in Keys |-> None]
    /\ prepared = [o \in Objects |-> None]
    /\ held = [i \in Instances |-> {}]
    /\ pending = [i \in Instances |-> None]

\* The map one of whose keys is k.
MapOf(k) == IF k \in NamKeys THEN NamKeys ELSE Keys \ NamKeys

\* `retain`: c without the dead entries of a map, given the object just made.
Retained(c, map, new) ==
    [k \in Keys |-> IF k \in map /\ c[k] # None /\ c[k] # new /\ ~Live(c[k])
                    THEN None ELSE c[k]]

\* Mutant: no sweep on a miss.
MaybeReapNever(c, map, new) == c

\* `maybe_reap`: only a map grown past the floor is swept.
MaybeReap(c, map, new) ==
    IF Cardinality(Entries(map, c)) > ReapFloor THEN Retained(c, map, new) ELSE c

-----------------------------------------------------------------------------

Give(i, o, req) == held' = [held EXCEPT ![i] = @ \cup {<<o, req>>}]

\* The first lock: a live entry answers at once, else the parse starts, with
\* the lock released.
Lookup(i) ==
    /\ pending[i] = None
    /\ Cardinality(held[i]) < HoldMax
    /\ \E req \in Requests :
        \/ /\ Upgrades(KeyOf(req))
           /\ Give(i, cache[KeyOf(req)], req)
           /\ UNCHANGED pending
        \/ /\ ~Upgrades(KeyOf(req))
           /\ pending' = [pending EXCEPT ![i] = req]
           /\ UNCHANGED held
    /\ UNCHANGED <<cache, prepared>>

\* The bytes do not parse: nothing is cached.
ParseFails(i) ==
    /\ pending[i] # None /\ pending[i][1] \in Bad
    /\ pending' = [pending EXCEPT ![i] = None]
    /\ UNCHANGED <<cache, prepared, held>>

\* The second lock, with the parsed object in hand: another instance may have
\* finished the same content meanwhile, and then its object is the one used.
Converge(i) ==
    LET req == pending[i] IN
    /\ req # None /\ req[1] \notin Bad
    /\ Upgrades(KeyOf(req))
    /\ Give(i, cache[KeyOf(req)], req)
    /\ pending' = [pending EXCEPT ![i] = None]
    /\ UNCHANGED <<cache, prepared>>

\* Mutant: no second look before the insertion.
InsertUnchecked(i) ==
    LET req == pending[i]
        k   == KeyOf(req)
    IN
    /\ req # None /\ req[1] \notin Bad
    /\ \E o \in Objects : Fresh(o)
    /\ LET o == NewObject IN
        /\ prepared' = [prepared EXCEPT ![o] = Prepared(req)]
        /\ Give(i, o, req)
        /\ cache' = MaybeReap([cache EXCEPT ![k] = o], MapOf(k), o)
    /\ pending' = [pending EXCEPT ![i] = None]

Insert(i) ==
    LET req == pending[i]
        k   == KeyOf(req)
    IN
    /\ req # None /\ req[1] \notin Bad
    /\ ~Upgrades(k)
    /\ \E o \in Objects : Fresh(o)
    /\ LET o == NewObject IN
        /\ prepared' = [prepared EXCEPT ![o] = Prepared(req)]
        /\ Give(i, o, req)
        /\ cache' = MaybeReap([cache EXCEPT ![k] = o], MapOf(k), o)
    /\ pending' = [pending EXCEPT ![i] = None]

\* The worker drops a retired resource, or the instance is torn down.
Release(i) ==
    /\ \E h \in held[i] : held' = [held EXCEPT ![i] = @ \ {h}]
    /\ prepared' = [o \in Objects |-> IF Live(o)' THEN prepared[o] ELSE None]
    /\ UNCHANGED <<cache, pending>>

\* `reap`: one map at a time, each under its own lock.
Reap ==
    /\ \E map \in {NamKeys, Keys \ NamKeys} : cache' = Retained(cache, map, None)
    /\ UNCHANGED <<prepared, held, pending>>

Next ==
    \/ Reap
    \/ \E i \in Instances :
        Lookup(i) \/ ParseFails(i) \/ Converge(i) \/ Insert(i) \/ Release(i)

Spec == Init /\ [][Next]_vars

-----------------------------------------------------------------------------

\* Every variable has its type, and no instance holds an object that has been
\* freed.
TypeOK ==
    /\ cache \in [Keys -> Objects \cup {None}]
    /\ prepared \in [Objects -> {Prepared(req) : req \in Requests} \cup {None}]
    /\ held \in [Instances -> SUBSET (Objects \X Requests)]
    /\ pending \in [Instances -> Requests \cup {None}]
    /\ \A i \in Instances : \A h \in held[i] : prepared[h[1]] # None

\* No instance is given an object prepared for other bytes, or for another
\* rate or block size than its own: `process_block` panics on one prepared
\* for a smaller block.
FitsItsAsker ==
    \A i \in Instances : \A h \in held[i] : prepared[h[1]] = Prepared(h[2])

\* A live object can always be found: nothing takes it out of the map, or
\* another out from under its key, while an instance still holds it.
LiveIsCached ==
    \A i \in Instances : \A h \in held[i] : cache[KeyOf(h[2])] = h[1]

=============================================================================
