----------------------------- MODULE CacheState ------------------------------
(* What ResourceCache and its proofs are about: parameters, state, and the promises
   that other modules cite. *)
EXTENDS Naturals, FiniteSets, Absence

CONSTANTS
    Instances,  \* plug-in instances; each runs one load at a time
    Nams, Irs,  \* contents of model files and of impulse-response files
    Bad,        \* those that do not parse
    Contexts,   \* the engine rates and block sizes instances may run at
    Objects,    \* allocations
    HoldMax,    \* objects one instance holds: its slots and what is in flight
    ReapFloor   \* REAP_FLOOR

Requests == (Nams \cup Irs) \X Contexts

\* What the bytes are prepared into: a model depends on its bytes alone, an
\* impulse response also on the rate and block size it is laid out for.
Prepared(req) == IF req[1] \in Nams THEN <<req[1]>> ELSE req

\* ContentHash for a model, IrKey for an impulse response.
KeyOf(req) == IF req[1] \in Nams THEN <<req[1]>> ELSE req

Keys == {KeyOf(req) : req \in Requests}
NamKeys == {KeyOf(req) : req \in Nams \X Contexts}

ASSUME CacheAssumption ==
    /\ Nams \cap Irs = {} /\ Bad \subseteq Nams \cup Irs
    /\ None \notin Objects \cup Requests \cup {Prepared(req) : req \in Requests}
    /\ IsFiniteSet(Instances)
    /\ HoldMax \in Nat /\ ReapFloor \in Nat

VARIABLES
    cache,      \* key |-> the object its Weak points to, None if absent
    prepared,   \* object |-> what it was prepared from, None if freed
    held,       \* instance |-> the <<object, request it answered>> it owns
    pending     \* instance |-> the request it is parsing, None if idle

\* FR-CLAP-090: however many instances load the same content, and however
\* their parses overlap, at most one copy of it is alive; for impulse
\* responses, one for each rate and block size.
SingleCopy ==
    \A i, j \in Instances : \A h \in held[i], g \in held[j] :
        prepared[h[1]] = prepared[g[1]] => h[1] = g[1]

\* The entries of a map, dead or alive.
Entries(map, c) == {k \in map : c[k] # None}

\* NFR-PERF-070: the dead entries left behind by a long session never outgrow
\* the floor, or what the instances can hold alive between them.
ResidueBounded ==
    \A map \in {NamKeys, Keys \ NamKeys} :
        LET n == Cardinality(Entries(map, cache))
        IN n <= ReapFloor \/ n <= HoldMax * Cardinality(Instances)
=============================================================================
