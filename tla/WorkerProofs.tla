---------------------------- MODULE WorkerProofs ----------------------------
(***************************************************************************)
(* What the worker threads share: the cache of prepared resources and the  *)
(* pool they run in.                                                       *)
(*                                                                         *)
(* The cache keeps one live copy of each resource, for any number of       *)
(* instances, files, contexts and allocations and any reaping floor.       *)
(* FitsItsAsker and LiveIsCached carry each other through a hit only       *)
(* because a live entry also matches its key (EntriesMatch): the three are *)
(* inductive together, and SingleCopy follows from the first two.          *)
(*                                                                         *)
(* A shutdown of the pool keeps what its return promises, for every number *)
(* of cores, callers and jobs: one thread takes the handles, and only it   *)
(* ever joins; a caller outside the pool returns only once that thread has *)
(* published that it is done; by then every handle it took is joined or    *)
(* its own.                                                                *)
(***************************************************************************)
EXTENDS ResourceCache, PoolState, Sequences, FunctionTheorems, FiniteSetTheorems, TLAPS

\* What a live entry points to was prepared under the entry's own key.
EntriesMatch ==
    \A k \in Keys : Upgrades(k) => prepared[cache[k]] = k

IInv == TypeOK /\ FitsItsAsker /\ LiveIsCached /\ EntriesMatch

\* What an object is prepared from is its key (the claim of IrKey's comment).
LEMMA KeyIsPrepared ==
    ASSUME NEW req \in Requests
    PROVE  KeyOf(req) = Prepared(req) /\ KeyOf(req) \in Keys
  BY DEF KeyOf, Prepared, Keys

\* An object is live exactly when some instance holds it (Live, restated for
\* the provers).
LEMMA HeldIsLive ==
    ASSUME NEW i \in Instances, NEW h \in held[i]
    PROVE  Live(h[1])
  BY DEF Live

\* A sweep takes out no live entry and not the new one, and adds nothing.
LEMMA SweepKeepsLive ==
    ASSUME NEW c, c \in [Keys -> Objects \cup {None}], NEW map, NEW new, NEW k \in Keys
    PROVE  /\ MaybeReap(c, map, new) \in [Keys -> Objects \cup {None}]
           /\ MaybeReap(c, map, new)[k] \in {c[k], None}
           /\ Live(c[k]) \/ c[k] = new => MaybeReap(c, map, new)[k] = c[k]
           /\ Retained(c, map, new) \in [Keys -> Objects \cup {None}]
           /\ Retained(c, map, new)[k] \in {c[k], None}
           /\ Live(c[k]) \/ c[k] = new => Retained(c, map, new)[k] = c[k]
  <1>1. /\ Retained(c, map, new) \in [Keys -> Objects \cup {None}]
        /\ Retained(c, map, new)[k] \in {c[k], None}
        /\ Live(c[k]) \/ c[k] = new => Retained(c, map, new)[k] = c[k]
    BY DEF Retained
  <1>2. MaybeReap(c, map, new) \in {c, Retained(c, map, new)}
    BY DEF MaybeReap
  <1> QED BY <1>1, <1>2

LEMMA InitIInv == Init => IInv
  <1> SUFFICES ASSUME Init PROVE IInv
    OBVIOUS
  <1>1. \A i \in Instances : held[i] = {}
    BY DEF Init
  <1> QED BY <1>1 DEF Init, IInv, TypeOK, FitsItsAsker, LiveIsCached, EntriesMatch, Upgrades

\* Handing instance i an object the invariant vouches for keeps the invariant.
LEMMA HitKeepsIInv ==
    ASSUME IInv, NEW i \in Instances, NEW req \in Requests,
           Upgrades(KeyOf(req)), Give(i, cache[KeyOf(req)], req),
           UNCHANGED <<cache, prepared>>,
           pending' \in [Instances -> Requests \cup {None}]
    PROVE  IInv'
  <1> DEFINE o == cache[KeyOf(req)]
  <1> USE DEF IInv
  <1>1. /\ o \in Objects /\ Live(o) /\ prepared[o] = Prepared(req)
        /\ KeyOf(req) \in Keys
    BY KeyIsPrepared DEF Upgrades, EntriesMatch, TypeOK
  <1>2. held' = [held EXCEPT ![i] = @ \cup {<<o, req>>}] /\ held \in [Instances -> SUBSET (Objects \X Requests)]
    BY DEF Give, TypeOK
  <1>3. \A j \in Instances : \A h \in held'[j] :
            h \in held[j] \/ h = <<o, req>>
    BY <1>2
  <1>4. prepared[o] # None
    <2>1. PICK j \in Instances : \E h \in held[j] : h[1] = o
      BY <1>1 DEF Live
    <2> QED BY <2>1 DEF TypeOK
  <1>5. TypeOK'
    BY <1>1, <1>2, <1>3, <1>4 DEF TypeOK
  <1>6. FitsItsAsker' /\ LiveIsCached'
    BY <1>1, <1>3 DEF FitsItsAsker, LiveIsCached
  <1>7. EntriesMatch'
    <2> SUFFICES ASSUME NEW k \in Keys, cache[k] # None, Live(cache[k])'
                 PROVE  prepared[cache[k]] = k
      BY DEF EntriesMatch, Upgrades
    <2>1. PICK j \in Instances : \E h \in held'[j] : h[1] = cache[k]
      BY DEF Live
    <2>2. Live(cache[k])
      BY <1>1, <1>3, <2>1 DEF Live
    <2> QED BY <2>2 DEF EntriesMatch, Upgrades
  <1> QED BY <1>5, <1>6, <1>7

\* Dropping dead entries keeps the invariant.
LEMMA SweepKeepsIInv ==
    ASSUME IInv, NEW map, cache' = Retained(cache, map, None),
           UNCHANGED <<prepared, held, pending>>
    PROVE  IInv'
  <1> USE DEF IInv
  <1>1. \A k \in Keys : /\ cache'[k] \in {cache[k], None}
                        /\ Live(cache[k]) => cache'[k] = cache[k]
    BY SweepKeepsLive DEF TypeOK
  <1>2. \A o : Live(o)' <=> Live(o)
    BY DEF Live
  <1>3. TypeOK'
    <2>1. cache' \in [Keys -> Objects \cup {None}]
      BY DEF TypeOK, Retained
    <2> QED BY <2>1 DEF TypeOK
  <1>4. LiveIsCached'
    <2> SUFFICES ASSUME NEW i \in Instances, NEW h \in held[i]
                 PROVE  cache'[KeyOf(h[2])] = h[1]
      BY DEF LiveIsCached
    <2>1. cache[KeyOf(h[2])] = h[1] /\ Live(h[1]) /\ h[2] \in Requests
      BY HeldIsLive DEF LiveIsCached, TypeOK
    <2> QED BY <1>1, <2>1, KeyIsPrepared
  <1>5. FitsItsAsker' /\ EntriesMatch'
    BY <1>1, <1>2 DEF FitsItsAsker, EntriesMatch, Upgrades
  <1> QED BY <1>3, <1>4, <1>5

LEMMA InsertKeepsIInv ==
    ASSUME IInv, NEW i \in Instances, Insert(i)
    PROVE  IInv'
  <1> DEFINE req == pending[i]
             k   == KeyOf(req)
             o   == NewObject
             c   == [cache EXCEPT ![k] = o]
  <1> USE DEF IInv
  <1>1. req \in Requests /\ k \in Keys /\ k = Prepared(req)
    BY KeyIsPrepared DEF TypeOK, Insert
  <1>2. /\ o \in Objects /\ Fresh(o) /\ ~Live(o)
        /\ \A q \in Keys : cache[q] # o
    BY DEF Insert, NewObject, Fresh
  <1>3. /\ ~Upgrades(k)
        /\ prepared' = [prepared EXCEPT ![o] = Prepared(req)]
        /\ held' = [held EXCEPT ![i] = @ \cup {<<o, req>>}]
        /\ cache' = MaybeReap(c, MapOf(k), o)
        /\ pending' = [pending EXCEPT ![i] = None]
    BY DEF Insert, Give
  <1>4. c \in [Keys -> Objects \cup {None}] /\ c[k] = o
    BY <1>1, <1>2 DEF TypeOK
  <1>5. \A q \in Keys : /\ cache'[q] \in {c[q], None}
                        /\ Live(c[q]) \/ c[q] = o => cache'[q] = c[q]
    <2> SUFFICES ASSUME NEW q \in Keys
                 PROVE  /\ cache'[q] \in {c[q], None}
                        /\ Live(c[q]) \/ c[q] = o => cache'[q] = c[q]
      OBVIOUS
    <2> HIDE DEF c, o, k
    <2> QED BY <1>3, <1>4, SweepKeepsLive
  <1>6. \A j \in Instances : \A h \in held'[j] :
            h \in held[j] \/ h = <<o, req>>
    BY <1>1, <1>2, <1>3 DEF TypeOK
  <1>7. \A j \in Instances : \A h \in held[j] :
            /\ h[1] # o /\ h[1] \in Objects /\ h[2] \in Requests
            /\ Live(h[1]) /\ prepared'[h[1]] = prepared[h[1]]
            /\ KeyOf(h[2]) \in Keys
    BY <1>2, <1>3, HeldIsLive, KeyIsPrepared DEF TypeOK
  <1>8. TypeOK'
    <2>1. cache' \in [Keys -> Objects \cup {None}]
      BY <1>1, <1>3, <1>4, SweepKeepsLive
    <2>2. /\ held' \in [Instances -> SUBSET (Objects \X Requests)]
          /\ prepared' \in [Objects -> {Prepared(r) : r \in Requests} \cup {None}]
          /\ pending' \in [Instances -> Requests \cup {None}]
      BY <1>1, <1>2, <1>3 DEF TypeOK
    <2>3. Prepared(req) # None
      BY <1>1, CacheAssumption
    <2>4. prepared'[o] # None
      BY <1>2, <1>3, <2>3 DEF TypeOK
    <2>5. \A j \in Instances : \A h \in held'[j] : prepared'[h[1]] # None
      BY <1>6, <1>7, <2>4 DEF TypeOK
    <2> QED BY <2>1, <2>2, <2>5 DEF TypeOK
  <1>9. prepared'[o] = Prepared(req)
    BY <1>2, <1>3 DEF TypeOK
  <1>10. FitsItsAsker'
    BY <1>6, <1>7, <1>9 DEF FitsItsAsker
  <1>11. LiveIsCached'
    <2> SUFFICES ASSUME NEW j \in Instances, NEW h \in held'[j]
                 PROVE  cache'[KeyOf(h[2])] = h[1]
      BY DEF LiveIsCached
    <2>1. CASE h = <<o, req>>
      BY <2>1, <1>1, <1>4, <1>5
    <2>2. CASE h \in held[j]
      <3>1. cache[KeyOf(h[2])] = h[1] /\ h[1] # None
        BY <2>2, <1>7, CacheAssumption DEF LiveIsCached
      <3>2. KeyOf(h[2]) # k
        BY <2>2, <3>1, <1>3, <1>7 DEF Upgrades
      <3>3. c[KeyOf(h[2])] = h[1]
        BY <2>2, <3>1, <3>2, <1>7 DEF TypeOK
      <3> QED BY <2>2, <3>3, <1>5, <1>7
    <2> QED BY <1>6, <2>1, <2>2
  <1>12. EntriesMatch'
    <2> SUFFICES ASSUME NEW q \in Keys, cache'[q] # None, Live(cache[q])'
                 PROVE  prepared'[cache'[q]] = q
      BY DEF EntriesMatch, Upgrades
    <2>1. cache'[q] = c[q]
      BY <1>5
    <2>2. CASE q = k
      BY <2>1, <2>2, <1>1, <1>4, <1>9
    <2>3. CASE q # k
      <3>1. cache'[q] = cache[q] /\ cache[q] # o /\ cache[q] # None
        BY <2>1, <2>3, <1>1, <1>2 DEF TypeOK
      <3>2. PICK j \in Instances : \E h \in held'[j] : h[1] = cache[q]
        BY <3>1 DEF Live
      <3>3. Live(cache[q])
        BY <3>1, <3>2, <1>6 DEF Live
      <3>4. prepared[cache[q]] = q
        BY <3>1, <3>3 DEF EntriesMatch, Upgrades
      <3> QED BY <3>1, <3>4, <1>2, <1>3 DEF TypeOK
    <2> QED BY <2>2, <2>3
  <1> QED BY <1>8, <1>10, <1>11, <1>12

LEMMA ReleaseKeepsIInv ==
    ASSUME IInv, NEW i \in Instances, Release(i)
    PROVE  IInv'
  <1> USE DEF IInv
  <1>1. /\ \A j \in Instances : held'[j] \subseteq held[j]
        /\ held' \in [Instances -> SUBSET (Objects \X Requests)]
        /\ UNCHANGED <<cache, pending>>
    BY DEF Release, TypeOK
  <1>2. prepared' = [o \in Objects |-> IF Live(o)' THEN prepared[o] ELSE None]
    BY DEF Release
  <1>3. \A o : Live(o)' => Live(o)
    BY <1>1 DEF Live
  <1>4. \A j \in Instances : \A h \in held'[j] :
            h \in held[j] /\ h[1] \in Objects /\ Live(h[1])'
    BY <1>1 DEF Live
  <1>5. TypeOK'
    <2>1. prepared' \in [Objects -> {Prepared(r) : r \in Requests} \cup {None}]
      BY <1>2 DEF TypeOK
    <2>2. \A j \in Instances : \A h \in held'[j] : prepared'[h[1]] # None
      BY <1>2, <1>4 DEF TypeOK
    <2> QED BY <1>1, <2>1, <2>2 DEF TypeOK
  <1>6. FitsItsAsker' /\ LiveIsCached'
    BY <1>1, <1>2, <1>4 DEF FitsItsAsker, LiveIsCached
  <1>7. EntriesMatch'
    BY <1>1, <1>2, <1>3 DEF EntriesMatch, Upgrades, TypeOK
  <1> QED BY <1>5, <1>6, <1>7

LEMMA NextKeepsIInv == IInv /\ [Next]_vars => IInv'
  <1> SUFFICES ASSUME IInv, [Next]_vars PROVE IInv'
    OBVIOUS
  <1> USE DEF IInv
  <1>1. ASSUME NEW i \in Instances, Lookup(i) PROVE IInv'
    <2>1. PICK req \in Requests :
            \/ /\ Upgrades(KeyOf(req))
               /\ Give(i, cache[KeyOf(req)], req)
               /\ UNCHANGED pending
            \/ /\ ~Upgrades(KeyOf(req))
               /\ pending' = [pending EXCEPT ![i] = req]
               /\ UNCHANGED held
      BY <1>1 DEF Lookup
    <2>2. UNCHANGED <<cache, prepared>>
      BY <1>1 DEF Lookup
    <2>3. pending' \in [Instances -> Requests \cup {None}]
      BY <2>1 DEF TypeOK
    <2>4. CASE Upgrades(KeyOf(req)) /\ Give(i, cache[KeyOf(req)], req)
      BY <2>2, <2>3, <2>4, HitKeepsIInv
    <2>5. CASE UNCHANGED held
      BY <2>2, <2>3, <2>5
         DEF TypeOK, FitsItsAsker, LiveIsCached, EntriesMatch, Upgrades, Live
    <2> QED BY <2>1, <2>4, <2>5
  <1>2. ASSUME NEW i \in Instances, ParseFails(i) PROVE IInv'
    BY <1>2 DEF ParseFails, TypeOK, FitsItsAsker, LiveIsCached, EntriesMatch, Upgrades, Live
  <1>3. ASSUME NEW i \in Instances, Converge(i) PROVE IInv'
    <2>1. /\ pending[i] \in Requests
          /\ Upgrades(KeyOf(pending[i])) /\ Give(i, cache[KeyOf(pending[i])], pending[i])
          /\ UNCHANGED <<cache, prepared>>
          /\ pending' \in [Instances -> Requests \cup {None}]
      BY <1>3 DEF Converge, TypeOK
    <2> QED BY <2>1, HitKeepsIInv
  <1>4. ASSUME Reap PROVE IInv'
    BY <1>4, SweepKeepsIInv DEF Reap
  <1>5. CASE UNCHANGED vars
    BY <1>5 DEF vars, TypeOK, FitsItsAsker, LiveIsCached, EntriesMatch, Upgrades, Live
  <1> QED BY <1>1, <1>2, <1>3, <1>4, <1>5, InsertKeepsIInv, ReleaseKeepsIInv DEF Next

LEMMA Inductive == Spec => []IInv
  BY InitIInv, NextKeepsIInv, PTL DEF Spec

\* FR-CLAP-090, for any number of instances that load the same content however
\* their parses overlap: two live objects of the same content (and context, for
\* an impulse response) are one.
THEOREM OneCopy == Spec => []SingleCopy
  <1>1. IInv => SingleCopy
    BY KeyIsPrepared DEF IInv, SingleCopy, FitsItsAsker, LiveIsCached, TypeOK
  <1> QED BY <1>1, Inductive, PTL

\* No instance is ever handed an object prepared for other bytes, or for
\* another rate or block size than the one it asked for.
THEOREM NeverMisfit == Spec => []FitsItsAsker
  <1>1. IInv => FitsItsAsker
    BY DEF IInv
  <1> QED BY <1>1, Inductive, PTL

\* What an instance holds can be found under the key it asked with: no sweep and
\* no insertion of another instance takes a live entry away, so that the next load
\* of the same content is a hit.
THEOREM LiveAlwaysCached == Spec => []LiveIsCached
  <1>1. IInv => LiveIsCached
    BY DEF IInv
  <1> QED BY <1>1, Inductive, PTL

-----------------------------------------------------------------------------
(* How many entries there can be.                                          *)

\* A union of card(I) sets of at most n elements has at most n * card(I).
LEMMA UnionBound ==
    ASSUME NEW I, IsFiniteSet(I), NEW n \in Nat, NEW G,
           \A i \in I : IsFiniteSet(G[i]) /\ Cardinality(G[i]) <= n,
           NEW S, \A x \in S : \E i \in I : x \in G[i]
    PROVE  IsFiniteSet(S) /\ Cardinality(S) <= n * Cardinality(I)
  <1> DEFINE list == [i \in I |-> CHOOSE g : g \in Surjection(1..Cardinality(G[i]), G[i])]
             grid == I \X (1..n)
             f    == [p \in grid |-> list[p[1]][p[2]]]
             T    == {f[p] : p \in grid}
  <1>1. ASSUME NEW i \in I
        PROVE  list[i] \in Surjection(1..Cardinality(G[i]), G[i])
    <2>1. ExistsBijection(1..Cardinality(G[i]), G[i])
      BY FS_CardinalityType
    <2>2. \E g : g \in Surjection(1..Cardinality(G[i]), G[i])
      BY <2>1 DEF ExistsBijection, Bijection
    <2> QED BY <2>2
  <1>2. S \subseteq T
    <2> SUFFICES ASSUME NEW x \in S PROVE x \in T
      OBVIOUS
    <2>1. PICK i \in I : x \in G[i]
      OBVIOUS
    <2>2. Cardinality(G[i]) \in Nat /\ Cardinality(G[i]) <= n
      BY FS_CardinalityType
    <2>3. PICK m \in 1..Cardinality(G[i]) : list[i][m] = x
      BY <1>1, <2>1 DEF Surjection
    <2>4. <<i, m>> \in grid
      BY <2>2
    <2>5. f[<<i, m>>] = x
      BY <2>3, <2>4
    <2> QED BY <2>4, <2>5
  <1>3. IsFiniteSet(1..n) /\ Cardinality(1..n) = n
    <2>1. /\ IsFiniteSet(1..n)
          /\ Cardinality(1..n) = IF 1 > n THEN 0 ELSE n - 1 + 1
      BY FS_Interval
    <2> QED BY <2>1
  <1>4. IsFiniteSet(grid) /\ Cardinality(grid) = Cardinality(I) * n
    BY <1>3, FS_Product
  <1>5. f \in Surjection(grid, T)
    BY DEF Surjection
  <1>6. IsFiniteSet(T) /\ Cardinality(T) <= Cardinality(grid)
    BY <1>4, <1>5, FS_Surjection
  <1>7. IsFiniteSet(S) /\ Cardinality(S) <= Cardinality(T)
    BY <1>2, <1>6, FS_Subset
  <1>8. /\ Cardinality(I) \in Nat /\ Cardinality(S) \in Nat
        /\ Cardinality(T) \in Nat /\ Cardinality(grid) \in Nat
    BY <1>4, <1>6, <1>7, FS_CardinalityType
  <1> HIDE DEF grid, T, list, f
  <1>9. Cardinality(I) * n = n * Cardinality(I)
    BY <1>8
  <1> QED BY <1>4, <1>6, <1>7, <1>8, <1>9

\* The keys of what so many instances hold, so much each.
LEMMA HeldKeysFew ==
    ASSUME NEW H, \A i \in Instances : IsFiniteSet(H[i]) /\ Cardinality(H[i]) <= HoldMax,
           NEW S, \A q \in S : \E i \in Instances : \E h \in H[i] : q = KeyOf(h[2])
    PROVE  IsFiniteSet(S) /\ Cardinality(S) <= HoldMax * Cardinality(Instances)
  <1> DEFINE G == [i \in Instances |-> {KeyOf(h[2]) : h \in H[i]}]
  <1>1. ASSUME NEW i \in Instances
        PROVE  IsFiniteSet(G[i]) /\ Cardinality(G[i]) <= HoldMax
    <2> DEFINE f == [h \in H[i] |-> KeyOf(h[2])]
    <2>1. f \in Surjection(H[i], G[i])
      BY DEF Surjection
    <2>2. IsFiniteSet(G[i]) /\ Cardinality(G[i]) <= Cardinality(H[i])
      BY <2>1, FS_Surjection
    <2>3. Cardinality(G[i]) \in Nat /\ Cardinality(H[i]) \in Nat /\ Cardinality(H[i]) <= HoldMax
      BY <2>2, FS_CardinalityType
    <2> HIDE DEF G
    <2> QED BY <2>2, <2>3, CacheAssumption DEF CacheAssumption
  <1>2. \A q \in S : \E i \in Instances : q \in G[i]
    OBVIOUS
  <1> HIDE DEF G
  <1> QED BY <1>1, <1>2, UnionBound, CacheAssumption DEF CacheAssumption

\* A load in progress has its place kept for it among what its instance holds.
Busy(i) == IF pending[i] = None THEN 0 ELSE 1
HoldsFew(i) == IsFiniteSet(held[i]) /\ Cardinality(held[i]) + Busy(i) <= HoldMax
HoldInv == \A i \in Instances : HoldsFew(i)

\* The entries can be counted, and the count is bounded.
EntriesFinite == \A map \in {NamKeys, Keys \ NamKeys} : IsFiniteSet(Entries(map, cache))

\* An instance is given one object, in the place kept for it.
LEMMA GiveKeepsHold ==
    ASSUME TypeOK, HoldInv, NEW i \in Instances, NEW o \in Objects, NEW req \in Requests,
           Give(i, o, req),
           \/ pending[i] = None /\ Cardinality(held[i]) < HoldMax /\ UNCHANGED pending
           \/ pending[i] # None /\ pending' = [pending EXCEPT ![i] = None]
    PROVE  HoldInv'
  <1>1. held'[i] = held[i] \cup {<<o, req>>} /\ pending'[i] = None
    BY DEF Give, TypeOK
  <1>2. \A j \in Instances \ {i} : held'[j] = held[j] /\ pending'[j] = pending[j]
    BY DEF Give, TypeOK
  <1>3. IsFiniteSet(held[i]) /\ Cardinality(held[i]) \in Nat /\ Cardinality(held[i]) < HoldMax
    BY CacheAssumption, FS_CardinalityType DEF HoldInv, HoldsFew, Busy, CacheAssumption
  <1>4. /\ IsFiniteSet(held[i] \cup {<<o, req>>})
        /\ Cardinality(held[i] \cup {<<o, req>>}) <= Cardinality(held[i]) + 1
    <2> DEFINE S == held[i]
               x == <<o, req>>
    <2> HIDE DEF S, x
    <2>1. IsFiniteSet(S) /\ Cardinality(S) \in Nat
      BY <1>3 DEF S
    <2>2. /\ IsFiniteSet(S \cup {x})
          /\ Cardinality(S \cup {x}) = IF x \in S THEN Cardinality(S) ELSE Cardinality(S) + 1
      BY <2>1, FS_AddElement
    <2>3. Cardinality(S \cup {x}) <= Cardinality(S) + 1
      BY <2>1, <2>2
    <2> QED BY <2>2, <2>3 DEF S, x
  <1>5. Cardinality(held[i] \cup {<<o, req>>}) \in Nat
    BY <1>4, FS_CardinalityType
  <1>6. HoldsFew(i)'
    BY <1>1, <1>3, <1>4, <1>5, CacheAssumption DEF HoldsFew, Busy, CacheAssumption
  <1>7. \A j \in Instances \ {i} : HoldsFew(j)'
    BY <1>2 DEF HoldInv, HoldsFew, Busy
  <1> QED BY <1>6, <1>7 DEF HoldInv

LEMMA HoldStep ==
    ASSUME IInv, HoldInv, [Next]_vars
    PROVE  HoldInv'
  <1> USE DEF IInv
  <1>1. ASSUME UNCHANGED <<held, pending>> PROVE HoldInv'
    BY <1>1 DEF HoldInv, HoldsFew, Busy
  <1>2. ASSUME NEW i \in Instances, Lookup(i) PROVE HoldInv'
    <2>1. pending[i] = None /\ Cardinality(held[i]) < HoldMax
      BY <1>2 DEF Lookup
    <2>2. PICK req \in Requests :
            \/ /\ Upgrades(KeyOf(req)) /\ Give(i, cache[KeyOf(req)], req)
               /\ UNCHANGED pending
            \/ pending' = [pending EXCEPT ![i] = req] /\ UNCHANGED held
      BY <1>2 DEF Lookup
    <2>3. CASE UNCHANGED pending
      <3>1. cache[KeyOf(req)] \in Objects \/ UNCHANGED held
        BY <2>2, KeyIsPrepared DEF Upgrades, TypeOK
      <3>2. CASE Give(i, cache[KeyOf(req)], req) /\ cache[KeyOf(req)] \in Objects
        BY <2>1, <2>3, <3>2, GiveKeepsHold
      <3>3. CASE UNCHANGED held
        BY <1>1, <2>3, <3>3
      <3> QED BY <1>1, <2>2, <2>3, <3>1, <3>2, <3>3
    <2>4. CASE pending' = [pending EXCEPT ![i] = req] /\ UNCHANGED held
      <3>1. Cardinality(held[i]) \in Nat
        BY FS_CardinalityType DEF HoldInv, HoldsFew
      <3>2. HoldsFew(i)'
        BY <2>1, <2>4, <3>1, CacheAssumption DEF HoldInv, HoldsFew, Busy, CacheAssumption
      <3>3. \A j \in Instances \ {i} : HoldsFew(j)'
        BY <2>4 DEF HoldInv, HoldsFew, Busy, TypeOK
      <3> QED BY <3>2, <3>3 DEF HoldInv
    <2> QED BY <2>2, <2>3, <2>4
  <1>3. ASSUME NEW i \in Instances, ParseFails(i) PROVE HoldInv'
    <2>1. \A j \in Instances : /\ Cardinality(held[j]) \in Nat /\ held'[j] = held[j]
                              /\ Busy(j)' \in 0..Busy(j)
      BY <1>3, FS_CardinalityType DEF ParseFails, HoldInv, HoldsFew, Busy, TypeOK
    <2>2. \A j \in Instances : Busy(j) \in 0..1
      BY DEF Busy
    <2> QED BY <2>1, <2>2, CacheAssumption DEF HoldInv, HoldsFew, CacheAssumption
  <1>4. ASSUME NEW i \in Instances, Converge(i) PROVE HoldInv'
    <2>1. /\ pending[i] \in Requests /\ pending[i] # None
          /\ Upgrades(KeyOf(pending[i])) /\ Give(i, cache[KeyOf(pending[i])], pending[i])
          /\ pending' = [pending EXCEPT ![i] = None]
      BY <1>4 DEF Converge, TypeOK
    <2>2. cache[KeyOf(pending[i])] \in Objects
      BY <2>1, KeyIsPrepared DEF Upgrades, TypeOK
    <2> QED BY <2>1, <2>2, GiveKeepsHold
  <1>5. ASSUME NEW i \in Instances, Insert(i) PROVE HoldInv'
    <2>1. /\ pending[i] \in Requests /\ pending[i] # None
          /\ Give(i, NewObject, pending[i]) /\ NewObject \in Objects
          /\ pending' = [pending EXCEPT ![i] = None]
      BY <1>5 DEF Insert, TypeOK, NewObject
    <2> QED BY <2>1, GiveKeepsHold
  <1>6. ASSUME NEW i \in Instances, Release(i) PROVE HoldInv'
    <2>1. PICK h \in held[i] : held' = [held EXCEPT ![i] = held[i] \ {h}]
      BY <1>6 DEF Release
    <2>2. \A j \in Instances : held'[j] \subseteq held[j] /\ Busy(j)' = Busy(j)
      BY <1>6, <2>1 DEF Release, Busy, TypeOK
    <2>3. ASSUME NEW j \in Instances PROVE HoldsFew(j)'
      <3>1. IsFiniteSet(held[j]) /\ Cardinality(held[j]) \in Nat
        BY FS_CardinalityType DEF HoldInv, HoldsFew
      <3>2. IsFiniteSet(held'[j]) /\ Cardinality(held'[j]) <= Cardinality(held[j])
        BY <2>2, <3>1, FS_Subset
      <3>3. Cardinality(held'[j]) \in Nat /\ Busy(j) \in 0..1
        BY <3>2, FS_CardinalityType DEF Busy
      <3> QED BY <2>2, <3>1, <3>2, <3>3, CacheAssumption DEF HoldInv, HoldsFew, CacheAssumption
    <2> QED BY <2>3 DEF HoldInv
  <1>7. CASE Reap \/ UNCHANGED vars
    BY <1>1, <1>7 DEF Reap, vars
  <1> QED BY <1>2, <1>3, <1>4, <1>5, <1>6, <1>7 DEF Next

\* An insertion adds one entry to one of the maps, and either leaves it within the
\* floor or sweeps it down to what is alive.
LEMMA InsertBounds ==
    ASSUME IInv, IInv', HoldInv', EntriesFinite, ResidueBounded,
           NEW i \in Instances, Insert(i)
    PROVE  EntriesFinite' /\ ResidueBounded'
  <1> DEFINE req == pending[i]
             k   == KeyOf(req)
             o   == NewObject
             c   == [cache EXCEPT ![k] = o]
  <1> USE DEF IInv
  <1>1. req \in Requests /\ k \in Keys /\ o \in Objects
    BY KeyIsPrepared DEF TypeOK, Insert, NewObject
  <1>2. cache' = MaybeReap(c, MapOf(k), o) /\ Give(i, o, req)
    BY DEF Insert
  <1>3. c \in [Keys -> Objects \cup {None}] /\ \A q \in Keys : c[q] = IF q = k THEN o ELSE cache[q]
    BY <1>1 DEF TypeOK
  <1>4. k \in MapOf(k) /\ MapOf(k) \in {NamKeys, Keys \ NamKeys} /\ MapOf(k) \subseteq Keys
    BY <1>1 DEF MapOf, NamKeys, Keys, Requests
  <1> HIDE DEF c, k, o
  <1>5. ASSUME NEW map \in {NamKeys, Keys \ NamKeys}, map # MapOf(k)
        PROVE  Entries(map, cache)' = Entries(map, cache)
    <2>1. map \cap MapOf(k) = {} /\ map \subseteq Keys
      BY <1>5 DEF MapOf, NamKeys, Keys, Requests
    <2>2. \A q \in map : cache'[q] = cache[q]
      BY <1>2, <1>3, <1>4, <2>1 DEF MaybeReap, Retained
    <2> QED BY <2>2 DEF Entries
  <1>6. IsFiniteSet(Entries(MapOf(k), c))
    <2>1. Entries(MapOf(k), c) \subseteq Entries(MapOf(k), cache) \cup {k}
      BY <1>3, <1>4 DEF Entries
    <2>2. IsFiniteSet(Entries(MapOf(k), cache) \cup {k})
      BY <1>4, FS_AddElement DEF EntriesFinite
    <2> QED BY <2>1, <2>2, FS_Subset
  <1>7. CASE Cardinality(Entries(MapOf(k), c)) > ReapFloor
    <2> DEFINE S == Entries(MapOf(k), cache')
    <2>1. cache' = Retained(c, MapOf(k), o)
      BY <1>2, <1>7 DEF MaybeReap
    <2>2. \A q \in S : q \in Keys /\ cache'[q] = c[q] /\ (c[q] = o \/ Live(c[q])) /\ cache'[q] # None
      BY <1>4, <2>1 DEF Entries, Retained
    <2>3. \A j \in Instances : held[j] \subseteq held'[j]
      BY <1>2 DEF Give, TypeOK
    <2>4. <<o, req>> \in held'[i]
      BY <1>2 DEF Give, TypeOK
    <2>5. ASSUME NEW q \in S PROVE \E j \in Instances : \E h \in held'[j] : q = KeyOf(h[2])
      <3>1. PICK j \in Instances : \E h \in held'[j] : h[1] = cache'[q]
        BY <2>2, <2>3, <2>4 DEF Live
      <3>2. PICK h \in held'[j] : h[1] = cache'[q]
        BY <3>1
      <3>3. q \in Keys /\ Upgrades(q)'
        BY <2>2, <3>2 DEF Upgrades, Live
      <3>4. prepared'[h[1]] = q
        BY <3>2, <3>3 DEF EntriesMatch
      <3>5. prepared'[h[1]] = Prepared(h[2]) /\ h[2] \in Requests
        BY <3>2 DEF FitsItsAsker, TypeOK
      <3> QED BY <3>4, <3>5, KeyIsPrepared
    <2>6. \A j \in Instances : IsFiniteSet(held'[j]) /\ Cardinality(held'[j]) <= HoldMax
      <3> TAKE j \in Instances
      <3>1. IsFiniteSet(held'[j]) /\ Cardinality(held'[j]) + Busy(j)' <= HoldMax /\ Busy(j)' \in 0..1
        BY DEF HoldInv, HoldsFew, Busy
      <3>2. Cardinality(held'[j]) \in Nat
        BY <3>1, FS_CardinalityType
      <3> QED BY <3>1, <3>2, CacheAssumption DEF CacheAssumption
    <2> HIDE DEF S
    <2>7. IsFiniteSet(S) /\ Cardinality(S) <= HoldMax * Cardinality(Instances)
      BY <2>5, <2>6, HeldKeysFew
    <2>8. Entries(MapOf(k), cache') = S
      BY DEF S
    <2> QED BY <1>4, <1>5, <2>7, <2>8 DEF EntriesFinite, ResidueBounded, Entries, MapOf, NamKeys, Keys
  <1>8. CASE ~(Cardinality(Entries(MapOf(k), c)) > ReapFloor)
    <2>1. cache' = c
      BY <1>2, <1>8 DEF MaybeReap
    <2>2. Cardinality(Entries(MapOf(k), c)) <= ReapFloor
      BY <1>6, <1>8, FS_CardinalityType, CacheAssumption DEF CacheAssumption
    <2> QED BY <1>4, <1>5, <1>6, <2>1, <2>2 DEF EntriesFinite, ResidueBounded
  <1> QED BY <1>7, <1>8

LEMMA SizeStep ==
    ASSUME IInv, IInv', HoldInv', EntriesFinite, ResidueBounded, [Next]_vars
    PROVE  EntriesFinite' /\ ResidueBounded'
  <1>1. ASSUME UNCHANGED cache PROVE EntriesFinite' /\ ResidueBounded'
    BY <1>1 DEF EntriesFinite, ResidueBounded
  <1>2. CASE Reap
    <2>1. \A q \in Keys : cache'[q] \in {cache[q], None}
      BY <1>2, SweepKeepsLive DEF Reap, IInv, TypeOK
    <2>2. ASSUME NEW map \in {NamKeys, Keys \ NamKeys}
          PROVE  /\ IsFiniteSet(Entries(map, cache'))
                 /\ Cardinality(Entries(map, cache')) <= Cardinality(Entries(map, cache))
                 /\ Cardinality(Entries(map, cache')) \in Nat
                 /\ Cardinality(Entries(map, cache)) \in Nat
      <3>1. Entries(map, cache') \subseteq Entries(map, cache)
        BY <2>1 DEF Entries, NamKeys, Keys, Requests
      <3> QED BY <3>1, FS_Subset, FS_CardinalityType DEF EntriesFinite
    <2>3. HoldMax * Cardinality(Instances) \in Nat /\ ReapFloor \in Nat
      BY CacheAssumption, FS_CardinalityType DEF CacheAssumption
    <2> DEFINE most == HoldMax * Cardinality(Instances)
    <2> HIDE DEF most
    <2>4. ASSUME NEW map \in {NamKeys, Keys \ NamKeys}
          PROVE  Cardinality(Entries(map, cache')) <= ReapFloor
                 \/ Cardinality(Entries(map, cache')) <= most
      <3>1. most \in Nat
        BY <2>3 DEF most
      <3>2. Cardinality(Entries(map, cache)) <= ReapFloor
            \/ Cardinality(Entries(map, cache)) <= most
        BY DEF ResidueBounded, most
      <3> QED BY <2>2, <2>3, <3>1, <3>2
    <2> QED BY <2>2, <2>4 DEF EntriesFinite, ResidueBounded, most
  <1>3. ASSUME NEW i \in Instances,
               Lookup(i) \/ ParseFails(i) \/ Converge(i) \/ Release(i)
        PROVE  UNCHANGED cache
    BY <1>3 DEF Lookup, ParseFails, Converge, Release
  <1> QED BY <1>1, <1>2, <1>3, InsertBounds DEF Next, vars

\* NFR-PERF-070, for any number of instances and files: a map of the cache holds no
\* more entries than the floor of maybe_reap, or than the instances can hold objects
\* between them, however long the session; nothing but the miss ever sweeps.
THEOREM DeadEntriesBounded == Spec => []ResidueBounded
  <1>1. Init => HoldInv /\ EntriesFinite /\ ResidueBounded
    <2> SUFFICES ASSUME Init PROVE HoldInv /\ EntriesFinite /\ ResidueBounded
      OBVIOUS
    <2>1. \A i \in Instances : held[i] = {} /\ pending[i] = None
      BY DEF Init
    <2>2. \A map \in {NamKeys, Keys \ NamKeys} : Entries(map, cache) = {}
      BY DEF Init, Entries, NamKeys, Keys, Requests
    <2>3. IsFiniteSet({}) /\ Cardinality({}) = 0 /\ HoldMax \in Nat /\ ReapFloor \in Nat
      BY FS_EmptySet, CacheAssumption DEF CacheAssumption
    <2>4. HoldInv
      BY <2>1, <2>3 DEF HoldInv, HoldsFew, Busy
    <2>5. EntriesFinite
      BY <2>2, <2>3 DEF EntriesFinite
    <2>6. ResidueBounded
      <3>1. \A map \in {NamKeys, Keys \ NamKeys} : Cardinality(Entries(map, cache)) = 0
        BY <2>2, <2>3, Zenon
      <3> QED BY <2>3, <3>1 DEF ResidueBounded
    <2> QED BY <2>4, <2>5, <2>6
  <1>2. IInv /\ IInv' /\ HoldInv /\ EntriesFinite /\ ResidueBounded /\ [Next]_vars
          => HoldInv' /\ EntriesFinite' /\ ResidueBounded'
    BY HoldStep, SizeStep
  <1> QED BY <1>1, <1>2, Inductive, PTL DEF Spec

-----------------------------------------------------------------------------
(* The pool.                                                               *)

Pool == INSTANCE ThreadPool

PoolTyped ==
  /\ queue \in Seq(Jobs)
  /\ wpc \in [Pool!Workers -> {"lock", "wait", "run", "exited"}]
  /\ handles \subseteq Pool!Workers
  /\ spc \in [Pool!Threads -> {"out", "notify", "take", "join", "await", "returned"}]
  /\ joining \in [Pool!Threads -> SUBSET Pool!Workers]
  /\ taker \in Pool!Threads \union {None}
  /\ shutdown \in BOOLEAN /\ joined \in BOOLEAN

\* A worker exits when the queue is empty and stays so.
ExitedOK == \A w \in Pool!Workers : wpc[w] = "exited" => queue = <<>> /\ shutdown

\* One thread takes all the handles and only it joins.
TakerOK ==
  /\ IF taker = None THEN handles = Pool!Workers ELSE handles = {}
  /\ \A t \in Pool!Threads : spc[t] = "join" => t = taker
  /\ taker # None =>
       \A w \in Pool!Workers : w \in joining[taker] \/ w = taker \/ wpc[w] = "exited"

JoinedOK ==
  /\ joined => /\ taker # None
               /\ \A w \in Pool!Workers : w = taker \/ wpc[w] = "exited"
  /\ \A c \in Callers : spc[c] = "returned" => joined

\* A job that is queued is in the queue, one that is running has a worker.
JobsOK ==
  /\ job \in [Pool!Workers -> Jobs \union {None}]
  /\ job_state \in [Jobs -> {"new", "queued", "running", "done", "dropped"}]
  /\ \A j \in Jobs : job_state[j] = "queued" =>
                      \E i \in 1..Len(queue) : queue[i] = j
  /\ \A j \in Jobs : job_state[j] = "running" =>
                      \E w \in Pool!Workers : wpc[w] = "run" /\ job[w] = j

PoolInv == PoolTyped /\ ExitedOK /\ TakerOK /\ JoinedOK /\ JobsOK

LEMMA SomeWorker == 1 \in Pool!Workers
BY DEF Pool!Workers, Pool!PoolSize

\* The workers and the threads are those of the parameters' own module.
LEMMA SameThreads == Pool!Workers = Workers /\ Pool!Threads = Threads
BY DEF Pool!Workers, Workers, Pool!Threads, Threads, Pool!PoolSize, PoolSize

LEMMA CallersAreNotWorkers ==
  ASSUME PoolAssumption
  PROVE  Callers \intersect Pool!Workers = {} /\ None \notin Jobs \union Pool!Threads
BY SameThreads DEF PoolAssumption, Workers

LEMMA InitPool == ASSUME PoolAssumption, Pool!Init PROVE PoolInv
<1>1. PoolTyped
  <2>1. queue \in Seq(Jobs)
    BY DEF Pool!Init
  <2>2. /\ wpc \in [Pool!Workers -> {"lock", "wait", "run", "exited"}]
        /\ spc \in [Pool!Threads -> {"out", "notify", "take", "join", "await", "returned"}]
    BY DEF Pool!Init
  <2>3. handles \subseteq Pool!Workers /\ joining \in [Pool!Threads -> SUBSET Pool!Workers]
    BY DEF Pool!Init
  <2>4. taker \in Pool!Threads \union {None} /\ shutdown \in BOOLEAN /\ joined \in BOOLEAN
    BY DEF Pool!Init
  <2> QED
    BY <2>1, <2>2, <2>3, <2>4 DEF PoolTyped
<1>2. ExitedOK /\ TakerOK /\ JoinedOK
  <2>1. \A t \in Pool!Threads : spc[t] = "out"
    BY DEF Pool!Init
  <2> QED
    BY <2>1 DEF Pool!Init, ExitedOK, TakerOK, JoinedOK, Pool!Threads
<1>3. JobsOK
  BY DEF Pool!Init, JobsOK
<1> QED
  BY <1>1, <1>2, <1>3 DEF PoolInv

LEMMA PoolTypedStep ==
  ASSUME PoolAssumption, PoolTyped, [Pool!Next]_(Pool!vars) PROVE PoolTyped'
<1> USE DEF PoolTyped, Pool!pool, Pool!loop, Pool!ending
<1>1. ASSUME NEW j \in Jobs, Pool!Spawn(j) PROVE PoolTyped'
  BY <1>1 DEF Pool!Spawn
<1>2. CASE Pool!NotifyOne
  BY <1>2 DEF Pool!NotifyOne
<1>3. ASSUME NEW w \in Pool!Workers, Pool!WorkerStep(w) PROVE PoolTyped'
  <2>1. CASE Pool!TakeJob(w)
    BY <2>1 DEF Pool!TakeJob
  <2>2. CASE Pool!Wait(w) \/ Pool!Exit(w) \/ Pool!Finish(w)
    BY <2>2 DEF Pool!Wait, Pool!Exit, Pool!Finish
  <2> QED
    BY <1>3, <2>1, <2>2 DEF Pool!WorkerStep
<1>4. ASSUME NEW w \in Pool!Workers, Pool!SpuriousWake(w) PROVE PoolTyped'
  BY <1>4 DEF Pool!SpuriousWake
<1>5. ASSUME NEW t \in Pool!Threads, Pool!SetFlag(t) PROVE PoolTyped'
  BY <1>5 DEF Pool!SetFlag
<1>6. ASSUME NEW t \in Pool!Threads, Pool!ShutdownStep(t) PROVE PoolTyped'
  BY <1>6 DEF Pool!ShutdownStep, Pool!NotifyAll, Pool!TakeHandles, Pool!FindNone, Pool!Join,
              Pool!PublishJoined,
              Pool!Awaited
<1>7. CASE UNCHANGED Pool!vars
  BY <1>7 DEF Pool!vars
<1> QED
  BY <1>1, <1>2, <1>3, <1>4, <1>5, <1>6, <1>7 DEF Pool!Next

\* No step but Exit adds an exited worker, none takes one away, and once a worker
\* has exited no job enters the queue.
LEMMA ExitedStep ==
  ASSUME PoolAssumption, PoolTyped, ExitedOK, [Pool!Next]_(Pool!vars)
  PROVE  /\ ExitedOK'
         /\ \A w \in Pool!Workers : wpc[w] = "exited" => wpc'[w] = "exited"
<1> USE DEF PoolTyped, ExitedOK, Pool!pool, Pool!loop, Pool!ending
<1>1. ASSUME NEW j \in Jobs, Pool!Spawn(j)
      PROVE  ExitedOK' /\ \A w \in Pool!Workers : wpc[w] = "exited" => wpc'[w] = "exited"
  BY <1>1 DEF Pool!Spawn
<1>2. CASE Pool!NotifyOne
  BY <1>2 DEF Pool!NotifyOne
<1>3. ASSUME NEW w \in Pool!Workers, Pool!WorkerStep(w) \/ Pool!SpuriousWake(w)
      PROVE  ExitedOK' /\ \A v \in Pool!Workers : wpc[v] = "exited" => wpc'[v] = "exited"
  BY <1>3 DEF Pool!WorkerStep, Pool!TakeJob, Pool!Wait, Pool!Exit, Pool!Finish,
              Pool!SpuriousWake
<1>4. ASSUME NEW t \in Pool!Threads, Pool!SetFlag(t) \/ Pool!ShutdownStep(t)
      PROVE  ExitedOK' /\ \A w \in Pool!Workers : wpc[w] = "exited" => wpc'[w] = "exited"
  BY <1>4 DEF Pool!SetFlag, Pool!ShutdownStep, Pool!NotifyAll, Pool!TakeHandles,
              Pool!FindNone, Pool!Join,
              Pool!PublishJoined, Pool!Awaited
<1>5. CASE UNCHANGED Pool!vars
  BY <1>5 DEF Pool!vars
<1> QED
  BY <1>1, <1>2, <1>3, <1>4, <1>5 DEF Pool!Next

LEMMA PoolJobsStep ==
  ASSUME PoolAssumption, PoolTyped, JobsOK, [Pool!Next]_(Pool!vars) PROVE JobsOK'
<1> USE DEF PoolTyped, Pool!pool, Pool!loop, Pool!ending
<1>1. ASSUME NEW j \in Jobs, Pool!Spawn(j) PROVE JobsOK'
  <2>1. CASE shutdown
    BY <1>1, <2>1 DEF Pool!Spawn, JobsOK
  <2>2. CASE ~shutdown
    <3>1. /\ queue' = Append(queue, j)
          /\ job_state' = [job_state EXCEPT ![j] = "queued"]
          /\ UNCHANGED <<wpc, job>>
      BY <1>1, <2>2 DEF Pool!Spawn
    <3>2. /\ queue'[Len(queue) + 1] = j /\ Len(queue') = Len(queue) + 1
          /\ \A i \in 1..Len(queue) : queue'[i] = queue[i]
      BY <3>1
    <3>3. Len(queue) \in Nat
      OBVIOUS
    <3>4. ASSUME NEW k \in Jobs, job_state'[k] = "queued"
          PROVE  \E i \in 1..Len(queue') : queue'[i] = k
      BY <3>1, <3>2, <3>3, <3>4 DEF JobsOK
    <3> QED
      BY <3>1, <3>4 DEF JobsOK
  <2> QED
    BY <2>1, <2>2
<1>2. CASE Pool!NotifyOne
  BY <1>2 DEF Pool!NotifyOne, JobsOK
<1>3. ASSUME NEW w \in Pool!Workers, Pool!TakeJob(w) PROVE JobsOK'
  <2>1. /\ queue # <<>> /\ queue' = Tail(queue) /\ wpc[w] = "lock"
        /\ job' = [job EXCEPT ![w] = Head(queue)]
        /\ job_state' = [job_state EXCEPT ![Head(queue)] = "running"]
        /\ wpc' = [wpc EXCEPT ![w] = "run"]
    BY <1>3 DEF Pool!TakeJob
  <2>2. Head(queue) \in Jobs /\ Head(queue) = queue[1]
    BY <2>1
  <2>3. ASSUME NEW k \in Jobs, job_state'[k] = "queued"
        PROVE  \E i \in 1..Len(queue') : queue'[i] = k
    <3>1. k # Head(queue) /\ job_state[k] = "queued"
      BY <2>1, <2>2, <2>3 DEF JobsOK
    <3>2. PICK i \in 1..Len(queue) : queue[i] = k
      BY <3>1 DEF JobsOK
    <3>3. i # 1 /\ Len(queue) \in Nat
      BY <2>2, <3>1, <3>2
    <3>4. i - 1 \in 1..Len(queue') /\ queue'[i - 1] = k
      BY <2>1, <3>2, <3>3
    <3> QED
      BY <3>4
  <2>4. ASSUME NEW k \in Jobs, job_state'[k] = "running"
        PROVE  \E v \in Pool!Workers : wpc'[v] = "run" /\ job'[v] = k
    BY <2>1, <2>2, <2>4 DEF JobsOK
  <2> QED
    BY <2>1, <2>3, <2>4 DEF JobsOK
<1>4. ASSUME NEW w \in Pool!Workers, Pool!Finish(w) PROVE JobsOK'
  <2>1. /\ UNCHANGED queue
        /\ job_state' = [job_state EXCEPT ![job[w]] = "done"]
        /\ job' = [job EXCEPT ![w] = None]
        /\ wpc' = [wpc EXCEPT ![w] = "lock"]
    BY <1>4 DEF Pool!Finish
  <2>2. ASSUME NEW k \in Jobs, job_state'[k] = "running"
        PROVE  \E v \in Pool!Workers : wpc'[v] = "run" /\ job'[v] = k
    <3>1. k # job[w] /\ job_state[k] = "running"
      BY <2>1, <2>2 DEF JobsOK
    <3>2. PICK v \in Pool!Workers : wpc[v] = "run" /\ job[v] = k
      BY <3>1 DEF JobsOK
    <3> QED
      BY <2>1, <3>1, <3>2 DEF JobsOK
  <2>3. \A k \in Jobs : job_state'[k] = "queued" => job_state[k] = "queued"
    BY <2>1 DEF JobsOK
  <2>4. /\ job' \in [Pool!Workers -> Jobs \union {None}]
        /\ job_state' \in [Jobs -> {"new", "queued", "running", "done", "dropped"}]
    BY <2>1 DEF JobsOK
  <2> QED
    BY <2>1, <2>2, <2>3, <2>4 DEF JobsOK
<1>5. ASSUME NEW w \in Pool!Workers, Pool!Wait(w) \/ Pool!Exit(w) \/ Pool!SpuriousWake(w) PROVE JobsOK'
  BY <1>5 DEF Pool!Wait, Pool!Exit, Pool!SpuriousWake, JobsOK
<1>6. ASSUME NEW t \in Pool!Threads, Pool!SetFlag(t) \/ Pool!ShutdownStep(t) PROVE JobsOK'
  BY <1>6 DEF Pool!SetFlag, Pool!ShutdownStep, Pool!NotifyAll, Pool!TakeHandles,
              Pool!FindNone, Pool!Join,
              Pool!PublishJoined, Pool!Awaited, JobsOK
<1>7. CASE UNCHANGED Pool!vars
  BY <1>7 DEF Pool!vars, JobsOK
<1> QED
  BY <1>1, <1>2, <1>3, <1>4, <1>5, <1>6, <1>7 DEF Pool!Next, Pool!WorkerStep

LEMMA ShutdownStepOK ==
  ASSUME PoolAssumption, PoolInv, NEW t \in Pool!Threads, Pool!SetFlag(t) \/ Pool!ShutdownStep(t),
         \A w \in Pool!Workers : wpc[w] = "exited" => wpc'[w] = "exited"
  PROVE  TakerOK' /\ JoinedOK'
<1> USE DEF Pool!pool, Pool!loop, Pool!ending
<1>0. Callers \subseteq Pool!Threads /\ Pool!Workers \subseteq Pool!Threads
  BY DEF Pool!Threads
<1>1. CASE Pool!SetFlag(t)
  BY <1>0, <1>1 DEF Pool!SetFlag, PoolInv, PoolTyped, TakerOK, JoinedOK
<1>2. CASE Pool!NotifyAll(t)
  BY <1>0, <1>2 DEF Pool!NotifyAll, PoolInv, PoolTyped, TakerOK, JoinedOK
<1>3. CASE Pool!TakeHandles(t)
  <2>1. taker = None /\ taker' = t /\ t # None
    BY <1>3, CallersAreNotWorkers DEF Pool!TakeHandles, PoolInv, TakerOK
  <2>2. ~joined /\ joined' = joined
    BY <1>3, <2>1 DEF Pool!TakeHandles, PoolInv, JoinedOK
  <2>3. \A u \in Pool!Threads : spc[u] # "join"
    BY <2>1, CallersAreNotWorkers DEF PoolInv, TakerOK
  <2>4. handles = Pool!Workers
    BY <2>1, CallersAreNotWorkers DEF PoolInv, TakerOK
  <2>5. joining'[t] = Pool!Workers /\ handles' = {}
    BY <1>3, <2>4 DEF Pool!TakeHandles, PoolInv, PoolTyped
  <2>6. \A u \in Pool!Threads : spc'[u] = IF u = t THEN "join" ELSE spc[u]
    BY <1>3 DEF Pool!TakeHandles, PoolInv, PoolTyped
  <2>7. TakerOK'
    BY <2>1, <2>3, <2>5, <2>6 DEF TakerOK
  <2>8. JoinedOK'
    BY <1>0, <2>1, <2>2, <2>6 DEF JoinedOK, PoolInv
  <2> QED
    BY <2>7, <2>8
<1>4. CASE Pool!FindNone(t)
  BY <1>0, <1>4, CallersAreNotWorkers DEF Pool!FindNone, PoolInv, PoolTyped, TakerOK, JoinedOK
<1>5. CASE Pool!Join(t)
  <2>1. t = taker
    BY <1>5 DEF Pool!Join, PoolInv, TakerOK
  <2>2. UNCHANGED <<handles, spc, joined, taker, wpc>>
    BY <1>5 DEF Pool!Join
  <2>3. \A w \in Pool!Workers : w \in joining[t] => w \in joining'[t] \/ w = t \/ wpc[w] = "exited"
    BY <1>5 DEF Pool!Join, PoolInv, PoolTyped
  <2> QED
    BY <2>1, <2>2, <2>3 DEF PoolInv, TakerOK, JoinedOK
<1>6. CASE Pool!PublishJoined(t)
  <2>1. t = taker /\ t # None /\ joining[t] = {}
    BY <1>6, CallersAreNotWorkers DEF Pool!PublishJoined, PoolInv, TakerOK
  <2> QED
    BY <1>0, <1>6, <2>1 DEF Pool!PublishJoined, PoolInv, PoolTyped, TakerOK, JoinedOK
<1>7. CASE Pool!Awaited(t)
  BY <1>0, <1>7 DEF Pool!Awaited, PoolInv, PoolTyped, TakerOK, JoinedOK
<1> QED
  BY <1>1, <1>2, <1>3, <1>4, <1>5, <1>6, <1>7 DEF Pool!ShutdownStep

LEMMA PoolInductive == Pool!Spec => []PoolInv
<1>1. PoolInv /\ [Pool!Next]_(Pool!vars) => PoolInv'
  <2> SUFFICES ASSUME PoolInv, [Pool!Next]_(Pool!vars) PROVE PoolInv'
    OBVIOUS
  <2>1. PoolTyped'
    BY PoolAssumption, PoolTypedStep DEF PoolInv
  <2>2. ExitedOK' /\ \A w \in Pool!Workers : wpc[w] = "exited" => wpc'[w] = "exited"
    BY PoolAssumption, ExitedStep DEF PoolInv
  <2>3. TakerOK' /\ JoinedOK'
    <3>1. ASSUME NEW t \in Pool!Threads, Pool!SetFlag(t) \/ Pool!ShutdownStep(t)
          PROVE  TakerOK' /\ JoinedOK'
      BY <2>2, <3>1, PoolAssumption, ShutdownStepOK
    <3>2. CASE ~\E t \in Pool!Threads : Pool!SetFlag(t) \/ Pool!ShutdownStep(t)
      <4>1. UNCHANGED <<handles, joining, joined, taker>>
        BY <3>2 DEF Pool!Next, Pool!Spawn, Pool!NotifyOne, Pool!WorkerStep, Pool!TakeJob,
                    Pool!Wait, Pool!Exit, Pool!Finish,
                    Pool!SpuriousWake, Pool!vars, Pool!ending
      <4>2. /\ \A u \in Pool!Threads : spc'[u] = "join" => spc[u] = "join"
            /\ \A c \in Callers : spc'[c] = "returned" => spc[c] = "returned"
        BY <3>2 DEF Pool!Next, Pool!Spawn, Pool!NotifyOne, Pool!WorkerStep, Pool!TakeJob,
                    Pool!Wait, Pool!Exit, Pool!Finish,
                    Pool!SpuriousWake, Pool!vars, Pool!ending, PoolInv, PoolTyped, Pool!Threads
      <4> QED
        BY <2>2, <4>1, <4>2 DEF PoolInv, TakerOK, JoinedOK
    <3> QED
      BY <3>1, <3>2
  <2>4. JobsOK'
    BY PoolAssumption, PoolJobsStep DEF PoolInv
  <2> QED
    BY <2>1, <2>2, <2>3, <2>4 DEF PoolInv
<1> QED
  BY <1>1, InitPool, PoolAssumption, PTL DEF Pool!Spec

\* A worker thread that has ended leaves no job behind, and none is accepted after.
THEOREM NothingLeftBehind == Pool!Spec => []Pool!ExitedMeansEmpty
<1>1. PoolInv => Pool!ExitedMeansEmpty
  BY DEF PoolInv, ExitedOK, Pool!ExitedMeansEmpty
<1> QED
  BY <1>1, PoolInductive, PTL

\* The contract of shutdown, for every pool: a caller outside it gets back control
\* only when every worker but a re-entrant joiner has ended, and, if it was such a
\* caller that joined them, when no accepted job is left to run.
THEOREM ShutdownStops == Pool!Spec => []ReturnedMeansStopped
<1>1. PoolInv => ReturnedMeansStopped
  <2> SUFFICES ASSUME PoolInv, NEW c \in Callers, spc[c] = "returned"
               PROVE  /\ \A w \in Pool!Workers : wpc[w] = "exited" \/ w = taker
                      /\ taker \in Callers =>
                           \A j \in Jobs : job_state[j] \notin {"queued", "running"}
    BY SameThreads DEF ReturnedMeansStopped
  <2>1. \A w \in Pool!Workers : wpc[w] = "exited" \/ w = taker
    BY DEF PoolInv, JoinedOK
  <2>2. ASSUME taker \in Callers
        PROVE  \A w \in Pool!Workers : wpc[w] = "exited"
    BY <2>1, <2>2, PoolAssumption, CallersAreNotWorkers
  <2>3. ASSUME taker \in Callers
        PROVE  queue = <<>>
    BY <2>2, <2>3, SomeWorker DEF PoolInv, ExitedOK
  <2>4. ASSUME taker \in Callers, NEW j \in Jobs
        PROVE  job_state[j] \notin {"queued", "running"}
    BY <2>2, <2>3, <2>4 DEF PoolInv, JobsOK
  <2> QED
    BY <2>1, <2>4
<1> QED
  BY <1>1, PoolInductive, PTL
-----------------------------------------------------------------------------

\* What the argument above has no use for.
PoolRest ==
  /\ notifies \in Nat
  /\ \A w \in Pool!Workers : job[w] # None <=> wpc[w] = "run"

LEMMA PoolRestStep ==
  ASSUME PoolAssumption, PoolInv, PoolRest, [Pool!Next]_(Pool!vars)
  PROVE  PoolRest'
<1>1. notifies' \in Nat
  BY DEF PoolRest, Pool!Next, Pool!Spawn, Pool!NotifyOne, Pool!WorkerStep, Pool!TakeJob,
         Pool!Wait, Pool!Exit, Pool!Finish, Pool!SpuriousWake,
         Pool!SetFlag, Pool!ShutdownStep, Pool!NotifyAll, Pool!TakeHandles, Pool!FindNone, Pool!Join, Pool!PublishJoined, Pool!Awaited,
         Pool!vars, Pool!pool
<1>2. ASSUME NEW w \in Pool!Workers, Pool!TakeJob(w) PROVE \A v \in Pool!Workers : job'[v] # None <=> wpc'[v] = "run"
  <2>1. Head(queue) \in Jobs
    BY <1>2 DEF Pool!TakeJob, PoolInv, PoolTyped
  <2>2. Head(queue) # None
    BY <2>1, CallersAreNotWorkers
  <2>3. job' = [job EXCEPT ![w] = Head(queue)] /\ wpc' = [wpc EXCEPT ![w] = "run"]
    BY <1>2 DEF Pool!TakeJob
  <2> HIDE DEF Pool!Workers
  <2> QED
    BY <2>2, <2>3 DEF PoolInv, PoolTyped, JobsOK, PoolRest
<1>3. ASSUME NEW w \in Pool!Workers, Pool!Finish(w) PROVE \A v \in Pool!Workers : job'[v] # None <=> wpc'[v] = "run"
  BY <1>3 DEF Pool!Finish, PoolInv, PoolTyped, JobsOK, PoolRest
<1>4. CASE Pool!NotifyOne
  BY <1>4 DEF Pool!NotifyOne, PoolInv, PoolTyped, PoolRest
<1>5. ASSUME NEW w \in Pool!Workers, Pool!Wait(w) \/ Pool!Exit(w) \/ Pool!SpuriousWake(w)
      PROVE  \A v \in Pool!Workers : job'[v] # None <=> wpc'[v] = "run"
  BY <1>5 DEF Pool!Wait, Pool!Exit, Pool!SpuriousWake, PoolInv, PoolTyped, PoolRest
<1>6. ASSUME NEW t \in Pool!Threads, Pool!NotifyAll(t)
      PROVE  \A v \in Pool!Workers : job'[v] # None <=> wpc'[v] = "run"
  BY <1>6 DEF Pool!NotifyAll, PoolInv, PoolTyped, PoolRest
<1>7. ASSUME UNCHANGED <<wpc, job>>
      PROVE  \A v \in Pool!Workers : job'[v] # None <=> wpc'[v] = "run"
  BY <1>7 DEF PoolRest
<1>8. \/ UNCHANGED <<wpc, job>> \/ Pool!NotifyOne
      \/ \E w \in Pool!Workers : Pool!TakeJob(w) \/ Pool!Finish(w) \/ Pool!Wait(w) \/ Pool!Exit(w) \/ Pool!SpuriousWake(w)
      \/ \E t \in Pool!Threads : Pool!NotifyAll(t)
  BY DEF Pool!Next, Pool!Spawn, Pool!WorkerStep, Pool!SetFlag, Pool!ShutdownStep,
         Pool!TakeHandles, Pool!FindNone, Pool!Join,
         Pool!PublishJoined, Pool!Awaited, Pool!vars, Pool!loop
<1> QED
  BY <1>1, <1>2, <1>3, <1>4, <1>5, <1>6, <1>7, <1>8 DEF PoolRest

\* Every variable keeps its range, and a worker has a job just when it runs one.
THEOREM PoolTypes == Pool!Spec => []Pool!TypeOK
<1>1. Pool!Init => PoolRest
  BY DEF Pool!Init, PoolRest
<1>2. PoolInv /\ PoolRest /\ [Pool!Next]_(Pool!vars) => PoolRest'
  BY PoolAssumption, PoolRestStep
<1>3. PoolInv /\ PoolRest => Pool!TypeOK
  BY DEF PoolInv, PoolTyped, JobsOK, PoolRest, Pool!TypeOK
<1> QED
  BY <1>1, <1>2, <1>3, PoolInductive, PTL DEF Pool!Spec
=============================================================================
