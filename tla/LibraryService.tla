--------------------------- MODULE LibraryService ---------------------------
(* The index document of the library and the services that share it: the    *)
(* deferred load, the scan job with its save and its publication, and the   *)
(* store that writes the document and its sidecar of favourite marks. The   *)
(* processes may crash at any step, writes may fail, and the document may   *)
(* be damaged from outside.                                                 *)
(*                                                                          *)
(* The walk itself is one step here (LibraryScan has its details): it finds *)
(* files and is blind to others, which keep the entries they had. The stamp *)
(* of a document, its modification time and length, is a number of its own  *)
(* for each write. No product code edits the marks, they are there or not.  *)
EXTENDS Integers, FiniteSets, Absence, ServiceState

CONSTANTS
    Services,       \* LibraryService values, one scan each
    Home,           \* service |-> process
    Roots,          \* service |-> the files its roots lead to
    Files,
    Overlap,        \* bound: whether others scan, or damage the document, during a scan
    MaxEdits, MaxDamage, MaxFails, MaxCrashes, MaxScans   \* bounds

Kinds  == {"good", "missing", "foreign", "malformed"}
Phases == {"load", "loading", "prior", "walk", "create", "rename", "mirror", "publish", "stamp"}
Jobs   == [phase : Phases, entries : SUBSET Files, marks : BOOLEAN, saved : BOOLEAN,
           touched : SUBSET Files]
Loadings == [who : Services \cup {None}, phase : {"read", "recover", "install"}, stamp : Nat,
             entries : SUBSET Files, marks : BOOLEAN]

ServicesAssumption ==
    /\ Home \in [Services -> Processes] /\ Roots \in [Services -> SUBSET Files]
    /\ None \notin Services \cup Files \cup Jobs \cup Loadings /\ Overlap \in BOOLEAN
    /\ {MaxEdits, MaxDamage, MaxFails, MaxCrashes, MaxScans} \subseteq Nat

VARIABLES
    edits,          \* changes to the files
    loading,        \* process |-> the load that holds the lock `loaded`
    scanning,       \* service |-> its flag
    job,            \* service |-> its scan job
    damage, fails, crashes, scans
world == <<shelf, edits>>
store == <<doc, sidecar, changed>>
spent == <<damage, fails, crashes, scans>>
vars  == <<shelf, edits, doc, sidecar, changed, shared, loading, scanning, job, damage, fails,
           crashes, scans>>

Missing   == 0          \* the stamp of a file that is not there
Unloaded  == [stamp |-> NotLoaded, entries |-> {}, marks |-> FALSE]

Init ==
    /\ shelf \in SUBSET Files /\ edits = 0
    /\ doc = [kind |-> "good", entries |-> shelf, marks |-> TRUE, stamp |-> 1]
    /\ sidecar = TRUE /\ changed = {}
    /\ shared = [p \in Processes |-> Unloaded]
    /\ loading = [p \in Processes |-> None]
    /\ scanning = [s \in Services |-> FALSE] /\ job = [s \in Services |-> None]
    /\ damage = 0 /\ fails = 0 /\ crashes = 0 /\ scans = 0

At(s, phase) == job[s] # None /\ job[s].phase = phase
Idle == \A s \in Services : job[s] = None
Goto(s, phase) == job' = [job EXCEPT ![s].phase = phase]

------------------------------------------------------------------------------
(* ensure_loaded: under the lock, the stamp first and then the document. A  *)
(* document that cannot be read is asked again for its marks, and then the  *)
(* sidecar.                                                                 *)

UpToDate(p) == shared[p].stamp = doc.stamp
BeginLoad(p, who) ==
    loading' = [loading EXCEPT ![p] = [who |-> who, phase |-> "read", stamp |-> doc.stamp,
                                       entries |-> {}, marks |-> FALSE]]
Loads(p, phase) == loading[p] # None /\ loading[p].phase = phase

\* schedule_load, by an open: a thread loads unless one does, or need not.
Open(p) ==
    /\ loading[p] = None /\ ~ UpToDate(p) /\ BeginLoad(p, None)
    /\ UNCHANGED <<world, store, shared, scanning, job, spent>>

Read(p) ==
    /\ Loads(p, "read")
    /\ loading' = IF doc.kind = "good"
          THEN [loading EXCEPT ![p].phase = "install", ![p].entries = doc.entries,
                               ![p].marks = doc.marks]
          ELSE [loading EXCEPT ![p].phase = "recover"]
    /\ UNCHANGED <<world, store, shared, scanning, job, spent>>

\* Marks a document still shows: a version or an entry this build refuses
\* leaves them readable. An empty list counts as none.
Salvaged == doc.kind \in {"good", "foreign"} /\ doc.marks
FromIndexAlone == Salvaged
Recovered == Salvaged \/ sidecar
Recover(p) ==
    /\ Loads(p, "recover")
    /\ loading' = [loading EXCEPT ![p].phase = "install", ![p].marks = Recovered]
    /\ UNCHANGED <<world, store, shared, scanning, job, spent>>

Install(p) ==
    /\ Loads(p, "install")
    /\ shared' = [shared EXCEPT ![p] = [stamp |-> loading[p].stamp, entries |-> loading[p].entries,
                                        marks |-> loading[p].marks]]
    /\ loading' = [loading EXCEPT ![p] = None]
    /\ job' = [s \in Services |-> IF s = loading[p].who THEN [job[s] EXCEPT !.phase = "prior"]
                                  ELSE job[s]]
    /\ UNCHANGED <<world, store, scanning, spent>>

------------------------------------------------------------------------------
(* The scan job.                                                            *)

StartScan(s) ==
    /\ Roots[s] # {} /\ ~ scanning[s] /\ scans < MaxScans
    /\ Overlap \/ Idle
    /\ scanning' = [scanning EXCEPT ![s] = TRUE] /\ scans' = scans + 1
    /\ job' = [job EXCEPT ![s] = [phase |-> "load", entries |-> {}, marks |-> FALSE,
                                  saved |-> FALSE, touched |-> {}]]
    /\ UNCHANGED <<world, store, shared, loading, damage, fails, crashes>>

\* A job that takes the index as it is and leaves the load to the opener.
LoadLater(s) ==
    /\ At(s, "load") /\ Goto(s, "prior")
    /\ UNCHANGED <<world, store, shared, loading, scanning, spent>>
Load(s) ==
    /\ At(s, "load") /\ loading[Home[s]] = None
    /\ IF UpToDate(Home[s]) THEN Goto(s, "prior") /\ UNCHANGED loading
       ELSE BeginLoad(Home[s], s) /\ Goto(s, "loading")
    /\ UNCHANGED <<world, store, shared, scanning, spent>>

Prior(s) ==
    /\ At(s, "prior")
    /\ job' = [job EXCEPT ![s].phase = "walk", ![s].entries = shared[Home[s]].entries,
                          ![s].marks = shared[Home[s]].marks]
    /\ UNCHANGED <<world, store, shared, loading, scanning, spent>>

\* Index::apply on a clone of the prior index.
Applied(prior, found, blind, complete) ==
    IF complete THEN (prior \cap blind) \cup found ELSE prior \cup found

Walk(s) ==
    /\ At(s, "walk")
    /\ \E blind \in SUBSET Files, complete \in BOOLEAN :
          \E found \in SUBSET ((shelf \cap Roots[s]) \ blind) :
             /\ complete => found = (shelf \cap Roots[s]) \ blind
             /\ job' = [job EXCEPT ![s].phase = "create",
                                   ![s].entries = Applied(@, found, blind, complete)]
    /\ UNCHANGED <<world, store, shared, loading, scanning, spent>>

\* A panic unwinds to the job boundary; ScanFlag's drop clears the flag.
Panic(s) ==
    /\ At(s, "walk")
    /\ job' = [job EXCEPT ![s] = None] /\ scanning' = [scanning EXCEPT ![s] = FALSE]
    /\ UNCHANGED <<world, store, shared, loading, spent>>

\* write_atomic: a staging file of this write alone, then a rename.
Create(s) ==
    /\ At(s, "create") /\ Goto(s, "rename")
    /\ UNCHANGED <<world, store, shared, loading, scanning, spent>>

NextStamp == 1 + IF doc.kind = "missing" THEN scans + damage ELSE doc.stamp

Rename(s) ==
    /\ At(s, "rename")
    /\ doc' = [kind |-> "good", entries |-> job[s].entries, marks |-> job[s].marks,
               stamp |-> NextStamp]
    /\ changed' = job[s].touched
    /\ job' = [job EXCEPT ![s].phase = "mirror", ![s].saved = TRUE]
    /\ UNCHANGED <<world, sidecar, shared, loading, scanning, spent>>

SaveFails(s) ==
    /\ At(s, "create") \/ At(s, "rename")
    /\ fails < MaxFails /\ fails' = fails + 1 /\ Goto(s, "mirror")
    /\ UNCHANGED <<world, store, shared, loading, scanning, damage, crashes, scans>>

\* The sidecar is written whichever way the index went, and may fail alone.
Mirror(s) ==
    /\ At(s, "mirror") /\ Goto(s, "publish")
    /\ \/ sidecar' = job[s].marks /\ UNCHANGED fails
       \/ fails < MaxFails /\ fails' = fails + 1 /\ UNCHANGED sidecar
    /\ UNCHANGED <<world, doc, changed, shared, loading, scanning, damage, crashes, scans>>

Publish(s) ==
    /\ At(s, "publish") /\ Goto(s, "stamp")
    /\ shared' = [shared EXCEPT ![Home[s]].entries = job[s].entries,
                                ![Home[s]].marks = job[s].marks]
    /\ UNCHANGED <<world, store, loading, scanning, spent>>

Restamp(s) ==
    /\ At(s, "stamp") /\ loading[Home[s]] = None
    /\ shared' = [shared EXCEPT ![Home[s]].stamp = IF job[s].saved THEN doc.stamp ELSE @]
    /\ job' = [job EXCEPT ![s] = None] /\ scanning' = [scanning EXCEPT ![s] = FALSE]
    /\ UNCHANGED <<world, store, loading, spent>>

------------------------------------------------------------------------------
(* Outside: the user's files, damage to the document, crashes.              *)

Touch(f) ==
    /\ edits < MaxEdits /\ edits' = edits + 1
    /\ shelf' = IF f \in shelf THEN shelf \ {f} ELSE shelf \cup {f}
    /\ changed' = changed \cup {f}
    /\ job' = [s \in Services |-> IF job[s] = None THEN None
                                  ELSE [job[s] EXCEPT !.touched = @ \cup {f}]]
    /\ UNCHANGED <<doc, sidecar, shared, loading, scanning, spent>>

Damage(kind) ==
    /\ damage < MaxDamage /\ damage' = damage + 1
    /\ Overlap \/ Idle
    /\ doc' = [doc EXCEPT !.kind = kind, !.stamp = IF kind = "missing" THEN Missing ELSE NextStamp]
    /\ UNCHANGED <<world, sidecar, changed, shared, loading, scanning, job, fails, crashes, scans>>

Crash(p) ==
    /\ crashes < MaxCrashes /\ crashes' = crashes + 1
    /\ shared' = [shared EXCEPT ![p] = Unloaded] /\ loading' = [loading EXCEPT ![p] = None]
    /\ job' = [s \in Services |-> IF Home[s] = p THEN None ELSE job[s]]
    /\ scanning' = [s \in Services |-> scanning[s] /\ Home[s] # p]
    /\ UNCHANGED <<world, store, damage, fails, scans>>

Next ==
    \/ \E p \in Processes : Open(p) \/ Read(p) \/ Recover(p) \/ Install(p) \/ Crash(p)
    \/ \E s \in Services :
          \/ StartScan(s) \/ Load(s) \/ Prior(s) \/ Walk(s) \/ Panic(s)
          \/ Create(s) \/ Rename(s) \/ SaveFails(s) \/ Mirror(s) \/ Publish(s) \/ Restamp(s)
    \/ \E f \in Files : Touch(f)
    \/ \E kind \in {"missing", "foreign", "malformed"} : Damage(kind)
Spec == Init /\ [][Next]_vars


\* Every variable has its type.
TypeOK ==
    /\ shelf \subseteq Files /\ changed \subseteq Files /\ sidecar \in BOOLEAN
    /\ doc \in [kind : Kinds, entries : SUBSET Files, marks : BOOLEAN, stamp : Nat]
    /\ shared \in [Processes -> [stamp : Nat \cup {NotLoaded}, entries : SUBSET Files,
                                 marks : BOOLEAN]]
    /\ loading \in [Processes -> Loadings \cup {None}]
    /\ job \in [Services -> Jobs \cup {None}] /\ scanning \in [Services -> BOOLEAN]
    /\ {edits, damage, fails, crashes, scans} \subseteq Nat
=============================================================================
