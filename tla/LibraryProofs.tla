---------------------------- MODULE LibraryProofs ----------------------------
(***************************************************************************)
(* The index document that several processes write keeps the favourite     *)
(* marks, whatever is damaged, fails or crashes, and however many scans    *)
(* overlap; and scans of the same roots that do not overlap take from it   *)
(* no entry of a file that is there.                                       *)
(*                                                                         *)
(* For the first, whatever a process loads, salvages or saves has the      *)
(* marks (MarksInv), because no scan goes past its load before its process *)
(* has an index.  For the second, an index whose stamp is the document's   *)
(* misses none of its entries but those of files touched since (Current),  *)
(* and a scan has such an index when it starts from it.  That needs stamps *)
(* that never come back (StampsInv): a load that read the document before  *)
(* it was replaced must not pass for a load of the new one.                *)
(***************************************************************************)
EXTENDS LibraryService, TLAPS

\* Where a scan has its entries from the index, and where it has saved them.
Unsaved  == {"load", "loading", "prior", "walk", "create", "rename"}
Based    == {"prior", "walk", "create", "rename"}
Informed == {"walk", "create", "rename", "mirror", "publish", "stamp"}
Closing  == {"mirror", "publish", "stamp"}

\* The flag of a service is up as long as its scan job runs.
FlagsTell == \A s \in Services : job[s] # None => scanning[s]

\* A load that a scan has begun is the load that scan waits for.
LoadsAreAwaited ==
    \A p \in Processes : loading[p] # None /\ loading[p].who # None =>
        /\ Home[loading[p].who] = p
        /\ At(loading[p].who, "loading")

MarksInv ==
    /\ doc.marks /\ sidecar
    /\ \A p \in Processes : shared[p].stamp # NotLoaded => shared[p].marks
    /\ \A p \in Processes : Loads(p, "install") => loading[p].marks
    /\ \A s \in Services : job[s] # None =>
          /\ job[s].phase \notin {"load", "loading"} => shared[Home[s]].stamp # NotLoaded
          /\ job[s].phase \in Informed => job[s].marks

\* The entries e lack none of the document's but those of files touched since.
Current(e) == doc.kind = "good" => (doc.entries \ e) \cap shelf \subseteq changed

\* The highest stamp there can be, and the next write goes above it.
High == IF doc.kind = "missing" THEN scans + damage ELSE doc.stamp

StampsInv ==
    /\ doc.stamp <= High /\ High <= 1 + scans + damage
    /\ \A p \in Processes : shared[p].stamp <= High
    /\ \A p \in Processes : loading[p] # None => loading[p].stamp <= High
    /\ \A s \in Services : job[s] # None /\ job[s].phase \in Unsaved => High <= scans + damage

OneScan == \A s, t \in Services : job[s] # None /\ job[t] # None => s = t

IndexCurrent == \A p \in Processes : shared[p].stamp = doc.stamp => Current(shared[p].entries)

LoadCurrent ==
    \A p \in Processes : loading[p] # None /\ loading[p].stamp = doc.stamp /\ doc.kind = "good" =>
        \/ loading[p].phase = "read"
        \/ loading[p].phase = "install" /\ Current(loading[p].entries)

ScanCurrent ==
    \A s \in Services : job[s] # None =>
        /\ job[s].phase = "loading" => /\ loading[Home[s]] # None /\ loading[Home[s]].who = s
                                       /\ loading[Home[s]].stamp = doc.stamp
        /\ job[s].phase \in Based => UpToDate(Home[s]) /\ loading[Home[s]] = None
        /\ job[s].phase \in Informed => Current(job[s].entries)
        /\ job[s].phase \in Closing /\ loading[Home[s]] # None =>
              loading[Home[s]].stamp = doc.stamp
        /\ job[s].phase = "stamp" => Current(shared[Home[s]].entries)

KeptInv == StampsInv /\ OneScan /\ IndexCurrent /\ LoadCurrent /\ ScanCurrent

------------------------------------------------------------------------------
(* What a step does to the job of a scan, to a load and to an index, field by *)
(* field.                                                                     *)

ScanBecomes(s, phase, entries, marks) ==
    /\ job' \in [Services -> Jobs \cup {None}] /\ job'[s] # None
    /\ job'[s].phase = phase /\ job'[s].entries = entries /\ job'[s].marks = marks
    /\ \A t \in Services \ {s} : job'[t] = job[t]
LoadBecomes(p, who, phase, stamp, entries, marks) ==
    /\ loading' \in [Processes -> Loadings \cup {None}] /\ loading'[p] # None
    /\ loading'[p].who = who /\ loading'[p].phase = phase /\ loading'[p].stamp = stamp
    /\ loading'[p].entries = entries /\ loading'[p].marks = marks
    /\ \A q \in Processes \ {p} : loading'[q] = loading[q]
Indexed == [stamp : Nat \cup {NotLoaded}, entries : SUBSET Files, marks : BOOLEAN]
IndexBecomes(p, stamp, entries, marks) ==
    /\ shared' \in [Processes -> Indexed]
    /\ shared'[p].stamp = stamp /\ shared'[p].entries = entries /\ shared'[p].marks = marks
    /\ \A q \in Processes \ {p} : shared'[q] = shared[q]

LEMMA JobTyped ==
    ASSUME ServicesAssumption, TypeOK, NEW s \in Services, job[s] # None
    PROVE  /\ job[s] \in Jobs /\ job[s].phase \in Phases /\ job[s].entries \subseteq Files
           /\ job[s].marks \in BOOLEAN /\ job[s].saved \in BOOLEAN /\ job[s].touched \subseteq Files
           /\ Home[s] \in Processes
BY DEF TypeOK, Jobs, ServicesAssumption

LEMMA LoadTyped ==
    ASSUME TypeOK, NEW p \in Processes, loading[p] # None
    PROVE  /\ loading[p] \in Loadings /\ loading[p].who \in Services \cup {None}
           /\ loading[p].phase \in {"read", "recover", "install"} /\ loading[p].stamp \in Nat
           /\ loading[p].entries \subseteq Files /\ loading[p].marks \in BOOLEAN
BY DEF TypeOK, Loadings

LEMMA IndexTyped ==
    ASSUME TypeOK, NEW p \in Processes
    PROVE  /\ shared[p] \in Indexed /\ shared[p].stamp \in Nat \cup {NotLoaded}
           /\ shared[p].entries \subseteq Files /\ shared[p].marks \in BOOLEAN
BY DEF TypeOK, Indexed

LEMMA DocTyped ==
    ASSUME TypeOK
    PROVE  /\ doc.kind \in Kinds /\ doc.entries \subseteq Files /\ doc.marks \in BOOLEAN
           /\ doc.stamp \in Nat /\ {edits, damage, fails, crashes, scans} \subseteq Nat
           /\ NextStamp \in Nat
BY DEF TypeOK, NextStamp

\* A step that sets a job's fields.
LEMMA Scanned ==
    ASSUME ServicesAssumption, TypeOK, NEW s \in Services, NEW j \in Jobs,
           job' = [job EXCEPT ![s] = j]
    PROVE  ScanBecomes(s, j.phase, j.entries, j.marks)
<1>1. job' \in [Services -> Jobs \cup {None}] /\ job'[s] = j
  BY DEF TypeOK
<1>2. j # None
  BY DEF ServicesAssumption
<1>3. \A t \in Services \ {s} : job'[t] = job[t]
  BY DEF TypeOK
<1> QED
  BY <1>1, <1>2, <1>3 DEF ScanBecomes

LEMMA Went ==
    ASSUME ServicesAssumption, TypeOK, NEW s \in Services, job[s] # None, NEW phase \in Phases,
           Goto(s, phase)
    PROVE  ScanBecomes(s, phase, job[s].entries, job[s].marks)
<1>1. PICK j : j = [job[s] EXCEPT !.phase = phase]
  OBVIOUS
<1>2. /\ j \in Jobs /\ j.phase = phase
      /\ j.entries = job[s].entries /\ j.marks = job[s].marks
  <2>1. job[s] \in Jobs
    BY JobTyped
  <2> QED
    BY <1>1, <2>1 DEF Jobs
<1>3. job' = [job EXCEPT ![s] = j]
  BY <1>1 DEF Goto, TypeOK
<1> QED
  BY <1>2, <1>3, Scanned

LEMMA Began ==
    ASSUME ServicesAssumption, TypeOK, NEW p \in Processes, NEW who \in Services \cup {None},
           BeginLoad(p, who)
    PROVE  LoadBecomes(p, who, "read", doc.stamp, {}, FALSE)
<1>1. PICK l : l = [who |-> who, phase |-> "read", stamp |-> doc.stamp, entries |-> {},
                    marks |-> FALSE]
  OBVIOUS
<1>2. l \in Loadings
  BY <1>1, DocTyped DEF Loadings
<1>3. loading' = [loading EXCEPT ![p] = l]
  BY <1>1 DEF BeginLoad
<1>4. /\ loading' \in [Processes -> Loadings \cup {None}] /\ loading'[p] = l
      /\ \A q \in Processes \ {p} : loading'[q] = loading[q]
  BY <1>2, <1>3 DEF TypeOK
<1>5. l # None
  BY <1>2 DEF ServicesAssumption
<1> QED
  BY <1>1, <1>4, <1>5 DEF LoadBecomes

------------------------------------------------------------------------------
(* The steps.                                                                 *)

LEMMA ReadStep ==
    ASSUME ServicesAssumption, TypeOK, NEW p \in Processes, Read(p)
    PROVE  /\ loading[p] # None /\ loading[p].phase = "read"
           /\ IF doc.kind = "good"
                THEN LoadBecomes(p, loading[p].who, "install", loading[p].stamp, doc.entries, doc.marks)
                ELSE LoadBecomes(p, loading[p].who, "recover", loading[p].stamp,
                                 loading[p].entries, loading[p].marks)
<1>1. loading[p] # None /\ loading[p].phase = "read"
  BY DEF Read, Loads
<1>2. PICK k \in Loadings : k = loading[p]
  BY <1>1, LoadTyped
<1>3. CASE doc.kind = "good"
  <2>1. PICK l : l = [k EXCEPT !.phase = "install", !.entries = doc.entries, !.marks = doc.marks]
    OBVIOUS
  <2>2. l \in Loadings /\ l.who = k.who /\ l.stamp = k.stamp
        /\ l.phase = "install" /\ l.entries = doc.entries /\ l.marks = doc.marks
    BY <2>1, DocTyped DEF Loadings
  <2>3. loading' = [loading EXCEPT ![p] = l]
    BY <1>2, <1>3, <2>1 DEF Read, TypeOK
  <2>4. /\ loading' \in [Processes -> Loadings \cup {None}] /\ loading'[p] = l
        /\ \A q \in Processes \ {p} : loading'[q] = loading[q]
    BY <2>2, <2>3 DEF TypeOK, ServicesAssumption
  <2>5. l # None
    BY <2>2 DEF ServicesAssumption
  <2> QED
    BY <1>1, <1>2, <1>3, <2>2, <2>4, <2>5 DEF LoadBecomes
<1>4. CASE doc.kind # "good"
  <2>1. PICK l : l = [k EXCEPT !.phase = "recover"]
    OBVIOUS
  <2>2. l \in Loadings /\ l.who = k.who /\ l.stamp = k.stamp
        /\ l.phase = "recover" /\ l.entries = k.entries /\ l.marks = k.marks
    BY <2>1 DEF Loadings
  <2>3. loading' = [loading EXCEPT ![p] = l]
    BY <1>2, <1>4, <2>1 DEF Read, TypeOK
  <2>4. /\ loading' \in [Processes -> Loadings \cup {None}] /\ loading'[p] = l
        /\ \A q \in Processes \ {p} : loading'[q] = loading[q]
    BY <2>2, <2>3 DEF TypeOK
  <2>5. l # None
    BY <2>2 DEF ServicesAssumption
  <2> QED
    BY <1>1, <1>2, <1>4, <2>2, <2>4, <2>5 DEF LoadBecomes
<1> QED
  BY <1>3, <1>4

LEMMA RecoverStep ==
    ASSUME ServicesAssumption, TypeOK, NEW p \in Processes, Recover(p)
    PROVE  /\ loading[p] # None /\ loading[p].phase = "recover"
           /\ LoadBecomes(p, loading[p].who, "install", loading[p].stamp, loading[p].entries,
                          Recovered)
<1>1. loading[p] # None /\ loading[p].phase = "recover"
  BY DEF Recover, Loads
<1>2. PICK k \in Loadings : k = loading[p]
  BY <1>1, LoadTyped
<1>3. PICK m \in BOOLEAN : m = Recovered
  BY DEF Recovered, Salvaged, TypeOK
<1>4. PICK l : l = [k EXCEPT !.phase = "install", !.marks = m]
  OBVIOUS
<1>5. /\ l \in Loadings /\ l.who = k.who /\ l.stamp = k.stamp
      /\ l.phase = "install" /\ l.entries = k.entries /\ l.marks = m
  BY <1>4 DEF Loadings
<1>6. loading' = [loading EXCEPT ![p] = l]
  BY <1>2, <1>3, <1>4 DEF Recover, TypeOK
<1>7. /\ loading' \in [Processes -> Loadings \cup {None}] /\ loading'[p] = l
      /\ \A q \in Processes \ {p} : loading'[q] = loading[q]
  BY <1>5, <1>6 DEF TypeOK
<1>8. l # None
  BY <1>5 DEF ServicesAssumption
<1> QED
  BY <1>1, <1>2, <1>3, <1>5, <1>7, <1>8 DEF LoadBecomes

\* The scan the load was for, if there was one, has its index.
LEMMA InstallStep ==
    ASSUME ServicesAssumption, TypeOK, LoadsAreAwaited, NEW p \in Processes, Install(p)
    PROVE  /\ loading[p] # None /\ loading[p].phase = "install"
           /\ IndexBecomes(p, loading[p].stamp, loading[p].entries, loading[p].marks)
           /\ loading' \in [Processes -> Loadings \cup {None}] /\ loading'[p] = None
           /\ \A q \in Processes \ {p} : loading'[q] = loading[q]
           /\ job' \in [Services -> Jobs \cup {None}]
           /\ loading[p].who = None => job' = job
           /\ loading[p].who # None =>
                /\ loading[p].who \in Services /\ Home[loading[p].who] = p
                /\ At(loading[p].who, "loading")
                /\ ScanBecomes(loading[p].who, "prior", job[loading[p].who].entries,
                               job[loading[p].who].marks)
<1>1. loading[p] # None /\ loading[p].phase = "install"
  BY DEF Install, Loads
<1>2. PICK l \in Loadings : l = loading[p]
  BY <1>1, LoadTyped
<1>3. IndexBecomes(p, l.stamp, l.entries, l.marks)
  <2>1. PICK x : x = [stamp |-> l.stamp, entries |-> l.entries, marks |-> l.marks]
    OBVIOUS
  <2>2. x \in Indexed /\ x.stamp = l.stamp /\ x.entries = l.entries /\ x.marks = l.marks
    BY <2>1 DEF Loadings, Indexed
  <2>3. shared' = [shared EXCEPT ![p] = x]
    BY <1>2, <2>1 DEF Install
  <2> QED
    BY <2>2, <2>3 DEF TypeOK, IndexBecomes, Indexed
<1>4. /\ loading' \in [Processes -> Loadings \cup {None}] /\ loading'[p] = None
      /\ \A q \in Processes \ {p} : loading'[q] = loading[q]
  BY DEF Install, TypeOK
<1>5. ASSUME l.who = None PROVE job' = job
  <2>1. \A s \in Services : s # None
    BY DEF ServicesAssumption
  <2>2. job' = [s \in Services |-> job[s]]
    BY <1>2, <1>5, <2>1 DEF Install
  <2> QED
    BY <2>2 DEF TypeOK
<1>6. ASSUME l.who # None
      PROVE  /\ l.who \in Services /\ Home[l.who] = p /\ At(l.who, "loading")
             /\ ScanBecomes(l.who, "prior", job[l.who].entries, job[l.who].marks)
  <2>1. PICK w \in Services : w = l.who
    BY <1>6 DEF Loadings
  <2>2. Home[w] = p /\ At(w, "loading") /\ job[w] # None
    BY <1>1, <1>2, <1>6, <2>1 DEF LoadsAreAwaited, At
  <2>3. job' = [job EXCEPT ![w].phase = "prior"]
    BY <1>2, <2>1 DEF Install, TypeOK
  <2>4. ScanBecomes(w, "prior", job[w].entries, job[w].marks)
    BY <2>2, <2>3, Went DEF Goto, Phases
  <2> QED
    BY <2>1, <2>2, <2>4
<1>7. job' \in [Services -> Jobs \cup {None}]
  <2>1. CASE l.who = None
    BY <1>5, <2>1 DEF TypeOK
  <2>2. CASE l.who # None
    BY <1>6, <2>2 DEF ScanBecomes
  <2> QED
    BY <2>1, <2>2
<1> QED
  BY <1>1, <1>2, <1>3, <1>4, <1>5, <1>6, <1>7

LEMMA StartStep ==
    ASSUME ServicesAssumption, TypeOK, NEW s \in Services, StartScan(s)
    PROVE  ScanBecomes(s, "load", {}, FALSE)
<1>1. PICK j : j = [phase |-> "load", entries |-> {}, marks |-> FALSE, saved |-> FALSE,
                    touched |-> {}]
  OBVIOUS
<1>2. j \in Jobs /\ j.phase = "load" /\ j.entries = {} /\ j.marks = FALSE
  BY <1>1 DEF Jobs, Phases
<1>3. job' = [job EXCEPT ![s] = j]
  BY <1>1 DEF StartScan
<1> QED
  BY <1>2, <1>3, Scanned

LEMMA LoadStep ==
    ASSUME ServicesAssumption, TypeOK, NEW s \in Services, Load(s)
    PROVE  /\ At(s, "load") /\ loading[Home[s]] = None
           /\ \/ /\ UpToDate(Home[s]) /\ loading' = loading
                 /\ ScanBecomes(s, "prior", job[s].entries, job[s].marks)
              \/ /\ ~ UpToDate(Home[s])
                 /\ ScanBecomes(s, "loading", job[s].entries, job[s].marks)
                 /\ LoadBecomes(Home[s], s, "read", doc.stamp, {}, FALSE)
<1>1. At(s, "load") /\ loading[Home[s]] = None /\ job[s] # None /\ Home[s] \in Processes
  BY JobTyped DEF Load, At
<1>2. CASE UpToDate(Home[s])
  BY <1>1, <1>2, Went DEF Load, Phases
<1>3. CASE ~ UpToDate(Home[s])
  BY <1>1, <1>3, Went, Began DEF Load, Phases
<1> QED
  BY <1>1, <1>2, <1>3

LEMMA PriorStep ==
    ASSUME ServicesAssumption, TypeOK, NEW s \in Services, Prior(s)
    PROVE  /\ At(s, "prior")
           /\ ScanBecomes(s, "walk", shared[Home[s]].entries, shared[Home[s]].marks)
<1>1. At(s, "prior") /\ job[s] # None
  BY DEF Prior, At
<1>2. PICK i \in Jobs : i = job[s]
  BY <1>1, JobTyped
<1>3. PICK x \in Indexed : x = shared[Home[s]]
  BY <1>1, JobTyped, IndexTyped
<1>4. PICK j : j = [i EXCEPT !.phase = "walk", !.entries = x.entries, !.marks = x.marks]
  OBVIOUS
<1>5. j \in Jobs /\ j.phase = "walk" /\ j.entries = x.entries /\ j.marks = x.marks
  <2>1. x.entries \subseteq Files /\ x.marks \in BOOLEAN
    BY DEF Indexed
  <2>2. PICK e \in SUBSET Files, m \in BOOLEAN : e = x.entries /\ m = x.marks
    BY <2>1
  <2>3. j = [i EXCEPT !.phase = "walk", !.entries = e, !.marks = m]
    BY <1>4, <2>2
  <2> QED
    BY <2>2, <2>3 DEF Jobs, Phases
<1>6. job' = [job EXCEPT ![s] = j]
  BY <1>2, <1>3, <1>4 DEF Prior, TypeOK
<1> QED
  BY <1>1, <1>3, <1>5, <1>6, Scanned

\* What a walk leaves out of the prior index is no file that is there, if the
\* roots lead to all files.
LEMMA WalkStep ==
    ASSUME ServicesAssumption, TypeOK, NEW s \in Services, Walk(s)
    PROVE  /\ At(s, "walk")
           /\ \E e \in SUBSET Files :
                 /\ ScanBecomes(s, "create", e, job[s].marks)
                 /\ Roots[s] = Files => job[s].entries \cap shelf \subseteq e
<1>1. At(s, "walk") /\ job[s] # None
  BY DEF Walk, At
<1>2. PICK i \in Jobs : i = job[s]
  BY <1>1, JobTyped
<1>3. i.entries \subseteq Files
  BY DEF Jobs
<1>4. PICK blind \in SUBSET Files, complete \in BOOLEAN, found \in SUBSET (shelf \cap Roots[s]) :
             /\ found \subseteq (shelf \cap Roots[s]) \ blind
             /\ complete => found = (shelf \cap Roots[s]) \ blind
             /\ job' = [job EXCEPT ![s].phase = "create",
                                   ![s].entries = Applied(@, found, blind, complete)]
  <2>1. PICK blind \in SUBSET Files, complete \in BOOLEAN :
          \E found \in SUBSET ((shelf \cap Roots[s]) \ blind) :
             /\ complete => found = (shelf \cap Roots[s]) \ blind
             /\ job' = [job EXCEPT ![s].phase = "create",
                                   ![s].entries = Applied(@, found, blind, complete)]
    BY DEF Walk
  <2>2. PICK found \in SUBSET ((shelf \cap Roots[s]) \ blind) :
             /\ complete => found = (shelf \cap Roots[s]) \ blind
             /\ job' = [job EXCEPT ![s].phase = "create",
                                   ![s].entries = Applied(@, found, blind, complete)]
    BY <2>1
  <2> QED
    BY <2>2
<1>5. PICK e : e = Applied(i.entries, found, blind, complete)
  OBVIOUS
<1>6. e \in SUBSET Files
  BY <1>3, <1>4, <1>5 DEF Applied, TypeOK
<1>7. Roots[s] = Files => i.entries \cap shelf \subseteq e
  BY <1>3, <1>4, <1>5 DEF Applied, TypeOK
<1>8. PICK j : j = [i EXCEPT !.phase = "create", !.entries = e]
  OBVIOUS
<1>9. j \in Jobs /\ j.phase = "create" /\ j.entries = e /\ j.marks = i.marks
  BY <1>6, <1>8 DEF Jobs, Phases
<1>10. job' = [job EXCEPT ![s] = j]
  BY <1>2, <1>4, <1>5, <1>8 DEF TypeOK
<1> QED
  BY <1>1, <1>2, <1>6, <1>7, <1>9, <1>10, Scanned

LEMMA RenameStep ==
    ASSUME ServicesAssumption, TypeOK, NEW s \in Services, Rename(s)
    PROVE  /\ At(s, "rename") /\ ScanBecomes(s, "mirror", job[s].entries, job[s].marks)
           /\ doc' \in [kind : Kinds, entries : SUBSET Files, marks : BOOLEAN, stamp : Nat]
           /\ doc'.kind = "good" /\ doc'.entries = job[s].entries /\ doc'.marks = job[s].marks
           /\ doc'.stamp = NextStamp
           /\ changed' \subseteq Files
<1>1. At(s, "rename") /\ job[s] # None
  BY DEF Rename, At
<1>2. PICK i \in Jobs : i = job[s]
  BY <1>1, JobTyped
<1>3. PICK j : j = [i EXCEPT !.phase = "mirror", !.saved = TRUE]
  OBVIOUS
<1>4. j \in Jobs /\ j.phase = "mirror" /\ j.entries = i.entries /\ j.marks = i.marks
  BY <1>3 DEF Jobs, Phases
<1>5. job' = [job EXCEPT ![s] = j]
  BY <1>2, <1>3 DEF Rename, TypeOK
<1>6. i.entries \subseteq Files /\ i.marks \in BOOLEAN /\ i.touched \subseteq Files
  BY DEF Jobs
<1>7. doc' = [kind |-> "good", entries |-> i.entries, marks |-> i.marks, stamp |-> NextStamp]
      /\ changed' = i.touched
  BY <1>2 DEF Rename
<1>8. /\ doc' \in [kind : Kinds, entries : SUBSET Files, marks : BOOLEAN, stamp : Nat]
      /\ doc'.kind = "good" /\ doc'.entries = i.entries /\ doc'.marks = i.marks
      /\ doc'.stamp = NextStamp
  BY <1>6, <1>7, DocTyped DEF Kinds
<1> QED
  BY <1>1, <1>2, <1>4, <1>5, <1>6, <1>7, <1>8, Scanned

LEMMA PublishStep ==
    ASSUME ServicesAssumption, TypeOK, NEW s \in Services, Publish(s)
    PROVE  /\ At(s, "publish") /\ ScanBecomes(s, "stamp", job[s].entries, job[s].marks)
           /\ IndexBecomes(Home[s], shared[Home[s]].stamp, job[s].entries, job[s].marks)
<1>1. At(s, "publish") /\ job[s] # None /\ Home[s] \in Processes
  BY JobTyped DEF Publish, At
<1>2. PICK i \in Jobs, x \in Indexed : i = job[s] /\ x = shared[Home[s]]
  BY <1>1, JobTyped, IndexTyped
<1>3. PICK e \in SUBSET Files, m \in BOOLEAN : e = i.entries /\ m = i.marks
  BY DEF Jobs
<1>4. PICK y : y = [x EXCEPT !.entries = e, !.marks = m]
  OBVIOUS
<1>5. y \in Indexed /\ y.stamp = x.stamp /\ y.entries = e /\ y.marks = m
  BY <1>4 DEF Indexed
<1>6. shared' = [shared EXCEPT ![Home[s]] = y]
  BY <1>1, <1>2, <1>3, <1>4 DEF Publish, TypeOK
<1>7. /\ shared' \in [Processes -> Indexed] /\ shared'[Home[s]] = y
      /\ \A q \in Processes \ {Home[s]} : shared'[q] = shared[q]
  BY <1>1, <1>5, <1>6 DEF TypeOK, Indexed
<1>8. ScanBecomes(s, "stamp", job[s].entries, job[s].marks)
  BY <1>1, Went DEF Publish, Phases
<1> QED
  BY <1>1, <1>2, <1>3, <1>5, <1>7, <1>8 DEF IndexBecomes

\* The job of a scan that is over.
ScanEnds(s) ==
    /\ job' \in [Services -> Jobs \cup {None}] /\ job'[s] = None
    /\ \A t \in Services \ {s} : job'[t] = job[t]

LEMMA Ended ==
    ASSUME TypeOK, NEW s \in Services, job' = [job EXCEPT ![s] = None]
    PROVE  ScanEnds(s)
BY DEF TypeOK, ScanEnds

LEMMA RestampStep ==
    ASSUME ServicesAssumption, TypeOK, NEW s \in Services, Restamp(s)
    PROVE  /\ At(s, "stamp") /\ loading[Home[s]] = None /\ ScanEnds(s)
           /\ \E n \in {doc.stamp, shared[Home[s]].stamp} :
                 IndexBecomes(Home[s], n, shared[Home[s]].entries, shared[Home[s]].marks)
<1>1. /\ At(s, "stamp") /\ loading[Home[s]] = None /\ job[s] # None /\ Home[s] \in Processes
      /\ ScanEnds(s)
  BY JobTyped, Ended DEF Restamp, At
<1>2. PICK x \in Indexed : x = shared[Home[s]]
  BY <1>1, IndexTyped
<1>3. PICK n \in {doc.stamp, x.stamp} : n = IF job[s].saved THEN doc.stamp ELSE x.stamp
  OBVIOUS
<1>4. n \in Nat \cup {NotLoaded}
  BY DocTyped DEF Indexed
<1>5. PICK y : y = [x EXCEPT !.stamp = n]
  OBVIOUS
<1>6. y \in Indexed /\ y.stamp = n /\ y.entries = x.entries /\ y.marks = x.marks
  BY <1>4, <1>5 DEF Indexed
<1>7. shared' = [shared EXCEPT ![Home[s]] = y]
  BY <1>1, <1>2, <1>3, <1>5 DEF Restamp, TypeOK
<1>8. /\ shared' \in [Processes -> Indexed] /\ shared'[Home[s]] = y
      /\ \A q \in Processes \ {Home[s]} : shared'[q] = shared[q]
  BY <1>1, <1>6, <1>7 DEF TypeOK, Indexed
<1> QED
  BY <1>1, <1>2, <1>6, <1>8 DEF IndexBecomes

\* A file that is touched leaves the scans where they are.
LEMMA TouchStep ==
    ASSUME ServicesAssumption, TypeOK, NEW f \in Files, Touch(f)
    PROVE  /\ job' \in [Services -> Jobs \cup {None}]
           /\ \A s \in Services : job'[s] # None =>
                /\ job[s] # None /\ job'[s].phase = job[s].phase
                /\ job'[s].entries = job[s].entries /\ job'[s].marks = job[s].marks
           /\ \A s \in Services : job[s] # None => job'[s] # None
<1>1. ASSUME NEW s \in Services, job[s] = None PROVE job'[s] = None
  BY <1>1 DEF Touch
<1>2. ASSUME NEW s \in Services, job[s] # None
      PROVE  /\ job'[s] \in Jobs /\ job'[s].phase = job[s].phase
             /\ job'[s].entries = job[s].entries /\ job'[s].marks = job[s].marks
  <2>1. PICK i \in Jobs : i = job[s]
    BY <1>2, JobTyped
  <2>2. PICK u \in SUBSET Files : u = i.touched \cup {f}
    BY DEF Jobs
  <2>3. PICK j : j = [i EXCEPT !.touched = u]
    OBVIOUS
  <2>4. j \in Jobs /\ j.phase = i.phase /\ j.entries = i.entries /\ j.marks = i.marks
    BY <2>3 DEF Jobs
  <2>5. job'[s] = j
    BY <1>2, <2>1, <2>2, <2>3 DEF Touch
  <2> QED
    BY <2>1, <2>4, <2>5
<1>3. \A j \in Jobs : j # None
  BY DEF ServicesAssumption
<1>4. job' \in [Services -> Jobs \cup {None}]
  <2>1. \A s \in Services : job'[s] \in Jobs \cup {None}
    BY <1>1, <1>2
  <2>2. job' = [s \in Services |-> job'[s]]
    BY DEF Touch
  <2> QED
    BY <2>1, <2>2
<1> QED
  BY <1>1, <1>2, <1>3, <1>4

LEMMA DamageStep ==
    ASSUME ServicesAssumption, TypeOK, NEW kind \in {"missing", "foreign", "malformed"}, Damage(kind)
    PROVE  /\ doc' \in [kind : Kinds, entries : SUBSET Files, marks : BOOLEAN, stamp : Nat]
           /\ doc'.kind = kind /\ doc'.marks = doc.marks
           /\ doc'.stamp = IF kind = "missing" THEN 0 ELSE NextStamp
<1>1. PICK n \in Nat : n = IF kind = "missing" THEN 0 ELSE NextStamp
  BY DocTyped
<1>2. doc' = [doc EXCEPT !.kind = kind, !.stamp = n]
  BY <1>1 DEF Damage, Missing
<1> QED
  BY <1>1, <1>2 DEF TypeOK, Kinds

LEMMA CrashStep ==
    ASSUME ServicesAssumption, TypeOK, NEW p \in Processes, Crash(p)
    PROVE  /\ IndexBecomes(p, NotLoaded, {}, FALSE)
           /\ loading' \in [Processes -> Loadings \cup {None}] /\ loading'[p] = None
           /\ \A q \in Processes \ {p} : loading'[q] = loading[q]
           /\ job' \in [Services -> Jobs \cup {None}]
           /\ \A s \in Services : job'[s] # None => job'[s] = job[s] /\ Home[s] # p
           /\ \A s \in Services : Home[s] # p => job'[s] = job[s]
<1>1. IndexBecomes(p, NotLoaded, {}, FALSE)
  <2>1. PICK x : x = Unloaded
    OBVIOUS
  <2>2. x \in Indexed /\ x.stamp = NotLoaded /\ x.entries = {} /\ x.marks = FALSE
    BY <2>1 DEF Unloaded, Indexed
  <2>3. shared' = [shared EXCEPT ![p] = x]
    BY <2>1 DEF Crash
  <2> QED
    BY <2>2, <2>3 DEF TypeOK, IndexBecomes, Indexed
<1> QED
  BY <1>1 DEF Crash, TypeOK

\* The steps that move a scan on and touch nothing else that a scan or a load
\* reads.
Quiet(s) == StartScan(s) \/ Create(s) \/ SaveFails(s) \/ Mirror(s) \/ Panic(s)

LEMMA QuietStep ==
    ASSUME ServicesAssumption, TypeOK, NEW s \in Services, Quiet(s)
    PROVE  /\ doc' = doc /\ changed' = changed /\ shelf' = shelf /\ damage' = damage
           /\ shared' = shared /\ loading' = loading
           /\ job' \in [Services -> Jobs \cup {None}]
           /\ \/ sidecar' = sidecar
              \/ At(s, "mirror") /\ sidecar' = job[s].marks
           /\ \/ StartScan(s) /\ scans' = scans + 1 /\ ScanBecomes(s, "load", {}, FALSE)
              \/ /\ scans' = scans
                 /\ \/ At(s, "create") /\ ScanBecomes(s, "rename", job[s].entries, job[s].marks)
                    \/ /\ At(s, "create") \/ At(s, "rename")
                       /\ ScanBecomes(s, "mirror", job[s].entries, job[s].marks)
                    \/ At(s, "mirror") /\ ScanBecomes(s, "publish", job[s].entries, job[s].marks)
                    \/ At(s, "walk") /\ ScanEnds(s)
<1>1. CASE StartScan(s)
  <2>1. ScanBecomes(s, "load", {}, FALSE) /\ scans' = scans + 1
    BY <1>1, StartStep DEF StartScan
  <2>2. /\ doc' = doc /\ changed' = changed /\ shelf' = shelf /\ damage' = damage
        /\ shared' = shared /\ loading' = loading /\ sidecar' = sidecar
    BY <1>1 DEF StartScan, world, store
  <2> QED
    BY <1>1, <2>1, <2>2 DEF ScanBecomes
<1>2. CASE Create(s)
  <2>1. At(s, "create") /\ ScanBecomes(s, "rename", job[s].entries, job[s].marks)
    BY <1>2, Went DEF Create, At, Phases
  <2>2. /\ doc' = doc /\ changed' = changed /\ shelf' = shelf /\ damage' = damage
        /\ shared' = shared /\ loading' = loading /\ sidecar' = sidecar /\ scans' = scans
    BY <1>2 DEF Create, world, store, spent
  <2> QED
    BY <2>1, <2>2 DEF ScanBecomes
<1>3. CASE SaveFails(s)
  <2>1. /\ At(s, "create") \/ At(s, "rename")
        /\ ScanBecomes(s, "mirror", job[s].entries, job[s].marks)
    BY <1>3, Went DEF SaveFails, At, Phases
  <2>2. /\ doc' = doc /\ changed' = changed /\ shelf' = shelf /\ damage' = damage
        /\ shared' = shared /\ loading' = loading /\ sidecar' = sidecar /\ scans' = scans
    BY <1>3 DEF SaveFails, world, store
  <2> QED
    BY <2>1, <2>2 DEF ScanBecomes
<1>4. CASE Mirror(s)
  <2>1. At(s, "mirror") /\ ScanBecomes(s, "publish", job[s].entries, job[s].marks)
    BY <1>4, Went DEF Mirror, At, Phases
  <2>2. /\ doc' = doc /\ changed' = changed /\ shelf' = shelf /\ damage' = damage
        /\ shared' = shared /\ loading' = loading /\ scans' = scans
    BY <1>4 DEF Mirror, world
  <2>3. sidecar' = sidecar \/ sidecar' = job[s].marks
    BY <1>4 DEF Mirror
  <2> QED
    BY <2>1, <2>2, <2>3 DEF ScanBecomes
<1>5. CASE Panic(s)
  <2>1. At(s, "walk") /\ ScanEnds(s)
    BY <1>5, Ended DEF Panic
  <2>2. /\ doc' = doc /\ changed' = changed /\ shelf' = shelf /\ damage' = damage
        /\ shared' = shared /\ loading' = loading /\ sidecar' = sidecar /\ scans' = scans
    BY <1>5 DEF Panic, world, store, spent
  <2> QED
    BY <2>1, <2>2 DEF ScanEnds
<1> QED
  BY <1>1, <1>2, <1>3, <1>4, <1>5 DEF Quiet

LEMMA TypeStep ==
    ASSUME ServicesAssumption, TypeOK, LoadsAreAwaited, [Next]_vars
    PROVE  TypeOK'
<1> DEFINE Same == /\ shelf' \subseteq Files /\ changed' \subseteq Files /\ sidecar' \in BOOLEAN
                   /\ doc' \in [kind : Kinds, entries : SUBSET Files, marks : BOOLEAN, stamp : Nat]
                   /\ scanning' \in [Services -> BOOLEAN]
                   /\ {edits', damage', fails', crashes', scans'} \subseteq Nat
           Rest == /\ shared' \in [Processes -> Indexed]
                   /\ loading' \in [Processes -> Loadings \cup {None}]
                   /\ job' \in [Services -> Jobs \cup {None}]
<1>0. ASSUME Same, Rest PROVE TypeOK'
  BY <1>0 DEF TypeOK, Indexed
<1>1. ASSUME NEW p \in Processes, Open(p) PROVE TypeOK'
  <2>1. Same
    BY <1>1 DEF TypeOK, Open, world, store, spent
  <2>2. Rest
    BY <1>1, Began DEF TypeOK, Open, Indexed, LoadBecomes
  <2> QED
    BY <1>0, <2>1, <2>2
<1>2. ASSUME NEW p \in Processes, Read(p) \/ Recover(p) PROVE TypeOK'
  <2>1. Same
    BY <1>2 DEF TypeOK, Read, Recover, world, store, spent
  <2>2. Rest
    BY <1>2, ReadStep, RecoverStep DEF TypeOK, Read, Recover, Indexed, LoadBecomes
  <2> QED
    BY <1>0, <2>1, <2>2
<1>3. ASSUME NEW p \in Processes, Install(p) PROVE TypeOK'
  <2>1. Same
    BY <1>3 DEF TypeOK, Install, world, store, spent
  <2>2. Rest
    BY <1>3, InstallStep DEF IndexBecomes
  <2> QED
    BY <1>0, <2>1, <2>2
<1>4. ASSUME NEW p \in Processes, Crash(p) PROVE TypeOK'
  <2>1. Same
    BY <1>4 DEF TypeOK, Crash, world, store
  <2>2. Rest
    BY <1>4, CrashStep DEF IndexBecomes
  <2> QED
    BY <1>0, <2>1, <2>2
<1>5. ASSUME NEW s \in Services, Quiet(s) PROVE TypeOK'
  <2>1. sidecar' \in BOOLEAN
    BY <1>5, QuietStep, JobTyped DEF TypeOK, At
  <2>2. /\ shelf' = shelf /\ changed' = changed /\ doc' = doc /\ edits' = edits
        /\ damage' = damage /\ crashes' = crashes
        /\ scans' \in {scans, scans + 1} /\ fails' \in {fails, fails + 1}
    BY <1>5 DEF Quiet, StartScan, Create, SaveFails, Mirror, Panic, world, store, spent
  <2>3. scanning' \in [Services -> BOOLEAN]
    BY <1>5 DEF TypeOK, Quiet, StartScan, Create, SaveFails, Mirror, Panic
  <2>4. Same
    BY <2>1, <2>2, <2>3 DEF TypeOK
  <2>5. Rest
    BY <1>5, QuietStep DEF TypeOK, Indexed
  <2> QED
    BY <1>0, <2>4, <2>5
<1>6. ASSUME NEW s \in Services, Load(s) PROVE TypeOK'
  <2>1. Same
    BY <1>6 DEF TypeOK, Load, world, store, spent
  <2>2. Rest
    BY <1>6, LoadStep DEF TypeOK, Load, Indexed, LoadBecomes, ScanBecomes
  <2> QED
    BY <1>0, <2>1, <2>2
<1>7. ASSUME NEW s \in Services, Prior(s) \/ Walk(s) PROVE TypeOK'
  <2>1. Same
    BY <1>7 DEF TypeOK, Prior, Walk, world, store, spent
  <2>2. job' \in [Services -> Jobs \cup {None}]
    BY <1>7, PriorStep, WalkStep DEF ScanBecomes
  <2>3. Rest
    BY <1>7, <2>2 DEF TypeOK, Prior, Walk, Indexed
  <2> QED
    BY <1>0, <2>1, <2>3
<1>8. ASSUME NEW s \in Services, Rename(s) PROVE TypeOK'
  <2>1. Same
    BY <1>8, RenameStep DEF TypeOK, Rename, world, spent
  <2>2. Rest
    BY <1>8, RenameStep DEF TypeOK, Rename, Indexed, ScanBecomes
  <2> QED
    BY <1>0, <2>1, <2>2
<1>9. ASSUME NEW s \in Services, Publish(s) PROVE TypeOK'
  <2>1. Same
    BY <1>9 DEF TypeOK, Publish, world, store, spent
  <2>2. Rest
    BY <1>9, PublishStep DEF TypeOK, Publish, IndexBecomes, ScanBecomes
  <2> QED
    BY <1>0, <2>1, <2>2
<1>10. ASSUME NEW s \in Services, Restamp(s) PROVE TypeOK'
  <2>1. Same
    BY <1>10 DEF TypeOK, Restamp, world, store, spent
  <2>2. Rest
    BY <1>10, RestampStep DEF TypeOK, Restamp, IndexBecomes, ScanEnds
  <2> QED
    BY <1>0, <2>1, <2>2
<1>11. ASSUME NEW f \in Files, Touch(f) PROVE TypeOK'
  <2>1. Same
    BY <1>11 DEF TypeOK, Touch, spent
  <2>2. Rest
    BY <1>11, TouchStep DEF TypeOK, Touch, Indexed
  <2> QED
    BY <1>0, <2>1, <2>2
<1>12. ASSUME NEW kind \in {"missing", "foreign", "malformed"}, Damage(kind) PROVE TypeOK'
  <2>1. doc' \in [kind : Kinds, entries : SUBSET Files, marks : BOOLEAN, stamp : Nat]
    BY <1>12, DamageStep
  <2>3. /\ shelf' = shelf /\ changed' = changed /\ sidecar' = sidecar /\ scanning' = scanning
        /\ edits' = edits /\ damage' = damage + 1 /\ fails' = fails /\ crashes' = crashes
        /\ scans' = scans
    BY <1>12 DEF Damage, world
  <2>4. Same
    BY <2>1, <2>3 DEF TypeOK
  <2>2. Rest
    BY <1>12 DEF TypeOK, Damage, Indexed
  <2> QED
    BY <1>0, <2>2, <2>4
<1>13. CASE UNCHANGED vars
  BY <1>13 DEF TypeOK, vars
<1> QED
  BY <1>1, <1>2, <1>3, <1>4, <1>5, <1>6, <1>7, <1>8, <1>9, <1>10, <1>11, <1>12, <1>13
  DEF Next, Quiet

------------------------------------------------------------------------------
(* The marks.                                                                 *)

MInv == TypeOK /\ FlagsTell /\ LoadsAreAwaited /\ MarksInv

LEMMA FlagStep ==
    ASSUME ServicesAssumption, TypeOK, FlagsTell, LoadsAreAwaited, [Next]_vars
    PROVE  FlagsTell'
<1>1. SUFFICES ASSUME NEW t \in Services, job'[t] # None PROVE scanning'[t]
  BY DEF FlagsTell
<1>2. ASSUME scanning' = scanning, job[t] # None PROVE scanning'[t]
  BY <1>2 DEF FlagsTell
<1>3. ASSUME NEW p \in Processes, Open(p) \/ Read(p) \/ Recover(p) PROVE scanning'[t]
  BY <1>1, <1>2, <1>3 DEF Open, Read, Recover
<1>4. ASSUME NEW p \in Processes, Install(p) PROVE scanning'[t]
  <2>1. CASE loading[p].who = None
    BY <1>1, <1>2, <1>4, <2>1, InstallStep DEF Install
  <2>2. CASE loading[p].who # None
    <3>1. PICK w \in Services : At(w, "loading") /\ \A u \in Services \ {w} : job'[u] = job[u]
      BY <1>4, <2>2, InstallStep DEF ScanBecomes
    <3>2. job[t] # None
      BY <1>1, <3>1 DEF At
    <3> QED
      BY <1>2, <1>4, <3>2 DEF Install
  <2> QED
    BY <2>1, <2>2
<1>5. ASSUME NEW p \in Processes, Crash(p) PROVE scanning'[t]
  <2>1. job[t] # None /\ Home[t] # p
    BY <1>1, <1>5, CrashStep
  <2> QED
    BY <1>5, <2>1 DEF FlagsTell, Crash
<1>6. ASSUME NEW s \in Services, Quiet(s) \/ Restamp(s) PROVE scanning'[t]
  <2>1. /\ \A u \in Services \ {s} : job'[u] = job[u]
        /\ scanning' \in [Services -> BOOLEAN]
        /\ \A u \in Services \ {s} : scanning'[u] = scanning[u]
    BY <1>6, QuietStep, RestampStep
    DEF ScanBecomes, ScanEnds, TypeOK, Quiet, StartScan, Create, SaveFails, Mirror, Panic, Restamp
  <2>2. CASE t # s
    BY <1>1, <2>1, <2>2 DEF FlagsTell
  <2>3. CASE t = s
    <3>1. CASE StartScan(s)
      BY <2>3, <3>1 DEF StartScan, TypeOK
    <3>2. CASE Create(s) \/ SaveFails(s) \/ Mirror(s)
      BY <2>3, <3>2 DEF Create, SaveFails, Mirror, FlagsTell, At
    <3>3. CASE Panic(s) \/ Restamp(s)
      BY <1>1, <2>3, <3>3 DEF Panic, Restamp, TypeOK
    <3> QED
      BY <1>6, <3>1, <3>2, <3>3 DEF Quiet
  <2> QED
    BY <2>2, <2>3
<1>7. ASSUME NEW s \in Services, \/ Load(s) \/ Prior(s) \/ Walk(s) \/ Rename(s) \/ Publish(s)
      PROVE  scanning'[t]
  <2>1. At(s, "load") \/ At(s, "prior") \/ At(s, "walk") \/ At(s, "rename") \/ At(s, "publish")
    BY <1>7 DEF Load, Prior, Walk, Rename, Publish
  <2>2. \A u \in Services \ {s} : job'[u] = job[u]
    BY <1>7, LoadStep, PriorStep, WalkStep, RenameStep, PublishStep DEF ScanBecomes
  <2>3. job[t] # None
    BY <1>1, <2>1, <2>2 DEF At
  <2> QED
    BY <1>2, <1>7, <2>3 DEF Load, Prior, Walk, Rename, Publish
<1>8. ASSUME NEW f \in Files, Touch(f) PROVE scanning'[t]
  BY <1>1, <1>2, <1>8, TouchStep DEF Touch
<1>9. CASE UNCHANGED vars \/ \E kind \in {"missing", "foreign", "malformed"} : Damage(kind)
  BY <1>1, <1>2, <1>9 DEF vars, Damage
<1> QED
  BY <1>3, <1>4, <1>5, <1>6, <1>7, <1>8, <1>9 DEF Next, Quiet

\* No step but its load's own takes a scan from waiting for it.
LEMMA AwaitedStep ==
    ASSUME ServicesAssumption, TypeOK, FlagsTell, LoadsAreAwaited, [Next]_vars
    PROVE  LoadsAreAwaited'
<1>1. SUFFICES ASSUME NEW p \in Processes, NEW w,
                      loading'[p] # None, loading'[p].who = w, w # None
               PROVE  Home[w] = p /\ job'[w] # None /\ job'[w].phase = "loading"
  BY DEF LoadsAreAwaited, At
<1> DEFINE Before == /\ loading[p] # None /\ loading[p].who = w /\ w \in Services
                     /\ Home[w] = p /\ job[w] # None /\ job[w].phase = "loading"
<1>2. ASSUME loading[p] # None, loading[p].who = w PROVE Before
  BY <1>1, <1>2, LoadTyped DEF LoadsAreAwaited, At
<1> HIDE DEF Before
<1>3. ASSUME Before, job'[w] = job[w]
      PROVE  Home[w] = p /\ job'[w] # None /\ job'[w].phase = "loading"
  BY <1>3 DEF Before
<1>4. ASSUME NEW q \in Processes, Open(q)
      PROVE  Home[w] = p /\ job'[w] # None /\ job'[w].phase = "loading"
  <2>1. LoadBecomes(q, None, "read", doc.stamp, {}, FALSE) /\ job' = job
    BY <1>4, Began DEF Open
  <2>2. q # p /\ loading'[p] = loading[p]
    BY <1>1, <2>1 DEF LoadBecomes
  <2> QED
    BY <1>1, <1>2, <1>3, <2>1, <2>2
<1>5. ASSUME NEW q \in Processes, Read(q) \/ Recover(q)
      PROVE  Home[w] = p /\ job'[w] # None /\ job'[w].phase = "loading"
  <2>1. /\ loading[q] # None /\ loading'[q].who = loading[q].who
        /\ \A o \in Processes \ {q} : loading'[o] = loading[o]
    BY <1>5, ReadStep, RecoverStep DEF LoadBecomes
  <2>2. job' = job
    BY <1>5 DEF Read, Recover
  <2>3. loading[p] # None /\ loading[p].who = w
    BY <1>1, <2>1
  <2> QED
    BY <1>2, <1>3, <2>2, <2>3
<1>6. ASSUME NEW q \in Processes, Install(q)
      PROVE  Home[w] = p /\ job'[w] # None /\ job'[w].phase = "loading"
  <2>1. q # p /\ loading'[p] = loading[p]
    BY <1>1, <1>6, InstallStep
  <2>2. Before
    BY <1>1, <1>2, <2>1
  <2>3. job'[w] = job[w]
    <3>1. CASE loading[q].who = None
      BY <1>6, <3>1, InstallStep
    <3>2. CASE loading[q].who # None
      <4>1. Home[loading[q].who] = q /\ \A t \in Services \ {loading[q].who} : job'[t] = job[t]
        BY <1>6, <3>2, InstallStep DEF ScanBecomes
      <4> QED
        BY <2>1, <2>2, <4>1 DEF Before
    <3> QED
      BY <3>1, <3>2
  <2> QED
    BY <1>3, <2>2, <2>3
<1>7. ASSUME NEW q \in Processes, Crash(q)
      PROVE  Home[w] = p /\ job'[w] # None /\ job'[w].phase = "loading"
  <2>1. q # p /\ loading'[p] = loading[p]
    BY <1>1, <1>7, CrashStep
  <2>2. Before
    BY <1>1, <1>2, <2>1
  <2>3. job'[w] = job[w]
    BY <1>7, <2>1, <2>2, CrashStep DEF Before
  <2> QED
    BY <1>3, <2>2, <2>3
<1>8. ASSUME NEW s \in Services, Load(s)
      PROVE  Home[w] = p /\ job'[w] # None /\ job'[w].phase = "loading"
  <2>1. At(s, "load") /\ \A t \in Services \ {s} : job'[t] = job[t]
    BY <1>8, LoadStep DEF ScanBecomes
  <2>2. CASE loading'[p] = loading[p]
    <3>1. Before
      BY <1>1, <1>2, <2>2
    <3> QED
      BY <1>3, <2>1, <3>1 DEF Before, At
  <2>3. CASE loading'[p] # loading[p]
    <3>1. /\ ScanBecomes(s, "loading", job[s].entries, job[s].marks)
          /\ LoadBecomes(Home[s], s, "read", doc.stamp, {}, FALSE)
      BY <1>8, <2>3, LoadStep
    <3>2. p = Home[s]
      BY <2>3, <3>1 DEF LoadBecomes
    <3>3. w = s
      BY <1>1, <3>1, <3>2 DEF LoadBecomes
    <3> QED
      BY <3>1, <3>2, <3>3 DEF ScanBecomes
  <2> QED
    BY <2>2, <2>3
<1>9. ASSUME NEW s \in Services,
             \/ Quiet(s) \/ Prior(s) \/ Walk(s) \/ Rename(s) \/ Publish(s) \/ Restamp(s)
      PROVE  Home[w] = p /\ job'[w] # None /\ job'[w].phase = "loading"
  <2>1. loading' = loading
    BY <1>9, QuietStep DEF Prior, Walk, Rename, Publish, Restamp
  <2>2. Before
    BY <1>1, <1>2, <2>1
  <2>3. \A t \in Services \ {s} : job'[t] = job[t]
    BY <1>9, QuietStep, PriorStep, WalkStep, RenameStep, PublishStep, RestampStep
    DEF ScanBecomes, ScanEnds
  <2>4. job[s] = None \/ job[s].phase # "loading"
    BY <1>9 DEF FlagsTell, Quiet, StartScan, Create, SaveFails, Mirror, Panic, Prior, Walk, Rename, Publish,
                Restamp, At
  <2> QED
    BY <1>3, <2>2, <2>3, <2>4 DEF Before
<1>10. ASSUME NEW f \in Files, Touch(f)
       PROVE  Home[w] = p /\ job'[w] # None /\ job'[w].phase = "loading"
  <2>1. loading' = loading
    BY <1>10 DEF Touch
  <2>2. Before
    BY <1>1, <1>2, <2>1
  <2> QED
    BY <1>10, <2>2, TouchStep DEF Before
<1>11. CASE UNCHANGED vars \/ \E kind \in {"missing", "foreign", "malformed"} : Damage(kind)
  <2>1. loading' = loading /\ job' = job
    BY <1>11 DEF vars, Damage
  <2> QED
    BY <1>1, <1>2, <1>3, <2>1
<1> QED
  BY <1>4, <1>5, <1>6, <1>7, <1>8, <1>9, <1>10, <1>11 DEF Next, Quiet

\* One part of MarksInv for each thing that has marks.
MarksStored == doc.marks /\ sidecar
MarksShared == \A p \in Processes : shared[p].stamp # NotLoaded => shared[p].marks
MarksLoaded == \A p \in Processes : Loads(p, "install") => loading[p].marks
MarksScanned(s) ==
    job[s] # None =>
        /\ job[s].phase \notin {"load", "loading"} => shared[Home[s]].stamp # NotLoaded
        /\ job[s].phase \in Informed => job[s].marks

LEMMA StoredStep ==
    ASSUME ServicesAssumption, MInv, [Next]_vars
    PROVE  MarksStored'
<1> USE DEF MInv, MarksStored
<1>1. doc.marks /\ sidecar
  BY DEF MarksInv
<1>2. ASSUME NEW s \in Services, Quiet(s) PROVE MarksStored'
  BY <1>1, <1>2, QuietStep DEF MarksInv, At, Informed
<1>3. ASSUME NEW s \in Services, Rename(s) PROVE MarksStored'
  BY <1>1, <1>3, RenameStep DEF MarksInv, At, Informed, Rename
<1>4. ASSUME NEW kind \in {"missing", "foreign", "malformed"}, Damage(kind) PROVE MarksStored'
  BY <1>1, <1>4, DamageStep DEF Damage
<1>5. CASE doc' = doc /\ sidecar' = sidecar
  BY <1>1, <1>5
<1> QED
  BY <1>2, <1>3, <1>4, <1>5
  DEF Next, Quiet, vars, Open, Read, Recover, Install, Crash, Load, Prior, Walk, Publish, Restamp,
      Touch, world, store, spent

LEMMA SharedStep ==
    ASSUME ServicesAssumption, MInv, [Next]_vars
    PROVE  MarksShared'
<1> USE DEF MInv
<1>1. SUFFICES ASSUME NEW p \in Processes, shared'[p].stamp # NotLoaded PROVE shared'[p].marks
  BY DEF MarksShared
<1>2. CASE shared'[p] = shared[p]
  BY <1>1, <1>2 DEF MarksInv
<1>3. ASSUME NEW q \in Processes, Install(q) PROVE shared'[p].marks
  BY <1>2, <1>3, InstallStep DEF IndexBecomes, MarksInv, Loads
<1>4. ASSUME NEW q \in Processes, Crash(q) PROVE shared'[p].marks
  BY <1>1, <1>2, <1>4, CrashStep DEF IndexBecomes
<1>5. ASSUME NEW s \in Services, Publish(s) PROVE shared'[p].marks
  BY <1>2, <1>5, PublishStep DEF IndexBecomes, MarksInv, At, Informed
<1>6. ASSUME NEW s \in Services, Restamp(s) PROVE shared'[p].marks
  <2>1. At(s, "stamp") /\ shared[Home[s]].stamp # NotLoaded
    BY <1>6, RestampStep DEF MarksInv, At
  <2>2. shared'[Home[s]].marks = shared[Home[s]].marks
        /\ \A q \in Processes \ {Home[s]} : shared'[q] = shared[q]
    BY <1>6, RestampStep DEF IndexBecomes
  <2>3. Home[s] \in Processes
    BY DEF ServicesAssumption
  <2> QED
    BY <1>2, <2>1, <2>2, <2>3 DEF MarksInv
<1>7. CASE shared' = shared
  BY <1>2, <1>7
<1> QED
  BY <1>3, <1>4, <1>5, <1>6, <1>7
  DEF Next, vars, Open, Read, Recover, StartScan, Load, Prior, Walk, Panic, Create, Rename,
      SaveFails, Mirror, Touch, Damage

LEMMA LoadedStep ==
    ASSUME ServicesAssumption, MInv, [Next]_vars
    PROVE  MarksLoaded'
<1> USE DEF MInv
<1>1. SUFFICES ASSUME NEW p \in Processes, loading'[p] # None, loading'[p].phase = "install"
               PROVE  loading'[p].marks
  BY DEF MarksLoaded, Loads
<1>2. CASE loading'[p] = loading[p]
  BY <1>1, <1>2 DEF MarksInv, Loads
<1>3. ASSUME NEW q \in Processes, Open(q) PROVE loading'[p].marks
  <2>1. LoadBecomes(q, None, "read", doc.stamp, {}, FALSE)
    BY <1>3, Began DEF Open
  <2> QED
    BY <1>1, <1>2, <2>1 DEF LoadBecomes
<1>4. ASSUME NEW q \in Processes, Read(q) PROVE loading'[p].marks
  BY <1>1, <1>2, <1>4, ReadStep DEF LoadBecomes, MarksInv
<1>5. ASSUME NEW q \in Processes, Recover(q) PROVE loading'[p].marks
  BY <1>1, <1>2, <1>5, RecoverStep DEF LoadBecomes, MarksInv, Recovered
<1>6. ASSUME NEW q \in Processes, Install(q) \/ Crash(q) PROVE loading'[p].marks
  BY <1>1, <1>2, <1>6, InstallStep, CrashStep
<1>7. ASSUME NEW s \in Services, Load(s) PROVE loading'[p].marks
  BY <1>1, <1>2, <1>7, LoadStep DEF LoadBecomes
<1>8. CASE loading' = loading
  BY <1>2, <1>8
<1> QED
  BY <1>3, <1>4, <1>5, <1>6, <1>7, <1>8
  DEF Next, vars, StartScan, Prior, Walk, Panic, Create, Rename, SaveFails, Mirror, Publish,
      Restamp, Touch, Damage

LEMMA ScannedStep ==
    ASSUME ServicesAssumption, MInv, [Next]_vars, NEW t \in Services
    PROVE  MarksScanned(t)'
<1> USE DEF MInv
<1>1. SUFFICES ASSUME job'[t] # None
               PROVE  /\ job'[t].phase \notin {"load", "loading"} =>
                            shared'[Home[t]].stamp # NotLoaded
                      /\ job'[t].phase \in Informed => job'[t].marks
  BY DEF MarksScanned
<1> DEFINE Good == /\ job'[t].phase \notin {"load", "loading"} =>
                         shared'[Home[t]].stamp # NotLoaded
                   /\ job'[t].phase \in Informed => job'[t].marks
<1>2. Home[t] \in Processes
  BY DEF ServicesAssumption
<1>3. ASSUME job[t] # None, job'[t].phase = job[t].phase, job'[t].marks = job[t].marks,
             shared[Home[t]].stamp # NotLoaded => shared'[Home[t]].stamp # NotLoaded
      PROVE  Good
  BY <1>3 DEF MarksInv
<1>4. ASSUME NEW p \in Processes, Open(p) \/ Read(p) \/ Recover(p) PROVE Good
  BY <1>1, <1>3, <1>4 DEF Open, Read, Recover
<1>5. ASSUME NEW p \in Processes, Install(p) PROVE Good
  <2>1. PICK n \in Nat : shared'[p].stamp = n /\ \A q \in Processes \ {p} : shared'[q] = shared[q]
    BY <1>5, InstallStep, LoadTyped DEF IndexBecomes
  <2>2. shared[Home[t]].stamp # NotLoaded => shared'[Home[t]].stamp # NotLoaded
    BY <1>2, <2>1 DEF NotLoaded
  <2>3. CASE job'[t] = job[t]
    BY <1>1, <1>3, <2>2, <2>3
  <2>4. CASE job'[t] # job[t]
    <3>1. job'[t].phase = "prior" /\ Home[t] = p
      BY <1>5, <2>4, InstallStep DEF ScanBecomes
    <3> QED
      BY <2>1, <3>1 DEF Informed, NotLoaded
  <2> QED
    BY <2>3, <2>4
<1>6. ASSUME NEW p \in Processes, Crash(p) PROVE Good
  <2>1. job'[t] = job[t] /\ shared'[Home[t]] = shared[Home[t]]
    BY <1>1, <1>2, <1>6, CrashStep DEF IndexBecomes
  <2> QED
    BY <1>1, <1>3, <2>1
<1>7. ASSUME NEW s \in Services, Quiet(s) PROVE Good
  <2>1. shared' = shared /\ \A u \in Services \ {s} : job'[u] = job[u]
    BY <1>7, QuietStep DEF ScanBecomes, ScanEnds
  <2>2. CASE t # s
    BY <1>1, <1>3, <2>1, <2>2
  <2>3. CASE t = s
    BY <1>1, <1>7, <2>1, <2>3, QuietStep DEF ScanBecomes, ScanEnds, MarksInv, At, Informed
  <2> QED
    BY <2>2, <2>3
<1>8. ASSUME NEW s \in Services, Load(s) PROVE Good
  <2>1. shared' = shared /\ \A u \in Services \ {s} : job'[u] = job[u]
    BY <1>8, LoadStep DEF ScanBecomes, Load
  <2>2. CASE t # s
    BY <1>1, <1>3, <2>1, <2>2
  <2>3. ASSUME t = s PROVE Good
    <3>1. job'[s].phase \in {"prior", "loading"}
          /\ (job'[s].phase = "prior" => shared[Home[s]].stamp = doc.stamp)
      BY <1>8, LoadStep DEF ScanBecomes, UpToDate
    <3> QED
      BY <2>1, <2>3, <3>1, DocTyped DEF Informed, NotLoaded
  <2> QED
    BY <2>2, <2>3
<1>9. ASSUME NEW s \in Services, Prior(s) \/ Walk(s) \/ Rename(s) PROVE Good
  <2>1. shared' = shared /\ \A u \in Services \ {s} : job'[u] = job[u]
    BY <1>9, PriorStep, WalkStep, RenameStep DEF ScanBecomes, Prior, Walk, Rename
  <2>2. CASE t # s
    BY <1>1, <1>3, <2>1, <2>2
  <2>3. CASE t = s
    BY <1>1, <1>2, <1>9, <2>1, <2>3, PriorStep, WalkStep, RenameStep
    DEF ScanBecomes, MarksInv, At, Informed
  <2> QED
    BY <2>2, <2>3
<1>10. ASSUME NEW s \in Services, Publish(s) PROVE Good
  <2>1. /\ \A u \in Services \ {s} : job'[u] = job[u]
        /\ shared'[Home[t]].stamp = shared[Home[t]].stamp
    BY <1>2, <1>10, PublishStep DEF ScanBecomes, IndexBecomes
  <2>2. CASE t # s
    BY <1>1, <1>3, <2>1, <2>2
  <2>3. CASE t = s
    BY <1>1, <1>2, <1>10, <2>1, <2>3, PublishStep DEF ScanBecomes, MarksInv, At, Informed
  <2> QED
    BY <2>2, <2>3
<1>11. ASSUME NEW s \in Services, Restamp(s) PROVE Good
  <2>1. t # s /\ job'[t] = job[t]
    BY <1>1, <1>11, RestampStep DEF ScanEnds
  <2>2. shared[Home[t]].stamp # NotLoaded => shared'[Home[t]].stamp # NotLoaded
    BY <1>2, <1>11, RestampStep, DocTyped DEF IndexBecomes, NotLoaded
  <2> QED
    BY <1>1, <1>3, <2>1, <2>2
<1>12. ASSUME NEW f \in Files, Touch(f) PROVE Good
  BY <1>1, <1>3, <1>12, TouchStep DEF Touch
<1>13. CASE UNCHANGED vars \/ \E kind \in {"missing", "foreign", "malformed"} : Damage(kind)
  BY <1>1, <1>3, <1>13 DEF vars, Damage
<1> HIDE DEF MInv
<1>14. Good
  BY <1>4, <1>5, <1>6, <1>7, <1>8, <1>9, <1>10, <1>11, <1>12, <1>13 DEF Next, Quiet
<1> QED
  BY <1>14 DEF Good

LEMMA InitMInv ==
    ASSUME ServicesAssumption, Init
    PROVE  MInv
<1>1. doc \in [kind : Kinds, entries : SUBSET Files, marks : BOOLEAN, stamp : Nat]
  BY DEF Init, Kinds
<1>2. shared \in [Processes -> Indexed]
  BY DEF Init, Unloaded, Indexed
<1>3. TypeOK
  BY <1>1, <1>2 DEF Init, TypeOK, Indexed
<1>4. FlagsTell /\ LoadsAreAwaited
  BY DEF Init, FlagsTell, LoadsAreAwaited
<1>5. MarksInv
  BY DEF Init, MarksInv, Unloaded, Loads
<1> QED
  BY <1>3, <1>4, <1>5 DEF MInv

LEMMA MarksStep ==
    ASSUME ServicesAssumption, MInv, [Next]_vars
    PROVE  MInv'
<1>1. TypeOK' /\ FlagsTell' /\ LoadsAreAwaited'
  BY TypeStep, FlagStep, AwaitedStep DEF MInv
<1>2. MarksStored' /\ MarksShared' /\ MarksLoaded' /\ \A s \in Services : MarksScanned(s)'
  BY StoredStep, SharedStep, LoadedStep, ScannedStep
<1>3. MarksInv'
  BY <1>2 DEF MarksInv, MarksStored, MarksShared, MarksLoaded, MarksScanned
<1> QED
  BY <1>1, <1>3 DEF MInv

\* Whatever is damaged from outside, however writes fail and processes crash, and
\* however many scans overlap, no favourite mark is lost: the document, its sidecar
\* and every index that is loaded have them (issue #68).
THEOREM MarksSurvive ==
    ASSUME ServicesAssumption
    PROVE  Spec => []MarksKept
<1>1. Init => MInv
  BY InitMInv
<1>2. MInv /\ [Next]_vars => MInv'
  BY MarksStep
<1>3. MInv => MarksKept
  BY DEF MInv, MarksInv, MarksKept
<1> QED
  BY <1>1, <1>2, <1>3, PTL DEF Spec

------------------------------------------------------------------------------
(* The entries. Scans come one at a time, and their roots lead to all files.  *)

Orderly == ~ Overlap /\ \A s \in Services : Roots[s] = Files

KInv == MInv /\ KeptInv

\* Current, after the step.
CurrentNext(e) == doc'.kind = "good" => (doc'.entries \ e) \cap shelf' \subseteq changed'

LEMMA StillCurrent ==
    ASSUME ServicesAssumption, TypeOK, [Next]_vars, doc' = doc, NEW e, Current(e)
    PROVE  CurrentNext(e)
<1>1. CASE \E f \in Files : Touch(f)
  BY <1>1 DEF Touch, Current, CurrentNext
<1>2. CASE \E s \in Services : Rename(s)
  BY <1>2, RenameStep, DocTyped DEF NextStamp
<1>3. CASE shelf' = shelf /\ changed' = changed
  BY <1>3 DEF Current, CurrentNext
<1> QED
  BY <1>1, <1>2, <1>3
  DEF Next, vars, Open, Read, Recover, Install, Crash, StartScan, Load, Prior, Walk, Panic, Create,
      SaveFails, Mirror, Publish, Restamp, Damage, world, store

LEMMA HighTyped ==
    ASSUME TypeOK
    PROVE  High \in Nat /\ NextStamp = High + 1
BY DEF TypeOK, High, NextStamp

\* A job that is there after a step was there before it, or has just been started.
LEMMA JobFlow ==
    ASSUME ServicesAssumption, MInv, [Next]_vars, NEW t \in Services, job'[t] # None
    PROVE  \/ StartScan(t)
           \/ /\ job[t] # None
              /\ job'[t].phase \in Unsaved => job[t].phase \in Unsaved
<1> USE DEF MInv
<1> DEFINE Good == \/ StartScan(t)
                   \/ /\ job[t] # None
                      /\ job'[t].phase \in Unsaved => job[t].phase \in Unsaved
<1>1. ASSUME job'[t] = job[t] PROVE Good
  BY <1>1
<1>2. ASSUME NEW p \in Processes, Install(p) PROVE Good
  BY <1>1, <1>2, InstallStep DEF ScanBecomes, At, Unsaved
<1>3. ASSUME NEW p \in Processes, Crash(p) PROVE Good
  BY <1>1, <1>3, CrashStep
<1>4. ASSUME NEW s \in Services, Quiet(s) PROVE Good
  <2>1. \A u \in Services \ {s} : job'[u] = job[u]
    BY <1>4, QuietStep DEF ScanBecomes, ScanEnds
  <2>2. CASE t = s
    BY <1>4, <2>2, QuietStep DEF ScanBecomes, ScanEnds, At, Unsaved
  <2> QED
    BY <1>1, <2>1, <2>2
<1>5. ASSUME NEW s \in Services,
             Load(s) \/ Prior(s) \/ Walk(s) \/ Rename(s) \/ Publish(s) \/ Restamp(s)
      PROVE  Good
  <2>1. \A u \in Services \ {s} : job'[u] = job[u]
    BY <1>5, LoadStep, PriorStep, WalkStep, RenameStep, PublishStep, RestampStep
    DEF ScanBecomes, ScanEnds
  <2>2. ASSUME t = s PROVE Good
    <3>1. /\ job[s] # None
          /\ \/ job[s].phase \in Unsaved
             \/ job'[s] = None
             \/ job'[s].phase \notin Unsaved
      BY <1>5, LoadStep, PriorStep, WalkStep, RenameStep, PublishStep, RestampStep
      DEF ScanBecomes, ScanEnds, At, Unsaved
    <3> QED
      BY <2>2, <3>1
  <2> QED
    BY <1>1, <2>1, <2>2
<1>6. ASSUME NEW f \in Files, Touch(f) PROVE Good
  BY <1>6, TouchStep
<1>7. CASE job' = job
  BY <1>1, <1>7
<1> HIDE DEF MInv
<1>8. Good
  BY <1>2, <1>3, <1>4, <1>5, <1>6, <1>7
  DEF Next, Quiet, vars, Open, Read, Recover, Damage
<1> QED
  BY <1>8

LEMMA OneScanStep ==
    ASSUME ServicesAssumption, Orderly, MInv, OneScan, [Next]_vars
    PROVE  OneScan'
<1>1. SUFFICES ASSUME NEW s \in Services, NEW t \in Services, job'[s] # None, job'[t] # None
               PROVE  s = t
  BY DEF OneScan
<1>2. \A u \in Services : job'[u] # None => StartScan(u) \/ job[u] # None
  BY JobFlow
<1>3. ASSUME NEW u \in Services, NEW v \in Services, StartScan(u), job'[v] # None PROVE u = v
  <2>1. Idle
    BY <1>3 DEF StartScan, Orderly
  <2>2. \A w \in Services \ {u} : job'[w] = job[w]
    BY <1>3, StartStep DEF MInv, ScanBecomes
  <2> QED
    BY <1>3, <2>1, <2>2 DEF Idle
<1> QED
  BY <1>1, <1>2, <1>3 DEF OneScan

\* Nothing gets hold of a stamp higher than the highest there is.
LEMMA StampsFlow ==
    ASSUME ServicesAssumption, MInv, StampsInv, [Next]_vars, NEW p \in Processes
    PROVE  /\ shared'[p].stamp <= High
           /\ loading'[p] # None => loading'[p].stamp <= High
<1> USE DEF MInv
<1>1. High \in Nat /\ doc.stamp <= High /\ NotLoaded <= High
  BY HighTyped DEF StampsInv, NotLoaded
<1>2. ASSUME shared'[p] = shared[p] PROVE shared'[p].stamp <= High
  BY <1>2 DEF StampsInv
<1>3. ASSUME loading'[p] = loading[p]
      PROVE  loading'[p] # None => loading'[p].stamp <= High
  BY <1>3 DEF StampsInv
<1> DEFINE Good == /\ shared'[p].stamp <= High
                   /\ loading'[p] # None => loading'[p].stamp <= High
<1>4. ASSUME NEW q \in Processes, Open(q) PROVE Good
  <2>1. LoadBecomes(q, None, "read", doc.stamp, {}, FALSE) /\ shared' = shared
    BY <1>4, Began DEF Open
  <2> QED
    BY <1>1, <1>2, <1>3, <2>1 DEF LoadBecomes
<1>5. ASSUME NEW q \in Processes, Read(q) \/ Recover(q) PROVE Good
  <2>1. /\ loading[q] # None /\ loading'[q].stamp = loading[q].stamp
        /\ \A o \in Processes \ {q} : loading'[o] = loading[o]
    BY <1>5, ReadStep, RecoverStep DEF LoadBecomes
  <2>2. shared' = shared
    BY <1>5 DEF Read, Recover
  <2>3. loading[q].stamp <= High
    BY <2>1 DEF StampsInv
  <2> QED
    BY <1>2, <1>3, <2>1, <2>2, <2>3
<1>6. ASSUME NEW q \in Processes, Install(q) PROVE Good
  <2>1. loading[q].stamp <= High
    BY <1>6, InstallStep DEF StampsInv
  <2> QED
    BY <1>2, <1>3, <1>6, <2>1, InstallStep DEF IndexBecomes
<1>7. ASSUME NEW q \in Processes, Crash(q) PROVE Good
  BY <1>1, <1>2, <1>3, <1>7, CrashStep DEF IndexBecomes
<1>8. ASSUME NEW s \in Services, Load(s) PROVE Good
  <2>1. shared' = shared
    BY <1>8 DEF Load
  <2> QED
    BY <1>1, <1>2, <1>3, <1>8, <2>1, LoadStep DEF LoadBecomes
<1>9. ASSUME NEW s \in Services, Publish(s) \/ Restamp(s) PROVE Good
  <2>1. /\ shared'[Home[s]].stamp \in {doc.stamp, shared[Home[s]].stamp}
        /\ \A q \in Processes \ {Home[s]} : shared'[q] = shared[q]
    BY <1>9, PublishStep, RestampStep DEF IndexBecomes
  <2>2. loading' = loading /\ Home[s] \in Processes
    BY <1>9 DEF Publish, Restamp, ServicesAssumption
  <2>3. shared[p].stamp <= High
    BY DEF StampsInv
  <2>4. shared'[p].stamp <= High
    BY <1>1, <2>1, <2>2, <2>3
  <2> QED
    BY <1>3, <2>2, <2>4
<1>10. CASE shared' = shared /\ loading' = loading
  BY <1>2, <1>3, <1>10
<1> HIDE DEF MInv
<1>11. Good
  BY <1>4, <1>5, <1>6, <1>7, <1>8, <1>9, <1>10
  DEF Next, vars, StartScan, Prior, Walk, Panic, Create, Rename, SaveFails, Mirror, Touch, Damage
<1> QED
  BY <1>11

LEMMA StampsStep ==
    ASSUME ServicesAssumption, Orderly, MInv, KeptInv, [Next]_vars
    PROVE  StampsInv'
<1>1. TypeOK /\ TypeOK' /\ StampsInv /\ OneScan
  BY MarksStep DEF MInv, KeptInv
<1>2. /\ High \in Nat /\ NextStamp = High + 1 /\ doc.stamp <= High /\ High <= 1 + scans + damage
      /\ doc.stamp \in Nat /\ doc'.stamp \in Nat /\ scans \in Nat /\ damage \in Nat
      /\ High' = IF doc'.kind = "missing" THEN scans' + damage' ELSE doc'.stamp
  BY <1>1, HighTyped DEF StampsInv, TypeOK, High
<1>3. \A t \in Services : job[t] # None /\ job[t].phase \in Unsaved => High <= scans + damage
  BY <1>1 DEF StampsInv
<1> DEFINE Good == /\ High <= High' /\ doc'.stamp <= High' /\ High' <= 1 + scans' + damage'
                   /\ \A t \in Services : job'[t] # None /\ job'[t].phase \in Unsaved =>
                         High' <= scans' + damage'
<1>4. ASSUME NEW s \in Services, StartScan(s) PROVE Good
  <2>1. doc' = doc /\ damage' = damage /\ scans' = scans + 1
    BY <1>4 DEF StartScan, store
  <2>2. High' \in {High, High + 1} /\ doc'.stamp <= High' /\ High' <= scans' + damage'
    BY <1>2, <2>1 DEF High
  <2> QED
    BY <1>2, <2>1, <2>2
<1>5. ASSUME NEW s \in Services, Rename(s) PROVE Good
  <2>1. /\ doc'.kind = "good" /\ doc'.stamp = NextStamp
        /\ scans' = scans /\ damage' = damage
    BY <1>1, <1>5, RenameStep DEF Rename, spent
  <2>2. High <= scans + damage
    BY <1>3, <1>5 DEF Rename, At, Unsaved
  <2>3. High' = High + 1
    BY <1>2, <2>1
  <2>4. \A t \in Services : job'[t] # None => job'[t].phase = "mirror"
    BY <1>1, <1>5, RenameStep DEF ScanBecomes, OneScan, At
  <2> QED
    BY <1>2, <2>1, <2>2, <2>3, <2>4 DEF Unsaved
<1>6. ASSUME NEW kind \in {"missing", "foreign", "malformed"}, Damage(kind) PROVE Good
  <2>1. /\ doc'.kind = kind /\ doc'.stamp = (IF kind = "missing" THEN 0 ELSE NextStamp)
        /\ scans' = scans /\ damage' = damage + 1
    BY <1>1, <1>6, DamageStep DEF Damage
  <2>2. \A t \in Services : job'[t] = None
    BY <1>6 DEF Damage, Orderly, Idle
  <2>3. High' = IF kind = "missing" THEN scans + damage + 1 ELSE High + 1
    BY <1>2, <2>1
  <2> QED
    BY <1>2, <2>1, <2>2, <2>3
<1>7. ASSUME doc' = doc, scans' = scans, damage' = damage, \A t \in Services : ~ StartScan(t)
      PROVE  Good
  <2>1. High' = High
    BY <1>7 DEF High
  <2>2. \A t \in Services : job'[t] # None /\ job'[t].phase \in Unsaved =>
           job[t] # None /\ job[t].phase \in Unsaved
    BY <1>7, JobFlow
  <2> QED
    BY <1>2, <1>3, <1>7, <2>1, <2>2
<1>8. Good
  <2>1. \/ \E s \in Services : StartScan(s) \/ Rename(s)
        \/ \E kind \in {"missing", "foreign", "malformed"} : Damage(kind)
        \/ doc' = doc /\ scans' = scans /\ damage' = damage
    BY DEF Next, vars, Open, Read, Recover, Install, Crash, Load, Prior, Walk, Panic, Create,
           SaveFails, Mirror, Publish, Restamp, Touch, store, spent
  <2> QED
    BY <1>4, <1>5, <1>6, <1>7, <2>1
<1>9. \A p \in Processes : shared'[p].stamp <= High'
  <2>1. SUFFICES ASSUME NEW p \in Processes PROVE shared'[p].stamp <= High'
    OBVIOUS
  <2>2. shared'[p].stamp <= High /\ shared'[p].stamp \in Int /\ High' \in Int
    <3>1. shared'[p].stamp \in Nat \cup {NotLoaded}
      BY <1>1 DEF TypeOK
    <3>2. High' \in Int
      BY <1>1, <1>2 DEF TypeOK
    <3> QED
      BY <1>1, <3>1, <3>2, StampsFlow DEF NotLoaded
  <2> QED
    BY <1>2, <1>8, <2>2
<1>10. \A p \in Processes : loading'[p] # None => loading'[p].stamp <= High'
  <2>1. SUFFICES ASSUME NEW p \in Processes, loading'[p] # None PROVE loading'[p].stamp <= High'
    OBVIOUS
  <2>2. loading'[p].stamp <= High /\ loading'[p].stamp \in Int /\ High' \in Int
    <3>1. loading'[p].stamp \in Nat
      BY <1>1, <2>1 DEF TypeOK, Loadings
    <3>2. High' \in Int
      BY <1>1, <1>2 DEF TypeOK
    <3> QED
      BY <1>1, <2>1, <3>1, <3>2, StampsFlow
  <2> QED
    BY <1>2, <1>8, <2>2
<1> QED
  BY <1>8, <1>9, <1>10 DEF StampsInv

LEMMA DocChanges ==
    ASSUME [Next]_vars
    PROVE  \/ \E s \in Services : Rename(s)
           \/ \E kind \in {"missing", "foreign", "malformed"} : Damage(kind)
           \/ doc' = doc
BY DEF Next, vars, Open, Read, Recover, Install, Crash, StartScan, Load, Prior, Walk, Panic,
       Create, SaveFails, Mirror, Publish, Restamp, Touch, store

\* The document just written has a stamp nobody has.
LEMMA RenamedApart ==
    ASSUME ServicesAssumption, MInv, StampsInv, NEW s \in Services, Rename(s), NEW p \in Processes
    PROVE  /\ shared' = shared /\ loading' = loading
           /\ shared[p].stamp # doc'.stamp
           /\ loading[p] # None => loading[p].stamp # doc'.stamp
<1>1. /\ shared' = shared /\ loading' = loading /\ doc'.stamp = High + 1 /\ High \in Nat
      /\ TypeOK
  BY RenameStep, HighTyped DEF MInv, Rename
<1>2. shared[p].stamp <= High /\ shared[p].stamp \in Int
  BY <1>1, IndexTyped DEF StampsInv, NotLoaded
<1>3. ASSUME loading[p] # None PROVE loading[p].stamp <= High /\ loading[p].stamp \in Int
  BY <1>1, <1>3, LoadTyped DEF StampsInv
<1> QED
  BY <1>1, <1>2, <1>3

LEMMA IndexStep ==
    ASSUME ServicesAssumption, MInv, KeptInv, [Next]_vars
    PROVE  IndexCurrent'
<1>1. TypeOK /\ LoadsAreAwaited /\ StampsInv
  BY DEF MInv, KeptInv
<1>2. SUFFICES ASSUME NEW p \in Processes, shared'[p].stamp = doc'.stamp
               PROVE  CurrentNext(shared'[p].entries)
  BY DEF IndexCurrent, Current, CurrentNext
<1>3. CASE \E s \in Services : Rename(s)
  BY <1>2, <1>3, <1>1, RenamedApart
<1>4. CASE \E kind \in {"missing", "foreign", "malformed"} : Damage(kind)
  BY <1>1, <1>4, DamageStep DEF CurrentNext
<1>5. CASE doc' = doc
  <2>1. SUFFICES Current(shared'[p].entries)
    BY <1>1, <1>5, StillCurrent
  <2>2. ASSUME shared'[p] = shared[p] PROVE Current(shared'[p].entries)
    BY <1>2, <1>5, <2>2 DEF KeptInv, IndexCurrent
  <2>3. ASSUME NEW q \in Processes, Install(q) PROVE Current(shared'[p].entries)
    <3>1. loading[q] # None /\ loading[q].phase = "install"
          /\ shared'[q].stamp = loading[q].stamp /\ shared'[q].entries = loading[q].entries
          /\ \A o \in Processes \ {q} : shared'[o] = shared[o]
      BY <1>1, <2>3, InstallStep DEF IndexBecomes
    <3>2. CASE p = q
      <4>1. loading[q].stamp = doc.stamp
        BY <1>2, <1>5, <3>1, <3>2
      <4>2. doc.kind = "good" => Current(loading[q].entries)
        BY <3>1, <4>1 DEF KeptInv, LoadCurrent
      <4> QED
        BY <3>1, <3>2, <4>2 DEF Current
    <3>3. CASE p # q
      BY <2>2, <3>1, <3>3
    <3> QED
      BY <3>2, <3>3
  <2>4. ASSUME NEW q \in Processes, Crash(q) PROVE Current(shared'[p].entries)
    <3>1. shared'[q].stamp = NotLoaded /\ \A o \in Processes \ {q} : shared'[o] = shared[o]
      BY <1>1, <2>4, CrashStep DEF IndexBecomes
    <3>2. p # q
      BY <1>1, <1>2, <1>5, <3>1, DocTyped DEF NotLoaded
    <3> QED
      BY <2>2, <3>1, <3>2
  <2>5. ASSUME NEW s \in Services, Publish(s) \/ Restamp(s) PROVE Current(shared'[p].entries)
    <3>1. \A q \in Processes \ {Home[s]} : shared'[q] = shared[q]
      BY <1>1, <2>5, PublishStep, RestampStep DEF IndexBecomes
    <3>2. Current(shared'[Home[s]].entries)
      <4>1. CASE Publish(s)
        <5>1. At(s, "publish") /\ shared'[Home[s]].entries = job[s].entries
          BY <1>1, <4>1, PublishStep DEF IndexBecomes
        <5> QED
          BY <5>1 DEF KeptInv, ScanCurrent, At, Informed
      <4>2. CASE Restamp(s)
        <5>1. At(s, "stamp") /\ shared'[Home[s]].entries = shared[Home[s]].entries
          BY <1>1, <4>2, RestampStep DEF IndexBecomes
        <5> QED
          BY <5>1 DEF KeptInv, ScanCurrent, At
      <4> QED
        BY <2>5, <4>1, <4>2
    <3> QED
      BY <2>2, <3>1, <3>2
  <2>6. CASE shared' = shared
    BY <2>2, <2>6
  <2> QED
    BY <2>3, <2>4, <2>5, <2>6
    DEF Next, vars, Open, Read, Recover, StartScan, Load, Prior, Walk, Panic, Create, Rename,
        SaveFails, Mirror, Touch, Damage
<1> QED
  BY <1>3, <1>4, <1>5, DocChanges

LEMMA LoadCurrentStep ==
    ASSUME ServicesAssumption, MInv, KeptInv, [Next]_vars
    PROVE  LoadCurrent'
<1>1. TypeOK /\ LoadsAreAwaited /\ StampsInv
  BY DEF MInv, KeptInv
<1> DEFINE Good(p) == \/ loading'[p].phase = "read"
                      \/ loading'[p].phase = "install" /\ CurrentNext(loading'[p].entries)
<1>2. SUFFICES ASSUME NEW p \in Processes, loading'[p] # None, loading'[p].stamp = doc'.stamp,
                      doc'.kind = "good"
               PROVE  Good(p)
  BY DEF LoadCurrent, Current, CurrentNext
<1>3. CASE \E s \in Services : Rename(s)
  BY <1>1, <1>2, <1>3, RenamedApart
<1>4. CASE \E kind \in {"missing", "foreign", "malformed"} : Damage(kind)
  BY <1>1, <1>2, <1>4, DamageStep
<1>5. CASE doc' = doc
  <2>1. \A e : Current(e) => CurrentNext(e)
    BY <1>1, <1>5, StillCurrent
  <2>2. ASSUME loading'[p] = loading[p] PROVE Good(p)
    <3>1. \/ loading[p].phase = "read"
          \/ loading[p].phase = "install" /\ Current(loading[p].entries)
      BY <1>2, <1>5, <2>2 DEF KeptInv, LoadCurrent
    <3> QED
      BY <2>1, <2>2, <3>1
  <2>3. ASSUME NEW q \in Processes, Open(q) PROVE Good(p)
    <3>1. LoadBecomes(q, None, "read", doc.stamp, {}, FALSE)
      BY <1>1, <2>3, Began DEF Open
    <3> QED
      BY <2>2, <3>1 DEF LoadBecomes
  <2>4. ASSUME NEW q \in Processes, Read(q) PROVE Good(p)
    <3>1. LoadBecomes(q, loading[q].who, "install", loading[q].stamp, doc.entries, doc.marks)
      BY <1>1, <1>2, <1>5, <2>4, ReadStep
    <3>2. Current(doc.entries)
      BY DEF Current
    <3> QED
      BY <2>1, <2>2, <3>1, <3>2 DEF LoadBecomes
  <2>5. ASSUME NEW q \in Processes, Recover(q) PROVE Good(p)
    <3>1. loading[q] # None /\ loading[q].phase = "recover"
          /\ loading'[q].stamp = loading[q].stamp
          /\ \A o \in Processes \ {q} : loading'[o] = loading[o]
      BY <1>1, <2>5, RecoverStep DEF LoadBecomes
    <3>2. p # q
      BY <1>2, <1>5, <3>1 DEF KeptInv, LoadCurrent
    <3> QED
      BY <2>2, <3>1, <3>2
  <2>6. ASSUME NEW q \in Processes, Install(q) \/ Crash(q) PROVE Good(p)
    BY <1>1, <1>2, <2>2, <2>6, InstallStep, CrashStep
  <2>7. ASSUME NEW s \in Services, Load(s) PROVE Good(p)
    BY <1>1, <2>2, <2>7, LoadStep DEF LoadBecomes
  <2>8. CASE loading' = loading
    BY <2>2, <2>8
  <2> HIDE DEF Good
  <2> QED
    BY <2>3, <2>4, <2>5, <2>6, <2>7, <2>8
    DEF Next, vars, StartScan, Prior, Walk, Panic, Create, Rename, SaveFails, Mirror, Publish,
        Restamp, Touch, Damage
<1> QED
  BY <1>3, <1>4, <1>5, DocChanges

\* The five clauses of ScanCurrent, after the step.
ScanNext(s) ==
    /\ job'[s].phase = "loading" => /\ loading'[Home[s]] # None /\ loading'[Home[s]].who = s
                                    /\ loading'[Home[s]].stamp = doc'.stamp
    /\ job'[s].phase \in Based => shared'[Home[s]].stamp = doc'.stamp /\ loading'[Home[s]] = None
    /\ job'[s].phase \in Informed => CurrentNext(job'[s].entries)
    /\ job'[s].phase \in Closing /\ loading'[Home[s]] # None =>
          loading'[Home[s]].stamp = doc'.stamp
    /\ job'[s].phase = "stamp" => CurrentNext(shared'[Home[s]].entries)

\* The same clauses before it, of a scan that is there.
LEMMA ScanNow ==
    ASSUME ScanCurrent, NEW s \in Services, job[s] # None
    PROVE  /\ job[s].phase = "loading" => /\ loading[Home[s]] # None /\ loading[Home[s]].who = s
                                          /\ loading[Home[s]].stamp = doc.stamp
           /\ job[s].phase \in Based =>
                 shared[Home[s]].stamp = doc.stamp /\ loading[Home[s]] = None
           /\ job[s].phase \in Informed => Current(job[s].entries)
           /\ job[s].phase \in Closing /\ loading[Home[s]] # None =>
                 loading[Home[s]].stamp = doc.stamp
           /\ job[s].phase = "stamp" => Current(shared[Home[s]].entries)
BY DEF ScanCurrent, UpToDate

\* A step that leaves a scan, its process's index and the load there as they are.
LEMMA ScanRests ==
    ASSUME ServicesAssumption, TypeOK, ScanCurrent, [Next]_vars, doc' = doc,
           NEW s \in Services, job[s] # None,
           job'[s].phase = job[s].phase, job'[s].entries = job[s].entries,
           shared'[Home[s]] = shared[Home[s]],
           loading'[Home[s]] # None <=> loading[Home[s]] # None,
           loading[Home[s]] # None => /\ loading'[Home[s]].who = loading[Home[s]].who
                                      /\ loading'[Home[s]].stamp = loading[Home[s]].stamp
    PROVE  ScanNext(s)
<1>1. \A e : Current(e) => CurrentNext(e)
  BY StillCurrent
<1> QED
  BY <1>1, ScanNow DEF ScanNext

\* What a load in the process of a scan does to the scan.
LEMMA ScanMeetsLoad ==
    ASSUME ServicesAssumption, MInv, KeptInv, [Next]_vars, doc' = doc,
           NEW s \in Services, job'[s] # None,
           NEW q \in Processes, Open(q) \/ Read(q) \/ Recover(q) \/ Install(q) \/ Crash(q)
    PROVE  ScanNext(s)
<1>1. /\ TypeOK /\ LoadsAreAwaited /\ ScanCurrent /\ LoadCurrent /\ Home[s] \in Processes
      /\ \A e : Current(e) => CurrentNext(e)
  BY StillCurrent DEF MInv, KeptInv, ServicesAssumption
<1>2. CASE Open(q)
  <2>1. /\ LoadBecomes(q, None, "read", doc.stamp, {}, FALSE) /\ loading[q] = None
        /\ job' = job /\ shared' = shared /\ shared[q].stamp # doc.stamp
    BY <1>1, <1>2, Began DEF Open, UpToDate
  <2>2. CASE q = Home[s]
    BY <1>1, <2>1, <2>2, ScanNow DEF ScanNext, LoadBecomes
  <2>3. CASE q # Home[s]
    BY <1>1, <2>1, <2>3, ScanRests DEF LoadBecomes
  <2> QED
    BY <2>2, <2>3
<1>3. CASE Read(q) \/ Recover(q)
  <2>1. /\ loading[q] # None /\ loading'[q] # None
        /\ loading'[q].who = loading[q].who /\ loading'[q].stamp = loading[q].stamp
        /\ \A o \in Processes \ {q} : loading'[o] = loading[o]
    BY <1>1, <1>3, ReadStep, RecoverStep DEF LoadBecomes
  <2>2. job' = job /\ shared' = shared
    BY <1>3 DEF Read, Recover
  <2> QED
    BY <1>1, <2>1, <2>2, ScanRests
<1>4. CASE Install(q)
  <2>1. /\ loading[q] # None /\ loading[q].phase = "install" /\ loading'[q] = None
        /\ \A o \in Processes \ {q} : loading'[o] = loading[o] /\ shared'[o] = shared[o]
        /\ shared'[q].stamp = loading[q].stamp /\ shared'[q].entries = loading[q].entries
    BY <1>1, <1>4, InstallStep DEF IndexBecomes
  <2>2. \/ job'[s] = job[s] /\ loading[q].who # s
        \/ /\ loading[q].who = s /\ q = Home[s] /\ job[s] # None /\ job[s].phase = "loading"
           /\ job'[s].phase = "prior"
    <3>1. CASE loading[q].who = None
      BY <1>1, <1>4, <3>1, InstallStep DEF ServicesAssumption
    <3>2. CASE loading[q].who # None
      BY <1>1, <1>4, <3>2, InstallStep DEF ScanBecomes, At
    <3> QED
      BY <3>1, <3>2
  <2>3. CASE q # Home[s]
    BY <1>1, <2>1, <2>2, <2>3, ScanRests
  <2>4. CASE q = Home[s] /\ loading[q].who = s
    BY <1>1, <2>1, <2>2, <2>4, ScanNow DEF ScanNext, Based, Informed, Closing
  <2>5. CASE q = Home[s] /\ loading[q].who # s
    <3>1. job'[s] = job[s] /\ job[s] # None
      BY <2>2, <2>5
    <3>2. job[s].phase # "loading" /\ job[s].phase \notin Based
      BY <1>1, <2>1, <2>5, <3>1, ScanNow
    <3>3. job[s].phase = "stamp" => Current(loading[q].entries)
      <4>1. SUFFICES ASSUME job[s].phase = "stamp", doc.kind = "good"
                     PROVE  Current(loading[q].entries)
        BY DEF Current
      <4>2. loading[q].stamp = doc.stamp
        BY <1>1, <2>1, <2>5, <3>1, <4>1, ScanNow DEF Closing
      <4> QED
        BY <1>1, <2>1, <4>1, <4>2 DEF LoadCurrent
    <3> QED
      BY <1>1, <2>1, <2>5, <3>1, <3>2, <3>3, ScanNow DEF ScanNext
  <2> QED
    BY <2>3, <2>4, <2>5
<1>5. CASE Crash(q)
  <2>1. /\ job'[s] = job[s] /\ Home[s] # q
        /\ shared'[Home[s]] = shared[Home[s]] /\ loading'[Home[s]] = loading[Home[s]]
    BY <1>1, <1>5, CrashStep DEF IndexBecomes
  <2> QED
    BY <1>1, <2>1, ScanRests
<1> QED
  BY <1>2, <1>3, <1>4, <1>5

\* What a scan does to itself.
LEMMA ScanMoves ==
    ASSUME ServicesAssumption, Orderly, MInv, KeptInv, [Next]_vars, doc' = doc,
           NEW s \in Services, job'[s] # None,
           \/ Quiet(s) \/ Load(s) \/ Prior(s) \/ Walk(s) \/ Publish(s) \/ Restamp(s)
    PROVE  ScanNext(s)
<1>1. /\ TypeOK /\ ScanCurrent /\ IndexCurrent /\ Home[s] \in Processes
      /\ \A e : Current(e) => CurrentNext(e)
  BY StillCurrent DEF MInv, KeptInv, ServicesAssumption
<1> USE DEF Based, Informed, Closing
<1>2. CASE Quiet(s)
  <2>1. shared' = shared /\ loading' = loading
    BY <1>1, <1>2, QuietStep
  <2>2. \/ job'[s].phase = "load"
        \/ /\ job[s] # None /\ job'[s].entries = job[s].entries
           /\ \/ job[s].phase = "create" /\ job'[s].phase = "rename"
              \/ job[s].phase \in {"create", "rename"} /\ job'[s].phase = "mirror"
              \/ job[s].phase = "mirror" /\ job'[s].phase = "publish"
    BY <1>1, <1>2, QuietStep DEF ScanBecomes, ScanEnds, At
  <2> QED
    BY <1>1, <2>1, <2>2, ScanNow DEF ScanNext
<1>3. CASE Load(s)
  BY <1>1, <1>3, LoadStep DEF ScanNext, ScanBecomes, LoadBecomes, UpToDate, Load
<1>4. CASE Prior(s)
  <2>1. /\ job[s] # None /\ job[s].phase = "prior" /\ job'[s].phase = "walk"
        /\ job'[s].entries = shared[Home[s]].entries /\ shared' = shared /\ loading' = loading
    BY <1>1, <1>4, PriorStep DEF ScanBecomes, At, Prior
  <2>2. shared[Home[s]].stamp = doc.stamp /\ loading[Home[s]] = None
    BY <1>1, <2>1, ScanNow
  <2>3. Current(shared[Home[s]].entries)
    BY <1>1, <2>2 DEF IndexCurrent
  <2> QED
    BY <1>1, <2>1, <2>2, <2>3 DEF ScanNext
<1>5. CASE Walk(s)
  <2>1. PICK e \in SUBSET Files :
           /\ ScanBecomes(s, "create", e, job[s].marks)
           /\ Roots[s] = Files => job[s].entries \cap shelf \subseteq e
    BY <1>1, <1>5, WalkStep
  <2>2. Roots[s] = Files
    BY DEF Orderly
  <2>3. job'[s].phase = "create" /\ job'[s].entries = e
    BY <2>1 DEF ScanBecomes
  <2>4. /\ job[s] # None /\ job[s].phase = "walk" /\ job'[s].phase = "create"
        /\ job[s].entries \cap shelf \subseteq job'[s].entries
        /\ shared' = shared /\ loading' = loading
    BY <1>5, <2>1, <2>2, <2>3 DEF At, Walk
  <2>5. shared[Home[s]].stamp = doc.stamp /\ loading[Home[s]] = None /\ Current(job[s].entries)
    BY <1>1, <2>4, ScanNow
  <2>6. Current(job'[s].entries)
    BY <2>4, <2>5 DEF Current
  <2> QED
    BY <1>1, <2>4, <2>5, <2>6 DEF ScanNext
<1>6. CASE Publish(s)
  <2>1. /\ job[s] # None /\ job[s].phase = "publish" /\ job'[s].phase = "stamp"
        /\ job'[s].entries = job[s].entries /\ shared'[Home[s]].entries = job[s].entries
        /\ loading' = loading
    BY <1>1, <1>6, PublishStep DEF ScanBecomes, IndexBecomes, At, Publish
  <2> QED
    BY <1>1, <2>1, ScanNow DEF ScanNext
<1>7. CASE Restamp(s)
  BY <1>1, <1>7, RestampStep DEF ScanEnds
<1> QED
  BY <1>2, <1>3, <1>4, <1>5, <1>6, <1>7

LEMMA ScanCurrentStep ==
    ASSUME ServicesAssumption, Orderly, MInv, KeptInv, [Next]_vars
    PROVE  ScanCurrent'
<1>1. TypeOK /\ OneScan /\ OneScan' /\ StampsInv /\ ScanCurrent
  BY OneScanStep DEF MInv, KeptInv
<1>2. SUFFICES ASSUME NEW s \in Services, job'[s] # None PROVE ScanNext(s)
  BY DEF ScanCurrent, ScanNext, Current, CurrentNext, UpToDate
<1>3. ASSUME NEW t \in Services, Rename(t) PROVE ScanNext(s)
  <2>1. /\ job[t] # None /\ job[t].phase = "rename" /\ job'[t] # None /\ job'[t].phase = "mirror"
        /\ job'[t].entries = job[t].entries /\ doc'.entries = job[t].entries
        /\ shared' = shared /\ loading' = loading
    BY <1>1, <1>3, RenameStep DEF ScanBecomes, At, Rename
  <2>2. s = t
    BY <1>1, <1>2, <2>1 DEF OneScan
  <2>3. loading'[Home[s]] = None
    BY <1>1, <2>1, <2>2, ScanNow DEF Based
  <2>4. CurrentNext(job'[s].entries)
    BY <2>1, <2>2 DEF CurrentNext
  <2> QED
    BY <2>1, <2>2, <2>3, <2>4 DEF ScanNext, Based, Informed, Closing
<1>4. ASSUME NEW kind \in {"missing", "foreign", "malformed"}, Damage(kind) PROVE ScanNext(s)
  BY <1>2, <1>4 DEF Damage, Orderly, Idle
<1>5. CASE doc' = doc
  <2>1. ASSUME NEW t \in Services,
               \/ Quiet(t) \/ Load(t) \/ Prior(t) \/ Walk(t) \/ Publish(t) \/ Restamp(t)
        PROVE  ScanNext(s)
    <3>1. CASE t = s
      BY <1>2, <1>5, <2>1, <3>1, ScanMoves
    <3>2. CASE t # s
      <4>1. job'[s] = job[s]
        BY <1>1, <2>1, <3>2, QuietStep, LoadStep, PriorStep, WalkStep, PublishStep, RestampStep
        DEF ScanBecomes, ScanEnds
      <4>2. ~ StartScan(t)
        BY <1>2, <4>1 DEF StartScan, Orderly, Idle
      <4>3. job[t] # None
        BY <2>1, <4>2 DEF Quiet, Create, SaveFails, Mirror, Panic, Load, Prior, Walk, Publish,
                          Restamp, At
      <4> QED
        BY <1>1, <1>2, <3>2, <4>1, <4>3 DEF OneScan
    <3> QED
      BY <3>1, <3>2
  <2>2. ASSUME NEW f \in Files, Touch(f) PROVE ScanNext(s)
    <3>1. shared' = shared /\ loading' = loading
      BY <2>2 DEF Touch
    <3> QED
      BY <1>1, <1>2, <1>5, <2>2, <3>1, TouchStep, ScanRests
  <2>3. CASE UNCHANGED vars
    <3>1. shared' = shared /\ loading' = loading /\ job' = job
      BY <2>3 DEF vars
    <3> QED
      BY <1>1, <1>2, <1>5, <3>1, ScanRests
  <2> QED
    BY <1>2, <1>3, <1>4, <1>5, <2>1, <2>2, <2>3, ScanMeetsLoad DEF Next, Quiet
<1> QED
  BY <1>3, <1>4, <1>5, DocChanges

LEMMA InitKInv ==
    ASSUME ServicesAssumption, Init
    PROVE  KInv
<1>1. MInv
  BY InitMInv
<1>2. StampsInv
  BY DEF Init, StampsInv, High, Unloaded, NotLoaded
<1>3. OneScan /\ IndexCurrent /\ LoadCurrent /\ ScanCurrent
  BY DEF Init, OneScan, IndexCurrent, LoadCurrent, ScanCurrent, Unloaded, NotLoaded
<1> QED
  BY <1>1, <1>2, <1>3 DEF KInv, KeptInv

\* Scans of the same roots, one at a time: none takes from the document the entry of
\* a file that is there and was not touched since the scan that wrote it began,
\* whatever loads, failures, damage and crashes come between (library.rs:416-423).
THEOREM EntriesSurvive ==
    ASSUME ServicesAssumption, Orderly
    PROVE  Spec => KeptIfPresent
<1>1. Init => KInv
  BY InitKInv
<1>2. KInv /\ [Next]_vars => KInv'
  BY MarksStep, StampsStep, OneScanStep, IndexStep, LoadCurrentStep, ScanCurrentStep
  DEF KInv, KeptInv
<1>3. KInv /\ [Next]_vars =>
        [doc.kind = "good" /\ doc'.kind = "good" =>
            (doc.entries \ doc'.entries) \cap shelf \subseteq changed]_doc
  <2> SUFFICES ASSUME KInv, [Next]_vars, doc.kind = "good", doc'.kind = "good", doc' # doc
               PROVE  (doc.entries \ doc'.entries) \cap shelf \subseteq changed
    OBVIOUS
  <2>1. TypeOK /\ ScanCurrent
    BY DEF KInv, MInv, KeptInv
  <2>2. PICK s \in Services : Rename(s)
    BY <2>1, DocChanges, DamageStep
  <2>3. /\ job[s] # None /\ job[s].phase = "rename" /\ doc'.entries = job[s].entries
    BY <2>1, <2>2, RenameStep DEF At
  <2>4. Current(job[s].entries)
    BY <2>1, <2>3, ScanNow DEF Informed
  <2> QED
    BY <2>3, <2>4 DEF Current
<1> QED
  BY <1>1, <1>2, <1>3, PTL DEF Spec, KeptIfPresent
=============================================================================
