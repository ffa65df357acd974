------------------------------ MODULE ScanState ------------------------------
(* What LibraryScan and its proofs are about: files, the index of them, and *)
(* the promise that other modules cite.                                     *)
EXTENDS SequencesExt, Absence

CONSTANTS
    Paths,      \* the paths of files: a directory's and a name
    Leads       \* Leads[d]: the directory a path leads to

VARIABLES
    disk,       \* place |-> content and modification time
    index,      \* path |-> what the index holds of it
    scan,       \* the scan in progress, None between scans
    cancel,     \* its cancellation flag
    touched,    \* ghost: places edited or deleted since the scan in progress began
    unsure      \* ghost: paths whose entry was suspect when a scan passed it by

Absent == [content |-> 0, mtime |-> 0]
Place(p) == <<Leads[p[1]], p[2]>>
Holds(map, p) == map[p].content # 0
Below(d) == {p \in Paths : IsPrefix(d, p[1])}

(* A scan never takes an entry from the index whose file was on disk all    *)
(* the while, whatever the file system refused to list or to describe: the  *)
(* "erase the index" failures of scan.rs:34-44.                             *)
NeverErased ==
    [][\A p \in Paths : Holds(index, p) /\ ~ Holds(index', p) =>
            disk[Place(p)] = Absent \/ Place(p) \in touched]_index

Agrees(p) == index'[p].content = disk[Place(p)].content

\* A directory listed to its end in this scan, and a file of it that nobody touched
\* since the scan began: one that was seen could be read and is none of those whose
\* entry was suspect when a scan moved the baseline on without reading them; and one
\* that was not has no directory above it that could not be listed.
Settled(p) ==
    /\ p[1] \in scan.full /\ Place(p) \notin touched
    /\ IF p \in scan.seen THEN p \in scan.checked /\ p \notin unsure'
       ELSE \A d \in scan.blind \ scan.full : p \notin Below(d)

(* A complete scan leaves every file it could list as it is on disk: added, *)
(* changed and deleted files alike, even one that was overwritten within    *)
(* the resolution of its time (scan.rs:217-226).                            *)
ListedIsReflected ==
    [][scan # None /\ scan' = None /\ ~ cancel =>
          \A p \in Paths : Settled(p) => Agrees(p)]_scan
=============================================================================
