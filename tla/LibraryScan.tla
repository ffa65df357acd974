---------------------------- MODULE LibraryScan ----------------------------
(* The incremental scan of the library: namir-library's Scanner, a machine  *)
(* that expands one directory or examines one file a step, and the pool job *)
(* of namir-worker that pumps it, cancels it and applies what it found.     *)
(* Meanwhile the user edits, deletes and creates files, and the file system *)
(* may refuse to list, to describe or to read.                              *)
(*                                                                          *)
(* A directory is a path, a sequence of names, and one directory may have   *)
(* several: Leads is what canonicalising a path gives. The content of a    *)
(* file is the number of the edit that wrote it. An edit keeps the length   *)
(* of the file, the case that size and time have to tell apart by time      *)
(* alone, and is stamped with the clock rounded down to a whole Grain.      *)
EXTENDS Integers, Sequences, FiniteSets, SequencesExt, ScanState

CONSTANTS
    Dirs,       \* the paths of directories
    Links,      \* those whose last component is a symbolic link
    Roots,      \* the configured roots, in order
    Faults,     \* the failures the file system may report
    Grain,      \* the resolution of a modification time
    Window,     \* MTIME_SETTLING_WINDOW_NANOS
    MaxNow, MaxEdits, MaxScans, MaxFaults    \* bounds

PathsAssumption ==
    /\ Dirs \subseteq Seq(STRING) \ {<<>>} /\ Links \subseteq Dirs
    /\ Leads \in [Dirs -> Dirs \ Links]
    /\ Roots \in Seq(Dirs) /\ \A p \in Paths : p[1] \in Dirs
\* Libraries are finite; what leads from a root to a directory is a directory.
TreeAssumption ==
    /\ IsFiniteSet(Dirs) /\ IsFiniteSet(Paths)
    /\ \A i \in DOMAIN Roots, d \in Dirs : IsPrefix(Roots[i], d) =>
          \A n \in Len(Roots[i])..Len(d) : SubSeq(d, 1, n) \in Dirs
ClockAssumption ==
    /\ Grain \in Nat \ {0} /\ Window \in Nat /\ Grain <= Window
    /\ {MaxNow, MaxEdits, MaxScans, MaxFaults} \subseteq Nat
FaultKinds == {"list", "cut", "file", "dir", "link", "canonical", "read"}
FaultsAssumption == Faults \subseteq FaultKinds

Entries == [content : Nat, mtime : Int]
Scanners ==
    [prior : [Paths -> Entries], base : Nat \cup {None}, start : Nat,
     dirs : Seq(Dirs), links : Seq(Dirs), files : Seq([path : Paths, mtime : Int]),
     seen : SUBSET Paths, visited : SUBSET Dirs, found : [Paths -> Entries],
     blind : SUBSET Dirs, full : SUBSET Dirs, checked : SUBSET Paths]
NoneAssumption == None \notin Nat \cup Scanners

Nothing == [p \in Paths |-> Absent]
Places  == {Place(p) : p \in Paths}

\* The children of a path: directories and links to directories.
Children(d) == {c \in Dirs : Front(c) = d}

VARIABLES
    now,        \* the clock
    edits,      \* edits made
    faults,     \* failures reported
    baseline,   \* last_scan_started_at
    held,       \* whether the worker holds its handle
    scans       \* scans started
files == <<disk, now, edits, faults>>
job   == <<index, baseline, scan, cancel, unsure>>
vars  == <<disk, now, edits, faults, index, baseline, scan, cancel, held, scans, touched, unsure>>

Init ==
    /\ disk = [x \in Places |-> Absent] /\ now = 0 /\ edits = 0 /\ faults = 0
    /\ index = Nothing /\ baseline = None
    /\ scan = None /\ cancel = FALSE /\ held = FALSE /\ scans = 0
    /\ touched = {} /\ unsure = {}

------------------------------------------------------------------------------
(* The world outside.                                                       *)

Tick ==
    /\ now < MaxNow /\ now' = now + 1
    /\ UNCHANGED <<disk, edits, faults, job, held, scans, touched>>

Edit(x) ==
    /\ edits < MaxEdits /\ edits' = edits + 1
    /\ disk' = [disk EXCEPT ![x] = [content |-> edits + 1, mtime |-> now - (now % Grain)]]
    /\ touched' = touched \cup {x}
    /\ UNCHANGED <<now, faults, job, held, scans>>

Delete(x) ==
    /\ disk[x] # Absent
    /\ disk' = [disk EXCEPT ![x] = Absent]
    /\ touched' = touched \cup {x}
    /\ UNCHANGED <<now, edits, faults, job, held, scans>>

------------------------------------------------------------------------------
(* One step of the scanner: files first, then directories, then links.      *)

Possible(fault) == fault \in Faults /\ faults < MaxFaults
Fails(fault) == Possible(fault) /\ faults' = faults + 1
Works == UNCHANGED faults

\* Between two scans a file may have been overwritten within the resolution
\* of its time; the next scan reads it again if it is that recent.
SuspectIfNewer(mtime) == scan.base # None /\ mtime > scan.base
Suspect(mtime) == scan.base # None /\ mtime >= scan.base - Window

\* Size and time as the last scan left them, and not suspect.
Unchanged(f) ==
    /\ Holds(scan.prior, f.path) /\ scan.prior[f.path].mtime = f.mtime
    /\ ~ Suspect(f.mtime)

Examine(f, s) ==
    LET checked == [s EXCEPT !.checked = @ \cup {f.path}]
        content == disk[Place(f.path)].content
    IN \/ Unchanged(f) /\ Works /\ scan' = checked
       \/ /\ ~ Unchanged(f) /\ content # 0 /\ Works
          /\ scan' = [checked EXCEPT !.found[f.path] = [content |-> content, mtime |-> f.mtime]]
       \/ /\ ~ Unchanged(f) /\ ((content = 0 /\ Works) \/ Fails("read"))
          /\ scan' = s

ExamineFile ==
    /\ scan.files # <<>>
    /\ LET f == Head(scan.files)
       IN Examine(f, [scan EXCEPT !.files = Tail(@), !.seen = @ \cup {f.path}])

\* Children the listing cannot describe are "seen", the file by its path; a
\* directory among them is not walked. A link is asked for its target, and an
\* answer that fails makes it neither a directory nor a link to one.
Some(fault, children) == IF Possible(fault) THEN SUBSET children ELSE {{}}

Present(d) == {p \in Paths : p[1] = d /\ disk[Place(p)] # Absent}
Folders(d) == Children(d) \ Links
LinksIn(d) == Children(d) \cap Links

AfterListing(d, s, lost, vague, unlisted, barred, offline) ==
    LET cut == lost # {} \/ unlisted # {}
    IN [s EXCEPT !.seen  = @ \cup (vague \ lost),
                 !.blind = IF cut THEN @ \cup {d} ELSE @,
                 !.full  = IF cut \/ vague # {} THEN @ ELSE @ \cup {d},
                 !.files = @ \o SetToSeq({[path |-> p, mtime |-> disk[Place(p)].mtime] :
                                              p \in Present(d) \ (lost \cup vague)}),
                 !.dirs  = @ \o SetToSeq(Folders(d) \ (unlisted \cup barred)),
                 !.links = @ \o SetToSeq(LinksIn(d) \ (unlisted \cup offline))]

ListChildren(d, s) ==
    \/ Fails("list") /\ scan' = [s EXCEPT !.blind = @ \cup {d}]
    \/ \E lost \in Some("cut", Present(d)), vague \in Some("file", Present(d)),
          unlisted \in Some("cut", Children(d)), barred \in Some("dir", Folders(d)),
          offline \in Some("link", LinksIn(d)) :
         /\ faults' = IF lost \cup vague = {} /\ unlisted \cup barred \cup offline = {}
                      THEN faults ELSE faults + 1
         /\ scan' = AfterListing(d, s, lost, vague, unlisted, barred, offline)

Walked(d, s) ==
    IF Leads[d] \in s.visited THEN Works /\ scan' = [s EXCEPT !.blind = @ \cup {d}]
    ELSE ListChildren(d, [s EXCEPT !.visited = @ \cup {Leads[d]}])

ExpandDir ==
    /\ scan.files = <<>> /\ scan.dirs # <<>>
    /\ LET d == Head(scan.dirs)
           s == [scan EXCEPT !.dirs = Tail(@)]
       IN \/ Walked(d, s)
          \/ Possible("canonical") /\ ListChildren(d, s)

ExpandLink ==
    /\ scan.files = <<>> /\ scan.dirs = <<>> /\ scan.links # <<>>
    /\ LET d == Head(scan.links)
           s == [scan EXCEPT !.links = Tail(@)]
       IN \/ Walked(d, s)
          \/ Fails("canonical") /\ scan' = [s EXCEPT !.blind = @ \cup {d}]

------------------------------------------------------------------------------
(* The job: it starts from a snapshot of the index, steps until it is done  *)
(* or cancelled, and applies what was found to that snapshot.               *)

StartScan ==
    /\ scan' = [prior |-> index, base |-> baseline, start |-> now,
                dirs |-> Roots, links |-> <<>>, files |-> <<>>, seen |-> {},
                visited |-> {}, found |-> Nothing, blind |-> {}, full |-> {},
                checked |-> {}]
    /\ cancel' = FALSE /\ held' = TRUE /\ scans' = scans + 1 /\ touched' = {}
    /\ UNCHANGED <<files, index, baseline, unsure>>

\* AppCommand::RescanLibrary: a scan that is refused leaves no handle.
Rescan ==
    \/ scan = None /\ scans < MaxScans /\ StartScan
    \/ scan # None /\ held' = FALSE /\ UNCHANGED <<files, job, scans, touched>>

CancelScan ==
    /\ held /\ held' = FALSE
    /\ cancel' = (scan # None)
    /\ UNCHANGED <<files, index, baseline, scan, scans, touched, unsure>>

RemovalsOfUnseen == {p \in Paths : Holds(scan.prior, p) /\ p \notin scan.seen}
Removals ==
    {p \in Paths : /\ Holds(scan.prior, p) /\ p \notin scan.seen
                   /\ \A d \in scan.blind : p \notin Below(d)}

\* Index::apply, then publish. Only a walk that reached its end removes
\* entries and moves the baseline.
Apply(complete) ==
    /\ index' = [p \in Paths |->
          IF complete /\ p \in Removals THEN Absent
          ELSE IF Holds(scan.found, p) THEN scan.found[p] ELSE scan.prior[p]]
    /\ baseline' = IF complete THEN scan.start ELSE baseline
    /\ unsure' = LET hashed == {p \in Paths : Holds(scan.found, p)}
                     prior  == {p \in Paths : Holds(scan.prior, p)}
                     passed == IF complete THEN prior \ scan.checked ELSE {}
                     early  == IF baseline' = None THEN hashed ELSE {}
                 IN (unsure \ hashed) \cup passed \cup early
    /\ scan' = None /\ cancel' = FALSE
    /\ UNCHANGED <<files, held, scans, touched>>

Pending == scan.files # <<>> \/ scan.dirs # <<>> \/ scan.links # <<>>

ScannerStep ==
    /\ scan # None /\ ~ cancel
    /\ ExamineFile \/ ExpandDir \/ ExpandLink
    /\ UNCHANGED <<disk, now, edits, index, baseline, cancel, held, scans, touched, unsure>>

Finish == scan # None /\ ~ cancel /\ ~ Pending /\ Apply(TRUE)
Stop   == scan # None /\ cancel /\ Apply(FALSE)

Next ==
    \/ Tick \/ (\E x \in Places : Edit(x) \/ Delete(x))
    \/ Rescan \/ CancelScan
    \/ ScannerStep \/ Finish \/ Stop
Spec == Init /\ [][Next]_vars

------------------------------------------------------------------------------
\* Every variable has its type.
TypeOK ==
    /\ disk \in [Places -> Entries]
    /\ now \in Nat /\ edits \in Nat /\ faults \in Nat /\ scans \in Nat
    /\ index \in [Paths -> Entries] /\ baseline \in Nat \cup {None}
    /\ scan \in Scanners \cup {None} /\ cancel \in BOOLEAN /\ held \in BOOLEAN
    /\ touched \subseteq Places /\ unsure \subseteq Paths
=============================================================================
