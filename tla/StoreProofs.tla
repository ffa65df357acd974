----------------------------- MODULE StoreProofs -----------------------------
(* Theorems about what is kept in files: the index of the library, as scans *)
(* leave it (LibraryScan), and the documents of states and presets, as      *)
(* builds of different age write them (StateDocument).                      *)
EXTENDS LibraryScan, DocumentState, FiniteSetTheorems, TLAPS

CONSTANTS Carriers, Documents, Turns, Picks, MaxCalls
VARIABLES state, last, crossed, calls
Docs == INSTANCE StateDocument

LibraryAssumption == PathsAssumption /\ TreeAssumption /\ ClockAssumption /\ NoneAssumption

------------------------------------------------------------------------------
(* Queues.                                                                  *)

In(q, x)  == \E i \in DOMAIN q : q[i] = x
Simple(q) == \A i, j \in DOMAIN q : q[i] = q[j] => i = j

LEMMA Wider ==
  ASSUME NEW S, NEW T, NEW q \in Seq(S), S \subseteq T
  PROVE  q \in Seq(T)
<1>1. PICK n \in Nat : q \in [1..n -> S]
  OBVIOUS
<1>2. q \in [1..n -> T]
  BY <1>1
<1> QED
  BY <1>2

LEMMA Taken ==
  ASSUME NEW S, NEW q \in Seq(S), q # <<>>
  PROVE  /\ Head(q) \in S /\ Tail(q) \in Seq(S) /\ In(q, Head(q))
         /\ \A x : In(q, x) <=> x = Head(q) \/ In(Tail(q), x)
         /\ Simple(q) => Simple(Tail(q)) /\ ~ In(Tail(q), Head(q))
<1>1. PICK n \in Nat : n = Len(q)
  OBVIOUS
<1>2. /\ n > 0 /\ DOMAIN q = 1..n /\ Head(q) = q[1] /\ q[1] \in S
      /\ Tail(q) \in Seq(S) /\ DOMAIN Tail(q) = 1..(n - 1)
      /\ \A i \in 1..(n - 1) : Tail(q)[i] = q[i + 1]
  BY <1>1
<1>3. ASSUME NEW x
      PROVE  In(q, x) <=> x = Head(q) \/ In(Tail(q), x)
  <2>1. ASSUME In(q, x), x # Head(q) PROVE In(Tail(q), x)
    <3>1. PICK i \in 1..n : q[i] = x
      BY <1>2, <2>1 DEF In
    <3>2. i - 1 \in 1..(n - 1) /\ Tail(q)[i - 1] = x
      BY <1>2, <2>1, <3>1
    <3> QED BY <1>2, <3>2 DEF In
  <2>2. ASSUME In(Tail(q), x) PROVE In(q, x)
    <3>1. PICK i \in 1..(n - 1) : Tail(q)[i] = x
      BY <1>2, <2>2 DEF In
    <3>2. i + 1 \in 1..n /\ q[i + 1] = x
      BY <1>2, <3>1
    <3> QED BY <1>2, <3>2 DEF In
  <2>3. In(q, Head(q))
    BY <1>2 DEF In
  <2> QED BY <2>1, <2>2, <2>3
<1>4. ASSUME Simple(q) PROVE Simple(Tail(q)) /\ ~ In(Tail(q), Head(q))
  <2>1. ASSUME NEW i \in 1..(n - 1), NEW j \in 1..(n - 1), Tail(q)[i] = Tail(q)[j]
        PROVE  i = j
    <3>1. i + 1 \in 1..n /\ j + 1 \in 1..n /\ q[i + 1] = q[j + 1]
      BY <1>2, <2>1
    <3>2. i + 1 = j + 1
      BY <1>2, <1>4, <3>1 DEF Simple
    <3> QED BY <3>2
  <2>2. ASSUME NEW i \in 1..(n - 1), Tail(q)[i] = q[1] PROVE FALSE
    <3>1. i + 1 \in 1..n /\ 1 \in 1..n /\ q[i + 1] = q[1]
      BY <1>2, <2>2
    <3>2. i + 1 = 1
      BY <1>2, <1>4, <3>1 DEF Simple
    <3> QED BY <3>2
  <2> QED BY <1>2, <2>1, <2>2 DEF Simple, In
<1> QED
  BY <1>2, <1>3, <1>4

LEMMA Joined ==
  ASSUME NEW S, NEW a \in Seq(S), NEW b \in Seq(S)
  PROVE  /\ a \o b \in Seq(S)
         /\ \A x : In(a \o b, x) <=> In(a, x) \/ In(b, x)
         /\ Simple(a) /\ Simple(b) /\ (\A x : ~ (In(a, x) /\ In(b, x))) => Simple(a \o b)
<1>1. PICK m \in Nat, n \in Nat : m = Len(a) /\ n = Len(b)
  OBVIOUS
<1>2. /\ a \o b \in Seq(S) /\ DOMAIN a = 1..m /\ DOMAIN b = 1..n /\ DOMAIN (a \o b) = 1..(m + n)
      /\ \A i \in 1..m : (a \o b)[i] = a[i]
      /\ \A i \in (m + 1)..(m + n) : (a \o b)[i] = b[i - m]
  BY <1>1
<1>3. \A i \in 1..n : i + m \in (m + 1)..(m + n) /\ (a \o b)[i + m] = b[i]
  BY <1>2
<1>4. \A i \in 1..(m + n) : i \in 1..m \/ (i \in (m + 1)..(m + n) /\ i - m \in 1..n)
  OBVIOUS
<1> DEFINE c == a \o b
<1>5. /\ DOMAIN c = 1..(m + n) /\ \A i \in 1..m : c[i] = a[i] /\ i \in 1..(m + n)
      /\ \A i \in 1..n : i + m \in 1..(m + n) /\ c[i + m] = b[i]
      /\ \A i \in (m + 1)..(m + n) : c[i] = b[i - m]
  BY <1>2, <1>3
<1> HIDE DEF c
<1>6. ASSUME NEW x PROVE In(c, x) <=> In(a, x) \/ In(b, x)
  <2>1. ASSUME In(c, x) PROVE In(a, x) \/ In(b, x)
    <3>1. PICK i \in 1..(m + n) : c[i] = x
      BY <1>5, <2>1 DEF In
    <3>2. CASE i \in 1..m
      BY <1>2, <1>5, <3>1, <3>2 DEF In
    <3>3. CASE i \in (m + 1)..(m + n) /\ i - m \in 1..n
      <4>1. b[i - m] = x
        BY <1>5, <3>1, <3>3
      <4> QED BY <1>2, <3>3, <4>1 DEF In
    <3> QED BY <1>4, <3>2, <3>3
  <2>2. ASSUME In(a, x) PROVE In(c, x)
    BY <1>2, <1>5, <2>2 DEF In
  <2>3. ASSUME In(b, x) PROVE In(c, x)
    <3>1. PICK i \in 1..n : b[i] = x
      BY <1>2, <2>3 DEF In
    <3>2. i + m \in 1..(m + n) /\ c[i + m] = x
      BY <1>5, <3>1
    <3> QED BY <1>5, <3>2 DEF In
  <2> QED BY <2>1, <2>2, <2>3
<1>7. ASSUME Simple(a), Simple(b), \A x : ~ (In(a, x) /\ In(b, x)) PROVE Simple(c)
  <2> SUFFICES ASSUME NEW i \in 1..(m + n), NEW j \in 1..(m + n), c[i] = c[j] PROVE i = j
    BY <1>5 DEF Simple
  <2>1. CASE i \in 1..m /\ j \in 1..m
    BY <1>2, <1>5, <1>7, <2>1 DEF Simple
  <2>2. CASE i \notin 1..m /\ j \notin 1..m
    <3>1. i - m \in 1..n /\ j - m \in 1..n /\ b[i - m] = b[j - m]
      BY <1>4, <1>5, <2>2
    <3>2. i - m = j - m
      BY <1>2, <1>7, <3>1 DEF Simple
    <3> QED BY <3>2
  <2>3. CASE i \in 1..m /\ j \notin 1..m
    <3>1. j - m \in 1..n /\ b[j - m] = a[i]
      BY <1>4, <1>5, <2>3
    <3> QED BY <1>2, <1>7, <2>3, <3>1 DEF In
  <2>4. CASE i \notin 1..m /\ j \in 1..m
    <3>1. i - m \in 1..n /\ b[i - m] = a[j]
      BY <1>4, <1>5, <2>4
    <3> QED BY <1>2, <1>7, <2>4, <3>1 DEF In
  <2> QED BY <2>1, <2>2, <2>3, <2>4
<1> QED
  BY <1>2, <1>6, <1>7 DEF c

\* SetToSeq lists every element of a finite set, and lists it once.
LEMMA Listed ==
  ASSUME NEW S, IsFiniteSet(S), NEW q, q = SetToSeq(S)
  PROVE  /\ q \in Seq(S) /\ Simple(q)
         /\ \A x : In(q, x) <=> x \in S
<1>1. Cardinality(S) \in Nat /\ ExistsBijection(1..Cardinality(S), S)
  BY FS_CardinalityType
<1>2. PICK n \in Nat : n = Cardinality(S)
  BY <1>1
<1>3. PICK g : g \in Bijection(1..n, S)
  BY <1>1, <1>2 DEF ExistsBijection
<1>4. g \in [1..n -> S] /\ IsInjective(g)
  BY <1>3 DEF Bijection, Injection, IsInjective
<1>5. q \in [1..n -> S] /\ IsInjective(q)
  BY <1>2, <1>4 DEF SetToSeq
<1>6. q \in Injection(1..n, S)
  BY <1>5 DEF Injection, IsInjective
<1>7. Cardinality(1..n) = n
  <2>1. Cardinality(1..n) = IF 1 > n THEN 0 ELSE n - 1 + 1
    BY FS_Interval
  <2> QED BY <2>1
<1>8. q \in Surjection(1..n, S)
  BY <1>2, <1>6, <1>7, FS_Injection
<1>9. \A x \in S : \E i \in 1..n : q[i] = x
  BY <1>8 DEF Surjection
<1> QED
  BY <1>5, <1>9 DEF In, Simple, IsInjective

------------------------------------------------------------------------------
(* Paths.                                                                   *)

LEMMA PrefixOfPrefix ==
  ASSUME NEW S, NEW a \in Seq(S), NEW b \in Seq(S), NEW c \in Seq(S),
         IsPrefix(a, b), IsPrefix(b, c)
  PROVE  IsPrefix(a, c)
  BY DEF IsPrefix

\* A child of a directory has it for a prefix, and nothing comes in between.
LEMMA ChildFacts ==
  ASSUME NEW S, NEW d \in Seq(S), NEW c \in Seq(S) \ {<<>>}, Front(c) = d
  PROVE  /\ IsPrefix(d, c) /\ ~ IsPrefix(c, d)
         /\ \A e \in Seq(S) : IsPrefix(e, c) => e = c \/ IsPrefix(e, d)
  BY DEF IsPrefix, Front

LEMMA Siblings ==
  ASSUME NEW S, NEW d \in Seq(S), NEW b \in Seq(S) \ {<<>>}, NEW c \in Seq(S) \ {<<>>},
         Front(b) = d, Front(c) = d, IsPrefix(b, c)
  PROVE  b = c
  BY DEF IsPrefix, Front

LEMMA NextBelow ==
  ASSUME NEW S, NEW d \in Seq(S), NEW e \in Seq(S), IsPrefix(d, e), d # e,
         NEW c, c = SubSeq(e, 1, Len(d) + 1)
  PROVE  /\ Len(d) + 1 \in Len(d)..Len(e)
         /\ c \in Seq(S) /\ Front(c) = d /\ IsPrefix(c, e)
  BY DEF IsPrefix, Front
------------------------------------------------------------------------------
(* What a step of the scanner does to it.                                   *)

Entry(p) == [path |-> p, mtime |-> disk[Place(p)].mtime]

Queued(s, d) == In(s.dirs, d) \/ In(s.links, d)
Tidy(s) ==
    Simple(s.dirs) /\ Simple(s.links) /\ \A d : ~ (In(s.dirs, d) /\ In(s.links, d))

Snapshot(s, t) == t.prior = s.prior /\ t.base = s.base /\ t.start = s.start

Examined(f, s, t) ==
    /\ s.files # <<>> /\ f = Head(s.files) /\ t.files = Tail(s.files)
    /\ t.seen = s.seen \cup {f.path} /\ Snapshot(s, t)
    /\ t.dirs = s.dirs /\ t.links = s.links /\ t.blind = s.blind /\ t.full = s.full
    /\ \/ /\ Unchanged(f)
          /\ t.checked = s.checked \cup {f.path} /\ t.found = s.found
       \/ /\ disk[Place(f.path)].content # 0
          /\ t.checked = s.checked \cup {f.path}
          /\ t.found = [s.found EXCEPT ![f.path] =
                           [content |-> disk[Place(f.path)].content, mtime |-> f.mtime]]
       \/ t.checked = s.checked /\ t.found = s.found

LEMMA ExamineForm ==
  ASSUME LibraryAssumption, TypeOK, scan # None, ExamineFile
  PROVE  scan' \in Scanners /\ Examined(Head(scan.files), scan, scan')
<1>1. scan \in Scanners /\ scan.files \in Seq([path : Paths, mtime : Int]) /\ scan.files # <<>>
  BY DEF TypeOK, Scanners, ExamineFile
<1>2. PICK f : f = Head(scan.files)
  OBVIOUS
<1>3. f \in [path : Paths, mtime : Int] /\ Tail(scan.files) \in Seq([path : Paths, mtime : Int])
  BY <1>1, <1>2, Taken
<1>4. PICK s : s = [scan EXCEPT !.files = Tail(@), !.seen = @ \cup {f.path}]
  OBVIOUS
<1>5. /\ s \in Scanners /\ s.files = Tail(scan.files) /\ s.seen = scan.seen \cup {f.path}
      /\ s.dirs = scan.dirs /\ s.links = scan.links /\ s.blind = scan.blind /\ s.full = scan.full
      /\ Snapshot(scan, s) /\ s.checked = scan.checked /\ s.found = scan.found
  BY <1>1, <1>3, <1>4 DEF Scanners, Snapshot
<1>6. Examine(f, s)
  BY <1>2, <1>4 DEF ExamineFile
<1>7. PICK content : content = disk[Place(f.path)].content /\ content \in Nat
  BY <1>3 DEF TypeOK, Places, Entries
<1> DEFINE checked == [s EXCEPT !.checked = @ \cup {f.path}]
            entry == [content |-> content, mtime |-> f.mtime]
<1>8. /\ checked \in Scanners /\ checked.files = s.files /\ checked.seen = s.seen
      /\ checked.dirs = s.dirs /\ checked.links = s.links /\ checked.blind = s.blind
      /\ checked.full = s.full /\ Snapshot(s, checked)
      /\ checked.checked = s.checked \cup {f.path} /\ checked.found = s.found
  BY <1>3, <1>5 DEF Scanners, Snapshot
<1>9. \/ Unchanged(f) /\ scan' = checked
      \/ content # 0 /\ scan' = [checked EXCEPT !.found[f.path] = entry]
      \/ scan' = s
  BY <1>6, <1>7 DEF Examine
<1> HIDE DEF checked
<1>10. CASE Unchanged(f) /\ scan' = checked
  BY <1>1, <1>2, <1>5, <1>8, <1>10 DEF Examined, Snapshot
<1>11. CASE content # 0 /\ scan' = [checked EXCEPT !.found[f.path] = entry]
  <2>1. entry \in Entries
    BY <1>3, <1>7 DEF Entries
  <2>2. [checked.found EXCEPT ![f.path] = entry] \in [Paths -> Entries]
    BY <1>3, <1>8, <2>1 DEF Scanners
  <2> HIDE DEF entry
  <2>3. /\ scan' \in Scanners /\ scan'.files = s.files /\ scan'.seen = s.seen
        /\ scan'.dirs = s.dirs /\ scan'.links = s.links /\ scan'.blind = s.blind
        /\ scan'.full = s.full /\ Snapshot(s, scan') /\ scan'.checked = checked.checked
        /\ scan'.found = [s.found EXCEPT ![f.path] = entry]
    BY <1>8, <1>11, <2>2 DEF Scanners, Snapshot
  <2> QED BY <1>1, <1>2, <1>5, <1>7, <1>8, <1>11, <2>3 DEF Examined, Snapshot, entry
<1>12. CASE scan' = s
  BY <1>1, <1>2, <1>5, <1>12 DEF Examined, Snapshot
<1> QED
  BY <1>2, <1>9, <1>10, <1>11, <1>12

\* The file system describes what it lists: directories, and links to them.
Describable == "dir" \notin Faults /\ "link" \notin Faults

\* What is left of a directory once it was listed, or could not be: the files that
\* were lost with the end of the listing, those that are only seen, and the
\* directories below to walk. One that cannot be listed at all loses everything.
Went(d, s, t) ==
    \E lost \in SUBSET Present(d), vague \in SUBSET Present(d), new \in SUBSET Children(d),
       cut \in BOOLEAN :
        /\ Snapshot(s, t) /\ t.found = s.found /\ t.checked = s.checked
        /\ t.seen = s.seen \cup (vague \ lost)
        /\ \A f : In(t.files, f) <=>
                 In(s.files, f) \/ \E p \in Present(d) \ (lost \cup vague) : f = Entry(p)
        /\ \A c : Queued(t, c) <=> Queued(s, c) \/ c \in new
        /\ Tidy(s) /\ (\A c \in new : ~ Queued(s, c)) => Tidy(t)
        /\ ~ cut => lost = {} /\ (Describable => new = Children(d))
        /\ t.blind = IF cut THEN s.blind \cup {d} ELSE s.blind
        /\ t.full = s.full \/ (t.full = s.full \cup {d} /\ ~ cut /\ vague = {})

LEMMA RefusedForm ==
  ASSUME NEW s \in Scanners, NEW d \in Dirs, NEW v \in SUBSET Dirs,
         scan' = [s EXCEPT !.visited = v, !.blind = @ \cup {d}]
  PROVE  scan' \in Scanners /\ Went(d, s, scan')
<1> DEFINE t == scan'
<1>1. /\ t \in Scanners /\ Snapshot(s, t) /\ t.found = s.found /\ t.checked = s.checked
      /\ t.seen = s.seen /\ t.files = s.files /\ t.dirs = s.dirs /\ t.links = s.links
      /\ t.blind = s.blind \cup {d} /\ t.full = s.full
  BY DEF Scanners, Snapshot
<1> HIDE DEF t
<1>2. (\A c : Queued(t, c) <=> Queued(s, c)) /\ (Tidy(s) => Tidy(t))
  BY <1>1 DEF Queued, Tidy
<1>3. Present(d) \in SUBSET Present(d) /\ {} \in SUBSET Present(d) /\ {} \in SUBSET Children(d)
  OBVIOUS
<1>4. \A f : In(t.files, f) <=>
            In(s.files, f) \/ \E p \in Present(d) \ (Present(d) \cup {}) : f = Entry(p)
  BY <1>1
<1>5. Went(d, s, t)
  <2> USE DEF Went
  <2> WITNESS Present(d) \in SUBSET Present(d), {} \in SUBSET Present(d), {} \in SUBSET Children(d),
              TRUE \in BOOLEAN
  <2> QED BY <1>1, <1>2, <1>4
<1> QED
  BY <1>1, <1>5 DEF t

LEMMA ListedForm ==
  ASSUME LibraryAssumption, TypeOK, NEW s \in Scanners, NEW d \in Dirs, ListChildren(d, s)
  PROVE  scan' \in Scanners /\ Went(d, s, scan')
<1> DEFINE t == scan'
<1>1. CASE scan' = [s EXCEPT !.blind = @ \cup {d}]
  <2>1. s.visited \in SUBSET Dirs /\ s = [s EXCEPT !.visited = s.visited]
    BY DEF Scanners
  <2>2. scan' = [s EXCEPT !.visited = s.visited, !.blind = @ \cup {d}]
    BY <1>1, <2>1 DEF Scanners
  <2> QED BY <2>1, <2>2, RefusedForm
<1>2. ASSUME NEW lost \in Some("cut", Present(d)), NEW vague \in Some("file", Present(d)),
             NEW unlisted \in Some("cut", Children(d)), NEW barred \in Some("dir", Folders(d)),
             NEW offline \in Some("link", LinksIn(d)),
             scan' = AfterListing(d, s, lost, vague, unlisted, barred, offline)
      PROVE  scan' \in Scanners /\ Went(d, s, scan')
  <2>1. /\ lost \in SUBSET Present(d) /\ vague \in SUBSET Present(d)
        /\ unlisted \in SUBSET Children(d)
    BY DEF Some
  <2> PICK cut \in BOOLEAN : cut <=> lost # {} \/ unlisted # {}
    OBVIOUS
  <2> DEFINE F == {Entry(p) : p \in Present(d) \ (lost \cup vague)}
             P == Folders(d) \ (unlisted \cup barred)
             L == LinksIn(d) \ (unlisted \cup offline)
  <2>2. IsFiniteSet(F) /\ IsFiniteSet(P) /\ IsFiniteSet(L)
    <3>1. IsFiniteSet(Present(d) \ (lost \cup vague))
      BY FS_Subset DEF LibraryAssumption, TreeAssumption, Present
    <3>2. [p \in Present(d) \ (lost \cup vague) |-> Entry(p)]
             \in Surjection(Present(d) \ (lost \cup vague), F)
      BY DEF Surjection
    <3>3. IsFiniteSet(F)
      BY <3>1, <3>2, FS_Surjection
    <3> QED BY <3>3, FS_Subset
        DEF LibraryAssumption, TreeAssumption, Children, Folders, LinksIn
  <2>3. PICK f, p, l : f = SetToSeq(F) /\ p = SetToSeq(P) /\ l = SetToSeq(L)
    OBVIOUS
  <2>4. /\ f \in Seq(F) /\ \A x : In(f, x) <=> x \in F
        /\ p \in Seq(P) /\ Simple(p) /\ \A x : In(p, x) <=> x \in P
        /\ l \in Seq(L) /\ Simple(l) /\ \A x : In(l, x) <=> x \in L
    <3> HIDE DEF F, P, L
    <3>1. f \in Seq(F) /\ \A x : In(f, x) <=> x \in F
      BY <2>2, <2>3, Listed
    <3>2. p \in Seq(P) /\ Simple(p) /\ \A x : In(p, x) <=> x \in P
      BY <2>2, <2>3, Listed
    <3>3. l \in Seq(L) /\ Simple(l) /\ \A x : In(l, x) <=> x \in L
      BY <2>2, <2>3, Listed
    <3> QED BY <3>1, <3>2, <3>3
  <2>5. F \subseteq [path : Paths, mtime : Int] /\ P \subseteq Dirs /\ L \subseteq Dirs
    <3>1. \A q \in Paths : Entry(q) \in [path : Paths, mtime : Int]
      BY DEF TypeOK, Places, Entries, Entry
    <3> QED BY <3>1 DEF Present, Children, Folders, LinksIn
  <2>6. f \in Seq([path : Paths, mtime : Int]) /\ p \in Seq(Dirs) /\ l \in Seq(Dirs)
    <3> HIDE DEF F, P, L
    <3> QED BY <2>4, <2>5, Wider
  <2>7. /\ s.files \in Seq([path : Paths, mtime : Int]) /\ s.dirs \in Seq(Dirs)
        /\ s.links \in Seq(Dirs)
    BY DEF Scanners
  <2>8. /\ t.seen = s.seen \cup (vague \ lost)
        /\ t.blind = IF cut THEN s.blind \cup {d} ELSE s.blind
        /\ t.full = IF cut \/ vague # {} THEN s.full ELSE s.full \cup {d}
        /\ t.files = s.files \o f /\ t.dirs = s.dirs \o p /\ t.links = s.links \o l
        /\ Snapshot(s, t) /\ t.found = s.found /\ t.checked = s.checked
        /\ t \in Scanners
    <3>1. /\ s.files \o f \in Seq([path : Paths, mtime : Int])
          /\ s.dirs \o p \in Seq(Dirs) /\ s.links \o l \in Seq(Dirs)
      BY <2>6, <2>7, Joined
    <3>2. Present(d) \subseteq Paths
      BY DEF Present
    <3>3. scan' = [s EXCEPT !.seen = @ \cup (vague \ lost),
                    !.blind = IF cut THEN @ \cup {d} ELSE @,
                    !.full  = IF cut \/ vague # {} THEN @ ELSE @ \cup {d},
                    !.files = @ \o f, !.dirs = @ \o p, !.links = @ \o l]
      BY <1>2, <2>3 DEF AfterListing, Entry
    <3> HIDE DEF F, P, L
    <3> QED BY <2>1, <3>1, <3>2, <3>3 DEF Scanners, Snapshot
  <2> DEFINE new == P \cup L
  <2>9. \A x : In(t.files, x) <=> In(s.files, x) \/ x \in F
    BY <2>4, <2>6, <2>7, <2>8, Joined
  <2>10. /\ \A x : In(t.dirs, x) <=> In(s.dirs, x) \/ x \in P
         /\ \A x : In(t.links, x) <=> In(s.links, x) \/ x \in L
    BY <2>4, <2>6, <2>7, <2>8, Joined
  <2>11. ASSUME Tidy(s), \A c \in new : ~ Queued(s, c)
         PROVE  Tidy(t)
    <3>1. Simple(t.dirs) /\ Simple(t.links)
      BY <2>4, <2>6, <2>7, <2>8, <2>11, Joined DEF Tidy, Queued
    <3>2. P \cap L = {}
      BY DEF Folders, LinksIn
    <3> QED BY <2>10, <2>11, <3>1, <3>2 DEF Tidy, Queued
  <2>12. ASSUME ~ cut, Describable PROVE new = Children(d)
    BY <2>12 DEF Describable, Some, Possible, Folders, LinksIn
  <2>13. /\ lost \in SUBSET Present(d) /\ vague \in SUBSET Present(d) /\ new \in SUBSET Children(d)
         /\ ~ cut => lost = {}
    BY <2>1 DEF Folders, LinksIn
  <2> HIDE DEF P, L, t
  <2>14. Went(d, s, t)
    BY <2>8, <2>9, <2>10, <2>11, <2>12, <2>13 DEF Went, Queued
  <2> QED BY <2>8, <2>14 DEF t
<1> QED
  BY <1>1, <1>2 DEF ListChildren

\* The scanner with a directory taken from one of its queues.
Popped(d, s) ==
    /\ \A c : Queued(scan, c) <=> c = d \/ Queued(s, c)
    /\ Tidy(scan) => Tidy(s) /\ ~ Queued(s, d)
    /\ scan.files = <<>> /\ s.files = <<>> /\ Snapshot(scan, s)
    /\ s.seen = scan.seen /\ s.found = scan.found /\ s.checked = scan.checked
    /\ s.blind = scan.blind /\ s.full = scan.full

LEMMA WalkForm ==
  ASSUME LibraryAssumption, TypeOK, scan # None, ExpandDir \/ ExpandLink
  PROVE  /\ scan' \in Scanners
         /\ \E d \in Dirs, s \in Scanners : Popped(d, s) /\ Went(d, s, scan')
<1>1. scan \in Scanners /\ scan.dirs \in Seq(Dirs) /\ scan.links \in Seq(Dirs)
  BY DEF TypeOK, Scanners
<1>2. ASSUME NEW d \in Dirs, NEW s \in Scanners, NEW v \in SUBSET Dirs,
             scan' = [s EXCEPT !.visited = v, !.blind = @ \cup {d}]
                \/ ListChildren(d, [s EXCEPT !.visited = v]),
             Popped(d, s)
      PROVE  /\ scan' \in Scanners
             /\ \E e \in Dirs, r \in Scanners : Popped(e, r) /\ Went(e, r, scan')
  <2>1. CASE scan' = [s EXCEPT !.visited = v, !.blind = @ \cup {d}]
    BY <1>2, <2>1, RefusedForm
  <2>2. CASE ListChildren(d, [s EXCEPT !.visited = v])
    <3>1. PICK r : r = [s EXCEPT !.visited = v]
      OBVIOUS
    <3>2. /\ r \in Scanners /\ r.prior = s.prior /\ r.base = s.base /\ r.start = s.start
          /\ r.dirs = s.dirs /\ r.links = s.links /\ r.files = s.files /\ r.seen = s.seen
          /\ r.found = s.found /\ r.checked = s.checked /\ r.blind = s.blind /\ r.full = s.full
      BY <3>1 DEF Scanners
    <3>3. Popped(d, r)
      BY <1>2, <3>2 DEF Popped, Queued, Tidy, Snapshot
    <3>4. scan' \in Scanners /\ Went(d, r, scan')
      BY <2>2, <3>1, <3>2, ListedForm
    <3> QED BY <3>2, <3>3, <3>4
  <2> QED BY <1>2, <2>1, <2>2
<1>3. ASSUME NEW d \in Dirs, NEW s \in Scanners, s.visited = scan.visited,
             \/ Walked(d, s)
             \/ ListChildren(d, s)
             \/ scan' = [s EXCEPT !.blind = @ \cup {d}],
             Popped(d, s)
      PROVE  /\ scan' \in Scanners
             /\ \E e \in Dirs, r \in Scanners : Popped(e, r) /\ Went(e, r, scan')
  <2>1. s.visited \in SUBSET Dirs /\ s = [s EXCEPT !.visited = s.visited]
    BY DEF Scanners
  <2>2. [s EXCEPT !.blind = @ \cup {d}] = [s EXCEPT !.visited = s.visited, !.blind = @ \cup {d}]
    BY <2>1 DEF Scanners
  <2>3. PICK v : v = s.visited \cup {Leads[d]}
    OBVIOUS
  <2>4. v \in SUBSET Dirs
    BY <2>1, <2>3 DEF LibraryAssumption, PathsAssumption
  <2>5. \/ scan' = [s EXCEPT !.visited = s.visited, !.blind = @ \cup {d}]
        \/ ListChildren(d, [s EXCEPT !.visited = s.visited])
        \/ ListChildren(d, [s EXCEPT !.visited = v])
    <3>1. Walked(d, s) => \/ scan' = [s EXCEPT !.blind = @ \cup {d}]
                          \/ ListChildren(d, [s EXCEPT !.visited = v])
      <4>1. [s EXCEPT !.visited = @ \cup {Leads[d]}] = [s EXCEPT !.visited = v]
        BY <2>3
      <4> QED BY <4>1 DEF Walked
    <3> QED BY <1>3, <2>1, <2>2, <3>1
  <2> QED BY <1>2, <1>3, <2>1, <2>4, <2>5
<1>4. CASE ExpandDir
  <2>1. PICK d, s : d = Head(scan.dirs) /\ s = [scan EXCEPT !.dirs = Tail(@)]
    OBVIOUS
  <2>2. /\ scan.files = <<>> /\ scan.dirs # <<>>
        /\ Walked(d, s) \/ ListChildren(d, s)
    BY <1>4, <2>1 DEF ExpandDir
  <2>3. /\ d \in Dirs /\ Tail(scan.dirs) \in Seq(Dirs)
        /\ \A x : In(scan.dirs, x) <=> x = d \/ In(Tail(scan.dirs), x)
        /\ Simple(scan.dirs) => Simple(Tail(scan.dirs)) /\ ~ In(Tail(scan.dirs), d)
    BY <1>1, <2>1, <2>2, Taken
  <2>4. /\ s \in Scanners /\ s.dirs = Tail(scan.dirs) /\ s.links = scan.links
        /\ s.files = scan.files /\ Snapshot(scan, s) /\ s.visited = scan.visited
        /\ s.seen = scan.seen /\ s.found = scan.found /\ s.checked = scan.checked
        /\ s.blind = scan.blind /\ s.full = scan.full
    BY <1>1, <2>1, <2>3 DEF Scanners, Snapshot
  <2>5. Popped(d, s)
    <3>1. \A c : Queued(scan, c) <=> c = d \/ Queued(s, c)
      BY <2>3, <2>4 DEF Queued
    <3>2. ASSUME Tidy(scan) PROVE Tidy(s) /\ ~ Queued(s, d)
      BY <2>3, <2>4, <3>2 DEF Queued, Tidy
    <3> QED BY <2>2, <2>4, <3>1, <3>2 DEF Popped
  <2> QED BY <1>3, <2>2, <2>3, <2>4, <2>5
<1>5. CASE ExpandLink
  <2>1. PICK d, s : d = Head(scan.links) /\ s = [scan EXCEPT !.links = Tail(@)]
    OBVIOUS
  <2>2. /\ scan.files = <<>> /\ scan.links # <<>>
        /\ Walked(d, s) \/ scan' = [s EXCEPT !.blind = @ \cup {d}]
    BY <1>5, <2>1 DEF ExpandLink
  <2>3. /\ d \in Dirs /\ Tail(scan.links) \in Seq(Dirs)
        /\ \A x : In(scan.links, x) <=> x = d \/ In(Tail(scan.links), x)
        /\ Simple(scan.links) => Simple(Tail(scan.links)) /\ ~ In(Tail(scan.links), d)
    BY <1>1, <2>1, <2>2, Taken
  <2>4. /\ s \in Scanners /\ s.links = Tail(scan.links) /\ s.dirs = scan.dirs
        /\ s.files = scan.files /\ Snapshot(scan, s) /\ s.visited = scan.visited
        /\ s.seen = scan.seen /\ s.found = scan.found /\ s.checked = scan.checked
        /\ s.blind = scan.blind /\ s.full = scan.full
    BY <1>1, <2>1, <2>3 DEF Scanners, Snapshot
  <2>5. Popped(d, s)
    <3>1. \A c : Queued(scan, c) <=> c = d \/ Queued(s, c)
      BY <2>3, <2>4 DEF Queued
    <3>2. ASSUME Tidy(scan) PROVE Tidy(s) /\ ~ Queued(s, d)
      BY <2>3, <2>4, <3>2 DEF Queued, Tidy
    <3> QED BY <2>2, <2>4, <3>1, <3>2 DEF Popped
  <2> QED BY <1>3, <2>2, <2>3, <2>4, <2>5
<1> QED
  BY <1>4, <1>5

------------------------------------------------------------------------------
(* What the other steps do.                                                 *)

Outside == Tick \/ \E x \in Places : Edit(x) \/ Delete(x)

OutsideEffect ==
    /\ UNCHANGED <<index, baseline, scan, cancel, unsure>>
    /\ now <= now' /\ touched \subseteq touched'
    /\ \A x \in Places :
          \/ disk'[x] = disk[x] /\ (x \in touched' => x \in touched)
          \/ x \in touched' /\ (disk'[x] = Absent \/ disk'[x].mtime > now - Grain)

\* Whoever works on a file leaves the others alone, and is seen to have.
LEMMA OutsideForm ==
  ASSUME LibraryAssumption, TypeOK, Outside
  PROVE  TypeOK' /\ OutsideEffect
<1>1. CASE Tick
  BY <1>1 DEF Tick, job, TypeOK, OutsideEffect
<1>2. ASSUME NEW x \in Places, Edit(x) PROVE TypeOK' /\ OutsideEffect
  <2>1. PICK stamp : stamp = now - (now % Grain)
    OBVIOUS
  <2>2. stamp \in Int /\ stamp > now - Grain
    BY <2>1 DEF LibraryAssumption, ClockAssumption, TypeOK
  <2>3. disk' = [disk EXCEPT ![x] = [content |-> edits + 1, mtime |-> stamp]]
    BY <1>2, <2>1 DEF Edit
  <2>4. [content |-> edits + 1, mtime |-> stamp] \in Entries
    BY <2>2 DEF TypeOK, Entries
  <2>5. TypeOK'
    BY <1>2, <2>3, <2>4 DEF Edit, job, TypeOK
  <2>6. \A y \in Places : disk'[y] = IF y = x THEN [content |-> edits + 1, mtime |-> stamp] ELSE disk[y]
    BY <2>3 DEF TypeOK
  <2> QED BY <1>2, <2>2, <2>5, <2>6 DEF Edit, job, TypeOK, OutsideEffect
<1>3. ASSUME NEW x \in Places, Delete(x) PROVE TypeOK' /\ OutsideEffect
  <2>1. Absent \in Entries
    BY DEF Absent, Entries
  <2>2. TypeOK'
    BY <1>3, <2>1 DEF Delete, job, TypeOK
  <2> QED BY <1>3, <2>2 DEF Delete, job, TypeOK, OutsideEffect
<1> QED
  BY <1>1, <1>2, <1>3 DEF Outside

LEMMA StartForm ==
  ASSUME LibraryAssumption, TypeOK, scan = None, StartScan
  PROVE  /\ TypeOK' /\ scan' # None /\ UNCHANGED <<disk, now, index, baseline, unsure>>
         /\ touched' = {} /\ scan'.prior = index /\ scan'.base = baseline /\ scan'.start = now
         /\ scan'.dirs = Roots /\ scan'.links = <<>> /\ scan'.files = <<>>
         /\ scan'.seen = {} /\ scan'.found = Nothing /\ scan'.blind = {} /\ scan'.full = {}
         /\ scan'.checked = {}
<1>1. Nothing \in [Paths -> Entries]
  BY DEF Nothing, Absent, Entries
<1>2. Roots \in Seq(Dirs) /\ <<>> \in Seq(Dirs) /\ <<>> \in Seq([path : Paths, mtime : Int])
  BY DEF LibraryAssumption, PathsAssumption
<1>3. scan' \in Scanners
  BY <1>1, <1>2 DEF StartScan, TypeOK, Scanners
<1>4. TypeOK'
  <2>1. /\ UNCHANGED <<disk, now, edits, faults, index, baseline, unsure>>
        /\ scans' = scans + 1 /\ cancel' = FALSE /\ held' = TRUE /\ touched' = {}
    BY DEF StartScan, files
  <2>2. cancel' \in BOOLEAN /\ held' \in BOOLEAN
    BY <2>1
  <2> QED BY <1>3, <2>1, <2>2 DEF TypeOK
<1> QED
  BY <1>3, <1>4 DEF StartScan, files, LibraryAssumption, NoneAssumption

LEMMA ApplyForm ==
  ASSUME LibraryAssumption, TypeOK, scan # None, NEW complete \in BOOLEAN, Apply(complete)
  PROVE  /\ TypeOK' /\ scan' = None /\ UNCHANGED <<disk, now, touched>>
         /\ baseline' = IF complete THEN scan.start ELSE baseline
         /\ \A p \in Paths :
               /\ index'[p] = IF complete /\ p \in Removals THEN Absent
                              ELSE IF Holds(scan.found, p) THEN scan.found[p] ELSE scan.prior[p]
               /\ p \notin unsure' =>
                     IF Holds(scan.found, p) THEN baseline' # None
                     ELSE p \notin unsure
                          /\ (complete /\ Holds(scan.prior, p) => p \in scan.checked)
<1>1. /\ scan \in Scanners /\ scan.prior \in [Paths -> Entries] /\ scan.found \in [Paths -> Entries]
      /\ scan.start \in Nat /\ Absent \in Entries
  BY DEF TypeOK, Scanners, Absent, Entries
<1>2. index' \in [Paths -> Entries]
  BY <1>1 DEF Apply
<1>3. unsure' \subseteq Paths
  BY DEF Apply, TypeOK
<1>4. TypeOK'
  BY <1>1, <1>2, <1>3 DEF Apply, TypeOK, files
<1> QED
  BY <1>1, <1>4 DEF Apply, files

LEMMA ScannerTypes ==
  ASSUME LibraryAssumption, TypeOK, ScannerStep
  PROVE  TypeOK' /\ UNCHANGED <<disk, now, index, baseline, cancel, touched, unsure>>
<1>1. scan' \in Scanners
  BY ExamineForm, WalkForm DEF ScannerStep
<1>2. faults' \in Nat
  BY DEF ScannerStep, ExamineFile, Examine, ExpandDir, ExpandLink, Walked, ListChildren, Fails,
         Works, TypeOK
<1> QED
  BY <1>1, <1>2 DEF ScannerStep, TypeOK

LEMMA TypesHold ==
  ASSUME LibraryAssumption, TypeOK, [Next]_vars
  PROVE  TypeOK'
<1>1. CASE Outside
  BY <1>1, OutsideForm
<1>2. CASE Rescan
  BY <1>2, StartForm DEF Rescan, files, job, TypeOK
<1>3. CASE CancelScan
  BY <1>3 DEF CancelScan, files, TypeOK
<1>4. CASE ScannerStep
  BY <1>4, ScannerTypes
<1>5. CASE Finish \/ Stop
  BY <1>5, ApplyForm DEF Finish, Stop
<1>6. CASE UNCHANGED vars
  BY <1>6 DEF vars, TypeOK
<1> QED
  BY <1>1, <1>2, <1>3, <1>4, <1>5, <1>6 DEF Next, Outside

LEMMA TypesInit == Init => TypeOK
<1>1. Absent \in Entries
  BY DEF Absent, Entries
<1> QED
  <2> SUFFICES ASSUME Init PROVE TypeOK
    OBVIOUS
  <2>1. disk \in [Places -> Entries] /\ index \in [Paths -> Entries]
    BY <1>1 DEF Init, Nothing
  <2>2. cancel \in BOOLEAN /\ held \in BOOLEAN
    BY DEF Init
  <2> QED BY <2>1, <2>2 DEF Init, TypeOK

------------------------------------------------------------------------------
(* Nothing is erased. Whatever the index holds and the disk still has is    *)
(* covered as long as the scan runs: it was seen, or is queued, or lies     *)
(* below a directory that is queued, or below one that was given up.        *)

UnderRoot(d) == \E i \in DOMAIN Roots : IsPrefix(Roots[i], d)

Rooted(s) ==
    /\ \A p \in Paths : Holds(s.found, p) => UnderRoot(p[1])
    /\ \A f : In(s.files, f) => UnderRoot(f.path[1])
    /\ \A d : Queued(s, d) => UnderRoot(d)

Covered(s, p) ==
    \/ p \in s.seen
    \/ \E f : In(s.files, f) /\ f.path = p
    \/ \E d \in s.blind : p \in Below(d)
    \/ \E d \in Dirs : Queued(s, d) /\ p \in Below(d)

\* A file that was there all the while.
Stayed(p) == disk[Place(p)] # Absent /\ Place(p) \notin touched

Careful ==
    /\ TypeOK
    /\ \A p \in Paths : Holds(index, p) => UnderRoot(p[1])
    /\ scan # None =>
          /\ scan.prior = index /\ Rooted(scan)
          /\ \A p \in Paths : Holds(index, p) /\ Stayed(p) => Covered(scan, p)

LEMMA PathFacts ==
  ASSUME LibraryAssumption
  PROVE  /\ \A d \in Dirs : d \in Seq(STRING) \ {<<>>}
         /\ \A p \in Paths : p[1] \in Dirs /\ Place(p) \in Places
         /\ \A i \in DOMAIN Roots : Roots[i] \in Dirs
  BY DEF LibraryAssumption, PathsAssumption, Places

LEMMA QueueTypes ==
  ASSUME LibraryAssumption, NEW s \in Scanners
  PROVE  /\ \A f : In(s.files, f) => f \in [path : Paths, mtime : Int]
         /\ \A d : Queued(s, d) => d \in Dirs
<1>1. /\ s.files \in Seq([path : Paths, mtime : Int]) /\ s.dirs \in Seq(Dirs)
      /\ s.links \in Seq(Dirs)
  BY DEF Scanners
<1>2. ASSUME NEW S, NEW q \in Seq(S), NEW x, In(q, x) PROVE x \in S
  BY <1>2 DEF In
<1> QED
  BY <1>1, <1>2 DEF Queued

LEMMA RootedBelow ==
  ASSUME LibraryAssumption, NEW d \in Dirs, UnderRoot(d), NEW e \in Dirs, IsPrefix(d, e)
  PROVE  UnderRoot(e)
<1>1. PICK i \in DOMAIN Roots : IsPrefix(Roots[i], d)
  BY DEF UnderRoot
<1>2. IsPrefix(Roots[i], e)
  BY <1>1, PathFacts, PrefixOfPrefix
<1> QED
  BY <1>2 DEF UnderRoot

\* The step that leads from a directory down to one below it is into a child.
LEMMA Downwards ==
  ASSUME LibraryAssumption, NEW d \in Dirs, UnderRoot(d), NEW e \in Dirs, IsPrefix(d, e), d # e
  PROVE  \E c \in Children(d) : IsPrefix(c, e)
<1>1. PICK i \in DOMAIN Roots : IsPrefix(Roots[i], d)
  BY DEF UnderRoot
<1>2. IsPrefix(Roots[i], e) /\ Len(Roots[i]) <= Len(d)
  <2>1. Roots[i] \in Seq(STRING) /\ d \in Seq(STRING) /\ e \in Seq(STRING)
    BY PathFacts
  <2> QED BY <1>1, <2>1, PrefixOfPrefix DEF IsPrefix
<1>3. PICK c : c = SubSeq(e, 1, Len(d) + 1)
  OBVIOUS
<1>4. /\ Len(d) + 1 \in Len(d)..Len(e)
      /\ c \in Seq(STRING) /\ Front(c) = d /\ IsPrefix(c, e)
  <2>1. d \in Seq(STRING) /\ e \in Seq(STRING)
    BY PathFacts
  <2> QED BY <1>3, <2>1 DEF IsPrefix, Front
<1>5. Len(d) + 1 \in Len(Roots[i])..Len(e)
  BY <1>2, <1>4, PathFacts
<1>6. c \in Dirs
  BY <1>2, <1>3, <1>5 DEF LibraryAssumption, TreeAssumption
<1> QED
  BY <1>4, <1>6 DEF Children

LEMMA ExamineKeeps ==
  ASSUME LibraryAssumption, TypeOK, scan # None, ExamineFile, Rooted(scan)
  PROVE  Rooted(scan') /\ \A p \in Paths : Covered(scan, p) => Covered(scan', p)
<1> DEFINE f == Head(scan.files)
<1>1. scan' \in Scanners /\ Examined(f, scan, scan')
  BY ExamineForm
<1>2. scan \in Scanners /\ scan.files \in Seq([path : Paths, mtime : Int]) /\ scan.files # <<>>
  BY DEF TypeOK, Scanners, ExamineFile
<1>3. \A x : In(scan.files, x) <=> x = f \/ In(scan'.files, x)
  BY <1>1, <1>2, Taken DEF Examined
<1>4. f.path \in Paths /\ UnderRoot(f.path[1])
  BY <1>2, <1>3, QueueTypes DEF Rooted
<1> HIDE DEF f
<1>5. \A q \in Paths : Holds(scan'.found, q) => Holds(scan.found, q) \/ q = f.path
  BY <1>1, <1>2 DEF Examined, Holds, Scanners
<1>6. Rooted(scan')
  BY <1>1, <1>3, <1>4, <1>5 DEF Rooted, Examined, Queued
<1>7. \A p \in Paths : Covered(scan, p) => Covered(scan', p)
  BY <1>1, <1>3 DEF Covered, Examined, Queued
<1> QED
  BY <1>6, <1>7

LEMMA WalkKeeps ==
  ASSUME LibraryAssumption, TypeOK, scan # None, ExpandDir \/ ExpandLink, Rooted(scan)
  PROVE  /\ Rooted(scan')
         /\ Describable => \A p \in Paths :
               disk[Place(p)] # Absent /\ Covered(scan, p) => Covered(scan', p)
<1>1. PICK d \in Dirs, s \in Scanners : Popped(d, s) /\ Went(d, s, scan')
  BY WalkForm
<1>2. PICK lost \in SUBSET Present(d), vague \in SUBSET Present(d), new \in SUBSET Children(d),
           cut \in BOOLEAN :
        /\ Snapshot(s, scan') /\ scan'.found = s.found /\ scan'.checked = s.checked
        /\ scan'.seen = s.seen \cup (vague \ lost)
        /\ \A f : In(scan'.files, f) <=>
                 In(s.files, f) \/ \E q \in Present(d) \ (lost \cup vague) : f = Entry(q)
        /\ \A c : Queued(scan', c) <=> Queued(s, c) \/ c \in new
        /\ ~ cut => lost = {} /\ (Describable => new = Children(d))
        /\ scan'.blind = IF cut THEN s.blind \cup {d} ELSE s.blind
  BY <1>1 DEF Went
<1>3. /\ \A c : Queued(scan, c) <=> c = d \/ Queued(s, c)
      /\ scan.files = <<>> /\ s.files = <<>> /\ s.seen = scan.seen /\ s.found = scan.found
      /\ s.blind = scan.blind
  BY <1>1 DEF Popped
<1>4. \A f : ~ In(scan.files, f) /\ ~ In(s.files, f)
  BY <1>3 DEF In
<1>5. UnderRoot(d)
  BY <1>3 DEF Rooted
<1>6. \A c \in Children(d) : c \in Dirs /\ IsPrefix(d, c)
  BY PathFacts, ChildFacts DEF Children
<1>7. Rooted(scan')
  <2>1. \A c : Queued(scan', c) => UnderRoot(c)
    BY <1>2, <1>3, <1>5, <1>6, RootedBelow DEF Rooted
  <2>2. \A f : In(scan'.files, f) => UnderRoot(f.path[1])
    BY <1>2, <1>4, <1>5 DEF Present, Entry
  <2> QED BY <1>2, <1>3, <2>1, <2>2 DEF Rooted
<1>8. ASSUME Describable, NEW p \in Paths, disk[Place(p)] # Absent, Covered(scan, p)
      PROVE  Covered(scan', p)
  <2>1. CASE p \in scan.seen \/ \E e \in scan.blind : p \in Below(e)
    BY <1>2, <1>3, <2>1 DEF Covered
  <2>2. ASSUME NEW e \in Dirs, Queued(scan, e), p \in Below(e), e # d
        PROVE  Covered(scan', p)
    BY <1>2, <1>3, <2>2 DEF Covered
  <2>3. CASE p \in Below(d) /\ cut
    BY <1>2, <2>3 DEF Covered
  <2>4. CASE p[1] = d /\ ~ cut
    <3>1. p \in Present(d) /\ Entry(p).path = p
      BY <1>8, <2>4 DEF Present, Entry
    <3>2. p \in vague \/ In(scan'.files, Entry(p))
      BY <1>2, <2>4, <3>1
    <3>3. p \in vague => p \in scan'.seen
      BY <1>2, <2>4
    <3> QED BY <3>1, <3>2, <3>3 DEF Covered
  <2>5. CASE p \in Below(d) /\ p[1] # d /\ ~ cut
    <3>1. PICK c \in Children(d) : IsPrefix(c, p[1])
      BY <1>5, <2>5, PathFacts, Downwards DEF Below
    <3>2. Queued(scan', c) /\ p \in Below(c) /\ c \in Dirs
      BY <1>2, <1>6, <1>8, <2>5, <3>1 DEF Below
    <3> QED BY <3>2 DEF Covered
  <2> QED BY <1>4, <1>8, <2>1, <2>2, <2>3, <2>4, <2>5 DEF Covered
<1> QED
  BY <1>7, <1>8

LEMMA RootsCover ==
  ASSUME LibraryAssumption, TypeOK, scan = None, StartScan,
         \A p \in Paths : Holds(index, p) => UnderRoot(p[1])
  PROVE  /\ Rooted(scan')
         /\ \A p \in Paths : Holds(index, p) => Covered(scan', p)
<1>1. /\ scan'.dirs = Roots /\ scan'.links = <<>> /\ scan'.files = <<>> /\ scan'.found = Nothing
  BY StartForm
<1>2. \A x : ~ In(<<>>, x)
  BY DEF In
<1>3. \A d : Queued(scan', d) <=> In(Roots, d)
  BY <1>1, <1>2 DEF Queued
<1>4. Rooted(scan')
  <2>1. \A p \in Paths : ~ Holds(scan'.found, p)
    BY <1>1 DEF Holds, Nothing, Absent
  <2>2. \A d : In(Roots, d) => UnderRoot(d)
    <3> SUFFICES ASSUME NEW i \in DOMAIN Roots PROVE UnderRoot(Roots[i])
      BY DEF In
    <3>1. Roots[i] \in Seq(STRING)
      BY PathFacts
    <3>2. IsPrefix(Roots[i], Roots[i])
      BY <3>1 DEF IsPrefix
    <3> QED BY <3>2 DEF UnderRoot
  <2> QED BY <1>1, <1>2, <1>3, <2>1, <2>2 DEF Rooted
<1>5. ASSUME NEW p \in Paths, Holds(index, p) PROVE Covered(scan', p)
  <2>1. PICK i \in DOMAIN Roots : IsPrefix(Roots[i], p[1])
    BY <1>5 DEF UnderRoot
  <2>2. Roots[i] \in Dirs /\ In(Roots, Roots[i]) /\ p \in Below(Roots[i])
    BY <2>1, PathFacts DEF In, Below
  <2> QED BY <1>3, <2>2 DEF Covered
<1> QED
  BY <1>4, <1>5

LEMMA CarefulInit == Init => Careful
  BY TypesInit DEF Init, Careful, Nothing, Holds, Absent

LEMMA CarefulNext ==
  ASSUME LibraryAssumption, Describable, Careful, [Next]_vars
  PROVE  Careful'
<1>1. TypeOK'
  BY TypesHold DEF Careful
<1>2. CASE Outside
  <2>1. TypeOK /\ OutsideEffect
    BY <1>2, OutsideForm DEF Careful
  <2>2. \A p \in Paths : Stayed(p)' => Stayed(p)
    BY <2>1, PathFacts DEF OutsideEffect, Stayed
  <2>3. \A p : Holds(index, p)' <=> Holds(index, p)
    BY <2>1 DEF OutsideEffect, Holds
  <2> QED BY <1>1, <2>1, <2>2, <2>3 DEF Careful, OutsideEffect, Rooted, Covered, Queued, Holds
<1>3. CASE StartScan /\ scan = None
  <2>1. /\ UNCHANGED <<disk, index>> /\ scan'.prior = index
        /\ Rooted(scan') /\ \A p \in Paths : Holds(index, p) => Covered(scan', p)
    BY <1>3, StartForm, RootsCover DEF Careful
  <2> QED BY <1>1, <2>1 DEF Careful, Holds
<1>4. CASE ScannerStep
  <2>1. /\ UNCHANGED <<disk, index, touched>> /\ scan # None /\ scan'.prior = scan.prior
    <3>1. CASE ExamineFile
      BY <1>4, <3>1, ExamineForm DEF Careful, ScannerStep, Examined, Snapshot
    <3>2. CASE ExpandDir \/ ExpandLink
      <4>1. PICK d \in Dirs, s \in Scanners : Popped(d, s) /\ Went(d, s, scan')
        BY <1>4, <3>2, WalkForm DEF Careful, ScannerStep
      <4> QED BY <1>4, <4>1 DEF Popped, Went, Snapshot, ScannerStep
    <3> QED BY <1>4, <3>1, <3>2 DEF ScannerStep
  <2>2. /\ Rooted(scan')
        /\ \A p \in Paths : Stayed(p) /\ Covered(scan, p) => Covered(scan', p)
    BY <1>4, ExamineKeeps, WalkKeeps DEF Careful, ScannerStep, Stayed
  <2> QED BY <1>1, <2>1, <2>2 DEF Careful, Stayed, Holds
<1>5. ASSUME NEW complete \in BOOLEAN, scan # None, Apply(complete)
      PROVE  Careful'
  <2>1. /\ scan' = None
        /\ \A p \in Paths :
              index'[p] = IF complete /\ p \in Removals THEN Absent
                          ELSE IF Holds(scan.found, p) THEN scan.found[p] ELSE scan.prior[p]
    BY <1>5, ApplyForm DEF Careful
  <2>2. \A p \in Paths : Holds(index', p) => Holds(scan.found, p) \/ Holds(scan.prior, p)
    BY <2>1 DEF Holds, Absent
  <2> QED BY <1>1, <1>5, <2>1, <2>2 DEF Careful, Rooted, Holds
<1>6. CASE UNCHANGED <<disk, index, scan, touched>>
  BY <1>1, <1>6 DEF Careful, Stayed, Holds, Rooted, Covered, Queued
<1>7. CASE Rescan \/ CancelScan \/ UNCHANGED vars
  BY <1>3, <1>6, <1>7 DEF Rescan, CancelScan, files, job, vars
<1> QED
  BY <1>2, <1>4, <1>5, <1>7 DEF Next, Outside, Finish, Stop

\* What a scan takes from the index was not covered, so it had not stayed.
LEMMA NothingErased ==
  ASSUME LibraryAssumption, Describable, Careful, [Next]_vars, NEW p \in Paths,
         Holds(index, p), ~ Holds(index', p)
  PROVE  disk[Place(p)] = Absent \/ Place(p) \in touched
<1>1. CASE Finish
  <2>1. /\ scan # None /\ scan.files = <<>> /\ scan.dirs = <<>> /\ scan.links = <<>>
        /\ index'[p] = IF p \in Removals THEN Absent
                       ELSE IF Holds(scan.found, p) THEN scan.found[p] ELSE scan.prior[p]
    BY <1>1, ApplyForm DEF Finish, Pending, Careful
  <2>2. p \in Removals
    BY <2>1 DEF Careful, Holds
  <2>3. ~ Covered(scan, p)
    BY <2>1, <2>2 DEF Removals, Covered, Queued, In
  <2> QED BY <2>1, <2>3 DEF Careful, Stayed
<1>2. CASE Stop
  <2>1. index'[p] = IF Holds(scan.found, p) THEN scan.found[p] ELSE scan.prior[p]
    BY <1>2, ApplyForm DEF Stop, Careful
  <2> QED BY <1>2, <2>1 DEF Careful, Stop, Holds
<1>3. CASE UNCHANGED index
  BY <1>3 DEF Holds
<1> QED
  BY <1>1, <1>2, <1>3
  DEF Next, Tick, Edit, Delete, Rescan, StartScan, CancelScan, ScannerStep, files, job, vars

\* A file that is on disk all through a scan keeps its entry, whatever the file
\* system refuses to list, to open or to canonicalise (scan.rs:34-44), as long as
\* it describes the directories it does list.
THEOREM NothingIsErased == LibraryAssumption /\ Describable => (Spec => NeverErased)
<1>1. ASSUME LibraryAssumption, Describable
      PROVE  Spec => NeverErased
  <2>1. Init => Careful
    BY CarefulInit
  <2>2. Careful /\ [Next]_vars => Careful'
    BY <1>1, CarefulNext
  <2>3. Careful /\ [Next]_vars =>
            [\A p \in Paths : Holds(index, p) /\ ~ Holds(index', p) =>
                 disk[Place(p)] = Absent \/ Place(p) \in touched]_index
    BY <1>1, NothingErased
  <2> QED BY <2>1, <2>2, <2>3, PTL DEF Spec, NeverErased
<1> QED
  BY <1>1

------------------------------------------------------------------------------
(* What a complete scan saw is what is on disk. No directory is walked      *)
(* twice when no root lies below another (Frontier); what was queued, read  *)
(* or passed by is true of every file nobody touched (Exact); and an entry  *)
(* that is not suspect agrees with its file if size and time say so         *)
(* (Trusted).                                                               *)

Unnested == \A i, j \in DOMAIN Roots : IsPrefix(Roots[i], Roots[j]) => i = j

Frontier(s) ==
    /\ Tidy(s) /\ s.blind \cap s.full = {}
    /\ \A c, e : Queued(s, c) /\ Queued(s, e) /\ IsPrefix(c, e) => c = e
    /\ \A c : Queued(s, c) => \A e \in s.blind \cup s.full : ~ IsPrefix(c, e)

Old(mtime) == baseline # None /\ mtime < baseline - Window

OnDisk(p, mtime) == disk[Place(p)] # Absent /\ disk[Place(p)].mtime = mtime

QueueExact(s) ==
    \A f : In(s.files, f) /\ Place(f.path) \notin touched => OnDisk(f.path, f.mtime)
FoundExact(s) ==
    \A p \in Paths : Holds(s.found, p) =>
        p \in s.seen /\ (Place(p) \notin touched => s.found[p] = disk[Place(p)])
PassedExact(s) ==
    \A p \in s.checked : ~ Holds(s.found, p) =>
        /\ Holds(s.prior, p) /\ (baseline # None => Old(s.prior[p].mtime))
        /\ Place(p) \notin touched => OnDisk(p, s.prior[p].mtime)
ListedExact(s) ==
    \A p \in Paths : p[1] \in s.full /\ Stayed(p) =>
        p \in s.seen \/ \E f : In(s.files, f) /\ f.path = p
Exact(s) == QueueExact(s) /\ FoundExact(s) /\ PassedExact(s) /\ ListedExact(s)

Trusted(p) ==
    Holds(index, p) /\ p \notin unsure =>
        /\ baseline # None
        /\ OnDisk(p, index[p].mtime) /\ Old(index[p].mtime)
              => disk[Place(p)].content = index[p].content

Dated ==
    /\ scan.prior = index /\ scan.base = baseline /\ scan.start <= now
    /\ baseline # None => baseline <= scan.start
    /\ \A x \in touched : disk[x] = Absent \/ disk[x].mtime > scan.start - Window

Truthful ==
    /\ TypeOK /\ (baseline # None => baseline <= now)
    /\ \A p \in Paths : Trusted(p)
    /\ scan # None => Dated /\ Frontier(scan) /\ Exact(scan)

LEMMA WalkFrontier ==
  ASSUME LibraryAssumption, TypeOK, scan # None, ExpandDir \/ ExpandLink, Frontier(scan)
  PROVE  Frontier(scan')
<1>1. PICK d \in Dirs, s \in Scanners : Popped(d, s) /\ Went(d, s, scan')
  BY WalkForm
<1>2. PICK new \in SUBSET Children(d) :
        /\ \A c : Queued(scan', c) <=> Queued(s, c) \/ c \in new
        /\ Tidy(s) /\ (\A c \in new : ~ Queued(s, c)) => Tidy(scan')
        /\ \/ scan'.blind = s.blind \cup {d} /\ scan'.full = s.full
           \/ scan'.blind = s.blind /\ (scan'.full = s.full \/ scan'.full = s.full \cup {d})
  BY <1>1 DEF Went
<1>3. /\ \A c : Queued(scan, c) <=> c = d \/ Queued(s, c)
      /\ Tidy(s) /\ ~ Queued(s, d) /\ s.blind = scan.blind /\ s.full = scan.full
  BY <1>1 DEF Popped, Frontier
<1>4. /\ \A c \in Children(d) : c \in Dirs /\ IsPrefix(d, c) /\ ~ IsPrefix(c, d)
      /\ \A c \in Children(d), e \in Dirs : IsPrefix(e, c) => e = c \/ IsPrefix(e, d)
      /\ \A b, c \in Children(d) : IsPrefix(b, c) => b = c
  BY PathFacts, ChildFacts, Siblings DEF Children
<1>5. \A c : Queued(s, c) => c \in Dirs /\ ~ IsPrefix(c, d) /\ ~ IsPrefix(d, c)
  BY <1>3, QueueTypes DEF Frontier
<1>6. scan.blind \subseteq Dirs /\ scan.full \subseteq Dirs
  BY DEF TypeOK, Scanners
<1>7. \A c \in Children(d), e \in Dirs : IsPrefix(c, e) => IsPrefix(d, e)
  BY <1>4, PathFacts, PrefixOfPrefix
<1>8. Tidy(scan')
  BY <1>2, <1>3, <1>4, <1>5
<1>9. d \notin scan.blind \cup scan.full
  <2>1. IsPrefix(d, d)
    BY PathFacts DEF IsPrefix
  <2> QED BY <1>3, <2>1 DEF Frontier
<1>10. scan'.blind \cap scan'.full = {}
  BY <1>2, <1>3, <1>9 DEF Frontier
<1>11. ASSUME NEW c, NEW e, Queued(scan', c), Queued(scan', e), IsPrefix(c, e)
       PROVE  c = e
  <2>1. CASE Queued(s, c) /\ Queued(s, e)
    BY <1>3, <1>11, <2>1 DEF Frontier
  <2>2. CASE c \in new /\ e \in new
    BY <1>4, <1>11, <2>2
  <2>3. CASE c \in new /\ Queued(s, e)
    BY <1>5, <1>7, <1>11, <2>3
  <2>4. CASE Queued(s, c) /\ e \in new
    BY <1>4, <1>5, <1>11, <2>4
  <2> QED BY <1>2, <1>11, <2>1, <2>2, <2>3, <2>4
<1>12. ASSUME NEW c, Queued(scan', c), NEW e \in scan'.blind \cup scan'.full
       PROVE  ~ IsPrefix(c, e)
  <2>1. e = d \/ e \in scan.blind \cup scan.full
    BY <1>2, <1>3
  <2>2. ~ IsPrefix(c, d)
    BY <1>2, <1>4, <1>5, <1>12
  <2>3. CASE Queued(s, c) /\ e \in scan.blind \cup scan.full
    BY <1>3, <2>3 DEF Frontier
  <2>4. CASE c \in new /\ e \in scan.blind \cup scan.full
    BY <1>3, <1>6, <1>7, <2>4 DEF Frontier
  <2> QED BY <1>2, <1>12, <2>1, <2>2, <2>3, <2>4
<1> QED
  BY <1>8, <1>10, <1>11, <1>12 DEF Frontier

LEMMA ExamineFrontier ==
  ASSUME LibraryAssumption, TypeOK, scan # None, ExamineFile, Frontier(scan)
  PROVE  Frontier(scan')
<1>1. Examined(Head(scan.files), scan, scan')
  BY ExamineForm
<1> QED
  BY <1>1 DEF Examined, Frontier, Queued, Tidy

LEMMA ExamineExact ==
  ASSUME LibraryAssumption, TypeOK, scan # None, ExamineFile, Dated, Exact(scan),
         UNCHANGED <<disk, baseline, touched>>
  PROVE  Exact(scan')
<1> DEFINE f == Head(scan.files)
<1>1. scan' \in Scanners /\ Examined(f, scan, scan')
  BY ExamineForm
<1>2. /\ scan \in Scanners /\ scan.files \in Seq([path : Paths, mtime : Int]) /\ scan.files # <<>>
      /\ scan.prior \in [Paths -> Entries] /\ scan.found \in [Paths -> Entries]
  BY DEF TypeOK, Scanners, ExamineFile
<1>3. (\A x : In(scan.files, x) <=> x = f \/ In(scan'.files, x)) /\ In(scan.files, f)
  BY <1>1, <1>2, Taken DEF Examined
<1>4. f \in [path : Paths, mtime : Int]
  BY <1>2, <1>3, QueueTypes
<1>5. Place(f.path) \notin touched => OnDisk(f.path, f.mtime)
  BY <1>3 DEF Exact, QueueExact
<1> HIDE DEF f
<1>6. PICK c : c = disk[Place(f.path)].content
  OBVIOUS
<1>7. QueueExact(scan')
  BY <1>3 DEF Exact, QueueExact, OnDisk
<1>8. \A q \in Paths : scan'.found[q] = scan.found[q]
          \/ (q = f.path /\ scan'.found[q] = [content |-> c, mtime |-> f.mtime])
  BY <1>1, <1>2, <1>6 DEF Examined
<1>9. FoundExact(scan')
  <2> SUFFICES ASSUME NEW p \in Paths, Holds(scan'.found, p)
               PROVE  p \in scan'.seen
                      /\ (Place(p) \notin touched => scan'.found[p] = disk[Place(p)])
    BY DEF FoundExact
  <2>1. CASE scan'.found[p] = scan.found[p]
    BY <1>1, <2>1 DEF Exact, FoundExact, Holds, Examined
  <2>2. CASE p = f.path /\ scan'.found[p] = [content |-> c, mtime |-> f.mtime]
    <3>1. disk[Place(p)] \in Entries
      BY PathFacts DEF TypeOK
    <3>2. Place(p) \notin touched => disk[Place(p)] = [content |-> c, mtime |-> f.mtime]
      BY <1>5, <1>6, <2>2, <3>1 DEF OnDisk, Entries
    <3> QED BY <1>1, <2>2, <3>2 DEF Examined
  <2> QED BY <1>8, <2>1, <2>2
<1>10. PassedExact(scan')
  <2> SUFFICES ASSUME NEW p \in scan'.checked, ~ Holds(scan'.found, p)
               PROVE  /\ Holds(scan.prior, p) /\ (baseline # None => Old(scan.prior[p].mtime))
                      /\ Place(p) \notin touched => OnDisk(p, scan.prior[p].mtime)
    BY <1>1 DEF PassedExact, Examined, Snapshot, Old, OnDisk
  <2>1. p \in Paths
    BY <1>1 DEF Scanners
  <2>2. CASE p \in scan.checked /\ p # f.path
    <3>1. ~ Holds(scan.found, p)
      BY <1>8, <2>1, <2>2 DEF Holds
    <3> QED BY <2>2, <3>1 DEF Exact, PassedExact
  <2>3. CASE p = f.path /\ Unchanged(f)
    <3>1. Holds(scan.prior, p) /\ scan.prior[p].mtime = f.mtime
      BY <2>3 DEF Unchanged
    <3>2. baseline # None => Old(f.mtime)
      <4>1. baseline # None => ~ (f.mtime >= baseline - Window)
        BY <2>3 DEF Unchanged, Suspect, Dated
      <4>2. baseline # None => baseline - Window \in Int /\ f.mtime \in Int
        BY <1>4 DEF TypeOK, LibraryAssumption, ClockAssumption
      <4> QED BY <4>1, <4>2 DEF Old
    <3> QED BY <1>5, <2>3, <3>1, <3>2
  <2>4. CASE p = f.path /\ ~ Unchanged(f) /\ scan'.checked = scan.checked /\ scan'.found = scan.found
    BY <2>4 DEF Exact, PassedExact
  <2>5. CASE p = f.path /\ c # 0 /\ scan'.found[p] = [content |-> c, mtime |-> f.mtime]
    BY <2>5 DEF Holds
  <2>6. \/ Unchanged(f)
        \/ c # 0 /\ scan'.found[f.path] = [content |-> c, mtime |-> f.mtime]
        \/ scan'.checked = scan.checked /\ scan'.found = scan.found
    BY <1>1, <1>2, <1>4, <1>6 DEF Examined
  <2>7. p \in scan.checked \/ p = f.path
    BY <1>1 DEF Examined
  <2> QED BY <2>2, <2>3, <2>4, <2>5, <2>6, <2>7
<1>11. ListedExact(scan')
  BY <1>1, <1>3 DEF Exact, ListedExact, Examined, Stayed
<1> QED
  BY <1>7, <1>9, <1>10, <1>11 DEF Exact

LEMMA WalkExact ==
  ASSUME LibraryAssumption, TypeOK, scan # None, ExpandDir \/ ExpandLink, Exact(scan),
         UNCHANGED <<disk, baseline, touched>>
  PROVE  Exact(scan')
<1>1. PICK d \in Dirs, s \in Scanners : Popped(d, s) /\ Went(d, s, scan')
  BY WalkForm
<1>2. PICK lost \in SUBSET Present(d), vague \in SUBSET Present(d) :
        /\ Snapshot(s, scan') /\ scan'.found = s.found /\ scan'.checked = s.checked
        /\ scan'.seen = s.seen \cup (vague \ lost)
        /\ \A f : In(scan'.files, f) <=>
                 In(s.files, f) \/ \E q \in Present(d) \ (lost \cup vague) : f = Entry(q)
        /\ scan'.full = s.full \/ (scan'.full = s.full \cup {d} /\ lost \cup vague = {})
  BY <1>1 DEF Went
<1>3. /\ scan.files = <<>> /\ s.files = <<>> /\ s.seen = scan.seen /\ s.found = scan.found
      /\ s.checked = scan.checked /\ s.full = scan.full /\ Snapshot(scan, s)
  BY <1>1 DEF Popped
<1>4. \A f : ~ In(scan.files, f) /\ ~ In(s.files, f)
  BY <1>3 DEF In
<1>5. QueueExact(scan')
  BY <1>2, <1>4 DEF QueueExact, Entry, Present, OnDisk
<1>6. FoundExact(scan') /\ PassedExact(scan')
  BY <1>2, <1>3 DEF Exact, FoundExact, PassedExact, Snapshot, OnDisk, Old
<1>7. ListedExact(scan')
  <2> SUFFICES ASSUME NEW p \in Paths, p[1] \in scan'.full, Stayed(p)
               PROVE  p \in scan'.seen \/ \E f : In(scan'.files, f) /\ f.path = p
    BY DEF ListedExact, Stayed
  <2>1. CASE p[1] \in scan.full
    BY <1>2, <1>3, <1>4, <2>1 DEF Exact, ListedExact
  <2>2. CASE p[1] = d /\ lost \cup vague = {}
    <3>1. p \in Present(d) /\ Entry(p).path = p
      BY <2>2 DEF Present, Stayed, Entry
    <3> QED BY <1>2, <2>2, <3>1
  <2> QED BY <1>2, <1>3, <2>1, <2>2
<1> QED
  BY <1>5, <1>6, <1>7 DEF Exact

LEMMA OutsideTruthful ==
  ASSUME LibraryAssumption, Truthful, Outside
  PROVE  Truthful'
<1>1. TypeOK /\ TypeOK' /\ OutsideEffect
  BY OutsideForm DEF Truthful
<1>2. /\ now \in Nat /\ now' \in Nat /\ now <= now' /\ Grain \in Nat /\ Window \in Nat
      /\ Grain <= Window /\ UNCHANGED <<index, baseline, scan, unsure>> /\ baseline \in Nat \cup {None}
  BY <1>1 DEF OutsideEffect, TypeOK, LibraryAssumption, ClockAssumption
<1>3. /\ disk \in [Places -> Entries] /\ disk' \in [Places -> Entries]
      /\ \A x \in Places : disk'[x].mtime \in Int
  BY <1>1 DEF TypeOK, Entries
<1>4. baseline # None => baseline' <= now'
  BY <1>2 DEF Truthful
<1>5. ASSUME NEW p \in Paths PROVE Trusted(p)'
  <2>1. Place(p) \in Places
    BY PathFacts
  <2>2. CASE disk'[Place(p)] = disk[Place(p)]
    BY <1>2, <2>2 DEF Truthful, Trusted, Holds, OnDisk, Old
  <2>3. CASE disk'[Place(p)] = Absent
    BY <1>2, <2>3 DEF Truthful, Trusted, Holds, OnDisk
  <2>4. CASE disk'[Place(p)].mtime > now - Grain
    <3>1. PICK m \in Int : m = disk'[Place(p)].mtime
      BY <1>3, <2>1
    <3>2. ~ Old(m)'
      BY <1>2, <2>4, <3>1 DEF Old, Truthful
    <3> QED BY <1>2, <3>1, <3>2 DEF Truthful, Trusted, Holds, OnDisk
  <2> QED BY <1>1, <2>1, <2>2, <2>3, <2>4 DEF OutsideEffect
<1>6. ASSUME scan # None PROVE Dated' /\ Frontier(scan)' /\ Exact(scan)'
  <2>1. Dated /\ Frontier(scan) /\ Exact(scan) /\ scan.start \in Nat
    BY <1>1, <1>6 DEF Truthful, TypeOK, Scanners
  <2>2. \A x \in Places : x \notin touched' => disk'[x] = disk[x] /\ x \notin touched
    BY <1>1 DEF OutsideEffect
  <2>3. \A x \in touched' : disk'[x] = Absent \/ disk'[x].mtime > scan.start - Window
    <3> SUFFICES ASSUME NEW x \in touched', disk'[x] # Absent
                 PROVE  disk'[x].mtime > scan.start - Window
      OBVIOUS
    <3>1. x \in Places
      BY <1>1 DEF TypeOK
    <3>2. CASE disk'[x] = disk[x] /\ x \in touched
      BY <2>1, <3>2 DEF Dated
    <3>3. CASE disk'[x].mtime > now - Grain
      <4>1. scan.start <= now
        BY <2>1 DEF Dated
      <4> QED BY <1>2, <1>3, <2>1, <3>1, <3>3, <4>1
    <3> QED BY <1>1, <3>1, <3>2, <3>3 DEF OutsideEffect
  <2>4. Dated'
    BY <1>2, <2>1, <2>3 DEF Dated
  <2>5. \A f : In(scan.files, f) => f.path \in Paths
    BY <1>1, <1>6, QueueTypes DEF TypeOK
  <2>6. scan.checked \subseteq Paths
    BY <1>1, <1>6 DEF TypeOK, Scanners
  <2>7. QueueExact(scan)'
    BY <1>2, <2>1, <2>2, <2>5, PathFacts DEF Exact, QueueExact, OnDisk
  <2>8. FoundExact(scan)'
    BY <1>2, <2>1, <2>2, PathFacts DEF Exact, FoundExact, Holds
  <2>9. PassedExact(scan)'
    BY <1>2, <2>1, <2>2, <2>6, PathFacts DEF Exact, PassedExact, OnDisk, Holds, Old
  <2>10. ListedExact(scan)'
    BY <1>2, <2>1, <2>2, PathFacts DEF Exact, ListedExact, Stayed
  <2>11. Frontier(scan)'
    BY <1>2, <2>1
  <2> QED BY <2>4, <2>7, <2>8, <2>9, <2>10, <2>11 DEF Exact
<1> QED
  BY <1>1, <1>2, <1>4, <1>5, <1>6 DEF Truthful, Exact, Frontier

LEMMA StartTruthful ==
  ASSUME LibraryAssumption, Unnested, Truthful, scan = None, StartScan
  PROVE  Truthful'
<1>1. /\ TypeOK /\ TypeOK' /\ scan' # None /\ UNCHANGED <<disk, now, index, baseline, unsure>>
      /\ touched' = {} /\ scan'.prior = index /\ scan'.base = baseline /\ scan'.start = now
      /\ scan'.dirs = Roots /\ scan'.links = <<>> /\ scan'.files = <<>>
      /\ scan'.found = Nothing /\ scan'.blind = {} /\ scan'.full = {} /\ scan'.checked = {}
  BY StartForm DEF Truthful
<1>2. \A x : ~ In(<<>>, x)
  BY DEF In
<1>3. Dated'
  BY <1>1 DEF Dated, Truthful, TypeOK
<1>4. Exact(scan)'
  BY <1>1, <1>2 DEF Exact, QueueExact, FoundExact, PassedExact, ListedExact, Holds, Nothing, Absent
<1>5. Frontier(scan')
  <2>1. \A i \in DOMAIN Roots : IsPrefix(Roots[i], Roots[i])
    BY PathFacts DEF IsPrefix
  <2>2. Simple(Roots)
    BY <2>1 DEF Simple, Unnested
  <2>3. Tidy(scan')
    <3>1. Simple(<<>>)
      BY DEF Simple
    <3> QED BY <1>1, <1>2, <2>2, <3>1 DEF Tidy
  <2>4. \A c : Queued(scan', c) <=> In(Roots, c)
    BY <1>1, <1>2 DEF Queued
  <2>5. ASSUME NEW c, NEW e, In(Roots, c), In(Roots, e), IsPrefix(c, e) PROVE c = e
    BY <2>5 DEF In, Unnested
  <2> QED BY <1>1, <2>3, <2>4, <2>5 DEF Frontier
<1>6. \A p \in Paths : Trusted(p)'
  BY <1>1 DEF Truthful, Trusted, Holds, OnDisk, Old
<1> QED
  BY <1>1, <1>3, <1>4, <1>5, <1>6 DEF Truthful, Frontier, Queued, Tidy

LEMMA StepTruthful ==
  ASSUME LibraryAssumption, Truthful, ScannerStep
  PROVE  Truthful'
<1>1. /\ TypeOK /\ TypeOK' /\ UNCHANGED <<disk, now, index, baseline, touched, unsure>>
      /\ scan # None /\ Dated /\ Frontier(scan) /\ Exact(scan)
  BY ScannerTypes DEF Truthful, ScannerStep
<1>2. Frontier(scan') /\ Exact(scan')
  BY <1>1, ExamineFrontier, ExamineExact, WalkFrontier, WalkExact DEF ScannerStep
<1>3. Snapshot(scan, scan')
  <2>1. CASE ExamineFile
    BY <1>1, <2>1, ExamineForm DEF Examined
  <2>2. CASE ExpandDir \/ ExpandLink
    <3>1. PICK d \in Dirs, s \in Scanners : Popped(d, s) /\ Went(d, s, scan')
      BY <1>1, <2>2, WalkForm
    <3> QED BY <3>1 DEF Popped, Went, Snapshot
  <2> QED BY <2>1, <2>2 DEF ScannerStep
<1>4. Dated'
  BY <1>1, <1>3 DEF Dated, Snapshot
<1>5. Exact(scan)'
  BY <1>1, <1>2 DEF Exact, QueueExact, FoundExact, PassedExact, ListedExact, OnDisk, Stayed,
       Holds, Old
<1>6. \A p \in Paths : Trusted(p)'
  BY <1>1 DEF Truthful, Trusted, Holds, OnDisk, Old
<1> QED
  BY <1>1, <1>2, <1>4, <1>5, <1>6 DEF Truthful, Frontier, Queued, Tidy

LEMMA ApplyTruthful ==
  ASSUME LibraryAssumption, Truthful, scan # None, NEW complete \in BOOLEAN, Apply(complete)
  PROVE  Truthful'
<1>1. /\ TypeOK /\ TypeOK' /\ scan' = None /\ UNCHANGED <<disk, now, touched>>
      /\ baseline' = IF complete THEN scan.start ELSE baseline
      /\ \A p \in Paths :
            /\ index'[p] = IF complete /\ p \in Removals THEN Absent
                           ELSE IF Holds(scan.found, p) THEN scan.found[p] ELSE scan.prior[p]
            /\ p \notin unsure' =>
                  IF Holds(scan.found, p) THEN baseline' # None
                  ELSE p \notin unsure /\ (complete /\ Holds(scan.prior, p) => p \in scan.checked)
  BY ApplyForm DEF Truthful
<1>2. /\ Dated /\ Exact(scan) /\ scan.prior \in [Paths -> Entries] /\ scan.start \in Nat
      /\ scan.found \in [Paths -> Entries] /\ disk \in [Places -> Entries]
      /\ baseline \in Nat \cup {None} /\ Window \in Nat /\ None \notin Nat
  BY <1>1 DEF Truthful, TypeOK, Scanners, LibraryAssumption, ClockAssumption, NoneAssumption
<1>3. /\ baseline' \in Nat \cup {None} /\ (baseline' # None => baseline' <= scan.start)
      /\ (baseline # None => baseline' # None /\ baseline <= baseline')
  BY <1>1, <1>2 DEF Dated
<1>4. ASSUME NEW p \in Paths, Holds(index', p), p \notin unsure'
      PROVE  /\ baseline' # None
             /\ OnDisk(p, index'[p].mtime) /\ index'[p].mtime < baseline' - Window
                  => disk[Place(p)].content = index'[p].content
  <2>1. index'[p] = IF Holds(scan.found, p) THEN scan.found[p] ELSE scan.prior[p]
    BY <1>1, <1>4 DEF Holds, Absent
  <2>2. CASE Holds(scan.found, p)
    <3>1. baseline' # None /\ index'[p] = scan.found[p]
      BY <1>1, <1>4, <2>1, <2>2
    <3>2. CASE Place(p) \notin touched
      BY <1>2, <2>2, <3>1, <3>2 DEF Exact, FoundExact
    <3>3. CASE Place(p) \in touched /\ OnDisk(p, index'[p].mtime)
      <4>1. PICK m \in Int : m = disk[Place(p)].mtime
        BY <1>2, PathFacts DEF Entries
      <4>2. m > scan.start - Window /\ m = index'[p].mtime
        BY <3>3, <4>1, <1>2 DEF Dated, OnDisk
      <4> QED BY <1>2, <1>3, <3>1, <4>1, <4>2
    <3> QED BY <3>1, <3>2, <3>3
  <2>3. CASE ~ Holds(scan.found, p)
    <3>1. /\ index'[p] = index[p] /\ scan.prior[p] = index[p] /\ Holds(index, p)
          /\ Holds(scan.prior, p) /\ p \notin unsure
      BY <1>1, <1>2, <1>4, <2>1, <2>3 DEF Dated, Holds
    <3>2. /\ baseline # None
          /\ OnDisk(p, index[p].mtime) /\ Old(index[p].mtime)
               => disk[Place(p)].content = index[p].content
      BY <3>1 DEF Truthful, Trusted
    <3>3. CASE ~ complete
      BY <1>1, <3>1, <3>2, <3>3 DEF Old
    <3>4. CASE complete
      <4>1. p \in scan.checked
        BY <1>1, <1>4, <2>3, <3>1, <3>4
      <4>2. Old(index[p].mtime)
        BY <1>2, <2>3, <3>1, <3>2, <4>1 DEF Exact, PassedExact
      <4> QED BY <1>3, <3>1, <3>2, <4>2
    <3> QED BY <3>3, <3>4
  <2> QED BY <2>2, <2>3
<1>5. \A p \in Paths : Trusted(p)'
  BY <1>1, <1>4 DEF Trusted, Holds, OnDisk, Old
<1>6. baseline' # None => baseline' <= now
  BY <1>1, <1>2, <1>3 DEF Dated, Truthful, TypeOK
<1> QED
  BY <1>1, <1>5, <1>6 DEF Truthful

LEMMA TruthfulInit == Init => Truthful
  BY TypesInit DEF Init, Truthful, Trusted, Nothing, Holds, Absent

LEMMA TruthfulNext ==
  ASSUME LibraryAssumption, Unnested, Truthful, [Next]_vars
  PROVE  Truthful'
<1>1. TypeOK'
  BY TypesHold DEF Truthful
<1>2. CASE UNCHANGED <<disk, now, index, baseline, scan, touched, unsure>>
  BY <1>1, <1>2 DEF Truthful, Trusted, Holds, OnDisk, Old, Dated, Frontier, Queued, Tidy, Exact,
       QueueExact, FoundExact, PassedExact, ListedExact, Stayed
<1>3. CASE Rescan \/ CancelScan \/ UNCHANGED vars
  BY <1>2, <1>3, StartTruthful DEF Rescan, CancelScan, files, job, vars
<1> QED
  BY <1>3, OutsideTruthful, StepTruthful, ApplyTruthful DEF Next, Outside, Finish, Stop

LEMMA FinishedIsExact ==
  ASSUME LibraryAssumption, Truthful, Finish, NEW p \in Paths, Settled(p)
  PROVE  Agrees(p)
<1>1. /\ scan # None /\ scan.files = <<>>
      /\ index'[p] = IF p \in Removals THEN Absent
                     ELSE IF Holds(scan.found, p) THEN scan.found[p] ELSE scan.prior[p]
      /\ p \notin unsure' /\ ~ Holds(scan.found, p) => p \notin unsure
  BY ApplyForm DEF Finish, Pending, Truthful
<1>2. Dated /\ Frontier(scan) /\ Exact(scan) /\ scan.prior = index /\ Place(p) \notin touched
  BY <1>1 DEF Truthful, Dated, Settled
<1>3. CASE p \in scan.seen /\ Holds(scan.found, p)
  <2>1. index'[p] = scan.found[p]
    BY <1>1, <1>3 DEF Removals
  <2> QED BY <1>2, <1>3, <2>1 DEF Exact, FoundExact, Agrees
<1>4. CASE p \in scan.seen /\ ~ Holds(scan.found, p)
  <2>1. index'[p] = index[p] /\ p \in scan.checked /\ p \notin unsure
    BY <1>1, <1>2, <1>4 DEF Removals, Settled
  <2>2. /\ Holds(index, p) /\ OnDisk(p, index[p].mtime)
        /\ baseline # None => Old(index[p].mtime)
    BY <1>2, <1>4, <2>1 DEF Exact, PassedExact
  <2> QED BY <2>1, <2>2 DEF Truthful, Trusted, Agrees
<1>5. CASE p \notin scan.seen
  <2>1. disk[Place(p)] = Absent
    BY <1>1, <1>2, <1>5 DEF Exact, ListedExact, Stayed, Settled, In
  <2>2. ~ Holds(scan.found, p)
    BY <1>2, <1>5 DEF Exact, FoundExact
  <2>3. \A d \in scan.blind : p \notin Below(d)
    BY <1>2, <1>5 DEF Frontier, Settled
  <2>4. Holds(scan.prior, p) => index'[p] = Absent
    BY <1>1, <1>5, <2>3 DEF Removals
  <2>5. index'[p].content = 0
    BY <1>1, <2>2, <2>4 DEF Holds, Absent
  <2> QED BY <2>1, <2>5 DEF Agrees, Absent
<1> QED
  BY <1>3, <1>4, <1>5

\* When a scan that was not cancelled ends, the index agrees with the disk on every
\* file nobody touched meanwhile and that the scan could list and read: added,
\* changed and deleted ones, and those overwritten within the resolution of their
\* time (scan.rs:217-226), as long as no root lies below another.
THEOREM ScanIsExact == LibraryAssumption /\ Unnested => (Spec => ListedIsReflected)
<1>1. ASSUME LibraryAssumption, Unnested
      PROVE  Spec => ListedIsReflected
  <2>1. Init => Truthful
    BY TruthfulInit
  <2>2. Truthful /\ [Next]_vars => Truthful'
    BY <1>1, TruthfulNext
  <2>3. Truthful /\ [Next]_vars =>
            [scan # None /\ scan' = None /\ ~ cancel =>
                \A p \in Paths : Settled(p) => Agrees(p)]_scan
    <3>1. ASSUME Truthful, Next, scan # None, scan' = None, ~ cancel
          PROVE  Finish
      <4>1. scan' # None \/ Finish \/ Stop \/ UNCHANGED scan
        <5>1. CASE ScannerStep
          <6>1. scan' \in Scanners
            BY <5>1, <1>1, <3>1, ExamineForm, WalkForm DEF ScannerStep, Truthful
          <6> QED BY <1>1, <6>1 DEF LibraryAssumption, NoneAssumption
        <5> QED BY <3>1, <5>1 DEF Next, Tick, Edit, Delete, Rescan, CancelScan, job
      <4> QED BY <3>1, <4>1 DEF Stop
    <3>2. CASE UNCHANGED vars
      BY <3>2 DEF vars
    <3> QED BY <1>1, <3>1, <3>2, FinishedIsExact
  <2> QED BY <2>1, <2>2, <2>3, PTL DEF Spec, ListedIsReflected
<1> QED
  BY <1>1

------------------------------------------------------------------------------
(* Documents. What a build holds is within its own registry and references  *)
(* (Own), and a document gives numbers or none where numbers are read       *)
(* (Numeric): with that a document written over any other is read back.     *)

\* A state within the ranges and references of the build that holds it.
Own(i, s) ==
    /\ s = [params |-> s.params, refs |-> s.refs]
    /\ s.params \in [DOMAIN Registry[i] -> Nat] /\ s.refs \in [Slots -> Reads[i] \cup {NoRef}]
    /\ \A k \in DOMAIN Registry[i] : s.params[k] <= Registry[i][k]

LEMMA SameReading ==
  \A registry, reads, d : Docs!FromDocument(registry, reads, d) = FromDocument(registry, reads, d)
  BY DEF Docs!FromDocument, Docs!Clamp, Docs!ValueIn, Docs!Parameter, Docs!Reference, Docs!Slots,
     Docs!Legacy, FromDocument, Clamp, ValueIn, Parameter, Reference, Slots, Legacy

LEMMA RegistryFacts ==
  ASSUME Docs!DocumentAssumption, NEW i \in Builds
  PROVE  /\ DOMAIN Registry[i] \subseteq DOMAIN Full
         /\ \A k \in DOMAIN Registry[i] : Registry[i][k] \in Nat
         /\ NaN \notin Nat /\ NoRef \notin Reads[i]
  BY DEF Docs!DocumentAssumption

\* What a build reads is its own.
LEMMA ReadIsOwn ==
  ASSUME Docs!DocumentAssumption, NEW i \in Builds, NEW d, Docs!Numeric(d)
  PROVE  Own(i, FromDocument(Registry[i], Reads[i], d))
<1>1. ASSUME NEW k \in DOMAIN Registry[i]
      PROVE  Clamp(ValueIn(d, k), Registry[i][k]) \in 0..Registry[i][k]
  <2>1. Registry[i][k] \in Nat /\ k \in DOMAIN Full
    BY RegistryFacts
  <2>2. ValueIn(d, k) \in Nat \cup {NaN}
    <3>1. Parameter(k) \in DOMAIN d => d[Parameter(k)] \in Nat \cup {NaN}
      BY <2>1 DEF Docs!Numeric, Docs!Values, Docs!Parameter, Parameter
    <3>2. <<"global", "bypass">> \in DOMAIN d => d[<<"global", "bypass">>] \in Nat \cup {NaN}
      BY DEF Docs!Numeric, Docs!Values
    <3> QED BY <3>1, <3>2 DEF ValueIn
  <2> QED BY <2>1, <2>2 DEF Clamp
<1> DEFINE P == [k \in DOMAIN Registry[i] |-> Clamp(ValueIn(d, k), Registry[i][k])]
           R == [s \in Slots |-> IF Reference(s) \in DOMAIN d /\ d[Reference(s)] \in Reads[i]
                                 THEN d[Reference(s)] ELSE NoRef]
<1>2. /\ P \in [DOMAIN Registry[i] -> Nat] /\ R \in [Slots -> Reads[i] \cup {NoRef}]
      /\ \A k \in DOMAIN Registry[i] : P[k] <= Registry[i][k]
  BY <1>1, RegistryFacts
<1>3. FromDocument(Registry[i], Reads[i], d) = [params |-> P, refs |-> R]
  BY DEF FromDocument
<1> HIDE DEF P, R
<1> QED
  BY <1>2, <1>3 DEF Own

\* What WriteOnto puts at the places that are read.
LEMMA Written ==
  ASSUME Docs!DocumentAssumption, NEW i \in Builds, NEW s, Own(i, s), NEW onto, NEW d,
         d = Docs!WriteOnto(i, s, onto)
  PROVE  /\ \A k \in DOMAIN Registry[i] : Parameter(k) \in DOMAIN d /\ d[Parameter(k)] = s.params[k]
         /\ \A t \in Slots :
               IF s.refs[t] # NoRef
               THEN Reference(t) \in DOMAIN d /\ d[Reference(t)] = s.refs[t]
               ELSE /\ Reference(t) \in DOMAIN d <=>
                           Reference(t) \in DOMAIN onto /\ onto[Reference(t)] \notin Reads[i]
                    /\ Reference(t) \in DOMAIN d => d[Reference(t)] = onto[Reference(t)]
         /\ \A p : (/\ \A k \in DOMAIN Registry[i] : p # Parameter(k)
                   /\ \A t \in Slots : p # Reference(t))
                  => /\ p \in DOMAIN d <=> p \in DOMAIN onto
                     /\ p \in DOMAIN d => d[p] = onto[p]
         /\ Docs!Numeric(onto) => Docs!Numeric(d)
<1>1. /\ DOMAIN s.params = DOMAIN Registry[i] /\ Docs!Slots = Slots
      /\ \A k : Docs!Parameter(k) = Parameter(k) /\ Docs!Reference(k) = Reference(k)
      /\ \A k, t : Parameter(k) # Reference(t)
      /\ \A k, j : Parameter(k) = Parameter(j) => k = j
      /\ \A k, j : Reference(k) = Reference(j) => k = j
      /\ \A k : Parameter(k)[2] = k /\ Reference(k)[2] = k
  BY DEF Own, Docs!Parameter, Docs!Reference, Parameter, Reference, Docs!Slots, Slots
<1> DEFINE params == [p \in {Parameter(k) : k \in DOMAIN Registry[i]} |-> s.params[p[2]]]
           named == {t \in Slots : s.refs[t] # NoRef}
           refs == [p \in {Reference(t) : t \in named} |-> s.refs[p[2]]]
           sections == Docs!Over(params, refs)
           merged == Docs!Over(sections, onto)
           cleared == {t \in Slots : s.refs[t] = NoRef /\ Docs!WasReadable(i, onto, t)}
           gone == {Reference(t) : t \in cleared}
<1>2. sections = Docs!Sections(s)
  BY <1>1 DEF Docs!Sections
<1>3. d = [p \in DOMAIN merged \ gone |-> merged[p]]
  BY <1>1, <1>2 DEF Docs!WriteOnto, Docs!Restrict
<1>4. /\ DOMAIN merged = DOMAIN params \cup DOMAIN refs \cup DOMAIN onto
      /\ \A p \in DOMAIN params : merged[p] = params[p]
      /\ \A p \in DOMAIN refs : p \notin DOMAIN params => merged[p] = refs[p]
      /\ \A p \in DOMAIN onto : p \notin DOMAIN params /\ p \notin DOMAIN refs => merged[p] = onto[p]
  BY DEF Docs!Over
<1>5. /\ DOMAIN params = {Parameter(k) : k \in DOMAIN Registry[i]}
      /\ \A k \in DOMAIN Registry[i] : params[Parameter(k)] = s.params[k]
      /\ DOMAIN refs = {Reference(t) : t \in named}
      /\ \A t \in named : refs[Reference(t)] = s.refs[t]
  BY <1>1
<1>6. ASSUME NEW k \in DOMAIN Registry[i]
      PROVE  Parameter(k) \in DOMAIN d /\ d[Parameter(k)] = s.params[k]
  BY <1>1, <1>3, <1>4, <1>5
<1>7. ASSUME NEW t \in Slots, s.refs[t] # NoRef
      PROVE  Reference(t) \in DOMAIN d /\ d[Reference(t)] = s.refs[t]
  BY <1>1, <1>3, <1>4, <1>5, <1>7
<1>8. ASSUME NEW t \in Slots, s.refs[t] = NoRef
      PROVE  /\ Reference(t) \in DOMAIN d <=>
                    Reference(t) \in DOMAIN onto /\ onto[Reference(t)] \notin Reads[i]
             /\ Reference(t) \in DOMAIN d => d[Reference(t)] = onto[Reference(t)]
  <2>1. Reference(t) \notin DOMAIN params /\ Reference(t) \notin DOMAIN refs
    BY <1>1, <1>5, <1>8
  <2>2. Reference(t) \in gone <=> Docs!WasReadable(i, onto, t)
    BY <1>1, <1>8
  <2>3. Docs!WasReadable(i, onto, t) <=>
            (Reference(t) \in DOMAIN onto => onto[Reference(t)] \in Reads[i])
    BY <1>1 DEF Docs!WasReadable
  <2> QED BY <1>3, <1>4, <2>1, <2>2, <2>3
<1>10. ASSUME NEW p, \A k \in DOMAIN Registry[i] : p # Parameter(k),
              \A t \in Slots : p # Reference(t)
       PROVE  (p \in DOMAIN d <=> p \in DOMAIN onto) /\ (p \in DOMAIN d => d[p] = onto[p])
  <2>1. p \notin DOMAIN params /\ p \notin DOMAIN refs /\ p \notin gone
    BY <1>5, <1>10
  <2> QED BY <1>3, <1>4, <2>1
<1>9. ASSUME Docs!Numeric(onto) PROVE Docs!Numeric(d)
  <2> SUFFICES ASSUME NEW p \in DOMAIN d, p \in Docs!Values PROVE d[p] \in Nat \cup {NaN}
    BY DEF Docs!Numeric
  <2>1. CASE p \in DOMAIN params
    BY <1>1, <1>5, <1>6, <2>1 DEF Own
  <2>2. p \notin DOMAIN refs
    <3>1. \A t : Reference(t) # <<"global", "bypass">>
      BY DEF Reference
    <3> QED BY <1>1, <1>5, <3>1 DEF Docs!Values
  <2>3. CASE p \notin DOMAIN params
    <3>1. p \in DOMAIN onto /\ d[p] = onto[p]
      BY <1>3, <1>4, <2>2, <2>3
    <3> QED BY <1>9, <3>1 DEF Docs!Numeric
  <2> QED BY <2>1, <2>3
<1>11. ASSUME NEW t \in Slots
       PROVE  IF s.refs[t] # NoRef
              THEN Reference(t) \in DOMAIN d /\ d[Reference(t)] = s.refs[t]
              ELSE /\ Reference(t) \in DOMAIN d <=>
                          Reference(t) \in DOMAIN onto /\ onto[Reference(t)] \notin Reads[i]
                   /\ Reference(t) \in DOMAIN d => d[Reference(t)] = onto[Reference(t)]
  BY <1>7, <1>8
<1>12. \A t \in Slots :
         IF s.refs[t] # NoRef
         THEN Reference(t) \in DOMAIN d /\ d[Reference(t)] = s.refs[t]
         ELSE /\ Reference(t) \in DOMAIN d <=>
                     Reference(t) \in DOMAIN onto /\ onto[Reference(t)] \notin Reads[i]
              /\ Reference(t) \in DOMAIN d => d[Reference(t)] = onto[Reference(t)]
  BY <1>11
<1>13. \A p : (/\ \A k \in DOMAIN Registry[i] : p # Parameter(k)
               /\ \A t \in Slots : p # Reference(t))
              => /\ p \in DOMAIN d <=> p \in DOMAIN onto
                 /\ p \in DOMAIN d => d[p] = onto[p]
  BY <1>10
<1> HIDE DEF params, named, refs, sections, merged, cleared, gone
<1> QED
  BY <1>6, <1>9, <1>12, <1>13

LEMMA OwnIsReadBack ==
  ASSUME Docs!DocumentAssumption, NEW i \in Builds, NEW s, Own(i, s), NEW onto, NEW d,
         d = Docs!WriteOnto(i, s, onto)
  PROVE  FromDocument(Registry[i], Reads[i], d) = s
<1>1. ASSUME NEW k \in DOMAIN Registry[i]
      PROVE  Clamp(ValueIn(d, k), Registry[i][k]) = s.params[k]
  <2>1. /\ s.params[k] \in Nat /\ s.params[k] <= Registry[i][k]
        /\ Registry[i][k] \in Nat /\ NaN \notin Nat
    BY RegistryFacts DEF Own
  <2>2. ValueIn(d, k) = s.params[k]
    BY Written DEF ValueIn
  <2> QED BY <2>1, <2>2 DEF Clamp
<1>2. ASSUME NEW t \in Slots
      PROVE  (IF Reference(t) \in DOMAIN d /\ d[Reference(t)] \in Reads[i]
              THEN d[Reference(t)] ELSE NoRef) = s.refs[t]
  BY Written DEF Own
<1>3. /\ s.params = [k \in DOMAIN Registry[i] |-> s.params[k]]
      /\ s.refs = [t \in Slots |-> s.refs[t]]
      /\ s = [params |-> s.params, refs |-> s.refs]
  BY DEF Own
<1> DEFINE P == [k \in DOMAIN Registry[i] |-> Clamp(ValueIn(d, k), Registry[i][k])]
           R == [t \in Slots |-> IF Reference(t) \in DOMAIN d /\ d[Reference(t)] \in Reads[i]
                                 THEN d[Reference(t)] ELSE NoRef]
<1>4. P = s.params /\ R = s.refs
  BY <1>1, <1>2, <1>3
<1>5. FromDocument(Registry[i], Reads[i], d) = [params |-> P, refs |-> R]
  BY DEF FromDocument
<1> HIDE DEF P, R
<1> QED
  BY <1>3, <1>4, <1>5

\* What a load or save in progress carries.
Carries(i, s) ==
    /\ s.pc \in {"adopt", "merge", "write"} => Own(i, s.state)
    /\ s.pc \in {"write", "keep"} => Docs!Numeric(s.doc)
    /\ s.pc = "write" => FromDocument(Registry[i], Reads[i], s.doc) = s.state

TextsIntact  == DOMAIN texts = Presets /\ \A f \in Presets : texts[f] # Garbage => Docs!Numeric(texts[f])
StatesIntact == DOMAIN state = Builds /\ \A i \in Builds : Own(i, state[i])
KeptIntact   == DOMAIN last = Builds /\ \A i \in Builds : Docs!Numeric(last[i])
TasksIntact  ==
    DOMAIN task = Builds /\ \A i \in Builds :
        DOMAIN task[i] = Threads /\ \A t \in Threads : Carries(i, task[i][t])
Intact == TextsIntact /\ StatesIntact /\ KeptIntact /\ TasksIntact

LEMMA EmptyIsNumeric == Docs!Numeric(Docs!Empty)
  BY DEF Docs!Empty, Docs!Numeric, Docs!Values, Docs!Version, Docs!Parameter

LEMMA IntactInit == Docs!DocumentAssumption /\ Docs!Init => Intact
<1> SUFFICES ASSUME Docs!DocumentAssumption, Docs!Init PROVE Intact
  OBVIOUS
<1>1. TextsIntact
  BY DEF Docs!DocumentAssumption, Docs!Init, TextsIntact
<1>2. StatesIntact
  <2>1. ASSUME NEW i \in Builds PROVE Own(i, Docs!Fresh(i))
    BY RegistryFacts DEF Own, Docs!Fresh, Docs!Slots, Slots
  <2> QED BY <2>1 DEF Docs!Init, StatesIntact
<1>3. KeptIntact
  BY EmptyIsNumeric DEF Docs!Init, KeptIntact
<1>4. TasksIntact
  <2>1. \A i : Carries(i, Docs!Idle)
    BY DEF Carries, Docs!Idle
  <2> QED BY <2>1 DEF Docs!Init, TasksIntact, Docs!Threads, Threads
<1> QED
  BY <1>1, <1>2, <1>3, <1>4 DEF Intact

\* One task is replaced, the others stay.
LEMMA OneTask ==
  ASSUME TasksIntact, NEW i \in Builds, NEW t \in Threads, NEW s, Carries(i, s),
         task' = [task EXCEPT ![i][t] = s]
  PROVE  TasksIntact'
  BY DEF TasksIntact, Carries, Own, Docs!Numeric

LEMMA IntactNext ==
  ASSUME Docs!DocumentAssumption, Intact, [Docs!Next]_(Docs!vars)
  PROVE  Intact'
<1>1. ASSUME NEW i \in Builds, NEW t \in Threads, NEW f \in Presets, Docs!BeginLoad(i, t, f)
      PROVE  Intact'
  <2>1. PICK s : /\ s = [pc |-> "adopt", meant |-> meant[f],
                         state |-> Docs!FromDocument(Registry[i], Reads[i], texts[f])]
                 /\ task' = [task EXCEPT ![i][t] = s]
    BY <1>1 DEF Docs!BeginLoad
  <2>2. Docs!Numeric(texts[f])
    BY <1>1 DEF Docs!BeginLoad, Docs!Acceptable, Intact, TextsIntact
  <2>3. Carries(i, s)
    BY <2>1, <2>2, ReadIsOwn, SameReading DEF Carries
  <2>4. TasksIntact'
    BY <2>1, <2>3, OneTask DEF Intact
  <2>5. KeptIntact'
    BY <1>1, <2>2 DEF Docs!BeginLoad, Intact, KeptIntact, Docs!Numeric
  <2> QED BY <1>1, <2>4, <2>5 DEF Docs!BeginLoad, Intact, TextsIntact, StatesIntact, Docs!Numeric, Own
<1>2. ASSUME NEW i \in Builds, NEW t \in Threads, NEW f \in Presets, Docs!BeginSave(i, t, f)
      PROVE  Intact'
  <2>1. PICK s : /\ s = [pc |-> "merge", file |-> f, state |-> state[i], meant |-> meant[i],
                         onto |-> last[i]]
                 /\ task' = [task EXCEPT ![i][t] = s]
    BY <1>2 DEF Docs!BeginSave
  <2>2. Carries(i, s)
    BY <2>1 DEF Carries, Intact, StatesIntact
  <2>3. TasksIntact'
    BY <2>1, <2>2, OneTask DEF Intact
  <2> QED BY <1>2, <2>3
          DEF Docs!BeginSave, Intact, TextsIntact, StatesIntact, KeptIntact, Docs!Numeric, Own
<1>3. ASSUME NEW i \in Builds, NEW t \in Threads, Docs!Adopt(i, t)
      PROVE  Intact'
  <2>1. Carries(i, Docs!Idle)
    BY DEF Carries, Docs!Idle
  <2>2. TasksIntact'
    BY <1>3, <2>1, OneTask DEF Docs!Adopt, Intact
  <2>3. Own(i, task[i][t].state)
    BY <1>3 DEF Docs!Adopt, Intact, TasksIntact, Carries
  <2>4. StatesIntact'
    BY <1>3, <2>3 DEF Docs!Adopt, Intact, StatesIntact, Own
  <2> QED BY <1>3, <2>2, <2>4 DEF Docs!Adopt, Intact, TextsIntact, KeptIntact, Docs!Numeric
<1>4. ASSUME NEW i \in Builds, NEW t \in Threads, Docs!Merge(i, t)
      PROVE  Intact'
  <2>1. PICK s : s = task[i][t]
    OBVIOUS
  <2>2. PICK onto : onto = IF i \in Carriers THEN last[i] ELSE Docs!Empty
    OBVIOUS
  <2>3. PICK d : d = Docs!WriteOnto(i, s.state, onto)
    OBVIOUS
  <2>4. Own(i, s.state) /\ Docs!Numeric(onto)
    BY <1>4, <2>1, <2>2, EmptyIsNumeric DEF Docs!Merge, Intact, TasksIntact, Carries, KeptIntact
  <2>5. FromDocument(Registry[i], Reads[i], d) = s.state /\ Docs!Numeric(d)
    BY <2>3, <2>4, OwnIsReadBack, Written
  <2>6. PICK r : /\ r = [pc |-> "write", file |-> s.file, state |-> s.state, doc |-> d,
                         meant |-> IF last[i] = s.onto THEN s.meant ELSE Docs!Meaning(d)]
                 /\ task' = [task EXCEPT ![i][t] = r]
    BY <1>4, <2>1, <2>2, <2>3 DEF Docs!Merge
  <2>7. Carries(i, r)
    BY <2>4, <2>5, <2>6 DEF Carries
  <2>8. TasksIntact'
    BY <2>6, <2>7, OneTask DEF Intact
  <2> QED BY <1>4, <2>8
          DEF Docs!Merge, Intact, TextsIntact, StatesIntact, KeptIntact, Docs!Numeric, Own
<1>5. ASSUME NEW i \in Builds, NEW t \in Threads, Docs!Write(i, t)
      PROVE  Intact'
  <2>1. PICK s : s = task[i][t] /\ Docs!Numeric(s.doc)
    BY <1>5 DEF Docs!Write, Intact, TasksIntact, Carries
  <2>2. Carries(i, Docs!Idle) /\ Carries(i, [pc |-> "keep", doc |-> s.doc])
    BY <2>1 DEF Carries, Docs!Idle
  <2>3. TasksIntact'
    BY <1>5, <2>1, <2>2, OneTask DEF Docs!Write, Intact
  <2>4. \/ texts' = [texts EXCEPT ![s.file] = s.doc]
        \/ texts' = [texts EXCEPT ![s.file] = Garbage]
        \/ texts' = texts
    BY <1>5, <2>1 DEF Docs!Write
  <2>5. TextsIntact'
    BY <2>1, <2>4 DEF Intact, TextsIntact, Docs!Numeric
  <2> QED BY <1>5, <2>3, <2>5 DEF Docs!Write, Intact, StatesIntact, KeptIntact, Docs!Numeric, Own
<1>6. ASSUME NEW i \in Builds, NEW t \in Threads, Docs!Keep(i, t)
      PROVE  Intact'
  <2>1. Carries(i, Docs!Idle) /\ Docs!Numeric(task[i][t].doc)
    BY <1>6 DEF Docs!Keep, Carries, Docs!Idle, Intact, TasksIntact
  <2>2. TasksIntact'
    BY <1>6, <2>1, OneTask DEF Docs!Keep, Intact
  <2>3. KeptIntact'
    BY <1>6, <2>1 DEF Docs!Keep, Intact, KeptIntact, Docs!Numeric
  <2> QED BY <1>6, <2>2, <2>3 DEF Docs!Keep, Intact, TextsIntact, StatesIntact, Docs!Numeric, Own
<1>7. ASSUME NEW i \in Builds, NEW k \in DOMAIN Registry[i], NEW v \in Turns, Docs!Turn(i, k, v)
      PROVE  Intact'
  <2>1. PICK s : /\ s = [params |-> [state[i].params EXCEPT ![k] = v], refs |-> state[i].refs]
                 /\ state' = [state EXCEPT ![i] = s]
    <3>1. PICK o : o = state[i] /\ o = [params |-> o.params, refs |-> o.refs]
      BY <1>7 DEF Intact, StatesIntact, Own
    <3>2. [o EXCEPT !.params = [o.params EXCEPT ![k] = v]]
            = [params |-> [o.params EXCEPT ![k] = v], refs |-> o.refs]
      BY <3>1
    <3> QED BY <1>7, <3>1, <3>2, Zenon DEF Docs!Turn
  <2>2. Own(i, s)
    BY <1>7, <2>1 DEF Docs!Turn, Intact, StatesIntact, Own, Docs!DocumentAssumption
  <2>3. StatesIntact'
    BY <2>1, <2>2 DEF Intact, StatesIntact, Own
  <2> QED BY <1>7, <2>3
          DEF Docs!Turn, Intact, TextsIntact, KeptIntact, TasksIntact, Carries, Docs!Numeric, Own
<1>8. ASSUME NEW i \in Builds, NEW x \in Slots, NEW r \in Picks \cap Reads[i], Docs!Pick(i, x, r)
      PROVE  Intact'
  <2>1. PICK s : /\ s = [params |-> state[i].params, refs |-> [state[i].refs EXCEPT ![x] = r]]
                 /\ state' = [state EXCEPT ![i] = s]
    <3>1. PICK o : o = state[i] /\ o = [params |-> o.params, refs |-> o.refs]
      BY <1>8 DEF Intact, StatesIntact, Own
    <3>2. [o EXCEPT !.refs = [o.refs EXCEPT ![x] = r]]
            = [params |-> o.params, refs |-> [o.refs EXCEPT ![x] = r]]
      BY <3>1
    <3> QED BY <1>8, <3>1, <3>2, Zenon DEF Docs!Pick
  <2>2. Own(i, s)
    BY <2>1 DEF Intact, StatesIntact, Own
  <2>3. StatesIntact'
    BY <2>1, <2>2 DEF Intact, StatesIntact, Own
  <2> QED BY <1>8, <2>3
          DEF Docs!Pick, Intact, TextsIntact, KeptIntact, TasksIntact, Carries, Docs!Numeric, Own
<1>9. CASE UNCHANGED Docs!vars
  BY <1>9 DEF Docs!vars, Intact, TextsIntact, StatesIntact, KeptIntact, TasksIntact, Carries,
     Docs!Numeric, Own
<1> QED
  BY <1>1, <1>2, <1>3, <1>4, <1>5, <1>6, <1>7, <1>8, <1>9
  DEF Docs!Next, Docs!Threads, Threads, Docs!Slots, Slots

\* Whatever a save writes, its own build reads back as the state that was saved:
\* for every registry, every form of reference and every document it is written
\* over, and however loads, recalls and saves overlap.
THEOREM SavedIsReadBack == Docs!DocumentAssumption => (Docs!Spec => []ReadsBack)
<1>1. ASSUME Docs!DocumentAssumption
      PROVE  Docs!Spec => []ReadsBack
  <2>1. Docs!Init => Intact
    BY <1>1, IntactInit
  <2>2. Intact /\ [Docs!Next]_(Docs!vars) => Intact'
    BY <1>1, IntactNext
  <2>3. Intact => ReadsBack
    BY DEF Intact, TasksIntact, Carries, ReadsBack
  <2> QED BY <2>1, <2>2, <2>3, PTL DEF Docs!Spec
<1> QED
  BY <1>1
------------------------------------------------------------------------------
(* Nothing is lost. Said is what a document will say to a build that knows  *)
(* everything once i has written s over d: i's own part of s, and the rest  *)
(* of d. As long as no call of i has crossed another, that is what i's      *)
(* users have set, at every step of a load and of a save (Uncrossed); so    *)
(* what is written says what its users have set.                            *)

\* What i leaves in a slot it holds empty, because it cannot read it.
Unread(i, d, x) ==
    IF Reference(x) \in DOMAIN d /\ d[Reference(x)] \in Refs \ Reads[i]
    THEN d[Reference(x)] ELSE NoRef
Unknown(i) == DOMAIN Full \ DOMAIN Registry[i]
Aside(d) == [p \in DOMAIN d \cap Foreign |-> d[p]]

Said(i, s, d) ==
    [set |-> [params |-> [k \in DOMAIN Full |-> IF k \in DOMAIN Registry[i] THEN s.params[k]
                                                ELSE Clamp(ValueIn(d, k), Full[k])],
              refs   |-> [x \in Slots |-> IF s.refs[x] # NoRef THEN s.refs[x]
                                          ELSE Unread(i, d, x)]],
     others |-> Aside(d)]

\* Two documents differ only in what s overwrites.
SameRest(i, s, d, e) ==
    /\ \A k \in Unknown(i) : Clamp(ValueIn(d, k), Full[k]) = Clamp(ValueIn(e, k), Full[k])
    /\ \A x \in Slots : s.refs[x] = NoRef => Unread(i, d, x) = Unread(i, e, x)
    /\ Aside(d) = Aside(e)
\* s has no more files loaded than r.
Emptier(s, r) == \A x \in Slots : r.refs[x] = NoRef => s.refs[x] = NoRef

\* What the calls k of an instance in state s over document d are worth, if none
\* has crossed another, and what its users have set (m).
Faithful(i, k, t, s, d) ==
    /\ k[t].pc = "adopt" => /\ \A u \in Threads \ {t} : k[u].pc = "idle"
                            /\ Said(i, k[t].state, d) = Docs!Adopted(i, k[t].meant)
    /\ k[t].pc = "merge" => /\ k[t].meant = Said(i, k[t].state, k[t].onto)
                            /\ Emptier(k[t].state, s)
    /\ k[t].pc = "write" => k[t].meant = Meaning(k[t].doc)
    /\ k[t].pc \in {"write", "keep"} => SameRest(i, s, k[t].doc, d)
Fine(i, k, s, d, m) ==
    /\ (\A t \in Threads : k[t].pc # "adopt") => m = Said(i, s, d)
    /\ \A t \in Threads : Faithful(i, k, t, s, d)
Uncrossed == \A i \in Builds \ crossed : Fine(i, task[i], state[i], last[i], meant[i])
Named ==
    /\ Builds \subseteq DOMAIN meant
    /\ \A f \in Presets : texts[f] # Garbage => f \in DOMAIN meant
    /\ \A i \in Builds, t \in Threads :
          task[i][t].pc \in {"merge", "write"} => task[i][t].file \in Presets
Lossless == Intact /\ NothingLost /\ Named /\ Uncrossed

LEMMA SameSaid ==
  ASSUME NEW i, NEW s, NEW d, NEW e, SameRest(i, s, d, e)
  PROVE  Said(i, s, d) = Said(i, s, e)
<1> DEFINE P(f) == [k \in DOMAIN Full |-> IF k \in DOMAIN Registry[i] THEN s.params[k]
                                          ELSE Clamp(ValueIn(f, k), Full[k])]
           R(f) == [x \in Slots |-> IF s.refs[x] # NoRef THEN s.refs[x] ELSE Unread(i, f, x)]
<1>1. P(d) = P(e)
  BY DEF SameRest, Unknown
<1>2. R(d) = R(e)
  BY DEF SameRest
<1>3. Aside(d) = Aside(e)
  BY DEF SameRest
<1>4. \A f : Said(i, s, f) = [set |-> [params |-> P(f), refs |-> R(f)], others |-> Aside(f)]
  BY DEF Said
<1> HIDE DEF P, R
<1> QED
  BY <1>1, <1>2, <1>3, <1>4

\* The document a save writes says what is saved and, of the rest, what the one
\* below it says.
LEMMA WritingSays ==
  ASSUME Docs!DocumentAssumption, NEW i \in Builds, NEW s, Own(i, s), NEW onto, NEW d,
         d = Docs!WriteOnto(i, s, onto)
  PROVE  Meaning(d) = Said(i, s, onto) /\ \A r : Emptier(s, r) => SameRest(i, r, d, onto)
<1>1. ASSUME NEW k \in Unknown(i)
      PROVE  ValueIn(d, k) = ValueIn(onto, k)
  <2>1. /\ \A j \in DOMAIN Registry[i] : Parameter(k) # Parameter(j)
        /\ \A x \in Slots : Parameter(k) # Reference(x)
        /\ \A j : <<"global", "bypass">> # Parameter(j)
        /\ \A x : <<"global", "bypass">> # Reference(x)
    BY DEF Unknown, Parameter, Reference
  <2>2. /\ Parameter(k) \in DOMAIN d <=> Parameter(k) \in DOMAIN onto
        /\ Parameter(k) \in DOMAIN d => d[Parameter(k)] = onto[Parameter(k)]
    BY <2>1, Written
  <2>3. /\ <<"global", "bypass">> \in DOMAIN d <=> <<"global", "bypass">> \in DOMAIN onto
        /\ <<"global", "bypass">> \in DOMAIN d
              => d[<<"global", "bypass">>] = onto[<<"global", "bypass">>]
    BY <2>1, Written
  <2> QED BY <2>2, <2>3 DEF ValueIn
<1>2. ASSUME NEW k \in DOMAIN Registry[i]
      PROVE  Clamp(ValueIn(d, k), Full[k]) = s.params[k]
  <2>1. ValueIn(d, k) = s.params[k]
    BY Written DEF ValueIn
  <2>2. s.params[k] \in Nat /\ s.params[k] <= Registry[i][k]
    BY DEF Own
  <2>3. Registry[i][k] \in Nat /\ Full[k] \in Nat /\ Registry[i][k] <= Full[k] /\ NaN \notin Nat
    BY DEF Docs!DocumentAssumption
  <2>4. s.params[k] <= Full[k]
    BY <2>2, <2>3
  <2> QED BY <2>1, <2>2, <2>3, <2>4 DEF Clamp
<1>3. ASSUME NEW x \in Slots, s.refs[x] = NoRef
      PROVE  /\ Unread(i, d, x) = Unread(i, onto, x)
             /\ (IF Reference(x) \in DOMAIN d /\ d[Reference(x)] \in Refs
                 THEN d[Reference(x)] ELSE NoRef) = Unread(i, onto, x)
  BY <1>3, Written DEF Unread
<1>4. ASSUME NEW x \in Slots, s.refs[x] # NoRef
      PROVE  (IF Reference(x) \in DOMAIN d /\ d[Reference(x)] \in Refs
              THEN d[Reference(x)] ELSE NoRef) = s.refs[x]
  BY <1>4, Written DEF Own, Docs!DocumentAssumption
<1>5. Aside(d) = Aside(onto)
  <2>1. ASSUME NEW p \in Foreign
        PROVE  (p \in DOMAIN d <=> p \in DOMAIN onto) /\ (p \in DOMAIN d => d[p] = onto[p])
    <3>1. /\ \A k : p # Parameter(k)
          /\ \A x \in Slots : p # Reference(x)
      <4>1. \A k : <<"host", "">> # Parameter(k) /\ <<"references", "memo">> # Parameter(k)
        BY DEF Parameter
      <4>2. \A x : <<"host", "">> # Reference(x)
        BY DEF Reference
      <4>3. \A x \in Slots : <<"references", "memo">> # Reference(x)
        BY DEF Reference, Slots
      <4> QED BY <4>1, <4>2, <4>3 DEF Foreign
    <3> QED BY <3>1, Written
  <2>2. DOMAIN d \cap Foreign = DOMAIN onto \cap Foreign
    BY <2>1
  <2> QED BY <2>1, <2>2 DEF Aside
<1>6. ASSUME NEW r, Emptier(s, r)
      PROVE  SameRest(i, r, d, onto)
  BY <1>1, <1>3, <1>5, <1>6 DEF SameRest, Emptier
<1> DEFINE P == [k \in DOMAIN Full |-> Clamp(ValueIn(d, k), Full[k])]
           Q == [k \in DOMAIN Full |-> IF k \in DOMAIN Registry[i] THEN s.params[k]
                                       ELSE Clamp(ValueIn(onto, k), Full[k])]
           R == [x \in Slots |-> IF Reference(x) \in DOMAIN d /\ d[Reference(x)] \in Refs
                                 THEN d[Reference(x)] ELSE NoRef]
           S == [x \in Slots |-> IF s.refs[x] # NoRef THEN s.refs[x] ELSE Unread(i, onto, x)]
<1>7. P = Q
  BY <1>1, <1>2 DEF Unknown
<1>8. R = S
  BY <1>3, <1>4
<1>9. /\ Meaning(d) = [set |-> [params |-> P, refs |-> R], others |-> Aside(d)]
      /\ Said(i, s, onto) = [set |-> [params |-> Q, refs |-> S], others |-> Aside(onto)]
  BY DEF Meaning, FromDocument, Said, Aside
<1> HIDE DEF P, Q, R, S
<1> QED
  BY <1>5, <1>6, <1>7, <1>8, <1>9

\* A document read says what it said, but for what was clamped.
LEMMA ReadingSays ==
  ASSUME Docs!DocumentAssumption, NEW i \in Builds, NEW d, Docs!Numeric(d)
  PROVE  Said(i, FromDocument(Registry[i], Reads[i], d), d) = Docs!Adopted(i, Meaning(d))
<1> DEFINE own == [k \in DOMAIN Registry[i] |-> Clamp(ValueIn(d, k), Registry[i][k])]
           kept == [x \in Slots |-> IF Reference(x) \in DOMAIN d /\ d[Reference(x)] \in Reads[i]
                                    THEN d[Reference(x)] ELSE NoRef]
           all == [k \in DOMAIN Full |-> Clamp(ValueIn(d, k), Full[k])]
           refs == [x \in Slots |-> IF Reference(x) \in DOMAIN d /\ d[Reference(x)] \in Refs
                                    THEN d[Reference(x)] ELSE NoRef]
           said == [k \in DOMAIN Full |-> IF k \in DOMAIN Registry[i] THEN own[k]
                                          ELSE Clamp(ValueIn(d, k), Full[k])]
           cut == [k \in DOMAIN Full |-> IF k \in DOMAIN Registry[i]
                                         THEN Clamp(all[k], Registry[i][k]) ELSE all[k]]
           left == [x \in Slots |-> IF kept[x] # NoRef THEN kept[x] ELSE Unread(i, d, x)]
<1>1. ASSUME NEW k \in DOMAIN Registry[i]
      PROVE  k \in DOMAIN Full /\ own[k] = Clamp(all[k], Registry[i][k])
  <2>1. /\ k \in DOMAIN Full /\ Registry[i][k] \in Nat /\ Full[k] \in Nat
        /\ Registry[i][k] <= Full[k] /\ NaN \notin Nat
    BY DEF Docs!DocumentAssumption
  <2>2. ValueIn(d, k) \in Nat \cup {NaN}
    <3>1. Parameter(k) \in DOMAIN d => d[Parameter(k)] \in Nat \cup {NaN}
      BY <2>1 DEF Docs!Numeric, Docs!Values, Docs!Parameter, Parameter
    <3>2. <<"global", "bypass">> \in DOMAIN d => d[<<"global", "bypass">>] \in Nat \cup {NaN}
      BY DEF Docs!Numeric, Docs!Values
    <3> QED BY <3>1, <3>2 DEF ValueIn
  <2>3. PICK v \in Nat \cup {NaN} : v = ValueIn(d, k)
    BY <2>2
  <2>4. Clamp(v, Registry[i][k]) = Clamp(Clamp(v, Full[k]), Registry[i][k])
    BY <2>1 DEF Clamp
  <2> QED BY <2>1, <2>3, <2>4
<1>2. said = cut
  BY <1>1
<1>3. left = refs
  BY DEF Docs!DocumentAssumption, Unread
<1>4. FromDocument(Registry[i], Reads[i], d) = [params |-> own, refs |-> kept]
  BY DEF FromDocument
<1>5. Meaning(d) = [set |-> [params |-> all, refs |-> refs], others |-> Aside(d)]
  BY DEF Meaning, FromDocument, Aside
<1>6. ASSUME NEW s, s = [params |-> own, refs |-> kept]
      PROVE  Said(i, s, d) = [set |-> [params |-> said, refs |-> left], others |-> Aside(d)]
  BY <1>6 DEF Said
<1>7. ASSUME NEW m, m = [set |-> [params |-> all, refs |-> refs], others |-> Aside(d)]
      PROVE  Docs!Adopted(i, m)
               = [set |-> [params |-> cut, refs |-> refs], others |-> Aside(d)]
  <2>1. m.set = [params |-> all, refs |-> refs] /\ m.set.params = all
    BY <1>7
  <2> QED BY <1>7, <2>1 DEF Docs!Adopted, Docs!Clamp, Clamp
<1> HIDE DEF own, kept, all, refs, said, cut, left
<1> QED
  BY <1>2, <1>3, <1>4, <1>5, <1>6, <1>7

LEMMA FineLoad ==
  ASSUME Docs!DocumentAssumption, NEW i \in Builds, NEW d, Docs!Numeric(d), NEW k, NEW t \in Threads,
         DOMAIN k = Threads, \A u \in Threads \ {t} : k[u].pc = "idle", NEW r,
         r = [pc |-> "adopt", meant |-> Meaning(d), state |-> FromDocument(Registry[i], Reads[i], d)],
         NEW s, NEW m
  PROVE  Fine(i, [k EXCEPT ![t] = r], s, d, m)
<1>1. PICK n : n = [k EXCEPT ![t] = r]
  OBVIOUS
<1>2. n[t] = r /\ \A u \in Threads \ {t} : n[u] = k[u]
  BY <1>1
<1>3. r.pc = "adopt" /\ Said(i, r.state, d) = Docs!Adopted(i, r.meant)
  BY ReadingSays
<1>4. Faithful(i, n, t, s, d)
  BY <1>2, <1>3 DEF Faithful
<1>5. ASSUME NEW u \in Threads \ {t} PROVE Faithful(i, n, u, s, d)
  BY <1>2 DEF Faithful
<1> QED
  BY <1>1, <1>2, <1>3, <1>4, <1>5 DEF Fine

LEMMA FineAdopt ==
  ASSUME NEW i, NEW k, NEW s, NEW d, NEW m, Fine(i, k, s, d, m), NEW t \in Threads,
         DOMAIN k = Threads, k[t].pc = "adopt"
  PROVE  Fine(i, [k EXCEPT ![t] = Docs!Idle], k[t].state, d, Docs!Adopted(i, k[t].meant))
<1>1. PICK n : n = [k EXCEPT ![t] = Docs!Idle]
  OBVIOUS
<1>2. n[t].pc = "idle" /\ \A u \in Threads \ {t} : n[u].pc = "idle"
  BY <1>1 DEF Fine, Faithful, Docs!Idle
<1>3. Said(i, k[t].state, d) = Docs!Adopted(i, k[t].meant)
  BY DEF Fine, Faithful
<1>4. \A u \in Threads : n[u].pc = "idle"
  BY <1>2
<1> QED
  BY <1>1, <1>3, <1>4 DEF Fine, Faithful

\* A call that is not idle is alone, or no other adopts.
LEMMA NoneAdopts ==
  ASSUME NEW i, NEW k, NEW s, NEW d, NEW m, Fine(i, k, s, d, m), NEW t \in Threads,
         k[t].pc \notin {"idle", "adopt"}
  PROVE  (\A u \in Threads : k[u].pc # "adopt") /\ m = Said(i, s, d)
  BY DEF Fine, Faithful

LEMMA FineSave ==
  ASSUME NEW i, NEW k, NEW s, NEW d, NEW m, Fine(i, k, s, d, m), NEW t \in Threads,
         DOMAIN k = Threads, k[t].pc = "idle", \A u \in Threads \ {t} : k[u].pc # "adopt", NEW r,
         r.pc = "merge", r.state = s, r.meant = m, r.onto = d
  PROVE  Fine(i, [k EXCEPT ![t] = r], s, d, m)
<1>2. PICK n : n = [k EXCEPT ![t] = r]
  OBVIOUS
<1>3. n[t] = r /\ \A u \in Threads \ {t} : n[u] = k[u]
  BY <1>2
<1>4. m = Said(i, s, d)
  BY DEF Fine
<1>5. Faithful(i, n, t, s, d)
  BY <1>3, <1>4 DEF Faithful, Emptier
<1>6. ASSUME NEW u \in Threads \ {t} PROVE Faithful(i, n, u, s, d)
  BY <1>3, <1>6 DEF Fine, Faithful
<1> QED
  BY <1>2, <1>3, <1>4, <1>5, <1>6 DEF Fine

LEMMA FineMerge ==
  ASSUME Docs!DocumentAssumption, NEW i \in Builds, NEW k, NEW s, NEW d, NEW m,
         Fine(i, k, s, d, m), NEW t \in Threads, DOMAIN k = Threads, k[t].pc = "merge",
         Own(i, k[t].state), NEW w, w = Docs!WriteOnto(i, k[t].state, d), NEW r,
         r.pc = "write", r.doc = w, r.meant = IF d = k[t].onto THEN k[t].meant ELSE Meaning(w)
  PROVE  Fine(i, [k EXCEPT ![t] = r], s, d, m)
<1>1. PICK n : n = [k EXCEPT ![t] = r]
  OBVIOUS
<1>2. n[t] = r /\ \A u \in Threads \ {t} : n[u] = k[u]
  BY <1>1
<1>3. (\A u \in Threads : k[u].pc # "adopt") /\ m = Said(i, s, d)
  BY NoneAdopts
<1>4. k[t].meant = Said(i, k[t].state, k[t].onto) /\ Emptier(k[t].state, s)
  BY DEF Fine, Faithful
<1>5. Meaning(w) = Said(i, k[t].state, d) /\ SameRest(i, s, w, d)
  BY <1>4, WritingSays
<1>6. Faithful(i, n, t, s, d)
  BY <1>2, <1>4, <1>5 DEF Faithful
<1>7. ASSUME NEW u \in Threads \ {t} PROVE Faithful(i, n, u, s, d)
  BY <1>2, <1>3, <1>7 DEF Fine, Faithful
<1> QED
  BY <1>1, <1>3, <1>6, <1>7 DEF Fine

LEMMA FineWrite ==
  ASSUME NEW i, NEW k, NEW s, NEW d, NEW m, Fine(i, k, s, d, m), NEW t \in Threads,
         DOMAIN k = Threads, k[t].pc = "write", NEW r,
         r.pc = "idle" \/ (r.pc = "keep" /\ r.doc = k[t].doc)
  PROVE  Fine(i, [k EXCEPT ![t] = r], s, d, m)
<1>1. PICK n : n = [k EXCEPT ![t] = r]
  OBVIOUS
<1>2. n[t] = r /\ \A u \in Threads \ {t} : n[u] = k[u]
  BY <1>1
<1>3. (\A u \in Threads : k[u].pc # "adopt") /\ m = Said(i, s, d)
  BY NoneAdopts
<1>4. SameRest(i, s, k[t].doc, d)
  BY DEF Fine, Faithful
<1>5. Faithful(i, n, t, s, d)
  BY <1>2, <1>4 DEF Faithful
<1>6. ASSUME NEW u \in Threads \ {t} PROVE Faithful(i, n, u, s, d)
  BY <1>2, <1>3, <1>6 DEF Fine, Faithful
<1> QED
  BY <1>1, <1>3, <1>5, <1>6 DEF Fine

LEMMA FineKeep ==
  ASSUME NEW i, NEW k, NEW s, NEW d, NEW m, Fine(i, k, s, d, m), NEW t \in Threads,
         DOMAIN k = Threads, k[t].pc = "keep"
  PROVE  Fine(i, [k EXCEPT ![t] = Docs!Idle], s, k[t].doc, m)
<1>1. PICK n : n = [k EXCEPT ![t] = Docs!Idle]
  OBVIOUS
<1>2. n[t].pc = "idle" /\ \A u \in Threads \ {t} : n[u] = k[u]
  BY <1>1 DEF Docs!Idle
<1>3. (\A u \in Threads : k[u].pc # "adopt") /\ m = Said(i, s, d)
  BY NoneAdopts
<1>4. SameRest(i, s, k[t].doc, d)
  BY DEF Fine, Faithful
<1>5. m = Said(i, s, k[t].doc)
  BY <1>3, <1>4, SameSaid
<1>6. ASSUME NEW u \in Threads \ {t} PROVE Faithful(i, n, u, s, k[t].doc)
  <2>1. k[u].pc \in {"write", "keep"} => SameRest(i, s, k[u].doc, k[t].doc)
    BY <1>4 DEF Fine, Faithful, SameRest
  <2> QED BY <1>2, <1>3, <2>1 DEF Fine, Faithful
<1>7. Faithful(i, n, t, s, k[t].doc)
  BY <1>2 DEF Faithful
<1> QED
  BY <1>1, <1>5, <1>6, <1>7 DEF Fine

LEMMA FineEdit ==
  ASSUME NEW i, NEW k, NEW s, NEW d, NEW m, Fine(i, k, s, d, m), NEW s2, Emptier(s, s2),
         NEW m2, m = Said(i, s, d) => m2 = Said(i, s2, d)
  PROVE  Fine(i, k, s2, d, m2)
<1>1. ASSUME NEW e, NEW f, SameRest(i, s, e, f) PROVE SameRest(i, s2, e, f)
  BY <1>1 DEF SameRest, Emptier
<1>2. ASSUME NEW q, Emptier(q, s) PROVE Emptier(q, s2)
  BY <1>2 DEF Emptier
<1>3. ASSUME NEW t \in Threads PROVE Faithful(i, k, t, s2, d)
  BY <1>1, <1>2 DEF Fine, Faithful
<1> QED
  BY <1>3 DEF Fine

\* What the user's edits make of a state and of its ghost.
Turned(s, k, v)   == [s EXCEPT !.params = [s.params EXCEPT ![k] = v]]
TurnedIn(m, k, v) == [m EXCEPT !.set = [m.set EXCEPT !.params = [m.set.params EXCEPT ![k] = v]]]
Picked(s, x, r)   == [s EXCEPT !.refs = [s.refs EXCEPT ![x] = r]]
PickedIn(m, x, r) == [m EXCEPT !.set = [m.set EXCEPT !.refs = [m.set.refs EXCEPT ![x] = r]]]

\* An edit of a state of its own says the same of what the users have set.
LEMMA TurnSays ==
  ASSUME NEW i \in Builds, NEW s, Own(i, s), NEW d, NEW m, NEW k \in DOMAIN Registry[i], NEW v
  PROVE  /\ Emptier(s, Turned(s, k, v))
         /\ m = Said(i, s, d) => TurnedIn(m, k, v) = Said(i, Turned(s, k, v), d)
<1>1. Turned(s, k, v) = [params |-> [s.params EXCEPT ![k] = v], refs |-> s.refs]
  BY DEF Own, Turned
<1>2. Emptier(s, Turned(s, k, v))
  BY <1>1 DEF Emptier
<1> DEFINE P(p) == [j \in DOMAIN Full |-> IF j \in DOMAIN Registry[i] THEN p[j]
                                          ELSE Clamp(ValueIn(d, j), Full[j])]
           R == [x \in Slots |-> IF s.refs[x] # NoRef THEN s.refs[x] ELSE Unread(i, d, x)]
<1>3. Said(i, s, d) = [set |-> [params |-> P(s.params), refs |-> R], others |-> Aside(d)]
  BY DEF Said
<1>4. Said(i, Turned(s, k, v), d) = [set |-> [params |-> P([s.params EXCEPT ![k] = v]), refs |-> R],
                        others |-> Aside(d)]
  BY <1>1 DEF Said
<1>5. P([s.params EXCEPT ![k] = v]) = [P(s.params) EXCEPT ![k] = v]
  BY DEF Own
<1> HIDE DEF P, R
<1>6. ASSUME m = Said(i, s, d)
      PROVE  TurnedIn(m, k, v) = Said(i, Turned(s, k, v), d)
  <2>1. m.set = [params |-> P(s.params), refs |-> R]
    BY <1>3, <1>6
  <2>2. [m.set EXCEPT !.params = [m.set.params EXCEPT ![k] = v]]
          = [params |-> [P(s.params) EXCEPT ![k] = v], refs |-> R]
    BY <2>1
  <2>3. TurnedIn(m, k, v) = [set |-> [params |-> [P(s.params) EXCEPT ![k] = v], refs |-> R],
                             others |-> Aside(d)]
    BY <1>3, <1>6, <2>2 DEF TurnedIn
  <2> QED BY <1>4, <1>5, <2>3
<1> QED
  BY <1>2, <1>6

LEMMA PickSays ==
  ASSUME NEW i \in Builds, NEW s, Own(i, s), NEW d, NEW m, NEW x \in Slots, NEW r, r # NoRef
  PROVE  /\ Emptier(s, Picked(s, x, r))
         /\ m = Said(i, s, d) => PickedIn(m, x, r) = Said(i, Picked(s, x, r), d)
<1>1. Picked(s, x, r) = [params |-> s.params, refs |-> [s.refs EXCEPT ![x] = r]] /\ DOMAIN s.refs = Slots
  BY DEF Own, Picked
<1>2. Emptier(s, Picked(s, x, r))
  BY <1>1 DEF Emptier
<1> DEFINE P == [j \in DOMAIN Full |-> IF j \in DOMAIN Registry[i] THEN s.params[j]
                                       ELSE Clamp(ValueIn(d, j), Full[j])]
           R(p) == [y \in Slots |-> IF p[y] # NoRef THEN p[y] ELSE Unread(i, d, y)]
<1>3. Said(i, s, d) = [set |-> [params |-> P, refs |-> R(s.refs)], others |-> Aside(d)]
  BY DEF Said
<1>4. Said(i, Picked(s, x, r), d) = [set |-> [params |-> P, refs |-> R([s.refs EXCEPT ![x] = r])],
                        others |-> Aside(d)]
  BY <1>1 DEF Said
<1>5. R([s.refs EXCEPT ![x] = r]) = [R(s.refs) EXCEPT ![x] = r]
  BY <1>1
<1> HIDE DEF P, R
<1>6. ASSUME m = Said(i, s, d)
      PROVE  PickedIn(m, x, r) = Said(i, Picked(s, x, r), d)
  <2>1. m.set = [params |-> P, refs |-> R(s.refs)]
    BY <1>3, <1>6
  <2>2. [m.set EXCEPT !.refs = [m.set.refs EXCEPT ![x] = r]]
          = [params |-> P, refs |-> [R(s.refs) EXCEPT ![x] = r]]
    BY <2>1
  <2>3. PickedIn(m, x, r) = [set |-> [params |-> P, refs |-> [R(s.refs) EXCEPT ![x] = r]],
                             others |-> Aside(d)]
    BY <1>3, <1>6, <2>2 DEF PickedIn
  <2> QED BY <1>4, <1>5, <2>3
<1> QED
  BY <1>2, <1>6

LEMMA SameMeaning == \A d : Docs!Meaning(d) = Meaning(d)
  BY SameReading DEF Docs!Meaning, Meaning, Docs!Foreign, Foreign

LEMMA Elsewhere ==
  ASSUME Uncrossed, NEW i \in Builds,
         \A j \in Builds \ {i} : /\ task'[j] = task[j] /\ state'[j] = state[j]
                                 /\ last'[j] = last[j] /\ meant'[j] = meant[j]
                                 /\ j \in crossed' <=> j \in crossed,
         i \notin crossed' => Fine(i, task'[i], state'[i], last'[i], meant'[i])
  PROVE  Uncrossed'
  BY DEF Uncrossed

\* The files still say what they said, and so do their ghosts.
LEMMA FilesKept ==
  ASSUME NothingLost, Named, Docs!DocumentAssumption, texts' = texts, NEW i \in Builds, NEW m,
         meant' = [meant EXCEPT ![i] = m]
  PROVE  NothingLost' /\ Builds \subseteq DOMAIN meant'
         /\ \A f \in Presets : texts'[f] # Garbage => f \in DOMAIN meant'
<1>1. DOMAIN meant' = DOMAIN meant /\ \A f \in DOMAIN meant \ {i} : meant'[f] = meant[f]
  OBVIOUS
<1>2. \A f \in Presets : f # i
  BY DEF Docs!DocumentAssumption
<1>3. \A f \in Presets : Acceptable(texts[f]) => f \in DOMAIN meant
  BY DEF Acceptable, Named
<1> QED
  BY <1>1, <1>2, <1>3 DEF NothingLost, Named

LEMMA FilesSame ==
  ASSUME NothingLost, Named, texts' = texts, meant' = meant
  PROVE  NothingLost' /\ Builds \subseteq DOMAIN meant'
         /\ \A f \in Presets : texts'[f] # Garbage => f \in DOMAIN meant'
  BY DEF NothingLost, Named

LEMMA TaskNamed ==
  ASSUME Named, TasksIntact, NEW i \in Builds, NEW t \in Threads, NEW r,
         task' = [task EXCEPT ![i][t] = r], r.pc \in {"merge", "write"} => r.file \in Presets
  PROVE  /\ \A j \in Builds, u \in Threads :
               task'[j][u].pc \in {"merge", "write"} => task'[j][u].file \in Presets
         /\ task'[i] = [task[i] EXCEPT ![t] = r] /\ DOMAIN task[i] = Threads
         /\ \A j \in Builds \ {i} : task'[j] = task[j]
  BY DEF Named, TasksIntact

LEMMA LosslessNext ==
  ASSUME Docs!DocumentAssumption, Carriers = Builds, Lossless, [Docs!Next]_(Docs!vars)
  PROVE  NothingLost' /\ Named' /\ Uncrossed'
<1> USE DEF Lossless
<1>1. ASSUME NEW i \in Builds, NEW t \in Threads, NEW f \in Presets, Docs!BeginLoad(i, t, f)
      PROVE  NothingLost' /\ Named' /\ Uncrossed'
  <2>1. PICK r : /\ r = [pc |-> "adopt", meant |-> meant[f],
                         state |-> Docs!FromDocument(Registry[i], Reads[i], texts[f])]
                 /\ task' = [task EXCEPT ![i][t] = r]
    BY <1>1 DEF Docs!BeginLoad
  <2>2. Named /\ TasksIntact /\ task' = [task EXCEPT ![i][t] = r]
        /\ (r.pc \in {"merge", "write"} => r.file \in Presets)
    BY <2>1 DEF Intact
  <2>3. /\ task'[i] = [task[i] EXCEPT ![t] = r] /\ DOMAIN task[i] = Threads
        /\ \A j \in Builds \ {i} : task'[j] = task[j]
        /\ \A j \in Builds, u \in Threads :
               task'[j][u].pc \in {"merge", "write"} => task'[j][u].file \in Presets
    BY ONLY <2>2, TaskNamed, i \in Builds, t \in Threads
  <2>4. Acceptable(texts[f]) /\ Docs!Numeric(texts[f])
    BY <1>1 DEF Docs!BeginLoad, Docs!Acceptable, Acceptable, Docs!Version, Version, Intact, TextsIntact
  <2>5. r = [pc |-> "adopt", meant |-> Meaning(texts[f]),
             state |-> FromDocument(Registry[i], Reads[i], texts[f])]
    BY <2>1, <2>4, SameReading DEF NothingLost
  <2>6. last'[i] = texts[f] /\ \A j \in Builds \ {i} : last'[j] = last[j]
    BY <1>1 DEF Docs!BeginLoad, Intact, KeptIntact
  <2>7. /\ i \notin crossed' => \A u \in Threads \ {t} : task[i][u].pc = "idle"
        /\ \A j \in Builds \ {i} : j \in crossed' <=> j \in crossed
    BY <1>1 DEF Docs!BeginLoad, Docs!Others, Docs!Threads, Threads
  <2>8. i \notin crossed' => Fine(i, task'[i], state'[i], last'[i], meant'[i])
    BY <2>3, <2>4, <2>5, <2>6, <2>7, FineLoad
  <2>9. Uncrossed'
    BY <1>1, <2>3, <2>6, <2>7, <2>8, Elsewhere DEF Docs!BeginLoad
  <2> QED BY <1>1, <2>3, <2>9, FilesSame DEF Docs!BeginLoad, Named
<1>2. ASSUME NEW i \in Builds, NEW t \in Threads, NEW f \in Presets, Docs!BeginSave(i, t, f)
      PROVE  NothingLost' /\ Named' /\ Uncrossed'
  <2>1. PICK r : /\ r = [pc |-> "merge", file |-> f, state |-> state[i], meant |-> meant[i],
                         onto |-> last[i]]
                 /\ task' = [task EXCEPT ![i][t] = r]
    BY <1>2 DEF Docs!BeginSave
  <2>2. Named /\ TasksIntact /\ task' = [task EXCEPT ![i][t] = r]
        /\ (r.pc \in {"merge", "write"} => r.file \in Presets)
    BY <2>1 DEF Intact
  <2>3. /\ task'[i] = [task[i] EXCEPT ![t] = r] /\ DOMAIN task[i] = Threads
        /\ \A j \in Builds \ {i} : task'[j] = task[j]
        /\ \A j \in Builds, u \in Threads :
               task'[j][u].pc \in {"merge", "write"} => task'[j][u].file \in Presets
    BY ONLY <2>2, TaskNamed, i \in Builds, t \in Threads
  <2>4. /\ i \notin crossed' => i \notin crossed /\ \A u \in Threads \ {t} : task[i][u].pc # "adopt"
        /\ \A j \in Builds \ {i} : j \in crossed' <=> j \in crossed
        /\ task[i][t].pc = "idle"
    BY <1>2 DEF Docs!BeginSave, Docs!Others, Docs!Threads, Threads, Docs!Call, Docs!Idle
  <2>5. i \notin crossed' => Fine(i, task'[i], state[i], last[i], meant[i])
    <3>1. r.pc = "merge" /\ r.state = state[i] /\ r.meant = meant[i] /\ r.onto = last[i]
      BY <2>1
    <3> QED BY <2>3, <2>4, <3>1, FineSave DEF Uncrossed
  <2>6. Uncrossed'
    BY <1>2, <2>3, <2>4, <2>5, Elsewhere DEF Docs!BeginSave
  <2> QED BY <1>2, <2>3, <2>6, FilesSame DEF Docs!BeginSave, Named
<1>3. ASSUME NEW i \in Builds, NEW t \in Threads, Docs!Adopt(i, t)
      PROVE  NothingLost' /\ Named' /\ Uncrossed'
  <2>1. /\ task' = [task EXCEPT ![i][t] = Docs!Idle] /\ Docs!Idle.pc = "idle" /\ TasksIntact
        /\ task[i][t].pc = "adopt"
    BY <1>3 DEF Docs!Adopt, Docs!Idle, Intact
  <2>2. /\ task'[i] = [task[i] EXCEPT ![t] = Docs!Idle] /\ DOMAIN task[i] = Threads
        /\ \A j \in Builds \ {i} : task'[j] = task[j]
        /\ \A j \in Builds, u \in Threads :
               task'[j][u].pc \in {"merge", "write"} => task'[j][u].file \in Presets
    BY <2>1, TaskNamed
  <2>3. state'[i] = task[i][t].state /\ \A j \in Builds \ {i} : state'[j] = state[j]
    BY <1>3 DEF Docs!Adopt, Intact, StatesIntact
  <2>4. /\ meant' = [meant EXCEPT ![i] = Docs!Adopted(i, task[i][t].meant)]
        /\ meant'[i] = Docs!Adopted(i, task[i][t].meant)
        /\ \A j \in Builds \ {i} : meant'[j] = meant[j]
    BY <1>3 DEF Docs!Adopt, Named
  <2>5. i \notin crossed' => Fine(i, task'[i], state'[i], last'[i], meant'[i])
    BY <1>3, <2>1, <2>2, <2>3, <2>4, FineAdopt DEF Docs!Adopt, Uncrossed
  <2>6. Uncrossed'
    BY <1>3, <2>2, <2>3, <2>4, <2>5, Elsewhere DEF Docs!Adopt
  <2> QED BY <1>3, <2>2, <2>4, <2>6, FilesKept DEF Docs!Adopt, Named
<1>4. ASSUME NEW i \in Builds, NEW t \in Threads, Docs!Merge(i, t)
      PROVE  NothingLost' /\ Named' /\ Uncrossed'
  <2>0. PICK w : w = Docs!WriteOnto(i, task[i][t].state, last[i])
    OBVIOUS
  <2>1. PICK r : /\ r = [pc |-> "write", file |-> task[i][t].file, state |-> task[i][t].state,
                         doc |-> w, meant |-> IF last[i] = task[i][t].onto THEN task[i][t].meant
                                              ELSE Docs!Meaning(w)]
                 /\ task' = [task EXCEPT ![i][t] = r]
    BY <1>4, <2>0 DEF Docs!Merge
  <2>2. Named /\ TasksIntact /\ task' = [task EXCEPT ![i][t] = r]
        /\ (r.pc \in {"merge", "write"} => r.file \in Presets)
    BY <1>4, <2>1 DEF Docs!Merge, Intact, Named
  <2>3. /\ task'[i] = [task[i] EXCEPT ![t] = r] /\ DOMAIN task[i] = Threads
        /\ \A j \in Builds \ {i} : task'[j] = task[j]
        /\ \A j \in Builds, u \in Threads :
               task'[j][u].pc \in {"merge", "write"} => task'[j][u].file \in Presets
    BY ONLY <2>2, TaskNamed, i \in Builds, t \in Threads
  <2>4. r.pc = "write" /\ r.doc = w
        /\ r.meant = IF last[i] = task[i][t].onto THEN task[i][t].meant ELSE Meaning(w)
    BY <2>1, SameMeaning
  <2>5. task[i][t].pc = "merge" /\ Own(i, task[i][t].state)
    BY <1>4 DEF Docs!Merge, Intact, TasksIntact, Carries
  <2>6. i \notin crossed => Fine(i, task'[i], state[i], last[i], meant[i])
    BY <2>0, <2>3, <2>4, <2>5, FineMerge DEF Uncrossed
  <2>7. Uncrossed'
    BY <1>4, <2>3, <2>6, Elsewhere DEF Docs!Merge
  <2> QED BY <1>4, <2>3, <2>7, FilesSame DEF Docs!Merge, Named
<1>5. ASSUME NEW i \in Builds, NEW t \in Threads, Docs!Write(i, t)
      PROVE  NothingLost' /\ Named' /\ Uncrossed'
  <2>1. PICK r : /\ r.pc = "idle" \/ (r.pc = "keep" /\ r.doc = task[i][t].doc)
                 /\ task' = [task EXCEPT ![i][t] = r]
    <3>1. Docs!Idle.pc = "idle" /\ [pc |-> "keep", doc |-> task[i][t].doc].pc = "keep"
          /\ [pc |-> "keep", doc |-> task[i][t].doc].doc = task[i][t].doc
      BY DEF Docs!Idle
    <3> QED BY <1>5, <3>1 DEF Docs!Write
  <2>2. Named /\ TasksIntact /\ task' = [task EXCEPT ![i][t] = r]
        /\ (r.pc \in {"merge", "write"} => r.file \in Presets)
    BY <2>1 DEF Intact
  <2>3. /\ task'[i] = [task[i] EXCEPT ![t] = r] /\ DOMAIN task[i] = Threads
        /\ \A j \in Builds \ {i} : task'[j] = task[j]
        /\ \A j \in Builds, u \in Threads :
               task'[j][u].pc \in {"merge", "write"} => task'[j][u].file \in Presets
    BY ONLY <2>2, TaskNamed, i \in Builds, t \in Threads
  <2>4. task[i][t].pc = "write" /\ task[i][t].file \in Presets
    BY <1>5 DEF Docs!Write, Named
  <2>5. PICK f \in Presets : f = task[i][t].file
    BY <2>4
  <2>6. i \notin crossed => Fine(i, task'[i], state[i], last[i], meant[i])
    BY <2>1, <2>3, <2>4, FineWrite DEF Uncrossed
  <2>7. PICK m : m = IF i \in crossed THEN Meaning(task[i][t].doc) ELSE task[i][t].meant
    OBVIOUS
  <2>8. m = Meaning(task[i][t].doc)
    BY <2>4, <2>7 DEF Uncrossed, Fine, Faithful
  <2>9. \/ texts' = [texts EXCEPT ![f] = task[i][t].doc] /\ meant' = Docs!Over([g \in {f} |-> m], meant)
        \/ texts' = [texts EXCEPT ![f] = Garbage] /\ meant' = meant
        \/ texts' = texts /\ meant' = meant
    BY <1>5, <2>5, <2>7, SameMeaning DEF Docs!Write
  <2>10. \A j \in Builds : meant'[j] = meant[j]
    BY <2>5, <2>9 DEF Docs!Over, Docs!DocumentAssumption, Named
  <2>11. Uncrossed'
    BY <1>5, <2>3, <2>6, <2>10, Elsewhere DEF Docs!Write
  <2>12. ASSUME texts' = [texts EXCEPT ![f] = task[i][t].doc],
                meant' = Docs!Over([g \in {f} |-> m], meant)
         PROVE  NothingLost' /\ Named'
    <3>1. DOMAIN meant' = {f} \cup DOMAIN meant /\ meant'[f] = m
          /\ \A g \in DOMAIN meant \ {f} : meant'[g] = meant[g]
      BY <2>12 DEF Docs!Over
    <3>2. texts'[f] = task[i][t].doc /\ \A g \in Presets \ {f} : texts'[g] = texts[g]
      BY <2>12 DEF Intact, TextsIntact
    <3>3. \A g \in Presets : Acceptable(texts[g]) => g \in DOMAIN meant
      BY DEF Named, Acceptable
    <3>4. NothingLost'
      BY <2>8, <3>1, <3>2, <3>3 DEF NothingLost
    <3> QED BY <2>3, <3>1, <3>2, <3>4 DEF Named
  <2>13. ASSUME texts' = [texts EXCEPT ![f] = Garbage], meant' = meant
         PROVE  NothingLost' /\ Named'
    <3>1. texts'[f] = Garbage /\ \A g \in Presets \ {f} : texts'[g] = texts[g]
      BY <2>13 DEF Intact, TextsIntact
    <3> QED BY <2>3, <2>13, <3>1 DEF NothingLost, Acceptable, Named
  <2> QED BY <2>3, <2>9, <2>11, <2>12, <2>13, FilesSame DEF Named
<1>6. ASSUME NEW i \in Builds, NEW t \in Threads, Docs!Keep(i, t)
      PROVE  NothingLost' /\ Named' /\ Uncrossed'
  <2>1. Docs!Idle.pc = "idle" /\ task[i][t].pc = "keep"
    BY <1>6 DEF Docs!Keep, Docs!Idle
  <2>2. Named /\ TasksIntact /\ task' = [task EXCEPT ![i][t] = Docs!Idle]
        /\ (Docs!Idle.pc \in {"merge", "write"} => Docs!Idle.file \in Presets)
    BY <1>6, <2>1 DEF Docs!Keep, Intact
  <2>3. /\ task'[i] = [task[i] EXCEPT ![t] = Docs!Idle] /\ DOMAIN task[i] = Threads
        /\ \A j \in Builds \ {i} : task'[j] = task[j]
        /\ \A j \in Builds, u \in Threads :
               task'[j][u].pc \in {"merge", "write"} => task'[j][u].file \in Presets
    BY ONLY <2>2, TaskNamed, i \in Builds, t \in Threads
  <2>4. last'[i] = task[i][t].doc /\ \A j \in Builds \ {i} : last'[j] = last[j]
    BY <1>6 DEF Docs!Keep, Intact, KeptIntact
  <2>5. i \notin crossed => Fine(i, task'[i], state[i], last'[i], meant[i])
    BY <2>1, <2>3, <2>4, FineKeep DEF Uncrossed
  <2>6. Uncrossed'
    BY <1>6, <2>3, <2>4, <2>5, Elsewhere DEF Docs!Keep
  <2> QED BY <1>6, <2>3, <2>6, FilesSame DEF Docs!Keep, Named
<1>7. ASSUME NEW i \in Builds, NEW k \in DOMAIN Registry[i], NEW v \in Turns, Docs!Turn(i, k, v)
      PROVE  NothingLost' /\ Named' /\ Uncrossed'
  <2>1. PICK s : s = Turned(state[i], k, v)
    OBVIOUS
  <2>2. PICK m : m = TurnedIn(meant[i], k, v)
    OBVIOUS
  <2>3. state' = [state EXCEPT ![i] = s] /\ meant' = [meant EXCEPT ![i] = m]
    BY <1>7, <2>1, <2>2, Zenon DEF Docs!Turn, Turned, TurnedIn
  <2>4. /\ state'[i] = s /\ \A j \in Builds \ {i} : state'[j] = state[j]
        /\ meant'[i] = m /\ \A j \in Builds \ {i} : meant'[j] = meant[j]
    BY <2>3 DEF Intact, StatesIntact, Named
  <2>5. Emptier(state[i], s) /\ (meant[i] = Said(i, state[i], last[i]) => m = Said(i, s, last[i]))
    <3>1. Own(i, state[i])
      BY DEF Intact, StatesIntact
    <3> QED BY <2>1, <2>2, <3>1, TurnSays
  <2>6. i \notin crossed => Fine(i, task[i], s, last[i], m)
    BY <2>5, FineEdit DEF Uncrossed
  <2>7. Uncrossed'
    BY <1>7, <2>4, <2>6, Elsewhere DEF Docs!Turn
  <2> QED BY <1>7, <2>3, <2>7, FilesKept DEF Docs!Turn, Named
<1>8. ASSUME NEW i \in Builds, NEW x \in Slots, NEW r \in Picks \cap Reads[i], Docs!Pick(i, x, r)
      PROVE  NothingLost' /\ Named' /\ Uncrossed'
  <2>1. PICK s : s = Picked(state[i], x, r)
    OBVIOUS
  <2>2. PICK m : m = PickedIn(meant[i], x, r)
    OBVIOUS
  <2>3. state' = [state EXCEPT ![i] = s] /\ meant' = [meant EXCEPT ![i] = m]
    BY <1>8, <2>1, <2>2, Zenon DEF Docs!Pick, Picked, PickedIn
  <2>4. /\ state'[i] = s /\ \A j \in Builds \ {i} : state'[j] = state[j]
        /\ meant'[i] = m /\ \A j \in Builds \ {i} : meant'[j] = meant[j]
    BY <2>3 DEF Intact, StatesIntact, Named
  <2>5. Emptier(state[i], s) /\ (meant[i] = Said(i, state[i], last[i]) => m = Said(i, s, last[i]))
    <3>1. Own(i, state[i]) /\ r # NoRef
      BY RegistryFacts DEF Intact, StatesIntact
    <3> QED BY <2>1, <2>2, <3>1, PickSays
  <2>6. i \notin crossed => Fine(i, task[i], s, last[i], m)
    BY <2>5, FineEdit DEF Uncrossed
  <2>7. Uncrossed'
    BY <1>8, <2>4, <2>6, Elsewhere DEF Docs!Pick
  <2> QED BY <1>8, <2>3, <2>7, FilesKept DEF Docs!Pick, Named
<1>9. CASE UNCHANGED Docs!vars
  BY <1>9 DEF Docs!vars, NothingLost, Named, Uncrossed
<1> QED
  BY <1>1, <1>2, <1>3, <1>4, <1>5, <1>6, <1>7, <1>8, <1>9
  DEF Docs!Next, Docs!Threads, Threads, Docs!Slots, Slots

\* Who has not read anything says what an empty document does.
LEMMA NothingSaid ==
  ASSUME Docs!DocumentAssumption, NEW i \in Builds
  PROVE  Said(i, Docs!Fresh(i), Docs!Empty) = Meaning(Docs!Empty)
<1>1. DOMAIN Docs!Empty = {<<"format_version", "">>}
  BY DEF Docs!Empty, Docs!Version
<1>2. /\ \A k : Parameter(k) \notin DOMAIN Docs!Empty
      /\ \A x : Reference(x) \notin DOMAIN Docs!Empty
      /\ <<"global", "bypass">> \notin DOMAIN Docs!Empty
  BY <1>1 DEF Parameter, Reference
<1>3. ASSUME NEW k \in DOMAIN Full
      PROVE  Clamp(ValueIn(Docs!Empty, k), Full[k]) = 0
  <2>1. ValueIn(Docs!Empty, k) = 0
    BY <1>2 DEF ValueIn
  <2>2. Full[k] \in Nat /\ NaN \notin Nat
    BY DEF Docs!DocumentAssumption
  <2> QED BY <2>1, <2>2 DEF Clamp
<1> DEFINE P == [k \in DOMAIN Full |-> Clamp(ValueIn(Docs!Empty, k), Full[k])]
           Q == [k \in DOMAIN Full |-> IF k \in DOMAIN Registry[i] THEN Docs!Fresh(i).params[k]
                                       ELSE Clamp(ValueIn(Docs!Empty, k), Full[k])]
           R == [x \in Slots |-> IF Reference(x) \in DOMAIN Docs!Empty
                                     /\ Docs!Empty[Reference(x)] \in Refs
                                 THEN Docs!Empty[Reference(x)] ELSE NoRef]
           S == [x \in Slots |-> IF Docs!Fresh(i).refs[x] # NoRef THEN Docs!Fresh(i).refs[x]
                                 ELSE Unread(i, Docs!Empty, x)]
<1>4. P = Q
  BY <1>3 DEF Docs!Fresh
<1>5. R = S
  BY <1>2 DEF Docs!Fresh, Unread, Docs!Slots, Slots
<1>6. /\ Meaning(Docs!Empty) = [set |-> [params |-> P, refs |-> R], others |-> Aside(Docs!Empty)]
      /\ Said(i, Docs!Fresh(i), Docs!Empty)
           = [set |-> [params |-> Q, refs |-> S], others |-> Aside(Docs!Empty)]
  BY DEF Meaning, FromDocument, Said, Aside
<1> HIDE DEF P, Q, R, S
<1> QED
  BY <1>4, <1>5, <1>6

LEMMA LosslessInit == Docs!DocumentAssumption /\ Docs!Init => Lossless
<1> SUFFICES ASSUME Docs!DocumentAssumption, Docs!Init PROVE Lossless
  OBVIOUS
<1> DEFINE filled == {g \in Presets : texts[g] # Garbage}
<1>1. /\ DOMAIN meant = Builds \cup filled
      /\ \A i \in Builds : meant[i] = Meaning(Docs!Empty)
      /\ \A f \in filled : f \notin Builds => meant[f] = Meaning(texts[f])
  BY SameMeaning DEF Docs!Init, Docs!Over
<1>2. NothingLost
  <2> SUFFICES ASSUME NEW f \in Presets, Acceptable(texts[f]) PROVE Meaning(texts[f]) = meant[f]
    BY DEF NothingLost
  <2>1. f \in filled /\ f \notin Builds
    BY DEF Acceptable, Docs!DocumentAssumption
  <2> QED BY <1>1, <2>1
<1>3. \A i \in Builds, t \in Threads : task[i][t].pc = "idle"
  BY DEF Docs!Init, Docs!Idle, Docs!Threads, Threads
<1>4. Named
  BY <1>1, <1>3 DEF Named
<1>5. ASSUME NEW i \in Builds PROVE Fine(i, task[i], state[i], last[i], meant[i])
  <2>1. state[i] = Docs!Fresh(i) /\ last[i] = Docs!Empty
    BY DEF Docs!Init
  <2> QED BY <1>1, <1>3, <2>1, NothingSaid DEF Fine, Faithful
<1> QED
  BY <1>2, <1>4, <1>5, IntactInit DEF Lossless, Uncrossed

\* Among instances that keep the document they loaded, a file says what its
\* users have set and nothing else, whichever builds load, edit and save it:
\* what a build does not know survives its saves, and no document leaks into
\* another.  For every registry, every form of reference and every content; a
\* product that writes a document of its own is left out, and does lose what it
\* does not know.
THEOREM NothingIsLost ==
  Docs!DocumentAssumption /\ Carriers = Builds => (Docs!Spec => []NothingLost)
<1>1. ASSUME Docs!DocumentAssumption, Carriers = Builds
      PROVE  Docs!Spec => []NothingLost
  <2>1. Docs!Init => Lossless
    BY <1>1, LosslessInit
  <2>2. Lossless /\ [Docs!Next]_(Docs!vars) => Lossless'
    <3> SUFFICES ASSUME Lossless, [Docs!Next]_(Docs!vars) PROVE Lossless'
      OBVIOUS
    <3>1. Intact'
      BY <1>1, IntactNext DEF Lossless
    <3>2. NothingLost' /\ Named' /\ Uncrossed'
      BY <1>1, LosslessNext DEF Lossless
    <3> QED BY <3>1, <3>2 DEF Lossless
  <2>3. Lossless => NothingLost
    BY DEF Lossless
  <2> QED BY <2>1, <2>2, <2>3, PTL DEF Docs!Spec
<1> QED
  BY <1>1
=============================================================================
