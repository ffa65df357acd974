--------------------------- MODULE StateDocument ---------------------------
(***************************************************************************)
(* State documents under several builds (namir-state: document, state,     *)
(* params, migrate; namir-clap: state_ext, worker_jobs; namir-app: worker).*)
(*                                                                         *)
(* A preset or the plug-in's part of a project is one document, written by *)
(* whichever product the user has open.  A build reads what it knows: the  *)
(* parameters of its registry, clamped to its ranges, and the references   *)
(* it can parse.  The plug-in keeps the document it loaded and writes its  *)
(* state over it, so that what it did not understand comes back out; the   *)
(* application writes a document of its own.                               *)
(*                                                                         *)
(* A newer build is this code with a longer registry, wider ranges and     *)
(* more forms of reference.  A document is a function from the places of   *)
(* its entries, a section and a key, to their values; a section that is no *)
(* object is left out, and so is the size of documents.                    *)
(***************************************************************************)
EXTENDS Naturals, Functions, DocumentState

CONSTANTS
    Carriers,       \* those that keep the document they loaded, the plug-ins
    Documents,      \* what the files may hold to begin with
    Turns, Picks,   \* the values and files the user may choose
    MaxCalls

Places == {Version, <<"global", "bypass">>} \cup Foreign
            \cup {Parameter(k) : k \in DOMAIN Full} \cup {Reference(s) : s \in Slots}

\* What a file says of a parameter is read as a number or as none.
Values == {Parameter(k) : k \in DOMAIN Full} \cup {<<"global", "bypass">>}
Numeric(d) == \A p \in DOMAIN d \cap Values : d[p] \in Nat \cup {NaN}

DocumentAssumption ==
    /\ Carriers \subseteq Builds /\ Builds \cap Presets = {}
    /\ \A i \in Builds :
        /\ DOMAIN Registry[i] \subseteq DOMAIN Full /\ Reads[i] \subseteq Refs
        /\ \A k \in DOMAIN Registry[i] : Registry[i][k] \in 0..Full[k]
    /\ Legacy \in DOMAIN Full /\ Full \in [DOMAIN Full -> Nat] /\ NaN \notin Nat
    /\ \A d \in Documents : d # Garbage => DOMAIN d \subseteq Places /\ Numeric(d)
    /\ NoRef \notin Refs /\ Picks \subseteq Refs /\ Turns \subseteq Nat /\ MaxCalls \in Nat

VARIABLES
    state,      \* instance |-> its parameters and references
    last,       \* instance |-> last_document
    crossed,    \* ghost: the instances that adopted a document while another
                \* call was under way, until they adopt one alone
    calls

vars == <<texts, state, last, task, meant, crossed, calls>>

-----------------------------------------------------------------------------
(* Reading and writing.                                                    *)

\* Entries inserted into an object over those it has.
Over(entries, object) ==
    [p \in DOMAIN entries \cup DOMAIN object |-> IF p \in DOMAIN entries THEN entries[p] ELSE object[p]]

Sections(s) ==
    Over([p \in {Parameter(k) : k \in DOMAIN s.params} |-> s.params[p[2]]],
         [p \in {Reference(t) : t \in {t \in Slots : s.refs[t] # NoRef}} |-> s.refs[p[2]]])

Empty == [p \in {Version} |-> 1]

\* Mutant: a reference that could not be parsed is taken for a cleared one.
AlwaysReadable(i, onto, t) == TRUE

WasReadable(i, onto, t) == Reference(t) \in DOMAIN onto => onto[Reference(t)] \in Reads[i]

\* Mutant: nothing is ever removed.
Merged(i, s, onto) == Over(Sections(s), onto)

\* The merge of both sections, and the removal of a slot that is empty now and
\* was not for want of understanding.
WriteOnto(i, s, onto) ==
    LET merged  == Over(Sections(s), onto)
        cleared == {t \in Slots : s.refs[t] = NoRef /\ WasReadable(i, onto, t)}
    IN Restrict(merged, DOMAIN merged \ {Reference(t) : t \in cleared})

\* What is left of it, with a warning, when an instance has clamped it.
Adopted(i, m) ==
    [m EXCEPT !.set.params = [k \in DOMAIN Full |->
        IF k \in DOMAIN Registry[i] THEN Clamp(@[k], Registry[i][k]) ELSE @[k]]]

-----------------------------------------------------------------------------

Idle == [pc |-> "idle"]
Fresh(i) == [params |-> [k \in DOMAIN Registry[i] |-> 0], refs |-> [s \in Slots |-> NoRef]]

Init ==
    /\ texts \in [Presets -> Documents]
    /\ state = [i \in Builds |-> Fresh(i)]
    /\ last = [i \in Builds |-> Empty]
    /\ task = [i \in Builds |-> [t \in Threads |-> Idle]]
    /\ meant = Over([i \in Builds |-> Meaning(Empty)],
                    [f \in {g \in Presets : texts[g] # Garbage} |-> Meaning(texts[f])])
    /\ crossed = {} /\ calls = 0

\* The host's thread and a job of the pool; the application has its one worker.
Call(i, t) ==
    /\ task[i][t] = Idle /\ calls < MaxCalls
    /\ i \notin Carriers => t = "pool"
    /\ calls' = calls + 1

Others(i, t) == {task[i][u].pc : u \in Threads \ {t}}

\* Mutant: a document is not kept, only its state.
BeginLoadForgetting(i, t, f) ==
    /\ Call(i, t) /\ Acceptable(texts[f])
    /\ task' = [task EXCEPT ![i][t] = [pc |-> "adopt", meant |-> meant[f],
                    state |-> FromDocument(Registry[i], Reads[i], texts[f])]]
    /\ crossed' = IF Others(i, t) = {"idle"} THEN crossed \ {i} ELSE crossed \cup {i}
    /\ UNCHANGED <<texts, state, last, meant>>

\* `adopt_document_bytes`: the whole document is kept first.
BeginLoad(i, t, f) ==
    /\ Call(i, t) /\ Acceptable(texts[f])
    /\ last' = [last EXCEPT ![i] = texts[f]]
    /\ task' = [task EXCEPT ![i][t] = [pc |-> "adopt", meant |-> meant[f],
                    state |-> FromDocument(Registry[i], Reads[i], texts[f])]]
    /\ crossed' = IF Others(i, t) = {"idle"} THEN crossed \ {i} ELSE crossed \cup {i}
    /\ UNCHANGED <<texts, state, meant>>

Adopt(i, t) ==
    /\ task[i][t].pc = "adopt"
    /\ state' = [state EXCEPT ![i] = task[i][t].state]
    /\ meant' = [meant EXCEPT ![i] = Adopted(i, task[i][t].meant)]
    /\ task' = [task EXCEPT ![i][t] = Idle]
    /\ UNCHANGED <<texts, last, crossed, calls>>

\* The state is read, and then the document it is to be written over.
BeginSave(i, t, f) ==
    /\ Call(i, t)
    /\ task' = [task EXCEPT ![i][t] = [pc |-> "merge", file |-> f, state |-> state[i],
                                       meant |-> meant[i], onto |-> last[i]]]
    /\ crossed' = IF "adopt" \in Others(i, t) THEN crossed \cup {i} ELSE crossed
    /\ UNCHANGED <<texts, state, last, meant>>

\* `write_onto` for a plug-in, `into_document` for the application.  Nothing is
\* said of what a save means whose document another one has replaced since.
Merge(i, t) ==
    /\ task[i][t].pc = "merge"
    /\ LET s   == task[i][t]
           doc == WriteOnto(i, s.state, IF i \in Carriers THEN last[i] ELSE Empty)
       IN task' = [task EXCEPT ![i][t] =
            [pc |-> "write", file |-> s.file, state |-> s.state, doc |-> doc,
             meant |-> IF last[i] = s.onto THEN s.meant ELSE Meaning(doc)]]
    /\ UNCHANGED <<texts, state, last, meant, crossed, calls>>

\* The file is overwritten in place; the write may fail, before or half way.
Write(i, t) ==
    /\ task[i][t].pc = "write"
    /\ LET s == task[i][t] IN
        \/ /\ texts' = [texts EXCEPT ![s.file] = s.doc]
           /\ meant' = Over([f \in {s.file} |-> IF i \in crossed THEN Meaning(s.doc) ELSE s.meant], meant)
           /\ task' = [task EXCEPT ![i][t] =
                        IF i \in Carriers THEN [pc |-> "keep", doc |-> s.doc] ELSE Idle]
        \/ /\ \/ texts' = [texts EXCEPT ![s.file] = Garbage]
              \/ UNCHANGED texts
           /\ task' = [task EXCEPT ![i][t] = Idle]
           /\ UNCHANGED meant
    /\ UNCHANGED <<state, last, crossed, calls>>

\* What was written is the document from now on.
Keep(i, t) ==
    /\ task[i][t].pc = "keep"
    /\ last' = [last EXCEPT ![i] = task[i][t].doc]
    /\ task' = [task EXCEPT ![i][t] = Idle]
    /\ UNCHANGED <<texts, state, meant, crossed, calls>>

\* The user turns a knob, or loads a file of the library.
Turn(i, k, v) ==
    /\ calls < MaxCalls /\ calls' = calls + 1
    /\ v <= Registry[i][k]
    /\ state' = [state EXCEPT ![i].params[k] = v]
    /\ meant' = [meant EXCEPT ![i].set.params[k] = v]
    /\ UNCHANGED <<texts, last, task, crossed>>

Pick(i, s, r) ==
    /\ calls < MaxCalls /\ calls' = calls + 1
    /\ state' = [state EXCEPT ![i].refs[s] = r]
    /\ meant' = [meant EXCEPT ![i].set.refs[s] = r]
    /\ UNCHANGED <<texts, last, task, crossed>>

Next == \E i \in Builds :
    \/ \E t \in Threads :
        \/ \E f \in Presets : BeginLoad(i, t, f) \/ BeginSave(i, t, f)
        \/ Adopt(i, t) \/ Merge(i, t) \/ Write(i, t) \/ Keep(i, t)
    \/ \E k \in DOMAIN Registry[i], v \in Turns : Turn(i, k, v)
    \/ \E s \in Slots, r \in Picks \cap Reads[i] : Pick(i, s, r)

Spec == Init /\ [][Next]_vars

-----------------------------------------------------------------------------

\* Every variable has its type.
TypeOK ==
    /\ \A f \in Presets : texts[f] = Garbage \/ DOMAIN texts[f] \subseteq Places
    /\ \A i \in Builds : DOMAIN state[i].params = DOMAIN Registry[i]
                            /\ DOMAIN last[i] \subseteq Places
    /\ crossed \subseteq Builds /\ calls \in 0..MaxCalls
=============================================================================
