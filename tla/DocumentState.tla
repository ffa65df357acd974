--------------------------- MODULE DocumentState ----------------------------
(* What StateDocument and its proofs are about: how a build reads a         *)
(* document, the calls in progress, and the promises that other modules cite. *)
EXTENDS Naturals

CONSTANTS
    Builds,         \* the instances, each of a build of its own
    Registry,       \* instance |-> its parameters |-> the largest value, the least is 0
    Reads,          \* instance |-> the references it can parse
    Full, Refs,     \* the registry and the references of a build that knows everything
    Presets,        \* the files that hold documents
    NaN,            \* a value that is no number
    NoRef,
    Garbage         \* what is no document

VARIABLES
    texts,      \* file |-> the document it holds
    task,       \* instance |-> thread |-> the load or save in progress
    meant       \* ghost: file or instance |-> what its users have set

Threads == {"host", "pool"}
Slots == {"nam", "ir"}
Legacy == "global.bypass"
Parameter(k) == <<"parameters", k>>
Reference(s) == <<"references", s>>
Version == <<"format_version", "">>
\* What no build reads: a section of a host's own, a note among the references.
Foreign == {<<"host", "">>, <<"references", "memo">>}

\* `clamp_to_descriptor`; the default is 0.
Clamp(v, top) == IF v = NaN THEN 0 ELSE IF v > top THEN top ELSE v

\* Mutant: the legacy section is preferred.
LegacyFirst(d, k) ==
    IF k = Legacy /\ <<"global", "bypass">> \in DOMAIN d THEN d[<<"global", "bypass">>]
    ELSE IF Parameter(k) \in DOMAIN d THEN d[Parameter(k)] ELSE 0

\* An entry of `parameters` wins over the legacy section.
ValueIn(d, k) ==
    IF Parameter(k) \in DOMAIN d THEN d[Parameter(k)]
    ELSE IF k = Legacy /\ <<"global", "bypass">> \in DOMAIN d THEN d[<<"global", "bypass">>]
    ELSE 0

\* A reference that cannot be parsed counts as none.
FromDocument(registry, reads, d) ==
    [params |-> [k \in DOMAIN registry |-> Clamp(ValueIn(d, k), registry[k])],
     refs   |-> [s \in Slots |-> IF Reference(s) \in DOMAIN d /\ d[Reference(s)] \in reads
                                 THEN d[Reference(s)] ELSE NoRef]]

\* `State::read` refuses a document without its version, and any older or newer
\* version passes.
Acceptable(d) == d # Garbage /\ Version \in DOMAIN d

\* What a build that knows everything finds in a document.
Meaning(d) == [set    |-> FromDocument(Full, Refs, d),
               others |-> [p \in DOMAIN d \cap Foreign |-> d[p]]]

\* However loads, recalls and saves of one instance overlap, the document a
\* save writes is read back by the same build as the very state that was saved.
ReadsBack ==
    \A i \in Builds, t \in Threads :
        task[i][t].pc = "write" =>
            FromDocument(Registry[i], Reads[i], task[i][t].doc) = task[i][t].state

\* Whichever builds load, edit and save a document in turn, it says what its
\* users have set and nothing else: what a build does not know survives its
\* saves, what it does know is not brought back from an older writing, and one
\* document does not leak into another ("a project saved by a newer Namir and
\* reopened by an older one does not silently lose settings").
NothingLost == \A f \in Presets : Acceptable(texts[f]) => Meaning(texts[f]) = meant[f]
=============================================================================
