---------------------------- MODULE ReplayState -----------------------------
(* What PluginReplay and its proofs are about: threads, state, and the promise that
   other modules cite. *)
EXTENDS Naturals, Sequences, Absence

CONSTANTS
    PoolThreads,    \* the pool's threads
    Main, Gui,      \* the host's main thread and the editor's
    NoEngine

VARIABLES
    stands,     \* the parameter mirror and the two references
    live,       \* the live engine's parameter and resources, or NoEngine
    heard,      \* history: what the jobs last made of each of them (below)
    raced,      \* history: jobs have met since the pool was last at rest
    recalls,    \* the pool's queue of jobs
    pc,         \* thread |-> where it is
    doc,        \* thread |-> the state it is adopting, has read or will load
    saved,      \* the state last saved or recalled
    unsaved,    \* unsaved_changes
    calls       \* made so far

\* No thread is in the middle of a call or a job, and none is waiting.
AtRest == recalls = <<>> /\ \A t \in PoolThreads \cup {Main, Gui} : pc[t] = "idle"

\* "given": it was given what was asked for; "gone": the file was not found and
\* it holds nothing; "unsure": it was left as it was, or two jobs met over it.
Words  == {"given", "gone", "unsure"}
Unsure == [param |-> "unsure", nam |-> "unsure", ir |-> "unsure"]

\* What is held answers to what is asked for as the word has it.
Answers(word, held, asked) ==
    /\ word = "given" => held = asked
    /\ word = "gone" => held = None

\* Whatever was adopted, loaded and recalled, in whatever order, once
\* everything is done a live engine has the resources the references name:
\* what a save writes is what is heard.  A file that was not found leaves its
\* stage empty; one that did not parse or was not delivered, and jobs of two
\* threads that met, promise nothing, until a job alone brings it to an end.
ResourcesAgree ==
    AtRest /\ live # NoEngine =>
        Answers(heard.nam, live.nam, stands.nam) /\ Answers(heard.ir, live.ir, stands.ir)
=============================================================================
