---------------------------- MODULE ServiceState -----------------------------
(* What LibraryService and its proofs are about: parameters, state, and the promises
   that other modules cite. *)
EXTENDS Integers

CONSTANT
    Processes   \* each holds one SharedIndex for the path

VARIABLES
    shelf,          \* the files of the library that are on disk
    doc, sidecar,   \* the index document, and the marks in the document beside it
    changed,        \* ghost: files touched since the scan that wrote doc began
    shared          \* process |-> SharedIndex: stamp of what is loaded, index

NotLoaded == 0 - 1

\* No save takes from the document the entry of a file that is there and was not
\* touched since the scan that wrote it began: neither a scan that was cancelled or
\* could not list a directory, nor one that began before the index was loaded, nor
\* one after a save that failed. This is the failure open_default and start_scan
\* describe, an index erased by a scan (library.rs:416-423).
KeptIfPresent ==
    [][doc.kind = "good" /\ doc'.kind = "good" =>
          (doc.entries \ doc'.entries) \cap shelf \subseteq changed]_doc

\* Issue #68: the favourite marks outlive the index document. Whatever has happened
\* to it, a loaded index has them, and so has one that is saved.
MarksKept ==
    /\ \A p \in Processes : shared[p].stamp # NotLoaded => shared[p].marks
    /\ doc.kind = "good" => doc.marks
    /\ sidecar
=============================================================================
