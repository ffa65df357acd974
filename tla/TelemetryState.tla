--------------------------- MODULE TelemetryState ----------------------------
(* What TelemetryRing and its proofs are about: parameters, state, and the promises
   that other modules cite. *)
EXTENDS Integers, FiniteSets

CONSTANTS
  Cap,      \* slots.len(), a power of two; the mask makes the index seq % Cap
  Ahead,    \* how far slot stores may be visible before write_seq
  Readers,  \* the clones of TelemetryReader
  OutLen,   \* the length of the buffer a reader drains into
  MaxSeq    \* bound: entries pushed in all

ASSUME RingAssumption ==
  /\ Cap \in Nat \ {0} /\ Ahead \in Nat \ {0}
  /\ OutLen \in Nat \ {0} /\ MaxSeq \in Nat
  /\ IsFiniteSet(Readers)

VARIABLES
  slots,     \* per index, the entry its slot holds
  written,   \* slot stores made so far
  seq,       \* write_seq as readers load it
  cursor,    \* per reader, the position its next drain begins at
  pos,       \* per reader, the position the drain in progress has reached
  end,       \* per reader, where that drain stops
  draining,  \* per reader, is a drain in progress
  missed,    \* per reader, the sum of the drains' missed
  last,      \* per reader, the entry it copied last
  got        \* per reader, every entry it has copied out

reader == <<cursor, pos, end, draining, missed, last, got>>

\* A reader never goes back in time: the entry copied from a position is the one
\* pushed there or a newer one of the same slot, never an older one and never a
\* slot nothing was stored in; being lapped between the two loads of drain yields
\* a newer reading in an older position and nothing else (drain's comment).
NeverStale ==
  [][\A r \in Readers : draining[r] /\ pos'[r] = pos[r] + 1 =>
       last'[r] >= pos[r] /\ last'[r] < written]_reader

\* missed is a lower bound on what this reader has lost, summed over its drains:
\* at least that many of the entries it has gone past were never copied out.
MissedIsLowerBound ==
  \A r \in Readers :
    ~draining[r] => missed[r] <= Cardinality((0..(cursor[r] - 1)) \ got[r])
=============================================================================
