---------------------------- MODULE TelemetryRing ----------------------------
(***************************************************************************)
(* The lossy outbound ring (namir-engine: telemetry_ring.rs): one writer   *)
(* that never waits, any number of readers with a cursor of their own.     *)
(* A reading stands for its position in the stream: entry q is the q-th    *)
(* ever pushed.  Every reader is a clone of the one telemetry_ring returns *)
(* and begins at its cursor, 0, however late it is cloned.                 *)
(*                                                                         *)
(* push stores the slot (relaxed) and then the sequence number (release):  *)
(* a reader that sees the number sees the slot, but a later slot store may *)
(* be seen before an earlier bump of the number.  So the slots run ahead   *)
(* of the number a reader loads, by at most Ahead entries.                 *)
(***************************************************************************)
EXTENDS Integers, FiniteSets, TelemetryState

Unwritten == -1   \* the zero a slot is created with
Indices   == 0..(Cap - 1)

vars   == <<slots, written, seq, reader>>

Init ==
  /\ slots = [i \in Indices |-> Unwritten]
  /\ written = 0 /\ seq = 0
  /\ cursor = [r \in Readers |-> 0]
  /\ pos = [r \in Readers |-> 0]
  /\ end = [r \in Readers |-> 0]
  /\ draining = [r \in Readers |-> FALSE]
  /\ missed = [r \in Readers |-> 0]
  /\ last = [r \in Readers |-> Unwritten]
  /\ got = [r \in Readers |-> {}]

-----------------------------------------------------------------------------
(* The audio thread: push.                                                 *)

Store ==
  /\ written < MaxSeq /\ written < seq + Ahead
  /\ slots' = [slots EXCEPT ![written % Cap] = written]
  /\ written' = written + 1
  /\ UNCHANGED <<seq, reader>>

\* Mutant: the sequence number is bumped before the slot is stored.
PublishEarly ==
  /\ seq <= written /\ seq < MaxSeq
  /\ seq' = seq + 1
  /\ UNCHANGED <<slots, written, reader>>

Publish ==
  /\ seq < written
  /\ seq' = seq + 1
  /\ UNCHANGED <<slots, written, reader>>

-----------------------------------------------------------------------------
(* A reader: drain.                                                        *)

AtMost(a, b)  == IF a < b THEN a ELSE b
AtLeast(a, b) == IF a > b THEN a ELSE b

\* The positions before this one have been overwritten.
OldestLive == AtLeast(0, seq - Cap)

\* Mutant: the drain starts at the cursor, however far that has been lapped, and
\* still counts what it believes was lost.
BeginDrainLapped(r) ==
  /\ ~draining[r]
  /\ missed' = [missed EXCEPT ![r] = @ + AtLeast(0, OldestLive - cursor[r])]
  /\ pos' = [pos EXCEPT ![r] = cursor[r]]
  /\ end' = [end EXCEPT ![r] = AtMost(seq, cursor[r] + OutLen)]
  /\ draining' = [draining EXCEPT ![r] = TRUE]
  /\ UNCHANGED <<slots, written, seq, cursor, last, got>>

BeginDrain(r) ==
  /\ ~draining[r]
  /\ missed' = [missed EXCEPT ![r] = @ + AtLeast(0, OldestLive - cursor[r])]
  /\ LET first == AtLeast(cursor[r], OldestLive) IN
       /\ pos' = [pos EXCEPT ![r] = first]
       /\ end' = [end EXCEPT ![r] = AtMost(seq, first + OutLen)]
  /\ draining' = [draining EXCEPT ![r] = TRUE]
  /\ UNCHANGED <<slots, written, seq, cursor, last, got>>

\* One entry is copied out: whatever its slot holds by now.
Copy(r) ==
  /\ draining[r] /\ pos[r] < end[r]
  /\ LET q == slots[pos[r] % Cap] IN
       /\ last' = [last EXCEPT ![r] = q]
       /\ got' = [got EXCEPT ![r] = @ \union {q}]
  /\ pos' = [pos EXCEPT ![r] = @ + 1]
  /\ UNCHANGED <<slots, written, seq, cursor, end, draining, missed>>

\* Mutant: the cursor jumps to the newest position, past what did not fit out.
EndDrainSkipping(r) ==
  /\ draining[r] /\ pos[r] = end[r]
  /\ cursor' = [cursor EXCEPT ![r] = seq]
  /\ draining' = [draining EXCEPT ![r] = FALSE]
  /\ UNCHANGED <<slots, written, seq, pos, end, missed, last, got>>

EndDrain(r) ==
  /\ draining[r] /\ pos[r] >= end[r]
  /\ cursor' = [cursor EXCEPT ![r] = pos[r]]
  /\ draining' = [draining EXCEPT ![r] = FALSE]
  /\ UNCHANGED <<slots, written, seq, pos, end, missed, last, got>>

Drain(r) == BeginDrain(r) \/ Copy(r) \/ EndDrain(r)

Next ==
  \/ Store
  \/ Publish
  \/ \E r \in Readers : Drain(r)

Spec == Init /\ [][Next]_vars

\* push runs to its end, and a meter is drained on every frame of the UI.  Nothing
\* makes the audio thread push again.
FairSpec == Spec /\ WF_vars(Publish) /\ \A r \in Readers : WF_vars(Drain(r))

-----------------------------------------------------------------------------
TypeOK ==
  /\ slots \in [Indices -> Int]
  /\ written \in Nat /\ seq \in Nat
  /\ cursor \in [Readers -> Nat]
  /\ pos \in [Readers -> Nat]
  /\ end \in [Readers -> Nat]
  /\ draining \in [Readers -> BOOLEAN]
  /\ missed \in [Readers -> Nat]
  /\ last \in [Readers -> Int]
  /\ got \in [Readers -> SUBSET Int]

\* Every entry a reader has not been lapped on reaches it: once published, an entry
\* is copied out by each reader or overwritten.  There are MaxSeq of them and what
\* has come to an entry is never undone, so that it comes to each if again and again
\* no published entry is without it.
DeliveredOrOverwritten ==
  []<>(\A r \in Readers : \A q \in 0..(seq - 1) : q \in got[r] \/ slots[q % Cap] # q)
=============================================================================
