------------------------ MODULE ParamGesturesProofs ------------------------
(***************************************************************************)
(* For any number of parameters and any pattern of refusals: the gestures  *)
(* the host sees nest, and no value is lost on its way to the host.        *)
(***************************************************************************)
EXTENDS ParamGestures, TLAPS

\* What is owed lies in `open` between emissions and in the emission's own
\* set during one, never in both, and an event is pushed only if neither
\* holds anything.
GestureInv ==
    /\ GesturesNest
    /\ em.pc \in {"idle", "close"} => em.still = {}
    /\ em.pc \in {"emit", "push"} => open = {}
    /\ em.pc = "push" => em.still = {}

Inv == TypeOK /\ GestureInv

USE GesturesAssumption DEF Params, Loaders

\* The values between emissions and between loads are of their types.
LEMMA RestTypes ==
  /\ NoEmission \in Emissions /\ NoEmission.pc = "idle" /\ NoEmission.still = {}
  /\ [NoEmission EXCEPT !.pc = "close"] \in Emissions
  /\ NoLoad \in [at : 0..(N + 1), doc : [Params -> Values]]
  <1>1. NoEmission \in Emissions /\ NoEmission.pc = "idle" /\ NoEmission.still = {}
      BY DEF NoEmission, Emissions
  <1>2. [NoEmission EXCEPT !.pc = "close"] \in Emissions
      BY DEF NoEmission, Emissions
  <1>3. [p \in Params |-> Default] \in [Params -> Values]
      OBVIOUS
  <1>4. NoLoad \in [at : 0..(N + 1), doc : [Params -> Values]]
      BY <1>3 DEF NoLoad
  <1> QED BY <1>1, <1>2, <1>4

\* The initial states satisfy the invariant.
LEMMA InitInv == Init => Inv
  <1> SUFFICES ASSUME Init PROVE Inv
      OBVIOUS
  <1>1. TypeOK
    <2>1. mirror \in [Params -> Values] /\ heard \in [Params -> Values]
        BY DEF Init
    <2>2. depth \in [Params -> 0..1]
        BY DEF Init
    <2>3. load \in [Loaders -> [at : 0..(N + 1), doc : [Params -> Values]]]
        BY RestTypes DEF Init
    <2>4. /\ rescan \in BOOLEAN /\ woken \in BOOLEAN
          /\ asked \in BOOLEAN /\ active \in BOOLEAN
        BY DEF Init
    <2>5. em \in Emissions /\ em.pc # "push"
        BY RestTypes DEF Init
    <2>6. /\ pending \subseteq Params /\ open \subseteq Params /\ crossed \subseteq Params
          /\ gui \in 0..N /\ calls \in Nat
        BY DEF Init
    <2> QED BY <2>1, <2>2, <2>3, <2>4, <2>5, <2>6 DEF TypeOK
  <1>2. GestureInv
      BY DEF Init, GestureInv, GesturesNest, NoEmission
  <1> QED BY <1>1, <1>2 DEF Inv

\* What concerns neither the emission's owed set nor `open` nor the host's
\* count keeps the gestures as they are.
LEMMA GesturesUntouched ==
  ASSUME GestureInv, depth' = depth, open' = open,
         em'.pc = em.pc, em'.still = em.still
  PROVE  GestureInv'
  BY DEF GestureInv, GesturesNest

\* The editor's two steps.
LEMMA EditorStep == ASSUME Inv, Editor PROVE Inv'
  <1>1. CASE \E p \in Params, v \in Values : StoreEdit(p, v)
    <2> PICK p \in Params, v \in Values : StoreEdit(p, v)
        BY <1>1
    <2>1. TypeOK'
        BY DEF Inv, TypeOK, StoreEdit, Call
    <2> QED BY <2>1, GesturesUntouched DEF Inv, StoreEdit
  <1>2. CASE MarkEdit
    <2>1. TypeOK'
        BY <1>2 DEF Inv, TypeOK, MarkEdit
    <2> QED BY <1>2, <2>1, GesturesUntouched DEF Inv, MarkEdit
  <1> QED BY <1>1, <1>2 DEF Editor

\* The adoption of a state.
LEMMA AdoptionStep == ASSUME Inv, NEW t \in Loaders, Adoption(t) PROVE Inv'
  <1>1. CASE \E d \in Docs : StartLoad(t, d)
    <2> PICK d \in Docs : StartLoad(t, d)
        BY <1>1
    <2>1. TypeOK'
        BY DEF Inv, TypeOK, StartLoad, Call
    <2> QED BY <2>1, GesturesUntouched DEF Inv, StartLoad
  <1>2. CASE AdoptOne(t)
    <2> DEFINE p == load[t].at
    <2>1. p \in Params /\ load[t].doc[p] \in Values /\ p + 1 \in 0..(N + 1)
        BY <1>2 DEF Inv, TypeOK, AdoptOne
    <2>2. em' \in Emissions /\ em'.pc = em.pc /\ em'.still = em.still
             /\ em'.now = em.now /\ em'.todo = em.todo
        BY <1>2 DEF Inv, TypeOK, AdoptOne, Emissions
    <2>3. TypeOK'
        BY <1>2, <2>1, <2>2 DEF Inv, TypeOK, AdoptOne
    <2> QED BY <1>2, <2>2, <2>3, GesturesUntouched DEF Inv, AdoptOne
  <1>3. CASE FinishLoad(t)
    <2>1. TypeOK'
        BY <1>3, RestTypes DEF Inv, TypeOK, FinishLoad, HostRereads
    <2> QED BY <1>3, <2>1, GesturesUntouched DEF Inv, FinishLoad
  <1> QED BY <1>1, <1>2, <1>3 DEF Adoption

\* The main thread's callback, and what else happens outside emissions.
LEMMA OtherStep == ASSUME Inv, OnMainThread \/ WokenOtherwise \/ Switch PROVE Inv'
  <1>1. CASE OnMainThread
    <2>1. TypeOK'
        BY <1>1 DEF Inv, TypeOK, OnMainThread, HostRereads, FlushWanted
    <2> QED BY <1>1, <2>1, GesturesUntouched DEF Inv, OnMainThread
  <1>2. CASE WokenOtherwise
    <2>1. TypeOK'
        BY <1>2 DEF Inv, TypeOK, WokenOtherwise
    <2> QED BY <1>2, <2>1, GesturesUntouched DEF Inv, WokenOtherwise
  <1>3. CASE Switch
    <2>1. TypeOK'
        BY <1>3 DEF Inv, TypeOK, Switch, Call
    <2> QED BY <1>3, <2>1, GesturesUntouched DEF Inv, Switch
  <1> QED BY <1>1, <1>2, <1>3

\* An emission begins with nothing in its owed set.
LEMMA BeginStep ==
  ASSUME Inv, BeginEmission, depth' = depth, open' = open
  PROVE  GestureInv' /\ em' \in Emissions /\ em'.pc = "close"
  <1>1. em' \in Emissions /\ em'.pc = "close" /\ em'.still = {}
      BY RestTypes DEF BeginEmission, NoEmission
  <1>2. em.still = {}
      BY DEF Inv, GestureInv, BeginEmission
  <1> QED BY <1>1, <1>2 DEF Inv, GestureInv, GesturesNest

\* Old debts are settled, or carried into the emission.
LEMMA CloseStep == ASSUME Inv, NEW refused \in SUBSET open, Close(refused) PROVE Inv'
  <1>1. em' \in Emissions /\ em'.pc = "emit" /\ em'.still = refused
      BY DEF Inv, TypeOK, Close, Emissions
  <1>2. em.still = {} /\ open \subseteq Params
      BY DEF Inv, TypeOK, GestureInv, Close
  <1>3. \A p \in Params : depth[p] = IF p \in open THEN 1 ELSE 0
      BY <1>2 DEF Inv, GestureInv, GesturesNest
  <1>4. \A p \in Params : depth'[p] = IF p \in refused THEN 1 ELSE 0
      BY <1>3 DEF Close
  <1>5. depth' \in [Params -> 0..1]
      BY <1>3 DEF Close
  <1>6. TypeOK'
      BY <1>1, <1>5 DEF Inv, TypeOK, Close
  <1>7. GestureInv'
    <2>1. \A p, q \in refused : p = q
        BY DEF Inv, GestureInv, GesturesNest
    <2>2. open' = {}
        BY DEF Close
    <2> QED BY <1>1, <1>4, <2>1, <2>2 DEF GestureInv, GesturesNest
  <1> QED BY <1>6, <1>7 DEF Inv

\* The three pushes: at most one gesture is left open, and it is owed.
LEMMA PushStep ==
  ASSUME Inv, NEW begun \in BOOLEAN, NEW said \in BOOLEAN, NEW ended \in BOOLEAN,
         Push(begun, said, ended)
  PROVE  Inv'
  <1> DEFINE p == em.now
             owed == EndOwed(begun, said, ended)
  <1>1. p \in Params /\ em.still = {} /\ open = {} /\ em.value \in Values
      BY DEF Inv, TypeOK, Emissions, GestureInv, Push
  <1>2. \A q \in Params : depth[q] = 0
      BY <1>1 DEF Inv, GestureInv, GesturesNest
  <1>3. em' \in Emissions /\ em'.pc = "emit" /\ em'.still = IF owed THEN {p} ELSE {}
    <2>1. em' = [em EXCEPT !.pc = "emit", !.todo = em.todo \ {p},
                   !.crossed = {},
                   !.still = IF owed THEN em.still \cup {p} ELSE em.still,
                   !.undelivered = IF Missed(begun, said) THEN em.undelivered \cup {p}
                                   ELSE em.undelivered]
        BY DEF Push
    <2> QED BY <1>1, <2>1 DEF Inv, TypeOK, Emissions
  <1>4. /\ depth' \in [Params -> 0..1]
        /\ \A q \in Params : depth'[q] = IF q = p /\ owed THEN 1 ELSE 0
    <2>1. depth' = [depth EXCEPT ![p] = IF begun /\ ~ended THEN depth[p] + 1 ELSE depth[p]]
        BY DEF Push
    <2>2. owed <=> begun /\ ~ended
        BY DEF EndOwed
    <2> QED BY <1>1, <1>2, <2>1, <2>2 DEF Inv, TypeOK
  <1>5. heard' \in [Params -> Values] /\ crossed' \subseteq Params
    <2>1. em.crossed \subseteq Params
        BY DEF Inv, TypeOK, Emissions
    <2> QED BY <1>1, <2>1 DEF Inv, TypeOK, Push
  <1>6. TypeOK'
      BY <1>3, <1>4, <1>5 DEF Inv, TypeOK, Push
  <1>7. open' = {}
      BY <1>1 DEF Push
  <1>8. GestureInv'
      BY <1>3, <1>4, <1>7 DEF GestureInv, GesturesNest
  <1> QED BY <1>6, <1>8 DEF Inv

\* The steps of an emission.
LEMMA EmissionStep == ASSUME Inv, Emission PROVE Inv'
  <1>1. CASE \E p \in Params, v \in Values : HostMoves(p, v)
    <2> PICK p \in Params, v \in Values : HostMoves(p, v)
        BY <1>1
    <2>1. GestureInv' /\ em' \in Emissions /\ em'.pc = "close"
        BY BeginStep DEF HostMoves
    <2>2. heard' \in [Params -> Values] /\ mirror' \in [Params -> Values]
        BY DEF Inv, TypeOK, HostMoves
    <2>3. rescan' \in BOOLEAN /\ asked' \in BOOLEAN
        BY DEF HostMoves, Serviced, BeginEmission
    <2>4. crossed' \subseteq Params
        BY DEF Inv, TypeOK, HostMoves
    <2>5. TypeOK'
        BY <2>1, <2>2, <2>3, <2>4 DEF Inv, TypeOK, HostMoves, Call
    <2> QED BY <2>1, <2>5 DEF Inv
  <1>2. CASE Quiet
    <2>1. GestureInv' /\ em' \in Emissions /\ em'.pc = "close"
        BY <1>2, BeginStep DEF Quiet
    <2>2. rescan' \in BOOLEAN /\ asked' \in BOOLEAN
        BY <1>2 DEF Quiet, Serviced, BeginEmission
    <2>3. TypeOK'
        BY <1>2, <2>1, <2>2 DEF Inv, TypeOK, Quiet, HostRereads
    <2> QED BY <2>1, <2>3 DEF Inv
  <1>3. CASE \E refused \in SUBSET open : Close(refused)
      BY <1>3, CloseStep
  <1>4. CASE PutOff
    <2>1. em' \in Emissions /\ em'.pc = em.pc /\ em'.still = em.still /\ em.pc = "emit"
        BY <1>4 DEF Inv, TypeOK, PutOff, Emissions
    <2>2. TypeOK'
        BY <1>4, <2>1 DEF Inv, TypeOK, PutOff
    <2> QED BY <1>4, <2>1, <2>2, GesturesUntouched DEF Inv, PutOff
  <1>5. CASE ReadValue
    <2> PICK p \in em.todo :
            em' = [em EXCEPT !.pc = "push", !.now = p, !.value = mirror[p]]
        BY <1>5 DEF ReadValue
    <2>1. p \in Params /\ mirror[p] \in Values
        BY DEF Inv, TypeOK, Emissions
    <2>2. /\ em' \in Emissions /\ em'.pc = "push" /\ em'.still = em.still
          /\ em'.now \in em'.todo
      <3>1. em \in Emissions /\ p \in 0..N
          BY <2>1 DEF Inv, TypeOK
      <3>2. em' \in Emissions
          BY <2>1, <3>1 DEF Emissions
      <3>3. em'.now = p /\ em'.todo = em.todo /\ em'.pc = "push" /\ em'.still = em.still
          BY <3>1 DEF Emissions
      <3> QED BY <3>2, <3>3
    <2>3. TypeOK'
        BY <1>5, <2>2 DEF Inv, TypeOK, ReadValue
    <2>4. em.still = {} /\ em.pc = "emit"
        BY <1>5 DEF ReadValue, NothingOwed
    <2>5. GestureInv'
        BY <1>5, <2>2, <2>4 DEF Inv, GestureInv, GesturesNest, ReadValue
    <2> QED BY <2>3, <2>5 DEF Inv
  <1>6. CASE \E begun, said, ended \in BOOLEAN : Push(begun, said, ended)
      BY <1>6, PushStep
  <1>7. CASE Settle
    <2>1. em' \in Emissions /\ em'.pc = "idle" /\ em'.still = {} /\ open' = em.still /\ open = {}
        BY <1>7 DEF Inv, TypeOK, GestureInv, Settle, NoEmission, Emissions
    <2>2. TypeOK'
        BY <1>7, <2>1 DEF Inv, TypeOK, Settle, Emissions
    <2>3. GestureInv'
        BY <1>7, <2>1 DEF Inv, GestureInv, GesturesNest, Settle
    <2> QED BY <2>2, <2>3 DEF Inv
  <1> QED BY <1>1, <1>2, <1>3, <1>4, <1>5, <1>6, <1>7 DEF Emission

\* A step that changes nothing keeps the invariant.
LEMMA Stutter == ASSUME Inv, UNCHANGED vars PROVE Inv'
  <1>1. TypeOK'
      BY DEF Inv, TypeOK, vars
  <1>2. GestureInv'
      BY DEF Inv, GestureInv, GesturesNest, vars
  <1> QED BY <1>1, <1>2 DEF Inv

\* The invariant holds in every behaviour.
THEOREM GesturesInvariant == Spec => []Inv
  <1>1. Inv /\ [Next]_vars => Inv'
      BY EditorStep, AdoptionStep, OtherStep, EmissionStep, Stutter DEF Next
  <1> QED BY InitInv, <1>1, PTL DEF Spec

\* However the host refuses events, the gestures it sees nest, and what it
\* sees open is what the plug-in knows it owes (`emit_gui_param_changes`).
THEOREM GesturesAlwaysNest == Spec => []GesturesNest
  <1>1. Inv => GesturesNest
      BY DEF Inv, GestureInv
  <1> QED BY GesturesInvariant, <1>1, PTL

-----------------------------------------------------------------------------

\* Between emissions none is under way; a value that was read and is no
\* longer current is known to be, by the mark or by the adoption.
ReportInv ==
    /\ NoEditLost
    /\ em.pc \in {"idle", "close"} => em.todo = {} /\ em.undelivered = {}
    /\ em.pc = "push" => \/ em.value = mirror[em.now]
                         \/ em.crossed = {em.now}
                         \/ gui = em.now
                         \/ em.now \in pending

\* The initial states satisfy it.
LEMMA InitReport == Init => ReportInv
  BY DEF Init, ReportInv, NoEditLost, NoEmission

\* The editor: the value, and then its mark.
LEMMA EditorReports == ASSUME Inv, ReportInv, Editor PROVE ReportInv'
  <1>1. CASE \E p \in Params, v \in Values : StoreEdit(p, v)
    <2> PICK p \in Params, v \in Values : StoreEdit(p, v)
        BY <1>1
    <2>1. gui = 0 /\ gui' = p /\ \A q \in Params : q # p => mirror'[q] = mirror[q]
        BY DEF Inv, TypeOK, StoreEdit
    <2>2. \A q \in Params : gui # q
        BY <2>1
    <2>3. em.pc = "push" => em.now \in Params
        BY DEF Inv, TypeOK, Emissions
    <2>4. NoEditLost'
        BY <2>1, <2>2 DEF ReportInv, NoEditLost, StoreEdit, Adopting
    <2> QED BY <2>1, <2>2, <2>3, <2>4 DEF ReportInv, StoreEdit
  <1>2. CASE MarkEdit
    <2>1. NoEditLost'
        BY <1>2 DEF ReportInv, NoEditLost, MarkEdit, Adopting
    <2> QED BY <1>2, <2>1 DEF ReportInv, MarkEdit
  <1> QED BY <1>1, <1>2 DEF Editor

\* A state being adopted accounts for every difference, until the host is
\* told to read again.
LEMMA AdoptionReports ==
  ASSUME Inv, ReportInv, NEW t \in Loaders, Adoption(t)
  PROVE  ReportInv'
  <1>1. CASE \E d \in Docs : StartLoad(t, d)
    <2> PICK d \in Docs : StartLoad(t, d)
        BY <1>1
    <2>1. load'[t].at = 1
        BY DEF Inv, TypeOK, StartLoad
    <2>2. NoEditLost'
        BY <2>1 DEF NoEditLost, Adopting
    <2> QED BY <2>2 DEF ReportInv, StartLoad
  <1>2. CASE AdoptOne(t)
    <2> DEFINE p == load[t].at
    <2>1. load'[t].at = p + 1 /\ p \in Params
        BY <1>2 DEF Inv, TypeOK, AdoptOne
    <2>2. NoEditLost'
        BY <2>1 DEF NoEditLost, Adopting
    <2>3. \A q \in Params : q # p => mirror'[q] = mirror[q]
        BY <1>2, <2>1 DEF Inv, TypeOK, AdoptOne
    <2>4. /\ em'.pc = em.pc /\ em'.todo = em.todo /\ em'.undelivered = em.undelivered
          /\ em'.now = em.now /\ em'.value = em.value
          /\ em.pc = "push" /\ em.now = p => em'.crossed = {p}
          /\ em.now # p => em'.crossed = em.crossed
        BY <1>2 DEF Inv, TypeOK, Emissions, AdoptOne
    <2>5. em.pc = "push" => em.now \in Params
        BY DEF Inv, TypeOK, Emissions
    <2>6. gui' = gui /\ pending' = pending
        BY <1>2 DEF AdoptOne
    <2> QED BY <2>2, <2>3, <2>4, <2>5, <2>6 DEF ReportInv
  <1>3. CASE FinishLoad(t)
    <2>1. heard' = mirror' \/ rescan'
        BY <1>3 DEF FinishLoad, HostRereads
    <2>2. NoEditLost'
        BY <2>1 DEF NoEditLost
    <2> QED BY <1>3, <2>2 DEF ReportInv, FinishLoad
  <1> QED BY <1>1, <1>2, <1>3 DEF Adoption

\* A rescan is forgotten only when the host has read everything again.
LEMMA OtherReports ==
  ASSUME Inv, ReportInv, OnMainThread \/ WokenOtherwise \/ Switch
  PROVE  ReportInv'
  <1>1. CASE OnMainThread
    <2>1. CASE rescan
      <3>1. heard' = mirror'
          BY <1>1, <2>1 DEF OnMainThread, HostRereads
      <3> QED BY <1>1, <3>1 DEF ReportInv, NoEditLost, OnMainThread
    <2>2. CASE ~rescan
      <3>1. NoEditLost'
          BY <1>1, <2>2 DEF ReportInv, NoEditLost, OnMainThread, Adopting
      <3> QED BY <1>1, <3>1 DEF ReportInv, OnMainThread
    <2> QED BY <2>1, <2>2
  <1>2. CASE WokenOtherwise
      BY <1>2 DEF ReportInv, NoEditLost, WokenOtherwise, Adopting
  <1>3. CASE Switch
      BY <1>3 DEF ReportInv, NoEditLost, Switch, Adopting
  <1> QED BY <1>1, <1>2, <1>3

\* An emission begins with nothing taken and nothing to put back.
LEMMA BeginReports ==
  ASSUME BeginEmission
  PROVE  em'.pc = "close" /\ em'.todo = {} /\ em'.undelivered = {}
  BY DEF BeginEmission, NoEmission

\* The three pushes.
LEMMA PushReports ==
  ASSUME Inv, ReportInv,
         NEW begun \in BOOLEAN, NEW said \in BOOLEAN, NEW ended \in BOOLEAN,
         Push(begun, said, ended)
  PROVE  ReportInv'
  <1> DEFINE p == em.now
  <1>1. p \in Params /\ em \in Emissions
      BY DEF Inv, TypeOK, Emissions, Push
  <1>2. /\ em'.pc = "emit" /\ em'.todo = em.todo \ {p}
        /\ em'.undelivered = IF Missed(begun, said) THEN em.undelivered \cup {p}
                             ELSE em.undelivered
    <2>1. em' = [em EXCEPT !.pc = "emit", !.todo = em.todo \ {p},
                   !.crossed = {},
                   !.still = IF EndOwed(begun, said, ended) THEN em.still \cup {p} ELSE em.still,
                   !.undelivered = IF Missed(begun, said) THEN em.undelivered \cup {p}
                                   ELSE em.undelivered]
        BY DEF Push
    <2> QED BY <1>1, <2>1 DEF Emissions
  <1>3. UNCHANGED <<mirror, pending, gui, rescan, load>>
      BY DEF Push
  <1>4. CASE begun /\ said
    <2>1. heard' = [heard EXCEPT ![p] = em.value]
        BY <1>4 DEF Push
    <2>2. crossed' = (crossed \ {p}) \cup em.crossed
        BY <1>4 DEF Push
    <2>3. em'.undelivered = em.undelivered
        BY <1>2, <1>4 DEF Missed
    <2>4. heard'[p] # mirror[p] => p \in pending \cup crossed' \/ gui = p
        BY <1>1, <2>1, <2>2 DEF Inv, TypeOK, ReportInv, Push
    <2>5. \A q \in Params : q # p => heard'[q] = heard[q] /\ (q \in crossed => q \in crossed')
        BY <1>1, <2>1, <2>2 DEF Inv, TypeOK
    <2>6. NoEditLost'
        BY <1>2, <1>3, <2>3, <2>4, <2>5 DEF ReportInv, NoEditLost, Adopting
    <2> QED BY <1>2, <2>6 DEF ReportInv
  <1>5. CASE ~(begun /\ said)
    <2>1. heard' = heard /\ crossed' = crossed
        BY <1>5 DEF Push
    <2>2. em'.undelivered = em.undelivered \cup {p}
        BY <1>2, <1>5 DEF Missed
    <2>3. NoEditLost'
        BY <1>2, <1>3, <2>1, <2>2 DEF ReportInv, NoEditLost, Adopting
    <2> QED BY <1>2, <2>3 DEF ReportInv
  <1> QED BY <1>4, <1>5

\* The steps of an emission.
LEMMA EmissionReports == ASSUME Inv, ReportInv, Emission PROVE ReportInv'
  <1>1. CASE \E p \in Params, v \in Values : HostMoves(p, v)
    <2> PICK p \in Params, v \in Values : HostMoves(p, v)
        BY <1>1
    <2>1. /\ em'.pc = "close" /\ em'.todo = {} /\ em'.undelivered = {}
          /\ em.todo = {} /\ em.undelivered = {}
        BY BeginReports DEF HostMoves, BeginEmission, ReportInv
    <2>2. heard'[p] = mirror'[p]
        BY DEF Inv, TypeOK, HostMoves
    <2>3. CASE rescan /\ ~active
      <3>1. heard' = [mirror EXCEPT ![p] = v] /\ mirror' = [mirror EXCEPT ![p] = v]
          BY <2>3 DEF HostMoves
      <3> QED BY <2>1, <3>1 DEF ReportInv, NoEditLost
    <2>4. CASE ~(rescan /\ ~active)
      <3>1. /\ heard' = [heard EXCEPT ![p] = v] /\ mirror' = [mirror EXCEPT ![p] = v]
            /\ crossed' = crossed \ {p}
          BY <2>4 DEF HostMoves
      <3>2. \A q \in Params : q # p => heard'[q] = heard[q] /\ mirror'[q] = mirror[q]
          BY <3>1 DEF Inv, TypeOK
      <3>3. rescan => rescan'
          BY <2>4 DEF HostMoves, Serviced
      <3>4. pending' = pending /\ gui' = gui /\ load' = load
          BY DEF HostMoves
      <3>5. NoEditLost'
          BY <2>1, <2>2, <3>1, <3>2, <3>3, <3>4 DEF ReportInv, NoEditLost, Adopting
      <3> QED BY <2>1, <3>5 DEF ReportInv
    <2> QED BY <2>3, <2>4
  <1>2. CASE Quiet
    <2>1. /\ em'.pc = "close" /\ em'.todo = {} /\ em'.undelivered = {}
          /\ em.todo = {} /\ em.undelivered = {}
        BY <1>2, BeginReports DEF Quiet, BeginEmission, ReportInv
    <2>2. CASE rescan /\ ~active
      <3>1. heard' = mirror'
          BY <1>2, <2>2 DEF Quiet, HostRereads
      <3> QED BY <2>1, <3>1 DEF ReportInv, NoEditLost
    <2>3. CASE ~(rescan /\ ~active)
      <3>1. UNCHANGED <<heard, mirror, crossed, pending, gui, load>>
          BY <1>2, <2>3 DEF Quiet
      <3>2. rescan => rescan'
          BY <1>2, <2>3 DEF Quiet, Serviced
      <3>3. NoEditLost'
          BY <2>1, <3>1, <3>2 DEF ReportInv, NoEditLost, Adopting
      <3> QED BY <2>1, <3>3 DEF ReportInv
    <2> QED BY <2>2, <2>3
  <1>3. CASE \E refused \in SUBSET open : Close(refused)
    <2> PICK refused \in SUBSET open : Close(refused)
        BY <1>3
    <2>1. em'.pc = "emit" /\ em'.todo = pending /\ em'.undelivered = em.undelivered
        BY DEF Inv, TypeOK, Emissions, Close
    <2>2. em.todo = {}
        BY DEF ReportInv, Close
    <2>3. UNCHANGED <<heard, mirror, crossed, gui, load, rescan>>
        BY DEF Close
    <2>4. NoEditLost'
        BY <2>1, <2>2, <2>3 DEF ReportInv, NoEditLost, Adopting
    <2> QED BY <2>1, <2>4 DEF ReportInv
  <1>4. CASE PutOff
    <2>1. em'.pc = "emit" /\ em'.todo = {} /\ em'.undelivered = em.undelivered \cup em.todo
        BY <1>4 DEF Inv, TypeOK, Emissions, PutOff
    <2>2. NoEditLost'
        BY <1>4, <2>1 DEF ReportInv, NoEditLost, PutOff, Adopting
    <2> QED BY <2>1, <2>2 DEF ReportInv
  <1>5. CASE ReadValue
    <2> PICK p \in em.todo : em' = [em EXCEPT !.pc = "push", !.now = p, !.value = mirror[p]]
        BY <1>5 DEF ReadValue
    <2>1. /\ em'.pc = "push" /\ em'.now = p /\ em'.value = mirror[p]
          /\ em'.todo = em.todo /\ em'.undelivered = em.undelivered
        BY DEF Inv, TypeOK, Emissions
    <2>2. NoEditLost'
        BY <1>5, <2>1 DEF ReportInv, NoEditLost, ReadValue, Adopting
    <2>3. mirror' = mirror
        BY <1>5 DEF ReadValue
    <2> QED BY <2>1, <2>2, <2>3 DEF ReportInv
  <1>6. CASE \E begun, said, ended \in BOOLEAN : Push(begun, said, ended)
      BY <1>6, PushReports
  <1>7. CASE Settle
    <2>1. em.todo = {} /\ em'.pc = "idle" /\ em'.todo = {} /\ em'.undelivered = {}
        BY <1>7 DEF Settle, NoEmission
    <2>2. pending' = pending \cup em.undelivered
        BY <1>7 DEF Settle
    <2>3. NoEditLost'
        BY <1>7, <2>1, <2>2 DEF ReportInv, NoEditLost, Settle, Adopting
    <2> QED BY <2>1, <2>3 DEF ReportInv
  <1> QED BY <1>1, <1>2, <1>3, <1>4, <1>5, <1>6, <1>7 DEF Emission

\* A value the host does not hold is one it will be told of, for any number
\* of parameters, any loads and any pattern of refusals.
THEOREM NoEditEverLost == Spec => []NoEditLost
  <1>1. Inv /\ ReportInv /\ UNCHANGED vars => ReportInv'
      BY DEF ReportInv, NoEditLost, Adopting, vars
  <1>2. Inv /\ ReportInv /\ [Next]_vars => ReportInv'
      BY <1>1, EditorReports, AdoptionReports, OtherReports, EmissionReports DEF Next
  <1>3. ReportInv => NoEditLost
      BY DEF ReportInv
  <1> QED BY InitReport, GesturesInvariant, <1>2, <1>3, PTL DEF Spec
=============================================================================
