--------------------------- MODULE HandoverProofs ---------------------------
(***************************************************************************)
(* Proofs about Handover, for every number of slots, every ring capacity   *)
(* of at least Headroom, every fade length and every batch size.           *)
(***************************************************************************)
EXTENDS Handover, FiniteSetTheorems, TLAPS

USE DEF Headroom

-----------------------------------------------------------------------------
(* Type correctness.                                                       *)

\* What a command's fields are, once its operation is known.
LEMMA CommandFields ==
  ASSUME NEW c \in Command
  PROVE  /\ IsHandover(c) => c.kind \in Kinds
         /\ c.op = "load" => c \in LoadCommand /\ c.kind \in Kinds /\ c.res \in Res
         /\ ~IsHandover(c) => c \in ParamCommand
         /\ c \in ParamCommand => /\ c.op \in {"bypass", "enable"}
                                  /\ c.on \in BOOLEAN
                                  /\ c.op = "enable" => c.kind \in Kinds
  BY DEF Command, LoadCommand, UnloadCommand, ParamCommand, IsHandover

LEMMA ChainShape ==
  /\ Len(ChainOrder) = 2 /\ Kinds = {"nam", "ir"}
  /\ ChainOrder[1] = "nam" /\ ChainOrder[2] = "ir"
  BY DEF ChainOrder, Kinds

\* Taking the head of the command ring.
LEMMA TakeTypes ==
  ASSUME ConstantsAssumption, RingsOK, EngineOK, Take
  PROVE  /\ Head(commands) \in Command
         /\ commands' \in Seq(Command) /\ Len(commands') <= CommandCap
         /\ budget' \in 0..MaxPerBlock
  BY DEF RingsOK, EngineOK, Take, ConstantsAssumption

\* Displacing into a stage keeps the stages' types.
LEMMA DisplaceTypes ==
  ASSUME StagesOK, ConstantsAssumption, NEW k \in Kinds, NEW s \in Slot, Displace(k, s)
  PROVE  StagesOK'
  BY DEF StagesOK, Displace, Engaged, ConstantsAssumption, Kinds

LEMMA ApplyParamTypes ==
  ASSUME StagesOK, FlagsOK, NEW c \in ParamCommand, ApplyParam(c)
  PROVE  StagesOK' /\ bypass' \in BOOLEAN /\ retired' = retired /\ fading' = fading
  BY DEF StagesOK, FlagsOK, ApplyParam, ParamCommand, Engaged, stages

LEMMA ProcessTypes ==
  ASSUME StagesOK, NEW left \in [Kinds -> 0..Fade], ProcessStages(left)
  PROVE  StagesOK'
<1>1. \A k \in Kinds : [slots[k] EXCEPT ![active[k]] = None] \in [0..1 -> Slot]
  BY DEF StagesOK, Slot
<1>2. \A k \in Kinds : slots[k][active[k]] \in Slot
  BY DEF StagesOK
<1>3. slots' \in [Kinds -> [0..1 -> Slot]] /\ retired' \in [Kinds -> Slot]
  BY <1>1, <1>2 DEF ProcessStages, StagesOK
<1>4. active' \in [Kinds -> 0..1] /\ remaining' \in [Kinds -> 0..Fade]
  BY DEF ProcessStages, StagesOK
<1>5. /\ fading' \in [Kinds -> BOOLEAN] /\ mixTarget' \in [Kinds -> BOOLEAN]
      /\ enabled' \in [Kinds -> BOOLEAN]
  BY DEF ProcessStages, StagesOK
<1> QED
  BY <1>3, <1>4, <1>5 DEF StagesOK

LEMMA TypeInit == ConstantsAssumption /\ Init => TypeOK
<1> SUFFICES ASSUME ConstantsAssumption, Init PROVE TypeOK
  OBVIOUS
<1>1. RingsOK
  BY DEF Init, RingsOK, ConstantsAssumption
<1>2. StagesOK
  BY DEF Init, StagesOK, ConstantsAssumption, Slot
<1>3. EngineOK
  BY DEF Init, EngineOK, ConstantsAssumption, Slot
<1>4. WorkerOK
  BY DEF Init, WorkerOK
<1>5. FlagsOK
  BY DEF Init, FlagsOK
<1> QED
  BY <1>1, <1>2, <1>3, <1>4, <1>5 DEF TypeOK

LEMMA FlagsStep ==
  ASSUME ConstantsAssumption, TypeOK, [Next]_vars
  PROVE  FlagsOK'
<1> USE DEF TypeOK, FlagsOK, rings, stages, chain, block, worker, audioSide
<1>1. CASE DrainParam
  <2>1. Head(commands) \in ParamCommand
    BY <1>1, TakeTypes, CommandFields DEF DrainParam
  <2> QED
    BY <1>1, <2>1, ApplyParamTypes DEF DrainParam, Take
<1>2. CASE ApplyParamDirect
  BY <1>2, ApplyParamTypes DEF ApplyParamDirect, ConstantsAssumption
<1>3. CASE DrainUnload \/ DrainLoad
  BY <1>3 DEF DrainUnload, DrainLoad, Take, TakeHandover
<1>4. CASE BeginBlock \/ DrainEmpty \/ DrainGated \/ DrainLimit
  BY <1>4 DEF BeginBlock, DrainEmpty, DrainGated, DrainLimit, EndDrain
<1>5. CASE Collect
  BY <1>5 DEF Collect
<1>6. CASE Collected
  BY <1>6 DEF Collected
<1>7. CASE RunStages
  BY <1>7 DEF RunStages
<1>8. CASE Begin \/ WorkerStep \/ TrySubmitParam
  BY <1>8 DEF Begin, WorkerStep, FreeRetired, Prepare, Submit, GiveUp, TrySubmitParam
<1>9. CASE UNCHANGED vars
  BY <1>9 DEF vars
<1> QED
  BY <1>1, <1>2, <1>3, <1>4, <1>5, <1>6, <1>7, <1>8, <1>9 DEF Next, AudioStep, Drain

LEMMA TypeStep ==
  ASSUME ConstantsAssumption, TypeOK, [Next]_vars
  PROVE  TypeOK'
<1>0. FlagsOK'
  BY FlagsStep
<1> USE <1>0 DEF TypeOK, rings, stages, chain, block, worker, audioSide
<1>1. CASE BeginBlock
  <2>1. RingsOK'
    BY <1>1 DEF BeginBlock, RetireSlots, ConstantsAssumption, RingsOK, EngineOK, Slot
  <2>2. StagesOK' /\ WorkerOK'
    BY <1>1 DEF BeginBlock, StagesOK, WorkerOK
  <2>3. EngineOK'
    BY <1>1 DEF BeginBlock, EngineOK, ConstantsAssumption, Slot
  <2> QED
    BY <2>1, <2>2, <2>3
<1>2. CASE DrainEmpty \/ DrainGated \/ DrainLimit
  BY <1>2 DEF DrainEmpty, DrainGated, DrainLimit, EndDrain, RingsOK, StagesOK,
              EngineOK, WorkerOK
<1>3. CASE DrainParam
  <2> USE <1>3 DEF DrainParam
  <2>1. Head(commands) \in ParamCommand
    BY TakeTypes, CommandFields
  <2>2. StagesOK'
    BY <2>1, ApplyParamTypes DEF EngineOK
  <2>3. RingsOK' /\ EngineOK' /\ WorkerOK'
    BY <2>2, TakeTypes DEF Take, RingsOK, EngineOK, WorkerOK
  <2> QED
    BY <2>2, <2>3
<1>4. CASE DrainUnload
  <2> USE <1>4 DEF DrainUnload
  <2>1. Head(commands) \in Command /\ Head(commands).kind \in Kinds
    BY TakeTypes, CommandFields DEF TakeHandover
  <2>2. StagesOK'
    BY <2>1, DisplaceTypes DEF StagesOK, Slot
  <2>3. RingsOK' /\ EngineOK' /\ WorkerOK'
    BY <2>1, TakeTypes DEF Take, TakeHandover, RingsOK, EngineOK, WorkerOK
  <2> QED
    BY <2>2, <2>3
<1>5. CASE DrainLoad
  <2> USE <1>5 DEF DrainLoad
  <2> DEFINE c == Head(commands)
  <2>1. c \in Command /\ c.kind \in Kinds /\ c.res \in Res
    BY TakeTypes, CommandFields DEF TakeHandover
  <2>2. StagesOK'
    <3>1. CASE ~c.fits
      BY <3>1, <2>1 DEF StagesOK, Slot
    <3>2. CASE c.fits /\ retired[c.kind] = None
      BY <3>2, <2>1, DisplaceTypes DEF Slot
    <3>3. CASE c.fits /\ retired[c.kind] # None
      BY <3>3 DEF HandBack, StagesOK
    <3> QED
      BY <3>1, <3>2, <3>3
  <2>3. retire' \in Seq(Res) /\ Len(retire') <= RetireCap /\ stalled' \in Slot
    <3>1. CASE UNCHANGED <<retire, stalled>>
      BY <3>1 DEF RingsOK, EngineOK
    <3>2. CASE HandBack(c.res)
      <4>1. CASE RetireSlots > 0
        BY <3>2, <4>1, <2>1 DEF HandBack, RetireSlots, RingsOK, EngineOK, ConstantsAssumption
      <4>2. CASE ~(RetireSlots > 0)
        BY <3>2, <4>2, <2>1 DEF HandBack, RingsOK, Slot
      <4> QED
        BY <4>1, <4>2
    <3> QED
      BY <3>1, <3>2
  <2>4. RingsOK' /\ EngineOK' /\ WorkerOK'
    BY <2>1, <2>3, TakeTypes DEF Take, TakeHandover, RingsOK, EngineOK, WorkerOK
  <2> QED
    BY <2>2, <2>4
<1>6. CASE Collect
  <2> USE <1>6 DEF Collect
  <2>1. asked' \in 0..2 /\ ChainOrder[asked + 1] \in Kinds
    BY ChainShape DEF EngineOK
  <2>2. RingsOK' /\ StagesOK'
    BY <2>1 DEF RingsOK, StagesOK, RetireSlots, Slot, ConstantsAssumption
  <2>3. EngineOK' /\ WorkerOK'
    BY <2>1 DEF EngineOK, WorkerOK
  <2> QED
    BY <2>2, <2>3
<1>7. CASE Collected
  BY <1>7 DEF Collected, RingsOK, StagesOK, EngineOK, WorkerOK
<1>8. CASE RunStages
  <2>1. StagesOK'
    BY <1>8, ProcessTypes DEF RunStages, StagesOK
  <2>2. RingsOK' /\ EngineOK' /\ WorkerOK'
    BY <1>8 DEF RunStages, RingsOK, EngineOK, WorkerOK
  <2> QED
    BY <2>1, <2>2
<1>9. CASE ApplyParamDirect
  <2>1. StagesOK'
    BY <1>9, ApplyParamTypes DEF ApplyParamDirect, ConstantsAssumption, EngineOK
  <2>2. RingsOK' /\ EngineOK' /\ WorkerOK'
    BY <1>9, <2>1 DEF ApplyParamDirect, RingsOK, EngineOK, WorkerOK
  <2> QED
    BY <2>1, <2>2
<1>10. CASE Begin \/ WorkerStep \/ TrySubmitParam
  <2> USE <1>10 DEF Begin, WorkerStep, FreeRetired, Prepare, Submit, GiveUp, TrySubmitParam
  <2>1. StagesOK' /\ EngineOK'
    BY DEF StagesOK, EngineOK
  <2>2. RingsOK'
    <3>1. CASE Submit
      <4>1. hand \in Command
        BY <3>1 DEF WorkerOK, Command
      <4> QED
        BY <3>1, <4>1 DEF RingsOK, ConstantsAssumption
    <3>2. CASE TrySubmitParam
      BY <3>2 DEF RingsOK, Command, ConstantsAssumption
    <3>3. CASE FreeRetired
      BY <3>3 DEF RingsOK, ConstantsAssumption
    <3>4. CASE Begin \/ Prepare \/ GiveUp
      BY <3>4 DEF RingsOK
    <3> QED
      BY <3>1, <3>2, <3>3, <3>4
  <2>3. WorkerOK'
    BY DEF WorkerOK, LoadCommand, UnloadCommand, Command, ConstantsAssumption
  <2> QED
    BY <2>1, <2>2, <2>3
<1>11. CASE UNCHANGED vars
  BY <1>11 DEF vars, RingsOK, StagesOK, EngineOK, WorkerOK
<1> QED
  BY <1>0, <1>1, <1>2, <1>3, <1>4, <1>5, <1>6, <1>7, <1>8, <1>9, <1>10, <1>11
     DEF Next, AudioStep, Drain

\* Every reachable state is well typed (Handover!TypeOK), whatever the capacities.
THEOREM TypeCorrect == Spec => []TypeOK
<1>1. Init => TypeOK
  BY TypeInit, ConstantsAssumption
<1>2. TypeOK /\ [Next]_vars => TypeOK'
  BY TypeStep, ConstantsAssumption
<1> QED
  BY <1>1, <1>2, PTL DEF Spec

-----------------------------------------------------------------------------
(* The drain gate.                                                         *)

LEMMA GateInit == ConstantsAssumption /\ Init => GateInv
  BY DEF Init, GateInv, Kinds, ChainOrder

\* An open gate means an empty pen, when the invariant holds.
LEMMA OpenGateMeansEmptyPen ==
  ASSUME GateInv, pc = "drain", NEW c, c.kind \in Kinds, GateOpen(c)
  PROVE  retired[c.kind] = None
  BY DEF GateInv, GateOpen

\* What taking a load or an unload does to the drain's own bookkeeping.
TakesOffer(c) ==
  /\ pc = "drain" /\ GateOpen(c)
  /\ offered' = offered \union {c.kind} /\ reserved' = reserved + Headroom
  /\ UNCHANGED <<backlog, pc, asked, rejected>>

\* A handover that passed the gate may fill the pen of its own stage.
LEMMA OfferKeepsGate ==
  ASSUME ConstantsAssumption, TypeOK, GateInv,
         NEW c, c.kind \in Kinds, TakesOffer(c), UNCHANGED <<retire, stalled>>,
         \A k \in Kinds : k # c.kind => retired'[k] = retired[k] /\ fading'[k] = fading[k]
  PROVE  GateInv'
<1>1. ~backlog' /\ c.kind \notin offered /\ pc' = "drain"
  BY DEF TakesOffer, GateOpen
<1>2. reserved' = Headroom * (OneIf("nam" \in offered') + OneIf("ir" \in offered'))
  BY <1>1 DEF TakesOffer, GateInv, OneIf, Kinds
<1>3. RetireSlots' >= reserved'
  BY DEF TakesOffer, GateOpen, RetireSlots
<1>4. \A k \in Kinds : retired'[k] # None => k \in offered'
  BY <1>1 DEF TakesOffer, GateInv
<1>5. stalled' = None /\ asked' = 0 /\ ~rejected'
  BY DEF TakesOffer, GateInv
<1> QED
  BY <1>1, <1>2, <1>3, <1>4, <1>5 DEF GateInv

LEMMA GateStep ==
  ASSUME ConstantsAssumption, TypeOK, GateInv, [Next]_vars
  PROVE  GateInv'
<1> USE DEF rings, stages, chain, block, worker, audioSide
<1>0. RetireSlots >= 0 /\ RetireSlots \in Int
  BY DEF RetireSlots, TypeOK, RingsOK, ConstantsAssumption
<1>1. CASE BeginBlock
  <2>1. /\ stalled = None /\ stalled' = None /\ retire' = retire /\ pc' = "drain"
        /\ pc = "idle" /\ offered' = {} /\ reserved' = 0 /\ asked' = 0 /\ rejected' = FALSE
        /\ UNCHANGED <<retired, fading, backlog>>
    BY <1>1 DEF BeginBlock, GateInv
  <2> QED
    BY <2>1 DEF GateInv, OneIf
<1>2. CASE DrainEmpty \/ DrainGated \/ DrainLimit
  BY <1>2, <1>0, ChainShape DEF DrainEmpty, DrainGated, DrainLimit, EndDrain, GateInv,
     RetireSlots, OneIf, Waiting
<1>3. CASE DrainParam
  <2>1. Head(commands) \in ParamCommand
    BY <1>3, TakeTypes, CommandFields DEF DrainParam, TypeOK
  <2>2. UNCHANGED <<retired, fading>>
    BY <1>3, <2>1, ApplyParamTypes DEF DrainParam, TypeOK
  <2> QED
    BY <1>3, <2>2 DEF DrainParam, Take, GateInv, RetireSlots, OneIf, Waiting
<1>4. CASE DrainUnload
  <2> DEFINE c == Head(commands)
  <2>1. c.kind \in Kinds
    BY <1>4, TakeTypes, CommandFields DEF DrainUnload, TakeHandover, TypeOK
  <2>2. retired[c.kind] = None
    BY <1>4, <2>1, OpenGateMeansEmptyPen DEF DrainUnload, Take, TakeHandover
  <2>3. \A k \in Kinds : k # c.kind => retired'[k] = retired[k] /\ fading'[k] = fading[k]
    BY <1>4, <2>2 DEF DrainUnload, Displace, TypeOK, StagesOK
  <2>4. TakesOffer(c) /\ UNCHANGED <<retire, stalled>>
    BY <1>4 DEF DrainUnload, Take, TakeHandover, TakesOffer
  <2> QED
    BY <2>1, <2>3, <2>4, OfferKeepsGate
<1>5. CASE DrainLoad
  <2> DEFINE c == Head(commands)
  <2>1. c.kind \in Kinds
    BY <1>5, TakeTypes, CommandFields DEF DrainLoad, TakeHandover, TypeOK
  <2>2. retired[c.kind] = None
    BY <1>5, <2>1, OpenGateMeansEmptyPen DEF DrainLoad, Take, TakeHandover
  <2>3. UNCHANGED <<retire, stalled>>
    BY <1>5, <2>2 DEF DrainLoad
  <2>4. \A k \in Kinds : k # c.kind => retired'[k] = retired[k] /\ fading'[k] = fading[k]
    BY <1>5, <2>2 DEF DrainLoad, Displace, TypeOK, StagesOK
  <2>5. TakesOffer(c)
    BY <1>5 DEF DrainLoad, Take, TakeHandover, TakesOffer
  <2> QED
    BY <2>1, <2>3, <2>4, <2>5, OfferKeepsGate
<1>6. CASE Collect
  <2> DEFINE k  == ChainOrder[asked + 1]
             out == retired[k] # None /\ RetireSlots > 0
  <2>1. /\ asked \in 0..1 /\ asked' = asked + 1 /\ k \in Kinds
        /\ k = IF asked = 0 THEN "nam" ELSE "ir"
    BY <1>6, ChainShape DEF Collect, TypeOK, EngineOK
  <2>2. /\ retired'[k] # None => rejected'
        /\ rejected => rejected'
        /\ \A q \in Kinds : retired'[q] = (IF q = k /\ out THEN None ELSE retired[q])
    BY <1>6, <2>1 DEF Collect, TypeOK, StagesOK
  <2>3. RetireSlots' = RetireSlots - OneIf(out)
    BY <1>6, <2>1 DEF Collect, RetireSlots, OneIf, TypeOK, RingsOK, StagesOK, Slot,
       ConstantsAssumption
  <2>4. UNCHANGED <<stalled, fading, pc, backlog, offered>>
    BY <1>6 DEF Collect
  <2>5. pc' \in {"collectBefore", "collectAfter"} =>
          \A i \in 1..asked' : retired'[ChainOrder[i]] # None => rejected'
    BY <2>1, <2>2, <2>4, ChainShape DEF GateInv
  <2>6. pc' = "collectBefore" /\ ~backlog' => RetireSlots' >= Waiting' /\ ~rejected'
    <3> SUFFICES ASSUME pc' = "collectBefore", ~backlog'
                 PROVE  RetireSlots' >= Waiting' /\ ~rejected'
      OBVIOUS
    <3>1. RetireSlots >= Waiting /\ ~rejected
      BY <2>4 DEF GateInv
    <3>2. retired[k] # None => Waiting >= 1
      BY <2>1, ChainShape DEF Waiting, OneIf
    <3>3. retired[k] # None => out
      BY <1>0, <3>1, <3>2 DEF Waiting, OneIf
    <3>4. ~rejected'
      BY <1>6, <3>1, <3>3 DEF Collect
    <3>5. CASE asked = 0
      <4>1. k = "nam" /\ asked' = 1
        BY <2>1, <3>5
      <4>2. retired'["ir"] = retired["ir"]
        BY <2>2, <3>3, <4>1, ChainShape
      <4>3. Waiting' = OneIf(retired["ir"] # None)
        BY <4>1, <4>2 DEF Waiting, OneIf
      <4>4. Waiting = OneIf(out) + OneIf(retired["ir"] # None)
        BY <3>3, <3>5, <4>1 DEF Waiting, OneIf
      <4> QED
        BY <1>0, <2>3, <3>1, <3>4, <4>3, <4>4 DEF OneIf
    <3>6. CASE asked = 1
      <4>1. k = "ir" /\ asked' = 2
        BY <2>1, <3>6
      <4>2. retired'["ir"] = None
        BY <2>2, <3>3, <4>1, ChainShape
      <4>3. Waiting' = 0
        BY <4>1, <4>2 DEF Waiting, OneIf
      <4>4. Waiting = OneIf(out)
        BY <3>3, <3>6, <4>1 DEF Waiting, OneIf
      <4> QED
        BY <1>0, <2>3, <3>1, <3>4, <4>3, <4>4 DEF OneIf
    <3> QED
      BY <2>1, <3>4, <3>5, <3>6
  <2> QED
    BY <1>6, <2>2, <2>4, <2>5, <2>6 DEF Collect, GateInv
<1>7. CASE Collected
  BY <1>7, ChainShape DEF Collected, GateInv, RetireSlots, OneIf, Waiting
<1>8. CASE RunStages
  <2>1. CASE Frozen
    BY <1>8, <2>1 DEF RunStages, GateInv
  <2>2. CASE ~Frozen
    <3>1. PICK left \in [Kinds -> 0..Fade] : ProcessStages(left)
      BY <1>8, <2>2 DEF RunStages
    <3>2. \A k \in Kinds : fading'[k] => fading[k] /\ ~Ends(k, left)
      BY <3>1 DEF ProcessStages
    <3>3. \A k \in Kinds : fading[k] => retired[k] = None
      BY <1>8 DEF RunStages, GateInv
    <3>4. \A k \in Kinds : fading'[k] => retired'[k] = None
      BY <3>1, <3>2, <3>3 DEF ProcessStages
    <3>5. /\ pc' = "collectAfter" /\ asked' = 0 /\ stalled' = None
      BY <1>8 DEF RunStages, GateInv
    <3> QED
      BY <3>4, <3>5 DEF GateInv
  <2> QED
    BY <2>1, <2>2
<1>9. CASE ApplyParamDirect
  <2>1. UNCHANGED <<retired, fading>>
    BY <1>9, ApplyParamTypes DEF ApplyParamDirect, ConstantsAssumption, TypeOK
  <2> QED
    BY <1>9, <2>1 DEF ApplyParamDirect, GateInv, RetireSlots, OneIf, Waiting
<1>10. CASE FreeRetired
  <2>1. Len(retire') = Len(retire) - 1
    BY <1>10 DEF FreeRetired, TypeOK, RingsOK
  <2>2. RetireSlots' = RetireSlots + 1
    BY <2>1 DEF RetireSlots, ConstantsAssumption, TypeOK, RingsOK
  <2> QED
    BY <1>10, <1>0, <2>2 DEF FreeRetired, GateInv, OneIf, Waiting
<1>11. CASE Begin \/ Prepare \/ Submit \/ GiveUp \/ TrySubmitParam
  BY <1>11 DEF Begin, Prepare, Submit, GiveUp, TrySubmitParam, GateInv, RetireSlots, OneIf, Waiting
<1>12. CASE UNCHANGED vars
  BY <1>12 DEF vars, GateInv, RetireSlots, OneIf, Waiting
<1> QED
  BY <1>1, <1>2, <1>3, <1>4, <1>5, <1>6, <1>7, <1>8, <1>9, <1>10, <1>11, <1>12
     DEF Next, AudioStep, Drain, WorkerStep

\* The inductive invariant of the handover protocol.
IInv == TypeOK /\ GateInv

\* It holds in every reachable state; the theorems below read it off.
LEMMA GateInductive == Spec => []IInv
<1>1. Init => IInv
  BY TypeInit, GateInit, ConstantsAssumption DEF IInv
<1>2. IInv /\ [Next]_vars => IInv'
  BY TypeStep, GateStep, ConstantsAssumption DEF IInv
<1> QED
  BY <1>1, <1>2, PTL DEF Spec

\* Every state of the engine is typed and its gate is consistent: what waits
\* behind the gate, the reserve it needs in the retire ring and the pens it
\* found empty all agree, for any ring capacities.
THEOREM GateInvariant == Spec => [](TypeOK /\ GateInv)
<1>1. IInv => TypeOK /\ GateInv
  BY DEF IInv
<1> QED
  BY <1>1, GateInductive, PTL

\* No load or unload the gate lets through ever meets an occupied pen: the
\* debug_asserts of install, unload and accept_resource cannot fire, for any
\* ring capacities and any timing of the worker.
THEOREM PenProtected == Spec => []GateProtectsPen
<1>1. IInv => GateProtectsPen
  <2> SUFFICES ASSUME IInv, pc = "drain", budget > 0, commands # <<>>,
                      IsHandover(Head(commands)), GateOpen(Head(commands))
               PROVE  retired[Head(commands).kind] = None
    BY DEF GateProtectsPen
  <2>1. Head(commands).kind \in Kinds
    BY CommandFields DEF IInv, TypeOK, RingsOK
  <2> QED
    BY <2>1, OpenGateMeansEmptyPen DEF IInv
<1> QED
  BY <1>1, GateInductive, PTL

\* The engine never holds an offer that no ring had room for.
THEOREM NoStall == Spec => []NeverStalled
<1>1. IInv => NeverStalled
  BY DEF IInv, GateInv, NeverStalled
<1> QED
  BY <1>1, GateInductive, PTL

\* A fade always ends with its pen free, so the deferred finalization of the
\* stages is never entered through the engine.
THEOREM FadesMeetFreePens == Spec => []FadeMeetsFreePen
<1>1. IInv => FadeMeetsFreePen
  BY DEF IInv, GateInv, FadeMeetsFreePen
<1> QED
  BY <1>1, GateInductive, PTL

-----------------------------------------------------------------------------
(* The blend.                                                              *)

BlendOf(k) == mixTarget[k] = (enabled[k] /\ Engaged(slots[k], active[k], fading[k]))

LEMMA DisplaceBlends ==
  ASSUME StagesOK, BlendFollowsSlots, NEW c \in Kinds, NEW s \in Slot, Displace(c, s)
  PROVE  BlendFollowsSlots'
<1> SUFFICES ASSUME NEW k \in Kinds PROVE BlendOf(k)'
  BY DEF BlendFollowsSlots, BlendOf
<1>1. CASE k = c
  BY <1>1 DEF Displace, StagesOK, BlendOf, Engaged
<1>2. CASE k # c
  <2>1. /\ mixTarget'[k] = mixTarget[k] /\ enabled'[k] = enabled[k]
        /\ slots'[k] = slots[k] /\ active'[k] = active[k] /\ fading'[k] = fading[k]
    BY <1>2 DEF Displace, StagesOK
  <2> QED
    BY <2>1 DEF BlendFollowsSlots, BlendOf, Engaged
<1> QED
  BY <1>1, <1>2

LEMMA ApplyParamBlends ==
  ASSUME StagesOK, BlendFollowsSlots, NEW c \in ParamCommand, ApplyParam(c)
  PROVE  BlendFollowsSlots'
<1>1. CASE UNCHANGED stages
  BY <1>1 DEF stages, BlendFollowsSlots, Engaged
<1>2. CASE c.op = "enable"
  <2>1. c.kind \in Kinds /\ c.on \in BOOLEAN
    BY <1>2 DEF ParamCommand
  <2>2. /\ enabled' = [enabled EXCEPT ![c.kind] = c.on]
        /\ mixTarget' = [mixTarget EXCEPT
              ![c.kind] = c.on /\ Engaged(slots[c.kind], active[c.kind], fading[c.kind])]
        /\ UNCHANGED <<slots, active, fading>>
    BY <1>2 DEF ApplyParam
  <2> SUFFICES ASSUME NEW k \in Kinds PROVE BlendOf(k)'
    BY DEF BlendFollowsSlots, BlendOf
  <2>3. CASE k = c.kind
    BY <2>1, <2>2, <2>3 DEF StagesOK, BlendOf, Engaged
  <2>4. CASE k # c.kind
    <3>1. mixTarget'[k] = mixTarget[k] /\ enabled'[k] = enabled[k]
      BY <2>2, <2>4 DEF StagesOK
    <3> QED
      BY <2>2, <3>1 DEF BlendFollowsSlots, BlendOf, Engaged
  <2> QED
    BY <2>3, <2>4
<1> QED
  BY <1>1, <1>2 DEF ApplyParam

LEMMA ProcessBlends ==
  ASSUME StagesOK, BlendFollowsSlots, NEW left \in [Kinds -> 0..Fade], ProcessStages(left)
  PROVE  BlendFollowsSlots'
<1> SUFFICES ASSUME NEW k \in Kinds PROVE BlendOf(k)'
  BY DEF BlendFollowsSlots, BlendOf
<1>1. CASE Ends(k, left)
  <2>1. /\ slots'[k] = [slots[k] EXCEPT ![active[k]] = None]
        /\ active'[k] = 1 - active[k] /\ ~fading'[k] /\ enabled'[k] = enabled[k]
        /\ mixTarget'[k] = (enabled[k] /\ slots[k][1 - active[k]] # None)
    BY <1>1 DEF ProcessStages
  <2>2. slots'[k][active'[k]] = slots[k][1 - active[k]]
    BY <2>1 DEF StagesOK
  <2> QED
    BY <2>1, <2>2 DEF BlendOf, Engaged
<1>2. CASE ~Ends(k, left)
  <2>1. /\ slots'[k] = slots[k] /\ active'[k] = active[k] /\ fading'[k] = fading[k]
        /\ enabled'[k] = enabled[k] /\ mixTarget'[k] = mixTarget[k]
    BY <1>2 DEF ProcessStages, StagesOK
  <2> QED
    BY <2>1 DEF BlendFollowsSlots, BlendOf, Engaged
<1> QED
  BY <1>1, <1>2

LEMMA BlendStep ==
  ASSUME ConstantsAssumption, TypeOK, BlendFollowsSlots, [Next]_vars
  PROVE  BlendFollowsSlots'
<1> USE DEF rings, stages, chain, block, worker, audioSide
<1> DEFINE c == Head(commands)
<1>1. ASSUME UNCHANGED <<slots, active, fading, enabled, mixTarget>>
      PROVE  BlendFollowsSlots'
  BY <1>1 DEF BlendFollowsSlots, Engaged
<1>2. CASE DrainParam
  BY <1>2, TakeTypes, CommandFields, ApplyParamBlends DEF DrainParam, TypeOK
<1>3. CASE DrainUnload
  <2>1. c.kind \in Kinds
    BY <1>3, TakeTypes, CommandFields DEF DrainUnload, TakeHandover, TypeOK
  <2>2. CASE retired[c.kind] = None
    BY <1>3, <2>1, <2>2, DisplaceBlends DEF DrainUnload, TypeOK, Slot
  <2>3. CASE retired[c.kind] # None
    BY <1>1, <1>3, <2>3 DEF DrainUnload
  <2> QED
    BY <2>2, <2>3
<1>4. CASE DrainLoad
  <2>1. c.kind \in Kinds /\ c.res \in Slot
    BY <1>4, TakeTypes, CommandFields DEF DrainLoad, TakeHandover, TypeOK, Slot
  <2>2. CASE Displace(c.kind, c.res)
    BY <2>1, <2>2, DisplaceBlends DEF TypeOK
  <2>3. CASE UNCHANGED <<slots, active, fading, enabled, mixTarget>>
    BY <1>1, <2>3
  <2> QED
    BY <1>4, <2>2, <2>3 DEF DrainLoad, HandBack
<1>5. CASE RunStages
  BY <1>1, <1>5, ProcessBlends DEF RunStages, TypeOK
<1>6. CASE ApplyParamDirect
  BY <1>6, ApplyParamBlends DEF ApplyParamDirect, ConstantsAssumption, TypeOK
<1>7. CASE \/ BeginBlock \/ DrainEmpty \/ DrainGated \/ DrainLimit \/ Collect \/ Collected
           \/ Begin \/ WorkerStep \/ TrySubmitParam \/ UNCHANGED vars
  BY <1>1, <1>7
     DEF BeginBlock, DrainEmpty, DrainGated, DrainLimit, EndDrain, Collect, Collected, Begin,
         WorkerStep, FreeRetired, Prepare, Submit, GiveUp, TrySubmitParam, vars
<1> QED
  BY <1>2, <1>3, <1>4, <1>5, <1>6, <1>7 DEF Next, AudioStep, Drain

\* recompute_mix_target is called wherever its inputs change (issue #141): through
\* loads, unloads, displaced fades, the on/off switches and the bypass, a stage that
\* has or is fading into a slot is heard, and one that has none passes its input.
THEOREM BlendAlwaysFollows == Spec => []BlendFollowsSlots
<1>1. Init => BlendFollowsSlots
  <2> SUFFICES ASSUME Init, NEW k \in Kinds
               PROVE  mixTarget[k] = (enabled[k] /\ Engaged(slots[k], active[k], fading[k]))
    BY DEF BlendFollowsSlots
  <2>1. ~mixTarget[k] /\ mixTarget[k] \in BOOLEAN
    BY DEF Init
  <2>2. slots[k][active[k]] = None /\ ~fading[k]
    BY DEF Init
  <2>3. ~Engaged(slots[k], active[k], fading[k])
    BY <2>2 DEF Engaged
  <2> QED
    BY <2>1, <2>3
<1>2. TypeOK /\ BlendFollowsSlots /\ [Next]_vars => BlendFollowsSlots'
  BY BlendStep, ConstantsAssumption
<1> QED
  BY <1>1, <1>2, TypeCorrect, PTL DEF Spec
-----------------------------------------------------------------------------
(* Custody.  A slot is held by the worker, queued, returned or in a cell:   *)
(* one of the two positions or the pen of a stage.                          *)

Cell(k, i) == IF i = 2 THEN retired[k] ELSE slots[k][i]
InCell(r)  == \E k \in Kinds, i \in 0..2 : Cell(k, i) = r

UniqueCommands ==
  \A i, j \in DOMAIN commands :
    /\ commands[i].op = "load" /\ commands[j].op = "load"
    /\ commands[i].res = commands[j].res
    => i = j
UniqueReturns == \A i, j \in DOMAIN retire : retire[i] = retire[j] => i = j
UniqueCells ==
  \A k, q \in Kinds, i, j \in 0..2 :
    Cell(k, i) = Cell(q, j) /\ Cell(k, i) # None => k = q /\ i = j
Unique == UniqueCommands /\ UniqueReturns /\ UniqueCells

Nowhere(r)  == ~Held(r) /\ ~Queued(r) /\ ~Returned(r) /\ ~InCell(r) /\ r \notin live
AtWorker(r) ==  Held(r) /\ ~Queued(r) /\ ~Returned(r) /\ ~InCell(r) /\ r \in live
AtQueue(r)  == ~Held(r) /\  Queued(r) /\ ~Returned(r) /\ ~InCell(r) /\ r \in live
AtReturn(r) == ~Held(r) /\ ~Queued(r) /\  Returned(r) /\ ~InCell(r) /\ r \in live
AtEngine(r) == ~Held(r) /\ ~Queued(r) /\ ~Returned(r) /\  InCell(r) /\ r \in live

\* What makes OnePlace inductive: no command, no return-ring entry and no cell
\* shares its slot with another, and the four holders exclude each other.
CustodyInv ==
  /\ Unique
  /\ \A r \in Res : Nowhere(r) \/ AtWorker(r) \/ AtQueue(r) \/ AtReturn(r) \/ AtEngine(r)

\* The two rings, as what is in them.
LEMMA QueueTakes ==
  ASSUME RingsOK, UniqueCommands, commands # <<>>, commands' = Tail(commands)
  PROVE  /\ UniqueCommands'
         /\ \A r : Queued(r)' <=> Queued(r) /\ ~(Head(commands).op = "load"
                                                 /\ Head(commands).res = r)
<1>1. /\ Len(commands) \in Nat \ {0} /\ DOMAIN commands = 1..Len(commands)
      /\ DOMAIN commands' = 1..(Len(commands) - 1) /\ Head(commands) = commands[1]
      /\ \A i \in DOMAIN commands' : commands'[i] = commands[i + 1]
  BY DEF RingsOK
<1>2. UniqueCommands'
  <2> SUFFICES ASSUME NEW i \in DOMAIN commands', NEW j \in DOMAIN commands',
                      commands'[i].op = "load", commands'[j].op = "load",
                      commands'[i].res = commands'[j].res
               PROVE  i = j
    BY DEF UniqueCommands
  <2>1. i + 1 \in DOMAIN commands /\ j + 1 \in DOMAIN commands
    BY <1>1
  <2>2. i + 1 = j + 1
    BY <1>1, <2>1 DEF UniqueCommands
  <2> QED
    BY <1>1, <2>2
<1>3. ASSUME NEW r
      PROVE  Queued(r)' <=> Queued(r) /\ ~(commands[1].op = "load" /\ commands[1].res = r)
  <2>1. ASSUME Queued(r)'
        PROVE  Queued(r) /\ ~(commands[1].op = "load" /\ commands[1].res = r)
    <3>1. PICK i \in DOMAIN commands' : commands'[i].op = "load" /\ commands'[i].res = r
      BY <2>1 DEF Queued
    <3>2. i + 1 \in DOMAIN commands /\ i + 1 # 1 /\ 1 \in DOMAIN commands
      BY <1>1
    <3>3. commands[i + 1].op = "load" /\ commands[i + 1].res = r
      BY <1>1, <3>1
    <3> QED
      BY <3>2, <3>3 DEF Queued, UniqueCommands
  <2>2. ASSUME Queued(r), ~(commands[1].op = "load" /\ commands[1].res = r)
        PROVE  Queued(r)'
    <3>1. PICK i \in DOMAIN commands : commands[i].op = "load" /\ commands[i].res = r
      BY <2>2 DEF Queued
    <3>2. i # 1
      BY <2>2, <3>1
    <3>3. i - 1 \in DOMAIN commands' /\ commands'[i - 1] = commands[i]
      BY <1>1, <3>2
    <3> QED
      BY <3>1, <3>3 DEF Queued
  <2> QED
    BY <2>1, <2>2
<1> QED
  BY <1>1, <1>2, <1>3

LEMMA QueueAppends ==
  ASSUME RingsOK, UniqueCommands, NEW c \in Command, commands' = Append(commands, c),
         c.op = "load" => ~Queued(c.res)
  PROVE  /\ UniqueCommands'
         /\ \A r : Queued(r)' <=> Queued(r) \/ (c.op = "load" /\ c.res = r)
<1>1. /\ Len(commands) \in Nat /\ DOMAIN commands = 1..Len(commands)
      /\ DOMAIN commands' = 1..(Len(commands) + 1)
      /\ commands'[Len(commands) + 1] = c
      /\ \A i \in DOMAIN commands : commands'[i] = commands[i]
  BY DEF RingsOK
<1>2. \A i \in DOMAIN commands' : i \in DOMAIN commands \/ i = Len(commands) + 1
  BY <1>1
<1>3. UniqueCommands'
  BY <1>1, <1>2 DEF UniqueCommands, Queued
<1>4. \A r : Queued(r)' <=> Queued(r) \/ (c.op = "load" /\ c.res = r)
  BY <1>1, <1>2 DEF Queued
<1> QED
  BY <1>3, <1>4

LEMMA ReturnTakes ==
  ASSUME RingsOK, UniqueReturns, retire # <<>>, retire' = Tail(retire)
  PROVE  /\ UniqueReturns'
         /\ \A r : Returned(r)' <=> Returned(r) /\ Head(retire) # r
<1>1. /\ Len(retire) \in Nat \ {0} /\ DOMAIN retire = 1..Len(retire)
      /\ DOMAIN retire' = 1..(Len(retire) - 1) /\ Head(retire) = retire[1]
      /\ \A i \in DOMAIN retire' : retire'[i] = retire[i + 1]
  BY DEF RingsOK
<1>2. UniqueReturns'
  <2> SUFFICES ASSUME NEW i \in DOMAIN retire', NEW j \in DOMAIN retire',
                      retire'[i] = retire'[j]
               PROVE  i = j
    BY DEF UniqueReturns
  <2>1. i + 1 \in DOMAIN retire /\ j + 1 \in DOMAIN retire
    BY <1>1
  <2>2. i + 1 = j + 1
    BY <1>1, <2>1 DEF UniqueReturns
  <2> QED
    BY <1>1, <2>2
<1>3. ASSUME NEW r PROVE Returned(r)' <=> Returned(r) /\ retire[1] # r
  <2>1. ASSUME Returned(r)' PROVE Returned(r) /\ retire[1] # r
    <3>1. PICK i \in DOMAIN retire' : retire'[i] = r
      BY <2>1 DEF Returned
    <3>2. i + 1 \in DOMAIN retire /\ i + 1 # 1 /\ 1 \in DOMAIN retire /\ retire[i + 1] = r
      BY <1>1, <3>1
    <3> QED
      BY <3>2 DEF Returned, UniqueReturns
  <2>2. ASSUME Returned(r), retire[1] # r PROVE Returned(r)'
    <3>1. PICK i \in DOMAIN retire : retire[i] = r
      BY <2>2 DEF Returned
    <3>2. i - 1 \in DOMAIN retire' /\ retire'[i - 1] = retire[i]
      BY <1>1, <2>2, <3>1
    <3> QED
      BY <3>1, <3>2 DEF Returned
  <2> QED
    BY <2>1, <2>2
<1> QED
  BY <1>1, <1>2, <1>3

LEMMA ReturnAppends ==
  ASSUME RingsOK, UniqueReturns, NEW s \in Res, retire' = Append(retire, s), ~Returned(s)
  PROVE  /\ UniqueReturns'
         /\ \A r : Returned(r)' <=> Returned(r) \/ r = s
<1>1. /\ Len(retire) \in Nat /\ DOMAIN retire = 1..Len(retire)
      /\ DOMAIN retire' = 1..(Len(retire) + 1)
      /\ retire'[Len(retire) + 1] = s
      /\ \A i \in DOMAIN retire : retire'[i] = retire[i]
  BY DEF RingsOK
<1>2. \A i \in DOMAIN retire' : i \in DOMAIN retire \/ i = Len(retire) + 1
  BY <1>1
<1>3. UniqueReturns'
  BY <1>1, <1>2 DEF UniqueReturns, Returned
<1>4. \A r : Returned(r)' <=> Returned(r) \/ r = s
  BY <1>1, <1>2 DEF Returned
<1> QED
  BY <1>3, <1>4

\* The cells.
LEMMA PenFills ==
  ASSUME StagesOK, UniqueCells, NEW k \in Kinds, NEW s \in Res, ~InCell(s),
         retired[k] = None, None \notin Res,
         retired' = [retired EXCEPT ![k] = s], slots' = slots
  PROVE  UniqueCells' /\ \A r \in Res : InCell(r)' <=> InCell(r) \/ r = s
<1>1. \A q \in Kinds, i \in 0..2 :
        Cell(q, i)' = IF q = k /\ i = 2 THEN s ELSE Cell(q, i)
  BY DEF Cell, StagesOK
<1>2. Cell(k, 2) = None /\ 2 \in 0..2
  BY DEF Cell
<1>3. UniqueCells'
  BY <1>1 DEF UniqueCells, InCell
<1>4. \A r \in Res : InCell(r)' <=> InCell(r) \/ r = s
  BY <1>1, <1>2 DEF InCell
<1> QED
  BY <1>3, <1>4

LEMMA PenEmpties ==
  ASSUME StagesOK, UniqueCells, NEW k \in Kinds, None \notin Res, retired[k] # None,
         retired' = [retired EXCEPT ![k] = None], slots' = slots
  PROVE  UniqueCells' /\ \A r \in Res : InCell(r)' <=> InCell(r) /\ r # retired[k]
<1>1. \A q \in Kinds, i \in 0..2 :
        Cell(q, i)' = IF q = k /\ i = 2 THEN None ELSE Cell(q, i)
  BY DEF Cell, StagesOK
<1>2. Cell(k, 2) = retired[k] /\ 2 \in 0..2
  BY DEF Cell
<1>3. UniqueCells'
  BY <1>1 DEF UniqueCells
<1>4. \A r \in Res : InCell(r)' <=> InCell(r) /\ r # retired[k]
  BY <1>1, <1>2 DEF InCell, UniqueCells
<1> QED
  BY <1>3, <1>4

LEMMA Displaces ==
  ASSUME StagesOK, UniqueCells, NEW k \in Kinds, NEW s \in Slot, ~InCell(s) \/ s = None,
         retired[k] = None, None \notin Res, Displace(k, s)
  PROVE  UniqueCells' /\ \A r \in Res : InCell(r)' <=> InCell(r) \/ r = s
<1> DEFINE idle == 1 - active[k]
           from(q, i) == IF q = k /\ i = 2 THEN idle ELSE i
<1>1. idle \in 0..1 /\ active[k] \in 0..1 /\ idle # active[k]
  BY DEF StagesOK
<1>2. \A q \in Kinds, i \in 0..2 :
        Cell(q, i)' = IF q = k /\ i = idle THEN s ELSE Cell(q, from(q, i))
  BY <1>1 DEF Cell, StagesOK, Displace
<1>3. \A q \in Kinds, i \in 0..2 : from(q, i) \in 0..2
  BY <1>1
<1>4. Cell(k, 2) = None
  BY DEF Cell
<1> HIDE DEF from
<1>5. ASSUME NEW p \in Kinds, NEW i \in 0..2, NEW q \in Kinds, NEW j \in 0..2,
             Cell(p, i)' = Cell(q, j)', Cell(p, i)' # None
      PROVE  p = q /\ i = j
  <2>1. CASE (p = k /\ i = idle) \/ (q = k /\ j = idle)
    BY <1>2, <1>3, <1>5, <2>1 DEF InCell
  <2>2. CASE ~(p = k /\ i = idle) /\ ~(q = k /\ j = idle)
    <3>1. p = q /\ from(p, i) = from(q, j)
      BY <1>2, <1>3, <1>5, <2>2 DEF UniqueCells
    <3> QED
      BY <2>2, <3>1 DEF from
  <2> QED
    BY <2>1, <2>2
<1>6. ASSUME NEW r \in Res PROVE InCell(r)' <=> InCell(r) \/ r = s
  <2>1. ASSUME InCell(r)' PROVE InCell(r) \/ r = s
    BY <1>2, <1>3, <2>1 DEF InCell
  <2>2. ASSUME r = s PROVE InCell(r)'
    BY <1>1, <1>2, <2>2 DEF InCell
  <2>3. ASSUME InCell(r) PROVE InCell(r)'
    <3>1. PICK q \in Kinds, i \in 0..2 : Cell(q, i) = r
      BY <2>3 DEF InCell
    <3>2. CASE q = k /\ i = idle
      BY <1>1, <1>2, <3>1, <3>2 DEF InCell, from
    <3>3. CASE ~(q = k /\ i = idle)
      <4>1. ~(q = k /\ i = 2)
        BY <1>4, <3>1
      <4> QED
        BY <1>2, <3>1, <3>3, <4>1 DEF InCell, from
    <3> QED
      BY <3>2, <3>3
  <2> QED
    BY <2>1, <2>2, <2>3
<1> QED
  BY <1>5, <1>6 DEF UniqueCells

LEMMA Processes ==
  ASSUME StagesOK, UniqueCells, None \notin Res,
         NEW left \in [Kinds -> 0..Fade], ProcessStages(left)
  PROVE  UniqueCells' /\ \A r \in Res : InCell(r)' <=> InCell(r)
<1> DEFINE from(q, i) == IF Ends(q, left) /\ i = 2 THEN active[q] ELSE i
           gone(q, i) == Ends(q, left) /\ i = active[q]
<1>1. \A q \in Kinds : active[q] \in 0..1 /\ (Ends(q, left) => Cell(q, 2) = None)
  BY DEF StagesOK, Ends, Cell
<1>2. \A q \in Kinds, i \in 0..2 :
        Cell(q, i)' = IF gone(q, i) THEN None ELSE Cell(q, from(q, i))
  BY <1>1 DEF Cell, StagesOK, ProcessStages
<1>3. \A q \in Kinds, i \in 0..2 : from(q, i) \in 0..2
  BY <1>1
<1>4. \A q \in Kinds, i, j \in 0..2 :
        ~gone(q, i) /\ ~gone(q, j) /\ from(q, i) = from(q, j) => i = j
  BY <1>1
<1>5. \A q \in Kinds, i \in 0..2 : Cell(q, i) # None =>
        \E j \in 0..2 : ~gone(q, j) /\ from(q, j) = i
  <2> TAKE q \in Kinds, i \in 0..2
  <2> HAVE Cell(q, i) # None
  <2>1. CASE gone(q, i)
    <3>1. ~gone(q, 2) /\ from(q, 2) = i
      BY <1>1, <2>1
    <3> QED
      BY <3>1
  <2>2. CASE ~gone(q, i)
    <3>1. from(q, i) = i
      BY <1>1
    <3> QED
      BY <2>2, <3>1
  <2> QED
    BY <2>1, <2>2
<1> HIDE DEF from, gone
<1>6. UniqueCells'
  BY <1>2, <1>3, <1>4 DEF UniqueCells
<1>7. \A r \in Res : InCell(r)' <=> InCell(r)
  BY <1>2, <1>3, <1>5 DEF InCell
<1> QED
  BY <1>6, <1>7

\* What is left alone stays as it was.
LEMMA CustodyFrame ==
  ASSUME Unique
  PROVE  /\ UNCHANGED commands => UniqueCommands' /\ \A r : Queued(r)' <=> Queued(r)
         /\ UNCHANGED retire => UniqueReturns' /\ \A r : Returned(r)' <=> Returned(r)
         /\ UNCHANGED <<slots, retired>> => UniqueCells' /\ \A r : InCell(r)' <=> InCell(r)
         /\ UNCHANGED hand => \A r : Held(r)' <=> Held(r)
  BY DEF Unique, UniqueCommands, UniqueReturns, UniqueCells, Queued, Returned, InCell, Cell,
         Held

\* A step moves at most one slot, and only along an arrow of Custody.
Kept(r) ==
  /\ Held(r)' <=> Held(r)
  /\ Queued(r)' <=> Queued(r)
  /\ Returned(r)' <=> Returned(r)
  /\ InCell(r)' <=> InCell(r)
  /\ r \in live' <=> r \in live
Moved(s) ==
  \/ Nowhere(s)  /\ AtWorker(s)'
  \/ AtWorker(s) /\ AtQueue(s)'
  \/ AtWorker(s) /\ Nowhere(s)'
  \/ AtQueue(s)  /\ AtEngine(s)'
  \/ AtEngine(s) /\ AtReturn(s)'
  \/ AtReturn(s) /\ Nowhere(s)'
Flows ==
  \/ \A r \in Res : Kept(r)
  \/ \E s \in Res : Moved(s) /\ \A r \in Res \ {s} : Kept(r)

\* A command of the ring, and what holding it says of the other holders.
LEMMA HeadIsQueued ==
  ASSUME RingsOK, CustodyInv, commands # <<>>, Head(commands).op = "load"
  PROVE  Head(commands).res \in Res /\ AtQueue(Head(commands).res)
<1>1. 1 \in DOMAIN commands /\ Head(commands) = commands[1] /\ Head(commands) \in Command
  BY DEF RingsOK
<1>2. Queued(Head(commands).res) /\ Head(commands).res \in Res
  BY <1>1, CommandFields DEF Queued
<1> QED
  BY <1>2 DEF CustodyInv, Nowhere, AtWorker, AtQueue, AtReturn, AtEngine

LEMMA TakeLoadFlows ==
  ASSUME IInv, CustodyInv, ConstantsAssumption, DrainLoad
  PROVE  Unique' /\ Flows
<1> DEFINE c == Head(commands)
<1> USE DEF IInv, TypeOK, worker, block, stages, chain, rings
<1>1. /\ c.kind \in Kinds /\ c.res \in Res /\ AtQueue(c.res) /\ c.op = "load"
      /\ commands # <<>> /\ commands' = Tail(commands)
  BY TakeTypes, CommandFields, HeadIsQueued DEF DrainLoad, Take, TakeHandover
<1>2. retired[c.kind] = None
  BY <1>1, OpenGateMeansEmptyPen DEF DrainLoad, Take, TakeHandover
<1>3. UNCHANGED <<retire, hand, live>>
  BY <1>2 DEF DrainLoad, Take
<1>4. None \notin Res /\ ~InCell(c.res)
  BY <1>1 DEF ConstantsAssumption, AtQueue
<1>5. UniqueCells' /\ \A r \in Res : InCell(r)' <=> InCell(r) \/ r = c.res
  <2>1. CASE c.fits
    BY <1>1, <1>2, <1>4, <2>1, Displaces DEF DrainLoad, CustodyInv, Unique, Slot
  <2>2. CASE ~c.fits
    BY <1>1, <1>2, <1>4, <2>2, PenFills DEF DrainLoad, CustodyInv, Unique
  <2> QED
    BY <2>1, <2>2
<1>6. UniqueCommands' /\ \A r : Queued(r)' <=> Queued(r) /\ r # c.res
  BY <1>1, QueueTakes DEF CustodyInv, Unique
<1>7. /\ UniqueReturns' /\ \A r : Returned(r)' <=> Returned(r)
      /\ \A r : Held(r)' <=> Held(r)
  BY <1>3, CustodyFrame DEF CustodyInv
<1>8. PICK s \in Res : s = c.res
  BY <1>1
<1>9. \A r \in Res \ {s} : Kept(r)
  BY <1>3, <1>5, <1>6, <1>7, <1>8 DEF Kept
<1>10. Moved(s)
  BY <1>1, <1>3, <1>5, <1>6, <1>7, <1>8 DEF Moved, AtQueue, AtEngine
<1> QED
  BY <1>5, <1>6, <1>7, <1>9, <1>10 DEF Unique, Flows

LEMMA TakeOtherFlows ==
  ASSUME IInv, CustodyInv, ConstantsAssumption, DrainParam \/ DrainUnload
  PROVE  Unique' /\ Flows
<1> DEFINE c == Head(commands)
<1> USE DEF IInv, TypeOK, worker, block, stages, chain, rings
<1>1. commands # <<>> /\ commands' = Tail(commands) /\ c.op # "load"
  BY DEF DrainParam, DrainUnload, Take, IsHandover
<1>2. UNCHANGED <<retire, hand, live>>
  BY DEF DrainParam, DrainUnload, Take
<1>3. UniqueCells' /\ \A r \in Res : InCell(r)' <=> InCell(r)
  <2>1. CASE DrainParam
    <3>1. c \in ParamCommand
      BY <2>1, TakeTypes, CommandFields DEF DrainParam
    <3>2. UNCHANGED <<slots, retired>>
      BY <2>1, <3>1 DEF DrainParam, ApplyParam
    <3> QED
      BY <3>2, CustodyFrame DEF CustodyInv
  <2>2. CASE DrainUnload
    <3>1. c.kind \in Kinds
      BY <2>2, TakeTypes, CommandFields DEF DrainUnload, TakeHandover
    <3>2. retired[c.kind] = None
      BY <2>2, <3>1, OpenGateMeansEmptyPen DEF DrainUnload, Take, TakeHandover
    <3>3. Displace(c.kind, None)
      BY <2>2, <3>2 DEF DrainUnload
    <3> QED
      BY <3>1, <3>2, <3>3, Displaces DEF CustodyInv, Unique, Slot, ConstantsAssumption
  <2> QED
    BY <2>1, <2>2
<1>4. UniqueCommands' /\ \A r : Queued(r)' <=> Queued(r)
  BY <1>1, QueueTakes DEF CustodyInv, Unique
<1>5. /\ UniqueReturns' /\ \A r : Returned(r)' <=> Returned(r)
      /\ \A r : Held(r)' <=> Held(r)
  BY <1>2, CustodyFrame DEF CustodyInv
<1> QED
  BY <1>2, <1>3, <1>4, <1>5 DEF Unique, Flows, Kept

LEMMA CollectFlows ==
  ASSUME IInv, CustodyInv, ConstantsAssumption, Collect
  PROVE  Unique' /\ Flows
<1> DEFINE k == ChainOrder[asked + 1]
<1> USE DEF IInv, TypeOK, worker, block, stages, chain, rings
<1>1. PICK s \in Slot : s = retired[k] /\ k \in Kinds
  BY ChainShape DEF Collect, EngineOK, StagesOK
<1>2. UNCHANGED <<commands, hand, live, slots>>
  BY DEF Collect
<1>3. /\ UniqueCommands' /\ \A r : Queued(r)' <=> Queued(r)
      /\ \A r : Held(r)' <=> Held(r)
  BY <1>2, CustodyFrame DEF CustodyInv
<1>4. CASE s # None /\ RetireSlots > 0
  <2>1. retire' = Append(retire, s) /\ retired' = [retired EXCEPT ![k] = None]
    BY <1>1, <1>4 DEF Collect
  <2>2. s \in Res /\ None \notin Res
    BY <1>1, <1>4 DEF Slot, ConstantsAssumption
  <2>3. InCell(s)
    BY <1>1 DEF InCell, Cell
  <2>4. AtEngine(s)
    BY <2>2, <2>3 DEF CustodyInv, Nowhere, AtWorker, AtQueue, AtReturn, AtEngine
  <2>5. UniqueReturns' /\ \A r : Returned(r)' <=> Returned(r) \/ r = s
    BY <2>1, <2>2, <2>4, ReturnAppends DEF CustodyInv, Unique, AtEngine
  <2>6. UniqueCells' /\ \A r \in Res : InCell(r)' <=> InCell(r) /\ r # s
    BY <1>1, <1>2, <1>4, <2>1, <2>2, PenEmpties DEF CustodyInv, Unique
  <2>7. \A r \in Res \ {s} : Kept(r)
    BY <1>2, <1>3, <2>5, <2>6 DEF Kept
  <2>8. Moved(s)
    BY <1>2, <1>3, <2>2, <2>4, <2>5, <2>6 DEF Moved, AtEngine, AtReturn
  <2> QED
    BY <1>3, <2>2, <2>5, <2>6, <2>7, <2>8 DEF Unique, Flows
<1>5. CASE ~(s # None /\ RetireSlots > 0)
  <2>1. UNCHANGED <<retire, retired>>
    BY <1>1, <1>5 DEF Collect
  <2>2. /\ UniqueReturns' /\ \A r : Returned(r)' <=> Returned(r)
        /\ UniqueCells' /\ \A r : InCell(r)' <=> InCell(r)
    BY <1>2, <2>1, CustodyFrame DEF CustodyInv
  <2> QED
    BY <1>2, <1>3, <2>2 DEF Unique, Flows, Kept
<1> QED
  BY <1>4, <1>5

LEMMA WorkerFlows ==
  ASSUME IInv, CustodyInv, ConstantsAssumption, WorkerStep \/ TrySubmitParam
  PROVE  Unique' /\ Flows
<1> USE DEF IInv, TypeOK, worker, block, stages, chain, rings, audioSide
<1>1. UNCHANGED <<slots, retired>>
  BY DEF WorkerStep, FreeRetired, Prepare, Submit, GiveUp, TrySubmitParam
<1>2. UniqueCells' /\ \A r : InCell(r)' <=> InCell(r)
  BY <1>1, CustodyFrame DEF CustodyInv
<1>3. CASE FreeRetired
  <2>1. /\ retire # <<>> /\ retire' = Tail(retire) /\ live' = live \ {Head(retire)}
        /\ UNCHANGED <<commands, hand>>
    BY <1>3 DEF FreeRetired
  <2>2. PICK s \in Res : s = Head(retire) /\ Returned(s)
    <3>1. 1 \in DOMAIN retire /\ retire[1] = Head(retire) /\ Head(retire) \in Res
      BY <2>1 DEF RingsOK
    <3> QED
      BY <3>1 DEF Returned
  <2>3. AtReturn(s)
    BY <2>2 DEF CustodyInv, Nowhere, AtWorker, AtQueue, AtReturn, AtEngine
  <2>4. UniqueReturns' /\ \A r : Returned(r)' <=> Returned(r) /\ s # r
    BY <2>1, <2>2, ReturnTakes DEF CustodyInv, Unique
  <2>5. /\ UniqueCommands' /\ \A r : Queued(r)' <=> Queued(r)
        /\ \A r : Held(r)' <=> Held(r)
    BY <2>1, CustodyFrame DEF CustodyInv
  <2>6. \A r \in Res \ {s} : Kept(r)
    BY <1>2, <2>1, <2>2, <2>4, <2>5 DEF Kept
  <2>7. Moved(s)
    BY <1>2, <2>1, <2>2, <2>3, <2>4, <2>5 DEF Moved, AtReturn, Nowhere
  <2> QED
    BY <1>2, <2>2, <2>4, <2>5, <2>6, <2>7 DEF Unique, Flows
<1>4. CASE TrySubmitParam
  <2>1. PICK c \in Params : commands' = Append(commands, c)
    BY <1>4 DEF TrySubmitParam
  <2>2. c \in Command /\ c.op # "load"
    BY <2>1 DEF ConstantsAssumption, Command, ParamCommand
  <2>3. UniqueCommands' /\ \A r : Queued(r)' <=> Queued(r)
    BY <2>1, <2>2, QueueAppends DEF CustodyInv, Unique
  <2>4. UNCHANGED <<retire, hand, live>>
    BY <1>4 DEF TrySubmitParam
  <2>5. /\ UniqueReturns' /\ \A r : Returned(r)' <=> Returned(r)
        /\ \A r : Held(r)' <=> Held(r)
    BY <2>4, CustodyFrame DEF CustodyInv
  <2> QED
    BY <1>2, <2>3, <2>4, <2>5 DEF Unique, Flows, Kept
<1>5. CASE Prepare
  <2>1. UNCHANGED <<commands, retire>> /\ hand = None
    BY <1>5 DEF Prepare, WorkerOK
  <2>2. /\ UniqueCommands' /\ \A r : Queued(r)' <=> Queued(r)
        /\ UniqueReturns' /\ \A r : Returned(r)' <=> Returned(r)
    BY <2>1, CustodyFrame DEF CustodyInv
  <2>3. \A r : ~Held(r)
    BY <2>1 DEF Held
  <2>4. CASE \E r \in Res \ live, k \in Kinds, fits \in Fits :
               /\ hand' = [op |-> "load", kind |-> k, res |-> r, fits |-> fits]
               /\ live' = live \union {r}
    <3>1. PICK s \in Res \ live, k \in Kinds, fits \in Fits :
               /\ hand' = [op |-> "load", kind |-> k, res |-> s, fits |-> fits]
               /\ live' = live \union {s}
      BY <2>4
    <3>2. hand' # None
      BY <3>1 DEF ConstantsAssumption, Command, LoadCommand
    <3>3. \A r : Held(r)' <=> r = s
      BY <3>1, <3>2 DEF Held
    <3>4. Nowhere(s)
      BY <3>1 DEF CustodyInv, Nowhere, AtWorker, AtQueue, AtReturn, AtEngine
    <3>5. Moved(s)
      BY <1>2, <2>2, <3>1, <3>3, <3>4 DEF Moved, Nowhere, AtWorker
    <3>6. \A r \in Res \ {s} : Kept(r)
      BY <1>2, <2>2, <2>3, <3>1, <3>3 DEF Kept
    <3> QED
      BY <1>2, <2>2, <3>5, <3>6 DEF Unique, Flows
  <2>5. CASE UNCHANGED live /\ (hand' = hand \/ hand'.op = "unload")
    <3>1. \A r : ~Held(r)'
      BY <2>1, <2>5 DEF Held
    <3> QED
      BY <1>2, <2>2, <2>3, <2>5, <3>1 DEF Unique, Flows, Kept
  <2> QED
    BY <1>5, <2>4, <2>5 DEF Prepare
<1>6. CASE Submit \/ GiveUp
  <2>1. /\ UNCHANGED retire /\ hand' = None /\ hand # None
        /\ hand \in LoadCommand \union UnloadCommand
    BY <1>6 DEF Submit, GiveUp, WorkerOK
  <2>2. hand \in Command /\ \A r : ~Held(r)'
    BY <2>1 DEF Command, Held
  <2>3. UniqueReturns' /\ \A r : Returned(r)' <=> Returned(r)
    BY <2>1, CustodyFrame DEF CustodyInv
  <2>4. CASE hand.op = "load"
    <3>1. PICK s \in Res : s = hand.res /\ \A r : Held(r) <=> r = s
      BY <2>1, <2>2, <2>4, CommandFields DEF Held
    <3>2. AtWorker(s)
      BY <3>1 DEF CustodyInv, Nowhere, AtWorker, AtQueue, AtReturn, AtEngine
    <3>3. CASE Submit
      <4>1. commands' = Append(commands, hand) /\ UNCHANGED live
        BY <3>3 DEF Submit
      <4>2. UniqueCommands' /\ \A r : Queued(r)' <=> Queued(r) \/ r = s
        BY <2>2, <2>4, <3>1, <3>2, <4>1, QueueAppends DEF CustodyInv, Unique, AtWorker
      <4>3. Moved(s)
        BY <1>2, <2>2, <2>3, <3>2, <4>1, <4>2 DEF Moved, AtWorker, AtQueue
      <4>4. \A r \in Res \ {s} : Kept(r)
        BY <1>2, <2>2, <2>3, <3>1, <4>1, <4>2 DEF Kept
      <4> QED
        BY <1>2, <2>3, <3>1, <4>2, <4>3, <4>4 DEF Unique, Flows
    <3>4. CASE GiveUp
      <4>1. UNCHANGED commands /\ live' = live \ {s}
        BY <2>4, <3>1, <3>4 DEF GiveUp
      <4>2. UniqueCommands' /\ \A r : Queued(r)' <=> Queued(r)
        BY <4>1, CustodyFrame DEF CustodyInv
      <4>3. Moved(s)
        BY <1>2, <2>2, <2>3, <3>2, <4>1, <4>2 DEF Moved, AtWorker, Nowhere
      <4>4. \A r \in Res \ {s} : Kept(r)
        BY <1>2, <2>2, <2>3, <3>1, <4>1, <4>2 DEF Kept
      <4> QED
        BY <1>2, <2>3, <3>1, <4>2, <4>3, <4>4 DEF Unique, Flows
    <3> QED
      BY <1>6, <3>3, <3>4
  <2>5. CASE hand.op # "load"
    <3>1. \A r : ~Held(r)
      BY <2>5 DEF Held
    <3>2. UNCHANGED live
      BY <1>6, <2>5 DEF Submit, GiveUp
    <3>3. UniqueCommands' /\ \A r : Queued(r)' <=> Queued(r)
      <4>1. CASE Submit
        BY <2>2, <2>5, <4>1, QueueAppends DEF Submit, CustodyInv, Unique
      <4>2. CASE GiveUp
        BY <4>2, CustodyFrame DEF GiveUp, CustodyInv
      <4> QED
        BY <1>6, <4>1, <4>2
    <3> QED
      BY <1>2, <2>2, <2>3, <3>1, <3>2, <3>3 DEF Unique, Flows, Kept
  <2> QED
    BY <2>4, <2>5
<1> QED
  BY <1>3, <1>4, <1>5, <1>6 DEF WorkerStep

LEMMA CustodyFlows ==
  ASSUME IInv, CustodyInv, ConstantsAssumption, [Next]_vars
  PROVE  Unique' /\ Flows
<1> USE DEF IInv, TypeOK, worker, block, stages, chain, rings, audioSide
<1>1. ASSUME UNCHANGED <<commands, retire, hand, live>>,
             UniqueCells', \A r \in Res : InCell(r)' <=> InCell(r)
      PROVE  Unique' /\ Flows
  BY <1>1, CustodyFrame DEF CustodyInv, Unique, Flows, Kept
<1>2. ASSUME UNCHANGED <<commands, retire, hand, live, slots, retired>>
      PROVE  Unique' /\ Flows
  BY <1>1, <1>2, CustodyFrame DEF CustodyInv
<1>3. CASE BeginBlock
  BY <1>2, <1>3 DEF BeginBlock, GateInv
<1>4. CASE DrainEmpty \/ DrainGated \/ DrainLimit \/ Collected \/ Begin \/ UNCHANGED vars
  BY <1>2, <1>4 DEF DrainEmpty, DrainGated, DrainLimit, EndDrain, Collected, Begin, vars
<1>5. CASE RunStages
  <2>1. CASE Frozen
    BY <1>2, <1>5, <2>1 DEF RunStages
  <2>2. CASE ~Frozen
    <3>1. PICK left \in [Kinds -> 0..Fade] : ProcessStages(left)
      BY <1>5, <2>2 DEF RunStages
    <3>2. UniqueCells' /\ \A r \in Res : InCell(r)' <=> InCell(r)
      BY <3>1, Processes DEF CustodyInv, Unique, ConstantsAssumption
    <3> QED
      BY <1>1, <1>5, <3>2 DEF RunStages
  <2> QED
    BY <2>1, <2>2
<1>6. CASE ApplyParamDirect
  BY <1>2, <1>6 DEF ApplyParamDirect, ApplyParam
<1> QED
  BY <1>3, <1>4, <1>5, <1>6, TakeLoadFlows, TakeOtherFlows, CollectFlows, WorkerFlows
     DEF Next, AudioStep, Drain, WorkerStep

\* A step that flows keeps every slot in one hand.
LEMMA FlowsKeepCustody ==
  ASSUME CustodyInv, Unique', Flows
  PROVE  CustodyInv'
<1> SUFFICES ASSUME NEW r \in Res
             PROVE  (Nowhere(r) \/ AtWorker(r) \/ AtQueue(r) \/ AtReturn(r) \/ AtEngine(r))'
  BY DEF CustodyInv
<1>1. CASE Kept(r)
  BY <1>1 DEF CustodyInv, Kept, Nowhere, AtWorker, AtQueue, AtReturn, AtEngine
<1>2. CASE Moved(r)
  BY <1>2 DEF Moved
<1> QED
  BY <1>1, <1>2 DEF Flows

LEMMA CustodyInit == ConstantsAssumption /\ Init => CustodyInv
<1> SUFFICES ASSUME ConstantsAssumption, Init PROVE CustodyInv
  OBVIOUS
<1>1. \A k \in Kinds, i \in 0..2 : Cell(k, i) = None
  BY DEF Init, Cell
<1>2. Unique
  BY <1>1 DEF Init, Unique, UniqueCommands, UniqueReturns, UniqueCells
<1>3. \A r \in Res : Nowhere(r)
  BY <1>1 DEF Init, Nowhere, Held, Queued, Returned, InCell, ConstantsAssumption
<1> QED
  BY <1>2, <1>3 DEF CustodyInv

LEMMA CustodyInductive == Spec => [](IInv /\ CustodyInv)
<1>1. Init => CustodyInv
  BY CustodyInit, ConstantsAssumption
<1>2. IInv /\ CustodyInv /\ [Next]_vars => CustodyInv'
  BY CustodyFlows, FlowsKeepCustody, ConstantsAssumption
<1> QED
  BY <1>1, <1>2, GateInductive, PTL DEF Spec

\* Where a slot is, as Custody names it.
Placed ==
  \A r \in Res : /\ Nowhere(r)  => Place(r) = "free"
                 /\ AtWorker(r) => Place(r) = "worker"
                 /\ AtQueue(r)  => Place(r) = "queued"
                 /\ AtReturn(r) => Place(r) = "returned"
                 /\ AtEngine(r) => Place(r) = "engine"

LEMMA PlaceIs == stalled = None => Placed
<1> SUFFICES ASSUME stalled = None, NEW r \in Res
             PROVE  InEngine(r) <=> InCell(r)
  BY DEF Placed, Place, Nowhere, AtWorker, AtQueue, AtReturn, AtEngine
<1>1. stalled # r
  BY ConstantsAssumption DEF ConstantsAssumption
<1>2. \A k \in Kinds : /\ retired[k] = Cell(k, 2)
                       /\ \A i \in 0..1 : slots[k][i] = Cell(k, i)
  BY DEF Cell
<1>3. \A i \in 0..2 : i \in 0..1 \/ i = 2
  OBVIOUS
<1>4. 2 \in 0..2 /\ \A i \in 0..1 : i \in 0..2
  OBVIOUS
<1> QED
  BY <1>1, <1>2, <1>3, <1>4 DEF InEngine, InCell

LEMMA PlaceIsNext == (stalled = None => Placed)'
  BY PlaceIs, PTL

LEMMA KeptPlace ==
  ASSUME stalled = None, stalled' = None, ConstantsAssumption, CustodyInv, NEW r \in Res, Kept(r)
  PROVE  Place(r)' = Place(r)
<1>1. /\ Nowhere(r)  => Nowhere(r)'
      /\ AtWorker(r) => AtWorker(r)'
      /\ AtQueue(r)  => AtQueue(r)'
      /\ AtReturn(r) => AtReturn(r)'
      /\ AtEngine(r) => AtEngine(r)'
  BY DEF Kept, Nowhere, AtWorker, AtQueue, AtReturn, AtEngine
<1>2. /\ Nowhere(r)'  => Place(r)' = "free"
      /\ AtWorker(r)' => Place(r)' = "worker"
      /\ AtQueue(r)'  => Place(r)' = "queued"
      /\ AtReturn(r)' => Place(r)' = "returned"
      /\ AtEngine(r)' => Place(r)' = "engine"
  BY PlaceIsNext DEF Placed
<1> QED
  BY <1>1, <1>2, PlaceIs DEF CustodyInv, Placed

\* Every step of the engine and the worker is a step of Custody or leaves it alone.
LEMMA CustodyStep ==
  ASSUME IInv, CustodyInv, ConstantsAssumption, IInv', [Next]_vars
  PROVE  [Abstract!Next]_([r \in Res |-> Place(r)])
<1>1. stalled = None /\ stalled' = None /\ Flows
  BY CustodyFlows DEF IInv, GateInv
<1>2. CASE \A r \in Res : Kept(r)
  <2>1. \A r \in Res : Place(r)' = Place(r)
    BY <1>1, <1>2, KeptPlace
  <2> QED
    BY <2>1
<1>3. CASE \E s \in Res : Moved(s) /\ \A r \in Res \ {s} : Kept(r)
  <2>1. PICK s \in Res : Moved(s) /\ \A r \in Res \ {s} : Kept(r)
    BY <1>3
  <2>2. \A r \in Res \ {s} : Place(r)' = Place(r)
    BY <1>1, <2>1, KeptPlace
  <2>3. /\ Nowhere(s)'  => Place(s)' = "free"
        /\ AtWorker(s)' => Place(s)' = "worker"
        /\ AtQueue(s)'  => Place(s)' = "queued"
        /\ AtReturn(s)' => Place(s)' = "returned"
        /\ AtEngine(s)' => Place(s)' = "engine"
    BY <1>1, PlaceIsNext DEF Placed
  <2>4. \/ Place(s) = "free"     /\ Place(s)' = "worker"
        \/ Place(s) = "worker"   /\ Place(s)' = "queued"
        \/ Place(s) = "worker"   /\ Place(s)' = "free"
        \/ Place(s) = "queued"   /\ Place(s)' = "engine"
        \/ Place(s) = "engine"   /\ Place(s)' = "returned"
        \/ Place(s) = "returned" /\ Place(s)' = "free"
    BY <1>1, <2>1, <2>3, PlaceIs DEF Moved, Placed
  <2>5. ASSUME NEW from, NEW to, Place(s) = from, Place(s)' = to
        PROVE  Abstract!Move(s, from, to)
    BY <2>2, <2>5 DEF Abstract!Move
  <2>6. Abstract!Next
    BY <2>4, <2>5 DEF Abstract!Next, Abstract!Prepare, Abstract!Offer, Abstract!Withdraw,
       Abstract!Take, Abstract!Retire, Abstract!Free
  <2> QED
    BY <2>6
<1> QED
  BY <1>1, <1>2, <1>3 DEF Flows

\* The handover implements Custody: whatever the capacities, the fades and the
\* timing of the two threads, a slot goes from the worker through the command
\* ring into the engine and back through the return ring, and no other way.
THEOREM HandoverFollowsCustody == Spec => FollowsCustody
<1>1. Init => Abstract!Init
  <2> SUFFICES ASSUME Init PROVE \A r \in Res : Place(r) = "free"
    BY DEF Abstract!Init
  <2> QED
    BY ConstantsAssumption DEF Init, Place, Held, Queued, Returned, InEngine, ConstantsAssumption
<1>2. IInv /\ CustodyInv /\ IInv' /\ [Next]_vars
        => [Abstract!Next]_([r \in Res |-> Place(r)])
  BY CustodyStep, ConstantsAssumption
<1> QED
  BY <1>1, <1>2, CustodyInductive, PTL DEF Spec, FollowsCustody, Abstract!Spec

\* The handful of places of a slot, named as OnePlace names them.
LEMMA PlacesOf ==
  ASSUME stalled = None, ConstantsAssumption, NEW r \in Res
  PROVE  \A p : p \in Places(r) <=>
           \/ \E i \in DOMAIN commands : /\ p = <<"command", i>>
                                         /\ commands[i].op = "load" /\ commands[i].res = r
           \/ \E i \in DOMAIN retire : p = <<"returned", i>> /\ retire[i] = r
           \/ \E k \in Kinds : p = <<k, "pen">> /\ retired[k] = r
           \/ \E k \in Kinds, i \in 0..1 : p = <<k, i>> /\ slots[k][i] = r
           \/ p = <<"worker", "hand">> /\ Held(r)
<1>1. stalled # r
  BY DEF ConstantsAssumption
<1> QED
  BY <1>1 DEF Places, Held

\* No slot is ever lost or owned twice (D-8.1): what the worker has allocated is in
\* exactly one place, and what it has freed is in none, for any capacities.
THEOREM EverySlotHasOnePlace == Spec => []OnePlace
<1>1. ASSUME IInv, CustodyInv, ConstantsAssumption, NEW r \in Res
      PROVE  Cardinality(Places(r)) = IF r \in live THEN 1 ELSE 0
  <2>1. stalled = None
    BY <1>1 DEF IInv, GateInv
  <2>2. \A k \in Kinds : retired[k] = r => InCell(r)
    BY DEF InCell, Cell
  <2>3. \A k \in Kinds, i \in 0..1 : slots[k][i] = r => InCell(r)
    BY DEF InCell, Cell
  <2>4. CASE Nowhere(r)
    <3>1. Places(r) = {}
      BY <1>1, <2>1, <2>2, <2>3, <2>4, PlacesOf DEF Nowhere, Queued, Returned
    <3> QED
      BY <2>4, <3>1, FS_EmptySet DEF Nowhere
  <2>5. ASSUME r \in live, NEW p, p \in Places(r), \A q \in Places(r) : q = p
        PROVE  Cardinality(Places(r)) = IF r \in live THEN 1 ELSE 0
    <3>1. Places(r) = {p}
      BY <2>5
    <3> QED
      BY <2>5, <3>1, FS_Singleton
  <2>6. CASE AtWorker(r)
    <3>1. <<"worker", "hand">> \in Places(r)
      BY <1>1, <2>1, <2>6, PlacesOf DEF AtWorker
    <3>2. \A q \in Places(r) : q = <<"worker", "hand">>
      BY <1>1, <2>1, <2>2, <2>3, <2>6, PlacesOf DEF AtWorker, Queued, Returned
    <3> QED
      BY <2>5, <2>6, <3>1, <3>2 DEF AtWorker
  <2>7. CASE AtQueue(r)
    <3>1. PICK i \in DOMAIN commands : commands[i].op = "load" /\ commands[i].res = r
      BY <2>7 DEF AtQueue, Queued
    <3>2. <<"command", i>> \in Places(r)
      BY <1>1, <2>1, <3>1, PlacesOf
    <3>3. \A q \in Places(r) : q = <<"command", i>>
      BY <1>1, <2>1, <2>2, <2>3, <2>7, <3>1, PlacesOf
         DEF AtQueue, Returned, CustodyInv, Unique, UniqueCommands
    <3> QED
      BY <2>5, <2>7, <3>2, <3>3 DEF AtQueue
  <2>8. CASE AtReturn(r)
    <3>1. PICK i \in DOMAIN retire : retire[i] = r
      BY <2>8 DEF AtReturn, Returned
    <3>2. <<"returned", i>> \in Places(r)
      BY <1>1, <2>1, <3>1, PlacesOf
    <3>3. \A q \in Places(r) : q = <<"returned", i>>
      BY <1>1, <2>1, <2>2, <2>3, <2>8, <3>1, PlacesOf
         DEF AtReturn, Queued, CustodyInv, Unique, UniqueReturns
    <3> QED
      BY <2>5, <2>8, <3>2, <3>3 DEF AtReturn
  <2>9. CASE AtEngine(r)
    <3>1. PICK k \in Kinds, i \in 0..2 : Cell(k, i) = r
      BY <2>9 DEF AtEngine, InCell
    <3> DEFINE p == IF i = 2 THEN <<k, "pen">> ELSE <<k, i>>
    <3>2. p \in Places(r)
      <4>1. CASE i = 2
        BY <1>1, <2>1, <3>1, <4>1, PlacesOf DEF Cell
      <4>2. CASE i # 2
        <5>1. i \in 0..1 /\ slots[k][i] = r
          BY <3>1, <4>2 DEF Cell
        <5> QED
          BY <1>1, <2>1, <4>2, <5>1, PlacesOf
      <4> QED
        BY <4>1, <4>2
    <3>3. ASSUME NEW j \in Kinds, NEW n \in 0..2, Cell(j, n) = r PROVE j = k /\ n = i
      BY <1>1, <3>1, <3>3 DEF CustodyInv, Unique, UniqueCells, ConstantsAssumption
    <3>4. \A j \in Kinds : retired[j] = r => j = k /\ i = 2
      BY <3>3 DEF Cell
    <3>5. \A j \in Kinds, n \in 0..1 : slots[j][n] = r => j = k /\ i = n
      BY <3>3 DEF Cell
    <3>6. \A q \in Places(r) : q = p
      BY <1>1, <2>1, <2>9, <3>4, <3>5, PlacesOf DEF AtEngine, Queued, Returned
    <3> QED
      BY <2>5, <2>9, <3>2, <3>6 DEF AtEngine
  <2> QED
    BY <1>1, <2>4, <2>6, <2>7, <2>8, <2>9 DEF CustodyInv
<1>2. IInv /\ CustodyInv => OnePlace
  BY <1>1, ConstantsAssumption DEF OnePlace
<1> QED
  BY <1>2, CustodyInductive, PTL

-----------------------------------------------------------------------------
(* The fades.                                                              *)

\* A fade in flight has units left, and without one the silent position is empty.
FadeInv ==
  \A k \in Kinds : /\ fading[k] => remaining[k] > 0
                   /\ ~fading[k] => slots[k][1 - active[k]] = None

\* What a step may do to one position of a stage.
Cuts(k, i) ==
  slots[k][i] # None /\ slots'[k][i] # slots[k][i] =>
    \/ i = active[k] /\ fading[k] /\ ~fading'[k]
    \/ i # active[k] /\ fading[k] /\ remaining[k] > 0 /\ remaining'[k] = Fade
NeverCuts == \A k \in Kinds, i \in 0..1 : Cuts(k, i)

LEMMA DisplaceFades ==
  ASSUME StagesOK, FadeInv, ConstantsAssumption,
         NEW k \in Kinds, NEW s \in Slot, Displace(k, s)
  PROVE  FadeInv' /\ NeverCuts
<1> DEFINE idle == 1 - active[k]
<1>1. active[k] \in 0..1 /\ idle \in 0..1 /\ idle # active[k]
  BY DEF StagesOK
<1>2. /\ slots'[k][idle] = s /\ slots'[k][active[k]] = slots[k][active[k]]
      /\ fading'[k] /\ remaining'[k] = Fade /\ active' = active
      /\ \A q \in Kinds \ {k} : /\ slots'[q] = slots[q] /\ fading'[q] = fading[q]
                                /\ remaining'[q] = remaining[q]
  BY <1>1 DEF Displace, StagesOK
<1>3. FadeInv'
  BY <1>2 DEF FadeInv, ConstantsAssumption
<1>4. \A i \in 0..1 : i = idle \/ i = active[k]
  BY <1>1
<1>5. \A i \in 0..1 : Cuts(k, i)
  BY <1>1, <1>2, <1>4 DEF FadeInv, Cuts
<1>6. \A q \in Kinds \ {k}, i \in 0..1 : Cuts(q, i)
  BY <1>2 DEF Cuts
<1> QED
  BY <1>3, <1>5, <1>6 DEF NeverCuts

LEMMA ProcessFades ==
  ASSUME StagesOK, FadeInv, NEW left \in [Kinds -> 0..Fade], ProcessStages(left),
         \A k \in Kinds : fading[k] => retired[k] = None
  PROVE  FadeInv' /\ NeverCuts
<1> SUFFICES ASSUME NEW k \in Kinds
             PROVE  /\ fading'[k] => remaining'[k] > 0
                    /\ ~fading'[k] => slots'[k][1 - active'[k]] = None
                    /\ \A i \in 0..1 : Cuts(k, i)
  BY DEF FadeInv, NeverCuts
<1>0. active[k] \in 0..1 /\ left[k] \in 0..Fade /\ remaining' = left
  BY DEF StagesOK, ProcessStages
<1>1. CASE Ends(k, left)
  <2>1. /\ slots'[k] = [slots[k] EXCEPT ![active[k]] = None]
        /\ active'[k] = 1 - active[k] /\ ~fading'[k] /\ fading[k]
    BY <1>1 DEF ProcessStages, Ends
  <2>2. 1 - active'[k] = active[k]
    BY <1>0, <2>1
  <2>3. slots'[k][active[k]] = None
    BY <1>0, <2>1 DEF StagesOK
  <2>4. \A i \in 0..1 : i # active[k] => slots'[k][i] = slots[k][i]
    BY <1>0, <2>1 DEF StagesOK
  <2> QED
    BY <2>1, <2>2, <2>3, <2>4 DEF Cuts
<1>2. CASE ~Ends(k, left)
  <2>1. slots'[k] = slots[k] /\ active'[k] = active[k] /\ (fading'[k] <=> fading[k])
    BY <1>2 DEF ProcessStages
  <2>2. fading[k] => left[k] > 0
    BY <1>0, <1>2 DEF Ends
  <2> QED
    BY <1>0, <2>1, <2>2 DEF FadeInv, Cuts
<1> QED
  BY <1>1, <1>2

LEMMA FadeStep ==
  ASSUME IInv, FadeInv, ConstantsAssumption, [Next]_vars
  PROVE  FadeInv' /\ NeverCuts
<1> USE DEF IInv, TypeOK, rings, stages, chain, block, worker, audioSide
<1> DEFINE c == Head(commands)
<1>1. ASSUME UNCHANGED <<slots, active, fading, remaining>>
      PROVE  FadeInv' /\ NeverCuts
  BY <1>1 DEF FadeInv, NeverCuts, Cuts
<1>2. CASE DrainParam \/ ApplyParamDirect
  BY <1>1, <1>2 DEF DrainParam, ApplyParamDirect, ApplyParam
<1>3. CASE DrainUnload
  <2>1. c.kind \in Kinds
    BY <1>3, TakeTypes, CommandFields DEF DrainUnload, TakeHandover
  <2> QED
    BY <1>1, <1>3, <2>1, DisplaceFades DEF DrainUnload, Slot
<1>4. CASE DrainLoad
  <2>1. c.kind \in Kinds /\ c.res \in Slot
    BY <1>4, TakeTypes, CommandFields DEF DrainLoad, TakeHandover, Slot
  <2>2. CASE Displace(c.kind, c.res)
    BY <2>1, <2>2, DisplaceFades
  <2>3. CASE UNCHANGED <<slots, active, fading, remaining>>
    BY <1>1, <2>3
  <2> QED
    BY <1>4, <2>2, <2>3 DEF DrainLoad, HandBack
<1>5. CASE RunStages
  <2>1. \A k \in Kinds : fading[k] => retired[k] = None
    BY <1>5 DEF RunStages, GateInv
  <2> QED
    BY <1>1, <1>5, <2>1, ProcessFades DEF RunStages
<1>6. CASE \/ BeginBlock \/ DrainEmpty \/ DrainGated \/ DrainLimit \/ Collect \/ Collected
           \/ Begin \/ WorkerStep \/ TrySubmitParam \/ UNCHANGED vars
  BY <1>1, <1>6
     DEF BeginBlock, DrainEmpty, DrainGated, DrainLimit, EndDrain, Collect, Collected, Begin,
         WorkerStep, FreeRetired, Prepare, Submit, GiveUp, TrySubmitParam, vars
<1> QED
  BY <1>2, <1>3, <1>4, <1>5, <1>6 DEF Next, AudioStep, Drain

\* A slot that plays leaves its position only at the end of its fade, and one that
\* is fading in only when a newer load takes its place; no other step, whatever the
\* order of commands, blocks and returns, takes a slot out of the sound.
THEOREM NothingIsCut == Spec => NoCut
<1>1. Init => FadeInv
  BY DEF Init, FadeInv
<1>2. IInv /\ FadeInv /\ [Next]_vars => FadeInv'
  BY FadeStep, ConstantsAssumption
<1>3. IInv /\ FadeInv /\ [Next]_vars =>
        [\A k \in Kinds, i \in 0..1 :
           slots[k][i] # None /\ slots'[k][i] # slots[k][i] =>
             \/ i = active[k] /\ fading[k] /\ ~fading'[k]
             \/ i # active[k] /\ fading[k] /\ remaining[k] > 0 /\ remaining'[k] = Fade]_vars
  BY FadeStep, ConstantsAssumption DEF NeverCuts, Cuts
<1> QED
  BY <1>1, <1>2, <1>3, GateInductive, PTL DEF Spec, NoCut
=============================================================================
