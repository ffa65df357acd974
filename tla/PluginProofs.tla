---------------------------- MODULE PluginProofs ----------------------------
(***************************************************************************)
(* What an outstanding latency prediction says and that a change of        *)
(* latency is never forgotten, for any models, rates, latencies, threads   *)
(* and countdowns; and that a live engine ends up with the resources the   *)
(* references name.                                                        *)
(*                                                                         *)
(* ClaimStands is inductive with the shape of the prediction, because the  *)
(* main thread tells the host a figure only while the plug-in is inactive  *)
(* or being activated.  ToldOrAboutToBe needs with it what the figure is   *)
(* between the stores of an announcement (Figured), that the flag follows  *)
(* the figure (Flagged), that somebody answers a flag (Answered), and that *)
(* the job of a prediction is still to come (Awaited).                     *)
(***************************************************************************)
EXTENDS LatencyHandshake, ReplayState, TLAPS

CONSTANTS NamRefs, IrRefs, Values, Default, Docs, Presets, Entries, Knobs, Flushes, MaxCalls
Plugin == INSTANCE PluginReplay

\* A prediction is a record, and of the figure the host holds.
ClaimShape ==
    claim # NoClaim =>
        claim = [announced |-> announced, bumped |-> claim.bumped, settle |-> claim.settle]

IInv == ClaimShape /\ ClaimStands

LEMMA InitIInv == Init => IInv
  BY DEF Init, IInv, ClaimShape, ClaimStands

\* Activating, at whichever rate.
LEMMA ActivateStep ==
    ASSUME Activate
    PROVE  IInv'
  <1>1. PICK r : ActivateAt(r)
    BY DEF Activate
  <1> DEFINE reported == IF Carries(r) THEN figure ELSE 0
  <1>2. /\ active' = TRUE /\ engine' = 0 /\ announced' = reported
        /\ claim' = IF reported # 0
                    THEN [announced |-> reported, bumped |-> FALSE, settle |-> NoClaim]
                    ELSE NoClaim
    BY <1>1 DEF ActivateAt
  <1> HIDE DEF reported
  <1>3. claim' # NoClaim => /\ reported # 0
                            /\ claim' = [announced |-> reported, bumped |-> FALSE, settle |-> NoClaim]
    BY <1>2
  <1>4. ClaimShape' /\ ClaimStands'
    BY <1>2, <1>3 DEF ClaimShape, ClaimStands
  <1> QED BY <1>4 DEF IInv

\* A call of process(), whatever it makes of the prediction.
LEMMA ProcessStep ==
    ASSUME IInv, Process
    PROVE  /\ IInv'
           /\ claim' # NoClaim => claim # NoClaim /\ claim'.bumped = claim.bumped
  <1>1. PICK reading : /\ engine' = reading
                       /\ IF reading # engine THEN Observe(reading) ELSE Judge(reading)
    BY DEF Process
  <1>2. active /\ active' = active /\ announced' = announced
    BY DEF Process, main
  <1>3. CASE claim' = NoClaim
    BY <1>3 DEF IInv, ClaimShape, ClaimStands
  <1>4. CASE claim' # NoClaim
    <2>1. reading = engine /\ Judge(reading)
      BY <1>1, <1>4 DEF Observe
    <2>2. \/ claim' = claim /\ claim # NoClaim
          \/ claim # NoClaim /\ claim' = [claim EXCEPT !.settle = SettleBlocks]
          \/ claim # NoClaim /\ claim' = [claim EXCEPT !.settle = claim.settle - 1]
      BY <1>4, <2>1, Zenon DEF Judge
    <2>3. claim # NoClaim
      BY <1>4, <2>2
    <2>4. claim = [announced |-> announced, bumped |-> claim.bumped, settle |-> claim.settle]
      BY <2>3 DEF IInv, ClaimShape
    <2>5. /\ claim'.bumped = claim.bumped
          /\ claim' = [announced |-> announced, bumped |-> claim'.bumped, settle |-> claim'.settle]
      <3>1. CASE claim' = claim
        BY <2>4, <3>1
      <3>2. ASSUME NEW n, claim' = [claim EXCEPT !.settle = n]
            PROVE  claim' = [announced |-> announced, bumped |-> claim.bumped, settle |-> n]
        BY <2>4, <3>2
      <3> QED BY <2>2, <3>1, <3>2
    <2>6. engine = 0 /\ announced # 0
      BY <2>3 DEF IInv, ClaimStands
    <2>7. ClaimShape' /\ ClaimStands'
      BY <1>1, <1>2, <2>1, <2>5, <2>6 DEF ClaimShape, ClaimStands
    <2> QED BY <2>3, <2>5, <2>7 DEF IInv
  <1> QED BY <1>3, <1>4

LEMMA BumpStep ==
    ASSUME IInv, NEW w \in Hands, Bump(w)
    PROVE  IInv'
  <1>1. UNCHANGED <<active, announced, engine>>
    BY DEF Bump, main
  <1>2. CASE claim = NoClaim
    <2>1. claim' = NoClaim
      BY <1>2, Zenon DEF Bump
    <2> QED BY <1>1, <2>1 DEF IInv, ClaimShape, ClaimStands
  <1>3. CASE claim # NoClaim
    <2>1. claim = [announced |-> announced, bumped |-> claim.bumped, settle |-> claim.settle]
      BY <1>3 DEF IInv, ClaimShape
    <2>2. PICK b : claim' = [claim EXCEPT !.bumped = b]
      BY <1>3, Zenon DEF Bump
    <2>4. claim' = [announced |-> announced, bumped |-> b, settle |-> claim.settle]
      BY <2>1, <2>2
    <2>3. active /\ engine = 0 /\ announced # 0
      BY <1>3 DEF IInv, ClaimStands
    <2> QED BY <1>1, <2>4, <2>3 DEF IInv, ClaimShape, ClaimStands
  <1> QED BY <1>1, <1>2, <1>3

\* The main thread tells the host a figure here only while it is inactive, and
\* then there is no prediction.
LEMMA DecideStep ==
    ASSUME IInv, Decide
    PROVE  IInv'
  <1>1. UNCHANGED <<claim, active, engine>>
    BY DEF Decide
  <1>2. claim # NoClaim => announced' = announced
    BY DEF Decide, IInv, ClaimStands
  <1> QED BY <1>1, <1>2 DEF IInv, ClaimShape, ClaimStands

\* The steps that leave the prediction, the host's figure and the engine alone.
Job(w) == Replay(w) \/ EnterEntry(w) \/ Record(w)
Aside ==
    \/ Load \/ LoadEntry \/ ChangeFile \/ Wake \/ (\E w \in Hands : Job(w))
    \/ TakeFlag \/ StoreFigure \/ StoreDirty \/ AskCallback \/ UNCHANGED vars

LEMMA AsideStep ==
    ASSUME IInv, Aside
    PROVE  IInv'
  <1>1. UNCHANGED <<claim, active, announced, engine>>
    BY DEF Aside, Job, Load, LoadEntry, ChangeFile, Wake, TakeFlag, StoreFigure, StoreDirty,
           AskCallback, Replay, EnterEntry, Record, main, vars
  <1> QED BY <1>1 DEF IInv, ClaimShape, ClaimStands

LEMMA DropStep ==
    ASSUME Restart \/ Deactivate
    PROVE  IInv'
  BY DEF IInv, ClaimShape, ClaimStands, Restart, Deactivate, DropEngine

LEMMA NextCases ==
    [Next]_vars => \/ Aside \/ Activate \/ (Restart \/ Deactivate)
                   \/ (\E w \in Hands : Bump(w)) \/ Process \/ Decide
  BY DEF Next, Host, Audio, Work, Job, Aside

LEMMA NextIInv == IInv /\ [Next]_vars => IInv'
  BY NextCases, AsideStep, ActivateStep, DropStep, BumpStep, ProcessStep, DecideStep

\* A prediction outstanding is always about the figure the host holds and about
\* an engine that has not moved since it was built, whatever the models, rates
\* and countdowns: the verdict compares the right two numbers.
THEOREM PredictionStands == Spec => []ClaimStands
  <1>1. Init => IInv
    BY InitIInv
  <1>2. IInv => ClaimStands
    BY DEF IInv
  <1> QED BY <1>1, <1>2, NextIInv, PTL DEF Spec

-----------------------------------------------------------------------------
(* Types, in groups of what is written together.                           *)

Flags ==
    /\ active \in BOOLEAN /\ dirty \in BOOLEAN /\ asking \in BOOLEAN /\ callback \in BOOLEAN
    /\ deciding \in BOOLEAN /\ restart \in BOOLEAN /\ reopening \in BOOLEAN
    /\ lapsed \in BOOLEAN

World ==
    /\ ref \in Models \cup {NoRef} /\ file \in [Models -> FileStates]
    /\ rate \in Rates /\ basis \in Rates \cup {0}
    /\ jobs \in Nat /\ entries \in Nat /\ changes \in 0..MaxChanges
    /\ bumping \subseteq Hands /\ recording \in [Hands -> Models \cup {NoRef}]

Pendings == stores \subseteq {"figure", "dirty"} /\ (stores # {} => asking)

Claims == [announced : Readings, bumped : BOOLEAN, settle : (1..SettleBlocks) \cup {NoClaim}]

Figures ==
    /\ figure \in Readings /\ announced \in Readings /\ engine \in Readings
    /\ fade \in [to : Readings, left : 0..FadeBlocks] \cup {NoFade}
    /\ claim \in Claims \cup {NoClaim}

LEMMA FlagsStep == ASSUME Flags, [Next]_vars PROVE Flags'
  <1>1. CASE Activate
    BY <1>1 DEF Flags, Activate, ActivateAt
  <1>2. CASE Restart \/ Deactivate
    BY <1>2 DEF Flags, Restart, Deactivate, DropEngine
  <1>3. CASE Load \/ LoadEntry \/ ChangeFile \/ Wake
    BY <1>3 DEF Flags, Load, LoadEntry, ChangeFile, Wake, main
  <1>4. CASE TakeFlag
    BY <1>4 DEF Flags, TakeFlag
  <1>5. CASE Decide
    BY <1>5 DEF Flags, Decide
  <1>6. ASSUME NEW w \in Hands, Work(w) PROVE Flags'
    BY <1>6 DEF Flags, Work, Replay, Skip, EnterEntry, Bump, Record, main
  <1>7. CASE Process
    BY <1>7 DEF Flags, Process, Observe, Judge, Announce, Silent, main
  <1>8. CASE StoreFigure \/ StoreDirty \/ AskCallback
    BY <1>8 DEF Flags, StoreFigure, StoreDirty, AskCallback, main
  <1>9. CASE UNCHANGED vars
    BY <1>9 DEF Flags, vars, main
  <1> QED BY <1>1, <1>2, <1>3, <1>4, <1>5, <1>6, <1>7, <1>8, <1>9 DEF Next, Host, Audio

LEMMA WorldStep == ASSUME LatencyAssumption, World, [Next]_vars PROVE World'
  <1> USE DEF LatencyAssumption
  <1>1. CASE Activate
    <2>1. rate' \in Rates /\ basis' \in Rates \cup {0} /\ jobs' = jobs + 1
      BY <1>1 DEF World, Activate, ActivateAt
    <2>2. /\ UNCHANGED <<ref, file, entries, bumping, recording>>
          /\ changes' \in 0..MaxChanges
      BY <1>1 DEF World, Activate, Change
    <2> QED BY <2>1, <2>2 DEF World
  <1>2. CASE Restart \/ Deactivate
    BY <1>2 DEF World, Restart, Deactivate, DropEngine, Change, pool
  <1>3. CASE Load \/ LoadEntry \/ Wake
    BY <1>3 DEF World, Load, LoadEntry, Wake, Change, main, pool
  <1>4. CASE ChangeFile
    BY <1>4 DEF World, ChangeFile, Change, main, pool
  <1>5. ASSUME NEW w \in Hands, Replay(w) PROVE World'
    <2>1. changes' \in 0..MaxChanges
      BY <1>5 DEF World, Replay, Skip, Recall, Change
    <2>2. bumping' \subseteq Hands
      BY <1>5 DEF World, Replay
    <2> QED BY <1>5, <2>1, <2>2 DEF World, Replay, main
  <1>6. ASSUME NEW w \in Hands, EnterEntry(w) PROVE World'
    <2>1. bumping' \subseteq Hands /\ recording' \in [Hands -> Models \cup {NoRef}]
      BY <1>6 DEF World, EnterEntry
    <2> QED BY <1>6, <2>1 DEF World, EnterEntry, main, world
  <1>7. ASSUME NEW w \in Hands, Bump(w) \/ Record(w) PROVE World'
    BY <1>7 DEF World, Bump, Record, main, world
  <1>8. CASE TakeFlag \/ Decide
    BY <1>8 DEF World, TakeFlag, Decide, pool, world
  <1>9. CASE Audio \/ UNCHANGED vars
    BY <1>9 DEF World, Audio, Process, StoreFigure, StoreDirty, AskCallback, vars, main, pool, world
  <1> QED BY <1>1, <1>2, <1>3, <1>4, <1>5, <1>6, <1>7, <1>8, <1>9 DEF Next, Host, Work

LEMMA PendingsStep == ASSUME Flags, Pendings, [Next]_vars PROVE Pendings'
  <1>1. CASE Process
    BY <1>1 DEF Pendings, Process, AudioIdle, Observe, Judge, Announce, Silent
  <1>2. CASE StoreFigure \/ StoreDirty \/ AskCallback
    BY <1>2 DEF Pendings, StoreFigure, StoreDirty, AskCallback
  <1>3. CASE ~Audio
    BY <1>3 DEF Pendings, Next, Host, Activate, Restart, Deactivate, DropEngine, Load, LoadEntry,
                ChangeFile, Wake, TakeFlag, Decide, Work, Replay, EnterEntry, Bump, Record, Audio, vars
  <1> QED BY <1>1, <1>2, <1>3 DEF Audio

LEMMA FiguresStep == ASSUME LatencyAssumption, World, Flags, Figures, [Next]_vars PROVE Figures'
  <1>0. 0 \in Readings
    BY DEF Readings
  <1>1. CASE Activate
    <2>1. PICK r : ActivateAt(r)
      BY <1>1 DEF Activate
    <2> DEFINE reported == IF Carries(r) THEN figure ELSE 0
    <2>2. reported \in Readings
      BY <1>0 DEF Figures
    <2>3. /\ engine' = 0 /\ fade' = NoFade /\ figure' = reported /\ announced' = reported
          /\ claim' = IF reported # 0
                      THEN [announced |-> reported, bumped |-> FALSE, settle |-> NoClaim]
                      ELSE NoClaim
      BY <2>1 DEF ActivateAt
    <2> HIDE DEF reported
    <2>4. [announced |-> reported, bumped |-> FALSE, settle |-> NoClaim] \in Claims
      BY <2>2 DEF Claims
    <2> QED BY <1>0, <2>2, <2>3, <2>4 DEF Figures
  <1>2. CASE Restart \/ Deactivate
    BY <1>2 DEF Figures, Restart, Deactivate, DropEngine
  <1>3. CASE Decide
    BY <1>3 DEF Figures, Decide
  <1>4. ASSUME NEW w \in Hands, Replay(w) \/ EnterEntry(w) PROVE Figures'
    <2>1. /\ \A m \in Models : Latency[m][rate] \in Readings
          /\ FadeBlocks \in 0..FadeBlocks
      BY DEF World, Readings, LatencyAssumption
    <2>2. \/ fade' = fade \/ HandOver(0)
          \/ \E m \in Models : HandOver(Latency[m][rate])
      <3>1. CASE Replay(w)
        BY <3>1 DEF Replay, Skip, Recall, World
      <3>2. CASE EnterEntry(w)
        BY <3>2 DEF EnterEntry
      <3> QED BY <1>4, <3>1, <3>2
    <2>3. fade' \in [to : Readings, left : 0..FadeBlocks] \cup {NoFade}
      BY <1>0, <2>1, <2>2 DEF Figures, HandOver
    <2> QED BY <1>4, <2>3 DEF Figures, Replay, EnterEntry, main
  <1>5. ASSUME NEW w \in Hands, Bump(w) \/ Record(w) PROVE Figures'
    <2>1. claim' \in Claims \cup {NoClaim}
      BY <1>5 DEF Figures, Claims, Bump, Record
    <2> QED BY <1>5, <2>1 DEF Figures, Bump, Record, main
  <1>6. CASE Process
    <2>1. PICK reading \in {engine} \cup (IF fade = NoFade THEN {} ELSE {fade.to}) :
            /\ Fades(reading)
            /\ engine' = reading
            /\ IF reading # engine THEN Observe(reading) ELSE Judge(reading)
      BY <1>6 DEF Process
    <2>2. engine' \in Readings
      BY <2>1 DEF Figures
    <2>3. fade' \in [to : Readings, left : 0..FadeBlocks] \cup {NoFade}
      BY <2>1 DEF Figures, Fades, LatencyAssumption
    <2>4. claim' \in Claims \cup {NoClaim}
      BY <2>1 DEF Figures, Claims, Observe, Judge, LatencyAssumption
    <2> QED BY <1>6, <2>2, <2>3, <2>4 DEF Figures, Process, main
  <1>7. CASE StoreFigure
    BY <1>7 DEF Figures, StoreFigure, main
  <1>8. CASE Load \/ LoadEntry \/ ChangeFile \/ Wake \/ TakeFlag \/ StoreDirty \/ AskCallback
             \/ UNCHANGED vars
    BY <1>8 DEF Figures, Load, LoadEntry, ChangeFile, Wake, TakeFlag, StoreDirty, AskCallback, vars,
                main
  <1> QED BY <1>1, <1>2, <1>3, <1>4, <1>5, <1>6, <1>7, <1>8 DEF Next, Host, Audio, Work

TInv == Flags /\ World /\ Pendings /\ Figures

LEMMA InitTInv == LatencyAssumption /\ Init => TInv
  <1> SUFFICES ASSUME LatencyAssumption, Init PROVE TInv
    OBVIOUS
  <1>1. Flags
    BY DEF Init, Flags
  <1>2. World
    <2>1. ref \in Models \cup {NoRef} /\ rate \in Rates /\ file \in [Models -> FileStates]
      BY DEF Init, LatencyAssumption, FileStates
    <2>2. /\ basis \in Rates \cup {0} /\ jobs \in Nat /\ entries \in Nat
          /\ changes \in 0..MaxChanges
      BY DEF Init, LatencyAssumption
    <2>3. bumping \subseteq Hands /\ recording \in [Hands -> Models \cup {NoRef}]
      BY DEF Init
    <2> QED BY <2>1, <2>2, <2>3 DEF World
  <1>3. Pendings
    BY DEF Init, Pendings
  <1>4. Figures
    <2>1. 0 \in Readings
      BY DEF Readings
    <2> QED BY <2>1 DEF Init, Figures
  <1> QED BY <1>1, <1>2, <1>3, <1>4 DEF TInv

LEMMA NextTInv == LatencyAssumption /\ TInv /\ [Next]_vars => TInv'
  BY FlagsStep, WorldStep, PendingsStep, FiguresStep DEF TInv

\* Every variable keeps its type; in particular a countdown, once begun, stays
\* between 1 and SettleBlocks until the prediction is judged.
THEOREM TypeCorrect == Spec => []TypeOK
  <1>1. Init => TInv
    BY LatencyAssumption, InitTInv
  <1>2. TInv /\ [Next]_vars => TInv'
    BY LatencyAssumption, NextTInv
  <1>3. TInv => TypeOK
    BY DEF TInv, Flags, World, Pendings, Figures, Claims, TypeOK
  <1> QED BY <1>1, <1>2, <1>3, PTL DEF Spec

------------------------------------------------------------------------------
(* No change of latency is forgotten.                                       *)

\* Nothing is announced while the plug-in is inactive or a prediction is out.
Still == ~active \/ claim # NoClaim => stores = {} /\ ~asking

\* The figure is the engine's, but for a store to come or a prediction.
Figured ==
    /\ claim # NoClaim => figure = announced
    /\ active /\ claim = NoClaim /\ "figure" \notin stores => figure = engine

\* A figure to come is followed by the flag, or the flag is up already.
Flagged == ~lapsed /\ "figure" \in stores => "dirty" \in stores \/ dirty

\* A flag that is up has somebody to answer it; a difference has a flag, or has
\* been seen.
Answered ==
    /\ dirty => callback \/ asking
    /\ active /\ claim = NoClaim /\ announced # engine /\ ~lapsed =>
        "dirty" \in stores \/ dirty \/ deciding \/ restart

\* The job that a prediction waits for has not been, or is between its turn at
\* the engine and the epoch.
Awaited == claim # NoClaim /\ ~claim.bumped /\ ~lapsed => jobs > 0 \/ bumping # {}

TellInv == TInv /\ IInv /\ Still /\ Figured /\ Flagged /\ Answered /\ Awaited

LEMMA InitTells == LatencyAssumption /\ Init => TellInv
  BY InitTInv, InitIInv DEF Init, TellInv, Still, Figured, Flagged, Answered, Awaited

\* Predictions are records.
LEMMA NotNoClaim ==
    ASSUME LatencyAssumption, TInv,
           NEW n \in Readings, NEW b \in BOOLEAN, NEW s \in Nat \cup {NoClaim}
    PROVE  [announced |-> n, bumped |-> b, settle |-> s] # NoClaim
  <1>1. n \in Nat
    BY DEF Readings, LatencyAssumption
  <1> QED BY <1>1 DEF LatencyAssumption

LEMMA ActivateTells ==
    ASSUME LatencyAssumption, TellInv, Activate
    PROVE  Still' /\ Figured' /\ Flagged' /\ Answered' /\ Awaited'
  <1>1. PICK r : ActivateAt(r)
    BY DEF Activate
  <1> DEFINE reported == IF Carries(r) THEN figure ELSE 0
  <1>2. /\ ~active /\ jobs' = jobs + 1 /\ engine' = 0 /\ figure' = reported /\ announced' = reported
        /\ UNCHANGED <<dirty, stores, asking, callback, deciding>>
        /\ claim' = IF reported # 0
                    THEN [announced |-> reported, bumped |-> FALSE, settle |-> NoClaim]
                    ELSE NoClaim
    BY <1>1 DEF Activate, ActivateAt
  <1>3. reported \in Readings
    BY DEF TellInv, TInv, Figures, Readings
  <1> HIDE DEF reported
  <1>4. claim' = NoClaim => reported = 0
    BY <1>2, <1>3, NotNoClaim DEF TellInv
  <1>5. jobs' > 0
    BY <1>2 DEF TellInv, TInv, World
  <1>6. stores' = {} /\ ~asking' /\ (dirty' => callback')
    BY <1>2 DEF TellInv, Still, Answered
  <1> QED BY <1>2, <1>4, <1>5, <1>6 DEF Still, Figured, Flagged, Answered, Awaited

LEMMA DropTells ==
    ASSUME TellInv, Restart \/ Deactivate
    PROVE  Still' /\ Figured' /\ Flagged' /\ Answered' /\ Awaited'
  BY DEF TellInv, Still, Figured, Flagged, Answered, Awaited, Restart, Deactivate, DropEngine,
         AudioIdle

LEMMA OutsideTells ==
    ASSUME TellInv, Load \/ LoadEntry \/ ChangeFile \/ Wake \/ UNCHANGED vars
    PROVE  Still' /\ Figured' /\ Flagged' /\ Answered' /\ Awaited'
  <1>1. /\ UNCHANGED <<active, claim, stores, asking, figure, announced, engine, lapsed, dirty,
                       deciding, restart, bumping>>
        /\ (callback => callback') /\ (jobs > 0 => jobs' > 0)
    BY DEF TellInv, TInv, World, Load, LoadEntry, ChangeFile, Wake, vars, main, pool
  <1> QED BY <1>1 DEF TellInv, Still, Figured, Flagged, Answered, Awaited

LEMMA MainTells ==
    ASSUME TellInv, TakeFlag \/ Decide
    PROVE  Still' /\ Figured' /\ Flagged' /\ Answered' /\ Awaited'
  <1>1. CASE TakeFlag
    <2>1. UNCHANGED <<active, claim, stores, asking, figure, announced, engine, restart, jobs, bumping>>
      BY <1>1 DEF TakeFlag, pool
    <2>2. stores \subseteq {"figure", "dirty"} /\ (lapsed' = (lapsed \/ (dirty /\ stores = {"figure"})))
      BY <1>1 DEF TakeFlag, TellInv, TInv, Pendings
    <2>3. ~deciding /\ ~dirty' /\ deciding' = dirty
      BY <1>1 DEF TakeFlag
    <2>4. Flagged'
      BY <2>1, <2>2 DEF TellInv, Flagged
    <2> QED BY <2>1, <2>2, <2>3, <2>4 DEF TellInv, Still, Figured, Answered, Awaited
  <1>2. CASE Decide
    <2>1. UNCHANGED <<active, claim, stores, asking, figure, engine, lapsed, jobs, bumping, dirty,
                      callback>>
      BY <1>2 DEF Decide, pool
    <2>2. CASE active
      <3>1. announced' = announced /\ restart' = (restart \/ figure # announced)
        BY <1>2, <2>2 DEF Decide
      <3> QED BY <2>1, <2>2, <3>1 DEF TellInv, Still, Figured, Flagged, Answered, Awaited
    <2>3. CASE ~active
      BY <2>1, <2>3 DEF TellInv, IInv, ClaimStands, Still, Figured, Flagged, Answered, Awaited
    <2> QED BY <2>2, <2>3
  <1> QED BY <1>1, <1>2

LEMMA JobTells ==
    ASSUME TellInv, NEW w \in Hands, Work(w)
    PROVE  Still' /\ Figured' /\ Flagged' /\ Answered' /\ Awaited'
  <1>1. UNCHANGED <<active, stores, asking, figure, announced, engine, dirty, callback, deciding,
                    restart>>
    BY DEF Work, Replay, EnterEntry, Bump, Record, main
  <1>2. (claim' = NoClaim <=> claim = NoClaim) /\ (lapsed => lapsed')
    <2>1. CASE Bump(w)
      <3>1. CASE claim = NoClaim
        BY <2>1, <3>1, Zenon DEF Bump
      <3>2. CASE claim # NoClaim
        <4>1. claim \in Claims /\ claim' = [claim EXCEPT !.bumped = TRUE] /\ UNCHANGED lapsed
          BY <2>1, <3>2 DEF Bump, TellInv, TInv, Figures
        <4>2. claim' = [announced |-> claim.announced, bumped |-> TRUE, settle |-> claim.settle]
          BY <4>1 DEF Claims
        <4>3. claim.announced \in Readings /\ claim.settle \in Nat \cup {NoClaim}
          BY <4>1 DEF Claims
        <4> QED BY <3>2, <4>1, <4>2, <4>3, LatencyAssumption, NotNoClaim DEF TellInv
      <3> QED BY <3>1, <3>2
    <2>2. CASE Replay(w)
      <3>1. claim' = claim
        BY <2>2 DEF Replay
      <3>2. lapsed => lapsed'
        BY <2>2 DEF Replay, Skip
      <3> QED BY <3>1, <3>2
    <2>3. CASE EnterEntry(w) \/ Record(w)
      BY <2>3 DEF EnterEntry, Record
    <2> QED BY <2>1, <2>2, <2>3 DEF Work
  <1>3. Awaited'
    <2> SUFFICES ASSUME claim' # NoClaim, ~claim'.bumped, ~lapsed' PROVE jobs' > 0 \/ bumping' # {}
      BY DEF Awaited
    <2>1. claim # NoClaim /\ ~lapsed /\ active
      BY <1>2 DEF TellInv, IInv, ClaimStands
    <2>2. CASE Bump(w)
      <3>1. claim \in Claims /\ claim' = [claim EXCEPT !.bumped = TRUE]
        BY <2>1, <2>2 DEF Bump, TellInv, TInv, Figures
      <3> QED BY <3>1 DEF Claims
    <2>3. CASE Replay(w)
      BY <2>1, <2>3 DEF Replay, Skip
    <2>4. CASE EnterEntry(w) \/ Record(w)
      BY <2>1, <2>4 DEF EnterEntry, Record, TellInv, Awaited
    <2> QED BY <2>2, <2>3, <2>4 DEF Work
  <1> QED BY <1>1, <1>2, <1>3 DEF TellInv, Still, Figured, Flagged, Answered

LEMMA StoresTell ==
    ASSUME TellInv, StoreFigure \/ StoreDirty \/ AskCallback
    PROVE  Still' /\ Figured' /\ Flagged' /\ Answered' /\ Awaited'
  <1>1. UNCHANGED <<active, claim, announced, engine, lapsed, deciding, restart, jobs, bumping>>
    BY DEF StoreFigure, StoreDirty, AskCallback, main, pool
  <1>2. active /\ claim = NoClaim /\ asking /\ stores \subseteq {"figure", "dirty"}
    BY DEF StoreFigure, StoreDirty, AskCallback, TellInv, TInv, Pendings, Still
  <1>3. CASE StoreFigure
    BY <1>1, <1>2, <1>3 DEF StoreFigure, TellInv, Still, Figured, Flagged, Answered, Awaited
  <1>4. CASE StoreDirty
    BY <1>1, <1>2, <1>4 DEF StoreDirty, TellInv, Still, Figured, Flagged, Answered, Awaited
  <1>5. CASE AskCallback
    BY <1>1, <1>2, <1>5 DEF AskCallback, TellInv, Still, Figured, Flagged, Answered, Awaited
  <1> QED BY <1>3, <1>4, <1>5

LEMMA ProcessTells ==
    ASSUME TellInv, Process
    PROVE  Still' /\ Figured' /\ Flagged' /\ Answered' /\ Awaited'
  <1>1. PICK reading : /\ engine' = reading
                       /\ IF reading # engine THEN Observe(reading) ELSE Judge(reading)
    BY DEF Process
  <1>2. /\ active /\ stores = {} /\ ~asking
        /\ UNCHANGED <<active, figure, announced, dirty, callback, deciding, restart, jobs, bumping>>
    BY DEF Process, AudioIdle, main, pool
  <1>3. CASE Announce /\ claim' = NoClaim
    BY <1>2, <1>3 DEF Announce, TellInv, Still, Figured, Flagged, Answered, Awaited
  <1>4. CASE Silent /\ reading = engine /\ UNCHANGED claim
    BY <1>1, <1>2, <1>4 DEF Silent, TellInv, Still, Figured, Flagged, Answered, Awaited
  <1>5. CASE /\ Silent /\ claim' = NoClaim
             /\ reading = engine /\ claim # NoClaim /\ reading = claim.announced
    BY <1>1, <1>2, <1>5
    DEF Silent, TellInv, IInv, ClaimStands, Still, Figured, Flagged, Answered, Awaited
  <1>6. ASSUME NEW n \in Nat, claim # NoClaim, claim' = [claim EXCEPT !.settle = n],
               Silent, reading = engine
        PROVE  Still' /\ Figured' /\ Flagged' /\ Answered' /\ Awaited'
    <2>1. claim \in Claims
      BY <1>6 DEF TellInv, TInv, Figures
    <2>2. claim' = [announced |-> claim.announced, bumped |-> claim.bumped, settle |-> n]
      BY <1>6, <2>1 DEF Claims
    <2>3. claim.announced \in Readings /\ claim.bumped \in BOOLEAN
      BY <2>1 DEF Claims
    <2>4. claim' # NoClaim /\ claim'.bumped = claim.bumped
      BY <2>2, <2>3, LatencyAssumption, NotNoClaim DEF TellInv
    <2> QED BY <1>1, <1>2, <1>6, <2>4
            DEF Silent, TellInv, Still, Figured, Flagged, Answered, Awaited
  <1>7. CASE reading # engine
    BY <1>1, <1>3, <1>7 DEF Observe
  <1>8. CASE reading = engine
    <2>1. Judge(reading)
      BY <1>1, <1>8
    <2>2. claim # NoClaim /\ claim.settle # NoClaim => claim.settle \in 1..SettleBlocks
      BY DEF TellInv, TInv, Figures, Claims
    <2>3. SettleBlocks \in Nat
      BY LatencyAssumption DEF LatencyAssumption
    <2>4. \/ Silent /\ UNCHANGED claim
          \/ claim # NoClaim /\ claim' = [claim EXCEPT !.settle = SettleBlocks] /\ Silent
          \/ /\ claim # NoClaim /\ claim.settle # NoClaim /\ claim.settle > 1
             /\ claim' = [claim EXCEPT !.settle = claim.settle - 1] /\ Silent
          \/ Announce /\ claim' = NoClaim
          \/ claim # NoClaim /\ claim' = NoClaim /\ Silent /\ reading = claim.announced
      BY <2>1, Zenon DEF Judge
    <2>5. ASSUME claim # NoClaim, claim.settle # NoClaim, claim.settle > 1
          PROVE  claim.settle - 1 \in Nat
      BY <2>2, <2>3, <2>5
    <2> QED BY <1>3, <1>4, <1>5, <1>6, <1>8, <2>3, <2>4, <2>5
  <1> QED BY <1>7, <1>8

LEMMA NextTells == LatencyAssumption /\ TellInv /\ [Next]_vars => TellInv'
  <1> SUFFICES ASSUME LatencyAssumption, TellInv, [Next]_vars PROVE TellInv'
    OBVIOUS
  <1>1. TInv' /\ IInv'
    BY NextTInv, NextIInv DEF TellInv
  <1>2. Still' /\ Figured' /\ Flagged' /\ Answered' /\ Awaited'
    BY ActivateTells, DropTells, OutsideTells, MainTells, JobTells, StoresTell, ProcessTells
    DEF Next, Host, Audio
  <1> QED BY <1>1, <1>2 DEF TellInv

\* ToldOrAboutToBe, for any models, rates, latencies, threads and countdowns,
\* with jobs delayed at will between the engine's lock and the epoch, library
\* entries loaded that move the epoch without a replay, files that vanish or do
\* not parse, and the two relaxed stores seen in either order: whenever the
\* host's figure is not the engine's own, a job, the audio thread, a callback or
\* a restart is under way that will find out (publish_latency, on_main_thread,
\* activate, with_instance).
THEOREM NoChangeForgotten == Spec => []ToldOrAboutToBe
  <1>1. Init => TellInv
    BY LatencyAssumption, InitTells
  <1>2. TellInv /\ [Next]_vars => TellInv'
    BY LatencyAssumption, NextTells
  <1>3. TellInv => ToldOrAboutToBe
    BY DEF TellInv, TInv, Pendings, Answered, Awaited, ToldOrAboutToBe
  <1> QED BY <1>1, <1>2, <1>3, PTL DEF Spec

------------------------------------------------------------------------------
(* The replay.                                                              *)

Adopting == {"adopt_params", "adopt_nam", "adopt_ir"}

\* A job is under way on the thread; and it has more in hand than a load to begin.
Busy(t) == pc[t] # "idle"
Working(t) == pc[t] \notin {"idle", "load"}

\* The engine e has the resources that s names, as the history has it.
Agree(e, s) == Answers(heard.nam, e.nam, s.nam) /\ Answers(heard.ir, e.ir, s.ir)

\* A replay is to come that will read the references anew.
RecallQueued == \E i \in 1..Len(recalls) : recalls[i].kind = "recall"
Pending ==
    RecallQueued \/ \E t \in Plugin!Threads : pc[t] \in Adopting \cup {"snap_params"}

\* Until two jobs meet one is under way at most.
Alone == ~raced => \A v, w \in PoolThreads : Busy(v) /\ Busy(w) => v = w

\* While jobs that met are under way nothing is promised, but by a replay to come.
Met == raced /\ (\E t \in PoolThreads : Busy(t)) => heard = Plugin!Unsure \/ RecallQueued

\* Otherwise the engine agrees, or what the thread holds will make it so.
Settled ==
    live # NoEngine /\ ~Pending /\ (\A t \in PoolThreads : ~Working(t)) => Agree(live, stands)
Held ==
    live # NoEngine /\ ~Pending /\ ~raced =>
        \A w \in PoolThreads :
            /\ pc[w] = "snap_ir" => doc[w].nam = stands.nam
            /\ pc[w] = "replay" => doc[w].nam = stands.nam /\ doc[w].ir = stands.ir
            /\ pc[w] = "record" => Agree(live, Plugin!With(stands, doc[w]))

ReplayInv == Plugin!TypeOK /\ Alone /\ Met /\ Settled /\ Held

JobSet == [kind : {"recall", "preset", "entry"}, doc : Plugin!States]

\* Adding a job leaves those that wait.
LEMMA Spawned ==
  ASSUME Plugin!TypeOK, NEW j \in JobSet, Plugin!Spawn(j)
  PROVE  /\ recalls' \in Seq(JobSet)
         /\ RecallQueued \/ j.kind = "recall" => RecallQueued'
  <1>1. recalls \in Seq(JobSet) /\ recalls' = Append(recalls, j)
    BY DEF Plugin!TypeOK, Plugin!Spawn, JobSet
  <1>2. /\ recalls' \in Seq(JobSet) /\ Len(recalls') = Len(recalls) + 1 /\ Len(recalls) \in Nat
        /\ \A i \in 1..Len(recalls) : recalls'[i] = recalls[i]
        /\ recalls'[Len(recalls) + 1] = j
    BY <1>1
  <1>3. \A i \in 1..Len(recalls) : i \in 1..Len(recalls')
    BY <1>2
  <1>4. Len(recalls) + 1 \in 1..Len(recalls')
    BY <1>2
  <1> QED
    BY <1>2, <1>3, <1>4 DEF RecallQueued

\* Taking a job leaves the others.
LEMMA Taken ==
  ASSUME Plugin!TypeOK, recalls # <<>>, recalls' = Tail(recalls)
  PROVE  /\ recalls' \in Seq(JobSet) /\ Head(recalls) \in JobSet
         /\ RecallQueued => Head(recalls).kind = "recall" \/ RecallQueued'
  <1>1. recalls \in Seq(JobSet)
    BY DEF Plugin!TypeOK, JobSet
  <1>2. /\ recalls' \in Seq(JobSet) /\ Len(recalls') = Len(recalls) - 1
        /\ Len(recalls) \in Nat \ {0}
        /\ \A i \in 1..Len(recalls') : recalls'[i] = recalls[i + 1]
        /\ Head(recalls) = recalls[1] /\ Head(recalls) \in JobSet
    BY <1>1
  <1>3. \A i \in 1..Len(recalls) : i = 1 \/ (i - 1 \in 1..Len(recalls') /\ (i - 1) + 1 = i)
    BY <1>2
  <1>4. ASSUME NEW i \in 1..Len(recalls), recalls[i].kind = "recall", Head(recalls).kind # "recall"
        PROVE  RecallQueued'
    BY <1>2, <1>3, <1>4 DEF RecallQueued
  <1> QED
    BY <1>2, <1>4 DEF RecallQueued

\* What the constants are.
LEMMA Constants ==
  ASSUME Plugin!ReplayAssumption
  PROVE  /\ PoolThreads \subseteq Plugin!Threads /\ Main \in Plugin!Threads /\ Gui \in Plugin!Threads
         /\ Main \notin PoolThreads /\ Gui \notin PoolThreads
         /\ Plugin!Blank \in Plugin!States
         /\ Plugin!Blank.nam = None /\ Plugin!Blank.ir = None
         /\ NoEngine \notin Plugin!States
         /\ Plugin!Fresh \in [param : Plugin!Words, nam : Plugin!Words, ir : Plugin!Words]
         /\ Plugin!Unsure \in [param : Plugin!Words, nam : Plugin!Words, ir : Plugin!Words]
  BY DEF Plugin!ReplayAssumption, Plugin!Threads, Plugin!Blank, Plugin!States, Plugin!Fresh,
         Plugin!Unsure, Plugin!Words

\* Nothing is promised of an engine that is heard of as unsure.
LEMMA UnsureAgrees ==
  ASSUME heard = Plugin!Unsure, NEW e, NEW s
  PROVE  Agree(e, s)
  BY DEF Agree, Answers, Plugin!Unsure

LEMMA ReplayInit ==
  ASSUME Plugin!ReplayAssumption, Plugin!Init
  PROVE  ReplayInv
  <1>1. Plugin!TypeOK
    <2>1. MaxCalls \in Nat /\ 0 \in 0..MaxCalls
      BY DEF Plugin!ReplayAssumption
    <2>2. recalls \in Seq(JobSet)
      BY DEF Plugin!Init
    <2>3. pc \in [Plugin!Threads -> {"idle"}] /\ doc \in [Plugin!Threads -> Plugin!States]
      BY Constants DEF Plugin!Init
    <2>4. stands \in Plugin!States /\ saved \in Plugin!States /\ live = NoEngine
          /\ unsaved = FALSE /\ calls = 0 /\ raced = FALSE
          /\ heard \in [param : Plugin!Words, nam : Plugin!Words, ir : Plugin!Words]
      BY Constants DEF Plugin!Init
    <2>5. pc \in [Plugin!Threads -> {"idle", "adopt_params", "adopt_nam", "adopt_ir", "save",
                  "submit", "snap_params", "snap_nam", "snap_ir", "replay", "load", "record"}]
      BY <2>3
    <2> QED
      BY <2>1, <2>2, <2>3, <2>4, <2>5 DEF JobSet, Plugin!TypeOK
  <1>2. \A t \in PoolThreads : pc[t] = "idle"
    BY Constants DEF Plugin!Init
  <1> QED
    BY <1>1, <1>2 DEF ReplayInv, Alone, Met, Settled, Held, Busy, Plugin!Init

\* With takes one reference over, and leaves the other.
LEMMA WithRefs ==
  ASSUME NEW s \in Plugin!States, NEW d \in Plugin!States
  PROVE  /\ Plugin!With(s, d) \in [param : Values, nam : {s.nam, d.nam}, ir : {s.ir, d.ir}]
         /\ Plugin!With(s, d) \in Plugin!States
         /\ d.nam # None => Plugin!With(s, d).nam = d.nam /\ Plugin!With(s, d).ir = s.ir
         /\ d.nam = None => Plugin!With(s, d).nam = s.nam /\ Plugin!With(s, d).ir = d.ir
  BY DEF Plugin!With, Plugin!States

\* What is to come stays to come while a thread that is neither adopting nor
\* about to read the references moves on.
LEMMA PendingStays ==
  ASSUME Plugin!TypeOK, NEW t \in Plugin!Threads, NEW l, pc' = [pc EXCEPT ![t] = l],
         pc[t] \notin Adopting \cup {"snap_params"}, RecallQueued => RecallQueued', Pending
  PROVE  Pending'
  BY DEF Plugin!TypeOK, Pending

\* A step that moves neither a thread of the pool nor a reference.
LEMMA Bystander ==
  ASSUME Plugin!ReplayAssumption, ReplayInv, Plugin!TypeOK',
         \A w \in PoolThreads : pc'[w] = pc[w] /\ doc'[w] = doc[w],
         stands'.nam = stands.nam, stands'.ir = stands.ir, UNCHANGED raced,
         live' # NoEngine => /\ live # NoEngine /\ live'.nam = live.nam /\ live'.ir = live.ir
                             /\ UNCHANGED heard,
         live' = NoEngine => UNCHANGED heard,
         RecallQueued => RecallQueued', Pending => Pending'
  PROVE  ReplayInv'
  <1>0. Plugin!TypeOK /\ Alone /\ Met /\ Settled /\ Held
    BY DEF ReplayInv
  <1>1. Alone' /\ Met'
    BY <1>0 DEF Alone, Met, Busy
  <1>2. Settled'
    BY <1>0 DEF Settled, Working, Agree
  <1>3. Held'
    <2> SUFFICES ASSUME live' # NoEngine, ~Pending', ~raced', NEW w \in PoolThreads
                 PROVE  /\ pc'[w] = "snap_ir" => doc'[w].nam = stands'.nam
                        /\ pc'[w] = "replay" => doc'[w].nam = stands'.nam /\ doc'[w].ir = stands'.ir
                        /\ pc'[w] = "record" => Agree(live, Plugin!With(stands, doc[w]))'
      BY DEF Held
    <2>1. /\ pc[w] = "snap_ir" => doc[w].nam = stands.nam
          /\ pc[w] = "replay" => doc[w].nam = stands.nam /\ doc[w].ir = stands.ir
          /\ pc[w] = "record" => Agree(live, Plugin!With(stands, doc[w]))
      BY <1>0 DEF Held
    <2>2. stands \in Plugin!States /\ stands' \in Plugin!States
          /\ doc[w] \in Plugin!States /\ doc'[w] \in Plugin!States
      BY <1>0, Constants DEF Plugin!TypeOK
    <2>3. /\ Plugin!With(stands', doc'[w]).nam = Plugin!With(stands, doc[w]).nam
          /\ Plugin!With(stands', doc'[w]).ir = Plugin!With(stands, doc[w]).ir
      BY <2>2, WithRefs
    <2> QED
      BY <2>1, <2>3 DEF Agree
  <1> QED
    BY <1>1, <1>2, <1>3 DEF ReplayInv

\* A step that leaves a replay to come, or to be read, and no thread more busy.
LEMMA Postponed ==
  ASSUME ReplayInv, Plugin!TypeOK', UNCHANGED <<raced, heard>>,
         RecallQueued => RecallQueued', Pending',
         \A w \in PoolThreads : Busy(w)' => Busy(w)
  PROVE  ReplayInv'
  BY DEF ReplayInv, Alone, Met, Settled, Held

LEMMA AdoptParamsKeeps ==
  ASSUME Plugin!ReplayAssumption, ReplayInv, NEW t \in Plugin!Threads, Plugin!AdoptParams(t)
  PROVE  ReplayInv'
  <1>0. Plugin!TypeOK
    BY DEF ReplayInv
  <1>1. Plugin!TypeOK'
    BY <1>0 DEF Plugin!TypeOK, Plugin!AdoptParams, Plugin!Goto, Plugin!States
  <1>2. Pending' /\ (RecallQueued => RecallQueued')
    BY <1>0 DEF Plugin!TypeOK, Plugin!AdoptParams, Plugin!Goto, Pending, Adopting, RecallQueued
  <1>3. \A w \in PoolThreads : Busy(w)' => Busy(w)
    BY <1>0, Constants DEF Plugin!TypeOK, Plugin!AdoptParams, Plugin!Goto, Busy
  <1> QED
    BY <1>1, <1>2, <1>3, Postponed DEF Plugin!AdoptParams

LEMMA AdoptNamKeeps ==
  ASSUME Plugin!ReplayAssumption, ReplayInv, NEW t \in Plugin!Threads, Plugin!AdoptNam(t)
  PROVE  ReplayInv'
  <1>0. Plugin!TypeOK
    BY DEF ReplayInv
  <1>1. Plugin!TypeOK'
    BY <1>0 DEF Plugin!TypeOK, Plugin!AdoptNam, Plugin!Goto, Plugin!States
  <1>2. Pending' /\ (RecallQueued => RecallQueued')
    BY <1>0 DEF Plugin!TypeOK, Plugin!AdoptNam, Plugin!Goto, Pending, Adopting, RecallQueued
  <1>3. \A w \in PoolThreads : Busy(w)' => Busy(w)
    BY <1>0, Constants DEF Plugin!TypeOK, Plugin!AdoptNam, Plugin!Goto, Busy
  <1> QED
    BY <1>1, <1>2, <1>3, Postponed DEF Plugin!AdoptNam

\* The job of a replay.
LEMMA RecallIsJob ==
  ASSUME Plugin!ReplayAssumption
  PROVE  Plugin!Recall \in JobSet /\ Plugin!Recall.kind = "recall"
  BY Constants DEF Plugin!Recall, JobSet

LEMMA AdoptIrKeeps ==
  ASSUME Plugin!ReplayAssumption, ReplayInv, NEW t \in Plugin!Threads, Plugin!AdoptIr(t)
  PROVE  ReplayInv'
  <1>0. Plugin!TypeOK
    BY DEF ReplayInv
  <1>1. Plugin!Spawn(Plugin!Recall)
    BY DEF Plugin!AdoptIr
  <1>2. recalls' \in Seq(JobSet) /\ RecallQueued' /\ Pending'
    BY <1>0, <1>1, Spawned, RecallIsJob DEF Pending
  <1>3. Plugin!TypeOK'
    BY <1>0, <1>2 DEF Plugin!TypeOK, Plugin!AdoptIr, Plugin!Goto, Plugin!States, JobSet
  <1>4. \A w \in PoolThreads : Busy(w)' => Busy(w)
    BY <1>0, Constants DEF Plugin!TypeOK, Plugin!AdoptIr, Plugin!Goto, Busy
  <1> QED
    BY <1>2, <1>3, <1>4, Postponed DEF Plugin!AdoptIr

LEMMA LoadKeeps ==
  ASSUME Plugin!ReplayAssumption, ReplayInv, Plugin!Load
  PROVE  ReplayInv'
  <1>0. Plugin!TypeOK
    BY DEF ReplayInv
  <1>1. PICK d \in Docs : Plugin!BeginAdopt(Main, d)
    BY DEF Plugin!Load
  <1>2. d \in Plugin!States
    BY DEF Plugin!ReplayAssumption
  <1>3. pc[Main] = "idle" /\ calls' \in 0..MaxCalls /\ Main \in Plugin!Threads
    BY <1>0, Constants DEF Plugin!TypeOK, Plugin!Load, Plugin!Call, Plugin!ReplayAssumption
  <1>4. Plugin!TypeOK'
    BY <1>0, <1>1, <1>2, <1>3
    DEF Plugin!TypeOK, Plugin!Load, Plugin!BeginAdopt, Plugin!Goto
  <1>5. Pending' /\ (RecallQueued => RecallQueued')
    BY <1>0, <1>1, <1>3
    DEF Plugin!TypeOK, Plugin!Load, Plugin!BeginAdopt, Plugin!Goto, Pending, Adopting, RecallQueued
  <1>6. \A w \in PoolThreads : Busy(w)' => Busy(w)
    BY <1>0, <1>1, Constants DEF Plugin!TypeOK, Plugin!BeginAdopt, Plugin!Goto, Busy
  <1> QED
    BY <1>4, <1>5, <1>6, Postponed DEF Plugin!Load

LEMMA ActivateKeeps ==
  ASSUME Plugin!ReplayAssumption, ReplayInv, Plugin!Activate
  PROVE  ReplayInv'
  <1>0. Plugin!TypeOK /\ Alone
    BY DEF ReplayInv
  <1>1. Plugin!Spawn(Plugin!Recall) /\ UNCHANGED <<raced, pc>>
    BY DEF Plugin!Activate
  <1>2. recalls' \in Seq(JobSet) /\ RecallQueued' /\ Pending'
    BY <1>0, <1>1, Spawned, RecallIsJob DEF Pending
  <1>3. calls' \in 0..MaxCalls
    BY <1>0 DEF Plugin!TypeOK, Plugin!Activate, Plugin!Call, Plugin!ReplayAssumption
  <1>4. Plugin!TypeOK'
    BY <1>0, <1>2, <1>3, Constants DEF Plugin!TypeOK, Plugin!Activate, JobSet
  <1>5. Alone'
    BY <1>0, <1>1 DEF Alone, Busy
  <1> QED
    BY <1>2, <1>4, <1>5 DEF ReplayInv, Met, Settled, Held

LEMMA DeactivateKeeps ==
  ASSUME Plugin!ReplayAssumption, ReplayInv, Plugin!Deactivate
  PROVE  ReplayInv'
  <1>0. Plugin!TypeOK /\ Alone /\ Met
    BY DEF ReplayInv
  <1>1. calls' \in 0..MaxCalls
    BY <1>0 DEF Plugin!TypeOK, Plugin!Deactivate, Plugin!Call, Plugin!ReplayAssumption
  <1>2. Plugin!TypeOK'
    BY <1>0, <1>1 DEF Plugin!TypeOK, Plugin!Deactivate
  <1>3. Alone' /\ Met'
    BY <1>0 DEF Alone, Met, Busy, RecallQueued, Plugin!Deactivate
  <1> QED
    BY <1>2, <1>3 DEF ReplayInv, Settled, Held, Plugin!Deactivate

LEMMA FlushKeeps ==
  ASSUME Plugin!ReplayAssumption, ReplayInv, Plugin!Flush
  PROVE  ReplayInv'
  <1>0. Plugin!TypeOK
    BY DEF ReplayInv
  <1>1. PICK v \in Flushes : stands' = [stands EXCEPT !.param = v]
    BY DEF Plugin!Flush
  <1>2. v \in Values /\ calls' \in 0..MaxCalls
    BY <1>0 DEF Plugin!TypeOK, Plugin!Flush, Plugin!Call, Plugin!ReplayAssumption
  <1>3. Plugin!TypeOK'
    BY <1>0, <1>1, <1>2 DEF Plugin!TypeOK, Plugin!Flush, Plugin!States
  <1>4. stands'.nam = stands.nam /\ stands'.ir = stands.ir
    BY <1>0, <1>1 DEF Plugin!TypeOK, Plugin!States
  <1>5. (RecallQueued => RecallQueued') /\ (Pending => Pending')
    BY DEF Plugin!Flush, RecallQueued, Pending
  <1> QED
    BY <1>3, <1>4, <1>5, Bystander DEF Plugin!Flush

\* The steps of Main and Gui that adopt nothing.
LEMMA SaveKeeps ==
  ASSUME Plugin!ReplayAssumption, ReplayInv, Plugin!Save
  PROVE  ReplayInv'
  <1>0. Plugin!TypeOK
    BY DEF ReplayInv
  <1>1. pc[Main] = "idle" /\ Main \in Plugin!Threads
    BY Constants DEF Plugin!Save, Plugin!Call
  <1>2. calls' \in 0..MaxCalls
    BY <1>0 DEF Plugin!TypeOK, Plugin!Save, Plugin!Call, Plugin!ReplayAssumption
  <1>3. Plugin!TypeOK'
    BY <1>0, <1>1, <1>2, Constants DEF Plugin!TypeOK, Plugin!Save, Plugin!Goto
  <1>4. \A w \in PoolThreads : pc'[w] = pc[w] /\ doc'[w] = doc[w]
    BY <1>0, Constants DEF Plugin!TypeOK, Plugin!Save, Plugin!Goto
  <1>5. RecallQueued => RecallQueued'
    BY DEF Plugin!Save, RecallQueued
  <1>6. Pending => Pending'
    BY <1>0, <1>1, <1>5, PendingStays DEF Plugin!Save, Plugin!Goto, Adopting
  <1> QED
    BY <1>3, <1>4, <1>5, <1>6, Bystander DEF Plugin!Save

LEMMA MarkCleanKeeps ==
  ASSUME Plugin!ReplayAssumption, ReplayInv, Plugin!MarkClean
  PROVE  ReplayInv'
  <1>0. Plugin!TypeOK
    BY DEF ReplayInv
  <1>1. pc[Main] = "save" /\ Main \in Plugin!Threads /\ doc[Main] \in Plugin!States
    BY <1>0, Constants DEF Plugin!MarkClean, Plugin!TypeOK
  <1>2. Plugin!TypeOK'
    BY <1>0, <1>1, Constants DEF Plugin!TypeOK, Plugin!MarkClean, Plugin!Goto
  <1>3. \A w \in PoolThreads : pc'[w] = pc[w] /\ doc'[w] = doc[w]
    BY <1>0, Constants DEF Plugin!TypeOK, Plugin!MarkClean, Plugin!Goto
  <1>4. RecallQueued => RecallQueued'
    BY DEF Plugin!MarkClean, RecallQueued
  <1>5. Pending => Pending'
    BY <1>0, <1>1, <1>4, PendingStays DEF Plugin!MarkClean, Plugin!Goto, Adopting
  <1> QED
    BY <1>2, <1>3, <1>4, <1>5, Bystander DEF Plugin!MarkClean

LEMMA MoveKnobKeeps ==
  ASSUME Plugin!ReplayAssumption, ReplayInv, Plugin!MoveKnob
  PROVE  ReplayInv'
  <1>0. Plugin!TypeOK
    BY DEF ReplayInv
  <1>1. PICK v \in Values : /\ stands' = [stands EXCEPT !.param = v]
                           /\ doc' = [doc EXCEPT ![Gui] = [Plugin!Blank EXCEPT !.param = v]]
    BY DEF Plugin!MoveKnob, Plugin!ReplayAssumption
  <1>2. pc[Gui] = "idle" /\ Gui \in Plugin!Threads /\ calls' \in 0..MaxCalls
    BY <1>0, Constants DEF Plugin!TypeOK, Plugin!MoveKnob, Plugin!Call, Plugin!ReplayAssumption
  <1>3. Plugin!TypeOK'
    <2>1. [Plugin!Blank EXCEPT !.param = v] \in Plugin!States /\ [stands EXCEPT !.param = v] \in Plugin!States
      BY <1>0, Constants DEF Plugin!TypeOK, Plugin!States
    <2>2. stands' \in Plugin!States /\ doc' \in [Plugin!Threads -> Plugin!States]
      BY <1>0, <1>1, <2>1 DEF Plugin!TypeOK
    <2> QED
      BY <1>0, <1>2, <2>2 DEF Plugin!TypeOK, Plugin!MoveKnob, Plugin!Goto
  <1>4. \A w \in PoolThreads : pc'[w] = pc[w] /\ doc'[w] = doc[w]
    BY <1>0, <1>1, Constants DEF Plugin!TypeOK, Plugin!MoveKnob, Plugin!Goto
  <1>5. stands'.nam = stands.nam /\ stands'.ir = stands.ir
    BY <1>0, <1>1 DEF Plugin!TypeOK, Plugin!States
  <1>6. RecallQueued => RecallQueued'
    BY DEF Plugin!MoveKnob, RecallQueued
  <1>7. Pending => Pending'
    BY <1>0, <1>2, <1>6, PendingStays DEF Plugin!MoveKnob, Plugin!Goto, Adopting
  <1> QED
    BY <1>3, <1>4, <1>5, <1>6, <1>7, Bystander DEF Plugin!MoveKnob

LEMMA SubmitKnobKeeps ==
  ASSUME Plugin!ReplayAssumption, ReplayInv, Plugin!SubmitKnob
  PROVE  ReplayInv'
  <1>0. Plugin!TypeOK
    BY DEF ReplayInv
  <1>1. pc[Gui] = "submit" /\ Gui \in Plugin!Threads /\ doc[Gui].param \in Values
    BY <1>0, Constants DEF Plugin!SubmitKnob, Plugin!TypeOK, Plugin!States
  <1>2. /\ live' \in Plugin!States \cup {NoEngine}
        /\ live' # NoEngine => live # NoEngine /\ live'.nam = live.nam /\ live'.ir = live.ir
    BY <1>0, <1>1, Constants DEF Plugin!TypeOK, Plugin!SubmitKnob, Plugin!States
  <1>3. Plugin!TypeOK'
    BY <1>0, <1>1, <1>2, Constants DEF Plugin!TypeOK, Plugin!SubmitKnob, Plugin!Goto
  <1>4. \A w \in PoolThreads : pc'[w] = pc[w] /\ doc'[w] = doc[w]
    BY <1>0, Constants DEF Plugin!TypeOK, Plugin!SubmitKnob, Plugin!Goto
  <1>5. RecallQueued => RecallQueued'
    BY DEF Plugin!SubmitKnob, RecallQueued
  <1>6. Pending => Pending'
    BY <1>0, <1>1, <1>5, PendingStays DEF Plugin!SubmitKnob, Plugin!Goto, Adopting
  <1> QED
    BY <1>2, <1>3, <1>4, <1>5, <1>6, Bystander DEF Plugin!SubmitKnob

\* A job of another kind is queued.
LEMMA QueuedKeeps ==
  ASSUME Plugin!ReplayAssumption, ReplayInv, NEW j \in JobSet, Plugin!Spawn(j),
         UNCHANGED <<stands, live, heard, raced, pc, doc, saved>>,
         calls' \in 0..MaxCalls, unsaved' \in BOOLEAN
  PROVE  ReplayInv'
  <1>0. Plugin!TypeOK
    BY DEF ReplayInv
  <1>1. recalls' \in Seq(JobSet) /\ (RecallQueued => RecallQueued')
    BY <1>0, Spawned
  <1>2. Plugin!TypeOK'
    BY <1>0, <1>1 DEF Plugin!TypeOK, JobSet
  <1>3. Pending => Pending'
    BY <1>1 DEF Pending
  <1> QED
    BY <1>1, <1>2, <1>3, Bystander

LEMMA LoadEntryKeeps ==
  ASSUME Plugin!ReplayAssumption, ReplayInv, Plugin!LoadEntry
  PROVE  ReplayInv'
  <1>1. PICK x \in Entries : Plugin!Spawn(Plugin!Loading(x))
    BY DEF Plugin!LoadEntry
  <1>2. Plugin!Loading(x) \in JobSet
    BY Constants
    DEF Plugin!Loading, JobSet, Plugin!ReplayAssumption, Plugin!States, Plugin!Blank
  <1>3. calls' \in 0..MaxCalls
    BY DEF ReplayInv, Plugin!TypeOK, Plugin!LoadEntry, Plugin!Call, Plugin!ReplayAssumption
  <1> QED
    BY <1>1, <1>2, <1>3, QueuedKeeps DEF Plugin!LoadEntry

LEMMA RecallPresetKeeps ==
  ASSUME Plugin!ReplayAssumption, ReplayInv, Plugin!RecallPreset
  PROVE  ReplayInv'
  <1>1. PICK x \in Presets : Plugin!Spawn(Plugin!Recalling(x))
    BY DEF Plugin!RecallPreset
  <1>2. Plugin!Recalling(x) \in JobSet
    BY DEF Plugin!Recalling, JobSet, Plugin!ReplayAssumption
  <1>3. calls' \in 0..MaxCalls /\ unsaved' \in BOOLEAN
    BY DEF ReplayInv, Plugin!TypeOK, Plugin!RecallPreset, Plugin!Call, Plugin!ReplayAssumption
  <1> QED
    BY <1>1, <1>2, <1>3, QueuedKeeps DEF Plugin!RecallPreset

LEMMA TakeJobKeeps ==
  ASSUME Plugin!ReplayAssumption, ReplayInv, NEW w \in PoolThreads, Plugin!TakeJob(w)
  PROVE  ReplayInv'
  <1>0. Plugin!TypeOK /\ Alone /\ Met /\ Settled /\ Held /\ w \in Plugin!Threads
    BY Constants DEF ReplayInv
  <1>1. /\ recalls' \in Seq(JobSet) /\ Head(recalls) \in JobSet
        /\ RecallQueued => Head(recalls).kind = "recall" \/ RecallQueued'
    BY <1>0, Taken DEF Plugin!TakeJob
  <1> DEFINE head == Head(recalls)
  <1>2. /\ doc' = [doc EXCEPT ![w] = head.doc] /\ pc[w] = "idle"
        /\ \/ head.kind = "recall" /\ pc' = [pc EXCEPT ![w] = "snap_params"]
           \/ head.kind = "preset" /\ pc' = [pc EXCEPT ![w] = "adopt_params"]
           \/ head.kind = "entry" /\ pc' = [pc EXCEPT ![w] = "load"]
        /\ raced' = (\E v \in PoolThreads : Busy(v))
        /\ heard' = IF raced' THEN Plugin!Unsure ELSE heard
        /\ UNCHANGED <<stands, live, saved, unsaved, calls>>
    BY <1>1 DEF Plugin!TakeJob, Plugin!Goto, JobSet, Busy
  <1> HIDE DEF head
  <1>3. head \in JobSet /\ (RecallQueued => head.kind = "recall" \/ RecallQueued')
    BY <1>1 DEF head
  <1>4. Plugin!TypeOK'
    <2>1. raced' \in BOOLEAN /\ heard' \in [param : Plugin!Words, nam : Plugin!Words, ir : Plugin!Words]
      BY <1>0, <1>2, Constants DEF Plugin!TypeOK
    <2> QED
      BY <1>0, <1>1, <1>2, <1>3, <2>1, Constants DEF Plugin!TypeOK, JobSet
  <1>5. \A v \in PoolThreads : v # w => pc'[v] = pc[v] /\ doc'[v] = doc[v]
    BY <1>0, <1>2, Constants DEF Plugin!TypeOK
  <1>6. pc'[w] \in {"snap_params", "adopt_params", "load"}
    BY <1>0, <1>2 DEF Plugin!TypeOK
  <1>7. Alone'
    BY <1>2, <1>5 DEF Alone, Busy
  <1>8. Met'
    BY <1>2 DEF Met
  <1>9. Pending => Pending'
    <2>1. CASE head.kind = "recall"
      BY <1>0, <1>2, <2>1 DEF Plugin!TypeOK, Pending
    <2>2. CASE head.kind # "recall"
      <3>1. PICK l : pc' = [pc EXCEPT ![w] = l]
        BY <1>2
      <3> QED
        BY <1>0, <1>2, <1>3, <2>2, <3>1, PendingStays DEF Adopting
    <2> QED
      BY <2>1, <2>2
  <1>10. Settled'
    <2>1. CASE raced'
      BY <1>2, <2>1, UnsureAgrees DEF Settled, Agree, Answers, Plugin!Unsure
    <2>2. CASE ~raced'
      <3>1. \A v \in PoolThreads : ~Working(v)
        BY <1>2, <2>2 DEF Busy, Working
      <3> QED
        BY <1>0, <1>2, <1>9, <2>2, <3>1 DEF Settled, Agree
    <2> QED
      BY <2>1, <2>2
  <1>11. Held'
    BY <1>2, <1>5, <1>6 DEF Held, Busy
  <1> QED
    BY <1>4, <1>7, <1>8, <1>10, <1>11 DEF ReplayInv

\* A step of a job that moves it on, or ends it: what is left to show.
LEMMA JobStep ==
  ASSUME Plugin!ReplayAssumption, ReplayInv, Plugin!TypeOK', NEW w \in PoolThreads, NEW l,
         pc' = [pc EXCEPT ![w] = l], Busy(w), pc[w] \notin Adopting,
         UNCHANGED <<raced, recalls, live = NoEngine>>,
         \A v \in PoolThreads : v # w => doc'[v] = doc[v],
         raced => UNCHANGED heard \/ heard' = Plugin!Unsure
                  \/ (heard = Plugin!Unsure => heard' = Plugin!Unsure),
         live' # NoEngine /\ ~Pending' /\ ~raced /\ l = "idle" => Agree(live, stands)',
         live' # NoEngine /\ ~Pending' /\ ~raced =>
            /\ l = "snap_ir" => doc'[w].nam = stands'.nam
            /\ l = "replay" => doc'[w].nam = stands'.nam /\ doc'[w].ir = stands'.ir
            /\ l = "record" => Agree(live, Plugin!With(stands, doc[w]))',
         l # "load"
  PROVE  ReplayInv'
  <1>0. Plugin!TypeOK /\ Alone /\ Met /\ Settled /\ Held /\ w \in Plugin!Threads
    BY Constants DEF ReplayInv
  <1>1. pc'[w] = l /\ \A v \in PoolThreads : v # w => pc'[v] = pc[v]
    BY <1>0, Constants DEF Plugin!TypeOK
  <1>2. Alone'
    BY <1>0, <1>1 DEF Alone, Busy
  <1>3. raced => heard' = Plugin!Unsure \/ RecallQueued'
    BY <1>0 DEF Met, RecallQueued
  <1>4. Met'
    BY <1>3 DEF Met
  <1>5. ~raced => \A v \in PoolThreads : v # w => pc'[v] = "idle"
    BY <1>0, <1>1 DEF Alone, Busy
  <1>6. Settled'
    <2>1. CASE raced
      BY <1>3, <2>1, UnsureAgrees DEF Settled, Agree, Answers, Plugin!Unsure, Pending
    <2>2. CASE ~raced
      BY <1>1, <2>2 DEF Settled, Working
    <2> QED
      BY <2>1, <2>2
  <1>7. Held'
    BY <1>1, <1>5 DEF Held
  <1> QED
    BY <1>2, <1>4, <1>6, <1>7 DEF ReplayInv

LEMMA SnapParamsKeeps ==
  ASSUME Plugin!ReplayAssumption, ReplayInv, NEW w \in PoolThreads, Plugin!SnapParams(w)
  PROVE  ReplayInv'
  <1>0. Plugin!TypeOK /\ w \in Plugin!Threads
    BY Constants DEF ReplayInv
  <1>1. Plugin!TypeOK'
    BY <1>0 DEF Plugin!TypeOK, Plugin!SnapParams, Plugin!Goto, Plugin!States
  <1>2. /\ pc' = [pc EXCEPT ![w] = "snap_nam"] /\ pc[w] = "snap_params"
        /\ doc' = [doc EXCEPT ![w].param = stands.param]
        /\ UNCHANGED <<stands, live, heard, raced, recalls>>
    BY DEF Plugin!SnapParams, Plugin!Goto
  <1>3. \A v \in PoolThreads : v # w => doc'[v] = doc[v]
    BY <1>0, <1>2, Constants DEF Plugin!TypeOK
  <1> QED
    BY <1>1, <1>2, <1>3, JobStep DEF Busy, Adopting

LEMMA SnapNamKeeps ==
  ASSUME Plugin!ReplayAssumption, ReplayInv, NEW w \in PoolThreads, Plugin!SnapNam(w)
  PROVE  ReplayInv'
  <1>0. Plugin!TypeOK /\ w \in Plugin!Threads
    BY Constants DEF ReplayInv
  <1>1. Plugin!TypeOK'
    BY <1>0 DEF Plugin!TypeOK, Plugin!SnapNam, Plugin!Goto, Plugin!States
  <1>2. /\ pc' = [pc EXCEPT ![w] = "snap_ir"] /\ pc[w] = "snap_nam"
        /\ doc' = [doc EXCEPT ![w].nam = stands.nam]
        /\ UNCHANGED <<stands, live, heard, raced, recalls>>
    BY DEF Plugin!SnapNam, Plugin!Goto
  <1>3. /\ \A v \in PoolThreads : v # w => doc'[v] = doc[v]
        /\ doc'[w].nam = stands'.nam
    BY <1>0, <1>2, Constants DEF Plugin!TypeOK, Plugin!States
  <1> QED
    BY <1>1, <1>2, <1>3, JobStep DEF Busy, Adopting

LEMMA SnapIrKeeps ==
  ASSUME Plugin!ReplayAssumption, ReplayInv, NEW w \in PoolThreads, Plugin!SnapIr(w)
  PROVE  ReplayInv'
  <1>0. Plugin!TypeOK /\ Held /\ w \in Plugin!Threads
    BY Constants DEF ReplayInv
  <1>1. /\ doc' = [doc EXCEPT ![w].ir = stands.ir] /\ pc[w] = "snap_ir"
        /\ UNCHANGED <<stands, live, raced, recalls, saved, unsaved, calls>>
        /\ \/ pc' = [pc EXCEPT ![w] = "replay"] /\ UNCHANGED heard
           \/ /\ doc[w].nam = None /\ stands.ir = None
              /\ pc' = [pc EXCEPT ![w] = "idle"]
              /\ heard' = IF live = NoEngine THEN heard
                          ELSE [param |-> Plugin!Skipped(heard.param, live.param, doc[w].param),
                                nam   |-> Plugin!Skipped(heard.nam, live.nam, None),
                                ir    |-> Plugin!Skipped(heard.ir, live.ir, None)]
    BY DEF Plugin!SnapIr, Plugin!Goto
  <1>2. heard' \in [param : Plugin!Words, nam : Plugin!Words, ir : Plugin!Words]
    BY <1>0, <1>1 DEF Plugin!TypeOK, Plugin!Skipped, Plugin!Words
  <1>3. Plugin!TypeOK'
    <2>1. doc' \in [Plugin!Threads -> Plugin!States]
      BY <1>0, <1>1 DEF Plugin!TypeOK, Plugin!States
    <2> QED
      BY <1>0, <1>1, <1>2, <2>1 DEF Plugin!TypeOK
  <1>4. /\ \A v \in PoolThreads : v # w => doc'[v] = doc[v]
        /\ doc'[w].nam = doc[w].nam /\ doc'[w].ir = stands.ir
    BY <1>0, <1>1, Constants DEF Plugin!TypeOK, Plugin!States
  <1>5. heard = Plugin!Unsure => heard' = Plugin!Unsure
    BY <1>1 DEF Plugin!Unsure, Plugin!Skipped
  <1>6. Busy(w) /\ pc[w] \notin Adopting
    BY <1>1 DEF Busy, Adopting
  <1>7. Pending => Pending'
    <2>1. PICK l : pc' = [pc EXCEPT ![w] = l]
      BY <1>1
    <2> QED
      BY <1>0, <1>1, <2>1, PendingStays DEF Adopting, RecallQueued
  <1>8. live # NoEngine /\ ~Pending' /\ ~raced => doc[w].nam = stands.nam
    BY <1>0, <1>1, <1>7 DEF Held
  <1>9. CASE pc' = [pc EXCEPT ![w] = "replay"] /\ UNCHANGED heard
    BY <1>1, <1>3, <1>4, <1>5, <1>6, <1>8, <1>9, JobStep
  <1>10. CASE /\ doc[w].nam = None /\ stands.ir = None
              /\ pc' = [pc EXCEPT ![w] = "idle"]
              /\ heard' = IF live = NoEngine THEN heard
                          ELSE [param |-> Plugin!Skipped(heard.param, live.param, doc[w].param),
                                nam   |-> Plugin!Skipped(heard.nam, live.nam, None),
                                ir    |-> Plugin!Skipped(heard.ir, live.ir, None)]
    <2>1. live # NoEngine /\ ~Pending' /\ ~raced => Agree(live, stands)'
      BY <1>1, <1>8, <1>10 DEF Agree, Answers, Plugin!Skipped
    <2> QED
      BY <1>1, <1>3, <1>4, <1>5, <1>6, <1>10, <2>1, JobStep
  <1> QED
    BY <1>1, <1>9, <1>10

LEMMA ReplayKeeps ==
  ASSUME Plugin!ReplayAssumption, ReplayInv, NEW w \in PoolThreads, Plugin!Replay(w)
  PROVE  ReplayInv'
  <1>0. Plugin!TypeOK /\ Held /\ w \in Plugin!Threads /\ doc[w] \in Plugin!States
    BY Constants DEF ReplayInv, Plugin!TypeOK
  <1>1. /\ pc' = [pc EXCEPT ![w] = "idle"] /\ pc[w] = "replay"
        /\ UNCHANGED <<stands, raced, recalls, doc, saved, unsaved, calls>>
        /\ Busy(w) /\ pc[w] \notin Adopting
    BY DEF Plugin!Replay, Plugin!Goto, Busy, Adopting
  <1>2. Pending => Pending'
    BY <1>0, <1>1, PendingStays DEF Adopting, RecallQueued
  <1>3. CASE live = NoEngine /\ UNCHANGED <<live, heard>>
    <2>1. Plugin!TypeOK'
      BY <1>0, <1>1, <1>3 DEF Plugin!TypeOK
    <2> QED
      BY <1>1, <1>3, <2>1, JobStep
  <1>4. CASE live # NoEngine
    <2>1. PICK nam \in Plugin!Recalled(doc[w].nam, live.nam),
               ir \in Plugin!Recalled(doc[w].ir, live.ir) :
              /\ live' = [param |-> doc[w].param, nam |-> nam.holds, ir |-> ir.holds]
              /\ Plugin!Saying([param |-> "given", nam |-> nam.word, ir |-> ir.word])
      BY <1>4 DEF Plugin!Replay
    <2>2. /\ nam.holds \in {doc[w].nam, None, live.nam} /\ nam.word \in Plugin!Words
          /\ ir.holds \in {doc[w].ir, None, live.ir} /\ ir.word \in Plugin!Words
          /\ Answers(nam.word, nam.holds, doc[w].nam) /\ Answers(ir.word, ir.holds, doc[w].ir)
      BY DEF Plugin!Recalled, Plugin!Words, Answers
    <2>3. live \in Plugin!States
      BY <1>0, <1>4 DEF Plugin!TypeOK
    <2>4. live' \in Plugin!States /\ live' # NoEngine
      BY <1>0, <2>1, <2>2, <2>3, Constants DEF Plugin!States
    <2>5. heard' \in [param : Plugin!Words, nam : Plugin!Words, ir : Plugin!Words] /\ (raced => heard' = Plugin!Unsure)
          /\ (~raced => heard'.nam = nam.word /\ heard'.ir = ir.word)
      BY <2>1, <2>2, Constants DEF Plugin!Saying, Plugin!Words
    <2>6. Plugin!TypeOK'
      BY <1>0, <1>1, <2>4, <2>5 DEF Plugin!TypeOK
    <2>7. ~Pending' /\ ~raced => Agree(live, stands)'
      BY <1>0, <1>1, <1>2, <1>4, <2>1, <2>2, <2>5 DEF Held, Agree
    <2> QED
      BY <1>1, <1>4, <2>4, <2>5, <2>6, <2>7, JobStep
  <1> QED
    BY <1>3, <1>4 DEF Plugin!Replay

LEMMA LoadIntoEngineKeeps ==
  ASSUME Plugin!ReplayAssumption, ReplayInv, NEW w \in PoolThreads, Plugin!LoadIntoEngine(w)
  PROVE  ReplayInv'
  <1>0. Plugin!TypeOK /\ Alone /\ Settled /\ w \in Plugin!Threads
    BY Constants DEF ReplayInv
  <1>1. /\ pc[w] = "load" /\ doc[w] \in Plugin!States /\ stands \in Plugin!States
        /\ UNCHANGED <<stands, raced, recalls, doc, saved, unsaved, calls>>
        /\ Busy(w) /\ pc[w] \notin Adopting
    BY <1>0 DEF Plugin!TypeOK, Plugin!LoadIntoEngine, Busy, Adopting
  <1>2. Pending => Pending'
    <2>1. PICK l : pc' = [pc EXCEPT ![w] = l]
      BY DEF Plugin!LoadIntoEngine, Plugin!Goto
    <2> QED
      BY <1>0, <1>1, <2>1, PendingStays DEF Adopting, RecallQueued
  <1>3. live # NoEngine /\ ~Pending' /\ ~raced => Agree(live, stands)
    BY <1>0, <1>1, <1>2 DEF Alone, Settled, Busy, Working
  <1>4. CASE pc' = [pc EXCEPT ![w] = "idle"] /\ UNCHANGED <<live, heard>>
    <2>1. Plugin!TypeOK'
      BY <1>0, <1>1, <1>4 DEF Plugin!TypeOK
    <2>2. live' # NoEngine /\ ~Pending' /\ ~raced => Agree(live, stands)'
      BY <1>1, <1>3, <1>4 DEF Agree
    <2> QED
      BY <1>1, <1>4, <2>1, <2>2, JobStep
  <1>5. CASE live = NoEngine /\ pc' = [pc EXCEPT ![w] = "record"] /\ UNCHANGED <<live, heard>>
    <2>1. Plugin!TypeOK'
      BY <1>0, <1>1, <1>5 DEF Plugin!TypeOK
    <2> QED
      BY <1>1, <1>5, <2>1, JobStep
  <1>6. CASE /\ live # NoEngine /\ live' = Plugin!With(live, doc[w])
             /\ Plugin!Saying(IF doc[w].nam # None THEN [heard EXCEPT !.nam = "given"]
                                                 ELSE [heard EXCEPT !.ir = "given"])
             /\ pc' = [pc EXCEPT ![w] = "record"]
    <2>1. live \in Plugin!States /\ live' \in Plugin!States /\ live' # NoEngine
      BY <1>0, <1>1, <1>6, WithRefs, Constants DEF Plugin!TypeOK
    <2>2. /\ heard' \in [param : Plugin!Words, nam : Plugin!Words, ir : Plugin!Words] /\ (raced => heard' = Plugin!Unsure)
          /\ ~raced /\ doc[w].nam # None => heard'.nam = "given" /\ heard'.ir = heard.ir
          /\ ~raced /\ doc[w].nam = None => heard'.ir = "given" /\ heard'.nam = heard.nam
      BY <1>0, <1>6, Constants DEF Plugin!TypeOK, Plugin!Saying, Plugin!Words
    <2>3. Plugin!TypeOK'
      BY <1>0, <1>1, <1>6, <2>1, <2>2 DEF Plugin!TypeOK
    <2>4. ~Pending' /\ ~raced => Agree(live, Plugin!With(stands, doc[w]))'
      <3> SUFFICES ASSUME ~Pending', ~raced
                   PROVE  /\ Answers(heard'.nam, live'.nam, Plugin!With(stands, doc[w]).nam)
                          /\ Answers(heard'.ir, live'.ir, Plugin!With(stands, doc[w]).ir)
        BY <1>1 DEF Agree
      <3>1. Answers(heard.nam, live.nam, stands.nam) /\ Answers(heard.ir, live.ir, stands.ir)
        BY <1>3, <1>6 DEF Agree
      <3>2. CASE doc[w].nam # None
        BY <1>1, <1>6, <2>1, <2>2, <3>1, <3>2, WithRefs DEF Answers
      <3>3. CASE doc[w].nam = None
        BY <1>1, <1>6, <2>1, <2>2, <3>1, <3>3, WithRefs DEF Answers
      <3> QED
        BY <3>2, <3>3
    <2> QED
      BY <1>1, <1>6, <2>1, <2>2, <2>3, <2>4, JobStep
  <1> QED
    BY <1>4, <1>5, <1>6 DEF Plugin!LoadIntoEngine, Plugin!Goto

LEMMA RecordReferenceKeeps ==
  ASSUME Plugin!ReplayAssumption, ReplayInv, NEW w \in PoolThreads, Plugin!RecordReference(w)
  PROVE  ReplayInv'
  <1>0. Plugin!TypeOK /\ Held /\ w \in Plugin!Threads
    BY Constants DEF ReplayInv
  <1>1. /\ pc[w] = "record" /\ doc[w] \in Plugin!States
        /\ stands \in Plugin!States /\ stands' = Plugin!With(stands, doc[w])
        /\ UNCHANGED <<live, heard, raced, recalls, doc, saved, unsaved, calls>>
        /\ pc' = [pc EXCEPT ![w] = "idle"] /\ Busy(w) /\ pc[w] \notin Adopting
    BY <1>0 DEF Plugin!TypeOK, Plugin!RecordReference, Plugin!Goto, Busy, Adopting
  <1>2. stands' \in Plugin!States
    BY <1>1, WithRefs
  <1>3. Plugin!TypeOK'
    BY <1>0, <1>1, <1>2 DEF Plugin!TypeOK
  <1>4. Pending => Pending'
    BY <1>0, <1>1, PendingStays DEF Adopting, RecallQueued
  <1>5. live' # NoEngine /\ ~Pending' /\ ~raced => Agree(live, stands)'
    BY <1>0, <1>1, <1>4 DEF Held, Agree
  <1> QED
    BY <1>1, <1>3, <1>5, JobStep

LEMMA AnyStepKeeps ==
  ASSUME Plugin!ReplayAssumption, ReplayInv, [Plugin!Next]_(Plugin!vars)
  PROVE  ReplayInv'
  <1>1. CASE Plugin!Outside
    BY <1>1, LoadKeeps, ActivateKeeps, DeactivateKeeps, FlushKeeps, SaveKeeps, MoveKnobKeeps,
       LoadEntryKeeps, RecallPresetKeeps DEF Plugin!Outside
  <1>2. ASSUME NEW t \in Plugin!Threads, Plugin!Adopt(t)
        PROVE  ReplayInv'
    BY <1>2, AdoptParamsKeeps, AdoptNamKeeps, AdoptIrKeeps DEF Plugin!Adopt
  <1>3. CASE Plugin!MarkClean \/ Plugin!SubmitKnob
    BY <1>3, MarkCleanKeeps, SubmitKnobKeeps
  <1>4. ASSUME NEW w \in PoolThreads, Plugin!Work(w)
        PROVE  ReplayInv'
    BY <1>2, <1>4, TakeJobKeeps, SnapParamsKeeps, SnapNamKeeps, SnapIrKeeps, ReplayKeeps,
       LoadIntoEngineKeeps, RecordReferenceKeeps, Constants DEF Plugin!Work
  <1>5. CASE UNCHANGED Plugin!vars
    <2>1. Plugin!TypeOK' /\ Alone' /\ Met'
      BY <1>5 DEF ReplayInv, Plugin!vars, Plugin!TypeOK, Alone, Met, Busy, RecallQueued
    <2>2. Settled' /\ Held'
      BY <1>5 DEF ReplayInv, Plugin!vars, Settled, Held, Pending, RecallQueued, Agree, Working
    <2> QED
      BY <2>1, <2>2 DEF ReplayInv
  <1> QED
    BY <1>1, <1>2, <1>3, <1>4, <1>5, Constants DEF Plugin!Next

\* ResourcesAgree, for any number of pool threads, any states, presets and entries,
\* and recalls of any outcome: whatever is adopted, loaded and recalled, and however
\* far a job has read when the references change under it, the engine ends up with
\* what they name, as far as the files were there and parsed; after jobs of two
\* threads have met, once a replay runs alone (recall_resource, spawn_recall,
\* spawn_load_library_entry).
THEOREM WhatIsSavedIsHeard ==
  ASSUME Plugin!ReplayAssumption
  PROVE  Plugin!Spec => []ResourcesAgree
  <1>1. Plugin!Init => ReplayInv
    BY ReplayInit
  <1>2. ReplayInv /\ [Plugin!Next]_(Plugin!vars) => ReplayInv'
    BY AnyStepKeeps
  <1>3. ReplayInv => ResourcesAgree
    <2>1. ASSUME AtRest PROVE ~Pending /\ \A w \in PoolThreads : ~Working(w)
      BY <2>1 DEF AtRest, Pending, RecallQueued, Adopting, Working, Plugin!Threads
    <2> QED
      BY <2>1 DEF ReplayInv, Settled, Agree, ResourcesAgree
  <1> QED
    BY <1>1, <1>2, <1>3, PTL DEF Plugin!Spec
=============================================================================
