------------------------------ MODULE Handover ------------------------------
(***************************************************************************)
(* Resource handover between the worker and the audio thread: the command  *)
(* ring, the drain gate, the two-slot crossfade of the NAM and IR stages,  *)
(* the retire pen, and the return ring (namir-engine: engine.rs, ring.rs,  *)
(* command.rs, chain.rs, stages/nam.rs, stages/ir.rs; namir-worker:        *)
(* lib.rs, submit.rs).                                                     *)
(*                                                                         *)
(* One audio block is several steps, so the worker pushes and drains       *)
(* between any two of them.  A crossfade is measured in abstract units of  *)
(* which a block spends at least one: a fade of Fade units is every fade   *)
(* that spans 1..Fade blocks, whatever the block sizes and whatever the    *)
(* incoming model's priming delay adds to the fade.                        *)
(***************************************************************************)
EXTENDS Integers, Sequences, FiniteSets

CONSTANTS
  Res,          \* prepared slots (NamSlot, IrSlot) that may exist at a time
  None,         \* Option::None
  CommandCap,   \* RingCapacities::commands
  RetireCap,    \* RingCapacities::retire, after split's max with Headroom
  MaxPerBlock,  \* MAX_COMMANDS_PER_BLOCK
  Fade,         \* length of a crossfade, in units
  Params,       \* the parameter changes that other threads make
  Fits          \* may a load have been prepared for this engine's context

Headroom == 2   \* RETIRE_HEADROOM_PER_OFFER

Kinds      == {"nam", "ir"}
ChainOrder == <<"nam", "ir">>
Slot       == Res \union {None}

ParamCommand == [op : {"enable"}, kind : Kinds, on : BOOLEAN]
                  \union [op : {"bypass"}, on : BOOLEAN]

LoadCommand   == [op : {"load"}, kind : Kinds, res : Res, fits : BOOLEAN]
UnloadCommand == [op : {"unload"}, kind : Kinds]
Command       == ParamCommand \union LoadCommand \union UnloadCommand

ASSUME ConstantsAssumption ==
  /\ None \notin Res /\ None \notin Command
  /\ CommandCap \in Nat \ {0}
  /\ RetireCap \in Nat /\ RetireCap >= Headroom
  /\ MaxPerBlock \in Nat \ {0}
  /\ Fade \in Nat \ {0}
  /\ Params \subseteq ParamCommand
  /\ Fits \subseteq BOOLEAN

VARIABLES
  commands,   \* the command ring, oldest first
  retire,     \* the return ring, oldest first
  slots,      \* per stage, its two slot positions
  active,     \* per stage, which position is playing (or fading out)
  fading,     \* per stage, is a crossfade in flight
  remaining,  \* per stage, units left of that crossfade
  retired,    \* per stage, the retire pen
  enabled,    \* per stage, its on/off parameter
  mixTarget,  \* per stage, is the wet/dry blend heading for wet
  bypass,     \* the chain's global bypass parameter
  fullyDry,   \* the chain's bypass mix has reached 1.0
  started,    \* the chain has processed a block
  stalled,    \* AudioEngine::stalled_offer
  backlog,    \* AudioEngine::retire_backlog
  pc,         \* where the audio thread is in AudioEngine::process
  offered,    \* stages already offered to in this drain
  reserved,   \* return-ring room set aside in this drain
  budget,     \* commands this drain may still take
  asked,      \* stages already asked in this collect_retired pass
  rejected,   \* RetireSink::rejected() > 0 in this pass
  wpc,        \* where the worker is in Instance::load / unload
  hand,       \* the command the worker is submitting
  live        \* slots allocated and not yet freed

rings  == <<commands, retire>>
stages == <<slots, active, fading, remaining, retired, enabled, mixTarget>>
chain  == <<bypass, fullyDry, started>>
block  == <<offered, reserved, budget, asked, rejected>>
worker == <<wpc, hand, live>>
vars   == <<rings, stages, chain, stalled, backlog, pc, block, worker>>

Init ==
  /\ commands = <<>> /\ retire = <<>>
  /\ slots = [k \in Kinds |-> [i \in 0..1 |-> None]]
  /\ active = [k \in Kinds |-> 0]
  /\ fading = [k \in Kinds |-> FALSE]
  /\ remaining = [k \in Kinds |-> 0]
  /\ retired = [k \in Kinds |-> None]
  /\ enabled = [k \in Kinds |-> TRUE]
  /\ mixTarget = [k \in Kinds |-> FALSE]
  /\ bypass = FALSE /\ fullyDry = FALSE /\ started = FALSE
  /\ stalled = None /\ backlog = FALSE
  /\ pc = "idle"
  /\ offered = {} /\ reserved = 0 /\ budget = 0
  /\ asked = 0 /\ rejected = FALSE
  /\ wpc = "idle" /\ hand = None /\ live = {}

-----------------------------------------------------------------------------
(* The stages.                                                             *)

\* The stage has a model, or is fading into one.
Engaged(sl, act, fad) == sl[act] # None \/ (fad /\ sl[1 - act] # None)

\* Mutant: the displaced slot is assigned over, that is dropped (the bug of M2).
DisplaceDropping(k, s) ==
  LET idle == 1 - active[k]
      now  == [slots[k] EXCEPT ![idle] = s]
  IN  /\ slots' = [slots EXCEPT ![k] = now]
      /\ fading' = [fading EXCEPT ![k] = TRUE]
      /\ remaining' = [remaining EXCEPT ![k] = Fade]
      /\ mixTarget' = [mixTarget EXCEPT
                         ![k] = enabled[k] /\ Engaged(now, active[k], TRUE)]
      /\ UNCHANGED <<active, enabled, retired>>

\* Mutant: the new slot goes to the position that is playing.
DisplaceActive(k, s) ==
  LET now == [slots[k] EXCEPT ![active[k]] = s]
  IN  /\ slots' = [slots EXCEPT ![k] = now]
      /\ retired' = [retired EXCEPT ![k] = slots[k][active[k]]]
      /\ fading' = [fading EXCEPT ![k] = TRUE]
      /\ remaining' = [remaining EXCEPT ![k] = Fade]
      /\ mixTarget' = [mixTarget EXCEPT
                         ![k] = enabled[k] /\ Engaged(now, active[k], TRUE)]
      /\ UNCHANGED <<active, enabled>>

\* NamStage / IrStage::install and unload, once the pen is known to be empty:
\* the inactive position receives s, what it held is parked, the fade restarts.
Displace(k, s) ==
  LET idle == 1 - active[k]
      now  == [slots[k] EXCEPT ![idle] = s]
  IN  /\ slots' = [slots EXCEPT ![k] = now]
      /\ retired' = [retired EXCEPT ![k] = slots[k][idle]]
      /\ fading' = [fading EXCEPT ![k] = TRUE]
      /\ remaining' = [remaining EXCEPT ![k] = Fade]
      /\ mixTarget' = [mixTarget EXCEPT
                         ![k] = enabled[k] /\ Engaged(now, active[k], TRUE)]
      /\ UNCHANGED <<active, enabled>>

\* Chain::apply reaching the parameters this module keeps.
ApplyParam(c) ==
  \/ /\ c.op = "bypass"
     /\ bypass' = c.on
     /\ UNCHANGED stages
  \/ /\ c.op = "enable"
     /\ enabled' = [enabled EXCEPT ![c.kind] = c.on]
     /\ mixTarget' = [mixTarget EXCEPT
          ![c.kind] = c.on /\ Engaged(slots[c.kind], active[c.kind], fading[c.kind])]
     /\ UNCHANGED <<slots, active, fading, remaining, retired, bypass>>

\* Mutant: the handover is finalized only when the return ring has room.
EndsWithRoom(k, left) ==
  fading[k] /\ left[k] = 0 /\ retired[k] = None /\ Len(retire) < RetireCap

Ends(k, left)  == fading[k] /\ left[k] = 0 /\ retired[k] = None
Spends(k, left) == IF fading[k] /\ remaining[k] > 0
                     THEN left[k] \in 0..(remaining[k] - 1)
                     ELSE left[k] = 0

\* One block of process: spend the fade down to left; a fade that has ended is
\* finalized if the pen is free and waits otherwise.
ProcessStages(left) ==
  /\ \A k \in Kinds : Spends(k, left)
  /\ slots' = [k \in Kinds |-> IF Ends(k, left)
                                 THEN [slots[k] EXCEPT ![active[k]] = None]
                                 ELSE slots[k]]
  /\ retired' = [k \in Kinds |-> IF Ends(k, left) THEN slots[k][active[k]]
                                                  ELSE retired[k]]
  /\ active' = [k \in Kinds |-> IF Ends(k, left) THEN 1 - active[k] ELSE active[k]]
  /\ fading' = [k \in Kinds |-> fading[k] /\ ~Ends(k, left)]
  /\ remaining' = left
  /\ mixTarget' = [k \in Kinds |-> IF Ends(k, left)
                     THEN enabled[k] /\ slots[k][1 - active[k]] # None
                     ELSE mixTarget[k]]
  /\ UNCHANGED enabled

-----------------------------------------------------------------------------
(* The audio thread.                                                       *)

RetireSlots == RetireCap - Len(retire)

\* The block begins: retry_stalled_offer, then drain_commands' own early return.
BeginBlock ==
  /\ pc = "idle"
  /\ LET pushed == stalled # None /\ RetireSlots > 0 IN
       /\ retire' = IF pushed THEN Append(retire, stalled) ELSE retire
       /\ stalled' = IF pushed THEN None ELSE stalled
       /\ pc' = IF stalled' # None THEN "collectBefore" ELSE "drain"
  /\ offered' = {} /\ reserved' = 0 /\ budget' = MaxPerBlock
  /\ asked' = 0 /\ rejected' = FALSE
  /\ UNCHANGED <<commands, stages, chain, backlog, worker>>

EndDrain ==
  /\ pc' = "collectBefore"
  /\ UNCHANGED <<rings, stages, chain, stalled, backlog, offered,
                 reserved, budget, asked, rejected, worker>>

IsHandover(c) == c.op \in {"load", "unload"}

\* Mutant: the gate forgets that a pen may still be occupied.
GateOpenUnderBacklog(c) ==
  c.kind \notin offered /\ RetireSlots >= reserved + Headroom

\* Mutant: the gate forgets the return ring.
GateOpenWithoutRoom(c) == c.kind \notin offered /\ ~backlog

\* Mutant: the gate only keeps the at-most-once-per-block rule.
GateOpenOncePerBlock(c) == c.kind \notin offered

\* The drain gate: may this load or unload be taken in this block?
GateOpen(c) ==
  /\ c.kind \notin offered
  /\ ~backlog
  /\ RetireSlots >= reserved + Headroom

DrainEmpty ==
  /\ pc = "drain" /\ budget > 0 /\ commands = <<>>
  /\ EndDrain

DrainGated ==
  /\ pc = "drain" /\ budget > 0 /\ commands # <<>>
  /\ IsHandover(Head(commands)) /\ ~GateOpen(Head(commands))
  /\ EndDrain

DrainLimit ==
  /\ pc = "drain" /\ budget = 0
  /\ EndDrain

\* Everything taking a command does besides applying it.
Take ==
  /\ pc = "drain" /\ budget > 0 /\ commands # <<>>
  /\ commands' = Tail(commands)
  /\ budget' = budget - 1
  /\ UNCHANGED <<fullyDry, started, backlog, pc, asked, rejected, worker>>

TakeHandover ==
  /\ IsHandover(Head(commands)) /\ GateOpen(Head(commands))
  /\ offered' = offered \union {Head(commands).kind}
  /\ reserved' = reserved + Headroom
  /\ UNCHANGED bypass

DrainParam ==
  /\ Take
  /\ ~IsHandover(Head(commands)) /\ ApplyParam(Head(commands))
  /\ UNCHANGED <<retire, stalled, offered, reserved>>

DrainUnload ==
  /\ Take /\ TakeHandover
  /\ Head(commands).op = "unload"
  /\ LET k == Head(commands).kind IN
       IF retired[k] = None THEN Displace(k, None) ELSE UNCHANGED stages
  /\ UNCHANGED <<retire, stalled>>

\* apply_command's way out for an offer that no stage kept.
HandBack(r) ==
  /\ IF RetireSlots > 0
       THEN retire' = Append(retire, r) /\ UNCHANGED stalled
       ELSE stalled' = r /\ UNCHANGED retire
  /\ UNCHANGED stages

\* accept_resource: an offer prepared for another context goes straight to the
\* pen, over whatever is there; a stage whose pen is occupied hands it back.
DrainLoad ==
  /\ Take /\ TakeHandover
  /\ Head(commands).op = "load"
  /\ LET c == Head(commands) IN
       IF ~c.fits
         THEN /\ retired' = [retired EXCEPT ![c.kind] = c.res]
              /\ UNCHANGED <<slots, active, fading, remaining, enabled, mixTarget,
                             retire, stalled>>
         ELSE IF retired[c.kind] = None
                THEN Displace(c.kind, c.res) /\ UNCHANGED <<retire, stalled>>
                ELSE HandBack(c.res)

Drain == DrainEmpty \/ DrainGated \/ DrainLimit \/ DrainParam \/ DrainUnload \/ DrainLoad

\* collect_retired asks the stages in chain order; the pass before the stages
\* run and the one after are the same code.
Collect ==
  /\ pc \in {"collectBefore", "collectAfter"}
  /\ asked < Len(ChainOrder)
  /\ LET k == ChainOrder[asked + 1]
         out == retired[k] # None /\ RetireSlots > 0 IN
       /\ retire' = IF out THEN Append(retire, retired[k]) ELSE retire
       /\ retired' = IF out THEN [retired EXCEPT ![k] = None] ELSE retired
       /\ rejected' = (rejected \/ (retired[k] # None /\ ~out))
  /\ asked' = asked + 1
  /\ UNCHANGED <<commands, slots, active, fading, remaining, enabled, mixTarget,
                 chain, stalled, backlog, pc, offered,
                 reserved, budget, worker>>

\* Mutant: the backlog, once announced, is never withdrawn.
CollectedSticky ==
  /\ pc \in {"collectBefore", "collectAfter"}
  /\ asked = Len(ChainOrder)
  /\ backlog' = (backlog \/ rejected)
  /\ asked' = 0 /\ rejected' = FALSE
  /\ pc' = IF pc = "collectBefore" THEN "stages" ELSE "idle"
  /\ UNCHANGED <<rings, stages, chain, stalled, offered, reserved, budget, worker>>

Collected ==
  /\ pc \in {"collectBefore", "collectAfter"}
  /\ asked = Len(ChainOrder)
  /\ backlog' = rejected
  /\ asked' = 0 /\ rejected' = FALSE
  /\ pc' = IF pc = "collectBefore" THEN "stages" ELSE "idle"
  /\ UNCHANGED <<rings, stages, chain, stalled, offered,
                 reserved, budget, worker>>

\* Chain::process: a chain that is all the way dry skips its stages; the first
\* block starts the blend at its target instead of fading to it.
Frozen == bypass /\ (fullyDry \/ ~started)

RunStages ==
  /\ pc = "stages"
  /\ IF Frozen
       THEN fullyDry' = TRUE /\ UNCHANGED stages
       ELSE /\ \E left \in [Kinds -> 0..Fade] : ProcessStages(left)
            /\ fullyDry' \in (IF bypass THEN BOOLEAN ELSE {FALSE})
  /\ started' = TRUE
  /\ pc' = "collectAfter"
  /\ UNCHANGED <<rings, bypass, stalled, backlog, block, worker>>

\* apply_param_direct: host automation between two blocks.
ApplyParamDirect ==
  /\ pc = "idle"
  /\ \E c \in Params : ApplyParam(c)
  /\ UNCHANGED <<rings, fullyDry, started, stalled, backlog, pc, block, worker>>

AudioStep == BeginBlock \/ Drain \/ Collect \/ Collected \/ RunStages

-----------------------------------------------------------------------------
(* The worker holding the Instance, and the threads that submit parameters. *)

audioSide == <<slots, active, fading, remaining, retired, enabled, mixTarget,
               chain, stalled, backlog, pc, block>>

Begin ==
  /\ wpc = "idle" /\ wpc' = "drain"
  /\ UNCHANGED <<rings, audioSide, hand, live>>

\* drain_retired, one popped slot at a time.
FreeRetired ==
  /\ wpc = "drain" /\ retire # <<>>
  /\ retire' = Tail(retire)
  /\ live' = live \ {Head(retire)}
  /\ UNCHANGED <<commands, audioSide, wpc, hand>>

\* The return ring is empty: prepare the command, or fail to read or parse it.
Prepare ==
  /\ wpc = "drain" /\ retire = <<>>
  /\ \/ \E r \in Res \ live, k \in Kinds, fits \in Fits :
          /\ hand' = [op |-> "load", kind |-> k, res |-> r, fits |-> fits]
          /\ live' = live \union {r}
          /\ wpc' = "submit"
     \/ \E k \in Kinds :
          /\ hand' = [op |-> "unload", kind |-> k]
          /\ wpc' = "submit"
          /\ UNCHANGED live
     \/ wpc' = "idle" /\ UNCHANGED <<hand, live>>
  /\ UNCHANGED <<rings, audioSide>>

Submit ==
  /\ wpc = "submit" /\ Len(commands) < CommandCap
  /\ commands' = Append(commands, hand)
  /\ wpc' = "idle" /\ hand' = None
  /\ UNCHANGED <<retire, audioSide, live>>

\* Mutant: a command that timed out stays in the submitter's hand.
GiveUpLeaking ==
  /\ wpc = "submit" /\ Len(commands) = CommandCap
  /\ wpc' = "idle" /\ hand' = None
  /\ UNCHANGED <<rings, audioSide, live>>

\* The deadline passed and the last attempt still found no room: the command
\* comes back and is dropped here, on the worker.
GiveUp ==
  /\ wpc = "submit" /\ Len(commands) = CommandCap
  /\ live' = IF hand.op = "load" THEN live \ {hand.res} ELSE live
  /\ wpc' = "idle" /\ hand' = None
  /\ UNCHANGED <<rings, audioSide>>

\* try_submit_param from a GUI thread; with no room it changes nothing.
TrySubmitParam ==
  /\ Len(commands) < CommandCap
  /\ \E c \in Params : commands' = Append(commands, c)
  /\ UNCHANGED <<retire, audioSide, worker>>

WorkerStep == FreeRetired \/ Prepare \/ Submit \/ GiveUp

Next == AudioStep \/ ApplyParamDirect \/ Begin \/ WorkerStep \/ TrySubmitParam

Spec == Init /\ [][Next]_vars

\* The host keeps calling process, and a worker that has begun a job finishes
\* it; nobody is obliged to ask for another load or to move a control.
Fairness == WF_vars(AudioStep) /\ WF_vars(WorkerStep)
FairSpec == Spec /\ Fairness

-----------------------------------------------------------------------------
(* The life of one slot, as Custody tells it.                              *)

Queued(r)   == \E i \in DOMAIN commands : commands[i].op = "load" /\ commands[i].res = r
Held(r)     == hand # None /\ hand.op = "load" /\ hand.res = r
Returned(r) == \E i \in DOMAIN retire : retire[i] = r
InEngine(r) == \/ stalled = r
               \/ \E k \in Kinds : retired[k] = r \/ \E i \in 0..1 : slots[k][i] = r

Place(r) == CASE Held(r)     -> "worker"
              [] Queued(r)   -> "queued"
              [] Returned(r) -> "returned"
              [] InEngine(r) -> "engine"
              [] OTHER       -> "free"

Abstract == INSTANCE Custody WITH place <- [r \in Res |-> Place(r)]

\* Every slot lives the life Custody describes: it enters the engine only by
\* being taken from the command ring and leaves it only by the return ring.
FollowsCustody == Abstract!Spec

-----------------------------------------------------------------------------
(* Properties.                                                             *)

\* Every variable stays in its range; the rings never exceed their capacity.
RingsOK ==
  /\ commands \in Seq(Command) /\ Len(commands) <= CommandCap
  /\ retire \in Seq(Res) /\ Len(retire) <= RetireCap
StagesOK ==
  /\ slots \in [Kinds -> [0..1 -> Slot]]
  /\ active \in [Kinds -> 0..1]
  /\ fading \in [Kinds -> BOOLEAN]
  /\ remaining \in [Kinds -> 0..Fade]
  /\ retired \in [Kinds -> Slot]
  /\ enabled \in [Kinds -> BOOLEAN]
  /\ mixTarget \in [Kinds -> BOOLEAN]
FlagsOK ==
  /\ bypass \in BOOLEAN /\ fullyDry \in BOOLEAN /\ started \in BOOLEAN
  /\ backlog \in BOOLEAN /\ rejected \in BOOLEAN
EngineOK ==
  /\ stalled \in Slot
  /\ pc \in {"idle", "drain", "collectBefore", "stages", "collectAfter"}
  /\ offered \subseteq Kinds
  /\ reserved \in Nat /\ budget \in 0..MaxPerBlock
  /\ asked \in 0..2
WorkerOK ==
  /\ wpc \in {"idle", "drain", "submit"}
  /\ hand \in LoadCommand \union UnloadCommand \union {None}
  /\ (wpc = "submit") <=> (hand # None)
  /\ live \subseteq Res
TypeOK == RingsOK /\ StagesOK /\ FlagsOK /\ EngineOK /\ WorkerOK

\* Where a prepared slot may be found.
Places(r) ==
  {<<"command", i>> : i \in {j \in DOMAIN commands :
       commands[j].op = "load" /\ commands[j].res = r}}
    \union {<<"returned", i>> : i \in {j \in DOMAIN retire : retire[j] = r}}
    \union {<<k, i>> : k \in {q \in Kinds : retired[q] = r}, i \in {"pen"}}
    \union {p \in Kinds \X (0..1) : slots[p[1]][p[2]] = r}
    \union {p \in {<<"engine", "stalled">>} : stalled = r}
    \union {p \in {<<"worker", "hand">>} :
               hand # None /\ hand.op = "load" /\ hand.res = r}

\* A slot the worker allocated is in exactly one place until the worker frees
\* it: the audio thread neither drops one (D-8.1 step 4, command.rs:152) nor
\* hands one to two owners, at a full ring, in mid-fade or while bypassed.
OnePlace ==
  \A r \in Res : Cardinality(Places(r)) = IF r \in live THEN 1 ELSE 0

\* A load or unload that passes the drain gate finds its stage's pen empty: the
\* debug_asserts of install, unload and accept_resource never fire.
GateProtectsPen ==
  pc = "drain" /\ budget > 0 /\ commands # <<>>
    => LET c == Head(commands) IN
         IsHandover(c) /\ GateOpen(c) => retired[c.kind] = None

\* With NAM and IR stages in the chain no offer is ever handed back, so the
\* engine never enters the state in which it stops draining altogether.
NeverStalled == stalled = None

\* When the stages run, a stage that is fading has its pen free, so the fade is
\* finalized in the block it ends in; the deferred state that try_finalize_handover
\* provides for, in which a new load would displace the slot being heard, cannot
\* be reached through the engine.
FadeMeetsFreePen ==
  pc = "stages" => \A k \in Kinds : fading[k] => retired[k] = None

\* The blend target always agrees with the slots and the on/off parameter: a
\* first load is heard, an emptied stage passes its input (recompute_mix_target).
BlendFollowsSlots ==
  \A k \in Kinds : mixTarget[k] = (enabled[k] /\ Engaged(slots[k], active[k], fading[k]))

\* Why the gate protects the pens: a pen still occupied between blocks is
\* announced by backlog, one filled during the drain is among the offered and has
\* room set aside for it, and a collect pass misses none without saying so.
OneIf(b) == IF b THEN 1 ELSE 0
Waiting  == OneIf(asked < 1 /\ retired["nam"] # None)
              + OneIf(asked < 2 /\ retired["ir"] # None)

GateInv ==
  /\ stalled = None
  /\ \A k \in Kinds : fading[k] /\ retired[k] # None =>
       pc \in {"drain", "collectBefore"} /\ ~backlog /\ k \in offered
  /\ pc = "idle" => \A k \in Kinds : retired[k] # None => backlog
  /\ pc \in {"drain", "collectBefore"} =>
       \A k \in Kinds : (retired[k] # None => backlog \/ k \in offered)
                         /\ (k \in offered => ~backlog)
  /\ pc = "drain" =>
       /\ reserved = Headroom * (OneIf("nam" \in offered) + OneIf("ir" \in offered))
       /\ RetireSlots >= reserved \/ offered = {}
  /\ pc = "collectBefore" /\ ~backlog => RetireSlots >= Waiting /\ ~rejected
  /\ pc \in {"idle", "drain", "stages"} => asked = 0 /\ ~rejected
  /\ pc \in {"collectBefore", "collectAfter"} =>
       \A i \in 1..asked : retired[ChainOrder[i]] # None => rejected

\* A slot leaves its stage in two ways only: faded out, at the end of its fade,
\* or displaced by a newer command while it is still fading in.
NoCut ==
  [][\A k \in Kinds, i \in 0..1 :
       slots[k][i] # None /\ slots'[k][i] # slots[k][i] =>
         \/ i = active[k] /\ fading[k] /\ ~fading'[k]
         \/ i # active[k] /\ fading[k] /\ remaining[k] > 0 /\ remaining'[k] = Fade]_vars

\* Once the loads stop and the chain is not bypassed, every fade ends, whether or
\* not the worker ever drains the return ring again (issue #56).
FadesEnd ==
  <>[](wpc # "submit" /\ ~bypass) => <>[](\A k \in Kinds : ~fading[k])

\* Between blocks, the next command is a handover the gate will not let through.
Blocked ==
  /\ pc = "idle" /\ commands # <<>> /\ IsHandover(Head(commands))
  /\ (backlog \/ RetireSlots < Headroom)

\* Back-pressure is not permanent: as long as the worker keeps coming back to
\* drain the return ring, commands keep being taken, or there are none to take.
DrainingUnblocks ==
  []<>(wpc = "drain") =>
     []<>(commands = <<>>) \/ []<><<Len(commands') < Len(commands)>>_commands

\* engine.rs:327-330: the gate stays shut only if the worker has died.  Here the
\* worker is alive and finishes every job it begins.
GateReopens == Blocked ~> (pc = "idle" /\ ~Blocked)
=============================================================================
