-------------------------- MODULE ApplicationProofs --------------------------
(* The standalone application: no engine is replaced under streams that run *)
(* it, what the window shows of the audio and of the model is so, a device  *)
(* callback counts for one xrun exactly if it had a dropout, and the        *)
(* streams are opened with what the devices report, for every number of     *)
(* files, presets and calls, every size of buffer and all lists.            *)
(*                                                                          *)
(* The reopens in the inbox are in the order in which they were asked for,  *)
(* behind the one the worker is at, and the last of them is the one the     *)
(* window waits for (ReopenInv): its answer therefore comes when no rebuild *)
(* is left. What the window will show once it has read every answer is what *)
(* the last answer that bears on the name says, and that is the engine's    *)
(* file, which the window reads in the session if the answer is that of a   *)
(* recall (NameInv), but for the steps that leave it unsaid.                *)
EXTENDS AppSession, AudioState, FiniteSetTheorems, TLAPS

CONSTANTS Reports, Preferred, Standard, PreferredFrames, StandardFrames, MaxChannels, Remembered
VARIABLE prefs
Devices == INSTANCE DeviceNegotiation

------------------------------------------------------------------------------
(* Queues.                                                                  *)

LEMMA Appended ==
  ASSUME NEW S, NEW q \in Seq(S), NEW e \in S, NEW r, r = Append(q, e)
  PROVE  /\ r \in Seq(S) /\ Len(q) \in Nat
         /\ DOMAIN q = 1..Len(q) /\ DOMAIN r = 1..(Len(q) + 1)
         /\ \A i \in DOMAIN q : r[i] = q[i]
         /\ r[Len(q) + 1] = e
  OBVIOUS

LEMMA Taken ==
  ASSUME NEW S, NEW q \in Seq(S), q # <<>>, NEW r, r = Tail(q)
  PROVE  /\ r \in Seq(S) /\ Head(q) = q[1] /\ q[1] \in S
         /\ Len(q) \in Nat \ {0} /\ DOMAIN q = 1..Len(q) /\ DOMAIN r = 1..(Len(q) - 1)
         /\ \A i \in DOMAIN r : r[i] = q[i + 1] /\ i + 1 \in DOMAIN q
         /\ \A i \in DOMAIN q : i # 1 => i - 1 \in DOMAIN r /\ q[i] = r[i - 1]
<1>1. q[1] \in S /\ Len(q) \in Nat \ {0}
  OBVIOUS
<1>2. Len(r) = Len(q) - 1 /\ r \in Seq(S) /\ Head(q) = q[1]
  OBVIOUS
<1>3. DOMAIN q = 1..Len(q) /\ DOMAIN r = 1..(Len(q) - 1)
  BY <1>1, <1>2
<1>4. ASSUME NEW i \in DOMAIN r PROVE r[i] = q[i + 1] /\ i + 1 \in DOMAIN q
  BY <1>1, <1>2, <1>3
<1>5. ASSUME NEW i \in DOMAIN q, i # 1 PROVE i - 1 \in DOMAIN r /\ q[i] = r[i - 1]
  <2>1. i - 1 \in DOMAIN r /\ (i - 1) + 1 = i
    BY <1>1, <1>3, <1>5
  <2> QED
    BY <1>4, <2>1
<1> QED
  BY <1>1, <1>2, <1>3, <1>4, <1>5

\* r is q, or what is left of it, or q with something of another kind behind it:
\* where an element of r then comes from.
Follows(S, q, r, kind) ==
  \/ r = q
  \/ q # <<>> /\ r = Tail(q)
  \/ \E e \in S : e.kind # kind /\ r = Append(q, e)

LEMMA QueueFrom ==
  ASSUME NEW S, NEW q \in Seq(S), NEW r, NEW kind, Follows(S, q, r, kind)
  PROVE  \E k \in Nat : \A i \in DOMAIN r : r[i].kind = kind
           => i + k \in DOMAIN q /\ r[i] = q[i + k]
<1>1. CASE r = q
  <2>1. \A i \in DOMAIN r : i + 0 \in DOMAIN q /\ r[i] = q[i + 0]
    BY <1>1
  <2> QED
    BY <2>1
<1>2. CASE q # <<>> /\ r = Tail(q)
  <2>1. \A i \in DOMAIN r : i + 1 \in DOMAIN q /\ r[i] = q[i + 1]
    BY <1>2, Taken
  <2> QED
    BY <2>1
<1>3. CASE \E e \in S : e.kind # kind /\ r = Append(q, e)
  <2>1. PICK e \in S : e.kind # kind /\ r = Append(q, e)
    BY <1>3
  <2>2. /\ Len(q) \in Nat /\ DOMAIN q = 1..Len(q) /\ DOMAIN r = 1..(Len(q) + 1)
        /\ \A i \in DOMAIN q : r[i] = q[i]
        /\ r[Len(q) + 1] = e
    BY <2>1, Appended
  <2>3. ASSUME NEW i \in DOMAIN r, r[i].kind = kind
        PROVE  i + 0 \in DOMAIN q /\ r[i] = q[i + 0]
    <3>1. i # Len(q) + 1
      BY <2>1, <2>2, <2>3
    <3>2. PICK n \in Nat : n = Len(q)
      BY <2>2
    <3>3. i \in 1..(n + 1) /\ i # n + 1
      BY <2>2, <2>3, <3>1, <3>2
    <3>4. i \in 1..n /\ i + 0 = i
      BY <3>3
    <3> QED
      BY <2>2, <3>2, <3>4
  <2> QED
    BY <2>3
<1> QED
  BY <1>1, <1>2, <1>3 DEF Follows

------------------------------------------------------------------------------
(* Types.                                                                   *)

LEMMA InitTyped ==
  ASSUME SessionAssumption, Init
  PROVE  TypeOK
<1>1. Blank \in States /\ preset = None
  BY DEF SessionAssumption, Init, States, Blank
<1>2. instance \in [id : Nat, param : Values, file : Files \cup {None}]
  BY DEF SessionAssumption, Init
<1>3. inbox \in Seq(Commands) /\ outbox \in Seq(Events)
  BY DEF Init
<1> QED
  BY <1>1, <1>2, <1>3 DEF Init, TypeOK

\* What a step puts into a queue, and what it finds at its head.
LEMMA SendTyped ==
  ASSUME SessionAssumption, TypeOK, NEW kind, NEW arg, Message(kind, arg) \in Commands,
         Send(kind, arg)
  PROVE  inbox' \in Seq(Commands)
  BY Appended DEF Send, TypeOK

LEMMA ReportTyped ==
  ASSUME SessionAssumption, TypeOK, NEW kind, NEW arg, Message(kind, arg) \in Events,
         Report(kind, arg)
  PROVE  outbox' \in Seq(Events)
  BY Appended DEF Report, TypeOK

LEMMA TakesTyped ==
  ASSUME TypeOK, NEW kind, Takes(kind)
  PROVE  /\ inbox' \in Seq(Commands) /\ Head(inbox) \in Commands
         /\ kind = "load" => Command \in Files
         /\ kind = "reopen" => Command \in Nat
<1>1. inbox' \in Seq(Commands) /\ Head(inbox) \in Commands
  BY DEF Takes, TypeOK
<1> QED
  BY <1>1 DEF Takes, Command, Commands

LEMMA EventTyped ==
  ASSUME TypeOK, NEW kind, Event(kind)
  PROVE  /\ outbox' \in Seq(Events) /\ Head(outbox) \in Events
         /\ kind = "loaded" => Arg \in Files \cup {None}
         /\ kind = "ready" => Arg \in Nat
         /\ kind = "recalled" => Arg \in Outcomes \cup {"error"}
<1>1. outbox' \in Seq(Events) /\ Head(outbox) \in Events
  BY DEF Event, TypeOK
<1> QED
  BY <1>1 DEF Event, Arg, Events

LEMMA UserTyped ==
  ASSUME SessionAssumption, TypeOK, User
  PROVE  TypeOK'
<1>1. ASSUME NEW v \in Values, SetParam(v) PROVE TypeOK'
  <2>1. mirror' \in States
    BY <1>1 DEF SetParam, TypeOK, States
  <2>2. instance' \in [id : Nat, param : Values, file : Files \cup {None}]
    BY <1>1 DEF SetParam, TypeOK
  <2> QED
    BY <1>1, <2>1, <2>2 DEF SetParam, Intent, TypeOK, shown, audio, SessionAssumption
<1>2. CASE Ask
  <2>1. inbox' \in Seq(Commands)
    <3>1. /\ Message("save", None) \in Commands /\ Message("recall", None) \in Commands
          /\ \A f \in Files : Message("load", f) \in Commands
      BY DEF Message, Commands
    <3> QED
      BY <1>2, <3>1, SendTyped DEF Ask
  <2> QED
    BY <1>2, <2>1 DEF Ask, Intent, TypeOK, shared, shown, audio, SessionAssumption
<1>3. CASE SelectAudioRefused
  <2>1. generation' \in Nat /\ calls' \in Nat
    BY <1>3 DEF SelectAudioRefused, Intent, TypeOK
  <2>2. {mode', failed'} \subseteq BOOLEAN
    BY <1>3 DEF SelectAudioRefused, TypeOK
  <2> QED
    BY <1>3, <2>1, <2>2 DEF SelectAudioRefused, TypeOK, shared, shown
<1>4. CASE SelectAudio
  <2>1. inbox' \in Seq(Commands)
    <3>1. Message("reopen", generation + 1) \in Commands /\ Send("reopen", generation + 1)
      BY <1>4 DEF SelectAudio, Message, Commands, TypeOK
    <3> QED
      BY <3>1, SendTyped
  <2>2. generation' \in Nat /\ calls' \in Nat /\ pending' \in Nat /\ streams' = None
    BY <1>4 DEF SelectAudio, Intent, TypeOK
  <2>3. {mode', failed'} \subseteq BOOLEAN
    BY <1>4 DEF SelectAudio, TypeOK
  <2> QED
    BY <1>4, <2>1, <2>2, <2>3 DEF SelectAudio, TypeOK, shared, shown
<1>5. CASE DeviceLost
  BY <1>5 DEF DeviceLost, Intent, TypeOK, shared, shown, SessionAssumption
<1> QED
  BY <1>1, <1>2, <1>3, <1>4, <1>5 DEF User

LEMMA WindowTyped ==
  ASSUME SessionAssumption, TypeOK, Window
  PROVE  TypeOK'
<1>1. CASE Frame
  BY <1>1 DEF Frame, TypeOK, shared, shown, audio
<1>2. CASE EndFrame
  BY <1>2 DEF EndFrame, TypeOK, shared, shown
<1>3. CASE LoadFinished
  <2>1. outbox' \in Seq(Events) /\ Arg \in Files \cup {None}
    BY <1>3, EventTyped DEF LoadFinished
  <2> QED
    BY <1>3, <2>1 DEF LoadFinished, TypeOK, shared, audio
<1>4. CASE StateSaved
  <2>1. outbox' \in Seq(Events)
    BY <1>4, EventTyped DEF StateSaved
  <2> QED
    BY <1>4, <2>1 DEF StateSaved, TypeOK, shared, audio
<1>5. CASE StateLoaded
  <2>1. outbox' \in Seq(Events)
    BY <1>5, EventTyped DEF StateLoaded
  <2>2. name' \in Files \cup {None}
    BY <1>5 DEF StateLoaded, NameAfter, TypeOK, States
  <2> QED
    BY <1>5, <2>1, <2>2 DEF StateLoaded, TypeOK, shared, audio
<1>6. CASE AudioStreamReady
  <2>1. outbox' \in Seq(Events) /\ Arg \in Nat
    BY <1>6, EventTyped DEF AudioStreamReady
  <2> QED
    BY <1>6, <2>1 DEF AudioStreamReady, Open, TypeOK, shared, shown
<1> QED
  BY <1>1, <1>2, <1>3, <1>4, <1>5, <1>6 DEF Window

\* What a recall that is taken does: state is recalled, with this outcome.
Recalling(state, outcome) ==
  /\ state \in Presets \cup ({preset} \ {None})
  /\ outcome \in IF Alive THEN OutcomesOf(state.file) ELSE {"kept"}
  /\ worker' = [kind |-> "recall", state |-> state, outcome |-> outcome]
  /\ instance' = IF Alive THEN [instance EXCEPT !.param = state.param,
                                                !.file = Stage(outcome, state.file, @)]
                 ELSE instance
  /\ UNCHANGED outbox

LEMMA RecallTyped ==
  ASSUME SessionAssumption, TypeOK, NEW state, NEW outcome, Recalling(state, outcome)
  PROVE  state \in States /\ outcome \in Outcomes
<1>1. state \in States
  BY DEF Recalling, SessionAssumption, TypeOK
<1>2. outcome \in Outcomes
  BY DEF Recalling, OutcomesOf, Outcomes
<1> QED
  BY <1>1, <1>2

LEMMA WorkerTyped ==
  ASSUME SessionAssumption, TypeOK, Worker
  PROVE  TypeOK'
<1>1. CASE Load
  <2>1. inbox' \in Seq(Commands) /\ Command \in Files
    BY <1>1, TakesTyped DEF Load
  <2>2. outbox' \in Seq(Events)
    BY <1>1, <2>1, ReportTyped DEF Load, Message, Events
  <2>3. /\ instance' \in [id : Nat, param : Values, file : Files \cup {None}]
        /\ mirror' \in States
    BY <1>1, <2>1 DEF Load, TypeOK, States
  <2>4. unsaid' \in BOOLEAN
    BY <1>1 DEF Load, TypeOK
  <2> QED
    BY <1>1, <2>1, <2>2, <2>3, <2>4 DEF Load, TypeOK, shown, audio
<1>2. CASE TakeSave
  <2>1. inbox' \in Seq(Commands)
    BY <1>2, TakesTyped DEF TakeSave
  <2>2. worker' \in Halves
    BY <1>2 DEF TakeSave, TypeOK, Halves
  <2> QED
    BY <1>2, <2>1, <2>2 DEF TakeSave, TypeOK, shared, shown, audio
<1>3. CASE Save
  <2>1. outbox' \in Seq(Events)
    BY <1>3, ReportTyped DEF Save, Message, Events
  <2>2. worker.state \in States
    BY <1>3 DEF Save, TypeOK, Halves
  <2> QED
    BY <1>3, <2>1, <2>2 DEF Save, TypeOK, audio
<1>4. CASE TakeRecall
  <2>1. inbox' \in Seq(Commands)
    BY <1>4, TakesTyped DEF TakeRecall
  <2>2. CASE worker' = worker /\ instance' = instance /\ Report("recalled", "error")
    <3>1. outbox' \in Seq(Events)
      BY <2>2, ReportTyped DEF Message, Events
    <3> QED
      BY <1>4, <2>1, <2>2, <3>1 DEF TakeRecall, TypeOK, shown, audio
  <2>3. CASE \E state, outcome : Recalling(state, outcome)
    <3>1. PICK state \in States, outcome \in Outcomes : Recalling(state, outcome)
      BY <2>3, RecallTyped
    <3>2. worker' \in Halves
      BY <3>1 DEF Recalling, Halves
    <3>3. state.param \in Values /\ state.file \in Files \cup {None}
      BY DEF States
    <3>4. instance' \in [id : Nat, param : Values, file : Files \cup {None}]
      BY <3>1, <3>3 DEF Recalling, Stage, Outcomes, TypeOK
    <3> QED
      BY <1>4, <2>1, <3>1, <3>2, <3>4 DEF Recalling, TakeRecall, TypeOK, shown, audio
  <2> QED
    BY <1>4, <2>2, <2>3 DEF TakeRecall, Recalling
<1>5. CASE Recall
  <2>1. worker.state \in States /\ worker.outcome \in Outcomes
    BY <1>5 DEF Recall, TypeOK, Halves
  <2>2. outbox' \in Seq(Events)
    BY <1>5, <2>1, ReportTyped DEF Recall, Message, Events
  <2>3. unsaid' \in BOOLEAN
    BY <1>5 DEF Recall
  <2> QED
    BY <1>5, <2>1, <2>2, <2>3 DEF Recall, TypeOK, audio
<1>6. CASE RebuildFails
  <2>1. inbox' \in Seq(Commands) /\ Command \in Nat
    BY <1>6, TakesTyped DEF RebuildFails
  <2>2. outbox' \in Seq(Events)
    BY <1>6, <2>1, ReportTyped DEF RebuildFails, Message, Events
  <2> QED
    BY <1>6, <2>1, <2>2 DEF RebuildFails, TypeOK, shared, shown, audio
<1>7. CASE TakeRebuild
  <2>1. inbox' \in Seq(Commands) /\ Command \in Nat
    BY <1>7, TakesTyped DEF TakeRebuild
  <2>2. worker' \in Halves
    BY <1>7, <2>1 DEF TakeRebuild, TypeOK, Halves
  <2> QED
    BY <1>7, <2>1, <2>2 DEF TakeRebuild, TypeOK, shared, shown, audio
<1>8. CASE Rebuild
  <2>1. worker.state \in States /\ worker.gen \in Nat
    BY <1>8 DEF Rebuild, TypeOK, Halves
  <2>2. outbox' \in Seq(Events)
    BY <1>8, <2>1, ReportTyped DEF Rebuild, Message, Events
  <2>3. instance' \in [id : Nat, param : Values, file : Files \cup {None}]
    BY <1>8, <2>1 DEF Rebuild, States, Stage, OutcomesOf, Outcomes
  <2>4. unsaid' \in BOOLEAN
    BY <1>8 DEF Rebuild, TypeOK
  <2> QED
    BY <1>8, <2>1, <2>2, <2>3, <2>4 DEF Rebuild, TypeOK, shown, audio
<1> QED
  BY <1>1, <1>2, <1>3, <1>4, <1>5, <1>6, <1>7, <1>8 DEF Worker

LEMMA NextTyped ==
  ASSUME SessionAssumption, TypeOK, [Next]_vars
  PROVE  TypeOK'
<1>1. CASE UNCHANGED vars
  BY <1>1 DEF vars, shared, shown, audio, TypeOK
<1> QED
  BY <1>1, UserTyped, WindowTyped, WorkerTyped DEF Next

------------------------------------------------------------------------------
(* The reopens.                                                             *)

AtRebuild == worker # None /\ worker.kind = "reopen"
NoneLeft == ~AtRebuild /\ \A i \in DOMAIN inbox : inbox[i].kind # "reopen"

Numbered ==
  /\ \A i \in DOMAIN inbox : inbox[i].kind = "reopen" => inbox[i].arg \in 1..generation
  /\ AtRebuild => worker.gen \in 1..generation
  /\ \A i \in DOMAIN outbox : outbox[i].kind = "ready" => outbox[i].arg \in 1..generation
  /\ built \subseteq 1..generation
  /\ pending # None => pending \in 1..generation

\* A later one is behind an earlier one.
Ordered ==
  /\ \A i, j \in DOMAIN inbox :
       i < j /\ inbox[i].kind = "reopen" /\ inbox[j].kind = "reopen"
         => inbox[i].arg < inbox[j].arg
  /\ AtRebuild =>
       \A i \in DOMAIN inbox : inbox[i].kind = "reopen" => worker.gen < inbox[i].arg

\* The window waits for one no earlier than those on their way, and none of
\* these has been built.
Awaited(g) == pending # None /\ g <= pending /\ \A b \in built : b < g
Expected ==
  /\ \A i \in DOMAIN inbox : inbox[i].kind = "reopen" => Awaited(inbox[i].arg)
  /\ AtRebuild => Awaited(worker.gen)

Answered ==
  \A i \in DOMAIN outbox :
    outbox[i].kind = "ready" /\ outbox[i].arg = pending
      => NoneLeft /\ (pending \in built => instance.id = pending)

Fit == streams # None => streams = instance.id /\ NoneLeft

ReopenInv == Numbered /\ Ordered /\ Expected /\ Answered /\ Fit

\* Steps that ask for no reopen, begin none and answer none.
LEMMA NothingReopens ==
  ASSUME TypeOK, ReopenInv, TypeOK', NEW k \in Nat, NEW m \in Nat,
         generation <= generation', UNCHANGED <<pending, built, instance.id>>,
         streams' \in {None, streams}, AtRebuild' => worker' = worker,
         \A i \in DOMAIN inbox' : inbox'[i].kind = "reopen"
           => i + k \in DOMAIN inbox /\ inbox'[i] = inbox[i + k],
         \A i \in DOMAIN outbox' : outbox'[i].kind = "ready"
           => i + m \in DOMAIN outbox /\ outbox'[i] = outbox[i + m]
  PROVE  ReopenInv'
<1>1. generation \in Nat /\ generation' \in Nat /\ 1..generation \subseteq 1..generation'
  BY DEF TypeOK
<1>2. AtRebuild' => AtRebuild
  BY DEF AtRebuild
<1>3. NoneLeft => NoneLeft'
  BY <1>2 DEF NoneLeft
<1>4. Numbered'
  BY <1>1, <1>2 DEF ReopenInv, Numbered
<1>5. Ordered'
  <2>1. ASSUME NEW i \in DOMAIN inbox', NEW j \in DOMAIN inbox', i < j,
               inbox'[i].kind = "reopen", inbox'[j].kind = "reopen"
        PROVE  inbox'[i].arg < inbox'[j].arg
    <3>1. i + k < j + k
      BY <2>1 DEF TypeOK
    <3> QED
      BY <2>1, <3>1 DEF ReopenInv, Ordered
  <2> QED
    BY <1>2, <2>1 DEF ReopenInv, Ordered
<1>6. Expected'
  BY <1>2 DEF ReopenInv, Expected, Awaited
<1>7. Answered'
  BY <1>3 DEF ReopenInv, Answered
<1>8. Fit'
  BY <1>3 DEF ReopenInv, Fit
<1> QED
  BY <1>4, <1>5, <1>6, <1>7, <1>8 DEF ReopenInv

LEMMA SelectAudioReopens ==
  ASSUME SessionAssumption, TypeOK, ReopenInv, SelectAudio
  PROVE  ReopenInv'
<1>0. PICK new \in Nat : new = generation + 1
  BY DEF TypeOK
<1>1. /\ generation' = new /\ pending' = new /\ new \in Nat \ {0} /\ new # None
      /\ 1..generation \subseteq 1..new /\ \A g \in 1..generation : g < new
      /\ generation \in Nat
  BY <1>0 DEF SelectAudio, TypeOK, SessionAssumption
<1>2. PICK e : e = Message("reopen", new)
  OBVIOUS
<1>3. inbox' = Append(inbox, e) /\ e \in Commands /\ e.kind = "reopen" /\ e.arg = new
  BY <1>1, <1>2 DEF SelectAudio, Send, Message, Commands
<1>4. /\ Len(inbox) \in Nat /\ DOMAIN inbox = 1..Len(inbox)
      /\ DOMAIN inbox' = 1..(Len(inbox) + 1)
      /\ \A i \in DOMAIN inbox : inbox'[i] = inbox[i]
      /\ inbox'[Len(inbox) + 1] = e
  BY <1>3, Appended DEF TypeOK
<1>5. UNCHANGED <<outbox, worker, built>> /\ streams' = None
  BY DEF SelectAudio
<1>6. \A i \in DOMAIN inbox' : i \in DOMAIN inbox \/ i = Len(inbox) + 1
  BY <1>4
<1>7. Numbered'
  BY <1>1, <1>3, <1>4, <1>5, <1>6 DEF ReopenInv, Numbered, AtRebuild
<1>8. Ordered'
  <2>1. ASSUME NEW i \in DOMAIN inbox', NEW j \in DOMAIN inbox', i < j,
               inbox'[i].kind = "reopen", inbox'[j].kind = "reopen"
        PROVE  inbox'[i].arg < inbox'[j].arg
    <3>1. i \in DOMAIN inbox
      BY <1>4, <2>1
    <3>2. CASE j \in DOMAIN inbox
      BY <1>4, <2>1, <3>1, <3>2 DEF ReopenInv, Ordered
    <3>3. CASE j = Len(inbox) + 1
      BY <1>1, <1>3, <1>4, <2>1, <3>1, <3>3 DEF ReopenInv, Numbered
    <3> QED
      BY <1>6, <3>2, <3>3
  <2> QED
    BY <1>1, <1>3, <1>4, <1>5, <1>6, <2>1 DEF ReopenInv, Ordered, Numbered, AtRebuild
<1>9. \A g \in 1..generation : Awaited(g) => Awaited(g)'
  BY <1>1, <1>5 DEF Awaited
<1>10. Awaited(new)'
  BY <1>1, <1>5 DEF Awaited, ReopenInv, Numbered
<1>11. Expected'
  <2>1. ASSUME NEW i \in DOMAIN inbox', inbox'[i].kind = "reopen" PROVE Awaited(inbox[i].arg)'
    <3>1. CASE i \in DOMAIN inbox
      <4>1. inbox'[i] = inbox[i] /\ inbox[i].arg \in 1..generation /\ Awaited(inbox[i].arg)
        BY <1>4, <2>1, <3>1 DEF ReopenInv, Expected, Numbered
      <4> QED
        BY <1>9, <4>1 DEF Awaited
    <3>2. CASE i = Len(inbox) + 1
      BY <1>3, <1>4, <1>10, <3>2 DEF Awaited
    <3> QED
      BY <1>6, <3>1, <3>2
  <2>2. AtRebuild' => Awaited(worker.gen)'
    BY <1>5, <1>9 DEF ReopenInv, Expected, Numbered, AtRebuild, Awaited
  <2> QED
    BY <2>1, <2>2 DEF Expected, Awaited
<1>12. Answered'
  BY <1>1, <1>5 DEF Answered, ReopenInv, Numbered
<1>13. Fit'
  BY <1>5 DEF Fit
<1> QED
  BY <1>7, <1>8, <1>11, <1>12, <1>13 DEF ReopenInv

LEMMA OpenStreams ==
  ASSUME NEW g, Open(g)
  PROVE  streams' = streams \/ (g \in built /\ streams' = g)
  BY DEF Open

LEMMA AudioStreamReadyReopens ==
  ASSUME SessionAssumption, TypeOK, ReopenInv, AudioStreamReady
  PROVE  ReopenInv'
<1>1. /\ outbox \in Seq(Events) /\ outbox # <<>> /\ outbox' = Tail(outbox)
      /\ Head(outbox).kind = "ready" /\ Arg = Head(outbox).arg
  BY DEF AudioStreamReady, Event, Arg, TypeOK
<1>2. /\ \A i \in DOMAIN outbox' : i + 1 \in DOMAIN outbox /\ outbox'[i] = outbox[i + 1]
      /\ 1 \in DOMAIN outbox /\ outbox[1].kind = "ready" /\ outbox[1].arg = Arg
  BY <1>1, Taken
<1>3. UNCHANGED <<inbox, worker, built, generation, instance>>
  BY DEF AudioStreamReady, shared
<1>4. Numbered' /\ Ordered'
  <2>1. pending' \in {None, pending}
    BY DEF AudioStreamReady
  <2> QED
    BY <1>2, <1>3, <2>1 DEF ReopenInv, Numbered, Ordered, AtRebuild
<1>5. NoneLeft' <=> NoneLeft
  BY <1>3 DEF NoneLeft, AtRebuild
<1>6. CASE pending = Arg
  <2>1. NoneLeft /\ (pending \in built => instance.id = pending)
    BY <1>2, <1>6 DEF ReopenInv, Answered
  <2>2. pending' = None /\ (streams' = streams \/ (Arg \in built /\ streams' = Arg))
    <3>1. pending' = None /\ Open(Arg)
      BY <1>6 DEF AudioStreamReady
    <3> QED
      BY <3>1, OpenStreams
  <2>3. Expected'
    BY <1>5, <2>1 DEF Expected, NoneLeft
  <2>4. Answered'
    BY <1>5, <1>3, <2>1, <2>2, EventTyped, <1>2 DEF Answered, SessionAssumption, TypeOK, ReopenInv, Numbered
  <2>5. Fit'
    BY <1>3, <1>5, <1>6, <2>1, <2>2 DEF ReopenInv, Fit
  <2> QED
    BY <1>4, <2>3, <2>4, <2>5 DEF ReopenInv
<1>7. CASE pending # Arg
  <2>1. UNCHANGED <<pending, streams>>
    BY <1>7 DEF AudioStreamReady
  <2>2. Expected'
    BY <1>3, <2>1 DEF ReopenInv, Expected, Awaited, AtRebuild
  <2>3. Answered'
    BY <1>2, <1>3, <1>5, <2>1 DEF ReopenInv, Answered
  <2>4. Fit'
    BY <1>3, <1>5, <2>1 DEF ReopenInv, Fit
  <2> QED
    BY <1>4, <2>2, <2>3, <2>4 DEF ReopenInv
<1> QED
  BY <1>6, <1>7

\* The worker takes a reopen: it was the first, and the others are behind it.
LEMMA TakenReopen ==
  ASSUME TypeOK, ReopenInv, Takes("reopen")
  PROVE  /\ \A i \in DOMAIN inbox' : i + 1 \in DOMAIN inbox /\ inbox'[i] = inbox[i + 1]
         /\ \A i \in DOMAIN inbox' : inbox'[i].kind = "reopen" => Command < inbox'[i].arg
         /\ Command \in 1..generation /\ Awaited(Command) /\ worker = None /\ streams = None
<1>1. /\ inbox \in Seq(Commands) /\ inbox # <<>> /\ inbox' = Tail(inbox)
      /\ Head(inbox).kind = "reopen" /\ Command = Head(inbox).arg /\ worker = None
  BY DEF Takes, Command, TypeOK
<1>2. /\ \A i \in DOMAIN inbox' : i + 1 \in DOMAIN inbox /\ inbox'[i] = inbox[i + 1]
      /\ 1 \in DOMAIN inbox /\ inbox[1].kind = "reopen" /\ inbox[1].arg = Command
      /\ DOMAIN inbox' = 1..(Len(inbox) - 1) /\ Len(inbox) \in Nat
  BY <1>1, Taken
<1>3. ASSUME NEW i \in DOMAIN inbox', inbox'[i].kind = "reopen"
      PROVE  Command < inbox'[i].arg
  <2>1. i + 1 > 1 /\ i + 1 \in DOMAIN inbox /\ inbox'[i] = inbox[i + 1]
    BY <1>2
  <2> QED
    BY <1>2, <1>3, <2>1 DEF ReopenInv, Ordered
<1>4. ~NoneLeft
  BY <1>2 DEF NoneLeft
<1>5. Command \in 1..generation /\ Awaited(Command) /\ streams = None
  BY <1>2, <1>4 DEF ReopenInv, Numbered, Expected, Fit
<1> QED
  BY <1>1, <1>2, <1>3, <1>5

\* It is answered, with an engine built for it or without.
LEMMA AnswerReopens ==
  ASSUME SessionAssumption, TypeOK, ReopenInv, TypeOK', NEW g \in 1..generation, NEW k \in Nat,
         Report("ready", g), Awaited(g), ~AtRebuild',
         \A i \in DOMAIN inbox' : i + k \in DOMAIN inbox /\ inbox'[i] = inbox[i + k],
         \A i \in DOMAIN inbox' : inbox'[i].kind = "reopen" => g < inbox'[i].arg,
         UNCHANGED <<generation, pending>>, streams = None, streams' = None,
         \/ UNCHANGED <<built, instance>>
         \/ built' = built \cup {g} /\ instance'.id = g,
         ~NoneLeft
  PROVE  ReopenInv'
<1>1. PICK e : e = Message("ready", g)
  OBVIOUS
<1>2. generation \in Nat /\ g \in Nat /\ pending \in Nat /\ g <= pending /\ pending # None
  BY DEF TypeOK, Awaited, ReopenInv, Numbered
<1>3. outbox' = Append(outbox, e) /\ e \in Events /\ e.kind = "ready" /\ e.arg = g
  BY <1>1, <1>2 DEF Report, Message, Events
<1>4. /\ Len(outbox) \in Nat /\ DOMAIN outbox = 1..Len(outbox)
      /\ DOMAIN outbox' = 1..(Len(outbox) + 1)
      /\ \A i \in DOMAIN outbox : outbox'[i] = outbox[i]
      /\ outbox'[Len(outbox) + 1] = e
  BY <1>3, Appended DEF TypeOK
<1>5. \A i \in DOMAIN outbox' : i \in DOMAIN outbox \/ i = Len(outbox) + 1
  BY <1>4
<1>6. \A i \in DOMAIN outbox : outbox[i].kind = "ready" => outbox[i].arg # pending
  BY DEF ReopenInv, Answered
<1>7. Numbered'
  BY <1>3, <1>4, <1>5 DEF ReopenInv, Numbered
<1>8. Ordered'
  <2>1. ASSUME NEW i \in DOMAIN inbox', NEW j \in DOMAIN inbox', i < j,
               inbox'[i].kind = "reopen", inbox'[j].kind = "reopen"
        PROVE  inbox'[i].arg < inbox'[j].arg
    <3>1. i + k < j + k
      BY <2>1 DEF TypeOK
    <3> QED
      BY <2>1, <3>1 DEF ReopenInv, Ordered
  <2> QED
    BY <2>1 DEF Ordered
<1>9. Expected'
  <2>1. ASSUME NEW i \in DOMAIN inbox', inbox'[i].kind = "reopen" PROVE Awaited(inbox[i].arg)'
    <3>1. PICK h \in 1..generation : h = inbox'[i].arg
      BY <2>1 DEF ReopenInv, Numbered
    <3>2. Awaited(h) /\ g < h
      BY <2>1, <3>1 DEF ReopenInv, Expected
    <3>3. Awaited(h)'
      BY <3>2 DEF Awaited
    <3> QED
      BY <3>1, <3>3 DEF Awaited
  <2> QED
    BY <2>1 DEF Expected
<1>10. g = pending => NoneLeft'
  <2>1. ASSUME NEW i \in DOMAIN inbox', inbox'[i].kind = "reopen" PROVE g # pending
    <3>1. Awaited(inbox'[i].arg) /\ inbox'[i].arg \in 1..generation
      BY <2>1 DEF ReopenInv, Expected, Numbered
    <3> QED
      BY <1>2, <2>1, <3>1 DEF Awaited
  <2> QED
    BY <2>1 DEF NoneLeft
<1>11. g = pending => (pending \in built' => instance'.id = pending)
  BY <1>2 DEF Awaited, ReopenInv, Numbered
<1>12. Answered'
  BY <1>3, <1>4, <1>5, <1>6, <1>10, <1>11 DEF Answered
<1>13. Fit'
  BY DEF Fit
<1> QED
  BY <1>7, <1>8, <1>9, <1>12, <1>13 DEF ReopenInv


\* Steps that take or ask for something else, or read or give another answer.
LEMMA OthersReopen ==
  ASSUME TypeOK, ReopenInv, TypeOK',
         generation <= generation', UNCHANGED <<pending, built, instance.id>>,
         streams' \in {None, streams}, AtRebuild' => worker' = worker,
         Follows(Commands, inbox, inbox', "reopen"), Follows(Events, outbox, outbox', "ready")
  PROVE  ReopenInv'
<1>1. inbox \in Seq(Commands) /\ outbox \in Seq(Events)
  BY DEF TypeOK
<1>2. PICK k \in Nat : \A i \in DOMAIN inbox' : inbox'[i].kind = "reopen"
                       => i + k \in DOMAIN inbox /\ inbox'[i] = inbox[i + k]
  BY <1>1, QueueFrom
<1>3. PICK m \in Nat : \A i \in DOMAIN outbox' : outbox'[i].kind = "ready"
                       => i + m \in DOMAIN outbox /\ outbox'[i] = outbox[i + m]
  BY <1>1, QueueFrom
<1> QED
  BY <1>2, <1>3, NothingReopens

LEMMA ReopenStep ==
  ASSUME SessionAssumption, TypeOK, ReopenInv, TypeOK', [Next]_vars
  PROVE  ReopenInv'
<1>0. generation \in Nat /\ Len(inbox) \in Nat
  BY DEF TypeOK
<1>1. ASSUME NEW v \in Values, SetParam(v) PROVE ReopenInv'
  <2>1. instance'.id = instance.id
    BY <1>1 DEF SetParam, TypeOK
  <2> QED
    BY <1>0, <1>1, <2>1, OthersReopen DEF Follows, SetParam, audio
<1>2. CASE Ask
  <2>1. \E e \in Commands : e.kind # "reopen" /\ inbox' = Append(inbox, e)
    <3>1. CASE Send("save", None)
      <4>1. Message("save", None) \in Commands /\ Message("save", None).kind # "reopen"
        BY DEF Message, Commands
      <4> QED
        BY <3>1, <4>1 DEF Send
    <3>2. CASE Send("recall", None)
      <4>1. Message("recall", None) \in Commands /\ Message("recall", None).kind # "reopen"
        BY DEF Message, Commands
      <4> QED
        BY <3>2, <4>1 DEF Send
    <3>3. ASSUME NEW f \in Files, Send("load", f)
          PROVE  \E e \in Commands : e.kind # "reopen" /\ inbox' = Append(inbox, e)
      <4>1. Message("load", f) \in Commands /\ Message("load", f).kind # "reopen"
        BY DEF Message, Commands
      <4> QED
        BY <3>3, <4>1 DEF Send
    <3> QED
      BY <1>2, <3>1, <3>2, <3>3 DEF Ask
  <2> QED
    BY <1>0, <1>2, <2>1, OthersReopen DEF Follows, Ask, audio, shared, AtRebuild
<1>3. CASE SelectAudioRefused
  BY <1>0, <1>3, OthersReopen DEF Follows, SelectAudioRefused, shared, AtRebuild
<1>4. CASE DeviceLost
  BY <1>0, <1>4, OthersReopen DEF Follows, DeviceLost, shared, AtRebuild
<1>5. CASE Frame
  BY <1>0, <1>5, OthersReopen DEF Follows, Frame, shared, audio, AtRebuild
<1>6. CASE EndFrame
  BY <1>0, <1>6, OthersReopen DEF Follows, EndFrame, shared, AtRebuild
<1>7. CASE LoadFinished
  BY <1>0, <1>7, OthersReopen DEF Follows, LoadFinished, Event, shared, audio, AtRebuild
<1>8. CASE StateSaved
  BY <1>0, <1>8, OthersReopen DEF Follows, StateSaved, Event, shared, audio, AtRebuild
<1>9. CASE StateLoaded
  BY <1>0, <1>9, OthersReopen DEF Follows, StateLoaded, Event, shared, audio, AtRebuild
<1>10. CASE Load
  <2>1. \E e \in Events : e.kind # "ready" /\ outbox' = Append(outbox, e)
    <3>1. PICK a \in Files \cup {None} : Report("loaded", a)
      BY <1>10, TakesTyped DEF Load
    <3>2. Message("loaded", a) \in Events /\ Message("loaded", a).kind # "ready"
      BY DEF Message, Events
    <3> QED
      BY <3>1, <3>2 DEF Report
  <2>2. instance'.id = instance.id
    BY <1>10 DEF Load, TypeOK
  <2> QED
    BY <1>0, <1>10, <2>1, <2>2, OthersReopen DEF Follows, Load, Takes, audio, AtRebuild
<1>11. CASE TakeSave
  <2>1. worker'.kind # "reopen"
    BY <1>11 DEF TakeSave
  <2> QED
    BY <1>0, <1>11, <2>1, OthersReopen DEF Follows, TakeSave, Takes, shared, audio, AtRebuild
<1>12. CASE Save
  <2>1. \E e \in Events : e.kind # "ready" /\ outbox' = Append(outbox, e)
    <3>1. PICK a \in {"ok", "error"} : Report("saved", a)
      BY <1>12 DEF Save
    <3>2. Message("saved", a) \in Events /\ Message("saved", a).kind # "ready"
      BY DEF Message, Events
    <3> QED
      BY <3>1, <3>2 DEF Report
  <2> QED
    BY <1>0, <1>12, <2>1, OthersReopen DEF Follows, Save, audio, AtRebuild
<1>13. CASE TakeRecall
  <2>1. UNCHANGED outbox \/ \E e \in Events : e.kind # "ready" /\ outbox' = Append(outbox, e)
    <3>1. Message("recalled", "error") \in Events /\ Message("recalled", "error").kind # "ready"
      BY DEF Message, Events
    <3> QED
      BY <1>13, <3>1 DEF TakeRecall, Report
  <2>2. instance'.id = instance.id
    BY <1>13 DEF TakeRecall, TypeOK
  <2>3. AtRebuild' => worker' = worker
    <3>1. CASE \E state, outcome : Recalling(state, outcome)
      <4>1. PICK state, outcome : Recalling(state, outcome)
        BY <3>1
      <4> QED
        BY <4>1 DEF Recalling, AtRebuild
    <3>2. CASE UNCHANGED worker
      BY <3>2
    <3> QED
      BY <1>13, <3>1, <3>2 DEF TakeRecall, Recalling
  <2>4. UNCHANGED <<audio, built>> /\ worker = None /\ inbox # <<>>
        /\ Head(inbox).kind = "recall" /\ inbox' = Tail(inbox)
    BY <1>13 DEF TakeRecall, Takes
  <2> QED
    BY <1>0, <2>1, <2>2, <2>3, <2>4, OthersReopen DEF Follows, audio
<1>14. CASE Recall
  <2>1. \E e \in Events : e.kind # "ready" /\ outbox' = Append(outbox, e)
    <3>1. PICK a \in Outcomes : a = worker.outcome
      BY <1>14 DEF Recall, TypeOK, Halves
    <3>2. Message("recalled", a) \in Events /\ Message("recalled", a).kind # "ready"
      BY DEF Message, Events
    <3> QED
      BY <1>14, <3>1, <3>2 DEF Recall, Report
  <2> QED
    BY <1>0, <1>14, <2>1, OthersReopen DEF Follows, Recall, audio, AtRebuild
<1>15. CASE RebuildFails
  <2>1. PICK g : g = Command
    OBVIOUS
  <2>2. /\ \A i \in DOMAIN inbox' : i + 1 \in DOMAIN inbox /\ inbox'[i] = inbox[i + 1]
        /\ \A i \in DOMAIN inbox' : inbox'[i].kind = "reopen" => g < inbox'[i].arg
        /\ g \in 1..generation /\ Awaited(g) /\ worker = None /\ streams = None
        /\ Report("ready", g) /\ ~NoneLeft
    <3>1. ~NoneLeft
      BY <1>15 DEF RebuildFails, Takes, TypeOK, NoneLeft
    <3> QED
      BY <1>15, <2>1, <3>1, TakenReopen DEF RebuildFails
  <2> QED
    BY <1>15, <2>2, AnswerReopens DEF RebuildFails, shared, audio, AtRebuild
<1>16. CASE TakeRebuild
  <2>1. PICK g : g = Command
    OBVIOUS
  <2>2. /\ \A i \in DOMAIN inbox' : i + 1 \in DOMAIN inbox /\ inbox'[i] = inbox[i + 1]
        /\ \A i \in DOMAIN inbox' : inbox'[i].kind = "reopen" => g < inbox'[i].arg
        /\ g \in 1..generation /\ Awaited(g) /\ worker = None /\ streams = None
        /\ worker'.gen = g
    BY <1>16, <2>1, TakenReopen DEF TakeRebuild
  <2>3. UNCHANGED <<outbox, generation, pending, built, instance, streams>> /\ ~NoneLeft
    BY <1>16 DEF TakeRebuild, Takes, TypeOK, NoneLeft, shared, audio
  <2>4. Numbered'
    BY <2>2, <2>3 DEF ReopenInv, Numbered
  <2>5. Ordered'
    <3>1. ASSUME NEW i \in DOMAIN inbox', NEW j \in DOMAIN inbox', i < j,
                 inbox'[i].kind = "reopen", inbox'[j].kind = "reopen"
          PROVE  inbox'[i].arg < inbox'[j].arg
      <4>1. i + 1 < j + 1
        BY <3>1 DEF TypeOK
      <4> QED
        BY <2>2, <3>1, <4>1 DEF ReopenInv, Ordered
    <3> QED
      BY <2>2, <3>1 DEF Ordered
  <2>6. Expected'
    BY <2>2, <2>3 DEF ReopenInv, Expected, Awaited
  <2>7. Answered'
    BY <2>3 DEF ReopenInv, Answered
  <2>8. Fit'
    BY <2>2, <2>3 DEF Fit
  <2> QED
    BY <2>4, <2>5, <2>6, <2>7, <2>8 DEF ReopenInv
<1>17. CASE Rebuild
  <2>1. PICK g : g = worker.gen
    OBVIOUS
  <2>2. AtRebuild
    BY <1>17 DEF Rebuild, AtRebuild
  <2>3. g \in 1..generation /\ Awaited(g) /\ streams = None /\ ~NoneLeft
    BY <2>1, <2>2 DEF ReopenInv, Numbered, Expected, Fit, NoneLeft
  <2>4. /\ UNCHANGED <<inbox, generation, pending, streams>> /\ worker' = None
        /\ Report("ready", g) /\ built' = built \cup {g} /\ instance'.id = g
    BY <1>17, <2>1 DEF Rebuild, audio
  <2>5. /\ \A i \in DOMAIN inbox' : i + 0 \in DOMAIN inbox /\ inbox'[i] = inbox[i + 0]
        /\ \A i \in DOMAIN inbox' : inbox'[i].kind = "reopen" => g < inbox'[i].arg
    BY <2>1, <2>2, <2>4 DEF TypeOK, ReopenInv, Ordered
  <2> QED
    BY <2>3, <2>4, <2>5, AnswerReopens DEF AtRebuild
<1>18. CASE UNCHANGED vars
  BY <1>0, <1>18, OthersReopen DEF Follows, vars, shared, audio, AtRebuild
<1> QED
  BY <1>1, <1>2, <1>3, <1>4, <1>5, <1>6, <1>7, <1>8, <1>9, <1>10, <1>11, <1>12, <1>13, <1>14,
     <1>15, <1>16, <1>17, <1>18, SelectAudioReopens, AudioStreamReadyReopens
     DEF Next, User, Window, Worker

\* An engine is replaced only while no callback runs it: open streams run the
\* Instance's engine and no rebuild is on its way, for any number of reopens,
\* answers and losses (AppHost::initiate_audio_reopen, apply_audio_reopen).
THEOREM NoEngineReplacedInUse ==
  ASSUME SessionAssumption
  PROVE  Spec => []StreamsFit
<1>1. Init => TypeOK /\ ReopenInv
  <2> SUFFICES ASSUME Init PROVE TypeOK /\ ReopenInv
    OBVIOUS
  <2>1. DOMAIN inbox = {} /\ DOMAIN outbox = {}
    BY DEF Init
  <2>2. Numbered /\ Ordered /\ Expected /\ Answered /\ Fit
    BY <2>1 DEF Init, Numbered, Ordered, Expected, Answered, Fit, NoneLeft, AtRebuild
  <2> QED
    BY <2>2, InitTyped DEF ReopenInv
<1>2. TypeOK /\ ReopenInv /\ [Next]_vars => TypeOK' /\ ReopenInv'
  BY NextTyped, ReopenStep
<1>3. ReopenInv => StreamsFit
  BY DEF ReopenInv, Fit, NoneLeft, AtRebuild, StreamsFit, Rebuilding, Message
<1> QED
  BY <1>1, <1>2, <1>3, PTL DEF Spec

------------------------------------------------------------------------------
(* The name.                                                                *)

\* An answer that bears on it, and the last of them in a queue.
Speaks(e) ==
  \/ e.kind = "loaded" /\ e.arg # None
  \/ e.kind = "recalled" /\ e.arg \in {"loaded", "unloaded"}
Silent(q) == \A i \in DOMAIN q : ~Speaks(q[i])
Last(q, i) == Speaks(q[i]) /\ \A j \in DOMAIN q : j > i => ~Speaks(q[j])

\* What it will make of the name is what the engine holds.
Agrees(e) ==
  /\ e.kind = "loaded" => e.arg = instance.file
  /\ e.kind = "recalled" /\ e.arg = "loaded" => mirror.file = instance.file
  /\ e.kind = "recalled" /\ e.arg = "unloaded" => instance.file = None

\* What the window shows, or will once it has read the last of them.
Told ==
  /\ Silent(outbox) => name = instance.file
  /\ \A i \in DOMAIN outbox : Last(outbox, i) => Agrees(outbox[i])

\* The engine has been given a state the session does not have yet.
Delivering == worker # None /\ worker.kind = "recall" /\ worker.outcome # "kept"

NameInv ==
  /\ ~Delivering /\ ~unsaid => Told
  /\ Delivering => instance.file = Stage(worker.outcome, worker.state.file, instance.file)

LEMMA ReportedMute ==
  ASSUME TypeOK, NEW e \in Events, ~Speaks(e), outbox' = Append(outbox, e)
  PROVE  /\ Silent(outbox)' => Silent(outbox)
         /\ \A i \in DOMAIN outbox' : Last(outbox, i)'
              => i \in DOMAIN outbox /\ outbox'[i] = outbox[i] /\ Last(outbox, i)
<1>0. outbox \in Seq(Events)
  BY DEF TypeOK
<1>1. PICK n \in Nat : n = Len(outbox)
  BY <1>0
<1>2. /\ DOMAIN outbox = 1..n /\ DOMAIN outbox' = 1..(n + 1)
      /\ \A i \in DOMAIN outbox : outbox'[i] = outbox[i]
      /\ outbox'[n + 1] = e
  BY <1>0, <1>1, Appended
<1>3. \A i \in DOMAIN outbox' : i \in DOMAIN outbox \/ i = n + 1
  BY <1>2
<1>4. DOMAIN outbox \subseteq DOMAIN outbox'
  BY <1>2
<1> QED
  BY <1>2, <1>3, <1>4 DEF Silent, Last

LEMMA ReportedWord ==
  ASSUME TypeOK, NEW e \in Events, Speaks(e), outbox' = Append(outbox, e)
  PROVE  /\ ~Silent(outbox)'
         /\ \A i \in DOMAIN outbox' : Last(outbox, i)' => outbox'[i] = e
<1>0. outbox \in Seq(Events)
  BY DEF TypeOK
<1>1. PICK n \in Nat : n = Len(outbox)
  BY <1>0
<1>2. DOMAIN outbox' = 1..(n + 1) /\ outbox'[n + 1] = e
  BY <1>0, <1>1, Appended
<1>3. n + 1 \in DOMAIN outbox'
  BY <1>2
<1>4. \A i \in DOMAIN outbox' : i = n + 1 \/ n + 1 > i
  BY <1>2
<1> QED
  BY <1>2, <1>3, <1>4 DEF Silent, Last

LEMMA ReadWord ==
  ASSUME TypeOK, outbox # <<>>, outbox' = Tail(outbox)
  PROVE  /\ Silent(outbox)' /\ ~Speaks(outbox[1]) => Silent(outbox)
         /\ Silent(outbox)' /\ Speaks(outbox[1]) => Last(outbox, 1)
         /\ 1 \in DOMAIN outbox
         /\ \A i \in DOMAIN outbox' : Last(outbox, i)'
              => i + 1 \in DOMAIN outbox /\ outbox'[i] = outbox[i + 1] /\ Last(outbox, i + 1)
<1>0. outbox \in Seq(Events)
  BY DEF TypeOK
<1>1. /\ 1 \in DOMAIN outbox
      /\ \A i \in DOMAIN outbox' :
           i \in Nat /\ outbox'[i] = outbox[i + 1] /\ i + 1 \in DOMAIN outbox
      /\ \A i \in DOMAIN outbox : i # 1 => i - 1 \in DOMAIN outbox' /\ outbox[i] = outbox'[i - 1]
      /\ \A i \in DOMAIN outbox : i \in Nat
  BY <1>0, Taken
<1>2. Silent(outbox)' => \A i \in DOMAIN outbox : i # 1 => ~Speaks(outbox[i])
  BY <1>1 DEF Silent
<1>3. ASSUME NEW i \in DOMAIN outbox', Last(outbox, i)' PROVE Last(outbox, i + 1)
  <2>1. ASSUME NEW j \in DOMAIN outbox, j > i + 1 PROVE ~Speaks(outbox[j])
    <3>1. j - 1 \in DOMAIN outbox' /\ outbox[j] = outbox'[j - 1] /\ j - 1 > i
      <4>1. i \in Nat /\ j \in Nat
        BY <1>1
      <4>2. j # 1 /\ j - 1 > i
        BY <2>1, <4>1
      <4> QED
        BY <1>1, <4>2
    <3> QED
      BY <1>3, <3>1 DEF Last
  <2>2. Speaks(outbox[i + 1])
    BY <1>1, <1>3 DEF Last
  <2> QED
    BY <2>1, <2>2 DEF Last
<1> QED
  BY <1>1, <1>2, <1>3 DEF Silent, Last

\* An answer is read, and if it bears on the name is followed.
LEMMA AnswerRead ==
  ASSUME TypeOK, Told, outbox # <<>>, outbox' = Tail(outbox), NEW e, e = Head(outbox),
         UNCHANGED <<mirror.file, instance.file>>,
         ~Speaks(e) => UNCHANGED name,
         Speaks(e) /\ Agrees(e) => name' = instance.file
  PROVE  Told'
<1>1. /\ Silent(outbox)' /\ ~Speaks(e) => Silent(outbox)
      /\ Silent(outbox)' /\ Speaks(e) => Last(outbox, 1)
      /\ 1 \in DOMAIN outbox /\ e = outbox[1]
      /\ \A i \in DOMAIN outbox' : Last(outbox, i)'
           => i + 1 \in DOMAIN outbox /\ outbox'[i] = outbox[i + 1] /\ Last(outbox, i + 1)
  <2>1. e = outbox[1]
    BY DEF TypeOK
  <2> QED
    BY <2>1, ReadWord
<1>2. \A f : Agrees(f) => Agrees(f)'
  BY DEF Agrees
<1>3. ASSUME NEW i \in DOMAIN outbox', Last(outbox, i)' PROVE Agrees(outbox[i])'
  <2>1. PICK f : f = outbox[i + 1]
    OBVIOUS
  <2>2. Agrees(f) /\ outbox'[i] = f
    BY <1>1, <1>3, <2>1 DEF Told
  <2>3. Agrees(f)'
    BY <1>2, <2>2
  <2> QED
    BY <2>2, <2>3
<1>4. ASSUME Silent(outbox)' PROVE name' = instance'.file
  <2>1. CASE Speaks(e)
    <3>1. Agrees(e)
      BY <1>1, <1>4, <2>1 DEF Told
    <3> QED
      BY <2>1, <3>1
  <2>2. CASE ~Speaks(e)
    BY <1>1, <1>4, <2>2 DEF Told
  <2> QED
    BY <2>1, <2>2
<1> QED
  BY <1>3, <1>4 DEF Told

\* An answer that bears on the name is given, and is so.
LEMMA AnswerGiven ==
  ASSUME TypeOK, NEW e \in Events, Speaks(e), outbox' = Append(outbox, e), Agrees(e)'
  PROVE  Told'
<1>1. /\ ~Silent(outbox)'
      /\ \A i \in DOMAIN outbox' : Last(outbox, i)' => outbox'[i] = e
  BY ReportedWord
<1>2. ASSUME NEW i \in DOMAIN outbox', Last(outbox, i)' PROVE Agrees(outbox[i])'
  <2>1. outbox'[i] = e
    BY <1>1, <1>2
  <2> QED
    BY <2>1
<1> QED
  BY <1>1, <1>2 DEF Told

\* Nothing is said that bears on the name, and what is still to be read stays so:
\* the engine holds what it held, and the session does too or nothing is read from it.
LEMMA NothingSaid ==
  ASSUME TypeOK, Told, UNCHANGED <<name, instance.file>>,
         UNCHANGED mirror.file \/ ~Unread(Message("recalled", "loaded")),
         UNCHANGED outbox \/ \E e \in Events : ~Speaks(e) /\ outbox' = Append(outbox, e)
  PROVE  Told'
<1>1. /\ Silent(outbox)' => Silent(outbox)
      /\ \A i \in DOMAIN outbox' : Last(outbox, i)'
           => i \in DOMAIN outbox /\ outbox'[i] = outbox[i] /\ Last(outbox, i)
  <2>1. CASE UNCHANGED outbox
    BY <2>1 DEF Silent, Last
  <2>2. CASE \E e \in Events : ~Speaks(e) /\ outbox' = Append(outbox, e)
    BY <2>2, ReportedMute
  <2> QED
    BY <2>1, <2>2
<1>2. ASSUME NEW i \in DOMAIN outbox', Last(outbox, i)' PROVE Agrees(outbox[i])'
  <2>1. i \in DOMAIN outbox /\ outbox'[i] = outbox[i] /\ Agrees(outbox[i])
    BY <1>1, <1>2 DEF Told
  <2>2. PICK e \in Events : e = outbox[i]
    BY <2>1 DEF TypeOK
  <2>3. UNCHANGED mirror.file \/ ~(e.kind = "recalled" /\ e.arg = "loaded")
    <3>1. e.kind = "recalled" /\ e.arg = "loaded" => e = Message("recalled", "loaded")
      BY <2>2 DEF Events, Message
    <3> QED
      BY <2>1, <2>2, <3>1 DEF Unread
  <2>4. Agrees(e)'
    BY <2>1, <2>2, <2>3 DEF Agrees
  <2> QED
    BY <2>1, <2>2, <2>4
<1> QED
  BY <1>1, <1>2 DEF Told

\* Steps that leave the worker where it is, the files and the name alone.
LEMMA NameKeptAlone ==
  ASSUME TypeOK, NameInv,
         UNCHANGED <<name, unsaid, worker, mirror.file, instance.file, outbox>>
  PROVE  NameInv'
<1>1. Delivering' <=> Delivering
  BY DEF Delivering
<1>2. Told => Told'
  BY NothingSaid
<1>3. UNCHANGED Stage(worker.outcome, worker.state.file, instance.file)
  BY DEF Stage
<1> QED
  BY <1>1, <1>2, <1>3 DEF NameInv

\* Steps that read an answer.
LEMMA NameRead ==
  ASSUME TypeOK, NameInv, NEW kind, Event(kind), UNCHANGED <<worker, mirror, instance, unsaid>>,
         ~Speaks(Head(outbox)) => UNCHANGED name,
         Speaks(Head(outbox)) /\ Agrees(Head(outbox)) => name' = instance.file
  PROVE  NameInv'
<1>1. Delivering' <=> Delivering
  BY DEF Delivering
<1>2. Told => Told'
  BY AnswerRead DEF Event
<1>3. UNCHANGED Stage(worker.outcome, worker.state.file, instance.file)
  BY DEF Stage
<1> QED
  BY <1>1, <1>2, <1>3 DEF NameInv

LEMMA UserNames ==
  ASSUME SessionAssumption, TypeOK, NameInv, User
  PROVE  NameInv'
<1>1. ASSUME NEW v \in Values, SetParam(v) PROVE NameInv'
  <2>1. mirror'.file = mirror.file
    BY <1>1 DEF SetParam, TypeOK, States
  <2>2. instance'.file = instance.file
    BY <1>1 DEF SetParam, TypeOK
  <2> QED
    BY <1>1, <2>1, <2>2, NameKeptAlone DEF SetParam, shown
<1>2. CASE Ask
  BY <1>2, NameKeptAlone DEF Ask, shared, shown
<1>3. CASE SelectAudioRefused
  BY <1>3, NameKeptAlone DEF SelectAudioRefused, shared, shown
<1>4. CASE SelectAudio
  BY <1>4, NameKeptAlone DEF SelectAudio, shared, shown
<1>5. CASE DeviceLost
  BY <1>5, NameKeptAlone DEF DeviceLost, shared, shown
<1> QED
  BY <1>1, <1>2, <1>3, <1>4, <1>5 DEF User

LEMMA WindowNames ==
  ASSUME SessionAssumption, TypeOK, NameInv, Window
  PROVE  NameInv'
<1>1. CASE Frame
  BY <1>1, NameKeptAlone DEF Frame, shared, shown
<1>2. CASE EndFrame
  BY <1>2, NameKeptAlone DEF EndFrame, shared, shown
<1>3. CASE LoadFinished
  <2>1. /\ Event("loaded") /\ Head(outbox).kind = "loaded"
        /\ UNCHANGED <<worker, mirror, instance, unsaid>>
    BY <1>3 DEF LoadFinished, Event, shared
  <2>2. Speaks(Head(outbox)) <=> Arg # None
    BY <2>1 DEF Speaks, Arg
  <2>3. ~Speaks(Head(outbox)) => UNCHANGED name
    BY <1>3, <2>2 DEF LoadFinished
  <2>4. Speaks(Head(outbox)) /\ Agrees(Head(outbox)) => name' = instance.file
    BY <1>3, <2>1, <2>2 DEF LoadFinished, Agrees, Arg
  <2> QED
    BY <2>1, <2>3, <2>4, NameRead
<1>4. CASE StateSaved
  <2>1. Event("saved") /\ ~Speaks(Head(outbox))
    BY <1>4 DEF StateSaved, Event, Speaks
  <2> QED
    BY <1>4, <2>1, NameRead DEF StateSaved, shared
<1>5. CASE StateLoaded
  <2>1. /\ Event("recalled") /\ Head(outbox).kind = "recalled"
        /\ UNCHANGED <<worker, mirror, instance, unsaid>>
    BY <1>5 DEF StateLoaded, Event, shared
  <2>2. ~Speaks(Head(outbox)) => UNCHANGED name
    BY <1>5, <2>1 DEF StateLoaded, NameAfter, Speaks, Arg
  <2>3. Speaks(Head(outbox)) /\ Agrees(Head(outbox)) => name' = instance.file
    BY <1>5, <2>1 DEF StateLoaded, NameAfter, Speaks, Agrees, Arg
  <2> QED
    BY <2>1, <2>2, <2>3, NameRead
<1>6. CASE AudioStreamReady
  <2>1. Event("ready") /\ ~Speaks(Head(outbox))
    BY <1>6 DEF AudioStreamReady, Event, Speaks
  <2> QED
    BY <1>6, <2>1, NameRead DEF AudioStreamReady, shared, shown
<1> QED
  BY <1>1, <1>2, <1>3, <1>4, <1>5, <1>6 DEF Window

\* Steps of the worker that give the engine no other file without owning up to it.
LEMMA NameUnmoved ==
  ASSUME TypeOK, NameInv, ~Delivering, ~Delivering', UNCHANGED name,
         ~unsaid' => /\ ~unsaid /\ UNCHANGED instance.file
                     /\ UNCHANGED mirror.file \/ ~Unread(Message("recalled", "loaded")),
         UNCHANGED outbox \/ \E e \in Events : ~Speaks(e) /\ outbox' = Append(outbox, e)
  PROVE  NameInv'
<1>1. ~unsaid' => Told'
  BY NothingSaid DEF NameInv
<1> QED
  BY <1>1 DEF NameInv

LEMMA WorkerNames ==
  ASSUME SessionAssumption, TypeOK, NameInv, Worker
  PROVE  NameInv'
<1>1. CASE Load
  <2>1. worker = None /\ UNCHANGED <<worker, name>> /\ Command \in Files
    BY <1>1, TakesTyped DEF Load, Takes, shown
  <2>2. CASE UNCHANGED <<instance, mirror, unsaid>> /\ Report("loaded", None)
    <3>1. PICK e : e = Message("loaded", None)
      OBVIOUS
    <3>2. e \in Events /\ ~Speaks(e) /\ outbox' = Append(outbox, e)
      BY <2>2, <3>1 DEF Message, Events, Speaks, Report
    <3> QED
      BY <2>1, <2>2, <3>2, NameUnmoved DEF Delivering
  <2>3. CASE /\ instance' = [instance EXCEPT !.file = Command]
             /\ mirror' = [mirror EXCEPT !.file = Command] /\ Report("loaded", Command)
    <3>1. PICK f \in Files : f = Command
      BY <2>1
    <3>2. PICK e : e = Message("loaded", f)
      OBVIOUS
    <3>3. /\ e \in Events /\ Speaks(e) /\ outbox' = Append(outbox, e)
          /\ e.kind = "loaded" /\ e.arg = f
      BY <2>3, <3>1, <3>2 DEF Message, Events, Speaks, Report, SessionAssumption
    <3>4. instance'.file = f
      BY <2>3, <3>1 DEF TypeOK
    <3>5. Agrees(e)'
      BY <3>3, <3>4 DEF Agrees
    <3>6. Told'
      BY <3>3, <3>5, AnswerGiven
    <3> QED
      BY <2>1, <3>6 DEF NameInv, Delivering
  <2> QED
    BY <1>1, <2>2, <2>3 DEF Load
<1>2. CASE TakeSave
  <2>1. worker = None /\ worker'.kind = "save"
    BY <1>2 DEF TakeSave, Takes
  <2> QED
    BY <1>2, <2>1, NameUnmoved DEF TakeSave, shared, shown, Delivering
<1>3. CASE Save
  <2>1. ~Delivering /\ worker' = None
    BY <1>3 DEF Save, Delivering
  <2>2. \E e \in Events : ~Speaks(e) /\ outbox' = Append(outbox, e)
    <3>1. PICK a \in {"ok", "error"} : Report("saved", a)
      BY <1>3 DEF Save
    <3>2. Message("saved", a) \in Events /\ ~Speaks(Message("saved", a))
      BY DEF Message, Events, Speaks
    <3> QED
      BY <3>1, <3>2 DEF Report
  <2> QED
    BY <1>3, <2>1, <2>2, NameUnmoved DEF Save, Delivering
<1>4. CASE TakeRecall
  <2>1. worker = None /\ ~Delivering /\ UNCHANGED <<mirror, name, unsaid>>
    BY <1>4 DEF TakeRecall, Takes, Delivering, shown
  <2>2. CASE UNCHANGED <<worker, instance>> /\ Report("recalled", "error")
    <3>1. PICK e : e = Message("recalled", "error")
      OBVIOUS
    <3>2. e \in Events /\ ~Speaks(e) /\ outbox' = Append(outbox, e)
      BY <2>2, <3>1 DEF Message, Events, Speaks, Report
    <3> QED
      BY <2>1, <2>2, <3>2, NameUnmoved DEF Delivering
  <2>3. CASE \E state, outcome : Recalling(state, outcome)
    <3>1. PICK state \in States, outcome \in Outcomes : Recalling(state, outcome)
      BY <2>3, RecallTyped
    <3>2. worker'.kind = "recall" /\ worker'.state = state /\ worker'.outcome = outcome
      BY <3>1 DEF Recalling
    <3>3. instance'.file = Stage(outcome, state.file, instance.file)
      BY <3>1 DEF Recalling, TypeOK, Stage
    <3>4. CASE outcome = "kept"
      <4>1. UNCHANGED instance.file /\ ~Delivering'
        BY <3>2, <3>3, <3>4 DEF Stage, Delivering
      <4> QED
        BY <2>1, <3>1, <4>1, NameUnmoved DEF Recalling
    <3>5. CASE outcome # "kept"
      <4>1. worker' # None
        <5>1. worker' \in Halves
          BY <3>1 DEF Recalling, Halves
        <5> QED
          BY <5>1 DEF SessionAssumption
      <4>2. Delivering'
        BY <3>2, <3>5, <4>1 DEF Delivering
      <4>3. Stage(outcome, state.file, instance.file) = Stage(outcome, state.file, instance'.file)
        BY <3>3, <3>5 DEF Stage, Outcomes
      <4> QED
        BY <3>2, <3>3, <4>2, <4>3 DEF NameInv, Stage
    <3> QED
      BY <3>4, <3>5
  <2> QED
    BY <1>4, <2>2, <2>3 DEF TakeRecall, Recalling
<1>5. CASE Recall
  <2>1. PICK a \in Outcomes : a = worker.outcome
    BY <1>5 DEF Recall, TypeOK, Halves
  <2>2. PICK e : e = Message("recalled", a)
    OBVIOUS
  <2>3. /\ e \in Events /\ outbox' = Append(outbox, e)
        /\ e.kind = "recalled" /\ e.arg = a /\ (Speaks(e) <=> a # "kept")
    BY <1>5, <2>1, <2>2 DEF Recall, Message, Events, Speaks, Report, Outcomes
  <2>4. ~Delivering' /\ UNCHANGED <<name, instance.file>> /\ mirror'.file = worker.state.file
    BY <1>5 DEF Recall, Delivering
  <2>5. CASE a = "kept"
    <3>1. ~unsaid' => ~unsaid /\ ~Unread(Message("recalled", "loaded"))
      BY <1>5, <2>1, <2>5 DEF Recall
    <3>2. ~Delivering
      BY <2>1, <2>5 DEF Delivering
    <3> QED
      BY <2>3, <2>4, <2>5, <3>1, <3>2, NameUnmoved
  <2>6. CASE a # "kept"
    <3>1. instance.file = Stage(a, worker.state.file, instance.file)
      BY <1>5, <2>1, <2>6 DEF Recall, NameInv, Delivering
    <3>2. Agrees(e)'
      BY <2>3, <2>4, <2>6, <3>1 DEF Agrees, Stage
    <3>3. Told'
      BY <2>3, <2>6, <3>2, AnswerGiven
    <3> QED
      BY <2>4, <3>3 DEF NameInv
  <2> QED
    BY <2>5, <2>6
<1>6. CASE RebuildFails
  <2>1. PICK e : e = Message("ready", Command)
    OBVIOUS
  <2>2. e \in Events /\ ~Speaks(e) /\ outbox' = Append(outbox, e)
    BY <1>6, <2>1, TakesTyped DEF RebuildFails, Message, Events, Speaks, Report
  <2> QED
    BY <1>6, <2>2, NameUnmoved DEF RebuildFails, Takes, Delivering, shared, shown
<1>7. CASE TakeRebuild
  <2>1. worker = None /\ worker'.kind = "reopen"
    BY <1>7 DEF TakeRebuild, Takes
  <2> QED
    BY <1>7, <2>1, NameUnmoved DEF TakeRebuild, Delivering, shared, shown
<1>8. CASE Rebuild
  <2>1. PICK e : e = Message("ready", worker.gen)
    OBVIOUS
  <2>2. e \in Events /\ ~Speaks(e) /\ outbox' = Append(outbox, e)
    BY <1>8, <2>1 DEF Rebuild, TypeOK, Halves, Message, Events, Speaks, Report
  <2>3. ~unsaid' => ~unsaid /\ UNCHANGED instance.file
    BY <1>8 DEF Rebuild
  <2> QED
    BY <1>8, <2>2, <2>3, NameUnmoved DEF Rebuild, Delivering, shown
<1> QED
  BY <1>1, <1>2, <1>3, <1>4, <1>5, <1>6, <1>7, <1>8 DEF Worker

LEMMA ModeStep ==
  ASSUME SessionAssumption, TypeOK, ModeIsTrue, [Next]_vars
  PROVE  ModeIsTrue'
<1>1. CASE User
  <2>1. CASE SelectAudio
    <3>1. pending' # None
      BY <2>1 DEF SelectAudio, TypeOK, SessionAssumption
    <3> QED
      BY <3>1 DEF ModeIsTrue
  <2>2. CASE SelectAudioRefused
    BY <2>2 DEF SelectAudioRefused, ModeIsTrue
  <2>3. CASE DeviceLost
    BY <2>3 DEF DeviceLost, ModeIsTrue
  <2> QED
    BY <1>1, <2>1, <2>2, <2>3 DEF User, SetParam, Ask, audio, ModeIsTrue
<1>2. CASE Window
  <2>1. CASE EndFrame
    BY <2>1 DEF EndFrame, ModeIsTrue
  <2>2. CASE AudioStreamReady
    <3>1. Arg # None
      BY <2>2, EventTyped DEF AudioStreamReady, SessionAssumption
    <3> QED
      BY <2>2, <3>1 DEF AudioStreamReady, Open, ModeIsTrue
  <2> QED
    BY <1>2, <2>1, <2>2 DEF Window, Frame, LoadFinished, StateSaved, StateLoaded, audio, ModeIsTrue
<1>3. CASE Worker
  BY <1>3 DEF Worker, Load, TakeSave, Save, TakeRecall, Recall, RebuildFails, TakeRebuild, Rebuild,
              audio, ModeIsTrue
<1>4. CASE UNCHANGED vars
  BY <1>4 DEF vars, audio, ModeIsTrue
<1> QED
  BY <1>1, <1>2, <1>3, <1>4 DEF Next

\* What the window shows of the audio and of the model is so: a mode on display
\* has streams, is on its way or has been reported lost; and once every command
\* is answered and read the name is that of the file the engine holds, over loads,
\* recalls and rebuilds of any outcome, until a rebuild changes the file or a recall
\* that reached nothing takes the place of one still to be read, and again once a
\* load or a recall reaches the engine (handle_load_finished, apply_recall_summary,
\* initiate_audio_reopen, apply_audio_reopen).
THEOREM WindowShowsWhatIs ==
  ASSUME SessionAssumption
  PROVE  Spec => []ShownIsTrue
<1>1. Init => TypeOK /\ NameInv /\ ModeIsTrue
  <2> SUFFICES ASSUME Init PROVE TypeOK /\ NameInv /\ ModeIsTrue
    OBVIOUS
  <2>1. TypeOK
    BY InitTyped
  <2>2. name = instance.file /\ DOMAIN outbox = {}
    BY DEF Init
  <2>3. NameInv
    BY <2>2 DEF Init, NameInv, Told, Delivering
  <2>4. ModeIsTrue
    BY DEF Init, ModeIsTrue, SessionAssumption
  <2> QED
    BY <2>1, <2>3, <2>4
<1>2. TypeOK /\ NameInv /\ ModeIsTrue /\ [Next]_vars => TypeOK' /\ NameInv' /\ ModeIsTrue'
  <2> SUFFICES ASSUME TypeOK, NameInv, ModeIsTrue, [Next]_vars
               PROVE  TypeOK' /\ NameInv' /\ ModeIsTrue'
    OBVIOUS
  <2>1. UNCHANGED vars => NameInv'
    BY NameKeptAlone DEF vars, shared, shown
  <2>2. NameInv'
    BY <2>1, UserNames, WindowNames, WorkerNames DEF Next
  <2> QED
    BY <2>2, NextTyped, ModeStep
<1>3. NameInv /\ ModeIsTrue => ShownIsTrue
  <2> SUFFICES ASSUME NameInv, Quiet, ~unsaid PROVE name = instance.file
    BY DEF ShownIsTrue, NameIsLoaded
  <2>1. ~Delivering /\ Silent(outbox)
    BY DEF Quiet, Delivering, Silent
  <2> QED
    BY <2>1 DEF NameInv, Told
<1> QED
  BY <1>1, <1>2, <1>3, PTL DEF Spec

------------------------------------------------------------------------------
(* The open streams.  In a callback of the input a dropout has been counted *)
(* or will be at the end of the chunk; in one of the output it is one only  *)
(* once it is counted.                                                      *)

CONSTANTS Block, Capacity, Slice, Buffers, Settling, Ceiling
VARIABLES running, stopping, fill, started, pulls, since
Bridge == INSTANCE StreamBridge

Callbacks ==
  [total : Nat, done : Nat, short : BOOLEAN, recorded : BOOLEAN, counted : Nat, dropout : BOOLEAN]

CountsOnce(c) == c.counted = IF c.recorded THEN 1 ELSE 0
InputCounts(c) ==
  /\ c.done <= c.total /\ CountsOnce(c)
  /\ c.dropout <=> c.recorded \/ c.short
  /\ c.done = c.total => ~c.short
OutputCounts(c) == c.done <= c.total /\ CountsOnce(c) /\ (c.dropout <=> c.recorded)

CallbackInv ==
  callback \in [Sides -> Callbacks] /\ InputCounts(callback["in"]) /\ OutputCounts(callback["out"])

LEMMA FreshCounts ==
  ASSUME NEW n \in Nat, NEW reported \in BOOLEAN
  PROVE  /\ Bridge!Fresh(n, reported) \in Callbacks
         /\ InputCounts(Bridge!Fresh(n, reported)) /\ OutputCounts(Bridge!Fresh(n, reported))
  BY DEF Bridge!Fresh, Callbacks, InputCounts, OutputCounts, CountsOnce

LEMMA RecordCounts ==
  ASSUME NEW c \in Callbacks, CountsOnce(c)
  PROVE  /\ Bridge!Record(c) \in Callbacks /\ CountsOnce(Bridge!Record(c))
         /\ Bridge!Record(c).recorded /\ Bridge!Record(c).total = c.total
         /\ Bridge!Record(c).done = c.done /\ Bridge!Record(c).short = c.short
         /\ Bridge!Record(c).dropout = c.dropout
<1>1. CASE c.recorded
  BY <1>1 DEF Bridge!Record
<1>2. CASE ~c.recorded
  <2>1. Bridge!Record(c) = [c EXCEPT !.recorded = TRUE, !.counted = 1]
    <3>1. c.counted + 1 = 1
      BY <1>2 DEF CountsOnce
    <3> QED
      BY <1>2, <3>1 DEF Bridge!Record
  <2>2. PICK r : r = [c EXCEPT !.recorded = TRUE, !.counted = 1]
    OBVIOUS
  <2>3. r = [total |-> c.total, done |-> c.done, short |-> c.short,
             recorded |-> TRUE, counted |-> 1, dropout |-> c.dropout]
    BY <2>2 DEF Callbacks
  <2>4. /\ c.total \in Nat /\ c.done \in Nat /\ c.counted \in Nat
        /\ c.short \in BOOLEAN /\ c.dropout \in BOOLEAN
    BY DEF Callbacks
  <2>5. r \in Callbacks
    BY <2>3, <2>4 DEF Callbacks
  <2>6. /\ r.recorded = TRUE /\ r.counted = 1 /\ r.total = c.total
        /\ r.done = c.done /\ r.short = c.short /\ r.dropout = c.dropout
    BY <2>3
  <2>7. CountsOnce(r)
    BY <2>6 DEF CountsOnce
  <2>8. r = Bridge!Record(c)
    BY <2>1, <2>2
  <2> QED
    BY <2>5, <2>6, <2>7, <2>8
<1> QED
  BY <1>1, <1>2

LEMMA PushCounts ==
  ASSUME CallbackInv, Bridge!Push
  PROVE  CallbackInv'
<1>1. PICK b \in Callbacks : b = callback["in"]
  BY DEF CallbackInv, Sides
<1>2. InputCounts(b) /\ b.done < b.total
  BY <1>1 DEF CallbackInv, Bridge!Push, Bridge!Busy
<1>3. PICK full \in BOOLEAN : full = (fill = Capacity)
  OBVIOUS
<1>4. PICK c : c = [b EXCEPT !.done = @ + 1, !.short = @ \/ full, !.dropout = @ \/ full]
  OBVIOUS
<1>5. /\ c \in Callbacks /\ c.done = b.done + 1 /\ c.total = b.total
      /\ c.short = (b.short \/ full) /\ c.dropout = (b.dropout \/ full)
      /\ c.recorded = b.recorded /\ c.counted = b.counted
  <2>1. b.done + 1 \in Nat /\ (b.short \/ full) \in BOOLEAN /\ (b.dropout \/ full) \in BOOLEAN
    BY DEF Callbacks
  <2>2. PICK n \in Nat, u \in BOOLEAN, v \in BOOLEAN :
          n = b.done + 1 /\ u = (b.short \/ full) /\ v = (b.dropout \/ full)
    BY <2>1
  <2>3. c = [b EXCEPT !.done = n, !.short = u, !.dropout = v]
    BY <1>4, <2>2
  <2>4. /\ c \in Callbacks /\ c.done = n /\ c.total = b.total /\ c.short = u /\ c.dropout = v
        /\ c.recorded = b.recorded /\ c.counted = b.counted
    BY <2>3 DEF Callbacks
  <2> QED
    BY <2>2, <2>4
<1>6. CountsOnce(c) /\ c.done <= c.total /\ (c.dropout <=> c.recorded \/ c.short)
  BY <1>2, <1>5 DEF InputCounts, CountsOnce, Callbacks
<1>7. PICK d : d = IF Bridge!ChunkEnds(c)
                   THEN [(IF c.short THEN Bridge!Record(c) ELSE c) EXCEPT !.short = FALSE]
                   ELSE c
  OBVIOUS
<1>8. callback' = [callback EXCEPT !["in"] = d]
  BY <1>1, <1>3, <1>4, <1>7 DEF Bridge!Push
<1>9. d \in Callbacks /\ InputCounts(d)
  <2>1. CASE Bridge!ChunkEnds(c) /\ c.short
    <3>1. PICK r \in Callbacks : r = Bridge!Record(c)
      BY <1>5, <1>6, RecordCounts
    <3>2. /\ CountsOnce(r) /\ r.recorded /\ r.total = c.total /\ r.done = c.done
          /\ r.dropout = c.dropout
      BY <1>5, <1>6, <3>1, RecordCounts
    <3>3. d = [r EXCEPT !.short = FALSE]
      BY <1>7, <2>1, <3>1
    <3>4. /\ d \in Callbacks /\ d.counted = r.counted /\ d.recorded = r.recorded
          /\ d.total = r.total /\ d.done = r.done /\ d.dropout = r.dropout /\ d.short = FALSE
      BY <3>3 DEF Callbacks
    <3> QED
      BY <1>6, <2>1, <3>2, <3>4 DEF InputCounts, CountsOnce
  <2>2. CASE Bridge!ChunkEnds(c) /\ ~c.short
    <3>1. d = [c EXCEPT !.short = FALSE]
      BY <1>7, <2>2
    <3>2. /\ d \in Callbacks /\ d.counted = c.counted /\ d.recorded = c.recorded
          /\ d.total = c.total /\ d.done = c.done /\ d.dropout = c.dropout /\ d.short = FALSE
      BY <1>5, <3>1 DEF Callbacks
    <3> QED
      BY <1>6, <2>2, <3>2 DEF InputCounts, CountsOnce
  <2>3. CASE ~Bridge!ChunkEnds(c)
    <3>1. d = c /\ c.done # c.total
      BY <1>7, <2>3 DEF Bridge!ChunkEnds
    <3> QED
      BY <1>5, <1>6, <3>1 DEF InputCounts
  <2> QED
    BY <2>1, <2>2, <2>3
<1> QED
  BY <1>8, <1>9 DEF CallbackInv, Sides

LEMMA PullCounts ==
  ASSUME CallbackInv, Bridge!Pull
  PROVE  CallbackInv'
<1>1. PICK b \in Callbacks : b = callback["out"]
  BY DEF CallbackInv, Sides
<1>2. OutputCounts(b) /\ b.done < b.total
  BY <1>1 DEF CallbackInv, Bridge!Pull, Bridge!Busy
<1>3. PICK dry \in BOOLEAN : dry = (fill = 0)
  OBVIOUS
<1>4. PICK c : c = [b EXCEPT !.done = @ + 1, !.short = @ \/ dry]
  OBVIOUS
<1>5. /\ c \in Callbacks /\ c.done = b.done + 1 /\ c.total = b.total
      /\ c.dropout = b.dropout /\ c.recorded = b.recorded /\ c.counted = b.counted
  <2>1. b.done + 1 \in Nat /\ (b.short \/ dry) \in BOOLEAN
    BY DEF Callbacks
  <2>2. PICK n \in Nat, u \in BOOLEAN : n = b.done + 1 /\ u = (b.short \/ dry)
    BY <2>1
  <2>3. c = [b EXCEPT !.done = n, !.short = u]
    BY <1>4, <2>2
  <2>4. /\ c \in Callbacks /\ c.done = n /\ c.total = b.total /\ c.dropout = b.dropout
        /\ c.recorded = b.recorded /\ c.counted = b.counted
    BY <2>3 DEF Callbacks
  <2> QED
    BY <2>2, <2>4
<1>6. OutputCounts(c)
  BY <1>2, <1>5 DEF OutputCounts, CountsOnce, Callbacks
<1>7. PICK r \in Callbacks : r = Bridge!Record(c)
  BY <1>5, <1>6, RecordCounts DEF OutputCounts
<1>8. /\ CountsOnce(r) /\ r.recorded /\ r.total = c.total /\ r.done = c.done
  BY <1>5, <1>6, <1>7, RecordCounts DEF OutputCounts
<1>9. PICK x : x = [r EXCEPT !.short = FALSE, !.dropout = TRUE]
  OBVIOUS
<1>10. x \in Callbacks /\ OutputCounts(x)
  <2>1. /\ x \in Callbacks /\ x.counted = r.counted /\ x.recorded = r.recorded
        /\ x.total = r.total /\ x.done = r.done /\ x.dropout = TRUE
    BY <1>9 DEF Callbacks
  <2> QED
    BY <1>6, <1>8, <2>1 DEF OutputCounts, CountsOnce
<1>11. PICK y : y = [c EXCEPT !.short = FALSE]
  OBVIOUS
<1>12. y \in Callbacks /\ OutputCounts(y)
  <2>1. /\ y \in Callbacks /\ y.counted = c.counted /\ y.recorded = c.recorded
        /\ y.total = c.total /\ y.done = c.done /\ y.dropout = c.dropout
    BY <1>5, <1>11 DEF Callbacks
  <2> QED
    BY <1>6, <2>1 DEF OutputCounts, CountsOnce
<1>13. \E d \in {c, x, y} : callback' = [callback EXCEPT !["out"] = d]
  BY <1>1, <1>3, <1>4, <1>7, <1>9, <1>11 DEF Bridge!Pull
<1> QED
  BY <1>5, <1>6, <1>10, <1>12, <1>13 DEF CallbackInv, Sides

\* One device callback contributes one xrun if it reported, dropped or starved
\* and none otherwise, for all sizes of buffers, slices and blocks (XrunCounter,
\* build_input, build_output).
THEOREM EveryDropoutCountsOnce ==
  ASSUME Bridge!BridgeAssumption
  PROVE  Bridge!Spec => []XrunsAreDropouts
<1>1. Bridge!Init => CallbackInv
  <2>1. FALSE \in BOOLEAN /\ 0 \in Nat
    OBVIOUS
  <2> QED
    BY <2>1, FreshCounts DEF Bridge!Init, CallbackInv, Bridge!Sides, Sides
<1>2. CallbackInv /\ [Bridge!Next]_Bridge!vars => CallbackInv'
  <2> SUFFICES ASSUME CallbackInv, [Bridge!Next]_Bridge!vars PROVE CallbackInv'
    OBVIOUS
  <2>1. ASSUME NEW s \in Sides, NEW n \in Buffers, NEW reported \in BOOLEAN,
               Bridge!DeviceCallback(s, n, reported)
        PROVE  CallbackInv'
    <3>1. n \in Nat
      BY DEF Bridge!BridgeAssumption
    <3>2. PICK c : c = Bridge!Fresh(n, reported)
      OBVIOUS
    <3>3. c \in Callbacks /\ InputCounts(c) /\ OutputCounts(c)
      BY <3>1, <3>2, FreshCounts
    <3>4. callback' = [callback EXCEPT ![s] = c]
      BY <2>1, <3>2 DEF Bridge!DeviceCallback
    <3> QED
      BY <3>3, <3>4 DEF CallbackInv, Sides
  <2>2. CASE UNCHANGED callback
    BY <2>2 DEF CallbackInv
  <2> QED
    BY <2>1, <2>2, PushCounts, PullCounts
       DEF Bridge!Next, Bridge!Play, Bridge!Drop, Bridge!Stop, Bridge!vars, Bridge!Sides, Sides
<1>3. CallbackInv => XrunsAreDropouts
  BY DEF CallbackInv, InputCounts, OutputCounts, CountsOnce, Callbacks, XrunsAreDropouts, Busy, Sides
<1> QED
  BY <1>1, <1>2, <1>3, PTL DEF Bridge!Spec

------------------------------------------------------------------------------
(* The devices. What the streams are opened with is what the negotiation    *)
(* makes, of the preferences there are, of the lists of the mode they are   *)
(* opened in (DevicesInv), and what was picked was offered on the lists of  *)
(* that mode (Kept).                                                        *)

\* Strict inclusion among finite sets is well founded, and so is the order of
\* the initial segments of the natural numbers.
LEMMA Smallest ==
  ASSUME NEW S, S \subseteq Nat, S # {}
  PROVE  Devices!Min(S) \in S /\ \A y \in S : Devices!Min(S) <= y
<1> DEFINE segments == {1..n : n \in S}
<1>1. segments # {} /\ segments \subseteq FiniteSubsetsOf(Nat)
  <2>1. ASSUME NEW n \in S PROVE 1..n \in SUBSET Nat /\ IsFiniteSet(1..n)
    BY FS_Interval
  <2> QED BY <2>1 DEF FiniteSubsetsOf
<1> HIDE DEF segments
<1>2. IsWellFoundedOn(StrictSubsetOrdering(Nat), FiniteSubsetsOf(Nat))
  BY FS_StrictSubsetOrderingWellFounded
<1>3. PICK least \in segments : \A t \in segments : ~ (<<t, least>> \in StrictSubsetOrdering(Nat))
  BY <1>1, <1>2, WFMin
<1> USE DEF segments
<1>4. PICK x \in S : least = 1..x
  OBVIOUS
<1>5. ASSUME NEW y \in S PROVE x <= y
  <2>1. SUFFICES ASSUME y < x PROVE FALSE
    OBVIOUS
  <2>2. 1..y \subseteq 1..x /\ 1..y # 1..x /\ 1..x \subseteq Nat
    <3>1. x \in 1..x /\ x \notin 1..y
      BY <2>1
    <3> QED BY <2>1, <3>1
  <2>3. 1..y \in segments
    OBVIOUS
  <2>4. <<1..y, 1..x>> \in StrictSubsetOrdering(Nat)
    BY <2>2 DEF StrictSubsetOrdering
  <2> QED BY <1>3, <1>4, <2>3, <2>4
<1> QED
  BY <1>5 DEF Devices!Min

LEMMA Largest ==
  ASSUME NEW S, NEW top \in Nat, S \subseteq 0..top, S # {}
  PROVE  Devices!Max(S) \in S
<1> DEFINE T == {top - n : n \in S}
<1>1. T \subseteq Nat /\ T # {}
  <2>1. ASSUME NEW n \in S PROVE top - n \in Nat
    OBVIOUS
  <2> QED BY <2>1
<1>2. PICK x \in S : \A y \in T : top - x <= y
  BY <1>1, Smallest
<1>3. \A y \in S : x >= y
  <2> TAKE y \in S
  <2>1. top - x <= top - y
    BY <1>2
  <2> QED BY <2>1
<1> QED
  BY <1>3 DEF Devices!Max

LEMMA SameDevices ==
  /\ \A configs, hz : Devices!AtRate(configs, hz) = AtRate(configs, hz)
  /\ Devices!Sides = Sides /\ (Devices!Found <=> Found)
  /\ Devices!OpensAsReported <=> OpensAsReported
<1>1. \A configs, hz : Devices!AtRate(configs, hz) = AtRate(configs, hz)
  BY DEF Devices!AtRate, Devices!Covers, AtRate, Covers
<1>2. Devices!Sides = Sides
  BY DEF Devices!Sides, Sides
<1>3. Devices!Found <=> Found
  BY <1>1, <1>2 DEF Devices!Found, Found
<1> QED
  BY <1>1, <1>2, <1>3 DEF Devices!OpensAsReported, OpensAsReported

\* The first of some rates that is covered is covered, and it is the very first
\* if that is.
LEMMA FirstIsCovered ==
  ASSUME NEW first, NEW rest \in Seq(Nat), NEW lists, NEW hz,
         hz = Devices!FirstCovered(<<first>> \o rest, lists)
  PROVE  /\ hz # None => \A l \in lists : AtRate(l, hz) # {}
         /\ first # None /\ (\A l \in lists : AtRate(l, first) # {}) => hz = first
<1> DEFINE S == Nat \cup {first}
<1>0. Nat \subseteq S /\ first \in S
  OBVIOUS
<1> HIDE DEF S
<1>1. PICK rates \in Seq(S) : rates = <<first>> \o rest
  <2>1. <<first>> \in Seq(S)
    BY <1>0
  <2>2. rest \in Seq(S)
    <3>1. PICK n \in Nat : rest \in [1..n -> Nat]
      OBVIOUS
    <3>2. rest \in [1..n -> S]
      BY <1>0, <3>1
    <3> QED BY <3>2
  <2>3. (<<first>> \o rest) \in Seq(S)
    BY <2>1, <2>2
  <2> QED BY <2>3
<1>2. rates[1] = first /\ 1 \in DOMAIN rates /\ DOMAIN rates \subseteq Nat \ {0}
  BY <1>1
<1> DEFINE usable == {k \in DOMAIN rates :
                      rates[k] # None /\ \A l \in lists : AtRate(l, rates[k]) # {}}
<1>3. hz = IF usable = {} THEN None ELSE rates[Devices!Min(usable)]
  BY <1>1, SameDevices DEF Devices!FirstCovered
<1>4. usable \subseteq Nat \ {0}
  BY <1>2
<1>7. usable # {} => Devices!Min(usable) \in usable /\ \A k \in usable : Devices!Min(usable) <= k
  BY <1>4, Smallest
<1>5. hz # None => \A l \in lists : AtRate(l, hz) # {}
  BY <1>3, <1>7
<1>6. ASSUME first # None, \A l \in lists : AtRate(l, first) # {}
      PROVE  hz = first
  <2>1. 1 \in usable
    BY <1>2, <1>6
  <2>2. Devices!Min(usable) = 1
    <3> HIDE DEF usable
    <3>1. PICK k : k = Devices!Min(usable)
      OBVIOUS
    <3>2. k \in Nat \ {0} /\ k <= 1
      BY <1>4, <1>7, <2>1, <3>1
    <3> QED BY <3>1, <3>2
  <2> QED BY <1>2, <1>3, <2>1, <2>2
<1> QED
  BY <1>5, <1>6

LEMMA Pair ==
  ASSUME NEW a, NEW b
  PROVE  DOMAIN <<a, b>> = {1, 2} /\ <<a, b>>[1] = a /\ <<a, b>>[2] = b
<1>1. DOMAIN <<a, b>> = 1..2
  OBVIOUS
<1> QED
  BY <1>1

\* The rate is one both lists cover, if it is found on them, and the one that is
\* remembered, if they do.
LEMMA RateRemembered ==
  ASSUME Devices!NegotiationAssumption, NEW in, NEW out, NEW v, v # None,
         AtRate(in, v) # {}, AtRate(out, v) # {}
  PROVE  Devices!SharedRate(in, out, v) = v
<1>1. Preferred \in Seq(Nat)
  BY DEF Devices!NegotiationAssumption
<1>2. ASSUME NEW configs, AtRate(configs, v) # {}
      PROVE  Devices!NegotiateRate(configs, v) = v
  <2>1. configs # {}
    BY <1>2 DEF AtRate
  <2>2. PICK lists, hz : lists = {configs} /\ hz = Devices!FirstCovered(<<v>> \o Preferred, lists)
    OBVIOUS
  <2>3. \A l \in lists : AtRate(l, v) # {}
    BY <1>2, <2>2
  <2>4. hz = v
    BY <1>1, <2>2, <2>3, FirstIsCovered
  <2> QED BY <2>1, <2>2, <2>4 DEF Devices!NegotiateRate
<1>3. PICK rates : rates = <<v, v>> /\ DOMAIN rates = {1, 2} /\ rates[1] = v /\ rates[2] = v
  BY Pair
<1>4. Devices!SharedRate(in, out, v) = Devices!FirstCovered(rates, {in, out})
  BY <1>2, <1>3 DEF Devices!SharedRate
<1> DEFINE usable == {k \in DOMAIN rates :
                      rates[k] # None /\ \A l \in {in, out} : AtRate(l, rates[k]) # {}}
<1>5. Devices!FirstCovered(rates, {in, out})
        = IF usable = {} THEN None ELSE rates[Devices!Min(usable)]
  BY SameDevices DEF Devices!FirstCovered
<1>6. usable = {1, 2}
  BY <1>3
<1>7. Devices!Min(usable) \in {1, 2}
  <2>1. usable \subseteq Nat /\ usable # {}
    BY <1>6
  <2>2. Devices!Min(usable) \in usable
    BY <2>1, Smallest
  <2> QED BY <1>6, <2>2
<1> QED
  BY <1>3, <1>4, <1>5, <1>6, <1>7

LEMMA RateIsCovered ==
  ASSUME NEW in, NEW out, NEW remembered, NEW hz, hz = Devices!SharedRate(in, out, remembered),
         hz # None
  PROVE  AtRate(in, hz) # {} /\ AtRate(out, hz) # {}
<1>1. PICK rates : /\ rates = <<Devices!NegotiateRate(in, remembered),
                                 Devices!NegotiateRate(out, remembered)>>
                   /\ DOMAIN rates = {1, 2}
  BY Pair
<1> DEFINE usable == {k \in DOMAIN rates :
                      rates[k] # None /\ \A l \in {in, out} : AtRate(l, rates[k]) # {}}
<1>3. hz = IF usable = {} THEN None ELSE rates[Devices!Min(usable)]
  BY <1>1, SameDevices DEF Devices!SharedRate, Devices!FirstCovered
<1>4. usable \subseteq Nat
  BY <1>1
<1>5. usable # {} => Devices!Min(usable) \in usable
  BY <1>4, Smallest
<1> QED
  BY <1>3, <1>5

\* A configuration has the channels that are settled.
LEMMA ChannelsAreThere ==
  ASSUME MaxChannels \in Nat, NEW configs, \A c \in configs : c.channels \in 0..MaxChannels,
         NEW hz, NEW minimum,
         AtRate(configs, hz) # {}
  PROVE  \E c \in AtRate(configs, hz) : c.channels = Devices!Channels(configs, hz, minimum)
<1> DEFINE counts == {c.channels : c \in AtRate(configs, hz)}
           enough == {n \in counts : n >= minimum}
<1>1. counts # {} /\ counts \subseteq 0..MaxChannels /\ counts \subseteq Nat
  BY DEF AtRate
<1>2. enough \subseteq Nat
  BY <1>1
<1>3. enough # {} => Devices!Min(enough) \in counts
  BY <1>2, Smallest
<1>4. Devices!Max(counts) \in counts
  <2> HIDE DEF counts
  <2> QED BY <1>1, Largest
<1>5. Devices!Channels(configs, hz, minimum)
        = IF enough # {} THEN Devices!Min(enough) ELSE Devices!Max(counts)
  BY <1>1, SameDevices DEF Devices!Channels
<1> QED
  BY <1>3, <1>4, <1>5

\* A size both sides have in common, they both take; and one that is remembered,
\* if they both take it.
LEMMA FramesAreTaken ==
  ASSUME NEW in, NEW out, NEW hz, NEW remembered, NEW f,
         f \in Devices!SharedFrames(in, out, hz, remembered), f # None
  PROVE  Devices!Accepts(AtRate(in, hz), f) /\ Devices!Accepts(AtRate(out, hz), f)
<1> DEFINE ins == AtRate(in, hz)
           outs == AtRate(out, hz)
           common == UNION {i.frames \cap o.frames : i \in ins, o \in outs}
<1>1. \/ f = remembered /\ Devices!Accepts(ins, remembered) /\ Devices!Accepts(outs, remembered)
      \/ f \in common
  BY SameDevices DEF Devices!SharedFrames
<1>2. CASE f \in common
  <2>1. PICK i \in ins, o \in outs : f \in i.frames /\ f \in o.frames
    BY <1>2
  <2> QED BY <2>1 DEF Devices!Accepts
<1> QED
  BY <1>1, <1>2

LEMMA FramesRemembered ==
  ASSUME NEW in, NEW out, NEW hz, NEW v, v # None,
         Devices!Accepts(AtRate(in, hz), v), Devices!Accepts(AtRate(out, hz), v)
  PROVE  Devices!SharedFrames(in, out, hz, v) = {v}
  BY SameDevices DEF Devices!SharedFrames

\* What is settled is what Settle makes of some lists.
SettledOn(lists) ==
    LET hz == Devices!RateOf(lists)
        n  == Devices!ChannelsOf(lists, hz)
        Opened(s) == Devices!WithChannels(lists[s].configs, n[s])
    IN /\ settled.rate = hz /\ settled.channels = n
       /\ settled.frames \in Devices!SharedFrames(Opened("in"), Opened("out"), hz, prefs.frames)

\* What was picked is remembered, and would be taken of the lists of its mode.
Kept ==
    LET lists == Devices!Enumerated(picked.mode)
        hz == Devices!RateOf(lists)
        n  == Devices!ChannelsOf(lists, hz)
    IN picked # None =>
        /\ picked.value # None /\ picked.what \in {"rate", "frames"}
        /\ prefs[picked.what] = picked.value
        /\ IF picked.what = "rate" THEN \A s \in Sides : AtRate(lists[s].configs, picked.value) # {}
           ELSE \A s \in Sides : Devices!Accepts(
                    AtRate(Devices!WithChannels(lists[s].configs, n[s]), hz), picked.value)

Preferences == [rate |-> prefs.rate, frames |-> prefs.frames, channel |-> prefs.channel,
                exclusive |-> prefs.exclusive]

DevicesInv ==
    /\ formats \in [Sides -> [Devices!Modes -> Reports]]
    /\ prefs = Preferences /\ prefs.exclusive \in BOOLEAN
    /\ step \in {"ask", "open"} => SettledOn(listed)
    /\ step = "ask" => listed = Devices!Enumerated(Devices!Requested)
    /\ step = "open" => /\ share \in Devices!Modes /\ listed = Devices!Enumerated(share)
                        /\ \A s \in Sides : listed[s].configs = formats[s][share]
    /\ Kept

LEMMA SettledNext ==
  ASSUME NEW lists, Devices!Settle(lists), prefs' = prefs, lists = listed'
  PROVE  SettledOn(listed)'
  BY DEF Devices!Settle, SettledOn, Devices!RateOf, Devices!ChannelsOf, Devices!Minimum

LEMMA KeptStays ==
  ASSUME Kept, UNCHANGED <<formats, prefs, picked>>
  PROVE  Kept'
<1> DEFINE lists == Devices!Enumerated(picked.mode)
           hz == Devices!RateOf(lists)
           n == Devices!ChannelsOf(lists, hz)
<1>1. lists' = lists
  BY DEF Devices!Enumerated
<1>2. hz' = hz
  <2>1. PICK l : l = lists /\ l = lists'
    BY <1>1
  <2>2. Devices!RateOf(lists) = Devices!RateOf(l) /\ Devices!RateOf(lists)' = Devices!RateOf(l)'
    BY <2>1 DEF Devices!RateOf
  <2> QED BY <2>2 DEF Devices!RateOf
<1> QED
  BY <1>1, <1>2 DEF Kept, Devices!ChannelsOf, Devices!Minimum

LEMMA Lists ==
  ASSUME NEW m \in Devices!Modes, NEW s \in Sides
  PROVE  LET own == IF formats[s][m] = {} THEN "shared" ELSE m IN
         Devices!Enumerated(m)[s].mode = own /\ Devices!Enumerated(m)[s].configs = formats[s][own]
  BY SameDevices DEF Devices!Enumerated

\* What is settled on lists that share a rate is one configuration of each.
LEMMA SettledIsReported ==
  ASSUME Devices!NegotiationAssumption, SettledOn(listed), Found, NEW s \in Sides,
         listed[s].configs \in Reports
  PROVE  \E c \in AtRate(listed[s].configs, settled.rate) :
            /\ c.channels = settled.channels[s]
            /\ settled.frames = None \/ c.frames = {} \/ settled.frames \in c.frames
<1>1. PICK configs, hz, n : /\ configs = listed[s].configs /\ hz = settled.rate
                            /\ n = settled.channels[s]
  OBVIOUS
<1>2. n = Devices!Channels(configs, hz, Devices!Minimum(s))
  BY <1>1, SameDevices DEF SettledOn, Devices!ChannelsOf
<1>3. PICK c \in AtRate(configs, hz) : c.channels = n
  BY <1>1, <1>2, ChannelsAreThere DEF Devices!NegotiationAssumption, Found
<1>4. Devices!WithChannels(configs, n) = {d \in configs : d.channels = n}
  BY <1>3 DEF Devices!WithChannels, AtRate
<1>5. ASSUME settled.frames # None
      PROVE  Devices!Accepts(AtRate(Devices!WithChannels(configs, n), hz), settled.frames)
  BY <1>1, <1>5, FramesAreTaken DEF SettledOn, Sides
<1>6. ASSUME settled.frames # None
      PROVE  \E d \in AtRate(configs, hz) :
                d.channels = n /\ (d.frames = {} \/ settled.frames \in d.frames)
  BY <1>4, <1>5, <1>6 DEF Devices!Accepts, AtRate
<1> QED
  BY <1>1, <1>3, <1>6

LEMMA PickedIsOpened ==
  ASSUME Devices!NegotiationAssumption, SettledOn(listed), Kept, picked # None,
         listed = Devices!Enumerated(picked.mode)
  PROVE  settled[picked.what] = picked.value
<1>1. CASE picked.what = "rate"
  <2>1. Devices!SharedRate(listed["in"].configs, listed["out"].configs, prefs.rate) = picked.value
    BY <1>1, RateRemembered DEF Kept, Sides
  <2> QED BY <1>1, <2>1 DEF SettledOn, Kept, Devices!RateOf
<1>2. CASE picked.what = "frames"
  <2> DEFINE hz == Devices!RateOf(listed)
             n == Devices!ChannelsOf(listed, hz)
             in == Devices!WithChannels(listed["in"].configs, n["in"])
             out == Devices!WithChannels(listed["out"].configs, n["out"])
  <2>1. Devices!SharedFrames(in, out, hz, prefs.frames) = {picked.value}
    <3>1. /\ Devices!Accepts(AtRate(in, hz), picked.value) /\ prefs.frames = picked.value
          /\ Devices!Accepts(AtRate(out, hz), picked.value) /\ picked.value # None
      BY <1>2 DEF Kept, Sides
    <3> HIDE DEF in, out, hz
    <3> QED BY <3>1, FramesRemembered
  <2>2. settled.frames \in Devices!SharedFrames(in, out, hz, prefs.frames)
    BY DEF SettledOn
  <2> QED BY <1>2, <2>1, <2>2
<1> QED
  BY <1>1, <1>2 DEF Kept

LEMMA DevicesInvInit == Devices!NegotiationAssumption /\ Devices!Init => DevicesInv
  BY SameDevices DEF Devices!NegotiationAssumption, Devices!Init, DevicesInv, Preferences, Kept

\* What the selectors offer can be had.
LEMMA OfferedIsTaken ==
  ASSUME Devices!NegotiationAssumption, DevicesInv, step = "open", NEW what \in {"rate", "frames"},
         NEW v \in Devices!Offers(what)
  PROVE  /\ v # None
         /\ IF what = "rate" THEN \A s \in Sides : AtRate(listed[s].configs, v) # {}
            ELSE \A s \in Sides : Devices!Accepts(
                   AtRate(Devices!WithChannels(listed[s].configs, settled.channels[s]), settled.rate), v)
<1>1. Standard \subseteq Nat /\ StandardFrames \subseteq Nat /\ None \notin Nat
  BY DEF Devices!NegotiationAssumption
<1>2. CASE what = "rate"
  <2> DEFINE in == listed["in"].configs
             out == listed["out"].configs
  <2>1. v \in Devices!OfferedRates(in, out)
    BY <1>2 DEF Devices!Offers
  <2>2. v # None /\ AtRate(in, v) # {} /\ AtRate(out, v) # {}
    <3> HIDE DEF in, out
    <3> QED BY <1>1, <2>1, RateIsCovered, SameDevices DEF Devices!OfferedRates
  <2> QED BY <1>2, <2>2 DEF Sides
<1>3. CASE what = "frames"
  <2> DEFINE in == Devices!WithChannels(listed["in"].configs, settled.channels["in"])
             out == Devices!WithChannels(listed["out"].configs, settled.channels["out"])
  <2>1. v \in Devices!OfferedFrames(in, out, settled.rate)
    BY <1>3 DEF Devices!Offers
  <2>2. /\ v # None
        /\ Devices!Accepts(AtRate(in, settled.rate), v)
        /\ Devices!Accepts(AtRate(out, settled.rate), v)
    <3> HIDE DEF in, out
    <3> QED BY <1>1, <2>1, FramesAreTaken, SameDevices DEF Devices!OfferedFrames
  <2> QED BY <1>3, <2>2 DEF Sides
<1> QED
  BY <1>2, <1>3

LEMMA DevicesInvNext ==
  ASSUME Devices!NegotiationAssumption, DevicesInv, [Devices!Next]_(Devices!vars)
  PROVE  DevicesInv'
<1>1. CASE Devices!FirstPass
  <2>1. step' = "ask" /\ UNCHANGED <<formats, prefs, picked>>
    BY <1>1 DEF Devices!FirstPass
  <2>2. SettledOn(listed)'
    BY <1>1, SettledNext DEF Devices!FirstPass
  <2>3. listed' = Devices!Enumerated(Devices!Requested)'
    BY <1>1 DEF Devices!FirstPass, Devices!Enumerated, Devices!Requested
  <2> QED BY <2>1, <2>2, <2>3, KeptStays DEF DevicesInv, Preferences
<1>2. CASE Devices!Decide
  <2> DEFINE granted == prefs.exclusive /\ \A s \in Sides : Devices!Engages(s)
             skewed == \E s \in Sides : listed[s].mode = "exclusive"
  <2>1. /\ step = "ask" /\ step' = "open" /\ UNCHANGED <<formats, prefs, picked>>
        /\ share' = IF granted THEN "exclusive" ELSE "shared"
        /\ IF skewed /\ ~ granted THEN listed' = Devices!Enumerated("shared") /\ Devices!Settle(listed')
           ELSE UNCHANGED <<listed, settled>>
    BY <1>2, SameDevices DEF Devices!Decide
  <2>2. Devices!Modes = {"shared", "exclusive"} /\ prefs.exclusive \in BOOLEAN /\ SettledOn(listed)
        /\ listed = Devices!Enumerated(Devices!Requested)
    BY <2>1 DEF DevicesInv, Devices!Modes
  <2>3. SettledOn(listed)'
    <3>1. CASE skewed /\ ~ granted
      BY <2>1, <3>1, SettledNext
    <3>2. CASE ~ (skewed /\ ~ granted)
      BY <2>1, <2>2, <3>2
      DEF SettledOn, Devices!RateOf, Devices!ChannelsOf, Devices!Minimum
    <3> QED BY <3>1, <3>2
  <2>4. CASE granted
    <3>1. listed' = Devices!Enumerated("exclusive") /\ share' = "exclusive"
      BY <2>1, <2>2, <2>4 DEF Devices!Requested
    <3>2. \A s \in Sides : formats[s]["exclusive"] # {}
      BY <2>4, SameDevices DEF Devices!Engages, AtRate
    <3>3. \A s \in Sides : listed'[s].configs = formats[s]["exclusive"]
      BY <2>2, <3>1, <3>2, Lists
    <3>4. listed' = Devices!Enumerated("exclusive")'
      BY <2>1, <3>1 DEF Devices!Enumerated
    <3> QED BY <2>1, <2>2, <2>3, <3>1, <3>3, <3>4, KeptStays DEF DevicesInv, Preferences
  <2>5. CASE ~ granted
    <3>1. listed' = Devices!Enumerated("shared") /\ share' = "shared"
      <4>1. CASE skewed
        BY <2>1, <2>5, <4>1
      <4>2. CASE ~ skewed
        <5>1. Devices!Requested \in Devices!Modes
          BY <2>2 DEF Devices!Requested
        <5>2. \A s \in Sides : Devices!Requested = "shared" \/ formats[s][Devices!Requested] = {}
          BY <2>2, <4>2, <5>1, Lists
        <5>3. Devices!Enumerated(Devices!Requested) = Devices!Enumerated("shared")
          BY <5>2, SameDevices DEF Devices!Enumerated
        <5> QED BY <2>1, <2>2, <2>5, <4>2, <5>3
      <4> QED BY <4>1, <4>2
    <3>2. \A s \in Sides : listed'[s].configs = formats[s]["shared"]
      BY <2>2, <3>1, Lists
    <3>3. listed' = Devices!Enumerated("shared")'
      BY <2>1, <3>1 DEF Devices!Enumerated
    <3> QED BY <2>1, <2>2, <2>3, <3>1, <3>2, <3>3, KeptStays DEF DevicesInv, Preferences
  <2> QED BY <2>4, <2>5
<1>3. CASE Devices!Pick
  <2>0. PICK what \in {"rate", "frames"} : \E v \in Devices!Offers(what) :
           /\ prefs' = [prefs EXCEPT ![what] = v]
           /\ picked' = [what |-> what, value |-> v, mode |-> share]
    BY <1>3 DEF Devices!Pick
  <2>1. PICK v \in Devices!Offers(what) :
           /\ prefs' = [prefs EXCEPT ![what] = v]
           /\ picked' = [what |-> what, value |-> v, mode |-> share]
    BY <2>0
  <2>2. /\ step = "open" /\ step' = "negotiate" /\ UNCHANGED <<formats, listed, settled, share>>
        /\ SettledOn(listed) /\ listed = Devices!Enumerated(share)
    BY <1>3 DEF Devices!Pick, DevicesInv
  <2>3. /\ prefs' = [rate      |-> IF what = "rate" THEN v ELSE prefs.rate,
                     frames    |-> IF what = "frames" THEN v ELSE prefs.frames,
                     channel   |-> prefs.channel,
                     exclusive |-> prefs.exclusive]
        /\ prefs'[what] = v
    BY <2>1 DEF DevicesInv, Preferences
  <2>4. /\ v # None
        /\ IF what = "rate" THEN \A s \in Sides : AtRate(listed[s].configs, v) # {}
           ELSE \A s \in Sides : Devices!Accepts(
                  AtRate(Devices!WithChannels(listed[s].configs, settled.channels[s]), settled.rate), v)
    BY <2>2, OfferedIsTaken
  <2> DEFINE lists == Devices!Enumerated(picked.mode)
             hz == Devices!RateOf(lists)
             n == Devices!ChannelsOf(lists, hz)
  <2>5. lists' = listed
    BY <2>1, <2>2 DEF Devices!Enumerated
  <2>6. ASSUME what = "frames"
        PROVE  hz' = settled.rate /\ n' = settled.channels
    <3>1. prefs'.rate = prefs.rate /\ prefs'.channel = prefs.channel
      BY <2>3, <2>6
    <3>2. hz' = Devices!RateOf(listed)
      BY <2>5, <3>1 DEF Devices!RateOf
    <3>3. n' = Devices!ChannelsOf(listed, hz')
      BY <2>5, <3>1 DEF Devices!ChannelsOf, Devices!Minimum
    <3> QED BY <2>2, <3>2, <3>3 DEF SettledOn
  <2>7. Kept'
    <3> HIDE DEF hz, n
    <3>1. picked'.what = what /\ picked'.value = v
      BY <2>1
    <3> QED BY <2>3, <2>4, <2>5, <2>6, <3>1 DEF Kept, hz, n
  <2> QED BY <2>2, <2>3, <2>7 DEF DevicesInv, Preferences
<1>4. CASE UNCHANGED Devices!vars
  <2>1. UNCHANGED <<formats, prefs, picked, step, listed, settled, share>>
    BY <1>4 DEF Devices!vars
  <2> QED BY <2>1, KeptStays
      DEF DevicesInv, Preferences, SettledOn, Devices!RateOf, Devices!ChannelsOf, Devices!Minimum,
          Devices!Enumerated, Devices!Requested
<1> QED
  BY <1>1, <1>2, <1>3, <1>4 DEF Devices!Next

\* Whatever lists the devices report in either mode, and whatever was remembered,
\* what the streams are opened with is a configuration of each device in the mode
\* it is opened in, and what the user picked is what the next opening has.
THEOREM OpenedAsReported ==
  Devices!NegotiationAssumption => (Devices!Spec => []OpensAsReported)
<1>1. ASSUME Devices!NegotiationAssumption
      PROVE  Devices!Spec => []OpensAsReported
  <2>1. Devices!Init => DevicesInv
    BY <1>1, DevicesInvInit
  <2>2. DevicesInv /\ [Devices!Next]_(Devices!vars) => DevicesInv'
    BY <1>1, DevicesInvNext
  <2>3. DevicesInv => OpensAsReported
    <3> SUFFICES ASSUME DevicesInv, step = "open", Found PROVE OpensAsReported
      BY DEF OpensAsReported
    <3>1. ASSUME NEW s \in Sides
          PROVE  listed[s].configs = formats[s][share] /\ listed[s].configs \in Reports
      BY DEF DevicesInv
    <3>2. SettledOn(listed) /\ Kept /\ listed = Devices!Enumerated(share)
      BY DEF DevicesInv
    <3> QED BY <1>1, <3>1, <3>2, SettledIsReported, PickedIsOpened DEF OpensAsReported
  <2> QED BY <2>1, <2>2, <2>3, PTL DEF Devices!Spec
<1> QED
  BY <1>1
=============================================================================
