--------------------------- MODULE ProcessProofs ---------------------------
(***************************************************************************)
(* Proofs about Process, for any files in the plugin directories, whatever *)
(* hooks raise, and wherever the process ends.                             *)
(***************************************************************************)
EXTENDS Process, SequenceTheorems, TLAPS

-----------------------------------------------------------------------------
(* The inductive invariant.                                                *)

(* Stages in which every plugin runs, and those in which none does.        *)
Serving ==
  {"restore", "idle", "observe", "report", "decide", "plan", "execute",
   "settle", "tick", "jobs", "watch", "drain", "error", "wait"}

Over == {"remember", "confirm", "close"}

Present == {f \in FileNumbers : phase[f] # "absent"}

(* plugins lists the files loaded so far, in their order; a loop over it   *)
(* starts at the first.                                                    *)
PluginsInOrder ==
  /\ \A i, j \in DOMAIN plugins : i < j => plugins[i] < plugins[j]
  /\ pc = "load" => /\ \A i \in DOMAIN plugins : plugins[i] < turn
                    /\ Len(plugins) < turn
  /\ Len(plugins) <= Len(Files)
  /\ pc \in {"down", "open"} => plugins = <<>>
  /\ pc \notin {"load", "start", "tick", "stop"} => turn = 1

(* How far the i-th plugin has come: start and stop have a front, which    *)
(* moves up, and down.                                                     *)
HasComeFar(i) ==
  LET stage == phase[plugins[i]]
      rank == i + turn - 1
  IN  /\ pc = "load" => stage = "loaded"
      /\ pc = "start" => stage = IF i < turn THEN "running" ELSE "loaded"
      /\ pc \in Serving => stage = "running"
      /\ pc = "stop" =>
           /\ rank < Len(plugins) => stage = "running"
           /\ rank = Len(plugins) => stage \in {"running", "stopped"}
           /\ rank > Len(plugins) => stage = "unloaded"
      /\ pc \in Over => stage = "unloaded"

PhasesFitStage ==
  /\ \A f \in Present : \E i \in DOMAIN plugins : plugins[i] = f
  /\ \A i \in DOMAIN plugins : HasComeFar(i)

(* Only a plugin that was loaded is called for a task or an event.         *)
CalleesArePresent ==
  /\ handlers \in [DOMAIN handlers -> Present \cup {None}]
  /\ subscribers \in [Topics -> Seq(Present)]
  /\ hearing \in Seq(Present)

(* A hook is that of the plugin that the loop is at, in its stage.         *)
HookFitsStage ==
  inside # None =>
    \/ In("load") /\ pc = "load" /\ turn <= Len(Files) /\ inside[1] = turn
    \/ /\ In("start") /\ pc = "start"
       /\ turn <= Len(plugins)
       /\ inside[1] = plugins[turn]
    \/ In("tick") /\ pc = "tick" /\ turn <= Len(plugins)
    \/ In("handle") /\ pc = "execute" /\ Handled
    \/ In("hear") /\ pc = "drain"
    \/ /\ pc = "stop"
       /\ turn <= Len(plugins)
       /\ inside[1] = LastUp
       /\ \/ In("stop") /\ phase[LastUp] = "running"
          \/ In("unload") /\ phase[LastUp] = "stopped"

(* An answer is awaited from what was asked last.                          *)
AskedIsProbe == asked => probe < Probes

IInv ==
  /\ TypeOK
  /\ SavesFindTheStore
  /\ PluginsInOrder
  /\ PhasesFitStage
  /\ CalleesArePresent
  /\ HookFitsStage
  /\ AskedIsProbe

-----------------------------------------------------------------------------
(* Facts about the constants and the lists of plugins.                     *)
LEMMA FilesAreNumbered ==
  /\ Len(Files) \in Nat
  /\ FileNumbers = 1 .. Len(Files)
BY RegistryAssumption, LenProperties DEF FileNumbers

LEMMA PluginsAreNumbered ==
  ASSUME plugins \in Seq(FileNumbers)
  PROVE  /\ Len(plugins) \in Nat
         /\ DOMAIN plugins = 1 .. Len(plugins)
         /\ \A i \in DOMAIN plugins : plugins[i] \in FileNumbers
BY LenProperties, ElementOfSeq

(* What there is when no process runs.                                     *)
NoProcess ==
  /\ EmptyRegistry
  /\ ObserverInit
  /\ pc = "down" /\ turn = 1 /\ kind = "system_check" /\ active = {}
  /\ opened = FALSE /\ requested = FALSE
  /\ service \in {"active", "stopping", "inactive"}
  /\ status \in {"none", "success", "failure", "signal"}

(* The invariant holds between two processes.                              *)
LEMMA NoProcessIsRight == NoProcess => IInv
<1> SUFFICES ASSUME NoProcess PROVE IInv
  OBVIOUS
<1> USE FilesAreNumbered, RegistryAssumption, ObserverAssumption
<1> USE DEF NoProcess, EmptyRegistry
<1>1. /\ \A S : <<>> \in Seq(S)
      /\ Len(<<>>) = 0
      /\ DOMAIN <<>> = {}
  BY EmptySeq
<1>2. TypeOK
  <2>1. /\ bus \in Seq(Events) /\ plugins \in Seq(FileNumbers)
        /\ hearing \in Seq(FileNumbers) /\ owed \in Seq(FileNumbers)
        /\ subscribers \in [Topics -> Seq(FileNumbers)]
        /\ phase \in [FileNumbers ->
             {"absent", "loaded", "running", "stopped", "unloaded"}]
    BY <1>1 DEF Topics
  <2>2. /\ handlers \in [DOMAIN handlers -> FileNumbers \cup {None}]
        /\ {"system_check"} \subseteq DOMAIN handlers
        /\ DOMAIN handlers \subseteq Kinds
    OBVIOUS
  <2>3. /\ probe \in 0 .. Probes
        /\ pc \in Stages
        /\ turn \in 1 .. Len(Files) + 1
    BY DEF ObserverInit, Probes, Stages
  <2>4. /\ inside \in FileNumbers \X Hooks \cup {None} /\ kind \in Kinds
        /\ active \subseteq FileNumbers
        /\ asked \in BOOLEAN /\ opened \in BOOLEAN /\ requested \in BOOLEAN
    BY DEF ObserverInit
  <2> QED
    BY <2>1, <2>2, <2>3, <2>4 DEF TypeOK, NoProcess
<1>3. SavesFindTheStore
  BY DEF SavesFindTheStore
<1>4. Present = {}
  BY DEF Present
<1>5. PluginsInOrder /\ PhasesFitStage
  BY <1>1, <1>4 DEF PluginsInOrder, PhasesFitStage
<1>6. CalleesArePresent
  BY <1>1 DEF CalleesArePresent, Topics
<1>7. HookFitsStage
  BY DEF HookFitsStage
<1>8. AskedIsProbe
  BY DEF ObserverInit, AskedIsProbe
<1> QED
  BY <1>2, <1>3, <1>5, <1>6, <1>7, <1>8 DEF IInv

LEMMA InvariantAtFirst == Init => IInv
BY NoProcessIsRight DEF Init, NoProcess

(* The end of a process takes away all that it had.                        *)
LEMMA EndIsRight ==
  ASSUME NEW how \in {"success", "failure", "signal"}, End(how),
         service' \in {"active", "stopping", "inactive"}
  PROVE  IInv'
<1>1. EmptyRegistry' /\ ObserverInit'
  BY DEF End, ForgetPlugins, EmptyRegistry, ResetObserver, ObserverInit
<1>2. NoProcess'
  BY <1>1 DEF End, NoProcess
<1>3. NoProcess' => IInv'
  BY NoProcessIsRight, PTL
<1> QED
  BY <1>2, <1>3

-----------------------------------------------------------------------------
(* The kinds of steps.                                                     *)

Dies == \E how \in {"success", "failure", "signal"} : End(how)

(* Steps that do nothing but go on in main.                                *)
Moves ==
  \E stage \in Stages :
    /\ Move(stage)
    /\ stage = "observe" => ~requested
    /\ <<pc, stage>> \in
         {<<"down", "open">>, <<"restore", "idle">>, <<"idle", "observe">>,
          <<"report", "error">>, <<"decide", "error">>, <<"settle", "error">>,
          <<"jobs", "error">>, <<"jobs", "watch">>, <<"watch", "error">>,
          <<"watch", "drain">>, <<"error", "idle">>, <<"wait", "stop">>,
          <<"remember", "confirm">>, <<"confirm", "close">>}

MovesWithNews ==
  \E event \in Events, stage \in Stages :
    /\ MoveWithNews(event, stage)
    /\ <<pc, stage>> \in
         {<<"report", "decide">>, <<"decide", "plan">>, <<"settle", "tick">>,
          <<"idle", "wait">>, <<"jobs", "watch">>, <<"jobs", "error">>,
          <<"watch", "drain">>}

Opens ==
  /\ pc = "open"
  /\ pc' = "load"
  /\ opened' = TRUE
  /\ UNCHANGED <<pluginVars, turn, observerVars, kind, active, systemVars>>

(* Calls of hooks by a loop, or for the task in hand.                      *)
Calls == BeginLoad \/ BeginStart \/ BeginTick \/ BeginHandle \/ BeginStopHook

LoopEnds == AllLoaded \/ AllStarted \/ AllTicked \/ AllStopped

Observes == AskNext \/ ProbeAnswers \/ ProbeTimesOut \/ EndObservation

(* What happens outside of the process.                                    *)
Around ==
  /\ \/ requested' = requested
     \/ requested' = TRUE /\ pc \notin Boot \cup {"down"}
     \/ requested' = FALSE /\ pc = "down"
  /\ service' \in {"active", "stopping", "inactive"}
  /\ UNCHANGED <<pluginVars, pc, turn, observerVars, kind, active, opened,
                 status>>

LEMMA StepShapes ==
  ASSUME service \in {"active", "stopping", "inactive"},
         requested \in BOOLEAN, [Next]_vars, ~Dies
  PROVE  \/ Moves \/ MovesWithNews \/ Opens \/ Calls \/ LoopEnds \/ Observes
         \/ EndLoad \/ EndStart \/ EndUnloadHook \/ EndStopHook \/ EndHandle
         \/ EndTick \/ Plan \/ ExecuteAtOnce \/ NextEvent \/ BeginHear
         \/ EndHear \/ EndCycle \/ Around
         \/ \E p \in FileNumbers : BeginTask(p) \/ EndTask(p)
<1> USE DEF Dies
<1>1. CASE Launch \/ BeginCycle \/ TasksAreDone \/ WaitTimesOut
  BY <1>1 DEF Launch, BeginCycle, TasksAreDone, WaitTimesOut, Moves, Stages,
       Boot
<1>2. CASE Restore \/ HandleError \/ RememberStop \/ Confirm
  BY <1>2 DEF Restore, HandleError, RememberStop, Confirm, MoveOrDie, Die,
       Moves, Stages, Boot
<1>3. CASE Report \/ Decide \/ Settle \/ RunJobs \/ CheckWatchdog
  <2>1. AbortWithoutNews => Move("error")
    BY DEF AbortWithoutNews, Abort, Move
  <2>2. CASE Report
    BY <1>3, <2>1, <2>2 DEF Report, Moves, MovesWithNews, Events, Stages, Boot
  <2>3. CASE Decide
    BY <1>3, <2>1, <2>3 DEF Decide, Moves, MovesWithNews, Events, Stages, Boot
  <2>4. CASE Settle
    BY <1>3, <2>1, <2>4 DEF Settle, Moves, MovesWithNews, Events, Stages, Boot
  <2>5. CASE RunJobs
    BY <1>3, <2>1, <2>5 DEF RunJobs, AbortWithNews, Moves, MovesWithNews,
         Events, Stages, Boot
  <2>6. CASE CheckWatchdog
    BY <1>3, <2>1, <2>6 DEF CheckWatchdog, Moves, MovesWithNews, Events,
         Stages, Boot
  <2> QED
    BY <1>3, <2>2, <2>3, <2>4, <2>5, <2>6
<1>4. CASE BeginStop
  BY <1>4 DEF BeginStop, MovesWithNews, Events, Stages, Boot
<1>5. CASE Open
  BY <1>5 DEF Open, Die, Opens
<1>6. CASE Escape \/ Close \/ Kill
  BY <1>6 DEF Escape, Die, Close, Kill
<1>7. CASE Signal \/ StopService
  BY <1>7 DEF Signal, StopService, Terminate, Around
<1>8. CASE ServiceStopped \/ StartService
  BY <1>8 DEF ServiceStopped, StartService, Around
<1>9. CASE UNCHANGED vars
  BY <1>9 DEF vars, aside, others, systemVars, Around
<1> QED
  BY <1>1, <1>2, <1>3, <1>4, <1>5, <1>6, <1>7, <1>8, <1>9
  DEF Next, Step, Outside, Systemd, Calls, LoopEnds, Observes

-----------------------------------------------------------------------------
(* Types are preserved.                                                    *)
LEMMA CalleesAreFiles ==
  ASSUME TypeOK, NEW event \in Events
  PROVE  Callees(event) \in Seq(FileNumbers)
BY ConcatProperties DEF TypeOK, Callees, Topics

LEMMA RegistryTypesAreKept ==
  ASSUME IInv, [Next]_vars, ~Dies
  PROVE  /\ plugins' \in Seq(FileNumbers)
         /\ handlers' \in [DOMAIN handlers' -> FileNumbers \cup {None}]
         /\ {"system_check"} \subseteq DOMAIN handlers'
         /\ DOMAIN handlers' \subseteq Kinds
         /\ subscribers' \in [Topics -> Seq(FileNumbers)]
<1> USE DEF IInv
<1>1. CASE UNCHANGED registryVars
  BY <1>1 DEF TypeOK, registryVars
<1>2. CASE EndLoad
  <2>1. turn \in FileNumbers
    BY <1>2, FilesAreNumbered DEF EndLoad, HookFitsStage, TypeOK, In
  <2>2. Files[turn].kinds \subseteq Kinds
    <3>1. Files[turn] \in File
      BY <2>1, RegistryAssumption, ElementOfSeq, FilesAreNumbered
    <3> QED
      BY <3>1 DEF File
  <2>3. CASE Files[turn].plugin
    <3>1. plugins' \in Seq(FileNumbers)
      <4>1. plugins' = Append(plugins, turn)
        BY <1>2, <2>3 DEF EndLoad, Register
      <4> QED
        BY <2>1, <4>1, AppendProperties DEF TypeOK
    <3>2. subscribers' \in [Topics -> Seq(FileNumbers)]
      <4>1. \A topic \in Topics : Append(subscribers[topic], turn)
                                    \in Seq(FileNumbers)
        BY <2>1, AppendProperties DEF TypeOK
      <4>2. subscribers' = [topic \in Topics |->
                              IF topic \in Files[turn].topics
                              THEN Append(subscribers[topic], turn)
                              ELSE subscribers[topic]]
        BY <1>2, <2>3 DEF EndLoad, Register, TypeOK
      <4> QED
        BY <4>1, <4>2 DEF TypeOK
    <3>3. /\ handlers' \in [DOMAIN handlers' -> FileNumbers \cup {None}]
          /\ DOMAIN handlers' = DOMAIN handlers \cup Files[turn].kinds
      BY <1>2, <2>1, <2>3 DEF EndLoad, Register, TypeOK
    <3> QED
      BY <2>2, <3>1, <3>2, <3>3 DEF TypeOK
  <2> QED
    BY <1>1, <1>2, <2>3 DEF EndLoad, Register
<1>3. UNCHANGED registryVars \/ EndLoad
  <2>1. CASE \/ Moves \/ MovesWithNews \/ Opens \/ Calls \/ LoopEnds
             \/ Observes \/ Around
    BY <2>1 DEF Moves, Move, MovesWithNews, MoveWithNews, Opens, Calls,
         BeginLoad, BeginStart, BeginTick, BeginHandle, BeginStopHook, Call,
         LoopEnds, AllLoaded, AllStarted, AllTicked, AllStopped, AllCalled,
         Observes, AskNext, ProbeAnswers, ProbeTimesOut, Probing,
         EndObservation, Around, pluginVars
  <2>2. CASE \/ EndStart \/ EndUnloadHook \/ EndStopHook \/ EndHandle
             \/ EndTick \/ Plan \/ ExecuteAtOnce \/ NextEvent
    BY <2>2 DEF EndStart, EndUnloadHook, EndCall, EndStopHook, EndHandle,
         EndTick, Plan, ExecuteAtOnce, Move, NextEvent, pluginVars
  <2>3. CASE \/ BeginHear \/ EndHear \/ EndCycle
             \/ \E p \in FileNumbers : BeginTask(p) \/ EndTask(p)
    BY <2>3 DEF BeginHear, EndHear, EndCycle, Move, BeginTask, EndTask,
         pluginVars
  <2> QED
    BY StepShapes, <2>1, <2>2, <2>3 DEF TypeOK
<1> QED
  BY <1>1, <1>2, <1>3

LEMMA DeliveryTypesAreKept ==
  ASSUME IInv, [Next]_vars, ~Dies
  PROVE  /\ bus' \in Seq(Events)
         /\ hearing' \in Seq(FileNumbers)
         /\ owed' \in Seq(FileNumbers)
<1> USE DEF IInv
<1>1. CASE UNCHANGED deliveryVars
  BY <1>1 DEF TypeOK, deliveryVars
<1>2. CASE MovesWithNews
  <2>1. PICK event \in Events : Announce(event)
    BY <1>2 DEF MovesWithNews, MoveWithNews
  <2>2. bus' \in Seq(Events)
    BY <2>1, AppendProperties DEF Announce, Publish, TypeOK
  <2>3. owed' \in Seq(FileNumbers)
    BY <2>1, CalleesAreFiles, ConcatProperties DEF Announce, TypeOK
  <2> QED
    BY <2>1, <2>2, <2>3 DEF Announce, TypeOK
<1>3. CASE NextEvent
  <2>1. Head(bus) \in Events /\ Tail(bus) \in Seq(Events)
    BY <1>3, HeadTailProperties DEF NextEvent, TakeEvent, Take, TypeOK
  <2> QED
    BY <1>3, <2>1, CalleesAreFiles DEF NextEvent, TakeEvent, Take, TypeOK
<1>4. CASE BeginHear
  <2>1. Tail(hearing) \in Seq(FileNumbers)
    BY <1>4, HeadTailProperties DEF BeginHear, CallHandler, TypeOK
  <2>2. /\ Len(owed) \in Int
        /\ \A i \in 2 .. Len(owed) : owed[i] \in FileNumbers
    BY LenProperties, ElementOfSeq DEF TypeOK
  <2>3. SubSeq(owed, 2, Len(owed)) \in Seq(FileNumbers)
    BY <2>2, SubSeqProperties
  <2> QED
    BY <1>4, <2>1, <2>3 DEF BeginHear, CallHandler, TypeOK
<1>5. CASE EndHear
  BY <1>5 DEF EndHear, StillHearing, TypeOK
<1>6. CASE \/ Moves \/ Opens \/ Calls \/ LoopEnds \/ Observes \/ Around
  <2>1. UNCHANGED deliveryVars
    BY <1>6 DEF Moves, Move, Opens, Calls,
         BeginLoad, BeginStart, BeginTick, BeginHandle, BeginStopHook, Call,
         LoopEnds, AllLoaded, AllStarted, AllTicked, AllStopped, AllCalled,
         Observes, AskNext, ProbeAnswers, ProbeTimesOut, Probing,
         EndObservation, Around, pluginVars
  <2> QED
    BY <1>1, <2>1
<1>7. CASE \/ EndLoad \/ EndStart \/ EndUnloadHook \/ EndStopHook
           \/ EndHandle \/ EndTick \/ Plan \/ ExecuteAtOnce \/ EndCycle
           \/ \E p \in FileNumbers : BeginTask(p) \/ EndTask(p)
  <2>1. UNCHANGED deliveryVars
    BY <1>7 DEF EndLoad, EndStart, EndUnloadHook, EndCall, EndStopHook,
         EndHandle, EndTick, Plan, ExecuteAtOnce, Move, EndCycle, BeginTask,
         EndTask, pluginVars
  <2> QED
    BY <1>1, <2>1
<1> QED
  BY StepShapes, <1>2, <1>3, <1>4, <1>5, <1>6, <1>7 DEF TypeOK

(* The plugin that a loop calls is a file.                                 *)
LEMMA CalleesOfLoops ==
  ASSUME IInv
  PROVE  /\ pc = "load" /\ turn <= Len(Files) => turn \in FileNumbers
         /\ turn <= Len(plugins) => /\ plugins[turn] \in FileNumbers
                                    /\ LastUp \in FileNumbers
                                    /\ turn < Len(Files) + 1
         /\ Handled => handlers[kind] \in FileNumbers
<1> USE DEF IInv
<1>1. /\ turn \in Nat
      /\ 1 <= turn
  BY FilesAreNumbered DEF TypeOK
<1>2. pc = "load" /\ turn <= Len(Files) => turn \in FileNumbers
  BY <1>1, FilesAreNumbered
<1>3. ASSUME turn <= Len(plugins)
      PROVE  /\ plugins[turn] \in FileNumbers
             /\ LastUp \in FileNumbers
             /\ turn < Len(Files) + 1
  <2>1. plugins \in Seq(FileNumbers) /\ Len(plugins) <= Len(Files)
    BY DEF TypeOK, PluginsInOrder
  <2>2. turn \in DOMAIN plugins /\ Len(plugins) + 1 - turn \in DOMAIN plugins
    BY <1>1, <1>3, <2>1, PluginsAreNumbered
  <2> QED
    BY <1>1, <1>3, <2>1, <2>2, FilesAreNumbered, PluginsAreNumbered DEF LastUp
<1>4. Handled => handlers[kind] \in FileNumbers
  BY DEF Handled, TypeOK
<1> QED
  BY <1>2, <1>3, <1>4

LEMMA HookTypesAreKept ==
  ASSUME IInv, [Next]_vars, ~Dies
  PROVE  /\ inside' \in FileNumbers \X Hooks \cup {None}
         /\ phase' \in [FileNumbers ->
              {"absent", "loaded", "running", "stopped", "unloaded"}]
<1> USE DEF IInv
<1>1. CASE UNCHANGED <<phase, inside>>
  BY <1>1 DEF TypeOK
<1>2. CASE Calls
  <2>1. PICK p \in FileNumbers, hook \in Hooks : Call(p, hook)
    BY <1>2, CalleesOfLoops DEF Calls, BeginLoad, BeginStart, BeginTick,
         BeginHandle, BeginStopHook, Hooks
  <2> QED
    BY <2>1 DEF Call, Enter, TypeOK
<1>3. CASE BeginHear
  <2>1. Head(hearing) \in FileNumbers
    BY <1>3, HeadTailProperties DEF BeginHear, CallHandler, TypeOK
  <2> QED
    BY <1>3, <2>1 DEF BeginHear, CallHandler, Enter, Hooks, TypeOK
<1>4. CASE EndLoad
  BY <1>4 DEF EndLoad, Return, Register, Becomes, TypeOK
<1>5. CASE EndStart \/ EndUnloadHook \/ EndStopHook
  BY <1>5 DEF EndStart, EndUnloadHook, EndCall, EndStopHook, Return, Becomes,
       TypeOK
<1>6. CASE EndHandle \/ EndTick \/ EndHear
  BY <1>6 DEF EndHandle, EndTick, EndHear, Return, TypeOK
<1>7. CASE \/ Moves \/ MovesWithNews \/ Opens \/ LoopEnds \/ Observes
           \/ Around
  <2>1. UNCHANGED <<phase, inside>>
    BY <1>7 DEF Moves, Move, MovesWithNews, MoveWithNews, Opens, LoopEnds,
         AllLoaded, AllStarted, AllTicked, AllStopped, AllCalled, Observes,
         AskNext, ProbeAnswers, ProbeTimesOut, Probing, EndObservation, Around,
         pluginVars
  <2> QED
    BY <1>1, <2>1
<1>8. CASE \/ Plan \/ ExecuteAtOnce \/ NextEvent \/ EndCycle
           \/ \E p \in FileNumbers : BeginTask(p) \/ EndTask(p)
  <2>1. UNCHANGED <<phase, inside>>
    BY <1>8 DEF Plan, ExecuteAtOnce, Move, NextEvent, TakeEvent, EndCycle,
         BeginTask, EndTask, pluginVars
  <2> QED
    BY <1>1, <2>1
<1> QED
  BY StepShapes, <1>2, <1>3, <1>4, <1>5, <1>6, <1>7, <1>8 DEF TypeOK

LEMMA ProgressTypesAreKept ==
  ASSUME IInv, [Next]_vars, ~Dies
  PROVE  pc' \in Stages /\ turn' \in 1 .. Len(Files) + 1
<1> USE FilesAreNumbered DEF IInv, Stages, Boot
<1>1. CASE UNCHANGED <<pc, turn>>
  BY <1>1 DEF TypeOK
<1>2. CASE Moves \/ MovesWithNews \/ Opens
  BY <1>2 DEF Moves, Move, MovesWithNews, MoveWithNews, Opens, TypeOK
<1>3. CASE LoopEnds
  BY <1>3 DEF LoopEnds, AllLoaded, AllStarted, AllTicked, AllStopped,
       AllCalled, TypeOK
<1>4. CASE Observes
  BY <1>4 DEF Observes, AskNext, ProbeAnswers, ProbeTimesOut, Probing, others,
       EndObservation, Abort, TypeOK
<1>5. CASE EndLoad \/ EndStart \/ EndUnloadHook \/ EndTick
  <2>1. turn + 1 \in 1 .. Len(Files) + 1
    <3>1. CASE EndLoad
      BY <3>1 DEF EndLoad, In, HookFitsStage, TypeOK
    <3>2. CASE EndStart \/ EndUnloadHook \/ EndTick
      <4>1. turn <= Len(plugins)
        BY <3>2 DEF EndStart, EndUnloadHook, EndCall, EndTick, In,
             HookFitsStage
      <4>2. turn < Len(Files) + 1
        BY <4>1, CalleesOfLoops
      <4> QED
        BY <4>2 DEF TypeOK
    <3> QED
      BY <1>5, <3>1, <3>2
  <2> QED
    BY <1>5, <2>1 DEF EndLoad, EndStart, EndUnloadHook, EndCall, EndTick,
         Abort, TypeOK
<1>6. CASE Plan \/ ExecuteAtOnce \/ EndHandle \/ EndCycle
  BY <1>6 DEF Plan, Abort, ExecuteAtOnce, EndHandle, EndCycle, Move, TypeOK
<1>7. CASE \/ Calls \/ EndStopHook \/ NextEvent \/ BeginHear \/ EndHear
           \/ Around
           \/ \E p \in FileNumbers : BeginTask(p) \/ EndTask(p)
  <2>1. UNCHANGED <<pc, turn>>
    BY <1>7 DEF Calls, BeginLoad, BeginStart, BeginTick, BeginHandle,
         BeginStopHook, Call, EndStopHook, NextEvent, BeginHear, EndHear,
         Around, BeginTask, EndTask
  <2> QED
    BY <1>1, <2>1
<1> QED
  BY StepShapes, <1>2, <1>3, <1>4, <1>5, <1>6, <1>7 DEF TypeOK

LEMMA OtherTypesAreKept ==
  ASSUME IInv, [Next]_vars, ~Dies
  PROVE  /\ probe' \in 0 .. Probes
         /\ asked' \in BOOLEAN
         /\ kind' \in Kinds
         /\ active' \subseteq FileNumbers
         /\ opened' \in BOOLEAN
         /\ requested' \in BOOLEAN
         /\ service' \in {"active", "stopping", "inactive"}
         /\ status' \in {"none", "success", "failure", "signal"}
<1> USE DEF IInv, others, systemVars
<1>1. CASE UNCHANGED aside
  BY <1>1 DEF TypeOK, aside, observerVars
<1>2. CASE Opens
  BY <1>2 DEF Opens, TypeOK, observerVars
<1>3. CASE Observes
  <2>1. UNCHANGED others
    BY <1>3 DEF Observes, AskNext, ProbeAnswers, ProbeTimesOut, Probing,
         EndObservation
  <2>2. asked' \in BOOLEAN
    BY <1>3 DEF Observes, AskNext, ProbeAnswers, ProbeTimesOut, Probing,
         EndObservation, Ask, CannotAsk, NextProbe, Answer, GiveUp,
         ResetObserver
  <2>3. \/ probe' \in {probe, 0}
        \/ probe < Probes /\ probe' = probe + 1
    <3>1. CASE ProbeAnswers \/ ProbeTimesOut
      <4>1. asked /\ probe' = probe + 1
        BY <3>1 DEF ProbeAnswers, ProbeTimesOut, Probing, Answer, GiveUp,
             NextProbe
      <4>2. AskedIsProbe
        OBVIOUS
      <4> QED
        BY <4>1, <4>2 DEF AskedIsProbe
    <3>2. CASE AskNext
      BY <3>2 DEF AskNext, Probing, Ask, CannotAsk, NextProbe
    <3>3. CASE EndObservation
      BY <3>3 DEF EndObservation, ResetObserver
    <3> QED
      BY <1>3, <3>1, <3>2, <3>3 DEF Observes
  <2>4. probe' \in 0 .. Probes
    BY <2>3, ObserverAssumption DEF Probes, TypeOK
  <2> QED
    BY <2>1, <2>2, <2>4 DEF TypeOK
<1>4. CASE Plan
  BY <1>4 DEF Plan, TypeOK, observerVars
<1>5. CASE Around
  BY <1>5 DEF Around, TypeOK, observerVars
<1>6. CASE \E p \in FileNumbers : BeginTask(p) \/ EndTask(p)
  BY <1>6 DEF BeginTask, EndTask, TypeOK, observerVars
<1>7. CASE Moves \/ MovesWithNews \/ Calls \/ LoopEnds \/ EndLoad
  <2>1. UNCHANGED aside
    BY <1>7 DEF Moves, Move, MovesWithNews, MoveWithNews, Calls, BeginLoad,
         BeginStart, BeginTick, BeginHandle, BeginStopHook, Call, LoopEnds,
         AllLoaded, AllStarted, AllTicked, AllStopped, AllCalled, EndLoad
  <2> QED
    BY <1>1, <2>1
<1>8. CASE \/ EndStart \/ EndUnloadHook \/ EndStopHook \/ EndHandle
           \/ EndTick \/ ExecuteAtOnce \/ NextEvent \/ BeginHear \/ EndHear
           \/ EndCycle
  <2>1. UNCHANGED aside
    BY <1>8 DEF EndStart, EndUnloadHook, EndCall, EndStopHook, EndHandle,
         EndTick, ExecuteAtOnce, Move, NextEvent, BeginHear, EndHear, EndCycle
  <2> QED
    BY <1>1, <2>1
<1> QED
  BY StepShapes, <1>2, <1>3, <1>4, <1>5, <1>6, <1>7, <1>8 DEF TypeOK

LEMMA TypesAreKept ==
  ASSUME IInv, [Next]_vars, ~Dies
  PROVE  TypeOK'
BY RegistryTypesAreKept, DeliveryTypesAreKept, HookTypesAreKept,
   ProgressTypesAreKept, OtherTypesAreKept
DEF TypeOK, Topics, Probes, Stages, Boot

(* The observer's place, and the store's connection.                       *)
LEMMA ProbeStaysAsked ==
  ASSUME IInv, [Next]_vars, ~Dies
  PROVE  AskedIsProbe'
<1> USE DEF IInv, observerVars
<1>1. CASE UNCHANGED observerVars
  BY <1>1 DEF AskedIsProbe, Probes
<1>2. CASE Observes
  BY <1>2 DEF Observes, AskNext, ProbeAnswers, ProbeTimesOut, Probing, Ask,
       CannotAsk, Answer, GiveUp, NextProbe, EndObservation, ResetObserver,
       AskedIsProbe, Probes
<1>3. CASE \/ Moves \/ MovesWithNews \/ Opens \/ Calls \/ LoopEnds \/ EndLoad
           \/ Around \/ Plan
           \/ \E p \in FileNumbers : BeginTask(p) \/ EndTask(p)
  <2>1. UNCHANGED observerVars
    BY <1>3 DEF Moves, Move, MovesWithNews, MoveWithNews, Opens, Calls,
         BeginLoad, BeginStart, BeginTick, BeginHandle, BeginStopHook, Call,
         LoopEnds, AllLoaded, AllStarted, AllTicked, AllStopped, AllCalled,
         EndLoad, Around, Plan, BeginTask, EndTask, aside
  <2> QED
    BY <1>1, <2>1
<1>4. CASE \/ EndStart \/ EndUnloadHook \/ EndStopHook \/ EndHandle
           \/ EndTick \/ ExecuteAtOnce \/ NextEvent \/ BeginHear \/ EndHear
           \/ EndCycle
  <2>1. UNCHANGED observerVars
    BY <1>4 DEF EndStart, EndUnloadHook, EndCall, EndStopHook, EndHandle,
         EndTick, ExecuteAtOnce, Move, NextEvent, BeginHear, EndHear, EndCycle,
         aside
  <2> QED
    BY <1>1, <2>1
<1> QED
  BY StepShapes, <1>2, <1>3, <1>4 DEF TypeOK

LEMMA StoreStaysOpen ==
  ASSUME IInv, [Next]_vars, ~Dies
  PROVE  SavesFindTheStore'
<1> USE DEF IInv, others, SavesFindTheStore
<1>1. CASE UNCHANGED <<pc, opened>>
  BY <1>1
<1>2. CASE Moves \/ MovesWithNews \/ Opens
  BY <1>2 DEF Moves, Move, MovesWithNews, MoveWithNews, Opens, aside
<1>3. CASE LoopEnds \/ Observes
  BY <1>3 DEF LoopEnds, AllLoaded, AllStarted, AllTicked, AllStopped,
       AllCalled, Observes, AskNext, ProbeAnswers, ProbeTimesOut, Probing,
       EndObservation, Abort, aside
<1>4. CASE \/ EndLoad \/ EndStart \/ EndUnloadHook \/ EndStopHook
           \/ EndHandle \/ EndTick
  BY <1>4 DEF EndLoad, EndStart, EndUnloadHook, EndCall, EndStopHook,
       EndHandle, EndTick, Abort, aside, In, HookFitsStage
<1>5. CASE \/ Plan \/ ExecuteAtOnce \/ EndCycle
  BY <1>5 DEF Plan, Abort, ExecuteAtOnce, EndCycle, Move, aside
<1>6. CASE \/ Calls \/ NextEvent \/ BeginHear \/ EndHear \/ Around
           \/ \E p \in FileNumbers : BeginTask(p) \/ EndTask(p)
  <2>1. UNCHANGED <<pc, opened>>
    BY <1>6 DEF Calls, BeginLoad, BeginStart, BeginTick, BeginHandle,
         BeginStopHook, Call, NextEvent, BeginHear, EndHear, Around, BeginTask,
         EndTask, aside
  <2> QED
    BY <1>1, <2>1
<1> QED
  BY StepShapes, <1>2, <1>3, <1>4, <1>5, <1>6 DEF TypeOK

-----------------------------------------------------------------------------
(* The plugins, and how far they have come.                                *)
LEMMA PluginsStayInOrder ==
  ASSUME IInv, [Next]_vars, ~Dies
  PROVE  PluginsInOrder'
<1> USE FilesAreNumbered DEF IInv
<1>1. CASE UNCHANGED <<plugins, pc, turn>>
  BY <1>1 DEF PluginsInOrder
<1>2. CASE Moves \/ MovesWithNews
  BY <1>2 DEF Moves, Move, MovesWithNews, MoveWithNews, PluginsInOrder,
       pluginVars, registryVars
<1>3. CASE Opens
  BY <1>3 DEF Opens, PluginsInOrder, pluginVars, registryVars
<1>4. CASE LoopEnds
  BY <1>4 DEF LoopEnds, AllLoaded, AllStarted, AllTicked, AllStopped,
       AllCalled, PluginsInOrder, pluginVars, registryVars
<1>5. CASE EndLoad
  <2>1. pc = "load" /\ turn <= Len(Files) /\ turn' = turn + 1 /\ pc' = pc
    BY <1>5 DEF EndLoad, In, HookFitsStage
  <2>2. /\ turn \in Nat /\ Len(plugins) \in Nat
        /\ DOMAIN plugins = 1 .. Len(plugins)
    BY PluginsAreNumbered DEF TypeOK
  <2>3. \A i \in DOMAIN plugins : plugins[i] \in Nat
    BY PluginsAreNumbered DEF TypeOK
  <2>4. CASE plugins' = plugins
    BY <2>1, <2>2, <2>3, <2>4 DEF PluginsInOrder
  <2>5. CASE plugins' = Append(plugins, turn)
    <3>1. turn \in FileNumbers
      BY <2>1, <2>2 DEF TypeOK
    <3>2. /\ Len(plugins') = Len(plugins) + 1
          /\ DOMAIN plugins' = 1 .. Len(plugins) + 1
          /\ \A i \in 1 .. Len(plugins) : plugins'[i] = plugins[i]
          /\ plugins'[Len(plugins) + 1] = turn
      BY <2>2, <2>5, <3>1, AppendProperties, LenProperties DEF TypeOK
    <3>3. \A i \in DOMAIN plugins' : plugins'[i] < turn'
      BY <2>1, <2>2, <2>3, <3>2 DEF PluginsInOrder
    <3>4. \A i, j \in DOMAIN plugins' : i < j => plugins'[i] < plugins'[j]
      BY <2>1, <2>2, <2>3, <3>2 DEF PluginsInOrder
    <3>5. Len(plugins') < turn' /\ Len(plugins') <= Len(Files)
      BY <2>1, <2>2, <3>2 DEF PluginsInOrder
    <3> QED
      BY <2>1, <3>3, <3>4, <3>5 DEF PluginsInOrder
  <2> QED
    BY <1>5, <2>4, <2>5 DEF EndLoad, Register, registryVars
<1>6. CASE EndStart \/ EndUnloadHook \/ EndTick
  BY <1>6 DEF EndStart, EndUnloadHook, EndCall, EndTick, Abort, In,
       HookFitsStage, PluginsInOrder, registryVars
<1>7. CASE Observes
  BY <1>7 DEF Observes, AskNext, ProbeAnswers, ProbeTimesOut, Probing, others,
       EndObservation, Abort, PluginsInOrder, pluginVars, registryVars
<1>8. CASE Plan \/ ExecuteAtOnce \/ EndHandle \/ EndCycle
  BY <1>8 DEF Plan, Abort, ExecuteAtOnce, EndHandle, EndCycle, Move, In,
       HookFitsStage, PluginsInOrder, pluginVars, registryVars
<1>9. CASE \/ Calls \/ EndStopHook \/ NextEvent \/ BeginHear \/ EndHear
           \/ Around
           \/ \E p \in FileNumbers : BeginTask(p) \/ EndTask(p)
  <2>1. UNCHANGED <<plugins, pc, turn>>
    BY <1>9 DEF Calls, BeginLoad, BeginStart, BeginTick, BeginHandle,
         BeginStopHook, Call, EndStopHook, NextEvent, BeginHear, EndHear,
         Around, BeginTask, EndTask, pluginVars, registryVars
  <2> QED
    BY <1>1, <2>1
<1> QED
  BY StepShapes, <1>2, <1>3, <1>4, <1>5, <1>6, <1>7, <1>8, <1>9 DEF TypeOK

LEMMA PhasesStayFit ==
  ASSUME IInv, [Next]_vars, ~Dies
  PROVE  PhasesFitStage'
<1> USE DEF IInv
<1>0. /\ Len(plugins) \in Nat
      /\ DOMAIN plugins = 1 .. Len(plugins)
      /\ \A i \in DOMAIN plugins : plugins[i] \in FileNumbers
      /\ turn \in Nat /\ 1 <= turn
  BY PluginsAreNumbered, FilesAreNumbered DEF TypeOK
<1>1. ASSUME UNCHANGED <<plugins, phase>>,
             \A i \in DOMAIN plugins : HasComeFar(i)'
      PROVE  PhasesFitStage'
  BY <1>1 DEF PhasesFitStage, Present
<1>2. CASE UNCHANGED <<plugins, phase, pc, turn>>
  BY <1>1, <1>2 DEF PhasesFitStage, HasComeFar
<1>3. CASE Moves \/ MovesWithNews
  <2>1. UNCHANGED <<plugins, phase>> /\ turn' = turn
    BY <1>3 DEF Moves, Move, MovesWithNews, MoveWithNews, pluginVars,
         registryVars
  <2>2. \A i \in DOMAIN plugins : HasComeFar(i)'
    BY <1>0, <1>3, <2>1 DEF Moves, Move, MovesWithNews, MoveWithNews,
         PluginsInOrder, PhasesFitStage, HasComeFar, Serving, Over
  <2> QED
    BY <1>1, <2>1, <2>2
<1>4. CASE Opens
  BY <1>4 DEF Opens, PluginsInOrder, PhasesFitStage, Present, pluginVars,
       registryVars
<1>5. CASE LoopEnds
  <2>1. UNCHANGED <<plugins, phase>>
    BY <1>5 DEF LoopEnds, AllLoaded, AllStarted, AllTicked, AllStopped,
         AllCalled, pluginVars, registryVars
  <2>2. ASSUME NEW i \in DOMAIN plugins
        PROVE  HasComeFar(i)'
    <3>1. HasComeFar(i)
      BY DEF PhasesFitStage
    <3>2. CASE AllLoaded
      BY <1>0, <2>1, <3>1, <3>2 DEF AllLoaded, HasComeFar, Serving, Over
    <3>3. CASE AllStarted
      BY <1>0, <2>1, <3>1, <3>3 DEF AllStarted, AllCalled, HasComeFar, Serving,
           Over
    <3>4. CASE AllTicked
      BY <2>1, <3>1, <3>4 DEF AllTicked, AllCalled, HasComeFar, Serving, Over
    <3>5. CASE AllStopped
      <4>1. pc = "stop" /\ turn > Len(plugins)
        BY <3>5 DEF AllStopped, AllCalled
      <4>2. i \in Nat /\ i + turn - 1 > Len(plugins)
        BY <1>0, <4>1
      <4>3. phase[plugins[i]] = "unloaded"
        BY <3>1, <4>1, <4>2 DEF HasComeFar
      <4> QED
        BY <2>1, <3>5, <4>3
        DEF AllStopped, AllCalled, HasComeFar, Serving, Over
    <3> QED
      BY <1>5, <3>2, <3>3, <3>4, <3>5 DEF LoopEnds
  <2> QED
    BY <1>1, <2>1, <2>2
<1>6. CASE \/ Observes \/ Plan \/ ExecuteAtOnce \/ EndHandle \/ EndTick
           \/ EndCycle
  <2>1. UNCHANGED <<plugins, phase>> /\ pc \in Serving /\ pc' \in Serving
    BY <1>6 DEF Observes, AskNext, ProbeAnswers, ProbeTimesOut, Probing,
         EndObservation, Abort, others, Plan, ExecuteAtOnce, EndHandle,
         EndTick, EndCycle, Move, In, HookFitsStage, Serving, pluginVars,
         registryVars
  <2>2. \A i \in DOMAIN plugins : HasComeFar(i)'
    BY <2>1 DEF PhasesFitStage, HasComeFar, Serving, Over
  <2> QED
    BY <1>1, <2>1, <2>2
<1>7. CASE EndLoad
  <2>1. pc = "load" /\ pc' = pc /\ turn \in FileNumbers
    BY <1>7, CalleesOfLoops DEF EndLoad, In, HookFitsStage
  <2>2. CASE UNCHANGED <<plugins, phase>>
    BY <1>1, <2>1, <2>2 DEF PhasesFitStage, HasComeFar, Serving, Over
  <2>3. CASE /\ plugins' = Append(plugins, turn)
             /\ Becomes(turn, "loaded")
    <3>1. /\ DOMAIN plugins' = 1 .. Len(plugins) + 1
          /\ \A i \in 1 .. Len(plugins) : plugins'[i] = plugins[i]
          /\ plugins'[Len(plugins) + 1] = turn
      BY <2>1, <2>3, AppendProperties, LenProperties DEF TypeOK
    <3>2. /\ phase'[turn] = "loaded"
          /\ \A f \in FileNumbers \ {turn} : phase'[f] = phase[f]
      BY <2>1, <2>3 DEF Becomes, TypeOK
    <3>3. \A i \in DOMAIN plugins' : phase'[plugins'[i]] = "loaded"
      <4>1. \A i \in 1 .. Len(plugins) : phase[plugins[i]] = "loaded"
        BY <1>0, <2>1 DEF PhasesFitStage, HasComeFar
      <4>2. \A i \in 1 .. Len(plugins) : phase'[plugins'[i]] = "loaded"
        BY <1>0, <3>1, <3>2, <4>1
      <4> QED
        BY <1>0, <3>1, <3>2, <4>2
    <3>4. \A f \in Present' : \E i \in DOMAIN plugins' : plugins'[i] = f
      <4>1. ASSUME NEW f \in Present', f # turn
            PROVE  \E i \in DOMAIN plugins' : plugins'[i] = f
        <5>1. f \in Present
          BY <3>2, <4>1 DEF Present
        <5>2. PICK i \in DOMAIN plugins : plugins[i] = f
          BY <5>1 DEF PhasesFitStage
        <5> QED
          BY <1>0, <3>1, <5>2
      <4> QED
        BY <1>0, <3>1, <4>1
    <3> QED
      BY <2>1, <3>3, <3>4 DEF PhasesFitStage, HasComeFar, Serving, Over
  <2> QED
    BY <1>7, <2>2, <2>3 DEF EndLoad, Register, registryVars
<1>8. CASE EndStart \/ EndUnloadHook \/ EndStopHook
  <2>1. PICK stage \in {"running", "stopped", "unloaded"} :
          Becomes(inside[1], stage)
    BY <1>8 DEF EndStart, EndUnloadHook, EndCall, EndStopHook
  <2>2. /\ plugins' = plugins
        /\ inside[1] \in FileNumbers
    BY <1>8, CalleesOfLoops DEF EndStart, EndUnloadHook, EndCall, EndStopHook,
         registryVars, HookFitsStage, In
  <2>3. \A i \in DOMAIN plugins :
          phase'[plugins[i]] = IF plugins[i] = inside[1] THEN stage
                                                       ELSE phase[plugins[i]]
    BY <1>0, <2>1, <2>2 DEF Becomes, TypeOK
  <2>4. \A f \in Present' : f \in Present \/ f = inside[1]
    BY <2>1, <2>2 DEF Becomes, Present, TypeOK
  <2>5. \A i, j \in DOMAIN plugins : plugins[i] = plugins[j] => i = j
    <3>1. \A i \in DOMAIN plugins : plugins[i] \in Nat
      BY <1>0, FilesAreNumbered
    <3> QED
      BY <1>0, <3>1 DEF PluginsInOrder
  <2>6. PICK front \in DOMAIN plugins : inside[1] = plugins[front]
    BY <1>0, <1>8 DEF EndStart, EndUnloadHook, EndCall, EndStopHook,
         HookFitsStage, In, LastUp
  <2>7. \A f \in Present' : \E i \in DOMAIN plugins' : plugins'[i] = f
    BY <2>2, <2>4, <2>6 DEF PhasesFitStage
  <2>8. ASSUME NEW i \in DOMAIN plugins
        PROVE  HasComeFar(i)'
    <3>1. HasComeFar(i)
      BY DEF PhasesFitStage
    <3>2. CASE EndStart
      <4>1. /\ pc = "start" /\ pc' = pc /\ turn' = turn + 1
            /\ phase' = [phase EXCEPT ![plugins[turn]] = "running"]
            /\ turn <= Len(plugins)
        BY <3>2 DEF EndStart, EndCall, Becomes, In, HookFitsStage
      <4>2. phase'[plugins[i]] = IF i = turn THEN "running"
                                             ELSE phase[plugins[i]]
        BY <1>0, <2>5, <4>1 DEF TypeOK
      <4> QED
        BY <1>0, <2>2, <3>1, <4>1, <4>2 DEF HasComeFar, Serving, Over
    <3>3. CASE EndStopHook
      <4>1. /\ pc = "stop" /\ pc' = pc /\ turn' = turn
            /\ phase' = [phase EXCEPT ![LastUp] = "stopped"]
            /\ turn <= Len(plugins)
        BY <3>3 DEF EndStopHook, Becomes, In, HookFitsStage
      <4>2. phase'[plugins[i]] = IF i + turn - 1 = Len(plugins)
                                 THEN "stopped" ELSE phase[plugins[i]]
        BY <1>0, <2>5, <4>1, SMTT(30) DEF TypeOK, LastUp
      <4> QED
        BY <1>0, <2>2, <3>1, <4>1, <4>2 DEF HasComeFar, Serving, Over
    <3>4. CASE EndUnloadHook
      <4>1. /\ pc = "stop" /\ pc' = pc /\ turn' = turn + 1
            /\ phase' = [phase EXCEPT ![LastUp] = "unloaded"]
            /\ turn <= Len(plugins)
        BY <3>4 DEF EndUnloadHook, EndCall, Becomes, In, HookFitsStage
      <4>2. phase'[plugins[i]] = IF i + turn - 1 = Len(plugins)
                                 THEN "unloaded" ELSE phase[plugins[i]]
        BY <1>0, <2>5, <4>1, SMTT(30) DEF TypeOK, LastUp
      <4>3. /\ i + turn' - 1 < Len(plugins) => phase'[plugins[i]] = "running"
            /\ i + turn' - 1 = Len(plugins) => phase'[plugins[i]] = "running"
            /\ i + turn' - 1 > Len(plugins) => phase'[plugins[i]] = "unloaded"
        BY <1>0, <3>1, <4>1, <4>2, SMTT(30) DEF HasComeFar
      <4> QED
        BY <2>2, <4>1, <4>3 DEF HasComeFar, Serving, Over
    <3> QED
      BY <1>8, <3>2, <3>3, <3>4
  <2> QED
    BY <2>2, <2>7, <2>8 DEF PhasesFitStage
<1>9. CASE \/ Calls \/ NextEvent \/ BeginHear \/ EndHear \/ Around
           \/ \E p \in FileNumbers : BeginTask(p) \/ EndTask(p)
  <2>1. UNCHANGED <<plugins, phase, pc, turn>>
    BY <1>9 DEF Calls, BeginLoad, BeginStart, BeginTick, BeginHandle,
         BeginStopHook, Call, NextEvent, BeginHear, EndHear,
         Around, BeginTask, EndTask, pluginVars, registryVars
  <2> QED
    BY <1>2, <2>1
<1> QED
  BY StepShapes, <1>3, <1>4, <1>5, <1>6, <1>7, <1>8, <1>9 DEF TypeOK

(* What is loaded stays so, until the process ends.                        *)
LEMMA PresentStays ==
  ASSUME IInv, [Next]_vars, ~Dies
  PROVE  Present \subseteq Present'
<1> USE DEF IInv, Present
<1>1. CASE UNCHANGED phase
  BY <1>1
<1>2. CASE EndLoad
  BY <1>2 DEF EndLoad, Register, Becomes, TypeOK
<1>3. CASE EndStart \/ EndUnloadHook \/ EndStopHook
  BY <1>3 DEF EndStart, EndUnloadHook, EndCall, EndStopHook, Becomes, TypeOK
<1>4. CASE \/ Moves \/ MovesWithNews \/ Opens \/ Calls \/ LoopEnds \/ Observes
           \/ Around
  <2>1. UNCHANGED phase
    BY <1>4 DEF Moves, Move, MovesWithNews, MoveWithNews, Opens, Calls,
         BeginLoad, BeginStart, BeginTick, BeginHandle, BeginStopHook, Call,
         LoopEnds, AllLoaded, AllStarted, AllTicked, AllStopped, AllCalled,
         Observes, AskNext, ProbeAnswers, ProbeTimesOut, Probing,
         EndObservation, Around, pluginVars
  <2> QED
    BY <1>1, <2>1
<1>5. CASE \/ EndHandle \/ EndTick \/ Plan \/ ExecuteAtOnce \/ NextEvent
           \/ BeginHear \/ EndHear \/ EndCycle
           \/ \E p \in FileNumbers : BeginTask(p) \/ EndTask(p)
  <2>1. UNCHANGED phase
    BY <1>5 DEF EndHandle, EndTick, Plan, ExecuteAtOnce, Move, NextEvent,
         BeginHear, EndHear, EndCycle, BeginTask, EndTask, pluginVars
  <2> QED
    BY <1>1, <2>1
<1> QED
  BY StepShapes, <1>2, <1>3, <1>4, <1>5 DEF TypeOK

LEMMA HandlersStayPresent ==
  ASSUME IInv, [Next]_vars, ~Dies
  PROVE  /\ handlers' \in [DOMAIN handlers' -> Present' \cup {None}]
         /\ subscribers' \in [Topics -> Seq(Present')]
<1> USE DEF IInv
<1>1. /\ handlers \in [DOMAIN handlers -> Present' \cup {None}]
      /\ subscribers \in [Topics -> Seq(Present')]
  BY PresentStays, SeqMonotonic DEF CalleesArePresent
<1>2. CASE UNCHANGED registryVars
  BY <1>1, <1>2 DEF registryVars
<1>3. CASE EndLoad
  <2>1. turn \in FileNumbers
    BY <1>3, CalleesOfLoops DEF EndLoad, In, HookFitsStage
  <2>2. CASE Files[turn].plugin
    <3>1. turn \in Present'
      BY <1>3, <2>1, <2>2 DEF EndLoad, Register, Becomes, Present, TypeOK
    <3>2. handlers' \in [DOMAIN handlers' -> Present' \cup {None}]
      BY <1>1, <1>3, <2>2, <3>1 DEF EndLoad, Register
    <3>3. \A topic \in Topics :
            Append(subscribers[topic], turn) \in Seq(Present')
      BY <1>1, <3>1, AppendProperties
    <3>4. subscribers' = [topic \in Topics |->
                            IF topic \in Files[turn].topics
                            THEN Append(subscribers[topic], turn)
                            ELSE subscribers[topic]]
      BY <1>3, <2>2 DEF EndLoad, Register, TypeOK
    <3> QED
      BY <1>1, <3>2, <3>3, <3>4
  <2> QED
    BY <1>2, <1>3, <2>2 DEF EndLoad, Register
<1>4. CASE \/ Moves \/ MovesWithNews \/ Opens \/ Calls \/ LoopEnds
           \/ Observes \/ Around
  <2>1. UNCHANGED registryVars
    BY <1>4 DEF Moves, Move, MovesWithNews, MoveWithNews, Opens, Calls,
         BeginLoad, BeginStart, BeginTick, BeginHandle, BeginStopHook, Call,
         LoopEnds, AllLoaded, AllStarted, AllTicked, AllStopped, AllCalled,
         Observes, AskNext, ProbeAnswers, ProbeTimesOut, Probing,
         EndObservation, Around, pluginVars
  <2> QED
    BY <1>2, <2>1
<1>5. CASE \/ EndStart \/ EndUnloadHook \/ EndStopHook \/ EndHandle
           \/ EndTick \/ Plan \/ ExecuteAtOnce \/ NextEvent \/ BeginHear
           \/ EndHear \/ EndCycle
           \/ \E p \in FileNumbers : BeginTask(p) \/ EndTask(p)
  <2>1. UNCHANGED registryVars
    BY <1>5 DEF EndStart, EndUnloadHook, EndCall, EndStopHook, EndHandle,
         EndTick, Plan, ExecuteAtOnce, Move, NextEvent, BeginHear, EndHear,
         EndCycle, BeginTask, EndTask, pluginVars
  <2> QED
    BY <1>2, <2>1
<1> QED
  BY StepShapes, <1>3, <1>4, <1>5 DEF TypeOK

LEMMA HearersStayPresent ==
  ASSUME IInv, [Next]_vars, ~Dies
  PROVE  hearing' \in Seq(Present')
<1> USE DEF IInv
<1>1. hearing \in Seq(Present')
  BY PresentStays, SeqMonotonic DEF CalleesArePresent
<1>2. CASE UNCHANGED hearing
  BY <1>1, <1>2
<1>3. CASE NextEvent
  <2>1. Head(bus) \in Events /\ hearing' = Callees(Head(bus))
    BY <1>3, HeadTailProperties DEF NextEvent, TakeEvent, Take, TypeOK
  <2>2. Callees(Head(bus)) \in Seq(Present)
    BY <2>1, ConcatProperties DEF Callees, CalleesArePresent, Topics
  <2> QED
    BY <2>1, <2>2, PresentStays, SeqMonotonic
<1>4. CASE BeginHear
  BY <1>1, <1>4, HeadTailProperties DEF BeginHear, CallHandler
<1>5. CASE EndHear
  BY <1>1, <1>5 DEF EndHear, StillHearing
<1>6. CASE \/ Moves \/ MovesWithNews \/ Opens \/ Calls \/ LoopEnds \/ Observes
           \/ Around
  <2>1. UNCHANGED hearing
    BY <1>6 DEF Moves, Move, MovesWithNews, MoveWithNews, Announce, Opens,
         Calls, BeginLoad, BeginStart, BeginTick, BeginHandle, BeginStopHook,
         Call, LoopEnds, AllLoaded, AllStarted, AllTicked, AllStopped,
         AllCalled, Observes, AskNext, ProbeAnswers, ProbeTimesOut, Probing,
         EndObservation, Around, pluginVars, deliveryVars
  <2> QED
    BY <1>2, <2>1
<1>7. CASE \/ EndLoad \/ EndStart \/ EndUnloadHook \/ EndStopHook
           \/ EndHandle \/ EndTick \/ Plan \/ ExecuteAtOnce \/ EndCycle
           \/ \E p \in FileNumbers : BeginTask(p) \/ EndTask(p)
  <2>1. UNCHANGED hearing
    BY <1>7 DEF EndLoad, EndStart, EndUnloadHook, EndCall, EndStopHook,
         EndHandle, EndTick, Plan, ExecuteAtOnce, Move, EndCycle, BeginTask,
         EndTask, pluginVars, deliveryVars
  <2> QED
    BY <1>2, <2>1
<1> QED
  BY StepShapes, <1>3, <1>4, <1>5, <1>6, <1>7 DEF TypeOK

LEMMA HookStaysFit ==
  ASSUME IInv, [Next]_vars, ~Dies
  PROVE  HookFitsStage'
<1> USE DEF IInv
<1>1. CASE inside' = None
  BY <1>1 DEF HookFitsStage
<1>2. CASE inside # None /\ UNCHANGED <<inside, pc, turn, plugins, handlers,
                                        phase, kind>>
  BY <1>2 DEF HookFitsStage, In, Handled, LastUp
<1>3. CASE BeginHear
  BY <1>3 DEF BeginHear, Draining, CallHandler, Enter, In, HookFitsStage
<1>4. CASE BeginLoad \/ BeginStart \/ BeginTick \/ BeginHandle
  BY <1>4 DEF BeginLoad, BeginStart, BeginTick, BeginHandle, Call, Enter, In,
       Handled, HookFitsStage, registryVars, aside, others
<1>5. CASE BeginStopHook
  <2>1. phase[LastUp] \in {"running", "stopped"}
    <3>1. /\ Len(plugins) \in Nat /\ DOMAIN plugins = 1 .. Len(plugins)
          /\ turn \in Nat /\ 1 <= turn
      BY PluginsAreNumbered, FilesAreNumbered DEF TypeOK
    <3>2. Len(plugins) + 1 - turn \in DOMAIN plugins
      BY <1>5, <3>1 DEF BeginStopHook
    <3> QED
      BY <1>5, <3>1, <3>2 DEF BeginStopHook, PhasesFitStage, HasComeFar, LastUp
  <2> QED
    BY <1>5, <2>1 DEF BeginStopHook, Call, Enter, In, LastUp, HookFitsStage,
         registryVars
<1>6. CASE \/ EndLoad \/ EndStart \/ EndUnloadHook \/ EndStopHook
           \/ EndHandle \/ EndTick \/ EndHear
  <2>1. inside' = None
    BY <1>6 DEF EndLoad, EndStart, EndUnloadHook, EndCall, EndStopHook,
         EndHandle, EndTick, EndHear, Return
  <2> QED
    BY <1>1, <2>1
<1>7. CASE \/ Moves \/ MovesWithNews \/ Opens \/ LoopEnds \/ Observes
           \/ Plan \/ ExecuteAtOnce \/ NextEvent \/ EndCycle
  <2>1. CASE Moves \/ MovesWithNews \/ Opens
    BY <2>1 DEF Moves, Move, MovesWithNews, MoveWithNews, Opens, HookFitsStage,
         pluginVars
  <2>2. CASE LoopEnds
    <3>1. Len(plugins) \in Nat /\ turn \in Nat /\ Len(Files) \in Nat
      BY PluginsAreNumbered, FilesAreNumbered DEF TypeOK
    <3> QED
      BY <2>2, <3>1 DEF LoopEnds, AllLoaded, AllStarted, AllTicked, AllStopped,
           AllCalled, HookFitsStage, pluginVars
  <2>3. CASE Observes \/ Plan \/ ExecuteAtOnce
    BY <2>3 DEF Observes, AskNext, ProbeAnswers, ProbeTimesOut, Probing,
         EndObservation, Plan, ExecuteAtOnce, Move, HookFitsStage, pluginVars
  <2>4. CASE NextEvent
    BY <2>4 DEF NextEvent, TakeEvent, HookFitsStage
  <2>5. CASE EndCycle
    BY <2>5 DEF EndCycle, Move, HookFitsStage, pluginVars
  <2> QED
    BY <1>7, <2>1, <2>2, <2>3, <2>4, <2>5
<1>8. CASE Around \/ \E p \in FileNumbers : BeginTask(p) \/ EndTask(p)
  BY <1>1, <1>2, <1>8 DEF Around, BeginTask, EndTask, pluginVars, registryVars
<1> QED
  BY StepShapes, <1>3, <1>4, <1>5, <1>6, <1>7, <1>8 DEF Calls, TypeOK

-----------------------------------------------------------------------------
(* The invariant is inductive, so it always holds.                         *)
LEMMA ServiceTypeIsKept ==
  ASSUME IInv, [Next]_vars
  PROVE  service' \in {"active", "stopping", "inactive"}
<1> USE DEF IInv, TypeOK, aside, others, systemVars
<1>1. CASE \/ Open \/ BeginLoad \/ AllLoaded \/ BeginStart \/ AllStarted
           \/ Restore \/ BeginCycle \/ AskNext \/ ProbeTimesOut
           \/ EndObservation
  BY <1>1 DEF Open, Die, BeginLoad, Call, AllLoaded, BeginStart, AllStarted,
       AllCalled, Restore, MoveOrDie, Move, BeginCycle, AskNext, Probing,
       ProbeTimesOut, EndObservation
<1>2. CASE \/ Report \/ Decide \/ Plan \/ ExecuteAtOnce \/ BeginHandle
           \/ Settle \/ BeginTick \/ AllTicked \/ NextEvent \/ BeginHear
           \/ EndCycle \/ HandleError \/ CheckWatchdog
  BY <1>2 DEF Report, MoveWithNews, AbortWithoutNews, Decide, Plan,
       ExecuteAtOnce, Move, BeginHandle, Call, Settle, BeginTick, AllTicked,
       AllCalled, NextEvent, BeginHear, EndCycle, HandleError, MoveOrDie, Die,
       CheckWatchdog
<1>3. CASE \/ BeginStop \/ TasksAreDone \/ WaitTimesOut \/ BeginStopHook
           \/ AllStopped \/ RememberStop \/ Confirm \/ Close
  BY <1>3 DEF BeginStop, MoveWithNews, TasksAreDone, WaitTimesOut, Move,
       BeginStopHook, Call, AllStopped, AllCalled, RememberStop, Confirm,
       MoveOrDie, Die, Close
<1>4. CASE \/ EndLoad \/ EndStart \/ EndHandle \/ EndTick \/ EndHear
           \/ EndStopHook \/ EndUnloadHook \/ Escape \/ ProbeAnswers
           \/ RunJobs
           \/ \E p \in FileNumbers : BeginTask(p) \/ EndTask(p)
  BY <1>4 DEF EndLoad, EndStart, EndHandle, EndTick, EndHear, EndStopHook,
       EndUnloadHook, EndCall, Escape, Die, ProbeAnswers, Probing, RunJobs,
       Move, MoveWithNews, AbortWithoutNews, AbortWithNews, BeginTask, EndTask
<1>5. CASE Systemd \/ Signal \/ StopService \/ StartService
  BY <1>5 DEF Systemd, Launch, Move, Kill, ServiceStopped, Signal, StopService,
       StartService
<1>6. CASE UNCHANGED vars
  BY <1>6 DEF vars
<1> QED
  BY <1>1, <1>2, <1>3, <1>4, <1>5, <1>6 DEF Next, Step, Outside

LEMMA InvariantIsInductive ==
  ASSUME IInv, [Next]_vars
  PROVE  IInv'
<1>1. service' \in {"active", "stopping", "inactive"}
  BY ServiceTypeIsKept
<1>2. CASE Dies
  BY <1>1, <1>2, EndIsRight DEF Dies
<1>3. CASE ~Dies
  BY <1>3, TypesAreKept, StoreStaysOpen, PluginsStayInOrder, PhasesStayFit,
     HandlersStayPresent, HearersStayPresent, HookStaysFit, ProbeStaysAsked
  DEF IInv, CalleesArePresent, Topics
<1> QED
  BY <1>2, <1>3

(* Types, an open store, plugins in their order and each at the point of   *)
(* its life that the stage of main implies, and a hook only where main     *)
(* calls it: the inductive invariant of the process.                       *)
THEOREM InductiveInvariant == Spec => []IInv
<1> QED
  BY InvariantAtFirst, InvariantIsInductive, PTL DEF Spec

(* The variables of the process have their types; the index of a loop over *)
(* files or plugins never leaves their list.                               *)
THEOREM TypeCorrect == Spec => []TypeOK
<1>1. IInv => TypeOK
  BY DEF IInv
<1> QED
  BY <1>1, InductiveInvariant, PTL

(* Whenever the program saves something, its store is open.                *)
THEOREM StoreIsOpen == Spec => []SavesFindTheStore
<1>1. IInv => SavesFindTheStore
  BY DEF IInv
<1> QED
  BY <1>1, InductiveInvariant, PTL

(* A process ends well only where main returns.                            *)
LEMMA OnlyCloseSucceeds ==
  ASSUME IInv, [Next]_vars, pc # "down", pc' = "down", status' = "success"
  PROVE  pc = "close"
<1> USE DEF End
<1>1. CASE \/ Open \/ BeginLoad \/ AllLoaded \/ BeginStart \/ AllStarted
           \/ Restore \/ BeginCycle \/ AskNext \/ ProbeTimesOut
           \/ EndObservation
  BY <1>1 DEF Open, Die, BeginLoad, Call, AllLoaded, BeginStart, AllStarted,
       AllCalled, Restore, MoveOrDie, Move, BeginCycle, AskNext, Probing,
       ProbeTimesOut, EndObservation, Abort
<1>2. CASE \/ Report \/ Decide \/ Plan \/ ExecuteAtOnce \/ BeginHandle
           \/ Settle \/ BeginTick \/ AllTicked \/ NextEvent \/ BeginHear
           \/ EndCycle \/ HandleError \/ CheckWatchdog
  BY <1>2 DEF Report, MoveWithNews, AbortWithoutNews, Abort, Decide, Plan,
       ExecuteAtOnce, Move, BeginHandle, Call, Settle, BeginTick, AllTicked,
       AllCalled, NextEvent, BeginHear, EndCycle, HandleError, MoveOrDie, Die,
       CheckWatchdog
<1>3. CASE \/ BeginStop \/ TasksAreDone \/ WaitTimesOut \/ BeginStopHook
           \/ AllStopped \/ RememberStop \/ Confirm \/ Close
  BY <1>3 DEF BeginStop, MoveWithNews, TasksAreDone, WaitTimesOut, Move,
       BeginStopHook, Call, AllStopped, AllCalled, RememberStop, Confirm,
       MoveOrDie, Die, Close
<1>4. CASE \/ EndLoad \/ EndStart \/ EndHandle \/ EndTick \/ EndHear
           \/ EndStopHook \/ EndUnloadHook \/ Escape \/ ProbeAnswers
           \/ RunJobs
           \/ \E p \in FileNumbers : BeginTask(p) \/ EndTask(p)
  BY <1>4 DEF EndLoad, EndStart, EndHandle, EndTick, EndHear, EndStopHook,
       EndUnloadHook, EndCall, Escape, Die, ProbeAnswers, Probing, RunJobs,
       Move, MoveWithNews, AbortWithoutNews, AbortWithNews, Abort, BeginTask,
       EndTask
<1>5. CASE Systemd \/ Signal \/ StopService \/ StartService
  BY <1>5 DEF Systemd, Launch, Move, Kill, ServiceStopped, Signal, StopService,
       StartService, Terminate
<1>6. CASE UNCHANGED vars
  BY <1>6 DEF vars
<1> QED
  BY <1>1, <1>2, <1>3, <1>4, <1>5, <1>6 DEF Next, Step, Outside

(* A process that ends well has unloaded whatever it had loaded: main      *)
(* returns only when the loop over the plugins has come to its end.        *)
THEOREM CleanEndsAreComplete == Spec => CleanEndIsComplete
<1>1. ASSUME IInv, [Next]_vars, pc # "down", pc' = "down",
             status' = "success"
      PROVE  \A f \in FileNumbers : phase[f] \in {"absent", "unloaded"}
  <2>1. pc = "close"
    BY <1>1, OnlyCloseSucceeds
  <2>2. \A f \in Present : phase[f] = "unloaded"
    BY <1>1, <2>1 DEF IInv, PhasesFitStage, HasComeFar, Over
  <2> QED
    BY <2>2 DEF Present
<1>2. IInv /\ [Next]_vars =>
        [pc # "down" /\ pc' = "down" /\ status' = "success"
           => \A f \in FileNumbers : phase[f] \in {"absent", "unloaded"}]_vars
  BY <1>1
<1> QED
  BY <1>2, InductiveInvariant, PTL DEF Spec, CleanEndIsComplete

-----------------------------------------------------------------------------
(* Process implements PluginContract.                                      *)

(* Whatever the stage, a plugin's place in the list tells how far it is.   *)
LEMMA PresentHasRank ==
  ASSUME IInv, NEW f \in Present
  PROVE  \E i \in DOMAIN plugins : plugins[i] = f /\ HasComeFar(i)
BY DEF IInv, PhasesFitStage

LEMMA OrderIsRank ==
  ASSUME IInv, NEW i \in DOMAIN plugins, NEW j \in DOMAIN plugins
  PROVE  /\ plugins[i] < plugins[j] <=> i < j
         /\ plugins[i] = plugins[j] <=> i = j
<1>1. /\ i \in Nat /\ j \in Nat
      /\ plugins[i] \in Nat /\ plugins[j] \in Nat
  BY PluginsAreNumbered, FilesAreNumbered DEF IInv, TypeOK
<1> QED
  BY <1>1 DEF IInv, PluginsInOrder

(* A hook is entered when the contract allows it.                          *)
LEMMA EnteredAsAllowed ==
  ASSUME NEW p \in FileNumbers, NEW hook \in Hooks, Enter(p, hook),
         phase' = phase, Contract!May(p, hook)
  PROVE  Contract!Next
BY DEF Enter, Contract!Next, Contract!Enter, Contract!Hooks,
   Contract!Services, Hooks

(* While files are loaded, those before the one at hand are at most loaded,*)
(* and those from it on are not there yet.                                 *)
LEMMA LoadsAreAllowed ==
  ASSUME IInv, BeginLoad
  PROVE  Contract!Next
<1>1. turn \in FileNumbers
  BY FilesAreNumbered DEF IInv, TypeOK, BeginLoad
<1>2. \A q \in Present : phase[q] = "loaded" /\ q < turn
  BY PresentHasRank DEF BeginLoad, HasComeFar, IInv, PluginsInOrder
<1>3. Contract!May(turn, "load")
  BY <1>2 DEF Contract!May, Present
<1> QED
  BY <1>1, <1>3, EnteredAsAllowed DEF BeginLoad, Call, Hooks

(* While plugins are started, a front goes up their list.                  *)
LEMMA StartsAreAllowed ==
  ASSUME IInv, BeginStart
  PROVE  Contract!Next
<1> DEFINE p == plugins[turn]
<1>1. turn \in DOMAIN plugins /\ turn \in Nat /\ p \in FileNumbers
  BY PluginsAreNumbered, FilesAreNumbered DEF IInv, TypeOK, BeginStart
<1>2. phase[p] = "loaded"
  BY <1>1 DEF IInv, PhasesFitStage, HasComeFar, BeginStart
<1>3. ASSUME NEW q \in FileNumbers
      PROVE  phase[q] \in (IF q < p THEN {"absent", "running"}
                                    ELSE {"absent", "loaded"})
  <2>1. CASE q \in Present
    <3>1. PICK i \in DOMAIN plugins : plugins[i] = q /\ HasComeFar(i)
      BY <2>1, PresentHasRank
    <3>2. q < p <=> i < turn
      BY <1>1, <3>1, OrderIsRank
    <3> QED
      BY <3>1, <3>2 DEF HasComeFar, BeginStart
  <2> QED
    BY <2>1 DEF Present
<1>4. Contract!May(p, "start")
  BY <1>2, <1>3 DEF Contract!May
<1> QED
  BY <1>1, <1>4, EnteredAsAllowed DEF BeginStart, Call, Hooks

(* While all plugins run, each may be called.                              *)
LEMMA ServicesAreAllowed ==
  ASSUME IInv, BeginTick \/ BeginHandle \/ BeginHear
  PROVE  Contract!Next
<1>1. pc \in Serving
  BY DEF BeginTick, BeginHandle, BeginHear, Draining, Serving
<1>2. \A q \in Present : phase[q] = "running"
  BY <1>1, PresentHasRank DEF HasComeFar
<1>3. ASSUME NEW p \in Present, NEW hook \in {"tick", "handle", "hear"},
             Enter(p, hook), phase' = phase
      PROVE  Contract!Next
  <2>1. p \in FileNumbers
    BY DEF Present
  <2>2. Contract!May(p, hook)
    BY <1>2 DEF Contract!May, Contract!Services, Present
  <2> QED
    BY <1>3, <2>1, <2>2, EnteredAsAllowed DEF Hooks
<1>4. CASE BeginTick
  <2>1. turn \in DOMAIN plugins /\ plugins[turn] \in FileNumbers
    BY <1>4, PluginsAreNumbered, FilesAreNumbered DEF IInv, TypeOK, BeginTick
  <2>2. plugins[turn] \in Present
    BY <1>1, <2>1 DEF IInv, PhasesFitStage, HasComeFar, Present
  <2> QED
    BY <1>3, <1>4, <2>2 DEF BeginTick, Call
<1>5. CASE BeginHandle
  BY <1>3, <1>5 DEF BeginHandle, Call, Handled, IInv, CalleesArePresent
<1>6. CASE BeginHear
  <2>1. Head(hearing) \in Present
    BY <1>6, HeadTailProperties DEF BeginHear, CallHandler, IInv,
       CalleesArePresent
  <2> QED
    BY <1>3, <1>6, <2>1 DEF BeginHear, CallHandler
<1> QED
  BY <1>4, <1>5, <1>6

(* While plugins are stopped, a front comes down their list.               *)
LEMMA StopsAreAllowed ==
  ASSUME IInv, BeginStopHook
  PROVE  Contract!Next
<1> DEFINE last == Len(plugins) + 1 - turn
<1> DEFINE hook == IF phase[LastUp] = "running" THEN "stop" ELSE "unload"
<1>1. /\ Len(plugins) \in Nat /\ DOMAIN plugins = 1 .. Len(plugins)
      /\ turn \in Nat /\ 1 <= turn
  BY PluginsAreNumbered, FilesAreNumbered DEF IInv, TypeOK
<1>2. last \in DOMAIN plugins /\ LastUp = plugins[last]
  BY <1>1 DEF BeginStopHook, LastUp
<1>3. LastUp \in FileNumbers
  BY <1>2, PluginsAreNumbered DEF IInv, TypeOK
<1>4. phase[LastUp] \in {"running", "stopped"}
  <2>1. last + turn - 1 = Len(plugins)
    BY <1>1
  <2> QED
    BY <1>2, <2>1 DEF IInv, PhasesFitStage, HasComeFar, BeginStopHook
<1>5. ASSUME NEW q \in FileNumbers \ {LastUp}
      PROVE  phase[q] \in (IF q < LastUp THEN {"absent", "running"}
                                         ELSE {"absent", "unloaded"})
  <2>1. CASE q \in Present
    <3>1. PICK i \in DOMAIN plugins : plugins[i] = q /\ HasComeFar(i)
      BY <2>1, PresentHasRank
    <3>2. /\ q < LastUp <=> i < last
          /\ i # last
      BY <1>2, <3>1, OrderIsRank
    <3>3. /\ i < last => i + turn - 1 < Len(plugins)
          /\ last < i => i + turn - 1 > Len(plugins)
          /\ i < last \/ last < i
      BY <1>1, <1>2, <3>1, <3>2
    <3> QED
      BY <3>1, <3>2, <3>3 DEF HasComeFar, BeginStopHook
  <2> QED
    BY <2>1 DEF Present
<1>6. /\ hook \in {"stop", "unload"}
      /\ phase[LastUp] = IF hook = "stop" THEN "running" ELSE "stopped"
  BY <1>4
<1>7. Contract!May(LastUp, hook)
  BY <1>5, <1>6 DEF Contract!May
<1> QED
  BY <1>3, <1>6, <1>7, EnteredAsAllowed DEF BeginStopHook, Call, Hooks

(* A hook that returns does to its plugin what the contract says.          *)
LEMMA LeftAsAllowed ==
  ASSUME TypeOK, NEW hook \in Hooks, In(hook), Return,
         \/ phase' = phase
         \/ \E stage \in {"loaded", "running", "stopped", "unloaded"} :
              /\ <<hook, stage>> \in Contract!Outcomes
              /\ Becomes(inside[1], stage)
  PROVE  Contract!Next
<1>1. inside \in FileNumbers \X Hooks
  BY DEF TypeOK, In
<1>2. inside[1] \in FileNumbers /\ inside = <<inside[1], hook>>
  BY <1>1 DEF In
<1>3. Contract!Leave(inside[1], hook)
  BY <1>2 DEF Contract!Leave, Return, Becomes
<1>4. hook \in Contract!Hooks
  BY DEF Contract!Hooks, Contract!Services, Hooks
<1> QED
  BY <1>2, <1>3, <1>4 DEF Contract!Next

(* Each return of a hook is one that the contract knows.                   *)
LEMMA ReturnsAreKnown ==
  ASSUME IInv, \/ EndLoad \/ EndStart \/ EndUnloadHook \/ EndStopHook
               \/ EndHandle \/ EndTick \/ EndHear
  PROVE  Contract!Next
<1> USE DEF Contract!Outcomes, Hooks
<1>1. CASE EndLoad
  <2>1. inside[1] = turn
    BY <1>1 DEF EndLoad, In, IInv, HookFitsStage
  <2> QED
    BY <1>1, <2>1, LeftAsAllowed DEF IInv, EndLoad, Register
<1>2. CASE EndStart
  BY <1>2, LeftAsAllowed DEF IInv, EndStart, EndCall
<1>3. CASE EndStopHook
  BY <1>3, LeftAsAllowed DEF IInv, EndStopHook
<1>4. CASE EndUnloadHook
  BY <1>4, LeftAsAllowed DEF IInv, EndUnloadHook, EndCall
<1>5. CASE EndHandle \/ EndTick \/ EndHear
  BY <1>5, LeftAsAllowed DEF IInv, EndHandle, EndTick, EndHear
<1> QED
  BY <1>1, <1>2, <1>3, <1>4, <1>5

(* Plugins are in their hooks only when they may expect it: every step of  *)
(* the process is one of the contract, or none of its concern.             *)
THEOREM ContractIsKept == Spec => ContractKept
<1>1. Init => Contract!Init
  BY DEF Init, EmptyRegistry, Contract!Init, Contract!Unborn
<1>2. ASSUME IInv, [Next]_vars
      PROVE  [Contract!Next]_(Contract!vars)
  <2>1. CASE Dies
    BY <2>1 DEF Dies, End, ForgetPlugins, Contract!Next, Contract!End,
         Contract!Unborn
  <2>2. CASE UNCHANGED <<phase, inside>>
    BY <2>2 DEF Contract!vars
  <2>3. CASE \/ Moves \/ MovesWithNews \/ Opens \/ LoopEnds \/ Observes
             \/ Around
    <3>1. UNCHANGED <<phase, inside>>
      BY <2>3 DEF Moves, Move, MovesWithNews, MoveWithNews, Opens, LoopEnds,
           AllLoaded, AllStarted, AllTicked, AllStopped, AllCalled, Observes,
           AskNext, ProbeAnswers, ProbeTimesOut, Probing, EndObservation,
           Around, pluginVars
    <3> QED
      BY <2>2, <3>1
  <2>4. CASE \/ Plan \/ ExecuteAtOnce \/ NextEvent \/ EndCycle
             \/ \E p \in FileNumbers : BeginTask(p) \/ EndTask(p)
    <3>1. UNCHANGED <<phase, inside>>
      BY <2>4 DEF Plan, ExecuteAtOnce, Move, NextEvent, TakeEvent, EndCycle,
           BeginTask, EndTask, pluginVars
    <3> QED
      BY <2>2, <3>1
  <2> QED
    BY <1>2, StepShapes, LoadsAreAllowed, StartsAreAllowed, ServicesAreAllowed,
       StopsAreAllowed, ReturnsAreKnown, <2>1, <2>3, <2>4
    DEF IInv, TypeOK, Calls
<1> QED
  BY <1>1, <1>2, InductiveInvariant, PTL DEF Spec, ContractKept, Contract!Spec

=============================================================================
