----------------------------- MODULE StopProofs -----------------------------
(***************************************************************************)
(* Proofs about the stop of Process: whatever main does once it has been   *)
(* asked to stop brings it closer to its end, for any number of plugins,   *)
(* events, devices and units.                                              *)
(***************************************************************************)
EXTENDS ProcessProofs

-----------------------------------------------------------------------------
(* The inductive invariant.                                                *)

(* Before run_forever a signal kills, so a request is known only after.    *)
HeardWhileServing == requested => pc \notin Boot \cup {"down"}

(* Loops over the plugins stop at the last.                                *)
TurnInBounds == pc \in {"tick", "stop"} => turn <= Len(plugins) + 1

StopInv == IInv /\ HeardWhileServing /\ TurnInBounds

(* Only the end of the process takes a request back.                       *)
LEMMA RequestIsKept ==
  ASSUME StopInv, [Next]_vars, ~Dies
  PROVE  \/ requested' = requested
         \/ requested' = TRUE /\ pc \notin Boot \cup {"down"}
<1> USE DEF aside, others, systemVars
<1>1. CASE Around
  <2>1. pc = "down" => requested = FALSE
    BY DEF StopInv, HeardWhileServing, IInv, TypeOK
  <2> QED
    BY <1>1, <2>1 DEF Around
<1>2. ASSUME \/ Moves \/ MovesWithNews \/ Opens \/ Calls \/ LoopEnds
             \/ Observes
      PROVE  requested' = requested
  BY <1>2 DEF Moves, Move, MovesWithNews, MoveWithNews, Opens, Calls,
       BeginLoad, BeginStart, BeginTick, BeginHandle, BeginStopHook, Call,
       LoopEnds, AllLoaded, AllStarted, AllTicked, AllStopped, AllCalled,
       Observes, AskNext, ProbeAnswers, ProbeTimesOut, Probing,
       EndObservation
<1>3. ASSUME \/ EndLoad \/ EndStart \/ EndUnloadHook \/ EndStopHook
             \/ EndHandle \/ EndTick \/ Plan \/ ExecuteAtOnce
             \/ NextEvent \/ BeginHear \/ EndHear \/ EndCycle
             \/ \E p \in FileNumbers : BeginTask(p) \/ EndTask(p)
      PROVE  requested' = requested
  BY <1>3 DEF EndLoad, EndStart, EndUnloadHook, EndCall, EndStopHook,
       EndHandle, EndTick, Plan, ExecuteAtOnce, Move, NextEvent, BeginHear,
       EndHear, EndCycle, BeginTask, EndTask
<1> QED
  BY StepShapes, <1>1, <1>2, <1>3 DEF StopInv, IInv, TypeOK

(* main gets back to its start by its end only.                            *)
LEMMA ServingGoesOn ==
  ASSUME StopInv, [Next]_vars, ~Dies, pc \notin Boot \cup {"down"}
  PROVE  pc' \notin Boot \cup {"down"}
<1> USE DEF Boot
<1>1. CASE Moves \/ MovesWithNews \/ Opens \/ Calls \/ LoopEnds \/ Observes
  BY <1>1 DEF Moves, Move, MovesWithNews, MoveWithNews, Opens, Calls,
       BeginLoad, BeginStart, BeginTick, BeginHandle, BeginStopHook, Call,
       LoopEnds, AllLoaded, AllStarted, AllTicked, AllStopped, AllCalled,
       Observes, AskNext, ProbeAnswers, ProbeTimesOut, Probing,
       EndObservation, Abort
<1>2. CASE \/ EndLoad \/ EndStart \/ EndUnloadHook \/ EndStopHook
           \/ EndHandle \/ EndTick \/ Plan \/ ExecuteAtOnce
           \/ NextEvent \/ BeginHear \/ EndHear \/ EndCycle \/ Around
           \/ \E p \in FileNumbers : BeginTask(p) \/ EndTask(p)
  BY <1>2 DEF EndLoad, EndStart, EndUnloadHook, EndCall, EndStopHook,
       EndHandle, EndTick, Abort, Plan, ExecuteAtOnce, Move, NextEvent,
       BeginHear, EndHear, EndCycle, Around, BeginTask, EndTask
<1> QED
  BY StepShapes, <1>1, <1>2 DEF StopInv, IInv, TypeOK

LEMMA HeardStays ==
  ASSUME StopInv, [Next]_vars
  PROVE  HeardWhileServing'
<1>1. CASE Dies
  BY <1>1 DEF Dies, End, HeardWhileServing
<1>2. CASE ~Dies
  BY <1>2, RequestIsKept, ServingGoesOn DEF StopInv, HeardWhileServing
<1> QED
  BY <1>1, <1>2

LEMMA TurnStaysInBounds ==
  ASSUME StopInv, [Next]_vars
  PROVE  TurnInBounds'
<1> USE DEF StopInv, TurnInBounds
<1>1. /\ turn \in Nat /\ Len(plugins) \in Nat
      /\ pc \notin {"load", "start", "tick", "stop"} => turn = 1
  BY PluginsAreNumbered, FilesAreNumbered DEF IInv, TypeOK, PluginsInOrder
<1>2. CASE Dies
  BY <1>2 DEF Dies, End
<1>3. CASE /\ UNCHANGED <<plugins, turn>>
           /\ pc' \in {"tick", "stop"}
                => pc' = pc \/ pc \notin {"load", "start", "tick", "stop"}
  BY <1>1, <1>3
<1>4. CASE Moves \/ MovesWithNews \/ Opens \/ Calls \/ Observes \/ Around
  BY <1>3, <1>4 DEF Moves, Move, MovesWithNews, MoveWithNews, Opens, Calls,
       BeginLoad, BeginStart, BeginTick, BeginHandle, BeginStopHook, Call,
       Observes, AskNext, ProbeAnswers, ProbeTimesOut, Probing,
       EndObservation, Abort, Around, pluginVars, registryVars
<1>5. CASE LoopEnds
  BY <1>1, <1>5 DEF LoopEnds, AllLoaded, AllStarted, AllTicked, AllStopped,
       AllCalled, pluginVars, registryVars
<1>6. CASE EndTick \/ EndUnloadHook
  <2>1. turn <= Len(plugins)
    BY <1>6 DEF EndTick, EndUnloadHook, EndCall, In, IInv, HookFitsStage
  <2> QED
    BY <1>1, <1>6, <2>1 DEF EndTick, EndUnloadHook, EndCall, Abort,
       registryVars
<1>7. CASE EndLoad \/ EndStart
  <2>1. pc \in {"load", "start"}
    BY <1>7 DEF EndLoad, EndStart, EndCall, In, IInv, HookFitsStage
  <2> QED
    BY <1>7, <2>1 DEF EndLoad, EndStart, EndCall
<1>8. CASE \/ EndStopHook \/ EndHandle \/ Plan \/ ExecuteAtOnce
           \/ NextEvent \/ BeginHear \/ EndHear \/ EndCycle
           \/ \E p \in FileNumbers : BeginTask(p) \/ EndTask(p)
  BY <1>3, <1>8 DEF EndStopHook, EndHandle, Plan, Abort, ExecuteAtOnce, Move,
       NextEvent, BeginHear, EndHear, EndCycle, BeginTask, EndTask,
       pluginVars, registryVars
<1> QED
  BY StepShapes, <1>2, <1>4, <1>5, <1>6, <1>7, <1>8 DEF IInv, TypeOK

LEMMA StopInvariant == Spec => []StopInv
<1>1. Init => HeardWhileServing /\ TurnInBounds
  BY DEF Init, HeardWhileServing, TurnInBounds
<1>2. IInv /\ HeardWhileServing /\ TurnInBounds /\ [Next]_vars
      => HeardWhileServing' /\ TurnInBounds'
  BY HeardStays, TurnStaysInBounds DEF StopInv
<1> QED
  BY <1>1, <1>2, InductiveInvariant, PTL DEF Spec, StopInv

-----------------------------------------------------------------------------
(* What makes ToDo smaller, one part after the other.                      *)

StagePassed == Distance[pc'] < Distance[pc]

ProbeDone == pc' = pc /\ Probes - probe' < Probes - probe

ProbeAsked == UNCHANGED <<pc, probe>> /\ asked' /\ ~asked

PluginDone ==
  /\ UNCHANGED <<pc, observerVars>>
  /\ Len(plugins)' + 1 - turn' < Len(plugins) + 1 - turn

PluginStopped ==
  /\ UNCHANGED <<pc, observerVars, plugins, turn>>
  /\ turn <= Len(plugins)
  /\ phase[LastUp] = "running"
  /\ phase'[LastUp] # "running"

EventTaken ==
  /\ UNCHANGED <<pc, observerVars, plugins, turn, phase>>
  /\ Len(bus') < Len(bus)

HandlerCalled ==
  /\ UNCHANGED <<pc, observerVars, plugins, turn, phase, bus>>
  /\ Len(hearing') < Len(hearing)

HookPassed ==
  /\ UNCHANGED <<pc, observerVars, plugins, turn, phase, bus, hearing>>
  /\ HookToDo' < HookToDo

LEMMA PrecedesIsLexical ==
  ASSUME NEW a1, NEW a2, NEW a3, NEW a4, NEW a5, NEW a6, NEW a7, NEW a8,
         NEW b1, NEW b2, NEW b3, NEW b4, NEW b5, NEW b6, NEW b7, NEW b8,
         \/ a1 < b1
         \/ a1 = b1 /\ a2 < b2
         \/ a1 = b1 /\ a2 = b2 /\ a3 < b3
         \/ a1 = b1 /\ a2 = b2 /\ a3 = b3 /\ a4 < b4
         \/ a1 = b1 /\ a2 = b2 /\ a3 = b3 /\ a4 = b4 /\ a5 < b5
         \/ /\ a1 = b1 /\ a2 = b2 /\ a3 = b3 /\ a4 = b4 /\ a5 = b5
            /\ a6 < b6
         \/ /\ a1 = b1 /\ a2 = b2 /\ a3 = b3 /\ a4 = b4 /\ a5 = b5
            /\ a6 = b6 /\ a7 < b7
         \/ /\ a1 = b1 /\ a2 = b2 /\ a3 = b3 /\ a4 = b4 /\ a5 = b5
            /\ a6 = b6 /\ a7 = b7 /\ a8 < b8
  PROVE  Precedes(<<a1, a2, a3, a4, a5, a6, a7, a8>>,
                  <<b1, b2, b3, b4, b5, b6, b7, b8>>)
<1> DEFINE a == <<a1, a2, a3, a4, a5, a6, a7, a8>>
           b == <<b1, b2, b3, b4, b5, b6, b7, b8>>
<1>1. Len(a) = 8
  OBVIOUS
<1>2. /\ a[1] = a1 /\ a[2] = a2 /\ a[3] = a3 /\ a[4] = a4
      /\ a[5] = a5 /\ a[6] = a6 /\ a[7] = a7 /\ a[8] = a8
      /\ b[1] = b1 /\ b[2] = b2 /\ b[3] = b3 /\ b[4] = b4
      /\ b[5] = b5 /\ b[6] = b6 /\ b[7] = b7 /\ b[8] = b8
  OBVIOUS
<1> HIDE DEF a, b
<1>3. PICK i \in 1 .. 8 : a[i] < b[i] /\ \A j \in 1 .. i - 1 : a[j] = b[j]
  BY <1>2
<1>4. Precedes(a, b)
  BY <1>1, <1>3 DEF Precedes
<1> QED
  BY <1>4 DEF a, b

LEMMA Descends ==
  ASSUME \/ StagePassed \/ ProbeDone \/ ProbeAsked \/ PluginDone
         \/ PluginStopped \/ EventTaken \/ HandlerCalled \/ HookPassed
  PROVE  Precedes(ToDo', ToDo)
<1> DEFINE stops == turn <= Len(plugins) /\ phase[LastUp] = "running"
<1>1. ProbeAsked => One(~asked)' < One(~asked)
  BY DEF ProbeAsked, One
<1>2. PluginStopped => One(stops)' < One(stops)
  BY DEF PluginStopped, One, LastUp
<1>3. UNCHANGED <<plugins, turn, phase>> => One(stops)' = One(stops)
  BY DEF One, LastUp
<1>4. ToDo = <<Distance[pc], Probes - probe, One(~asked),
               Len(plugins) + 1 - turn, One(stops), Len(bus), Len(hearing),
               HookToDo>>
  BY DEF ToDo
<1>5. ToDo' = <<Distance[pc'], Probes - probe', One(~asked)',
                Len(plugins)' + 1 - turn', One(stops)', Len(bus'),
                Len(hearing'), HookToDo'>>
  BY DEF ToDo, Probes, Distance, One, LastUp
<1> HIDE DEF stops
<1>6. UNCHANGED asked => One(~asked)' = One(~asked)
  BY DEF One
<1>7. UNCHANGED plugins => Len(plugins)' = Len(plugins)
  OBVIOUS
<1> QED
  BY <1>1, <1>2, <1>3, <1>4, <1>5, <1>6, <1>7, PrecedesIsLexical,
     SMTT(30)
  DEF StagePassed, ProbeDone, ProbeAsked, PluginDone, PluginStopped,
      EventTaken, HandlerCalled, HookPassed, observerVars

(* All parts of what is left are numbers.                                  *)
LEMMA ToDoIsCounted ==
  ASSUME StopInv, requested
  PROVE  ToDo \in Seq(Nat)
<1>1. Distance[pc] \in Nat
  <2>1. /\ pc \in Stages
        /\ pc \notin {"down", "open", "load", "start", "restore"}
    BY DEF StopInv, IInv, TypeOK, HeardWhileServing, Boot
  <2>2. DOMAIN Distance = Stages \ (Boot \cup {"down"})
    BY DEF Stages, Boot, Distance
  <2>3. \A stage \in DOMAIN Distance : Distance[stage] \in Nat
    BY DEF Distance
  <2> QED
    BY <2>1, <2>2, <2>3 DEF Boot
<1>2. Probes - probe \in Nat
  BY ObserverAssumption DEF StopInv, IInv, TypeOK, Probes
<1>3. Len(plugins) + 1 - turn \in Nat
  BY PluginsAreNumbered, FilesAreNumbered
  DEF StopInv, IInv, TypeOK, PluginsInOrder, TurnInBounds,
      HeardWhileServing, Boot
<1>4. Len(bus) \in Nat /\ Len(hearing) \in Nat
  BY LenProperties DEF StopInv, IInv, TypeOK
<1>6. HookToDo \in Nat
  BY DEF HookToDo, One
<1>7. One(~asked) \in Nat
  BY DEF One
<1>8. One(turn <= Len(plugins) /\ phase[LastUp] = "running") \in Nat
  BY DEF One
<1> QED
  BY <1>1, <1>2, <1>3, <1>4, <1>6, <1>7, <1>8 DEF ToDo

-----------------------------------------------------------------------------
(* The steps of a process that has been asked to stop.                     *)

Closer ==
  \/ StagePassed \/ ProbeDone \/ ProbeAsked \/ PluginDone
  \/ PluginStopped \/ EventTaken \/ HandlerCalled \/ HookPassed

LEMMA StagesArePassed ==
  ASSUME StopInv, requested,
         \/ Moves \/ MovesWithNews \/ LoopEnds \/ EndObservation
         \/ Plan \/ ExecuteAtOnce \/ EndHandle \/ EndCycle
  PROVE  Closer
<1> USE DEF StagePassed, Distance
<1>1. pc \notin Boot \cup {"down"}
  BY DEF StopInv, HeardWhileServing
<1>2. CASE Moves \/ MovesWithNews
  BY <1>1, <1>2 DEF Moves, Move, MovesWithNews, MoveWithNews, Boot, Closer
<1>3. CASE LoopEnds
  BY <1>1, <1>3 DEF LoopEnds, AllLoaded, AllStarted, AllTicked, AllStopped,
       AllCalled, Boot, Closer
<1>4. CASE EndObservation \/ Plan
  <2>1. <<pc, pc'>> \in {<<"observe", "report">>, <<"observe", "error">>,
                         <<"plan", "execute">>, <<"plan", "tick">>,
                         <<"plan", "error">>}
    BY <1>4, Zenon DEF EndObservation, Plan, Abort
  <2> QED
    BY <2>1 DEF Closer
<1>6. CASE ExecuteAtOnce \/ EndCycle
  BY <1>6 DEF ExecuteAtOnce, Move, EndCycle, Closer
<1>5. CASE EndHandle
  BY <1>5 DEF EndHandle, In, StopInv, IInv, HookFitsStage, Closer
<1> QED
  BY <1>2, <1>3, <1>4, <1>5, <1>6

LEMMA ProbesAreDone ==
  ASSUME StopInv, AskNext \/ ProbeAnswers \/ ProbeTimesOut
  PROVE  Closer
<1>1. probe \in Nat /\ Probes \in Nat
  BY ObserverAssumption DEF StopInv, IInv, TypeOK, Probes
<1>2. ASSUME pc' = pc, NextProbe
      PROVE  ProbeDone
  BY <1>1, <1>2 DEF NextProbe, ProbeDone
<1>3. ASSUME pc' = pc, Ask
      PROVE  ProbeAsked
  BY <1>3 DEF Ask, ProbeAsked
<1> QED
  BY <1>2, <1>3 DEF AskNext, ProbeAnswers, ProbeTimesOut, Probing, CannotAsk,
     Answer, GiveUp, Closer

(* A hook that is called, other than a handler of an event.                *)
LEMMA HooksAreEntered ==
  ASSUME StopInv, requested, Calls
  PROVE  Closer
<1>1. pc \notin Boot \cup {"down"}
  BY DEF StopInv, HeardWhileServing
<1>2. PICK p \in FileNumbers, hook \in Hooks \ {"hear"} : Call(p, hook)
  BY <1>1, CalleesOfLoops DEF Calls, BeginLoad, BeginStart, BeginTick,
     BeginHandle, BeginStopHook, Boot, Hooks, StopInv
<1>3. inside = None /\ inside' = <<p, hook>> /\ inside' # None
  BY <1>2, RegistryAssumption DEF Call, Enter
<1>4. HookToDo = 1 /\ HookToDo' = 0
  BY <1>3 DEF HookToDo, One, In
<1> QED
  BY <1>2, <1>4 DEF Call, HookPassed, Closer, registryVars, deliveryVars,
     aside

LEMMA HooksAreLeft ==
  ASSUME StopInv, requested,
         \/ EndLoad \/ EndStart \/ EndTick \/ EndUnloadHook \/ EndStopHook
  PROVE  Closer
<1>1. pc \notin Boot \cup {"down"}
  BY DEF StopInv, HeardWhileServing
<1>2. turn \in Nat /\ Len(plugins) \in Nat
  BY PluginsAreNumbered, FilesAreNumbered DEF StopInv, IInv, TypeOK
<1>3. ~EndLoad /\ ~EndStart
  BY <1>1 DEF EndLoad, EndStart, EndCall, In, StopInv, IInv, HookFitsStage,
     Boot
<1>4. CASE EndTick
  <2>1. pc = "tick"
    BY <1>4 DEF EndTick, In, StopInv, IInv, HookFitsStage
  <2>2. CASE pc' = "error"
    BY <2>1, <2>2 DEF StagePassed, Distance, Closer
  <2>3. CASE pc' = pc /\ turn' = turn + 1
    BY <1>2, <1>4, <2>3 DEF EndTick, PluginDone, Closer, registryVars, aside
  <2> QED
    BY <1>4, <2>2, <2>3 DEF EndTick, Abort
<1>5. CASE EndUnloadHook
  BY <1>2, <1>5 DEF EndUnloadHook, EndCall, PluginDone, Closer, registryVars,
     aside
<1>6. CASE EndStopHook
  <2>1. /\ turn <= Len(plugins) /\ inside[1] = LastUp
        /\ phase[LastUp] = "running"
    BY <1>6 DEF EndStopHook, In, StopInv, IInv, HookFitsStage
  <2>2. LastUp \in FileNumbers
    BY <2>1, CalleesOfLoops DEF StopInv
  <2>3. phase'[LastUp] = "stopped"
    BY <1>6, <2>1, <2>2 DEF EndStopHook, Becomes, StopInv, IInv, TypeOK
  <2> QED
    BY <1>6, <2>1, <2>3 DEF EndStopHook, PluginStopped, Closer, registryVars,
       aside
<1> QED
  BY <1>3, <1>4, <1>5, <1>6

LEMMA EventsAreHeard ==
  ASSUME StopInv, NextEvent \/ BeginHear \/ EndHear
  PROVE  Closer
<1>1. bus \in Seq(Events) /\ hearing \in Seq(FileNumbers)
  BY DEF StopInv, IInv, TypeOK
<1>2. CASE NextEvent
  <2>1. Len(bus') < Len(bus)
    BY <1>1, <1>2, EmptySeq, HeadTailProperties DEF NextEvent, TakeEvent, Take
  <2> QED
    BY <1>2, <2>1 DEF NextEvent, EventTaken, Closer, registryVars, aside
<1>3. CASE BeginHear
  <2>1. Len(hearing') < Len(hearing)
    BY <1>1, <1>3, EmptySeq, HeadTailProperties DEF BeginHear, CallHandler
  <2> QED
    BY <1>3, <2>1 DEF BeginHear, CallHandler, HandlerCalled, Closer,
       registryVars, aside
<1>4. CASE EndHear
  <2>1. HookToDo = 2 /\ HookToDo' = 1
    BY <1>4 DEF EndHear, In, Return, HookToDo, One
  <2> QED
    BY <1>4, <2>1 DEF EndHear, StillHearing, HookPassed, Closer, registryVars,
       aside
<1> QED
  BY <1>2, <1>3, <1>4

LEMMA EveryStepIsCloser ==
  ASSUME StopInv, [Next]_vars, vars' # vars, ~Dies, requested, ~Beside
  PROVE  Closer
<1>1. ~(\E p \in FileNumbers : BeginTask(p) \/ EndTask(p))
  BY DEF BeginTask, EndTask, Beside
<1>2. pc \notin Boot \cup {"down"}
  BY DEF StopInv, HeardWhileServing
<1>3. ~Around
  <2> SUFFICES ASSUME Around PROVE FALSE
    OBVIOUS
  <2>1. requested' = requested
    <3>1. requested = TRUE
      BY DEF StopInv, IInv, TypeOK
    <3> QED
      BY <1>2, <3>1 DEF Around
  <2> QED
    BY <2>1 DEF Around, Beside, vars, aside, others, systemVars
<1>4. ~Opens
  BY <1>2 DEF Opens, Boot
<1> QED
  BY StepShapes, <1>1, <1>3, <1>4, StagesArePassed, ProbesAreDone,
     HooksAreEntered, HooksAreLeft, EventsAreHeard
  DEF Observes, StopInv, IInv, TypeOK

(* A process that has been asked to stop comes closer to its end with      *)
(* everything that main does and with every hook that returns, for any     *)
(* number of plugins, devices, units and waiting events: the part of       *)
(* SignalEndsProcess that does not depend on fairness.                     *)
THEOREM StopDescends == Spec => StopComesCloser
<1>1. ASSUME StopInv, StopInv', [Next]_vars, vars' # vars, requested,
             ~Beside, pc' # "down"
      PROVE  ToDo' \in Seq(Nat) /\ Precedes(ToDo', ToDo)
  <2>1. ~Dies
    BY <1>1 DEF Dies, End
  <2>2. requested'
    BY <1>1, <2>1, RequestIsKept
  <2>3. (StopInv /\ requested => ToDo \in Seq(Nat))'
    BY ToDoIsCounted, PTL
  <2> QED
    BY <1>1, <2>1, <2>2, <2>3, EveryStepIsCloser, Descends DEF Closer
<1>2. StopInv /\ StopInv' /\ [Next]_vars
      => [requested /\ ~Beside /\ pc' # "down"
            => ToDo' \in Seq(Nat) /\ Precedes(ToDo', ToDo)]_vars
  BY <1>1
<1> QED
  BY <1>2, StopInvariant, PTL DEF Spec, StopComesCloser
=============================================================================
