-------------------------- MODULE BrainLoopProofs --------------------------
(***************************************************************************)
(* Proofs about BrainLoop, for every value of its constants.               *)
(***************************************************************************)
EXTENDS BrainLoop, TLAPS

-----------------------------------------------------------------------------
(* The inductive invariant.                                                *)

(* The last news of the node in the bus is what was published last; when   *)
(* there is none in it, that is what the subscribers were told.            *)
IsLastNews(n) ==
  /\ bus[n] \in NodeNews
  /\ \A m \in DOMAIN bus : m > n => bus[m] \notin NodeNews

NewsIsOnItsWay ==
  /\ \A n \in DOMAIN bus : IsLastNews(n) => bus[n] = announced
  /\ (\A n \in DOMAIN bus : bus[n] \notin NodeNews) => told = announced

(* The steps of the stop leave their results behind.                       *)
StopInOrder ==
  /\ pc \in {"remember", "finalCheckpoint", "confirm", "exit"} => ~loaded
  /\ pc \in {"confirm", "exit"} => ~unsaved /\ ~session

IInv ==
  /\ TypeOK
  /\ AvailabilityWasAnnounced
  /\ NewsIsOnItsWay
  /\ StopInOrder

-----------------------------------------------------------------------------
(* The invariant holds at first.                                           *)
LEMMA InvariantAtFirst == Init => IInv
<1> SUFFICES ASSUME Init PROVE IInv
  OBVIOUS
<1> USE BrainLoopAssumption, ComputeNodeAssumption
<1> USE DEF Init, BusInit, ClientInit
<1>1. TypeOK
  <2>1. bus \in Seq(Events)
    OBVIOUS
  <2>2. backoff = ReconnectBackoff
    OBVIOUS
  <2>3. pc \in Stages /\ told \in NodeNews /\ announced \in NodeNews
    BY DEF Stages, NodeNews
  <2>4. /\ due \subseteq JobNames /\ round \subseteq due
        /\ available \in BOOLEAN /\ session \in BOOLEAN
        /\ stale \in BOOLEAN /\ unsaved \in BOOLEAN
        /\ loaded \in BOOLEAN /\ requested \in BOOLEAN
    OBVIOUS
  <2> QED
    BY <2>1, <2>2, <2>3, <2>4 DEF TypeOK
<1>2. AvailabilityWasAnnounced /\ StopInOrder
  BY DEF AvailabilityWasAnnounced, StopInOrder
<1>3. NewsIsOnItsWay
  BY DEF NewsIsOnItsWay
<1> QED
  BY <1>1, <1>2, <1>3 DEF IInv

(* An event published keeps the types of the bus.                          *)
LEMMA PublishKeepsTypes ==
  ASSUME TypeOK, NEW event \in Events, Announce(event)
  PROVE  /\ bus' \in Seq(Events) /\ told' \in NodeNews
         /\ announced' \in NodeNews
BY DEF TypeOK, Announce, Publish

(* So does what a heartbeat publishes.                                     *)
LEMMA ChangeKeepsTypes ==
  ASSUME TypeOK, NEW was, PublishChange(was)
  PROVE  /\ bus' \in Seq(Events) /\ told' \in NodeNews
         /\ announced' \in NodeNews
<1>1. CASE UNCHANGED busVars
  BY <1>1 DEF TypeOK, busVars
<1>2. CASE \E event \in NodeNews : Announce(event)
  BY <1>2, PublishKeepsTypes DEF NodeNews, Events
<1> QED
  BY <1>1, <1>2 DEF PublishChange, NodeNews

(* What a heartbeat finds out it announces.                                *)
LEMMA HeartbeatAnnounces ==
  ASSUME TypeOK, AvailabilityWasAnnounced, Heartbeat
  PROVE  AvailabilityWasAnnounced'
<1>1. CASE available' = available
  BY <1>1 DEF Heartbeat, PublishChange, busVars, AvailabilityWasAnnounced
<1>2. CASE available' # available
  BY <1>2 DEF Heartbeat, PublishChange, Announce, Publish, NodeNews,
       AvailabilityWasAnnounced
<1> QED
  BY <1>1, <1>2

(* Types are preserved.                                                    *)
LEMMA TypesAreKept ==
  ASSUME TypeOK, [Next]_vars
  PROVE  TypeOK'
<1>1. CASE BeginCycle
  BY <1>1 DEF BeginCycle, TypeOK, Stages, busVars, clientVars, loopVars
<1>2. CASE Observe
  BY <1>2 DEF Observe, GoOn, TypeOK, Stages, busVars, clientVars, loopVars
<1>3. CASE DecideLocally
  BY <1>3 DEF DecideLocally, TypeOK, Stages, busVars, clientVars, loopVars
<1>4. CASE DecideRemotely
  BY <1>4 DEF DecideRemotely, Reason, ReasonInVain, TypeOK, Stages, busVars,
       clientVars, loopVars
<1>5. CASE Plan
  BY <1>5 DEF Plan, TypeOK, Stages, busVars, clientVars, loopVars
<1>6. CASE TickPlugins
  BY <1>6 DEF TickPlugins, GoOn, TypeOK, Stages, busVars, clientVars, loopVars
<1>7. CASE RunCheckpoint
  BY <1>7 DEF RunCheckpoint, Finish, GoOn, TypeOK, Stages, busVars, clientVars,
       loopVars
<1>8. CASE RunUpdater
  BY <1>8 DEF RunUpdater, Finish, GoOn, TypeOK, Stages, busVars, clientVars,
       loopVars
<1>9. CASE RunHeartbeat
  <2>1. available' \in BOOLEAN /\ session' \in BOOLEAN
    BY <1>9 DEF RunHeartbeat, Heartbeat
  <2>2. backoff' \in (ReconnectBackoff .. MaxBackoff)
                       \cup {ReconnectBackoff, MaxBackoff}
    BY <1>9, ComputeNodeAssumption DEF RunHeartbeat, Heartbeat, TypeOK
  <2>3. pc' \in Stages /\ due' \subseteq JobNames /\ round' \subseteq due'
    BY <1>9 DEF RunHeartbeat, Finish, GoOn, TypeOK, Stages
  <2>4. PublishChange(available)
    BY <1>9 DEF RunHeartbeat, Heartbeat
  <2> QED
    BY <1>9, <2>1, <2>2, <2>3, <2>4, ChangeKeepsTypes DEF RunHeartbeat, TypeOK
<1>10. CASE RunHealth
  BY <1>10 DEF RunHealth, Finish, GoOn, TypeOK, Stages, busVars, clientVars,
       loopVars
<1>11. CASE RunWatchdog
  <2>1. pc' \in Stages /\ due' \subseteq JobNames /\ round' \subseteq due'
    BY <1>11 DEF RunWatchdog, Finish, GoOn, TypeOK, Stages
  <2>2. /\ bus' \in Seq(Events) /\ told' \in NodeNews
        /\ announced' \in NodeNews
    <3>1. CASE Announce("restarted")
      BY <3>1, PublishKeepsTypes DEF Events
    <3>2. CASE UNCHANGED busVars
      BY <3>2 DEF busVars, TypeOK
    <3> QED
      BY <1>11, <3>1, <3>2 DEF RunWatchdog
  <2> QED
    BY <1>11, <2>1, <2>2 DEF RunWatchdog, TypeOK, clientVars
<1>12. CASE EndTick
  BY <1>12 DEF EndTick, TypeOK, Stages, busVars, clientVars, loopVars
<1>13. CASE Drain
  BY <1>13 DEF Drain, Dispatch, Take, Hear, TypeOK, Stages, busVars,
       clientVars, loopVars
<1>14. CASE EndCycle
  BY <1>14 DEF EndCycle, TypeOK, Stages, busVars, clientVars, loopVars
<1>15. CASE HandleError
  BY <1>15 DEF HandleError, TypeOK, Stages, busVars, clientVars, loopVars
<1>16. CASE BeginStop
  <2>1. Announce("shutdown")
    BY <1>16 DEF BeginStop
  <2> QED
    BY <1>16, <2>1, PublishKeepsTypes
    DEF BeginStop, Events, TypeOK, Stages, clientVars, loopVars
<1>17. CASE StopPlugins
  BY <1>17 DEF StopPlugins, GoOnStopping, TypeOK, Stages, busVars, clientVars,
       loopVars
<1>18. CASE RememberStop
  BY <1>18 DEF RememberStop, GoOnStopping, TypeOK, Stages, busVars, clientVars,
       loopVars
<1>19. CASE SaveFinally
  BY <1>19 DEF SaveFinally, GoOnStopping, CloseSession, TypeOK, Stages,
       busVars, clientVars, loopVars
<1>20. CASE Confirm
  BY <1>20 DEF Confirm, GoOnStopping, TypeOK, Stages, busVars, clientVars,
       loopVars
<1>21. CASE Execute
  BY <1>21 DEF Execute, GoOn, TypeOK, Stages, busVars, clientVars, loopVars
<1>22. CASE RequestShutdown
  BY <1>22 DEF RequestShutdown, TypeOK, Stages, busVars, clientVars, loopVars
<1>23. CASE TimeoutPasses
  BY <1>23 DEF TimeoutPasses, TypeOK, Stages, busVars, clientVars, loopVars
<1>24. CASE NodeChanges
  BY <1>24 DEF NodeChanges, TypeOK, Stages, busVars, clientVars, loopVars
<1>25. CASE \E name \in JobNames : IntervalPasses(name)
  BY <1>25 DEF IntervalPasses, TypeOK, Stages, busVars, clientVars, loopVars
<1>26. CASE UNCHANGED vars
  BY <1>26 DEF vars, TypeOK, Stages, busVars, clientVars, loopVars
<1> QED
  BY <1>1, <1>2, <1>3, <1>4, <1>5, <1>6, <1>7, <1>8, <1>9, <1>10, <1>11, <1>12,
     <1>13, <1>14, <1>15, <1>16, <1>17, <1>18, <1>19, <1>20, <1>21, <1>22,
     <1>23, <1>24, <1>25, <1>26
  DEF Next, Step, Tick, Outside, Environment

(* Only a heartbeat makes the node available, and it says so.              *)
LEMMA AvailabilityStaysAnnounced ==
  ASSUME IInv, [Next]_vars
  PROVE  AvailabilityWasAnnounced'
<1>1. CASE DecideRemotely
  BY <1>1 DEF DecideRemotely, Reason, ReasonInVain, IInv,
       AvailabilityWasAnnounced, busVars, clientVars
<1>2. CASE RunHeartbeat
  BY <1>2, HeartbeatAnnounces DEF RunHeartbeat, IInv
<1>3. CASE RunWatchdog
  BY <1>3 DEF RunWatchdog, Announce, Publish, Finish, GoOn, NodeNews, IInv,
       AvailabilityWasAnnounced, busVars, clientVars
<1>4. CASE BeginStop
  BY <1>4 DEF BeginStop, Announce, Publish, NodeNews, IInv,
       AvailabilityWasAnnounced, busVars, clientVars
<1>5. CASE Drain
  BY <1>5 DEF Drain, Dispatch, Take, Hear, IInv,
       AvailabilityWasAnnounced, busVars, clientVars
<1>6. CASE \/ BeginCycle \/ Observe \/ DecideLocally \/ Plan \/ TickPlugins
           \/ RunCheckpoint \/ RunUpdater \/ RunHealth
  BY <1>6 DEF BeginCycle, Observe, GoOn, DecideLocally, Plan, TickPlugins,
       RunCheckpoint, Finish, RunUpdater, RunHealth, IInv,
       AvailabilityWasAnnounced, busVars, clientVars
<1>7. CASE \/ EndTick \/ EndCycle \/ HandleError \/ StopPlugins
           \/ RememberStop \/ SaveFinally \/ Confirm \/ Execute
  BY <1>7 DEF EndTick, EndCycle, HandleError, StopPlugins, GoOnStopping,
       RememberStop, SaveFinally, CloseSession, Confirm, Execute, GoOn, IInv,
       AvailabilityWasAnnounced, busVars, clientVars
<1>8. CASE \/ RequestShutdown \/ TimeoutPasses \/ NodeChanges
           \/ \E name \in JobNames : IntervalPasses(name)
  BY <1>8 DEF RequestShutdown, TimeoutPasses, NodeChanges, IntervalPasses,
       IInv, AvailabilityWasAnnounced, busVars, clientVars
<1>9. CASE UNCHANGED vars
  BY <1>9 DEF vars, IInv, AvailabilityWasAnnounced, busVars, clientVars
<1> QED
  BY <1>1, <1>2, <1>3, <1>4, <1>5, <1>6, <1>7, <1>8, <1>9
  DEF Next, Step, Tick, Outside, Environment

(* Each step of the stop is taken once, and nothing else runs in between.  *)
LEMMA StopStaysInOrder ==
  ASSUME IInv, [Next]_vars
  PROVE  StopInOrder'
<1>1. CASE StopPlugins
  BY <1>1 DEF StopPlugins, GoOnStopping, IInv, StopInOrder, clientVars,
       loopVars
<1>2. CASE SaveFinally
  BY <1>2 DEF SaveFinally, GoOnStopping, CloseSession, IInv, StopInOrder,
       clientVars, loopVars
<1>3. CASE \/ BeginCycle \/ Observe \/ DecideLocally \/ DecideRemotely \/ Plan
           \/ TickPlugins \/ RunCheckpoint \/ RunUpdater
  BY <1>3 DEF BeginCycle, Observe, GoOn, DecideLocally, DecideRemotely, Reason,
       ReasonInVain, Plan, TickPlugins, RunCheckpoint, Finish, RunUpdater,
       IInv, StopInOrder, clientVars, loopVars
<1>4. CASE \/ RunHeartbeat \/ RunHealth \/ RunWatchdog \/ EndTick \/ Drain
           \/ EndCycle \/ HandleError \/ BeginStop
  BY <1>4 DEF RunHeartbeat, Heartbeat, PublishChange, Announce, Publish,
       Finish, GoOn, RunHealth, RunWatchdog, NodeNews, EndTick, Drain,
       Dispatch, Take, Hear, EndCycle, HandleError, BeginStop, IInv,
       StopInOrder, clientVars, loopVars
<1>5. CASE \/ RememberStop \/ Confirm \/ Execute \/ RequestShutdown
           \/ TimeoutPasses \/ NodeChanges
           \/ \E name \in JobNames : IntervalPasses(name)
  BY <1>5 DEF RememberStop, GoOnStopping, Confirm, Execute, GoOn,
       RequestShutdown, TimeoutPasses, NodeChanges, IntervalPasses, IInv,
       StopInOrder, clientVars, loopVars
<1>6. CASE UNCHANGED vars
  BY <1>6 DEF vars, IInv, StopInOrder, clientVars, loopVars
<1> QED
  BY <1>1, <1>2, <1>3, <1>4, <1>5, <1>6
  DEF Next, Step, Tick, Outside, Environment

(* Publishing an event makes it the last one, be it news or not.           *)
LEMMA PublishKeepsNews ==
  ASSUME TypeOK, NewsIsOnItsWay, NEW event \in Events, Announce(event)
  PROVE  NewsIsOnItsWay'
<1>1. /\ DOMAIN bus = 1 .. Len(bus) /\ Len(bus) \in Nat
      /\ DOMAIN bus' = 1 .. Len(bus) + 1
      /\ bus'[Len(bus) + 1] = event
      /\ \A n \in DOMAIN bus : bus'[n] = bus[n]
  BY DEF TypeOK, Announce, Publish
<1>2. told' = told
  BY DEF Announce, Publish
<1>3. CASE event \in NodeNews
  <2>1. announced' = event
    BY <1>3 DEF Announce, Publish
  <2>2. \A n \in DOMAIN bus' : IsLastNews(n)' => n = Len(bus) + 1
    BY <1>1, <1>3 DEF IsLastNews
  <2> QED
    BY <1>1, <1>3, <2>1, <2>2 DEF NewsIsOnItsWay
<1>4. CASE event \notin NodeNews
  <2>1. announced' = announced
    BY <1>4 DEF Announce, Publish
  <2>2. \A n \in DOMAIN bus' :
          IsLastNews(n)' => n \in DOMAIN bus /\ IsLastNews(n)
    BY <1>1, <1>4 DEF IsLastNews
  <2>3. (\A n \in DOMAIN bus' : bus'[n] \notin NodeNews)
          => \A n \in DOMAIN bus : bus[n] \notin NodeNews
    BY <1>1
  <2> QED
    BY <1>1, <1>2, <2>1, <2>2, <2>3 DEF NewsIsOnItsWay
<1> QED
  BY <1>3, <1>4

(* Dispatching the first event tells the subscribers of it, and leaves the *)
(* last one where it is if there is another.                               *)
LEMMA DispatchKeepsNews ==
  ASSUME TypeOK, NewsIsOnItsWay, Dispatch
  PROVE  NewsIsOnItsWay'
<1>1. /\ DOMAIN bus = 1 .. Len(bus) /\ Len(bus) \in Nat \ {0}
      /\ DOMAIN bus' = 1 .. Len(bus) - 1
      /\ \A n \in DOMAIN bus' : bus'[n] = bus[n + 1]
  BY DEF TypeOK, Dispatch, Take
<1>2. announced' = announced
  BY DEF Dispatch, Take, Hear
<1>3. ASSUME NEW n \in DOMAIN bus', IsLastNews(n)'
      PROVE  bus'[n] = announced'
  <2>1. n + 1 \in DOMAIN bus
    BY <1>1
  <2>2. ASSUME NEW m \in DOMAIN bus, m > n + 1
        PROVE  bus[m] \notin NodeNews
    <3>1. m - 1 \in DOMAIN bus' /\ m - 1 > n
      BY <1>1, <2>2
    <3>2. bus'[m - 1] = bus[m]
      BY <1>1, <2>2, <3>1
    <3> QED
      BY <1>3, <3>1, <3>2 DEF IsLastNews
  <2>3. IsLastNews(n + 1)
    BY <1>1, <1>3, <2>1, <2>2 DEF IsLastNews
  <2> QED
    BY <1>1, <1>2, <2>1, <2>3 DEF NewsIsOnItsWay
<1>4. ASSUME \A n \in DOMAIN bus' : bus'[n] \notin NodeNews
      PROVE  told' = announced'
  <2>1. ASSUME NEW m \in DOMAIN bus, m > 1
        PROVE  bus[m] \notin NodeNews
    <3>1. m - 1 \in DOMAIN bus' /\ bus'[m - 1] = bus[m]
      BY <1>1, <2>1
    <3> QED
      BY <1>4, <3>1
  <2>2. 1 \in DOMAIN bus /\ Head(bus) = bus[1]
    BY <1>1
  <2>3. CASE bus[1] \in NodeNews
    <3>1. IsLastNews(1)
      BY <2>1, <2>3 DEF IsLastNews
    <3>2. told' = bus[1]
      BY <2>2, <2>3 DEF Dispatch, Take, Hear
    <3> QED
      BY <1>2, <2>2, <3>1, <3>2 DEF NewsIsOnItsWay
  <2>4. CASE bus[1] \notin NodeNews
    <3>1. \A m \in DOMAIN bus : bus[m] \notin NodeNews
      BY <1>1, <2>1, <2>4
    <3>2. told' = told
      BY <2>2, <2>4 DEF Dispatch, Take, Hear
    <3> QED
      BY <1>2, <3>1, <3>2 DEF NewsIsOnItsWay
  <2> QED
    BY <2>3, <2>4
<1> QED
  BY <1>3, <1>4 DEF NewsIsOnItsWay

(* What leaves the bus alone leaves its news alone.                        *)
LEMMA SilenceKeepsNews ==
  ASSUME NewsIsOnItsWay, UNCHANGED busVars
  PROVE  NewsIsOnItsWay'
BY DEF NewsIsOnItsWay, IsLastNews, busVars

(* No event is lost on the bus, and none overtakes another.                *)
LEMMA NewsStaysOnItsWay ==
  ASSUME IInv, [Next]_vars
  PROVE  NewsIsOnItsWay'
<1>1. CASE RunHeartbeat
  <2>1. PublishChange(available)
    BY <1>1 DEF RunHeartbeat, Heartbeat
  <2>2. UNCHANGED busVars \/ \E event \in Events : Announce(event)
    BY <2>1 DEF PublishChange, Events
  <2> QED
    BY <2>2, PublishKeepsNews, SilenceKeepsNews DEF IInv
<1>2. CASE RunWatchdog
  <2>1. UNCHANGED busVars \/ Announce("restarted")
    BY <1>2 DEF RunWatchdog, busVars
  <2> QED
    BY <2>1, PublishKeepsNews, SilenceKeepsNews DEF Events, IInv
<1>3. CASE BeginStop
  BY <1>3, PublishKeepsNews DEF BeginStop, Events, IInv
<1>4. CASE Drain
  BY <1>4, DispatchKeepsNews DEF Drain, IInv
<1>5. CASE \/ BeginCycle \/ Observe \/ DecideLocally \/ DecideRemotely \/ Plan
           \/ TickPlugins \/ RunCheckpoint \/ RunUpdater
  BY <1>5, SilenceKeepsNews
  DEF IInv, BeginCycle, Observe, GoOn, DecideLocally, DecideRemotely, Reason,
      ReasonInVain, Plan, TickPlugins, RunCheckpoint, Finish, RunUpdater,
      busVars
<1>6. CASE \/ RunHealth \/ EndTick \/ EndCycle \/ HandleError \/ StopPlugins
           \/ RememberStop \/ SaveFinally \/ Confirm
  BY <1>6, SilenceKeepsNews
  DEF IInv, RunHealth, Finish, GoOn, EndTick, EndCycle, HandleError,
      StopPlugins, GoOnStopping, RememberStop, SaveFinally, CloseSession,
      Confirm, busVars
<1>7. CASE \/ Execute \/ RequestShutdown \/ TimeoutPasses \/ NodeChanges
           \/ \E name \in JobNames : IntervalPasses(name)
  BY <1>7, SilenceKeepsNews
  DEF IInv, Execute, GoOn, RequestShutdown, TimeoutPasses, NodeChanges,
      IntervalPasses, busVars
<1>8. CASE UNCHANGED vars
  BY <1>8, SilenceKeepsNews
  DEF IInv, vars, busVars
<1> QED
  BY <1>1, <1>2, <1>3, <1>4, <1>5, <1>6, <1>7, <1>8
  DEF Next, Step, Tick, Outside, Environment

-----------------------------------------------------------------------------
(* The invariant is inductive, so it always holds.                         *)
LEMMA InvariantIsInductive ==
  ASSUME IInv, [Next]_vars
  PROVE  IInv'
BY TypesAreKept, AvailabilityStaysAnnounced, NewsStaysOnItsWay,
   StopStaysInOrder
   DEF IInv

(* What the bus carries, what the client believes and how far a stop has   *)
(* come, tied together: the inductive invariant of the Brain's loop.       *)
THEOREM InductiveInvariant == Spec => []IInv
<1> QED
  BY InvariantAtFirst, InvariantIsInductive, PTL DEF Spec

(* The variables of the loop have their types, and the client's backoff    *)
(* stays between its first and its greatest value, both included.          *)
THEOREM TypeCorrect == Spec => []TypeOK
<1>1. IInv => TypeOK
  BY DEF IInv
<1> QED
  BY <1>1, InductiveInvariant, PTL

(* No inference is asked of a node that was not announced as available.    *)
THEOREM RequestsFollowNews == Spec => []AvailabilityWasAnnounced
<1>1. IInv => AvailabilityWasAnnounced
  BY DEF IInv
<1> QED
  BY <1>1, InductiveInvariant, PTL

(* When the bus is empty subscribers know the latest news of the node.     *)
THEOREM NewsArrive == Spec => []NewsArriveInOrder
<1>1. IInv => NewsArriveInOrder
  BY DEF IInv, NewsIsOnItsWay, NewsArriveInOrder
<1> QED
  BY <1>1, InductiveInvariant, PTL

(* A confirmed stop has saved, unloaded and closed all that there was.     *)
THEOREM StopsAreComplete == Spec => []ConfirmedStopIsComplete
<1>1. IInv => ConfirmedStopIsComplete
  BY DEF IInv, StopInOrder, ConfirmedStopIsComplete
<1> QED
  BY <1>1, InductiveInvariant, PTL
=============================================================================
