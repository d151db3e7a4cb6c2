--------------------------- MODULE Session_proofs ---------------------------
(***************************************************************************)
(* Proofs about Session, for any number of sessions, config indexes and    *)
(* restore timers.                                                         *)
(***************************************************************************)
EXTENDS Session, TLAPS

\* The handle is that of a session both ends, or the client alone, hold open.
Held == h = None \/ h \in alive \cup gone

\* A session that is about to be stored is in nobody else's hands.
Fresh ==
    \A t \in Thread : pc[t] = "store" =>
        /\ hnd[t] \in (alive \cup gone) \ (welcomed \cup simSubs)
        /\ hnd[t] # h
        /\ \A u \in Thread \ {t} : hnd[u] # hnd[t]

\* A session is closed only when the pump has ended.
Closing ==
    /\ pc["app"] = "drop" => hung \/ pc["pump"] = "off"
    /\ pc["app"] = "close" =>
          pc["pump"] = "off" /\ h = None /\ hnd["app"] \in SessionId

BaseInv == TypeOK /\ Held /\ Fresh /\ Closing

\* The registry's flag says that the event is mapped in a welcomed session.
TransInv ==
    /\ TransmitsMapped
    /\ mapped /\ h \in welcomed => h \in evMapped

\* While connect is past its close, or close past its join, no pump runs.
Alone ==
    /\ pc["app"] \in {"scan", "open", "store", "reset", "simStart", "wait",
                      "waitCall", "decide", "next", "drop", "close", "simFlag"}
          => pc["pump"] = "off" /\ ~running
    /\ after # "idle" => pc["pump"] = "off" /\ ~running
    /\ pc["app"] = "join" => ~running

\* after is set only during a close.
AfterInv == after # "idle" => pc["app"] \in {"cancel", "join", "drop", "close"}

\* Nobody opens while there is a handle, a thread in CallDispatch uses the one
\* there is, and every session the simulator holds is in somebody's hands.
Handles ==
    /\ \A t \in Thread : pc[t] \in {"open", "store"} => h = None
    /\ \A t \in Thread : InCall(t) => hnd[t] = h
    /\ \A t \in Thread : pc[t] = "reset" => ~ready
    /\ pc["app"] = "simFlag" => h \in simSubs
    /\ alive \subseteq {h} \cup {hnd[t] : t \in
                  {u \in Thread : pc[u] \in {"store", "close"}}}

\* At most one thread is in CallDispatch, with a handle that stands.
OneCall ==
    /\ ~ (InCall("app") /\ InCall("pump"))
    /\ \A t \in Thread : InCall(t) => hnd[t] \in alive \cup gone

OwnInv ==
    /\ AfterInv /\ OneCall
    /\ ~hung => Alone /\ Handles /\ FlagsOfSession

-----------------------------------------------------------------------------

LEMMA NextCases ==
    ASSUME Next \/ UNCHANGED vars, NEW G,
           \A t \in Thread : OpenAborts(t) => G,
           \A t \in Thread : OpenFails(t) => G,
           \A t \in Thread : OpenReturns(t) => G,
           \A t \in Thread : OpenStores(t) => G,
           \A t \in Thread : OpenResets(t) => G,
           \A t \in Thread : OpenSubscribes(t) => G,
           \A t \in Thread : WaitEnds(t) => G,
           \A t \in Thread : WaitDispatches(t) => G,
           \A t \in Thread : NoMessage(t) => G,
           \A t \in Thread : MsgOpen(t) => G,
           \A t \in Thread : MsgQuit(t) => G,
           \A t \in Thread : MsgRestore(t) => G,
           \A x \in Timer : TimerFires(x) => G,
           \A x \in Timer : TimerClears(x) => G,
           \A x \in Timer : TimerRestores(x) => G,
           DeadlinePasses => G,
           ConnectCall => G,
           CloseCall => G,
           Scan => G,
           DecideReady => G,
           DecideNext => G,
           NextIndex => G,
           CloseCancels => G,
           JoinReturns => G,
           JoinExpires => G,
           CloseDrops => G,
           Closes => G,
           TriggerOnPump => G,
           TriggerDirect => G,
           SubscribeSimStart => G,
           SetSimFlag => G,
           PumpStarts => G,
           PumpExits => G,
           PumpDispatches => G,
           PumpReconnects => G,
           SimQuits => G,
           UNCHANGED vars => G
    PROVE  G
BY DEF Next, Opening, Call, TimerStep, App, Pump

LEMMA TypeInit == Init => TypeOK
<1> SUFFICES ASSUME Init
             PROVE  TypeOK
  OBVIOUS
<1>1. FlagsOK
  BY DEF Init, FlagsOK
<1>2. DataOK
  BY NoneAssumption, IndexAssumption DEF Init, DataOK, Thread, AppPC, PumpPC
<1> QED
  BY <1>1, <1>2 DEF TypeOK

LEMMA FlagsStep == FlagsOK /\ [Next]_vars => FlagsOK'
<1> SUFFICES ASSUME FlagsOK, Next \/ UNCHANGED vars
             PROVE  FlagsOK'
  OBVIOUS
<1> USE DEF FlagsOK, client, sim, timers, app
<1>1. ASSUME NEW t \in Thread, OpenAborts(t)
      PROVE  FlagsOK'
  BY <1>1 DEF OpenAborts
<1>2. ASSUME NEW t \in Thread, OpenFails(t)
      PROVE  FlagsOK'
  BY <1>2 DEF OpenFails
<1>3. ASSUME NEW t \in Thread, OpenReturns(t)
      PROVE  FlagsOK'
  BY <1>3 DEF OpenReturns
<1>4. ASSUME NEW t \in Thread, OpenStores(t)
      PROVE  FlagsOK'
  BY <1>4 DEF OpenStores
<1>5. ASSUME NEW t \in Thread, OpenResets(t)
      PROVE  FlagsOK'
  BY <1>5 DEF OpenResets
<1>6. ASSUME NEW t \in Thread, OpenSubscribes(t)
      PROVE  FlagsOK'
  BY <1>6 DEF OpenSubscribes
<1>7. ASSUME NEW t \in Thread, WaitEnds(t)
      PROVE  FlagsOK'
  BY <1>7 DEF WaitEnds
<1>8. ASSUME NEW t \in Thread, WaitDispatches(t)
      PROVE  FlagsOK'
  BY <1>8 DEF WaitDispatches
<1>9. ASSUME NEW t \in Thread, NoMessage(t)
      PROVE  FlagsOK'
  BY <1>9 DEF NoMessage, CallEnds, InCall
<1>10. ASSUME NEW t \in Thread, MsgOpen(t)
       PROVE  FlagsOK'
  BY <1>10 DEF MsgOpen, CallEnds, InCall
<1>11. ASSUME NEW t \in Thread, MsgQuit(t)
       PROVE  FlagsOK'
  BY <1>11 DEF MsgQuit, CallEnds, InCall, Forget
<1>12. ASSUME NEW t \in Thread, MsgRestore(t)
       PROVE  FlagsOK'
  BY <1>12 DEF MsgRestore, CallEnds, InCall, Cancelled
<1>13. ASSUME NEW x \in Timer, TimerFires(x)
       PROVE  FlagsOK'
  BY <1>13 DEF TimerFires
<1>14. ASSUME NEW x \in Timer, TimerClears(x)
       PROVE  FlagsOK'
  BY <1>14 DEF TimerClears
<1>15. ASSUME NEW x \in Timer, TimerRestores(x)
       PROVE  FlagsOK'
  BY <1>15 DEF TimerRestores
<1>16. CASE DeadlinePasses
  BY <1>16 DEF DeadlinePasses
<1>17. CASE ConnectCall
  BY <1>17 DEF ConnectCall
<1>18. CASE CloseCall
  BY <1>18 DEF CloseCall
<1>19. CASE Scan
  BY <1>19 DEF Scan
<1>20. CASE DecideReady
  BY <1>20 DEF DecideReady
<1>21. CASE DecideNext
  BY <1>21 DEF DecideNext
<1>22. CASE NextIndex
  BY <1>22 DEF NextIndex
<1>23. CASE CloseCancels
  BY <1>23 DEF CloseCancels, Cancelled
<1>24. CASE JoinReturns
  BY <1>24 DEF JoinReturns
<1>25. CASE JoinExpires
  BY <1>25 DEF JoinExpires
<1>26. CASE CloseDrops
  BY <1>26 DEF CloseDrops
<1>27. CASE Closes
  BY <1>27 DEF Closes, Forget
<1>28. CASE TriggerOnPump
  BY <1>28 DEF TriggerOnPump, Trigger
<1>29. CASE TriggerDirect
  BY <1>29 DEF TriggerDirect, Trigger
<1>30. CASE SubscribeSimStart
  BY <1>30 DEF SubscribeSimStart
<1>31. CASE SetSimFlag
  BY <1>31 DEF SetSimFlag
<1>32. CASE PumpStarts
  BY <1>32 DEF PumpStarts
<1>33. CASE PumpExits
  BY <1>33 DEF PumpExits
<1>34. CASE PumpDispatches
  BY <1>34 DEF PumpDispatches
<1>35. CASE PumpReconnects
  BY <1>35 DEF PumpReconnects
<1>36. CASE SimQuits
  BY <1>36 DEF SimQuits
<1>37. CASE UNCHANGED vars
  BY <1>37 DEF vars
<1> QED
  BY <1>1, <1>2, <1>3, <1>4, <1>5, <1>6, <1>7, <1>8, <1>9, <1>10, <1>11,
     <1>12, <1>13, <1>14, <1>15, <1>16, <1>17, <1>18, <1>19, <1>20, <1>21,
     <1>22, <1>23, <1>24, <1>25, <1>26, <1>27, <1>28, <1>29, <1>30, <1>31,
     <1>32, <1>33, <1>34, <1>35, <1>36, <1>37, NextCases

LEMMA DataStep == DataOK /\ Held /\ [Next]_vars => DataOK'
<1> SUFFICES ASSUME DataOK, Held, Next \/ UNCHANGED vars
             PROVE  DataOK'
  OBVIOUS
<1> USE NoneAssumption, IndexAssumption
        DEF DataOK, Thread, AppPC, PumpPC, Goto, client, sets, sim, timers, app
<1>1. ASSUME NEW t \in Thread, OpenAborts(t)
      PROVE  DataOK'
  BY <1>1 DEF OpenAborts
<1>2. ASSUME NEW t \in Thread, OpenFails(t)
      PROVE  DataOK'
  BY <1>2 DEF OpenFails
<1>3. ASSUME NEW t \in Thread, OpenReturns(t)
      PROVE  DataOK'
  BY <1>3 DEF OpenReturns
<1>4. ASSUME NEW t \in Thread, OpenStores(t)
      PROVE  DataOK'
  BY <1>4 DEF OpenStores
<1>5. ASSUME NEW t \in Thread, OpenResets(t)
      PROVE  DataOK'
  BY <1>5 DEF OpenResets
<1>6. ASSUME NEW t \in Thread, OpenSubscribes(t)
      PROVE  DataOK'
  BY <1>6 DEF OpenSubscribes, Held
<1>7. ASSUME NEW t \in Thread, WaitEnds(t)
      PROVE  DataOK'
  BY <1>7 DEF WaitEnds
<1>8. ASSUME NEW t \in Thread, WaitDispatches(t)
      PROVE  DataOK'
  BY <1>8 DEF WaitDispatches
<1>9. ASSUME NEW t \in Thread, NoMessage(t)
      PROVE  DataOK'
  BY <1>9 DEF NoMessage, CallEnds, InCall
<1>10. ASSUME NEW t \in Thread, MsgOpen(t)
       PROVE  DataOK'
  BY <1>10 DEF MsgOpen, CallEnds, InCall
<1>11. ASSUME NEW t \in Thread, MsgQuit(t)
       PROVE  DataOK'
  BY <1>11 DEF MsgQuit, CallEnds, InCall, Forget
<1>12. ASSUME NEW t \in Thread, MsgRestore(t)
       PROVE  DataOK'
  BY <1>12 DEF MsgRestore, CallEnds, InCall, Cancelled
<1>13. ASSUME NEW x \in Timer, TimerFires(x)
       PROVE  DataOK'
  BY <1>13 DEF TimerFires
<1>14. ASSUME NEW x \in Timer, TimerClears(x)
       PROVE  DataOK'
  BY <1>14 DEF TimerClears
<1>15. ASSUME NEW x \in Timer, TimerRestores(x)
       PROVE  DataOK'
  BY <1>15 DEF TimerRestores
<1>16. CASE DeadlinePasses
  BY <1>16 DEF DeadlinePasses
<1>17. CASE ConnectCall
  BY <1>17 DEF ConnectCall
<1>18. CASE CloseCall
  BY <1>18 DEF CloseCall
<1>19. CASE Scan
  BY <1>19 DEF Scan
<1>20. CASE DecideReady
  BY <1>20 DEF DecideReady
<1>21. CASE DecideNext
  BY <1>21 DEF DecideNext
<1>22. CASE NextIndex
  BY <1>22 DEF NextIndex
<1>23. CASE CloseCancels
  BY <1>23 DEF CloseCancels, Cancelled
<1>24. CASE JoinReturns
  BY <1>24 DEF JoinReturns
<1>25. CASE JoinExpires
  BY <1>25 DEF JoinExpires
<1>26. CASE CloseDrops
  BY <1>26 DEF CloseDrops
<1>27. CASE Closes
  BY <1>27 DEF Closes, Forget
<1>28. CASE TriggerOnPump
  BY <1>28 DEF TriggerOnPump, Trigger, Held
<1>29. CASE TriggerDirect
  BY <1>29 DEF TriggerDirect, Trigger, Held
<1>30. CASE SubscribeSimStart
  BY <1>30 DEF SubscribeSimStart, Held
<1>31. CASE SetSimFlag
  BY <1>31 DEF SetSimFlag
<1>32. CASE PumpStarts
  BY <1>32 DEF PumpStarts
<1>33. CASE PumpExits
  BY <1>33 DEF PumpExits
<1>34. CASE PumpDispatches
  BY <1>34 DEF PumpDispatches
<1>35. CASE PumpReconnects
  BY <1>35 DEF PumpReconnects
<1>36. CASE SimQuits
  BY <1>36 DEF SimQuits
<1>37. CASE UNCHANGED vars
  BY <1>37 DEF vars
<1> QED
  BY <1>1, <1>2, <1>3, <1>4, <1>5, <1>6, <1>7, <1>8, <1>9, <1>10, <1>11,
     <1>12, <1>13, <1>14, <1>15, <1>16, <1>17, <1>18, <1>19, <1>20, <1>21,
     <1>22, <1>23, <1>24, <1>25, <1>26, <1>27, <1>28, <1>29, <1>30, <1>31,
     <1>32, <1>33, <1>34, <1>35, <1>36, <1>37, NextCases

LEMMA BaseInit == Init => BaseInv
<1> SUFFICES ASSUME Init
             PROVE  BaseInv
  OBVIOUS
<1>1. Held /\ Fresh /\ Closing
  BY DEF Init, Held, Fresh, Closing, Thread
<1> QED
  BY <1>1, TypeInit DEF BaseInv

LEMMA BaseStep == BaseInv /\ [Next]_vars => BaseInv'
<1> SUFFICES ASSUME BaseInv, Next \/ UNCHANGED vars
             PROVE  BaseInv'
  OBVIOUS
<1>t. TypeOK'
  BY FlagsStep, DataStep DEF BaseInv, TypeOK
<1>d. DataOK /\ DataOK' /\ Held /\ Fresh /\ Closing
  BY <1>t DEF BaseInv, TypeOK
<1> SUFFICES Held' /\ Fresh' /\ Closing'
  BY <1>t DEF BaseInv
<1> DEFINE G == Held' /\ Fresh' /\ Closing'
<1> USE <1>d, NoneAssumption
        DEF DataOK, Held, Fresh, Closing, Thread, Goto, client, sets, sim,
            timers, app, AppPC, PumpPC
<1>1. ASSUME NEW t \in Thread, OpenAborts(t)
      PROVE  G
  BY <1>1 DEF OpenAborts
<1>2. ASSUME NEW t \in Thread, OpenFails(t)
      PROVE  G
  BY <1>2 DEF OpenFails
<1>3. ASSUME NEW t \in Thread, OpenReturns(t)
      PROVE  G
  BY <1>3 DEF OpenReturns
<1>4. ASSUME NEW t \in Thread, OpenStores(t)
      PROVE  G
  BY <1>4 DEF OpenStores
<1>5. ASSUME NEW t \in Thread, OpenResets(t)
      PROVE  G
  BY <1>5 DEF OpenResets
<1>6. ASSUME NEW t \in Thread, OpenSubscribes(t)
      PROVE  G
  BY <1>6 DEF OpenSubscribes
<1>7. ASSUME NEW t \in Thread, WaitEnds(t)
      PROVE  G
  BY <1>7 DEF WaitEnds
<1>8. ASSUME NEW t \in Thread, WaitDispatches(t)
      PROVE  G
  BY <1>8 DEF WaitDispatches
<1>9. ASSUME NEW t \in Thread, NoMessage(t)
      PROVE  G
  BY <1>9 DEF NoMessage, CallEnds, InCall
<1>10. ASSUME NEW t \in Thread, MsgOpen(t)
       PROVE  G
  BY <1>10 DEF MsgOpen, CallEnds, InCall
<1>11. ASSUME NEW t \in Thread, MsgQuit(t)
       PROVE  G
  BY <1>11 DEF MsgQuit, CallEnds, InCall, Forget
<1>12. ASSUME NEW t \in Thread, MsgRestore(t)
       PROVE  G
  BY <1>12 DEF MsgRestore, CallEnds, InCall, Cancelled
<1>13. ASSUME NEW x \in Timer, TimerFires(x)
       PROVE  G
  BY <1>13 DEF TimerFires
<1>14. ASSUME NEW x \in Timer, TimerClears(x)
       PROVE  G
  BY <1>14 DEF TimerClears
<1>15. ASSUME NEW x \in Timer, TimerRestores(x)
       PROVE  G
  BY <1>15 DEF TimerRestores
<1>16. CASE DeadlinePasses
  BY <1>16 DEF DeadlinePasses
<1>17. CASE ConnectCall
  BY <1>17 DEF ConnectCall
<1>18. CASE CloseCall
  BY <1>18 DEF CloseCall
<1>19. CASE Scan
  BY <1>19 DEF Scan
<1>20. CASE DecideReady
  BY <1>20 DEF DecideReady
<1>21. CASE DecideNext
  BY <1>21 DEF DecideNext
<1>22. CASE NextIndex
  BY <1>22 DEF NextIndex
<1>23. CASE CloseCancels
  BY <1>23 DEF CloseCancels, Cancelled
<1>24. CASE JoinReturns
  BY <1>24 DEF JoinReturns
<1>25. CASE JoinExpires
  BY <1>25 DEF JoinExpires
<1>26. CASE CloseDrops
  BY <1>26 DEF CloseDrops
<1>27. CASE Closes
  BY <1>27 DEF Closes, Forget
<1>28. CASE TriggerOnPump
  BY <1>28 DEF TriggerOnPump, Trigger
<1>29. CASE TriggerDirect
  BY <1>29 DEF TriggerDirect, Trigger
<1>30. CASE SubscribeSimStart
  BY <1>30 DEF SubscribeSimStart
<1>31. CASE SetSimFlag
  BY <1>31 DEF SetSimFlag
<1>32. CASE PumpStarts
  BY <1>32 DEF PumpStarts
<1>33. CASE PumpExits
  BY <1>33 DEF PumpExits
<1>34. CASE PumpDispatches
  BY <1>34 DEF PumpDispatches
<1>35. CASE PumpReconnects
  BY <1>35 DEF PumpReconnects
<1>36. CASE SimQuits
  BY <1>36 DEF SimQuits
<1>37. CASE UNCHANGED vars
  BY <1>37 DEF vars
<1> QED
  BY <1>1, <1>2, <1>3, <1>4, <1>5, <1>6, <1>7, <1>8, <1>9, <1>10, <1>11,
     <1>12, <1>13, <1>14, <1>15, <1>16, <1>17, <1>18, <1>19, <1>20, <1>21,
     <1>22, <1>23, <1>24, <1>25, <1>26, <1>27, <1>28, <1>29, <1>30, <1>31,
     <1>32, <1>33, <1>34, <1>35, <1>36, <1>37, NextCases

-----------------------------------------------------------------------------

LEMMA RestoreStep == BaseInv /\ RestoreNotLost /\ [Next]_vars => RestoreNotLost'
<1> SUFFICES ASSUME BaseInv, RestoreNotLost, Next \/ UNCHANGED vars
             PROVE  RestoreNotLost'
  OBVIOUS
<1>d. DataOK
  BY DEF BaseInv, TypeOK
<1> USE <1>d
        DEF DataOK, RestoreNotLost, Thread, Goto, client, timers, app, AppPC, PumpPC
<1>1. ASSUME NEW t \in Thread, OpenAborts(t)
      PROVE  RestoreNotLost'
  BY <1>1 DEF OpenAborts
<1>2. ASSUME NEW t \in Thread, OpenFails(t)
      PROVE  RestoreNotLost'
  BY <1>2 DEF OpenFails
<1>3. ASSUME NEW t \in Thread, OpenReturns(t)
      PROVE  RestoreNotLost'
  BY <1>3 DEF OpenReturns
<1>4. ASSUME NEW t \in Thread, OpenStores(t)
      PROVE  RestoreNotLost'
  BY <1>4 DEF OpenStores
<1>5. ASSUME NEW t \in Thread, OpenResets(t)
      PROVE  RestoreNotLost'
  BY <1>5 DEF OpenResets
<1>6. ASSUME NEW t \in Thread, OpenSubscribes(t)
      PROVE  RestoreNotLost'
  BY <1>6 DEF OpenSubscribes
<1>7. ASSUME NEW t \in Thread, WaitEnds(t)
      PROVE  RestoreNotLost'
  BY <1>7 DEF WaitEnds
<1>8. ASSUME NEW t \in Thread, WaitDispatches(t)
      PROVE  RestoreNotLost'
  BY <1>8 DEF WaitDispatches
<1>9. ASSUME NEW t \in Thread, NoMessage(t)
      PROVE  RestoreNotLost'
  BY <1>9 DEF NoMessage, CallEnds, InCall
<1>10. ASSUME NEW t \in Thread, MsgOpen(t)
       PROVE  RestoreNotLost'
  BY <1>10 DEF MsgOpen, CallEnds, InCall
<1>11. ASSUME NEW t \in Thread, MsgQuit(t)
       PROVE  RestoreNotLost'
  BY <1>11 DEF MsgQuit, CallEnds, InCall, Forget
<1>12. ASSUME NEW t \in Thread, MsgRestore(t)
       PROVE  RestoreNotLost'
  BY <1>12 DEF MsgRestore, CallEnds, InCall, Cancelled
<1>13. ASSUME NEW x \in Timer, TimerFires(x)
       PROVE  RestoreNotLost'
  BY <1>13 DEF TimerFires
<1>14. ASSUME NEW x \in Timer, TimerClears(x)
       PROVE  RestoreNotLost'
  BY <1>14 DEF TimerClears
<1>15. ASSUME NEW x \in Timer, TimerRestores(x)
       PROVE  RestoreNotLost'
  BY <1>15 DEF TimerRestores
<1>16. CASE DeadlinePasses
  BY <1>16 DEF DeadlinePasses
<1>17. CASE ConnectCall
  BY <1>17 DEF ConnectCall
<1>18. CASE CloseCall
  BY <1>18 DEF CloseCall
<1>19. CASE Scan
  BY <1>19 DEF Scan
<1>20. CASE DecideReady
  BY <1>20 DEF DecideReady
<1>21. CASE DecideNext
  BY <1>21 DEF DecideNext
<1>22. CASE NextIndex
  BY <1>22 DEF NextIndex
<1>23. CASE CloseCancels
  BY <1>23 DEF CloseCancels, Cancelled
<1>24. CASE JoinReturns
  BY <1>24 DEF JoinReturns
<1>25. CASE JoinExpires
  BY <1>25 DEF JoinExpires
<1>26. CASE CloseDrops
  BY <1>26 DEF CloseDrops
<1>27. CASE Closes
  BY <1>27 DEF Closes, Forget
<1>28. CASE TriggerOnPump
  BY <1>28 DEF TriggerOnPump, Trigger
<1>29. CASE TriggerDirect
  BY <1>29 DEF TriggerDirect, Trigger
<1>30. CASE SubscribeSimStart
  BY <1>30 DEF SubscribeSimStart
<1>31. CASE SetSimFlag
  BY <1>31 DEF SetSimFlag
<1>32. CASE PumpStarts
  BY <1>32 DEF PumpStarts
<1>33. CASE PumpExits
  BY <1>33 DEF PumpExits
<1>34. CASE PumpDispatches
  BY <1>34 DEF PumpDispatches
<1>35. CASE PumpReconnects
  BY <1>35 DEF PumpReconnects
<1>36. CASE SimQuits
  BY <1>36 DEF SimQuits
<1>37. CASE UNCHANGED vars
  BY <1>37 DEF vars
<1> QED
  BY <1>1, <1>2, <1>3, <1>4, <1>5, <1>6, <1>7, <1>8, <1>9, <1>10, <1>11,
     <1>12, <1>13, <1>14, <1>15, <1>16, <1>17, <1>18, <1>19, <1>20, <1>21,
     <1>22, <1>23, <1>24, <1>25, <1>26, <1>27, <1>28, <1>29, <1>30, <1>31,
     <1>32, <1>33, <1>34, <1>35, <1>36, <1>37, NextCases

\* However timers are cancelled, fired and replaced, a restore that a message
\* asked for has a timer until it happens or the session ends
\* (subscribe.py:482).
THEOREM RestoreIsNotLost == Spec => []RestoreNotLost
<1>1. Init => BaseInv /\ RestoreNotLost
  BY BaseInit DEF Init, RestoreNotLost
<1>2. (BaseInv /\ RestoreNotLost) /\ [Next]_vars => (BaseInv /\ RestoreNotLost)'
  BY BaseStep, RestoreStep
<1> QED
  BY <1>1, <1>2, PTL DEF Spec

LEMMA TransStep == BaseInv /\ TransInv /\ [Next]_vars => TransInv'
<1> SUFFICES ASSUME BaseInv, TransInv, Next \/ UNCHANGED vars
             PROVE  TransInv'
  OBVIOUS
<1>d. DataOK /\ Held /\ Fresh /\ Closing
  BY DEF BaseInv, TypeOK
<1> USE <1>d, NoneAssumption
        DEF DataOK, Held, Fresh, Closing, TransInv, TransmitsMapped, Thread, Goto,
            client, sets, sim, timers, app
<1>1. ASSUME NEW t \in Thread, OpenAborts(t)
      PROVE  TransInv'
  BY <1>1 DEF OpenAborts
<1>2. ASSUME NEW t \in Thread, OpenFails(t)
      PROVE  TransInv'
  BY <1>2 DEF OpenFails
<1>3. ASSUME NEW t \in Thread, OpenReturns(t)
      PROVE  TransInv'
  BY <1>3 DEF OpenReturns
<1>4. ASSUME NEW t \in Thread, OpenStores(t)
      PROVE  TransInv'
  BY <1>4 DEF OpenStores
<1>5. ASSUME NEW t \in Thread, OpenResets(t)
      PROVE  TransInv'
  BY <1>5 DEF OpenResets
<1>6. ASSUME NEW t \in Thread, OpenSubscribes(t)
      PROVE  TransInv'
  BY <1>6 DEF OpenSubscribes
<1>7. ASSUME NEW t \in Thread, WaitEnds(t)
      PROVE  TransInv'
  BY <1>7 DEF WaitEnds
<1>8. ASSUME NEW t \in Thread, WaitDispatches(t)
      PROVE  TransInv'
  BY <1>8 DEF WaitDispatches
<1>9. ASSUME NEW t \in Thread, NoMessage(t)
      PROVE  TransInv'
  BY <1>9 DEF NoMessage, CallEnds, InCall
<1>10. ASSUME NEW t \in Thread, MsgOpen(t)
       PROVE  TransInv'
  BY <1>10 DEF MsgOpen, CallEnds, InCall
<1>11. ASSUME NEW t \in Thread, MsgQuit(t)
       PROVE  TransInv'
  BY <1>11 DEF MsgQuit, CallEnds, InCall, Forget
<1>12. ASSUME NEW t \in Thread, MsgRestore(t)
       PROVE  TransInv'
  BY <1>12 DEF MsgRestore, CallEnds, InCall, Cancelled
<1>13. ASSUME NEW x \in Timer, TimerFires(x)
       PROVE  TransInv'
  BY <1>13 DEF TimerFires
<1>14. ASSUME NEW x \in Timer, TimerClears(x)
       PROVE  TransInv'
  BY <1>14 DEF TimerClears
<1>15. ASSUME NEW x \in Timer, TimerRestores(x)
       PROVE  TransInv'
  BY <1>15 DEF TimerRestores
<1>16. CASE DeadlinePasses
  BY <1>16 DEF DeadlinePasses
<1>17. CASE ConnectCall
  BY <1>17 DEF ConnectCall
<1>18. CASE CloseCall
  BY <1>18 DEF CloseCall
<1>19. CASE Scan
  BY <1>19 DEF Scan
<1>20. CASE DecideReady
  BY <1>20 DEF DecideReady
<1>21. CASE DecideNext
  BY <1>21 DEF DecideNext
<1>22. CASE NextIndex
  BY <1>22 DEF NextIndex
<1>23. CASE CloseCancels
  BY <1>23 DEF CloseCancels, Cancelled
<1>24. CASE JoinReturns
  BY <1>24 DEF JoinReturns
<1>25. CASE JoinExpires
  BY <1>25 DEF JoinExpires
<1>26. CASE CloseDrops
  BY <1>26 DEF CloseDrops
<1>27. CASE Closes
  BY <1>27 DEF Closes, Forget
<1>28. CASE TriggerOnPump
  BY <1>28 DEF TriggerOnPump, Trigger
<1>29. CASE TriggerDirect
  BY <1>29 DEF TriggerDirect, Trigger
<1>30. CASE SubscribeSimStart
  BY <1>30 DEF SubscribeSimStart
<1>31. CASE SetSimFlag
  BY <1>31 DEF SetSimFlag
<1>32. CASE PumpStarts
  BY <1>32 DEF PumpStarts
<1>33. CASE PumpExits
  BY <1>33 DEF PumpExits
<1>34. CASE PumpDispatches
  BY <1>34 DEF PumpDispatches
<1>35. CASE PumpReconnects
  BY <1>35 DEF PumpReconnects
<1>36. CASE SimQuits
  BY <1>36 DEF SimQuits
<1>37. CASE UNCHANGED vars
  BY <1>37 DEF vars
<1> QED
  BY <1>1, <1>2, <1>3, <1>4, <1>5, <1>6, <1>7, <1>8, <1>9, <1>10, <1>11,
     <1>12, <1>13, <1>14, <1>15, <1>16, <1>17, <1>18, <1>19, <1>20, <1>21,
     <1>22, <1>23, <1>24, <1>25, <1>26, <1>27, <1>28, <1>29, <1>30, <1>31,
     <1>32, <1>33, <1>34, <1>35, <1>36, <1>37, NextCases

\* No event is sent in a welcomed session before it was mapped in that very
\* session, whatever opens, quits, closes and restores come in between
\* (client.py:627, write_queue.py:337).
THEOREM EventsAreMapped == Spec => []TransmitsMapped
<1>1. Init => BaseInv /\ TransInv
  BY BaseInit DEF Init, TransInv, TransmitsMapped
<1>2. (BaseInv /\ TransInv) /\ [Next]_vars => (BaseInv /\ TransInv)'
  BY BaseStep, TransStep
<1> QED
  BY <1>1, <1>2, PTL DEF Spec, TransInv

LEMMA OwnInit == Init => OwnInv
<1> SUFFICES ASSUME Init
             PROVE  OwnInv
  OBVIOUS
<1>1. AfterInv /\ OneCall
  BY DEF Init, AfterInv, OneCall, InCall, Thread
<1>2. Alone /\ Handles
  BY DEF Init, Alone, Handles, InCall, Thread
<1>3. FlagsOfSession
  BY DEF Init, FlagsOfSession
<1> QED
  BY <1>1, <1>2, <1>3 DEF OwnInv

LEMMA OwnStep == OneOpener /\ BaseInv /\ OwnInv /\ [Next]_vars => OwnInv'
<1> SUFFICES ASSUME OneOpener, BaseInv, OwnInv, Next \/ UNCHANGED vars
             PROVE  OwnInv'
  OBVIOUS
<1>d. DataOK /\ Held /\ Fresh /\ Closing
  BY DEF BaseInv, TypeOK
<1> USE <1>d, NoneAssumption
        DEF DataOK, Held, Fresh, Closing, OwnInv, AfterInv, OneCall, Alone, Handles,
            FlagsOfSession, InCall, Thread, Goto, client, sets, sim, timers, app,
            AppPC, PumpPC
<1>1. ASSUME NEW t \in Thread, OpenAborts(t)
      PROVE  OwnInv'
  BY <1>1 DEF OpenAborts
<1>2. ASSUME NEW t \in Thread, OpenFails(t)
      PROVE  OwnInv'
  BY <1>2 DEF OpenFails
<1>3. ASSUME NEW t \in Thread, OpenReturns(t)
      PROVE  OwnInv'
  BY <1>3 DEF OpenReturns
<1>4. ASSUME NEW t \in Thread, OpenStores(t)
      PROVE  OwnInv'
  BY <1>4 DEF OpenStores
<1>5. ASSUME NEW t \in Thread, OpenResets(t)
      PROVE  OwnInv'
  BY <1>5 DEF OpenResets
<1>6. ASSUME NEW t \in Thread, OpenSubscribes(t)
      PROVE  OwnInv'
  BY <1>6 DEF OpenSubscribes
<1>7. ASSUME NEW t \in Thread, WaitEnds(t)
      PROVE  OwnInv'
  BY <1>7 DEF WaitEnds
<1>8. ASSUME NEW t \in Thread, WaitDispatches(t)
      PROVE  OwnInv'
  BY <1>8 DEF WaitDispatches
<1>9. ASSUME NEW t \in Thread, NoMessage(t)
      PROVE  OwnInv'
  BY <1>9 DEF NoMessage, CallEnds, InCall
<1>10. ASSUME NEW t \in Thread, MsgOpen(t)
       PROVE  OwnInv'
  BY <1>10 DEF MsgOpen, CallEnds, InCall
<1>11. ASSUME NEW t \in Thread, MsgQuit(t)
       PROVE  OwnInv'
  BY <1>11 DEF MsgQuit, CallEnds, InCall, Forget
<1>12. ASSUME NEW t \in Thread, MsgRestore(t)
       PROVE  OwnInv'
  BY <1>12 DEF MsgRestore, CallEnds, InCall, Cancelled
<1>13. ASSUME NEW x \in Timer, TimerFires(x)
       PROVE  OwnInv'
  BY <1>13 DEF TimerFires
<1>14. ASSUME NEW x \in Timer, TimerClears(x)
       PROVE  OwnInv'
  BY <1>14 DEF TimerClears
<1>15. ASSUME NEW x \in Timer, TimerRestores(x)
       PROVE  OwnInv'
  BY <1>15 DEF TimerRestores
<1>16. CASE DeadlinePasses
  BY <1>16 DEF DeadlinePasses
<1>17. CASE ConnectCall
  BY <1>17 DEF ConnectCall
<1>18. CASE CloseCall
  BY <1>18 DEF CloseCall
<1>19. CASE Scan
  BY <1>19 DEF Scan
<1>20. CASE DecideReady
  BY <1>20 DEF DecideReady
<1>21. CASE DecideNext
  BY <1>21 DEF DecideNext
<1>22. CASE NextIndex
  BY <1>22 DEF NextIndex
<1>23. CASE CloseCancels
  BY <1>23 DEF CloseCancels, Cancelled
<1>24. CASE JoinReturns
  BY <1>24 DEF JoinReturns
<1>25. CASE JoinExpires
  BY <1>25 DEF JoinExpires
<1>26. CASE CloseDrops
  BY <1>26 DEF CloseDrops
<1>27. CASE Closes
  BY <1>27 DEF Closes, Forget
<1>28. CASE TriggerOnPump
  BY <1>28 DEF TriggerOnPump, Trigger
<1>29. CASE TriggerDirect
  BY <1>29 DEF TriggerDirect, Trigger
<1>30. CASE SubscribeSimStart
  BY <1>30 DEF SubscribeSimStart
<1>31. CASE SetSimFlag
  BY <1>31 DEF SetSimFlag
<1>32. CASE PumpStarts
  BY <1>32 DEF PumpStarts
<1>33. CASE PumpExits
  BY <1>33 DEF PumpExits
<1>34. CASE PumpDispatches
  BY <1>34 DEF PumpDispatches
<1>35. CASE PumpReconnects
  BY <1>35 DEF PumpReconnects
<1>36. CASE SimQuits
  BY <1>36 DEF SimQuits
<1>37. CASE UNCHANGED vars
  BY <1>37 DEF vars
<1> QED
  BY <1>1, <1>2, <1>3, <1>4, <1>5, <1>6, <1>7, <1>8, <1>9, <1>10, <1>11,
     <1>12, <1>13, <1>14, <1>15, <1>16, <1>17, <1>18, <1>19, <1>20, <1>21,
     <1>22, <1>23, <1>24, <1>25, <1>26, <1>27, <1>28, <1>29, <1>30, <1>31,
     <1>32, <1>33, <1>34, <1>35, <1>36, <1>37, NextCases

\* If the application connects only while no pump runs: the two flags other
\* calls trust always speak of the session the handle belongs to, unless
\* native hung (client.py:390, client.py:577).
THEOREM FlagsSpeakOfTheSession ==
    ASSUME OneOpener
    PROVE  Spec => []FlagsOfSession
<1>1. Init => BaseInv /\ OwnInv
  BY BaseInit, OwnInit
<1>2. (BaseInv /\ OwnInv) /\ [Next]_vars => (BaseInv /\ OwnInv)'
  BY BaseStep, OwnStep
<1>3. OwnInv => FlagsOfSession
  BY DEF OwnInv, FlagsOfSession
<1> QED
  BY <1>1, <1>2, <1>3, PTL DEF Spec

\* Under the same condition no session the simulator holds open is lost; and no
\* thread is in CallDispatch with a handle that was closed (client.py:536).
THEOREM SessionsAreAccounted ==
    ASSUME OneOpener
    PROVE  Spec => []SessionsAccounted
<1>1. Init => BaseInv /\ OwnInv
  BY BaseInit, OwnInit
<1>2. (BaseInv /\ OwnInv) /\ [Next]_vars => (BaseInv /\ OwnInv)'
  BY BaseStep, OwnStep
<1>3. OwnInv => SessionsAccounted
  BY DEF OwnInv, OneCall, Handles, SessionsAccounted
<1> QED
  BY <1>1, <1>2, <1>3, PTL DEF Spec

\* The type of every variable.
THEOREM TypeCorrect == Spec => []TypeOK
<1>1. BaseInv => TypeOK
  BY DEF BaseInv
<1> QED
  BY <1>1, BaseInit, BaseStep, PTL DEF Spec

-----------------------------------------------------------------------------
(* The dispatch thread of Session implements PumpContract.                 *)

\* Every step of every thread is one step of the pump contract, or none.
LEMMA PumpRefines ==
  ASSUME DataOK, Next \/ UNCHANGED vars
  PROVE  [PumpPart!Next]_<<IF pc["pump"] = "off" THEN {} ELSE {"pump"},
                           Told, hung>>
<1> USE DEF Thread, Goto, Told, client, sim, app, DataOK
<1>1. ASSUME NEW t \in Thread, OpenAborts(t)
      PROVE  PumpPart!Hang \/ PumpPart!Exit
             \/ UNCHANGED <<running, hung, pc["pump"]>>
  BY <1>1 DEF OpenAborts, PumpPart!Hang, PumpPart!Exit, PumpPart!Ends
<1>2. CASE DecideReady \/ PumpStarts
  <2>1. CASE pc["pump"] = "off" /\ ~running /\ ~hung
    <3>1. PumpPart!Start
      BY <1>2, <2>1 DEF DecideReady, PumpStarts, PumpPart!Start
    <3> QED
      BY <3>1 DEF PumpPart!Next
  <2>2. CASE ~(pc["pump"] = "off" /\ ~running /\ ~hung)
    BY <1>2, <2>2 DEF DecideReady, PumpStarts
  <2> QED
    BY <2>1, <2>2
<1>3. CASE CloseCancels
  <2>1. CASE pc["pump"] # "off"
    <3>1. PumpPart!Tell
      BY <1>3, <2>1 DEF CloseCancels, PumpPart!Tell
    <3> QED
      BY <3>1 DEF PumpPart!Next
  <2>2. CASE pc["pump"] = "off"
    BY <1>3, <2>2 DEF CloseCancels
  <2> QED
    BY <2>1, <2>2
<1>4. CASE JoinExpires
  <2>1. PumpPart!Hang
    BY <1>4 DEF JoinExpires, PumpPart!Hang
  <2> QED
    BY <2>1 DEF PumpPart!Next
<1>5. CASE PumpExits
  <2>1. PumpPart!Exit
    BY <1>5 DEF PumpExits, PumpPart!Exit, PumpPart!Ends
  <2> QED
    BY <2>1 DEF PumpPart!Next
<1>6. CASE PumpReconnects
  <2>1. CASE hung
    <3>1. PumpPart!Exit
      BY <1>6, <2>1 DEF PumpReconnects, PumpPart!Exit, PumpPart!Ends
    <3> QED
      BY <3>1 DEF PumpPart!Next
  <2>2. CASE ~hung
    BY <1>6, <2>2 DEF PumpReconnects
  <2> QED
    BY <2>1, <2>2
<1>7. CASE /\ UNCHANGED <<running, hung>>
           /\ pc'["pump"] = "off" <=> pc["pump"] = "off"
  BY <1>7
<1> QED
  <2>1. ASSUME NEW t \in Thread,
               \/ OpenFails(t) \/ OpenReturns(t) \/ OpenStores(t)
               \/ OpenResets(t) \/ OpenSubscribes(t) \/ WaitEnds(t)
               \/ WaitDispatches(t) \/ Call(t)
        PROVE  /\ UNCHANGED <<running, hung>>
               /\ pc'["pump"] = "off" <=> pc["pump"] = "off"
    BY <2>1 DEF OpenFails, OpenReturns, OpenStores, OpenResets, OpenSubscribes,
                WaitEnds, WaitDispatches, Call, NoMessage, MsgOpen, MsgQuit,
                MsgRestore, CallEnds, InCall
  <2>2. ASSUME \/ DeadlinePasses \/ \E x \in Timer : TimerStep(x)
               \/ ConnectCall \/ CloseCall \/ Scan \/ DecideNext \/ NextIndex
               \/ JoinReturns \/ CloseDrops \/ Closes
               \/ TriggerOnPump \/ TriggerDirect \/ SubscribeSimStart
               \/ SetSimFlag \/ PumpDispatches \/ SimQuits \/ UNCHANGED vars
        PROVE  /\ UNCHANGED <<running, hung>>
               /\ pc'["pump"] = "off" <=> pc["pump"] = "off"
    BY <2>2
       DEF DeadlinePasses, TimerStep, TimerFires, TimerClears, TimerRestores,
           ConnectCall, CloseCall, Scan, DecideNext, NextIndex, JoinReturns,
           CloseDrops, Closes, TriggerOnPump, TriggerDirect, Trigger,
           SubscribeSimStart, SetSimFlag, PumpDispatches, SimQuits, vars
  <2>3. CASE \E t \in Thread : OpenAborts(t)
    BY <1>1, <2>3, <1>7 DEF PumpPart!Next
  <2> QED
    BY <2>1, <2>2, <2>3, <1>2, <1>3, <1>4, <1>5, <1>6, <1>7
       DEF Next, Opening, App, Pump

\* The dispatch thread of this module, whose start and stop are single steps,
\* implements PumpContract (client.py start_background_dispatch,
\* stop_background_dispatch, _dispatch_loop): what is shown here of the
\* sessions rests on no more than PumpLifecycle delivers.
THEOREM PumpKeepsContract == Spec => ImplementsPump
<1>1. Init => PumpPart!Init
  BY DEF Init, PumpPart!Init, Told, Thread
<1>2. DataOK /\ [Next]_vars
        => [PumpPart!Next]_<<IF pc["pump"] = "off" THEN {} ELSE {"pump"},
                             Told, hung>>
  BY PumpRefines
<1>3. TypeOK => DataOK
  BY DEF TypeOK
<1> QED
  BY <1>1, <1>2, <1>3, TypeCorrect, PTL
     DEF Spec, ImplementsPump, PumpPart!Spec
=============================================================================
