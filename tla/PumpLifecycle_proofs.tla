------------------------ MODULE PumpLifecycle_proofs ------------------------
(***************************************************************************)
(* Proofs about PumpLifecycle: one dispatch thread at most, in the two     *)
(* disciplines of use under which the code keeps that promise.  With two   *)
(* threads in start_background_dispatch it does not: see the README.       *)
(***************************************************************************)
EXTENDS PumpLifecycle, TLAPS

NoneLive == \A p \in Pump : ~Live(p)

\* Past the zombie check, and once a join has returned, no pump is alive; the
\* thread being joined is the one the client knows.
StartStopInv ==
    /\ PumpKnown
    /\ \A c \in Caller :
         /\ pc[c] \in {"startClear", "startFlag", "startNew", "startGo",
                       "stopForget"} => NoneLive
         /\ pc[c] = "startZombie" => ~running
         /\ pc[c] = "stopJoin" => target[c] = thread

\* A thread that is known is the only one.
LEMMA KnownIsSingle == PumpKnown => SinglePump
  BY DEF PumpKnown, SinglePump

\* A step of a dispatch thread brings no dead thread to life and leaves the
\* callers and the attributes they read alone.
LEMMA PumpStepQuiet ==
  ASSUME DataOK, NEW p \in Pump, PumpStep(p) \/ ZombieReturns(p)
  PROVE  /\ \A q \in Pump : Live(q)' => Live(q)
         /\ UNCHANGED <<running, thread, lock, pc, call, target, paused>>
<1>1. CASE LoopTest(p)
  BY <1>1 DEF DataOK, LoopTest, PumpGoto, Live, LiveState
<1>2. CASE \/ DispatchReturns(p) \/ DispatchBlocks(p) \/ ReopenReturns(p)
           \/ ReopenBlocks(p) \/ PumpedUntilOpen(p) \/ ZombieReturns(p)
  BY <1>2 DEF DataOK, DispatchReturns, DispatchBlocks, ReopenReturns,
              ReopenBlocks, PumpedUntilOpen, ZombieReturns, PumpGoto, Live,
              LiveState
<1> QED
  BY <1>1, <1>2 DEF PumpStep

-----------------------------------------------------------------------------
(* Type correctness.                                                       *)

LEMMA NextCases ==
  ASSUME [Next]_vars
  PROVE  \/ \E c \in Caller :
               \/ Begin(c)
               \/ EnsureLock(c) \/ EnsureTest(c) \/ PauseRead(c)
               \/ PauseEnd(c) \/ Cooldown(c)
               \/ StartHung(c) \/ StartRunning(c) \/ StartZombie(c)
               \/ StartClear(c) \/ StartFlag(c) \/ StartNew(c) \/ StartGo(c)
               \/ StopFlag(c) \/ StopEvent(c) \/ StopRead(c)
               \/ JoinReturns(c) \/ JoinExpires(c) \/ StopForget(c)
         \/ \E p \in Pump : PumpStep(p) \/ ZombieReturns(p)
         \/ CooldownEnds
         \/ UNCHANGED vars
  BY Zenon DEF Next, Step

LEMMA InitTypeOK == Init => TypeOK
<1> SUFFICES ASSUME Init PROVE TypeOK
  OBVIOUS
<1>1. FlagsOK
  BY Zenon DEF Init, FlagsOK
<1>2. DataOK
  BY DEF Init, DataOK, PC, AllCalls
<1> QED
  BY <1>1, <1>2 DEF TypeOK

LEMMA NextTypeOK ==
  ASSUME TypeOK, [Next]_vars
  PROVE  TypeOK'
<1> USE DEF shared
<1>1. FlagsOK'
  <2> USE DEF TypeOK, FlagsOK
  <2>1. CASE \E c \in Caller :
               \/ Begin(c)
               \/ EnsureLock(c) \/ EnsureTest(c) \/ PauseRead(c)
               \/ PauseEnd(c) \/ Cooldown(c)
               \/ StartHung(c) \/ StartRunning(c) \/ StartZombie(c)
               \/ StartClear(c) \/ StartFlag(c) \/ StartNew(c) \/ StartGo(c)
               \/ StopFlag(c) \/ StopEvent(c) \/ StopRead(c)
               \/ JoinReturns(c) \/ JoinExpires(c) \/ StopForget(c)
    BY <2>1, Zenon DEF Begin, EnsureLock, EnsureTest, PauseRead, PauseEnd,
       Cooldown, StartHung, StartRunning, StartZombie, StartClear, StartFlag,
       StartNew, StartGo, StopFlag, StopEvent, StopRead, JoinReturns,
       JoinExpires, JoinGivesUp, PauseBody, StopForget
  <2>2. CASE \E p \in Pump : PumpStep(p) \/ ZombieReturns(p)
    BY <2>2, Zenon DEF PumpStep, LoopTest, DispatchReturns, DispatchBlocks,
       ReopenReturns, ReopenBlocks, PumpedUntilOpen, ZombieReturns, PumpGoto
  <2>3. CASE CooldownEnds \/ UNCHANGED vars
    BY <2>3, Zenon DEF CooldownEnds, vars
  <2> QED
    BY NextCases, <2>1, <2>2, <2>3
<1>2. DataOK'
  <2> USE DEF TypeOK, DataOK, PC, AllCalls, Goto, Return, PauseBody
  <2>1. ASSUME NEW c \in Caller, Begin(c) PROVE DataOK'
    BY <2>1, CallsAssumption DEF Begin
  <2>2. ASSUME NEW c \in Caller,
               \/ EnsureLock(c) \/ EnsureTest(c) \/ PauseRead(c)
               \/ PauseEnd(c) \/ Cooldown(c)
        PROVE  DataOK'
    BY <2>2 DEF EnsureLock, EnsureTest, PauseRead, PauseEnd, Cooldown
  <2>3. ASSUME NEW c \in Caller,
               \/ StartHung(c) \/ StartRunning(c) \/ StartZombie(c)
               \/ StartClear(c) \/ StartFlag(c)
        PROVE  DataOK'
    BY <2>3 DEF StartHung, StartRunning, StartZombie, StartClear, StartFlag
  <2>4. ASSUME NEW c \in Caller, StartNew(c) \/ StartGo(c)
        PROVE  DataOK'
    BY <2>4 DEF StartNew, StartGo, LiveState
  <2>5. ASSUME NEW c \in Caller,
               \/ StopFlag(c) \/ StopEvent(c) \/ StopRead(c)
               \/ JoinReturns(c)
        PROVE  DataOK'
    BY <2>5 DEF StopFlag, StopEvent, StopRead, JoinReturns
  <2>6. ASSUME NEW c \in Caller, JoinExpires(c) \/ StopForget(c)
        PROVE  DataOK'
    BY <2>6 DEF JoinExpires, JoinGivesUp, StopForget
  <2>7. ASSUME NEW p \in Pump, PumpStep(p) \/ ZombieReturns(p)
        PROVE  DataOK'
    BY <2>7 DEF PumpStep, LoopTest, DispatchReturns, DispatchBlocks,
       ReopenReturns, ReopenBlocks, PumpedUntilOpen, ZombieReturns, PumpGoto,
       LiveState
  <2>8. CASE CooldownEnds \/ UNCHANGED vars
    BY <2>8 DEF CooldownEnds, vars
  <2> QED
    BY NextCases, <2>1, <2>2, <2>3, <2>4, <2>5, <2>6, <2>7, <2>8
<1> QED
  BY <1>1, <1>2 DEF TypeOK

\* No call and no step of a dispatch thread takes an attribute out of its type.
THEOREM TypeCorrect == Spec => []TypeOK
<1>1. TypeOK /\ [Next]_vars => TypeOK'
  BY NextTypeOK
<1> QED
  BY <1>1, InitTypeOK, PTL DEF Spec

-----------------------------------------------------------------------------
(* The steps of a caller, and what they mean for the threads alive.        *)

\* Only start() creates a Thread and only its last step brings one to life.
LEMMA NoBirth ==
  ASSUME DataOK, NEW c \in Caller,
         \/ Begin(c)
         \/ EnsureLock(c) \/ EnsureTest(c) \/ PauseRead(c)
         \/ PauseEnd(c) \/ Cooldown(c)
         \/ StartHung(c) \/ StartRunning(c) \/ StartZombie(c)
         \/ StartClear(c) \/ StartFlag(c)
         \/ StopFlag(c) \/ StopEvent(c) \/ StopRead(c)
         \/ JoinReturns(c) \/ JoinExpires(c) \/ StopForget(c)
  PROVE  pump' = pump
  BY DEF Begin, EnsureLock, EnsureTest, PauseRead, PauseEnd, Cooldown,
     StartHung, StartRunning, StartZombie, StartClear, StartFlag, StopFlag,
     StopEvent, StopRead, JoinReturns, JoinExpires, JoinGivesUp, PauseBody,
     StopForget

\* A caller's step, taken while no other caller can interfere, keeps
\* StartStopInv's part about that caller and about the threads.
LEMMA CallerStep ==
  ASSUME DataOK, StartStopInv, NEW c \in Caller,
         Begin(c) \/ PauseEnd(c) \/ Step(c)
  PROVE  /\ PumpKnown'
         /\ pc'[c] \in {"startClear", "startFlag", "startNew", "startGo",
                        "stopForget"} => NoneLive'
         /\ pc'[c] = "startZombie" => ~running'
         /\ pc'[c] = "stopJoin" => target'[c] = thread'
         /\ \A d \in Caller \ {c} : /\ pc'[d] = pc[d]
                                    /\ target'[d] = target[d]
<1> USE DEF DataOK, Goto, Return, PauseBody, shared
<1>1. CASE Begin(c)
  <2>1. /\ pc'[c] \in {"startHung", "stopFlag", "ensureLock", "cooldown",
                       "pauseRead"}
        /\ UNCHANGED <<running, thread, pump, target>>
        /\ \A d \in Caller \ {c} : pc'[d] = pc[d]
    BY <1>1, CallsAssumption DEF Begin, AllCalls
  <2> QED
    BY <2>1 DEF StartStopInv, PumpKnown, Live
<1>2. CASE \/ EnsureLock(c) \/ EnsureTest(c) \/ PauseRead(c) \/ PauseEnd(c)
           \/ Cooldown(c) \/ StartHung(c)
  <2>1. /\ pc'[c] \notin {"startClear", "startFlag", "startNew", "startGo",
                          "stopForget", "startZombie", "stopJoin"}
        /\ UNCHANGED <<running, thread, pump, target>>
        /\ \A d \in Caller \ {c} : pc'[d] = pc[d]
    BY <1>2 DEF EnsureLock, EnsureTest, PauseRead, PauseEnd, Cooldown,
                StartHung
  <2> QED
    BY <2>1 DEF StartStopInv, PumpKnown, Live
<1>3. CASE StartRunning(c)
  <2>1. /\ pc'[c] \in {"idle", "startZombie"}
        /\ pc'[c] = "startZombie" => ~running'
        /\ UNCHANGED <<thread, pump, target>>
        /\ \A d \in Caller \ {c} : pc'[d] = pc[d]
    BY <1>3 DEF StartRunning
  <2> QED
    BY <2>1 DEF StartStopInv, PumpKnown, Live
<1>4. CASE StartZombie(c)
  <2>1. ~running
    BY <1>4 DEF StartZombie, StartStopInv
  <2>2. /\ pc'[c] \in {"idle", "startClear"}
        /\ pc'[c] = "startClear" => ~Live(thread)
        /\ UNCHANGED <<thread, pump, target>>
        /\ \A d \in Caller \ {c} : pc'[d] = pc[d]
    BY <1>4, <2>1 DEF StartZombie
  <2>3. ~Live(thread) => NoneLive
    BY DEF StartStopInv, PumpKnown, NoneLive
  <2> QED
    BY <2>2, <2>3 DEF StartStopInv, PumpKnown, Live, NoneLive
<1>5. CASE StartClear(c) \/ StartFlag(c)
  BY <1>5 DEF StartClear, StartFlag, StartStopInv, PumpKnown, Live, NoneLive
<1>6. CASE StartNew(c)
  <2>1. NoneLive /\ pc'[c] = "startGo"
    BY <1>6 DEF StartNew, StartStopInv
  <2>2. NoneLive'
    BY <1>6, <2>1 DEF StartNew, NoneLive, Live, LiveState
  <2> QED
    BY <1>6, <2>1, <2>2 DEF StartNew, PumpKnown, NoneLive
<1>7. CASE StartGo(c)
  <2>1. NoneLive
    BY <1>7 DEF StartGo, StartStopInv
  <2>2. /\ thread' = thread
        /\ \A p \in Pump : p # thread => pump'[p] = pump[p]
    BY <1>7 DEF StartGo
  <2>3. PumpKnown'
    BY <2>1, <2>2 DEF PumpKnown, NoneLive, Live
  <2> QED
    BY <1>7, <2>3 DEF StartGo
<1>8. CASE StopFlag(c) \/ StopEvent(c)
  BY <1>8 DEF StopFlag, StopEvent, StartStopInv, PumpKnown, Live
<1>9. CASE StopRead(c)
  <2>1. /\ pc'[c] \in {"stopJoin", "stopForget"}
        /\ pc'[c] = "stopForget" => ~Live(thread)
        /\ target'[c] = thread
        /\ UNCHANGED <<running, thread, pump>>
        /\ \A d \in Caller \ {c} : /\ pc'[d] = pc[d]
                                   /\ target'[d] = target[d]
    BY <1>9 DEF StopRead
  <2>2. ~Live(thread) => NoneLive
    BY DEF StartStopInv, PumpKnown, NoneLive
  <2> QED
    BY <2>1, <2>2 DEF StartStopInv, PumpKnown, Live, NoneLive
<1>10. CASE JoinReturns(c)
  <2>1. NoneLive
    BY <1>10 DEF JoinReturns, StartStopInv, PumpKnown, NoneLive
  <2> QED
    BY <1>10, <2>1 DEF JoinReturns, StartStopInv, PumpKnown, Live, NoneLive
<1>11. CASE JoinExpires(c)
  BY <1>11 DEF JoinExpires, JoinGivesUp, StartStopInv, PumpKnown, Live
<1>12. CASE StopForget(c)
  <2>1. NoneLive
    BY <1>12 DEF StopForget, StartStopInv
  <2>2. /\ pc'[c] \in {"idle", "startHung"}
        /\ UNCHANGED <<pump, target>>
        /\ \A d \in Caller \ {c} : pc'[d] = pc[d]
    BY <1>12 DEF StopForget
  <2> QED
    BY <2>1, <2>2 DEF PumpKnown, Live, NoneLive
<1> QED
  BY <1>1, <1>2, <1>3, <1>4, <1>5, <1>6, <1>7, <1>8, <1>9, <1>10, <1>11,
     <1>12 DEF Step

LEMMA InitStartStop == Init => StartStopInv
  BY DEF Init, StartStopInv, PumpKnown, Live, LiveState, NoneLive

\* Steps that are no caller's keep StartStopInv.
LEMMA OtherStep ==
  ASSUME DataOK, StartStopInv,
         \/ \E p \in Pump : PumpStep(p) \/ ZombieReturns(p)
         \/ CooldownEnds
         \/ UNCHANGED vars
  PROVE  StartStopInv'
<1>1. ASSUME NEW p \in Pump, PumpStep(p) \/ ZombieReturns(p)
      PROVE  StartStopInv'
  BY <1>1, PumpStepQuiet DEF StartStopInv, PumpKnown, NoneLive
<1>2. CASE CooldownEnds \/ UNCHANGED vars
  BY <1>2 DEF CooldownEnds, vars, shared, StartStopInv, PumpKnown, NoneLive,
              Live
<1> QED
  BY <1>1, <1>2

-----------------------------------------------------------------------------
(* One owner.                                                              *)

\* When one thread makes all the calls, whatever the calls are and however
\* CallDispatch and Open misbehave, no second dispatch thread ever runs.
THEOREM OneOwnerOnePump ==
  ASSUME \A c, d \in Caller : c = d
  PROVE  Spec => []SinglePump
<1>1. TypeOK /\ StartStopInv /\ [Next]_vars => StartStopInv'
  <2> SUFFICES ASSUME TypeOK, StartStopInv, [Next]_vars PROVE StartStopInv'
    OBVIOUS
  <2>1. ASSUME NEW c \in Caller, Begin(c) \/ PauseEnd(c) \/ Step(c)
        PROVE  StartStopInv'
    <3>1. \A d \in Caller : d = c
      OBVIOUS
    <3> QED
      BY <2>1, <3>1, CallerStep DEF TypeOK, StartStopInv
  <2>2. CASE \/ \E p \in Pump : PumpStep(p) \/ ZombieReturns(p)
             \/ CooldownEnds
             \/ UNCHANGED vars
    BY <2>2, OtherStep DEF TypeOK
  <2> QED
    BY <2>1, <2>2 DEF Next
<1>2. StartStopInv => SinglePump
  BY KnownIsSingle DEF StartStopInv
<1> QED
  BY <1>1, <1>2, InitStartStop, TypeCorrect, PTL DEF Spec

\* What one owner's position says about the two flags: they are never up
\* together, and a start raises one after it has lowered the other.
FlowInv(c) ==
    /\ running => ~stopEv
    /\ pc[c] \in {"startNew", "startGo"} => running
    /\ pc[c] = "startFlag" => ~stopEv
    /\ pc[c] \in {"startZombie", "startClear", "startFlag", "stopEvent",
                  "stopRead", "stopJoin", "stopForget"} => ~running

\* What it says about the threads: with the flag up the known one is alive,
\* with the flag down none is, but for the steps of a call that are between.
LiveInv(c) ==
    /\ ~hung /\ ~running /\ pc[c] \notin {"stopEvent", "stopRead", "stopJoin"}
         => NoneLive
    /\ running /\ ~hung /\ pc[c] \notin {"startNew", "startGo"}
         => Live(thread)
    /\ pc[c] = "startGo" => thread \in Pump /\ pump[thread] = "created"

\* What it says about a pause that has to resume.
ResumeInv(c) ==
    call[c] = "resumed" =>
        /\ pc[c] \in {"idle", "cooldown", "stopFlag", "stopEvent", "stopRead",
                      "stopJoin", "stopForget", "startHung", "startRunning",
                      "startZombie", "startClear", "startFlag", "startNew",
                      "startGo"}
        /\ pc[c] = "idle" => running \/ hung

LEMMA FlowStep ==
  ASSUME NEW c \in Caller, Caller = {c}, DataOK, FlowInv(c), [Next]_vars
  PROVE  FlowInv(c)'
<1> USE DEF DataOK, FlowInv, Goto, Return, PauseBody, shared
<1>1. CASE Begin(c)
  <2>1. /\ pc'[c] \in {"startHung", "stopFlag", "ensureLock", "cooldown",
                       "pauseRead"}
        /\ UNCHANGED <<running, stopEv>>
    BY <1>1, CallsAssumption DEF Begin, AllCalls
  <2> QED
    BY <2>1
<1>2. CASE \/ EnsureLock(c) \/ EnsureTest(c) \/ PauseRead(c) \/ PauseEnd(c)
           \/ Cooldown(c)
  BY <1>2 DEF EnsureLock, EnsureTest, PauseRead, PauseEnd, Cooldown
<1>3. CASE StartHung(c) \/ StartRunning(c) \/ StartZombie(c)
  BY <1>3 DEF StartHung, StartRunning, StartZombie
<1>4. CASE StartClear(c) \/ StartFlag(c) \/ StartNew(c) \/ StartGo(c)
  BY <1>4 DEF StartClear, StartFlag, StartNew, StartGo
<1>5. CASE \/ StopFlag(c) \/ StopEvent(c) \/ StopRead(c) \/ JoinReturns(c)
           \/ JoinExpires(c) \/ StopForget(c)
  BY <1>5 DEF StopFlag, StopEvent, StopRead, JoinReturns, JoinExpires,
              JoinGivesUp, StopForget
<1>6. CASE \/ \E p \in Pump : PumpStep(p) \/ ZombieReturns(p)
           \/ CooldownEnds \/ UNCHANGED vars
  BY <1>6 DEF PumpStep, LoopTest, DispatchReturns, DispatchBlocks,
     ReopenReturns, ReopenBlocks, PumpedUntilOpen, ZombieReturns, PumpGoto,
     CooldownEnds, vars
<1> QED
  BY <1>1, <1>2, <1>3, <1>4, <1>5, <1>6 DEF Next, Step

\* A dispatch thread ends by itself only when told to or when native hung.
LEMMA PumpStepKeepsLive ==
  ASSUME DataOK, running => ~stopEv, running,
         NEW p \in Pump, PumpStep(p) \/ ZombieReturns(p), ~hung'
  PROVE  ~hung /\ \A q \in Pump \cup {None} : Live(q) => Live(q)'
<1> USE DEF DataOK, PumpGoto, Live, LiveState
<1>1. CASE LoopTest(p)
  BY <1>1 DEF LoopTest
<1>2. CASE ReopenBlocks(p)
  BY <1>2 DEF ReopenBlocks
<1>3. CASE \/ DispatchReturns(p) \/ DispatchBlocks(p) \/ ReopenReturns(p)
           \/ PumpedUntilOpen(p) \/ ZombieReturns(p)
  <2>1. hung' = hung
    BY <1>3 DEF DispatchReturns, DispatchBlocks, ReopenReturns,
                PumpedUntilOpen, ZombieReturns
  <2>2. PICK to \in {"loop", "stuck", "opened"} :
           pump' = [pump EXCEPT ![p] = to]
    BY <1>3 DEF DispatchReturns, DispatchBlocks, ReopenReturns,
                PumpedUntilOpen, ZombieReturns
  <2> QED
    BY <2>1, <2>2
<1> QED
  BY <1>1, <1>2, <1>3 DEF PumpStep

LEMMA LiveStep ==
  ASSUME NEW c \in Caller, Caller = {c}, DataOK, StartStopInv, FlowInv(c),
         LiveInv(c), [Next]_vars
  PROVE  LiveInv(c)'
<1> USE DEF DataOK, FlowInv, LiveInv, Goto, Return, PauseBody, shared
<1>1. CASE Begin(c)
  <2>1. /\ pc'[c] \in {"startHung", "stopFlag", "ensureLock", "cooldown",
                       "pauseRead"}
        /\ pc[c] = "idle"
        /\ UNCHANGED <<running, hung, thread, pump>>
    BY <1>1, CallsAssumption DEF Begin, AllCalls
  <2> QED
    BY <2>1 DEF NoneLive, Live
<1>2. CASE \/ EnsureLock(c) \/ EnsureTest(c) \/ PauseRead(c) \/ PauseEnd(c)
           \/ Cooldown(c)
  BY <1>2 DEF EnsureLock, EnsureTest, PauseRead, PauseEnd, Cooldown,
              NoneLive, Live
<1>3. CASE StartHung(c) \/ StartRunning(c) \/ StartZombie(c)
  BY <1>3 DEF StartHung, StartRunning, StartZombie, NoneLive, Live
<1>4. CASE StartClear(c) \/ StartFlag(c)
  BY <1>4 DEF StartClear, StartFlag, NoneLive, Live
<1>5. CASE StartNew(c)
  BY <1>5 DEF StartNew
<1>6. CASE StartGo(c)
  <2>1. /\ running /\ thread \in Pump /\ thread' = thread /\ running' = running
        /\ pc'[c] = "idle" /\ pump'[thread] = "loop"
    BY <1>6 DEF StartGo
  <2> QED
    BY <2>1, NoneAssumption DEF Live, LiveState
<1>7. CASE StopFlag(c) \/ StopEvent(c)
  BY <1>7 DEF StopFlag, StopEvent
<1>8. CASE StopRead(c)
  <2>1. ~Live(thread) => NoneLive
    BY DEF StartStopInv, PumpKnown, NoneLive
  <2> QED
    BY <1>8, <2>1 DEF StopRead, NoneLive, Live
<1>9. CASE JoinReturns(c)
  <2>1. NoneLive
    BY <1>9 DEF JoinReturns, StartStopInv, PumpKnown, NoneLive
  <2> QED
    BY <1>9, <2>1 DEF JoinReturns, NoneLive, Live
<1>10. CASE JoinExpires(c)
  BY <1>10 DEF JoinExpires, JoinGivesUp
<1>11. CASE StopForget(c)
  <2>1. NoneLive /\ ~running
    BY <1>11 DEF StopForget, StartStopInv
  <2> QED
    BY <1>11, <2>1 DEF StopForget, NoneLive, Live
<1>12. ASSUME NEW p \in Pump, PumpStep(p) \/ ZombieReturns(p)
       PROVE  LiveInv(c)'
  <2>1. /\ \A q \in Pump : Live(q)' => Live(q)
        /\ UNCHANGED <<running, thread, pc>>
    BY <1>12, PumpStepQuiet
  <2>2. hung => hung'
    BY <1>12 DEF PumpStep, LoopTest, DispatchReturns, DispatchBlocks,
       ReopenReturns, ReopenBlocks, PumpedUntilOpen, ZombieReturns
  <2>3. pump[p] # "created" /\ \A q \in Pump \ {p} : pump'[q] = pump[q]
    BY <1>12 DEF PumpStep, LoopTest, DispatchReturns, DispatchBlocks,
       ReopenReturns, ReopenBlocks, PumpedUntilOpen, ZombieReturns, PumpGoto
  <2>4. ~hung' /\ ~running'
          /\ pc'[c] \notin {"stopEvent", "stopRead", "stopJoin"} => NoneLive'
    BY <2>1, <2>2 DEF NoneLive
  <2>5. running' /\ ~hung' /\ pc'[c] \notin {"startNew", "startGo"}
          => Live(thread)'
    BY <1>12, <2>1, <2>2, PumpStepKeepsLive
  <2>6. pc'[c] = "startGo" => thread' \in Pump /\ pump'[thread'] = "created"
    BY <2>1, <2>3
  <2> QED
    BY <2>4, <2>5, <2>6 DEF LiveInv
<1>13. CASE CooldownEnds \/ UNCHANGED vars
  BY <1>13 DEF CooldownEnds, vars, NoneLive, Live
<1> QED
  BY <1>1, <1>2, <1>3, <1>4, <1>5, <1>6, <1>7, <1>8, <1>9, <1>10, <1>11,
     <1>12, <1>13 DEF Next, Step

\* The zombie check of start finds a live pump only after a join expired.
LEMMA HungStep ==
  ASSUME NEW c \in Caller, Caller = {c}, DataOK, StartStopInv, LiveInv(c),
         HungMeansStuck, [Next]_vars
  PROVE  HungMeansStuck'
<1> USE DEF HungMeansStuck, shared
<1>1. CASE StartZombie(c)
  <2>1. hung \/ ~Live(thread)
    <3>1. ~hung => NoneLive
      BY <1>1 DEF StartZombie, StartStopInv, LiveInv
    <3> QED
      BY <3>1 DEF NoneLive, DataOK, Live
  <2> QED
    BY <1>1, <2>1 DEF StartZombie
<1>2. CASE \/ Begin(c) \/ EnsureLock(c) \/ EnsureTest(c) \/ PauseRead(c)
           \/ PauseEnd(c) \/ Cooldown(c) \/ StartHung(c) \/ StartRunning(c)
           \/ StartClear(c) \/ StartFlag(c) \/ StartNew(c) \/ StartGo(c)
           \/ StopFlag(c) \/ StopEvent(c) \/ StopRead(c) \/ JoinReturns(c)
           \/ JoinExpires(c) \/ StopForget(c)
  BY <1>2, Zenon DEF Begin, EnsureLock, EnsureTest, PauseRead, PauseEnd,
     Cooldown, StartHung, StartRunning, StartClear, StartFlag, StartNew,
     StartGo, StopFlag, StopEvent, StopRead, JoinReturns, JoinExpires,
     JoinGivesUp, PauseBody, StopForget
<1>3. CASE \/ \E p \in Pump : PumpStep(p) \/ ZombieReturns(p)
           \/ CooldownEnds \/ UNCHANGED vars
  BY <1>3, Zenon DEF PumpStep, LoopTest, DispatchReturns, DispatchBlocks,
     ReopenReturns, ReopenBlocks, PumpedUntilOpen, ZombieReturns,
     CooldownEnds, vars
<1> QED
  BY <1>1, <1>2, <1>3 DEF Next, Step

LEMMA ResumeStep ==
  ASSUME NEW c \in Caller, Caller = {c}, DataOK, FlowInv(c),
         ResumeInv(c), [Next]_vars
  PROVE  ResumeInv(c)'
<1> USE DEF DataOK, FlowInv, ResumeInv, Goto, Return, PauseBody, shared
<1>1. CASE Begin(c)
  <2>1. PICK m \in Calls : call' = [call EXCEPT ![c] = m]
    BY <1>1 DEF Begin
  <2> QED
    BY <2>1, CallsAssumption DEF AllCalls
<1>2. CASE \/ EnsureLock(c) \/ EnsureTest(c) \/ PauseRead(c) \/ PauseEnd(c)
           \/ Cooldown(c)
  BY <1>2 DEF EnsureLock, EnsureTest, PauseRead, PauseEnd, Cooldown
<1>3. CASE StartHung(c) \/ StartRunning(c) \/ StartZombie(c)
  BY <1>3 DEF StartHung, StartRunning, StartZombie
<1>4. CASE StartClear(c) \/ StartFlag(c) \/ StartNew(c) \/ StartGo(c)
  BY <1>4 DEF StartClear, StartFlag, StartNew, StartGo
<1>5. CASE \/ StopFlag(c) \/ StopEvent(c) \/ StopRead(c) \/ JoinReturns(c)
           \/ JoinExpires(c) \/ StopForget(c)
  BY <1>5 DEF StopFlag, StopEvent, StopRead, JoinReturns, JoinExpires,
              JoinGivesUp, StopForget
<1>6. CASE \E p \in Pump : PumpStep(p) \/ ZombieReturns(p)
  <2>1. hung => hung'
    BY <1>6 DEF PumpStep, LoopTest, DispatchReturns, DispatchBlocks,
       ReopenReturns, ReopenBlocks, PumpedUntilOpen, ZombieReturns
  <2> QED
    BY <1>6, <2>1, PumpStepQuiet
<1>7. CASE CooldownEnds \/ UNCHANGED vars
  BY <1>7 DEF CooldownEnds, vars
<1> QED
  BY <1>1, <1>2, <1>3, <1>4, <1>5, <1>6, <1>7 DEF Next, Step

\* The invariant of one owner, of which the three theorems below are parts.
OwnerInv(c) == StartStopInv /\ FlowInv(c) /\ LiveInv(c) /\ HungMeansStuck

LEMMA OwnerInvariance ==
  ASSUME NEW c \in Caller, Caller = {c}
  PROVE  Spec => []OwnerInv(c)
<1>1. Init => OwnerInv(c)
  BY InitStartStop
     DEF Init, OwnerInv, FlowInv, LiveInv, HungMeansStuck, NoneLive, Live,
         LiveState
<1>2. TypeOK /\ OwnerInv(c) /\ [Next]_vars => OwnerInv(c)'
  <2> SUFFICES ASSUME TypeOK, OwnerInv(c), [Next]_vars PROVE OwnerInv(c)'
    OBVIOUS
  <2>1. DataOK
    BY DEF TypeOK
  <2>2. StartStopInv'
    <3>1. CASE Begin(c) \/ PauseEnd(c) \/ Step(c)
      BY <2>1, <3>1, CallerStep DEF OwnerInv, StartStopInv
    <3>2. CASE \/ \E p \in Pump : PumpStep(p) \/ ZombieReturns(p)
               \/ CooldownEnds \/ UNCHANGED vars
      BY <2>1, <3>2, OtherStep DEF OwnerInv
    <3> QED
      BY <3>1, <3>2 DEF Next
  <2> QED
    BY <2>1, <2>2, FlowStep, LiveStep, HungStep DEF OwnerInv
<1> QED
  BY <1>1, <1>2, TypeCorrect, PTL DEF Spec

\* One owner: the running flag, which decides whether a write is queued or a
\* get waits, has a live dispatch thread behind it whenever no call is under
\* way, whatever the calls were and wherever the thread may have ended.
THEOREM OwnerRunningMeansPump ==
  ASSUME NEW c \in Caller, Caller = {c}
  PROVE  Spec => []RunningMeansPump
<1>1. OwnerInv(c) => RunningMeansPump
  BY DEF OwnerInv, LiveInv, RunningMeansPump
<1> QED
  BY <1>1, OwnerInvariance, PTL

\* One owner: native_hung is never raised for a pump that would have stopped.
THEOREM OwnerHungMeansStuck ==
  ASSUME NEW c \in Caller, Caller = {c}
  PROVE  Spec => []HungMeansStuck
<1>1. OwnerInv(c) => HungMeansStuck
  BY DEF OwnerInv
<1> QED
  BY <1>1, OwnerInvariance, PTL

\* One owner: every pause that stopped the pump, forced or not, leaves a live
\* one behind it whatever its body called, unless it asked for no restart or
\* the cool-down skipped the restart.
THEOREM OwnerPauseRestores ==
  ASSUME NEW c \in Caller, Caller = {c}
  PROVE  Spec => []PauseRestores
<1>1. Init => ResumeInv(c)
  BY DEF Init, ResumeInv
<1>2. TypeOK /\ OwnerInv(c) /\ ResumeInv(c) /\ [Next]_vars => ResumeInv(c)'
  BY ResumeStep DEF TypeOK, OwnerInv
<1>3. OwnerInv(c) /\ ResumeInv(c) => PauseRestores
  BY DEF OwnerInv, LiveInv, ResumeInv, PauseRestores
<1> QED
  BY <1>1, <1>2, <1>3, TypeCorrect, OwnerInvariance, PTL DEF Spec

-----------------------------------------------------------------------------
(* The refinement: with one owner the dispatch threads implement           *)
(* PumpContract.                                                           *)

\* Native code cannot hang behind the back of a start: once past the checks
\* there is no thread that could.
FreshInv(c) ==
    /\ pc[c] = "startRunning" => running \/ ~hung
    /\ pc[c] \in {"startZombie", "startClear", "startFlag", "startNew",
                  "startGo"} => ~hung

\* Only a thread that is alive moves.
LEMMA MovesAlive ==
  ASSUME NEW p \in Pump, PumpStep(p) \/ ZombieReturns(p)
  PROVE  ~NoneLive
<1>1. pump[p] \in LiveState
  BY DEF PumpStep, LoopTest, DispatchReturns, DispatchBlocks, ReopenReturns,
     ReopenBlocks, PumpedUntilOpen, ZombieReturns, PumpGoto, LiveState
<1> QED
  BY <1>1, NoneAssumption DEF NoneLive, Live

LEMMA FreshStep ==
  ASSUME NEW c \in Caller, Caller = {c}, DataOK, StartStopInv, LiveInv(c),
         FreshInv(c), [Next]_vars
  PROVE  FreshInv(c)'
<1> USE DEF DataOK, FreshInv, Goto, Return, PauseBody, shared
<1>1. CASE Begin(c)
  <2>1. pc'[c] \in {"startHung", "stopFlag", "ensureLock", "cooldown",
                    "pauseRead"}
    BY <1>1, CallsAssumption DEF Begin, AllCalls
  <2> QED
    BY <2>1
<1>2. CASE \/ EnsureLock(c) \/ EnsureTest(c) \/ PauseRead(c) \/ PauseEnd(c)
           \/ Cooldown(c)
  BY <1>2 DEF EnsureLock, EnsureTest, PauseRead, PauseEnd, Cooldown
<1>3. CASE StartHung(c) \/ StartRunning(c)
  BY <1>3 DEF StartHung, StartRunning
<1>4. CASE StartZombie(c)
  BY <1>4 DEF StartZombie
<1>5. CASE StartClear(c) \/ StartFlag(c) \/ StartNew(c) \/ StartGo(c)
  BY <1>5 DEF StartClear, StartFlag, StartNew, StartGo
<1>6. CASE \/ StopFlag(c) \/ StopEvent(c) \/ StopRead(c) \/ JoinReturns(c)
           \/ JoinExpires(c) \/ StopForget(c)
  BY <1>6 DEF StopFlag, StopEvent, StopRead, JoinReturns, JoinExpires,
              JoinGivesUp, StopForget
<1>7. ASSUME NEW p \in Pump, PumpStep(p) \/ ZombieReturns(p)
      PROVE  FreshInv(c)'
  <2>1. UNCHANGED <<running, pc>> /\ ~NoneLive
    BY <1>7, PumpStepQuiet, MovesAlive
  <2>2. CASE pc[c] = "startRunning"
    BY <2>1, <2>2 DEF LiveInv
  <2>3. CASE pc[c] = "startZombie"
    BY <2>1, <2>3 DEF LiveInv, StartStopInv
  <2>4. CASE pc[c] \in {"startClear", "startFlag", "startNew", "startGo"}
    BY <2>1, <2>4 DEF StartStopInv
  <2> QED
    BY <2>1, <2>2, <2>3, <2>4
<1>8. CASE CooldownEnds \/ UNCHANGED vars
  BY <1>8 DEF CooldownEnds, vars
<1> QED
  BY <1>1, <1>2, <1>3, <1>4, <1>5, <1>6, <1>7, <1>8 DEF Next, Step

\* What the contract speaks of.
pumpView == <<AlivePumps, Told, hung>>

LEMMA NoneAlive == NoneLive <=> AlivePumps = {}
  BY DEF NoneLive, AlivePumps

\* A step of the owner that brings no thread to life.
LEMMA CallRefines ==
  ASSUME NEW c \in Caller, DataOK, StartStopInv,
         \/ Begin(c)
         \/ EnsureLock(c) \/ EnsureTest(c) \/ PauseRead(c)
         \/ PauseEnd(c) \/ Cooldown(c)
         \/ StartHung(c) \/ StartRunning(c) \/ StartZombie(c)
         \/ StartClear(c) \/ StartFlag(c)
         \/ StopFlag(c) \/ StopEvent(c) \/ StopRead(c)
         \/ JoinReturns(c) \/ JoinExpires(c) \/ StopForget(c)
  PROVE  [Contract!Next]_pumpView
<1>1. AlivePumps' = AlivePumps
  BY NoBirth DEF AlivePumps, Live
<1>2. CASE UNCHANGED <<running, hung>>
  BY <1>1, <1>2 DEF pumpView, Told
<1>3. CASE running' = running /\ hung' = TRUE
  BY <1>1, <1>3 DEF Told, Contract!Next, Contract!Hang
<1>4. CASE running' = FALSE /\ hung' = hung
  <2>1. CASE AlivePumps = {}
    BY <1>1, <1>4, <2>1 DEF pumpView, Told
  <2>2. CASE AlivePumps # {}
    BY <1>1, <1>4, <2>2 DEF Told, Contract!Next, Contract!Tell
  <2> QED
    BY <2>1, <2>2
<1>5. CASE StartFlag(c)
  <2>1. AlivePumps = {} /\ hung' = hung
    BY <1>5, NoneAlive DEF StartFlag, Goto, StartStopInv
  <2> QED
    BY <1>1, <2>1 DEF pumpView, Told
<1> QED
  BY <1>2, <1>3, <1>4, <1>5, Zenon
     DEF Begin, EnsureLock, EnsureTest, PauseRead, PauseEnd, Cooldown,
         StartHung, StartRunning, StartZombie, StartClear, StopFlag, StopEvent,
         StopRead, JoinReturns, JoinExpires, JoinGivesUp, PauseBody,
         StopForget, shared

\* Creating a Thread, and starting it.
LEMMA StartRefines ==
  ASSUME NEW c \in Caller, DataOK, StartStopInv, StartNew(c) \/ StartGo(c),
         pc[c] = "startGo" => /\ running /\ ~hung
                              /\ thread \in Pump /\ pump[thread] = "created"
  PROVE  [Contract!Next]_pumpView
<1>1. AlivePumps = {} /\ UNCHANGED <<running, hung>>
  BY NoneAlive DEF StartNew, StartGo, Goto, StartStopInv
<1>2. CASE StartNew(c)
  <2>1. NoneLive'
    BY <1>1, <1>2, NoneAlive DEF StartNew, NoneLive, Live, LiveState, DataOK
  <2>2. AlivePumps' = {}
    BY <2>1 DEF NoneLive, AlivePumps
  <2> QED
    BY <1>1, <2>2 DEF pumpView, Told
<1>3. CASE StartGo(c)
  <2>1. /\ pc[c] = "startGo" /\ running /\ ~hung
        /\ thread \in Pump /\ pump[thread] = "created"
        /\ thread # None
    BY <1>3, NoneAssumption DEF StartGo
  <2>2. pump' = [pump EXCEPT ![thread] = "loop"]
    BY <1>3, <2>1 DEF StartGo, DataOK
  <2>3. AlivePumps' = {thread}
    BY <1>1, <2>1, <2>2, NoneAssumption
       DEF AlivePumps, Live, LiveState, DataOK
  <2>4. Contract!Start
    BY <1>1, <2>1, <2>3 DEF Contract!Start, Told
  <2> QED
    BY <2>4 DEF Contract!Next
<1> QED
  BY <1>2, <1>3

\* A dispatch thread that goes on, ends or hangs.
LEMMA PumpRefines ==
  ASSUME DataOK, PumpKnown, running => ~stopEv,
         NEW p \in Pump, PumpStep(p) \/ ZombieReturns(p)
  PROVE  [Contract!Next]_pumpView
<1> USE NoneAssumption
<1>1. PICK to : /\ pump' = [pump EXCEPT ![p] = to] /\ pump[p] \in LiveState
                /\ running' = running
                /\ \/ to \in LiveState /\ hung' = hung
                   \/ /\ to = "exited" /\ hung' = hung /\ (hung \/ ~running)
                   \/ to = "exited" /\ hung' = TRUE
  <2>1. CASE LoopTest(p)
    BY <2>1 DEF LoopTest, PumpGoto, LiveState
  <2>2. CASE ReopenBlocks(p)
    BY <2>2 DEF ReopenBlocks, PumpGoto, LiveState
  <2>3. CASE \/ DispatchReturns(p) \/ DispatchBlocks(p) \/ ReopenReturns(p)
             \/ PumpedUntilOpen(p) \/ ZombieReturns(p)
    BY <2>3 DEF DispatchReturns, DispatchBlocks, ReopenReturns,
                PumpedUntilOpen, ZombieReturns, PumpGoto, LiveState
  <2> QED
    BY <2>1, <2>2, <2>3 DEF PumpStep
<1>2. AlivePumps = {p}
  BY <1>1 DEF AlivePumps, PumpKnown, Live
<1>3. CASE to \in LiveState /\ hung' = hung
  <2>1. AlivePumps' = AlivePumps
    BY <1>1, <1>3 DEF AlivePumps, Live, DataOK
  <2> QED
    BY <1>1, <1>3, <2>1 DEF pumpView, Told
<1>4. CASE to = "exited"
  <2>1. AlivePumps' = {}
    BY <1>1, <1>2, <1>4 DEF AlivePumps, Live, LiveState, DataOK
  <2>2. Contract!Ends /\ ~Told'
    BY <2>1 DEF Contract!Ends, Told
  <2>3. CASE hung' = hung /\ (hung \/ ~running)
    BY <1>2, <2>2, <2>3 DEF Contract!Next, Contract!Exit, Told
  <2>4. CASE hung' = TRUE
    BY <2>2, <2>4 DEF Contract!Next, Contract!Hang
  <2> QED
    BY <1>1, <1>4, <2>3, <2>4 DEF LiveState
<1> QED
  BY <1>1, <1>3, <1>4

\* One owner: one dispatch thread at a time, none resumed after it was told to
\* stop, none ending of its own accord, none started after native code hung.
THEOREM OwnerKeepsContract ==
  ASSUME NEW c \in Caller, Caller = {c}
  PROVE  Spec => ImplementsPump
<1>1. Init => FreshInv(c) /\ Contract!Init
  BY DEF Init, FreshInv, Contract!Init, AlivePumps, Told, Live, LiveState
<1>2. TypeOK /\ OwnerInv(c) /\ FreshInv(c) /\ [Next]_vars => FreshInv(c)'
  BY FreshStep DEF TypeOK, OwnerInv
<1>3. TypeOK /\ OwnerInv(c) /\ FreshInv(c) /\ [Next]_vars
        => [Contract!Next]_pumpView
  <2> SUFFICES ASSUME TypeOK, OwnerInv(c), FreshInv(c), [Next]_vars
               PROVE  [Contract!Next]_pumpView
    OBVIOUS
  <2>1. DataOK /\ StartStopInv /\ FlowInv(c) /\ LiveInv(c)
    BY DEF TypeOK, OwnerInv
  <2>2. CASE StartNew(c) \/ StartGo(c)
    <3>1. pc[c] = "startGo" => /\ running /\ ~hung
                               /\ thread \in Pump /\ pump[thread] = "created"
      BY <2>1 DEF FlowInv, LiveInv, FreshInv
    <3> QED
      BY <2>1, <2>2, <3>1, StartRefines
  <2>3. CASE /\ Begin(c) \/ PauseEnd(c) \/ Step(c)
             /\ ~(StartNew(c) \/ StartGo(c))
    BY <2>1, <2>3, CallRefines DEF Step
  <2>4. ASSUME NEW p \in Pump, PumpStep(p) \/ ZombieReturns(p)
        PROVE  [Contract!Next]_pumpView
    BY <2>1, <2>4, PumpRefines DEF StartStopInv, FlowInv
  <2>5. CASE CooldownEnds \/ UNCHANGED vars
    BY <2>5 DEF CooldownEnds, vars, shared, pumpView, AlivePumps, Told, Live
  <2> QED
    BY <2>2, <2>3, <2>4, <2>5 DEF Next
<1> QED
  BY <1>1, <1>2, <1>3, TypeCorrect, OwnerInvariance, PTL
     DEF Spec, ImplementsPump, Contract!Spec, pumpView

-----------------------------------------------------------------------------
(* Any number of threads, all of them through ensure_background_dispatch.  *)

\* Who is past "with self._lock" holds it.
EnsureInv ==
    \A c \in Caller :
        /\ pc[c] \in {"idle", "ensureLock", "ensureTest", "startHung",
                      "startRunning", "startZombie", "startClear",
                      "startFlag", "startNew", "startGo"}
        /\ pc[c] \notin {"idle", "ensureLock"} => lock = c
        /\ paused[c] = 0

\* With ensure as the only call, a caller's step moves it along the path of
\* ensure, and it takes the lock only from no one.
LEMMA EnsureStep ==
  ASSUME Calls \subseteq {"ensure"}, DataOK, EnsureInv,
         NEW c \in Caller, Begin(c) \/ PauseEnd(c) \/ Step(c)
  PROVE  /\ pc'[c] \in {"idle", "ensureLock", "ensureTest", "startHung",
                        "startRunning", "startZombie", "startClear",
                        "startFlag", "startNew", "startGo"}
         /\ pc'[c] \notin {"idle", "ensureLock"} => lock' = c
         /\ \/ lock \in {c, None}
            \/ UNCHANGED <<lock, running, pump, thread, target>>
         /\ paused' = paused
         /\ \A d \in Caller \ {c} : /\ pc'[d] = pc[d]
                                    /\ target'[d] = target[d]
<1> USE DEF DataOK, EnsureInv, Goto, Return, PauseBody, shared
<1>1. CASE Begin(c)
  <2>1. PICK m \in Calls : pc' = [pc EXCEPT ![c] = "ensureLock"]
    BY <1>1 DEF Begin
  <2> QED
    BY <1>1, <2>1 DEF Begin
<1>2. CASE EnsureLock(c) \/ EnsureTest(c)
  BY <1>2 DEF EnsureLock, EnsureTest
<1>3. CASE StartHung(c) \/ StartRunning(c) \/ StartZombie(c)
  BY <1>3 DEF StartHung, StartRunning, StartZombie
<1>4. CASE StartClear(c) \/ StartFlag(c) \/ StartNew(c) \/ StartGo(c)
  BY <1>4 DEF StartClear, StartFlag, StartNew, StartGo
<1>5. CASE \/ PauseRead(c) \/ PauseEnd(c) \/ Cooldown(c) \/ StopFlag(c)
           \/ StopEvent(c) \/ StopRead(c) \/ JoinReturns(c) \/ JoinExpires(c)
           \/ StopForget(c)
  BY <1>5 DEF PauseRead, PauseEnd, Cooldown, StopFlag, StopEvent, StopRead,
              JoinReturns, JoinExpires, JoinGivesUp, StopForget
<1> QED
  BY <1>1, <1>2, <1>3, <1>4, <1>5 DEF Step

\* StartStopInv needs no single owner if all callers go through ensure.
LEMMA EnsureInvariance ==
  ASSUME Calls \subseteq {"ensure"}
  PROVE  Spec => [](TypeOK /\ StartStopInv /\ EnsureInv)
<1>1. Init => EnsureInv
  BY DEF Init, EnsureInv
<1>2. TypeOK /\ StartStopInv /\ EnsureInv /\ [Next]_vars
        => StartStopInv' /\ EnsureInv'
  <2> SUFFICES ASSUME TypeOK, StartStopInv, EnsureInv, [Next]_vars
               PROVE  StartStopInv' /\ EnsureInv'
    OBVIOUS
  <2> USE DEF TypeOK
  <2>1. ASSUME NEW c \in Caller, Begin(c) \/ PauseEnd(c) \/ Step(c)
        PROVE  StartStopInv' /\ EnsureInv'
    <3>1. EnsureInv'
      <4> SUFFICES ASSUME NEW d \in Caller, d # c,
                          pc[d] \notin {"idle", "ensureLock"}
                   PROVE  lock' = d
        BY <2>1, EnsureStep DEF EnsureInv
      <4>1. lock = d
        BY DEF EnsureInv
      <4> QED
        BY <2>1, <4>1, EnsureStep, NoneAssumption
    <3>2. ASSUME NEW d \in Caller, d # c
          PROVE  /\ pc'[d] \in {"startClear", "startFlag", "startNew",
                                "startGo", "stopForget"} => NoneLive'
                 /\ pc'[d] = "startZombie" => ~running'
                 /\ pc'[d] # "stopJoin"
      <4>1. pc'[d] = pc[d]
        BY <2>1, <3>2, EnsureStep
      <4>2. CASE pc[d] \in {"idle", "ensureLock"}
        BY <4>1, <4>2
      <4>3. CASE pc[d] \notin {"idle", "ensureLock"}
        <5>1. lock = d
          BY <4>3 DEF EnsureInv
        <5>2. UNCHANGED <<running, pump>>
          BY <2>1, <3>2, <5>1, EnsureStep, NoneAssumption
        <5>3. pc[d] # "stopJoin"
          BY DEF EnsureInv
        <5> QED
          BY <4>1, <5>2, <5>3 DEF StartStopInv, NoneLive, Live
      <4> QED
        BY <4>2, <4>3
    <3>3. StartStopInv'
      BY <2>1, <3>2, CallerStep DEF StartStopInv
    <3> QED
      BY <3>1, <3>3
  <2>2. CASE \/ \E p \in Pump : PumpStep(p) \/ ZombieReturns(p)
             \/ CooldownEnds
             \/ UNCHANGED vars
    <3>1. UNCHANGED <<pc, lock, paused>>
      BY <2>2, PumpStepQuiet DEF CooldownEnds, vars, shared
    <3> QED
      BY <2>2, <3>1, OtherStep DEF EnsureInv
  <2> QED
    BY <2>1, <2>2 DEF Next
<1> QED
  BY <1>1, <1>2, InitStartStop, TypeCorrect, PTL DEF Spec

\* Any number of threads may call ensure_background_dispatch at the same time:
\* one dispatch thread at most is alive (CHANGELOG 0.7.0: the race of two
\* threads that both start dispatch is gone).
THEOREM EnsureOnePump ==
  ASSUME Calls \subseteq {"ensure"}
  PROVE  Spec => []SinglePump
<1>1. StartStopInv => SinglePump
  BY KnownIsSingle DEF StartStopInv
<1> QED
  BY <1>1, EnsureInvariance, PTL

\* Nobody stops a dispatch thread.  Before the first start no thread is alive
\* and native code has not hung; between the tests of a start and its last
\* statement that remains so.
GoInv ==
    /\ ~stopEv
    /\ ~running => NoneLive /\ ~hung
    /\ \A c \in Caller :
         /\ pc[c] \in {"startZombie", "startClear", "startFlag"} => ~running
         /\ pc[c] \in {"startNew", "startGo"} => running /\ ~hung
         /\ pc[c] = "startGo" => thread \in Pump /\ pump[thread] = "created"

\* A step of the caller that holds the lock, as far as it concerns itself.
LEMMA GoOwnStep ==
  ASSUME Calls \subseteq {"ensure"}, DataOK, StartStopInv, EnsureInv, GoInv,
         NEW c \in Caller, Begin(c) \/ PauseEnd(c) \/ Step(c)
  PROVE  /\ ~stopEv'
         /\ ~running' => NoneLive' /\ ~hung'
         /\ pc'[c] \in {"startZombie", "startClear", "startFlag"} => ~running'
         /\ pc'[c] \in {"startNew", "startGo"} => running' /\ ~hung'
         /\ pc'[c] = "startGo" => thread' \in Pump /\ pump'[thread'] = "created"
         /\ pc[c] \in {"idle", "ensureLock"}
              => UNCHANGED <<running, thread, hung, pump>>
<1> USE DEF DataOK, EnsureInv, GoInv, Goto, Return, PauseBody, shared,
            NoneLive, Live
<1>1. CASE Begin(c)
  <2>1. PICK m \in Calls : pc' = [pc EXCEPT ![c] = "ensureLock"]
    BY <1>1 DEF Begin
  <2> QED
    BY <1>1, <2>1 DEF Begin
<1>2. CASE EnsureLock(c) \/ EnsureTest(c)
  BY <1>2 DEF EnsureLock, EnsureTest
<1>3. CASE StartHung(c) \/ StartRunning(c) \/ StartZombie(c)
  BY <1>3, NoneAssumption DEF StartHung, StartRunning, StartZombie
<1>4. CASE StartClear(c)
  BY <1>4 DEF StartClear
<1>5. CASE StartFlag(c)
  BY <1>5 DEF StartFlag
<1>6. CASE StartNew(c)
  BY <1>6 DEF StartNew
<1>7. CASE StartGo(c)
  BY <1>7 DEF StartGo
<1>8. CASE \/ PauseRead(c) \/ PauseEnd(c) \/ Cooldown(c) \/ StopFlag(c)
           \/ StopEvent(c) \/ StopRead(c) \/ JoinReturns(c) \/ JoinExpires(c)
           \/ StopForget(c)
  BY <1>8 DEF PauseRead, PauseEnd, Cooldown, StopFlag, StopEvent, StopRead,
              JoinReturns, JoinExpires, JoinGivesUp, StopForget
<1> QED
  BY <1>1, <1>2, <1>3, <1>4, <1>5, <1>6, <1>7, <1>8 DEF Step

LEMMA GoStep ==
  ASSUME Calls \subseteq {"ensure"}, DataOK, StartStopInv, EnsureInv, GoInv,
         [Next]_vars
  PROVE  GoInv'
<1>1. ASSUME NEW c \in Caller, Begin(c) \/ PauseEnd(c) \/ Step(c)
      PROVE  GoInv'
  <2>1. ASSUME NEW d \in Caller, d # c
        PROVE  /\ pc'[d] \in {"startZombie", "startClear", "startFlag"}
                    => ~running'
               /\ pc'[d] \in {"startNew", "startGo"} => running' /\ ~hung'
               /\ pc'[d] = "startGo"
                    => thread' \in Pump /\ pump'[thread'] = "created"
    <3>1. pc'[d] = pc[d]
      BY <1>1, <2>1, EnsureStep
    <3>2. CASE pc[d] \in {"idle", "ensureLock"}
      BY <3>1, <3>2
    <3>3. CASE pc[d] \notin {"idle", "ensureLock"}
      <4>1. pc[c] \in {"idle", "ensureLock"}
        BY <2>1, <3>3 DEF EnsureInv
      <4>2. UNCHANGED <<running, thread, hung, pump>>
        BY <1>1, <4>1, GoOwnStep
      <4> QED
        BY <3>1, <4>2 DEF GoInv
    <3> QED
      BY <3>2, <3>3
  <2> QED
    BY <1>1, <2>1, GoOwnStep DEF GoInv
<1>2. ASSUME NEW p \in Pump, PumpStep(p) \/ ZombieReturns(p)
      PROVE  GoInv'
  <2>1. UNCHANGED <<running, thread, pc>> /\ ~NoneLive
    BY <1>2, PumpStepQuiet, MovesAlive
  <2>2. stopEv' = stopEv
    BY <1>2 DEF PumpStep, LoopTest, DispatchReturns, DispatchBlocks,
       ReopenReturns, ReopenBlocks, PumpedUntilOpen, ZombieReturns, PumpGoto
  <2>3. \A d \in Caller : pc[d] \notin {"startNew", "startGo", "startZombie",
                                       "startClear", "startFlag"}
    BY <2>1 DEF StartStopInv, GoInv
  <2> QED
    BY <2>1, <2>2, <2>3 DEF GoInv
<1>3. CASE CooldownEnds \/ UNCHANGED vars
  BY <1>3 DEF CooldownEnds, vars, shared, GoInv, NoneLive, Live
<1> QED
  BY <1>1, <1>2, <1>3 DEF Next

\* The same contract for any number of threads that call only ensure, as the
\* library itself does (lifecycle.py:60, client.py:668).
THEOREM EnsureKeepsContract ==
  ASSUME Calls \subseteq {"ensure"}
  PROVE  Spec => ImplementsPump
<1>1. Init => GoInv /\ Contract!Init
  BY DEF Init, GoInv, NoneLive, Contract!Init, AlivePumps, Told, Live,
         LiveState
<1>2. TypeOK /\ StartStopInv /\ EnsureInv /\ GoInv /\ [Next]_vars => GoInv'
  BY GoStep DEF TypeOK
<1>3. TypeOK /\ StartStopInv /\ GoInv /\ [Next]_vars
        => [Contract!Next]_pumpView
  <2> SUFFICES ASSUME TypeOK, StartStopInv, GoInv, [Next]_vars
               PROVE  [Contract!Next]_pumpView
    OBVIOUS
  <2>0. DataOK
    BY DEF TypeOK
  <2>1. ASSUME NEW c \in Caller, StartNew(c) \/ StartGo(c)
        PROVE  [Contract!Next]_pumpView
    <3>1. pc[c] = "startGo" => /\ running /\ ~hung
                               /\ thread \in Pump /\ pump[thread] = "created"
      BY DEF GoInv
    <3> QED
      BY <2>0, <2>1, <3>1, StartRefines
  <2>2. ASSUME NEW c \in Caller,
               Begin(c) \/ PauseEnd(c) \/ Step(c),
               ~(StartNew(c) \/ StartGo(c))
        PROVE  [Contract!Next]_pumpView
    BY <2>0, <2>2, CallRefines DEF Step
  <2>3. ASSUME NEW p \in Pump, PumpStep(p) \/ ZombieReturns(p)
        PROVE  [Contract!Next]_pumpView
    BY <2>0, <2>3, PumpRefines DEF StartStopInv, GoInv
  <2>4. CASE CooldownEnds \/ UNCHANGED vars
    BY <2>4 DEF CooldownEnds, vars, shared, pumpView, AlivePumps, Told, Live
  <2> QED
    BY <2>1, <2>2, <2>3, <2>4 DEF Next
<1> QED
  BY <1>1, <1>2, <1>3, EnsureInvariance, PTL
     DEF Spec, ImplementsPump, Contract!Spec, pumpView
=============================================================================
