------------------------- MODULE Definitions_proofs -------------------------
(***************************************************************************)
(* Proofs about Definitions: type correctness; the two maps of the         *)
(* registry agree whatever happens; the documented order of calls,         *)
(* subscriptions before the pump starts, keeps _lock and _io_lock from     *)
(* forming a cycle (without it they do: run DefLockCycle); no request      *)
(* outlives its subscription; restores, from wherever they come, reach     *)
(* every subscription of one thread, and a request without a definition is *)
(* made again; and the recovery on the pump never adds a field twice.      *)
(***************************************************************************)
EXTENDS Definitions, TLAPS

\* What a thread in the middle of a call is working on.
WorkInv ==
    \A t \in Thread :
        /\ pc[t] \in Working => cur[t] \in Id
        /\ pc[t] \in Working /\ call[t] # "use" => cur[t] \in SubId
        /\ pc[t] = "drop" => cur[t] \in SubId

LEMMA NextCases ==
  ASSUME [Next]_vs
  PROVE  \/ \E t \in Thread :
               \/ Prepare(t) \/ Clear(t) \/ Ensure(t) \/ Failed(t) \/ Add(t)
               \/ Request(t) \/ Apply(t) \/ Drop(t) \/ Snapshot(t) \/ Repoll(t)
               \/ Restore(t) \/ Open(t) \/ MsgOpen(t) \/ MsgOther(t)
               \/ \E d \in SubId : SubscribeMany(t, d) \/ Unsubscribe(t, d)
               \/ \E d \in SubId, v \in SubVar : Subscribe(t, d, v)
               \/ \E v \in Var : Use(t, v)
         \/ \E d \in SubId : Resubscribe(d)
         \/ TimerSkips \/ MsgQuit \/ StartPump \/ Close \/ UNCHANGED vs
  BY Zenon DEF Next, Proceed, Calls

LEMMA InitTypeOK == Init => TypeOK /\ WorkInv
<1> SUFFICES ASSUME Init PROVE TypeOK /\ WorkInv
  OBVIOUS
<1>1. FlagsOK
  BY Zenon DEF Init, FlagsOK
<1>2. DataOK
  BY DEF Init, DataOK, Working
<1>3. WorkInv
  BY DEF Init, WorkInv, Working
<1> QED
  BY <1>1, <1>2, <1>3 DEF TypeOK

-----------------------------------------------------------------------------
(* Type correctness.                                                       *)

LEMMA NextFlagsOK ==
  ASSUME FlagsOK, [Next]_vs
  PROVE  FlagsOK'
<1> USE DEF FlagsOK
<1>1. ASSUME NEW t \in Thread,
             \/ Prepare(t) \/ Ensure(t) \/ Failed(t) \/ Request(t) \/ Apply(t)
             \/ Snapshot(t) \/ Repoll(t)
      PROVE  FlagsOK'
  BY <1>1, Zenon DEF Prepare, Ensure, Failed, Request, Apply, Snapshot, Repoll,
     session, registry
<1>2. ASSUME NEW t \in Thread, Clear(t) \/ Add(t) \/ Drop(t)
      PROVE  FlagsOK'
  BY <1>2, Zenon DEF Clear, Add, Drop, Release, ReleaseDefineId, registry
<1>3. ASSUME NEW t \in Thread, Restore(t) \/ Open(t) \/ MsgOpen(t) \/ MsgOther(t)
      PROVE  FlagsOK'
  BY <1>3, Zenon DEF Restore, Open, MsgOpen, MsgOther, ResetFlags, session,
     registry
<1>4. ASSUME NEW t \in Thread, NEW d \in SubId,
             \/ SubscribeMany(t, d) \/ Unsubscribe(t, d)
             \/ \E v \in SubVar : Subscribe(t, d, v)
      PROVE  FlagsOK'
  BY <1>4, Zenon DEF SubscribeMany, Unsubscribe, Subscribe, NewSubscription,
     BindSubscriptionVar, session, registry
<1>5. ASSUME NEW t \in Thread, NEW v \in Var, Use(t, v)
      PROVE  FlagsOK'
  BY <1>5, Zenon DEF Use, GetOrCreateVar, BindSubscriptionVar, session, registry
<1>6. CASE \/ \E d \in SubId : Resubscribe(d)
           \/ TimerSkips \/ MsgQuit \/ StartPump \/ Close \/ UNCHANGED vs
  BY <1>6, Zenon DEF Resubscribe, TimerSkips, MsgQuit, StartPump, Close, EndSession,
     ResetFlags, vs, session, registry
<1> QED
  BY NextCases, <1>1, <1>2, <1>3, <1>4, <1>5, <1>6, Zenon

LEMMA NextDataOK ==
  ASSUME DataOK, WorkInv, [Next]_vs
  PROVE  DataOK' /\ WorkInv'
<1> USE DEF DataOK, WorkInv, Working, Goto, Begin, session, registry
<1>1. ASSUME NEW t \in Thread,
             Prepare(t) \/ Ensure(t) \/ Failed(t) \/ Snapshot(t)
      PROVE  DataOK' /\ WorkInv'
  BY <1>1 DEF Prepare, Ensure, Failed, Snapshot
<1>2. ASSUME NEW t \in Thread, Clear(t) \/ Add(t)
      PROVE  DataOK' /\ WorkInv'
  BY <1>2 DEF Clear, Add
<1>3. ASSUME NEW t \in Thread, Request(t)
      PROVE  DataOK' /\ WorkInv'
  BY <1>3 DEF Request
<1>4. ASSUME NEW t \in Thread, Apply(t) \/ Repoll(t)
      PROVE  DataOK' /\ WorkInv'
  BY <1>4 DEF Apply, Repoll, Id
<1>5. ASSUME NEW t \in Thread, Drop(t)
      PROVE  DataOK' /\ WorkInv'
  BY <1>5 DEF Drop, Release, ReleaseDefineId, Id
<1>6. ASSUME NEW t \in Thread, Restore(t) \/ Open(t) \/ MsgOpen(t) \/ MsgOther(t)
      PROVE  DataOK' /\ WorkInv'
  <2>1. CASE Restore(t)
    BY <1>6, <2>1 DEF Restore
  <2>2. CASE Open(t)
    BY <1>6, <2>2 DEF Open, locals
  <2>3. CASE MsgOpen(t) \/ MsgOther(t)
    BY <1>6, <2>3 DEF MsgOpen, MsgOther, Dispatches
  <2> QED
    BY <1>6, <2>1, <2>2, <2>3
<1>7. ASSUME NEW t \in Thread, NEW d \in SubId,
             \/ SubscribeMany(t, d) \/ Unsubscribe(t, d)
             \/ \E v \in SubVar : Subscribe(t, d, v)
      PROVE  DataOK' /\ WorkInv'
  BY <1>7 DEF SubscribeMany, Unsubscribe, Subscribe, NewSubscription,
     BindSubscriptionVar, Id, Var, Thread
<1>8. ASSUME NEW t \in Thread, NEW v \in Var, Use(t, v)
      PROVE  DataOK' /\ WorkInv'
  BY <1>8 DEF Use, GetOrCreateVar, BindSubscriptionVar, Id
<1>9. CASE \/ \E d \in SubId : Resubscribe(d)
           \/ TimerSkips \/ MsgQuit \/ StartPump \/ Close \/ UNCHANGED vs
  BY <1>9 DEF Resubscribe, Id, Thread, TimerSkips, MsgQuit, StartPump, Close, EndSession, vs, locals
<1> QED
  BY NextCases, <1>1, <1>2, <1>3, <1>4, <1>5, <1>6, <1>7, <1>8, <1>9, Zenon

\* Every reachable state is well typed.
THEOREM TypeCorrect == Spec => [](TypeOK /\ WorkInv)
<1>1. TypeOK /\ WorkInv /\ [Next]_vs => TypeOK' /\ WorkInv'
  BY NextFlagsOK, NextDataOK, Zenon DEF TypeOK
<1> QED
  BY <1>1, InitTypeOK, PTL DEF Spec

-----------------------------------------------------------------------------
(* The registry.  Ids are never given out twice, and an id that            *)
(* unsubscribe is about to release is no longer in _subscriptions.         *)

RegistryInv ==
    /\ RegistryAgrees
    /\ \A d \in SubId : kind[d] = "unused" => d \notin subs /\ keyOf[d] = None
    /\ \A t \in Thread :
          pc[t] = "drop" /\ call[t] # "resubscribe" =>
              cur[t] \notin subs /\ kind[cur[t]] # "unused"

\* Giving a variable a slot whose id is new keeps the two maps together.
LEMMA BindAgrees ==
  ASSUME DataOK, NEW d \in Id, keyOf[d] = None, NEW v \in Var,
         \A w \in Var : vars[w] # None => keyOf[vars[w]] = w,
         BindSubscriptionVar(d, v)
  PROVE  \A w \in Var : vars'[w] # None => keyOf'[vars'[w]] = w
<1> SUFFICES ASSUME NEW w \in Var, vars'[w] # None
             PROVE  keyOf'[vars'[w]] = w
  OBVIOUS
<1>1. CASE w = v
  BY <1>1 DEF BindSubscriptionVar, DataOK
<1>2. CASE w # v
  <2>1. vars'[w] = vars[w] /\ vars[w] \in Id
    BY <1>2 DEF BindSubscriptionVar, DataOK
  <2>2. keyOf[vars[w]] = w /\ w # None
    BY <2>1, NoneAssumption
  <2>3. vars[w] # d
    BY <2>2
  <2> QED
    BY <2>1, <2>2, <2>3 DEF BindSubscriptionVar, DataOK
<1> QED
  BY <1>1, <1>2

LEMMA NextRegistryInv ==
  ASSUME DataOK, WorkInv, RegistryInv, [Next]_vs
  PROVE  RegistryInv'
<1> USE DEF DataOK, RegistryInv, RegistryAgrees, Goto, Begin, registry
<1>1. ASSUME NEW t \in Thread,
             \/ Prepare(t) \/ Clear(t) \/ Ensure(t) \/ Failed(t) \/ Add(t)
             \/ Request(t) \/ Snapshot(t) \/ Repoll(t) \/ Apply(t)
      PROVE  RegistryInv'
  BY <1>1 DEF Prepare, Clear, Ensure, Failed, Add, Request, Snapshot, Repoll,
     Apply
<1>2. ASSUME NEW t \in Thread, Restore(t) \/ Open(t) \/ MsgOpen(t) \/ MsgOther(t)
      PROVE  RegistryInv'
  <2>1. /\ UNCHANGED <<vars, keyOf, subs, kind, cur>>
        /\ pc' = pc \/ pc' = [pc EXCEPT ![t] = "snapshot"]
             \/ pc' = [pc EXCEPT ![t] = "repoll"]
        /\ \A u \in Thread : pc'[u] = "drop" => call'[u] = call[u]
    BY <1>2 DEF Restore, Open, MsgOpen, MsgOther, Dispatches, locals
  <2> QED
    BY <2>1
<1>3. ASSUME NEW t \in Thread, Drop(t)
      PROVE  RegistryInv'
  <2>1. UNCHANGED <<subs, kind, call, cur>>
    BY <1>3 DEF Drop
  <2>2. \A u \in Thread : pc'[u] = "drop" => pc[u] = "drop"
    BY <1>3 DEF Drop
  <2>3. CASE call[t] = "resubscribe"
    BY <1>3, <2>1, <2>2, <2>3 DEF Drop
  <2>4. CASE call[t] # "resubscribe"
    <3>1. cur[t] \in SubId /\ cur[t] \notin subs /\ kind[cur[t]] # "unused"
      BY <1>3, <2>4 DEF Drop, WorkInv
    <3>2. CASE UNCHANGED registry
      BY <2>1, <2>2, <3>1, <3>2
    <3>3. CASE ReleaseDefineId(cur[t])
      <4>1. RegistryAgrees'
        BY <2>1, <3>1, <3>3, NoneAssumption DEF ReleaseDefineId, Id
      <4> QED
        BY <2>1, <2>2, <3>1, <3>3, <4>1 DEF ReleaseDefineId, Id
    <3> QED
      BY <1>3, <2>4, <3>2, <3>3 DEF Drop, Release
  <2> QED
    BY <2>3, <2>4
<1>4. ASSUME NEW t \in Thread, NEW d \in SubId, NewSubscription(t, d, "many"),
             UNCHANGED registry
      PROVE  RegistryInv'
  BY <1>4 DEF NewSubscription
<1>5. ASSUME NEW t \in Thread, NEW d \in SubId, NEW v \in SubVar, Subscribe(t, d, v)
      PROVE  RegistryInv'
  <2>1. BindSubscriptionVar(d, v) /\ NewSubscription(t, d, "single")
    BY <1>5 DEF Subscribe
  <2>2. keyOf[d] = None /\ v \in Var /\ d \in Id /\ v # None
    BY <2>1, NoneAssumption DEF NewSubscription, Var, Id
  <2>3. subs' = subs \cup {d} /\ kind' = [kind EXCEPT ![d] = "single"]
    BY <2>1 DEF NewSubscription
  <2>4. RegistryAgrees'
    BY <2>1, <2>2, <2>3, BindAgrees DEF BindSubscriptionVar, Id
  <2>5. \A u \in Thread : pc'[u] = "drop" =>
           pc[u] = "drop" /\ call'[u] = call[u] /\ cur'[u] = cur[u]
    BY <2>1 DEF NewSubscription
  <2> QED
    BY <2>1, <2>2, <2>3, <2>4, <2>5 DEF BindSubscriptionVar, NewSubscription,
       Id, WorkInv
<1>6. ASSUME NEW t \in Thread, NEW d \in SubId, Unsubscribe(t, d)
      PROVE  RegistryInv'
  BY <1>6 DEF Unsubscribe
<1>7. ASSUME NEW t \in Thread, NEW v \in Var, Use(t, v)
      PROVE  RegistryInv'
  <2>1. UNCHANGED <<subs, kind>>
    BY <1>7 DEF Use
  <2>2. \A u \in Thread : pc'[u] = "drop" =>
           pc[u] = "drop" /\ call'[u] = call[u] /\ cur'[u] = cur[u]
    BY <1>7 DEF Use, GetOrCreateVar
  <2>3. CASE UNCHANGED registry
    BY <2>1, <2>2, <2>3
  <2>4. ASSUME NEW d \in VarId, keyOf[d] = None, BindSubscriptionVar(d, v)
        PROVE  RegistryInv'
    <3>1. d \notin SubId /\ d \in Id /\ v # None
      BY IdAssumption, NoneAssumption DEF Id
    <3>2. RegistryAgrees'
      BY <2>1, <2>4, <3>1, BindAgrees DEF BindSubscriptionVar, Id
    <3> QED
      BY <2>1, <2>2, <2>4, <3>1, <3>2 DEF BindSubscriptionVar, Id
  <2> QED
    BY <1>7, <2>3, <2>4 DEF Use, GetOrCreateVar
<1>8. CASE \/ \E d \in SubId : Resubscribe(d)
           \/ TimerSkips \/ MsgQuit \/ StartPump \/ Close \/ UNCHANGED vs
  BY <1>8 DEF Resubscribe, Thread, TimerSkips, MsgQuit, StartPump, Close,
     EndSession, vs, locals
<1> QED
  BY NextCases, <1>1, <1>2, <1>3, <1>4, <1>5, <1>6, <1>7, <1>8, Zenon
     DEF SubscribeMany

\* Whatever the calls, messages and threads do, the slot that get, set and the
\* restore find for a variable is known under its own id, and a subscription
\* keeps its entry until unsubscribe (registry.py:55-108).
THEOREM RegistryAgreement == Spec => []RegistryAgrees
<1>1. Init => RegistryInv
  BY DEF Init, RegistryInv, RegistryAgrees, Id
<1>2. TypeOK /\ WorkInv /\ RegistryInv /\ [Next]_vs => RegistryInv'
  BY NextRegistryInv DEF TypeOK
<1>3. RegistryInv => RegistryAgrees
  BY DEF RegistryInv
<1> QED
  BY <1>1, <1>2, <1>3, TypeCorrect, PTL DEF Spec

-----------------------------------------------------------------------------
(* The two locks, with one application thread.  It holds _lock across DLL  *)
(* calls only while the pump does not run; the pump itself does only       *)
(* between two CallDispatch, which is when it holds no _io_lock.           *)

LockInv ==
    /\ \/ lock = None
       \/ lock \in App /\ pc[lock] \in Working \cup {"apply"} /\ ~running
       \/ lock = Pump /\ call[Pump] = "resubscribe" /\ pc[Pump] = "drop" /\ running
    /\ \/ io = None
       \/ io \in App /\ pc[io] # "idle" /\ ~running
       \/ io = Pump /\ pc[Pump] # "idle" /\ running

LEMMA LockInvNoCycle ==
  ASSUME LockInv, \A a, b \in App : a = b
  PROVE  NoLockCycle
  BY NoneAssumption, ThreadAssumption DEF LockInv, NoLockCycle, Thread

LEMMA NextLockInv ==
  ASSUME DataOK, LockInv, [Next]_vs, "lateSubscribe" \notin Env,
         \A a, b \in App : a = b
  PROVE  LockInv'
<1> USE ThreadAssumption, NoneAssumption
    DEF DataOK, LockInv, Goto, Begin, session, registry, Working, Thread
<1>1. ASSUME NEW t \in Thread,
             \/ Prepare(t) \/ Clear(t) \/ Ensure(t) \/ Failed(t) \/ Add(t)
             \/ Request(t) \/ Snapshot(t)
      PROVE  LockInv'
  <2>1. /\ UNCHANGED <<lock, io, running, call>>
        /\ pc[t] \in Working \cup {"snapshot"}
        /\ \/ pc' = [pc EXCEPT ![t] = "clear"] \/ pc' = [pc EXCEPT ![t] = "ensure"]
           \/ pc' = [pc EXCEPT ![t] = "add"] \/ pc' = [pc EXCEPT ![t] = "request"]
           \/ pc' = [pc EXCEPT ![t] = "apply"]
    BY <1>1 DEF Prepare, Clear, Ensure, Failed, Add, Request, Snapshot
  <2> QED
    BY <2>1
<1>2. ASSUME NEW t \in Thread, Apply(t)
      PROVE  LockInv'
  BY <1>2 DEF Apply
<1>3. ASSUME NEW t \in Thread, Drop(t) \/ Repoll(t)
      PROVE  LockInv'
  BY <1>3 DEF Drop, Repoll
<1>4. ASSUME NEW t \in Thread, Restore(t) \/ Open(t)
      PROVE  LockInv'
  BY <1>4 DEF Restore, Open, locals
<1>5. ASSUME NEW t \in Thread, MsgOpen(t) \/ MsgOther(t)
      PROVE  LockInv'
  BY <1>5 DEF MsgOpen, MsgOther, Dispatches
<1>6. ASSUME NEW t \in Thread, NEW d \in SubId, NEW k, NewSubscription(t, d, k)
      PROVE  LockInv'
  BY <1>6 DEF NewSubscription, MaySubscribe
<1>7. ASSUME NEW t \in Thread, NEW d \in SubId, Unsubscribe(t, d)
      PROVE  LockInv'
  BY <1>7 DEF Unsubscribe
<1>8. ASSUME NEW t \in Thread, NEW v \in Var, Use(t, v)
      PROVE  LockInv'
  <2>1. /\ UNCHANGED <<lock, io, running>> /\ pc[t] = "idle"
        /\ pc' = [pc EXCEPT ![t] = "prepare"]
        /\ call' = [call EXCEPT ![t] = "use"]
    BY <1>8 DEF Use
  <2> QED
    BY <2>1
<1>9. ASSUME NEW d \in SubId, Resubscribe(d)
      PROVE  LockInv'
  BY <1>9 DEF Resubscribe
<1>10. CASE TimerSkips \/ MsgQuit \/ Close \/ UNCHANGED vs
  BY <1>10 DEF TimerSkips, MsgQuit, Close, EndSession, vs, locals
<1>11. CASE StartPump
  BY <1>11 DEF StartPump, locals
<1> QED
  BY NextCases, <1>1, <1>2, <1>3, <1>4, <1>5, <1>6, <1>7, <1>8, <1>9, <1>10,
     <1>11 DEF Subscribe, SubscribeMany

\* An application whose one thread subscribes before the pump runs (the order
\* docs/en/architecture.md recommends) never closes a cycle of the two locks,
\* whatever it calls later and however often sessions are lost and restored.
THEOREM OrderedCallsNoLockCycle ==
  ASSUME "lateSubscribe" \notin Env, \A a, b \in App : a = b
  PROVE  Spec => []NoLockCycle
<1>1. Init => LockInv
  BY DEF Init, LockInv
<1>2. TypeOK /\ LockInv /\ [Next]_vs => LockInv'
  BY NextLockInv DEF TypeOK
<1>3. LockInv => NoLockCycle
  BY LockInvNoCycle
<1> QED
  BY <1>1, <1>2, <1>3, TypeCorrect, PTL DEF Spec
-----------------------------------------------------------------------------
(* Requests.  Whoever adds one either holds _lock, so that unsubscribe has *)
(* not begun, or is in CallDispatch, so that unsubscribe's own call, which *)
(* takes the request away again, is still to come.                         *)

\* d is subscribed to, or its unsubscribe has still to call the DLL.
Held(d) == d \in subs \/ \E u \in Thread : pc[u] = "drop" /\ cur[u] = d

CallOK(t) ==
    /\ io = t => pc[t] \notin {"idle", "drop"}
    /\ pc[t] = "snapshot" => call[t] = "open" /\ io = t
    /\ pc[t] = "repoll" => io = t
    /\ pc[t] \in Working => call[t] \in {"open", "subscribe", "use"}
    /\ pc[t] \in Working \cup {"apply"} /\ call[t] = "open" => io = t
    /\ pc[t] = "drop" => call[t] = "unsubscribe"
    /\ todo[t] # {} => pc[t] \in Working \cup {"apply"} /\ call[t] = "open"
    /\ pc[t] \in Working /\ call[t] = "subscribe" => lock = t

SessionInv ==
    /\ timer = FALSE
    /\ io # None => handle
    /\ ~ handle => asked = {}

HeldInv ==
    /\ \A d \in asked : Held(d)
    /\ \A t \in Thread :
          /\ pc[t] \in Working /\ call[t] = "open" => Held(cur[t])
          /\ pc[t] \in Working /\ call[t] = "subscribe" => cur[t] \in subs
          /\ \A d \in todo[t] : Held(d)

LEMMA NextSessionInv ==
  ASSUME DataOK, SessionInv, [Next]_vs,
         Env \cap {"simStart", "restart", "recovery"} = {}
  PROVE  SessionInv'
<1> USE NoneAssumption, ThreadAssumption DEF DataOK, SessionInv, session, registry, Thread, Begin
<1>1. ASSUME NEW t \in Thread, Prepare(t)
      PROVE  SessionInv'
  BY <1>1 DEF Prepare
<1>2. ASSUME NEW t \in Thread, Clear(t)
      PROVE  SessionInv'
  BY <1>2 DEF Clear
<1>3. ASSUME NEW t \in Thread, Ensure(t)
      PROVE  SessionInv'
  BY <1>3 DEF Ensure
<1>4. ASSUME NEW t \in Thread, Failed(t)
      PROVE  SessionInv'
  BY <1>4 DEF Failed
<1>5. ASSUME NEW t \in Thread, Add(t)
      PROVE  SessionInv'
  BY <1>5 DEF Add
<1>6. ASSUME NEW t \in Thread, Request(t)
      PROVE  SessionInv'
  BY <1>6 DEF Request
<1>7. ASSUME NEW t \in Thread, Apply(t)
      PROVE  SessionInv'
  BY <1>7 DEF Apply
<1>8. ASSUME NEW t \in Thread, Drop(t)
      PROVE  SessionInv'
  BY <1>8 DEF Drop
<1>9. ASSUME NEW t \in Thread, Snapshot(t)
      PROVE  SessionInv'
  BY <1>9 DEF Snapshot
<1>10. ASSUME NEW t \in Thread, Repoll(t)
       PROVE  SessionInv'
  BY <1>10 DEF Repoll
<1>11. ASSUME NEW t \in Thread, Restore(t)
       PROVE  SessionInv'
  BY <1>11 DEF Restore
<1>12. ASSUME NEW t \in Thread, Open(t)
       PROVE  SessionInv'
  BY <1>12 DEF Open, locals
<1>13. ASSUME NEW t \in Thread, MsgOpen(t)
       PROVE  SessionInv'
  BY <1>13 DEF MsgOpen, Dispatches
<1>14. ASSUME NEW t \in Thread, MsgOther(t)
       PROVE  SessionInv'
  BY <1>14 DEF MsgOther, Dispatches
<1>15. ASSUME NEW t \in Thread, NEW d \in SubId, NEW k, NewSubscription(t, d, k)
       PROVE  SessionInv'
  BY <1>15 DEF NewSubscription
<1>16. ASSUME NEW t \in Thread, NEW d \in SubId, Unsubscribe(t, d)
       PROVE  SessionInv'
  BY <1>16 DEF Unsubscribe
<1>17. ASSUME NEW t \in Thread, NEW v \in Var, Use(t, v)
       PROVE  SessionInv'
  BY <1>17 DEF Use, GetOrCreateVar
<1>18. ASSUME NEW d \in SubId, Resubscribe(d)
       PROVE  SessionInv'
  BY <1>18 DEF Resubscribe
<1>19. CASE TimerSkips
  BY <1>19 DEF TimerSkips, locals
<1>20. CASE MsgQuit
  BY <1>20 DEF MsgQuit, EndSession, locals
<1>21. CASE StartPump
  BY <1>21 DEF StartPump, locals
<1>22. CASE Close
  BY <1>22 DEF Close, EndSession, locals
<1>23. CASE UNCHANGED vs
  BY <1>23 DEF vs, locals
<1> QED
  BY NextCases, <1>1, <1>2, <1>3, <1>4, <1>5, <1>6, <1>7, <1>8, <1>9, <1>10,
     <1>11, <1>12, <1>13, <1>14, <1>15, <1>16, <1>17, <1>18, <1>19, <1>20,
     <1>21, <1>22, <1>23 DEF Subscribe, SubscribeMany

LEMMA NextCallOK ==
  ASSUME DataOK, SessionInv, \A u \in Thread : CallOK(u), [Next]_vs,
         Env \cap {"simStart", "restart", "recovery"} = {}
  PROVE  \A u \in Thread : CallOK(u)'
<1> USE NoneAssumption DEF DataOK, SessionInv, CallOK, Working, session, registry, Goto, Begin
<1>1. ASSUME NEW t \in Thread, Prepare(t)
      PROVE  \A u \in Thread : CallOK(u)'
  BY <1>1 DEF Prepare
<1>2. ASSUME NEW t \in Thread, Clear(t)
      PROVE  \A u \in Thread : CallOK(u)'
  BY <1>2 DEF Clear
<1>3. ASSUME NEW t \in Thread, Ensure(t)
      PROVE  \A u \in Thread : CallOK(u)'
  BY <1>3 DEF Ensure
<1>4. ASSUME NEW t \in Thread, Failed(t)
      PROVE  \A u \in Thread : CallOK(u)'
  BY <1>4 DEF Failed
<1>5. ASSUME NEW t \in Thread, Add(t)
      PROVE  \A u \in Thread : CallOK(u)'
  BY <1>5 DEF Add
<1>6. ASSUME NEW t \in Thread, Request(t)
      PROVE  \A u \in Thread : CallOK(u)'
  BY <1>6 DEF Request
<1>7. ASSUME NEW t \in Thread, Apply(t)
      PROVE  \A u \in Thread : CallOK(u)'
  BY <1>7 DEF Apply
<1>8. ASSUME NEW t \in Thread, Drop(t)
      PROVE  \A u \in Thread : CallOK(u)'
  BY <1>8 DEF Drop
<1>9. ASSUME NEW t \in Thread, Snapshot(t)
      PROVE  \A u \in Thread : CallOK(u)'
  BY <1>9 DEF Snapshot
<1>10. ASSUME NEW t \in Thread, Repoll(t)
       PROVE  \A u \in Thread : CallOK(u)'
  BY <1>10 DEF Repoll
<1>11. ASSUME NEW t \in Thread, Restore(t)
       PROVE  \A u \in Thread : CallOK(u)'
  BY <1>11 DEF Restore
<1>12. ASSUME NEW t \in Thread, Open(t)
       PROVE  \A u \in Thread : CallOK(u)'
  BY <1>12 DEF Open, locals
<1>13. ASSUME NEW t \in Thread, MsgOpen(t)
       PROVE  \A u \in Thread : CallOK(u)'
  BY <1>13 DEF MsgOpen, Dispatches
<1>14. ASSUME NEW t \in Thread, MsgOther(t)
       PROVE  \A u \in Thread : CallOK(u)'
  BY <1>14 DEF MsgOther, Dispatches
<1>15. ASSUME NEW t \in Thread, NEW d \in SubId, NEW k, NewSubscription(t, d, k)
       PROVE  \A u \in Thread : CallOK(u)'
  BY <1>15 DEF NewSubscription
<1>16. ASSUME NEW t \in Thread, NEW d \in SubId, Unsubscribe(t, d)
       PROVE  \A u \in Thread : CallOK(u)'
  BY <1>16 DEF Unsubscribe
<1>17. ASSUME NEW t \in Thread, NEW v \in Var, Use(t, v)
       PROVE  \A u \in Thread : CallOK(u)'
  BY <1>17 DEF Use, GetOrCreateVar
<1>18. ASSUME NEW d \in SubId, Resubscribe(d)
       PROVE  \A u \in Thread : CallOK(u)'
  BY <1>18 DEF Resubscribe
<1>19. CASE TimerSkips
  BY <1>19 DEF TimerSkips, locals
<1>20. CASE MsgQuit
  BY <1>20 DEF MsgQuit, EndSession, locals
<1>21. CASE StartPump
  BY <1>21 DEF StartPump, locals
<1>22. CASE Close
  BY <1>22 DEF Close, EndSession, locals
<1>23. CASE UNCHANGED vs
  BY <1>23 DEF vs, locals
<1> QED
  BY NextCases, <1>1, <1>2, <1>3, <1>4, <1>5, <1>6, <1>7, <1>8, <1>9, <1>10,
     <1>11, <1>12, <1>13, <1>14, <1>15, <1>16, <1>17, <1>18, <1>19, <1>20,
     <1>21, <1>22, <1>23 DEF Subscribe, SubscribeMany

LEMMA NextHeldInv ==
  ASSUME DataOK, SessionInv, \A u \in Thread : CallOK(u), HeldInv, [Next]_vs,
         Env \cap {"simStart", "restart", "recovery"} = {}
  PROVE  HeldInv'
<1> USE NoneAssumption DEF DataOK, SessionInv, CallOK, HeldInv, Held, Working, session, registry, Goto, Begin, MayCall
<1>1. ASSUME NEW t \in Thread, Prepare(t)
      PROVE  HeldInv'
  BY <1>1 DEF Prepare
<1>2. ASSUME NEW t \in Thread, Clear(t)
      PROVE  HeldInv'
  BY <1>2 DEF Clear
<1>3. ASSUME NEW t \in Thread, Ensure(t)
      PROVE  HeldInv'
  BY <1>3 DEF Ensure
<1>4. ASSUME NEW t \in Thread, Failed(t)
      PROVE  HeldInv'
  BY <1>4 DEF Failed
<1>5. ASSUME NEW t \in Thread, Add(t)
      PROVE  HeldInv'
  BY <1>5 DEF Add
<1>6. ASSUME NEW t \in Thread, Request(t)
      PROVE  HeldInv'
  BY <1>6 DEF Request
<1>7. ASSUME NEW t \in Thread, Apply(t)
      PROVE  HeldInv'
  BY <1>7 DEF Apply
<1>8. ASSUME NEW t \in Thread, Drop(t)
      PROVE  HeldInv'
  BY <1>8 DEF Drop
<1>9. ASSUME NEW t \in Thread, Snapshot(t)
      PROVE  HeldInv'
  BY <1>9 DEF Snapshot
<1>10. ASSUME NEW t \in Thread, Repoll(t)
       PROVE  HeldInv'
  BY <1>10 DEF Repoll
<1>11. ASSUME NEW t \in Thread, Restore(t)
       PROVE  HeldInv'
  BY <1>11 DEF Restore
<1>12. ASSUME NEW t \in Thread, Open(t)
       PROVE  HeldInv'
  BY <1>12 DEF Open, locals
<1>13. ASSUME NEW t \in Thread, MsgOpen(t)
       PROVE  HeldInv'
  BY <1>13 DEF MsgOpen, Dispatches
<1>14. ASSUME NEW t \in Thread, MsgOther(t)
       PROVE  HeldInv'
  BY <1>14 DEF MsgOther, Dispatches
<1>15. ASSUME NEW t \in Thread, NEW d \in SubId, NEW k, NewSubscription(t, d, k)
       PROVE  HeldInv'
  BY <1>15 DEF NewSubscription
<1>16. ASSUME NEW t \in Thread, NEW d \in SubId, Unsubscribe(t, d)
       PROVE  HeldInv'
  BY <1>16 DEF Unsubscribe
<1>17. ASSUME NEW t \in Thread, NEW v \in Var, Use(t, v)
       PROVE  HeldInv'
  BY <1>17 DEF Use, GetOrCreateVar
<1>18. ASSUME NEW d \in SubId, Resubscribe(d)
       PROVE  HeldInv'
  BY <1>18 DEF Resubscribe
<1>19. CASE TimerSkips
  BY <1>19 DEF TimerSkips, locals
<1>20. CASE MsgQuit
  BY <1>20 DEF MsgQuit, EndSession, locals
<1>21. CASE StartPump
  BY <1>21 DEF StartPump, locals
<1>22. CASE Close
  BY <1>22 DEF Close, EndSession, locals
<1>23. CASE UNCHANGED vs
  BY <1>23 DEF vs, locals
<1> QED
  BY NextCases, <1>1, <1>2, <1>3, <1>4, <1>5, <1>6, <1>7, <1>8, <1>9, <1>10,
     <1>11, <1>12, <1>13, <1>14, <1>15, <1>16, <1>17, <1>18, <1>19, <1>20,
     <1>21, <1>22, <1>23 DEF Subscribe, SubscribeMany

\* Between calls the simulator sends data for live subscriptions only, for any
\* number of threads, subscriptions that share a SimVar, sessions lost in the
\* middle of a call and requests before OPEN (subscribe.py:222-236, 341-373):
\* as long as the OPEN message is the only thing that restores subscriptions.
THEOREM NoGhosts ==
  ASSUME Env \cap {"simStart", "restart", "recovery"} = {}
  PROVE  Spec => []NoGhostRequest
<1> DEFINE GhostInv == SessionInv /\ (\A u \in Thread : CallOK(u)) /\ HeldInv
<1>1. Init => GhostInv
  BY NoneAssumption DEF Init, SessionInv, CallOK, HeldInv, Working
<1>2. TypeOK /\ GhostInv /\ [Next]_vs => GhostInv'
  BY NextSessionInv, NextCallOK, NextHeldInv DEF TypeOK
<1>3. GhostInv => NoGhostRequest
  BY DEF HeldInv, Held, NoGhostRequest, Quiet
<1> QED
  BY <1>1, <1>2, <1>3, TypeCorrect, PTL DEF Spec
-----------------------------------------------------------------------------
(* Restores, from wherever they come: OPEN, the timer, restart_dispatch,   *)
(* the recovery; with sessions lost in the middle of calls, subscriptions  *)
(* made while the pump runs and requests before OPEN.  Two threads may     *)
(* apply one subscription at once, each undoing some of the other's work.  *)

\* One thread subscribes to single variables, once to each, and a variable is
\* either subscribed to or read and written.  With two such threads the one
\* that unsubscribes may take the other's slot out of the registry.
OneSubscriber ==
    /\ (\A a, b \in App : a = b) \/ SubVar = {}
    /\ "shareVars" \notin Env
    /\ SubVar \cap (ReadVar \cup WriteVar) = {}

\* Nobody works on an id that was not given out.
KindInv ==
    /\ \A d \in SubId : kind[d] = "unused" => ~ defined[d]
    /\ \A t \in Thread :
          /\ cur[t] \in SubId => kind[cur[t]] # "unused"
          /\ \A d \in todo[t] : kind[d] # "unused"

\* What is left to do ends with the call, and who drops a definition is the
\* one application thread, or the pump under _lock.
RestInv ==
    \A t \in Thread :
        /\ todo[t] # {} => pc[t] \in Working \cup {"apply"} /\ call[t] # "use"
        /\ pc[t] = "snapshot" => call[t] # "use"
        /\ pc[t] = "drop" => \/ t \in App /\ call[t] # "resubscribe"
                             \/ t = Pump /\ lock = Pump

\* A subscription's slot is the one in _vars, so that ResetFlags reaches it.
SlotInv ==
    /\ \A d \in SubId : keyOf[d] \in SubVar \cup {None}
    /\ \A d \in VarId : keyOf[d] \notin SubVar
    /\ \A d \in SubId : Held(d) /\ keyOf[d] # None => vars[keyOf[d]] = d
    /\ \A t \in Thread :
          pc[t] \in Working /\ call[t] = "use" => cur[t] \in VarId

\* t is going to see to it that d has its definition.
Builds(t, d) ==
    \/ pc[t] = "snapshot" \/ d \in todo[t]
    \/ cur[t] = d /\ pc[t] \in {"prepare", "clear", "ensure", "add"}
    \/ cur[t] = d /\ pc[t] = "drop" /\ call[t] = "resubscribe"

\* t took the definition away and has not yet noticed that its flag is up.
Noticing(t, d) ==
    cur[t] = d /\ call[t] = "resubscribe" /\ pc[t] \in {"prepare", "clear"}

\* What a subscription of an open session lacks, some thread is going to do;
\* and no thread skips the definition because of a flag that is up wrongly.
Owed(d) ==
    /\ dll[d] = 0 => \E t \in Thread : Builds(t, d)
    /\ d \notin asked => \E t \in Thread :
          Builds(t, d) \/ (cur[t] = d /\ pc[t] = "request")
    /\ kind[d] = "single" /\ defined[d] /\ dll[d] = 0 =>
          \E t \in Thread : Noticing(t, d)

OwedInv == Ready => \A d \in subs : Owed(d)

LEMMA UseHasVarId ==
  ASSUME DataOK, RegistryInv, SlotInv, OneSubscriber,
         NEW v \in ReadVar \cup WriteVar, vars[v] # None
  PROVE  vars[v] \in VarId
  BY NoneAssumption DEF DataOK, RegistryInv, RegistryAgrees, SlotInv,
     OneSubscriber, Var, Id

\* Preparing a subscription finds its own slot.
LEMMA FindsOwnSlot ==
  ASSUME DataOK, RegistryInv, SlotInv, NEW d \in subs, kind[d] = "single"
  PROVE  VarByDefineId(d) = d
  BY DEF DataOK, RegistryInv, RegistryAgrees, SlotInv, Held, VarByDefineId

LEMMA NextKindInv ==
  ASSUME DataOK, FlagsOK, WorkInv, RegistryInv, SlotInv, KindInv, [Next]_vs,
         OneSubscriber
  PROVE  KindInv'
<1> USE NoneAssumption, IdAssumption DEF DataOK, FlagsOK, KindInv, Id, Working, session, registry, Goto, Begin
<1>1. ASSUME NEW t \in Thread, Prepare(t)
      PROVE  KindInv'
  BY <1>1 DEF Prepare
<1>2. ASSUME NEW t \in Thread, Clear(t)
      PROVE  KindInv'
  BY <1>2 DEF Clear
<1>3. ASSUME NEW t \in Thread, Ensure(t)
      PROVE  KindInv'
  BY <1>3 DEF Ensure
<1>4. ASSUME NEW t \in Thread, Failed(t)
      PROVE  KindInv'
  BY <1>4 DEF Failed
<1>5. ASSUME NEW t \in Thread, Add(t)
      PROVE  KindInv'
  BY <1>5 DEF Add
<1>6. ASSUME NEW t \in Thread, Request(t)
      PROVE  KindInv'
  BY <1>6 DEF Request
<1>7. ASSUME NEW t \in Thread, Apply(t)
      PROVE  KindInv'
  BY <1>7 DEF Apply
<1>8. ASSUME NEW t \in Thread, Drop(t)
      PROVE  KindInv'
  BY <1>8 DEF Drop, Release, ReleaseDefineId
<1>9. ASSUME NEW t \in Thread, Snapshot(t)
      PROVE  KindInv'
  BY <1>9 DEF Snapshot, RegistryInv
<1>10. ASSUME NEW t \in Thread, Repoll(t)
      PROVE  KindInv'
  BY <1>10 DEF Repoll
<1>11. ASSUME NEW t \in Thread, Restore(t)
      PROVE  KindInv'
  BY <1>11 DEF Restore, ResetFlags
<1>12. ASSUME NEW t \in Thread, Open(t)
      PROVE  KindInv'
  BY <1>12 DEF Open, locals
<1>13. ASSUME NEW t \in Thread, MsgOpen(t)
      PROVE  KindInv'
  BY <1>13 DEF MsgOpen, Dispatches, ResetFlags
<1>14. ASSUME NEW t \in Thread, MsgOther(t)
      PROVE  KindInv'
  BY <1>14 DEF MsgOther, Dispatches
<1>15. ASSUME NEW t \in Thread, NEW d \in SubId, SubscribeMany(t, d)
      PROVE  KindInv'
  BY <1>15 DEF SubscribeMany, NewSubscription
<1>16. ASSUME NEW t \in Thread, NEW d \in SubId, NEW v \in SubVar,
             Subscribe(t, d, v)
      PROVE  KindInv'
  BY <1>16 DEF Subscribe, NewSubscription, BindSubscriptionVar
<1>17. ASSUME NEW t \in Thread, NEW d \in SubId, Unsubscribe(t, d)
      PROVE  KindInv'
  BY <1>17 DEF Unsubscribe, RegistryInv
<1>18. ASSUME NEW t \in Thread, NEW v \in Var, Use(t, v)
      PROVE  KindInv'
  BY <1>18, UseHasVarId DEF Use, GetOrCreateVar, BindSubscriptionVar
<1>19. ASSUME NEW d \in SubId, Resubscribe(d)
      PROVE  KindInv'
  BY <1>19 DEF Resubscribe, RegistryInv
<1>20. CASE TimerSkips
  BY <1>20 DEF TimerSkips, locals
<1>21. CASE MsgQuit
  BY <1>21 DEF MsgQuit, EndSession, locals
<1>22. CASE StartPump
  BY <1>22 DEF StartPump, locals
<1>23. CASE Close
  BY <1>23 DEF Close, EndSession, ResetFlags, locals
<1>24. CASE UNCHANGED vs
  BY <1>24 DEF vs, locals
<1> QED
  BY NextCases, <1>1, <1>2, <1>3, <1>4, <1>5, <1>6, <1>7, <1>8, <1>9, <1>10,
     <1>11, <1>12, <1>13, <1>14, <1>15, <1>16, <1>17, <1>18, <1>19, <1>20,
     <1>21, <1>22, <1>23, <1>24, Zenon

LEMMA NextRestInv ==
  ASSUME DataOK, RestInv, [Next]_vs
  PROVE  RestInv'
<1> USE NoneAssumption, ThreadAssumption DEF DataOK, RestInv, Working, session, registry, Goto, Begin, Thread
<1>1. ASSUME NEW t \in Thread, Prepare(t)
      PROVE  RestInv'
  BY <1>1 DEF Prepare
<1>2. ASSUME NEW t \in Thread, Clear(t)
      PROVE  RestInv'
  BY <1>2 DEF Clear
<1>3. ASSUME NEW t \in Thread, Ensure(t)
      PROVE  RestInv'
  BY <1>3 DEF Ensure
<1>4. ASSUME NEW t \in Thread, Failed(t)
      PROVE  RestInv'
  BY <1>4 DEF Failed
<1>5. ASSUME NEW t \in Thread, Add(t)
      PROVE  RestInv'
  BY <1>5 DEF Add
<1>6. ASSUME NEW t \in Thread, Request(t)
      PROVE  RestInv'
  BY <1>6 DEF Request
<1>7. ASSUME NEW t \in Thread, Apply(t)
      PROVE  RestInv'
  BY <1>7 DEF Apply
<1>8. ASSUME NEW t \in Thread, Drop(t)
      PROVE  RestInv'
  BY <1>8 DEF Drop, Release, ReleaseDefineId
<1>9. ASSUME NEW t \in Thread, Snapshot(t)
      PROVE  RestInv'
  BY <1>9 DEF Snapshot
<1>10. ASSUME NEW t \in Thread, Repoll(t)
      PROVE  RestInv'
  BY <1>10 DEF Repoll
<1>11. ASSUME NEW t \in Thread, Restore(t)
      PROVE  RestInv'
  BY <1>11 DEF Restore, ResetFlags
<1>12. ASSUME NEW t \in Thread, Open(t)
      PROVE  RestInv'
  BY <1>12 DEF Open, locals
<1>13. ASSUME NEW t \in Thread, MsgOpen(t)
      PROVE  RestInv'
  BY <1>13 DEF MsgOpen, Dispatches, ResetFlags
<1>14. ASSUME NEW t \in Thread, MsgOther(t)
      PROVE  RestInv'
  BY <1>14 DEF MsgOther, Dispatches
<1>15. ASSUME NEW t \in Thread, NEW d \in SubId, SubscribeMany(t, d)
      PROVE  RestInv'
  BY <1>15 DEF SubscribeMany, NewSubscription
<1>16. ASSUME NEW t \in Thread, NEW d \in SubId, NEW v \in SubVar,
             Subscribe(t, d, v)
      PROVE  RestInv'
  BY <1>16 DEF Subscribe, NewSubscription, BindSubscriptionVar
<1>17. ASSUME NEW t \in Thread, NEW d \in SubId, Unsubscribe(t, d)
      PROVE  RestInv'
  BY <1>17 DEF Unsubscribe
<1>18. ASSUME NEW t \in Thread, NEW v \in Var, Use(t, v)
      PROVE  RestInv'
  BY <1>18 DEF Use, GetOrCreateVar, BindSubscriptionVar
<1>19. ASSUME NEW d \in SubId, Resubscribe(d)
      PROVE  RestInv'
  BY <1>19 DEF Resubscribe
<1>20. CASE TimerSkips
  BY <1>20 DEF TimerSkips, locals
<1>21. CASE MsgQuit
  BY <1>21 DEF MsgQuit, EndSession, locals
<1>22. CASE StartPump
  BY <1>22 DEF StartPump, locals
<1>23. CASE Close
  BY <1>23 DEF Close, EndSession, ResetFlags, locals
<1>24. CASE UNCHANGED vs
  BY <1>24 DEF vs, locals
<1> QED
  BY NextCases, <1>1, <1>2, <1>3, <1>4, <1>5, <1>6, <1>7, <1>8, <1>9, <1>10,
     <1>11, <1>12, <1>13, <1>14, <1>15, <1>16, <1>17, <1>18, <1>19, <1>20,
     <1>21, <1>22, <1>23, <1>24, Zenon

LEMMA NextSlotInv ==
  ASSUME DataOK, WorkInv, RegistryInv, RestInv, SlotInv, [Next]_vs,
         OneSubscriber
  PROVE  SlotInv'
<1> USE NoneAssumption, IdAssumption DEF DataOK, SlotInv, Held, Working, session, registry, Goto, Begin, Id
<1>1. ASSUME NEW t \in Thread, Prepare(t)
      PROVE  SlotInv'
  BY <1>1 DEF Prepare
<1>2. ASSUME NEW t \in Thread, Clear(t)
      PROVE  SlotInv'
  BY <1>2 DEF Clear
<1>3. ASSUME NEW t \in Thread, Ensure(t)
      PROVE  SlotInv'
  BY <1>3 DEF Ensure
<1>4. ASSUME NEW t \in Thread, Failed(t)
      PROVE  SlotInv'
  BY <1>4 DEF Failed
<1>5. ASSUME NEW t \in Thread, Add(t)
      PROVE  SlotInv'
  BY <1>5 DEF Add
<1>6. ASSUME NEW t \in Thread, Request(t)
      PROVE  SlotInv'
  BY <1>6 DEF Request
<1>7. ASSUME NEW t \in Thread, Apply(t)
      PROVE  SlotInv'
  BY <1>7 DEF Apply, RestInv
<1>8. ASSUME NEW t \in Thread, Drop(t)
      PROVE  SlotInv'
  <2>1. CASE call[t] = "resubscribe"
    BY <1>8, <2>1 DEF Drop, WorkInv
  <2>2. CASE call[t] # "resubscribe"
    <3>1. /\ cur' = cur /\ subs' = subs /\ call' = call
          /\ pc' = [pc EXCEPT ![t] = "apply"]
          /\ cur[t] \in SubId /\ Release(cur[t])
      BY <1>8, <2>2 DEF Drop, WorkInv
    <3>2. Held(cur[t]) /\ \A d \in SubId : Held(d)' => Held(d)
      BY <1>8, <3>1 DEF Drop
    <3>3. CASE UNCHANGED registry
      BY <3>1, <3>2, <3>3
    <3>4. CASE ReleaseDefineId(cur[t])
      <4>1. ASSUME NEW d \in SubId, Held(d)', keyOf'[d] # None
            PROVE  vars'[keyOf'[d]] = d
        <5>1. Held(d) /\ d # cur[t] /\ keyOf'[d] = keyOf[d]
          BY <3>1, <3>2, <3>4, <4>1 DEF ReleaseDefineId
        <5>2. vars[keyOf[d]] = d /\ keyOf[d] \in Var
          BY <4>1, <5>1
        <5>3. keyOf[cur[t]] # None => vars[keyOf[cur[t]]] = cur[t]
          BY <3>1, <3>2
        <5> QED
          BY <3>1, <3>4, <5>1, <5>2, <5>3 DEF ReleaseDefineId
      <4> QED
        BY <3>1, <3>4, <4>1 DEF ReleaseDefineId
    <3> QED
      BY <3>1, <3>3, <3>4 DEF Release
  <2> QED
    BY <2>1, <2>2
<1>9. ASSUME NEW t \in Thread, Snapshot(t)
      PROVE  SlotInv'
  BY <1>9 DEF Snapshot
<1>10. ASSUME NEW t \in Thread, Repoll(t)
      PROVE  SlotInv'
  BY <1>10 DEF Repoll
<1>11. ASSUME NEW t \in Thread, Restore(t)
      PROVE  SlotInv'
  BY <1>11 DEF Restore, ResetFlags
<1>12. ASSUME NEW t \in Thread, Open(t)
      PROVE  SlotInv'
  BY <1>12 DEF Open, locals
<1>13. ASSUME NEW t \in Thread, MsgOpen(t)
      PROVE  SlotInv'
  BY <1>13 DEF MsgOpen, Dispatches, ResetFlags
<1>14. ASSUME NEW t \in Thread, MsgOther(t)
      PROVE  SlotInv'
  BY <1>14 DEF MsgOther, Dispatches
<1>15. ASSUME NEW t \in Thread, NEW d \in SubId, SubscribeMany(t, d)
      PROVE  SlotInv'
  BY <1>15 DEF SubscribeMany, NewSubscription, RegistryInv
<1>16. ASSUME NEW t \in Thread, NEW d \in SubId, NEW v \in SubVar,
             Subscribe(t, d, v)
      PROVE  SlotInv'
  <2>1. /\ t \in App /\ pc[t] = "idle" /\ lock = None
        /\ \A s \in subs : keyOf[s] # v
        /\ v \in Var /\ v # None /\ d \notin subs
    BY <1>16 DEF Subscribe, NewSubscription, OneSubscriber, Var, RegistryInv
  <2>2. /\ vars' = [vars EXCEPT ![v] = d] /\ keyOf' = [keyOf EXCEPT ![d] = v]
        /\ subs' = subs \cup {d} /\ call' = [call EXCEPT ![t] = "subscribe"]
        /\ pc' = [pc EXCEPT ![t] = pc'[t]] /\ pc'[t] \in {"prepare", "apply"}
        /\ \A u \in Thread : u # t => cur'[u] = cur[u]
    BY <1>16 DEF Subscribe, NewSubscription, BindSubscriptionVar
  <2>3. \A u \in Thread : pc[u] # "drop"
    BY <2>1, NoneAssumption DEF RestInv, OneSubscriber, Thread
  <2>4. ASSUME NEW e \in SubId, Held(e)', keyOf'[e] # None
        PROVE  vars'[keyOf'[e]] = e
    <3>1. CASE e = d
      BY <2>1, <2>2, <3>1
    <3>2. CASE e # d
      <4>1. e \in subs
        BY <2>2, <2>3, <2>4, <3>2
      <4>2. keyOf'[e] = keyOf[e] /\ keyOf[e] # v
        BY <2>1, <2>2, <3>2, <4>1
      <4> QED
        BY <2>2, <2>4, <4>1, <4>2
    <3> QED
      BY <3>1, <3>2
  <2>5. \A u \in Thread : pc'[u] \in Working /\ call'[u] = "use"
                            => cur'[u] \in VarId
    BY <2>2
  <2> QED
    BY <2>1, <2>2, <2>4, <2>5
<1>17. ASSUME NEW t \in Thread, NEW d \in SubId, Unsubscribe(t, d)
      PROVE  SlotInv'
  BY <1>17 DEF Unsubscribe
<1>18. ASSUME NEW t \in Thread, NEW v \in Var, Use(t, v)
      PROVE  SlotInv'
  BY <1>18, UseHasVarId DEF Use, GetOrCreateVar, BindSubscriptionVar, OneSubscriber, Var
<1>19. ASSUME NEW d \in SubId, Resubscribe(d)
      PROVE  SlotInv'
  BY <1>19 DEF Resubscribe
<1>20. CASE TimerSkips
  BY <1>20 DEF TimerSkips, locals
<1>21. CASE MsgQuit
  BY <1>21 DEF MsgQuit, EndSession, locals
<1>22. CASE StartPump
  BY <1>22 DEF StartPump, locals
<1>23. CASE Close
  BY <1>23 DEF Close, EndSession, ResetFlags, locals
<1>24. CASE UNCHANGED vs
  BY <1>24 DEF vs, locals
<1> QED
  BY NextCases, <1>1, <1>2, <1>3, <1>4, <1>5, <1>6, <1>7, <1>8, <1>9, <1>10,
     <1>11, <1>12, <1>13, <1>14, <1>15, <1>16, <1>17, <1>18, <1>19, <1>20,
     <1>21, <1>22, <1>23, <1>24, Zenon

LEMMA NextOwedInv ==
  ASSUME DataOK, FlagsOK, WorkInv, RegistryInv, RestInv, SlotInv,
         KindInv, OwedInv, [Next]_vs, OneSubscriber
  PROVE  OwedInv'
<1> USE NoneAssumption DEF DataOK, FlagsOK, OwedInv, Owed, Builds, Noticing, Working, session, registry, Goto, Begin, Id, Ready
<1>1. ASSUME NEW t \in Thread, Prepare(t)
      PROVE  OwedInv'
  BY <1>1, FindsOwnSlot DEF Prepare
<1>2. ASSUME NEW t \in Thread, Clear(t)
      PROVE  OwedInv'
  <2> SUFFICES ASSUME Ready', NEW d \in subs
               PROVE  Owed(d)'
    BY <1>2 DEF Clear, OwedInv
  <2>1. /\ UNCHANGED <<handle, opened, asked, subs, kind, cur, call, todo>>
        /\ pc[t] = "clear" /\ pc' = [pc EXCEPT ![t] = "ensure"]
        /\ dll' = [dll EXCEPT ![cur[t]] = 0]
    BY <1>2 DEF Clear
  <2>2. Owed(d)
    BY <2>1
  <2>3. \A e \in Id : defined'[e] => defined[e]
    BY <1>2 DEF Clear
  <2>4. CASE cur[t] = d
    <3>1. kind[d] = "single" => ~ defined'[d]
      BY <1>2, <2>4, FindsOwnSlot DEF Clear
    <3> QED
      BY <2>1, <2>2, <2>4, <3>1
  <2>5. CASE cur[t] # d
    BY <2>1, <2>2, <2>3, <2>5
  <2> QED
    BY <2>4, <2>5
<1>3. ASSUME NEW t \in Thread, Ensure(t)
      PROVE  OwedInv'
  BY <1>3 DEF Ensure, IsMany, RegistryInv
<1>4. ASSUME NEW t \in Thread, Failed(t)
      PROVE  OwedInv'
  BY <1>4 DEF Failed
<1>5. ASSUME NEW t \in Thread, Add(t)
      PROVE  OwedInv'
  BY <1>5 DEF Add
<1>6. ASSUME NEW t \in Thread, Request(t)
      PROVE  OwedInv'
  BY <1>6, IdAssumption DEF Request, SlotInv
<1>7. ASSUME NEW t \in Thread, Apply(t)
      PROVE  OwedInv'
  BY <1>7 DEF Apply
<1>8. ASSUME NEW t \in Thread, Drop(t)
      PROVE  OwedInv'
  BY <1>8 DEF Drop, Release, ReleaseDefineId, RegistryInv, WorkInv
<1>9. ASSUME NEW t \in Thread, Snapshot(t)
      PROVE  OwedInv'
  BY <1>9 DEF Snapshot
<1>10. ASSUME NEW t \in Thread, Repoll(t)
      PROVE  OwedInv'
  BY <1>10 DEF Repoll
<1>11. ASSUME NEW t \in Thread, Restore(t)
      PROVE  OwedInv'
  BY <1>11 DEF Restore, ResetFlags
<1>12. ASSUME NEW t \in Thread, Open(t)
      PROVE  OwedInv'
  BY <1>12 DEF Open, locals
<1>13. ASSUME NEW t \in Thread, MsgOpen(t)
      PROVE  OwedInv'
  BY <1>13 DEF MsgOpen, Dispatches, ResetFlags, RegistryInv, RegistryAgrees, SlotInv, Held
<1>14. ASSUME NEW t \in Thread, MsgOther(t)
      PROVE  OwedInv'
  BY <1>14 DEF MsgOther, Dispatches
<1>15. ASSUME NEW t \in Thread, NEW d \in SubId, SubscribeMany(t, d)
      PROVE  OwedInv'
  BY <1>15 DEF SubscribeMany, NewSubscription
<1>16. ASSUME NEW t \in Thread, NEW d \in SubId, NEW v \in SubVar,
             Subscribe(t, d, v)
      PROVE  OwedInv'
  BY <1>16 DEF Subscribe, NewSubscription, BindSubscriptionVar, KindInv
<1>17. ASSUME NEW t \in Thread, NEW d \in SubId, Unsubscribe(t, d)
      PROVE  OwedInv'
  BY <1>17 DEF Unsubscribe
<1>18. ASSUME NEW t \in Thread, NEW v \in Var, Use(t, v)
      PROVE  OwedInv'
  BY <1>18 DEF Use, GetOrCreateVar, BindSubscriptionVar
<1>19. ASSUME NEW d \in SubId, Resubscribe(d)
      PROVE  OwedInv'
  BY <1>19 DEF Resubscribe
<1>20. CASE TimerSkips
  BY <1>20 DEF TimerSkips, locals
<1>21. CASE MsgQuit
  BY <1>21 DEF MsgQuit, EndSession, locals
<1>22. CASE StartPump
  BY <1>22 DEF StartPump, locals
<1>23. CASE Close
  BY <1>23 DEF Close, EndSession, ResetFlags, locals
<1>24. CASE UNCHANGED vs
  BY <1>24 DEF vs, locals
<1> QED
  BY NextCases, <1>1, <1>2, <1>3, <1>4, <1>5, <1>6, <1>7, <1>8, <1>9, <1>10,
     <1>11, <1>12, <1>13, <1>14, <1>15, <1>16, <1>17, <1>18, <1>19, <1>20,
     <1>21, <1>22, <1>23, <1>24, Zenon

LEMMA SubscriptionsKept ==
  ASSUME OneSubscriber
  PROVE  Spec => [](RegistryInv /\ KindInv /\ RestInv /\ SlotInv /\ OwedInv)
<1> DEFINE Base == TypeOK /\ WorkInv
           Rest == RegistryInv /\ KindInv /\ RestInv /\ SlotInv /\ OwedInv
<1>1. Init => Rest
  <2> SUFFICES ASSUME Init PROVE Rest
    OBVIOUS
  <2> USE NoneAssumption DEF Init, Working, Id
  <2>1. RegistryInv
    BY DEF RegistryInv, RegistryAgrees
  <2>2. KindInv /\ RestInv
    BY DEF KindInv, RestInv
  <2>3. SlotInv
    BY DEF SlotInv, Held, Var
  <2>4. OwedInv
    BY DEF OwedInv, Ready
  <2> QED
    BY <2>1, <2>2, <2>3, <2>4
<1>2. Base /\ Rest /\ [Next]_vs => Rest'
  BY NextRegistryInv, NextKindInv, NextRestInv, NextSlotInv, NextOwedInv
     DEF TypeOK
<1> QED
  BY <1>1, <1>2, TypeCorrect, PTL DEF Spec

\* Between calls every subscription of an open session has its definition and
\* its request, wherever restores come from and whenever sessions were lost
\* (subscribe.py:519-537, client.py:690-722), if one thread calls the client.
THEOREM RestoreReachesAll ==
  ASSUME OneSubscriber
  PROVE  Spec => []RestoredWhenQuiet
<1>1. RestInv /\ OwedInv => RestoredWhenQuiet
  BY DEF RestInv, OwedInv, Owed, Builds, Working, RestoredWhenQuiet, Quiet
<1> QED
  BY <1>1, SubscriptionsKept, PTL

\* A request for a live subscription whose definition is gone is never the
\* last word (subscribe.py:428-460): the restore on another thread, or the
\* recovery, that cleared it (:374-384) is on its way to add it again.
\* Sessions may end in the middle of a call and requests precede OPEN.
THEOREM LostDefinitionsComeBack ==
  ASSUME OneSubscriber
  PROVE  Spec => []RequestsAreDefined
<1>1. ASSUME DataOK, RegistryInv, OwedInv
      PROVE  RequestsAreDefined
  <2> SUFFICES ASSUME NEW t \in Thread, Ready, cur[t] \in subs, dll[cur[t]] = 0
               PROVE  \E u \in Thread : Rebuilds(u, cur[t])
    BY DEF RequestsAreDefined
  <2>1. Owed(cur[t]) /\ cur[t] \in SubId
    BY <1>1 DEF OwedInv, DataOK
  <2>2. kind[cur[t]] \in {"single", "many"}
    BY <1>1, <2>1 DEF RegistryInv, DataOK
  <2>3. CASE kind[cur[t]] = "single" /\ defined[cur[t]]
    BY <2>1, <2>3 DEF Owed, Noticing, Rebuilds
  <2>4. CASE ~ (kind[cur[t]] = "single" /\ defined[cur[t]])
    BY <2>1, <2>2, <2>4 DEF Owed, Builds, Rebuilds, IsMany
  <2> QED
    BY <2>3, <2>4
<1>2. TypeOK /\ RegistryInv /\ OwedInv => RequestsAreDefined
  BY <1>1 DEF TypeOK
<1> QED
  BY <1>2, TypeCorrect, SubscriptionsKept, PTL
-----------------------------------------------------------------------------
(* Fields, when only OPEN and the recovery on the pump apply subscriptions *)
(* again.  A restore by the timer or by restart_dispatch, a session lost   *)
(* in the middle of a call or a request before OPEN adds fields twice.     *)

\* One application thread that subscribes before the pump runs; no variable is
\* used in two ways; sessions end between calls; the pump's recovery may run,
\* the SimStart timer and restart_dispatch do not.
OnePumpRestores ==
    /\ \A a, b \in App : a = b
    /\ Env \subseteq {"recovery"}
    /\ SubVar \cap (ReadVar \cup WriteVar) = {} /\ ReadVar \cap WriteVar = {}

\* t applies subscriptions, or is about to.
Applying(t) ==
    pc[t] = "snapshot" \/ todo[t] # {} \/ (pc[t] \in Working /\ call[t] # "use")

\* t works on subscription d, or is going to.
Applied(t, d) ==
    d \in todo[t] \/ (cur[t] = d /\ pc[t] \in Working /\ call[t] # "use")

\* Who may be at work: in an open session, and the application's thread applies
\* subscriptions only while there is no pump to do it.
WhoInv ==
    /\ opened => handle
    /\ timer = FALSE /\ pc[Timer] = "idle"
    /\ pc[Pump] # "idle" => running
    /\ \A t \in Thread :
          /\ Applying(t) => opened /\ (t \in App => ~ running)
          /\ pc[t] \in Working \/ (pc[t] = "drop" /\ call[t] = "resubscribe") => opened

\* Get and set keep their slots, each its own; a subscription that is being
\* applied has its slot, or has lost it to unsubscribe.
UseInv ==
    /\ \A d \in VarId : keyOf[d] # None => vars[keyOf[d]] = d
    /\ \A t \in Thread :
          /\ pc[t] \in Working /\ call[t] = "use" =>
                keyOf[cur[t]] \in (IF t = Pump THEN WriteVar ELSE ReadVar)
          /\ pc[t] = "drop" /\ call[t] = "resubscribe" => cur[t] \in subs
          /\ \A d \in SubId : Applied(t, d) /\ keyOf[d] # None => Held(d)

\* A definition that is going to be added has no fields.
FieldInv ==
    /\ ~ opened => \A d \in Id : dll[d] = 0
    /\ \A d \in Id : dll[d] <= 1 /\ (defined[d] \/ dll[d] = 0)
    /\ \A d \in SubId : kind[d] = "unused" => dll[d] = 0
    /\ \A t \in Thread :
          /\ pc[t] = "snapshot" => \A d \in SubId : dll[d] = 0
          /\ \A d \in todo[t] : dll[d] = 0
          /\ pc[t] \in Working => cur[t] \notin todo[t]
          /\ pc[t] \in Working \ {"request"} /\ call[t] # "use" => dll[cur[t]] = 0
          /\ pc[t] = "add" => dll[cur[t]] = 0

LEMMA NextWhoInv ==
  ASSUME DataOK, RestInv, WhoInv, [Next]_vs, OnePumpRestores
  PROVE  WhoInv'
<1> USE NoneAssumption, ThreadAssumption
    DEF DataOK, RestInv, OnePumpRestores, WhoInv, Applying, Working, Thread,
        session, registry, Goto, Begin, MaySubscribe, Ready
<1>1. ASSUME NEW t \in Thread, Prepare(t)
      PROVE  WhoInv'
  BY <1>1 DEF Prepare
<1>2. ASSUME NEW t \in Thread, Clear(t)
      PROVE  WhoInv'
  BY <1>2 DEF Clear
<1>3. ASSUME NEW t \in Thread, Ensure(t)
      PROVE  WhoInv'
  BY <1>3 DEF Ensure
<1>4. ASSUME NEW t \in Thread, Failed(t)
      PROVE  WhoInv'
  BY <1>4 DEF Failed
<1>5. ASSUME NEW t \in Thread, Add(t)
      PROVE  WhoInv'
  BY <1>5 DEF Add
<1>6. ASSUME NEW t \in Thread, Request(t)
      PROVE  WhoInv'
  BY <1>6 DEF Request
<1>7. ASSUME NEW t \in Thread, Apply(t)
      PROVE  WhoInv'
  BY <1>7 DEF Apply
<1>8. ASSUME NEW t \in Thread, Drop(t)
      PROVE  WhoInv'
  BY <1>8 DEF Drop, Release, ReleaseDefineId
<1>9. ASSUME NEW t \in Thread, Snapshot(t)
      PROVE  WhoInv'
  BY <1>9 DEF Snapshot
<1>10. ASSUME NEW t \in Thread, Repoll(t)
      PROVE  WhoInv'
  BY <1>10 DEF Repoll
<1>11. ASSUME NEW t \in Thread, Restore(t)
      PROVE  WhoInv'
  BY <1>11 DEF Restore, ResetFlags
<1>12. ASSUME NEW t \in Thread, Open(t)
      PROVE  WhoInv'
  BY <1>12 DEF Open, locals
<1>13. ASSUME NEW t \in Thread, MsgOpen(t)
      PROVE  WhoInv'
  BY <1>13 DEF MsgOpen, Dispatches, ResetFlags
<1>14. ASSUME NEW t \in Thread, MsgOther(t)
      PROVE  WhoInv'
  BY <1>14 DEF MsgOther, Dispatches
<1>15. ASSUME NEW t \in Thread, NEW d \in SubId, SubscribeMany(t, d)
      PROVE  WhoInv'
  BY <1>15 DEF SubscribeMany, NewSubscription
<1>16. ASSUME NEW t \in Thread, NEW d \in SubId, NEW v \in SubVar,
             Subscribe(t, d, v)
      PROVE  WhoInv'
  BY <1>16 DEF Subscribe, NewSubscription, BindSubscriptionVar
<1>17. ASSUME NEW t \in Thread, NEW d \in SubId, Unsubscribe(t, d)
      PROVE  WhoInv'
  BY <1>17 DEF Unsubscribe
<1>18. ASSUME NEW t \in Thread, NEW v \in Var, Use(t, v)
      PROVE  WhoInv'
  BY <1>18 DEF Use, GetOrCreateVar, BindSubscriptionVar
<1>19. ASSUME NEW d \in SubId, Resubscribe(d)
      PROVE  WhoInv'
  BY <1>19 DEF Resubscribe
<1>20. CASE TimerSkips
  BY <1>20 DEF TimerSkips, locals
<1>21. CASE MsgQuit
  BY <1>21 DEF MsgQuit, EndSession, locals
<1>22. CASE StartPump
  BY <1>22 DEF StartPump, locals
<1>23. CASE Close
  BY <1>23 DEF Close, EndSession, ResetFlags, locals
<1>24. CASE UNCHANGED vs
  BY <1>24 DEF vs, locals
<1> QED
  BY NextCases, <1>1, <1>2, <1>3, <1>4, <1>5, <1>6, <1>7, <1>8, <1>9, <1>10,
     <1>11, <1>12, <1>13, <1>14, <1>15, <1>16, <1>17, <1>18, <1>19, <1>20,
     <1>21, <1>22, <1>23, <1>24, Zenon

LEMMA NextUseInv ==
  ASSUME DataOK, WorkInv, RegistryInv, RestInv, SlotInv, WhoInv,
         UseInv, [Next]_vs, OnePumpRestores
  PROVE  UseInv'
<1> USE NoneAssumption, IdAssumption, ThreadAssumption
    DEF DataOK, RestInv, OnePumpRestores, UseInv, Applied, Held, Working,
        session, registry, Goto, Begin, Id
<1>1. ASSUME NEW t \in Thread, Prepare(t)
      PROVE  UseInv'
  BY <1>1 DEF Prepare
<1>2. ASSUME NEW t \in Thread, Clear(t)
      PROVE  UseInv'
  BY <1>2 DEF Clear
<1>3. ASSUME NEW t \in Thread, Ensure(t)
      PROVE  UseInv'
  BY <1>3 DEF Ensure
<1>4. ASSUME NEW t \in Thread, Failed(t)
      PROVE  UseInv'
  BY <1>4 DEF Failed
<1>5. ASSUME NEW t \in Thread, Add(t)
      PROVE  UseInv'
  BY <1>5 DEF Add
<1>6. ASSUME NEW t \in Thread, Request(t)
      PROVE  UseInv'
  BY <1>6 DEF Request
<1>7. ASSUME NEW t \in Thread, Apply(t)
      PROVE  UseInv'
  BY <1>7 DEF Apply
<1>8. ASSUME NEW t \in Thread, Drop(t)
      PROVE  UseInv'
  <2>1. /\ UNCHANGED <<subs, call, cur, todo>> /\ cur[t] \in SubId
        /\ pc[t] = "drop" /\ Held(cur[t])
        /\ \A u \in Thread : u # t => pc'[u] = pc[u]
    BY <1>8 DEF Drop, WorkInv
  <2>2. \A d \in SubId : Held(d) /\ d # cur[t] => Held(d)'
    BY <2>1
  <2>3. todo[t] = {}
    BY <2>1
  <2>4. CASE call[t] = "resubscribe"
    <3>1. cur[t] \in subs /\ UNCHANGED registry /\ pc'[t] = "prepare"
      BY <1>8, <2>1, <2>4 DEF Drop
    <3>2. Held(cur[t])'
      BY <2>1, <3>1
    <3>3. \A u \in Thread, d \in SubId :
             Applied(u, d)' => Applied(u, d) \/ d = cur[t]
      BY <2>1
    <3> QED
      BY <2>1, <2>2, <2>4, <3>1, <3>2, <3>3
  <2>5. CASE call[t] # "resubscribe"
    <3>1. pc'[t] = "apply" /\ Release(cur[t])
      BY <1>8, <2>5 DEF Drop
    <3>2. keyOf[cur[t]] # None =>
             vars[keyOf[cur[t]]] = cur[t] /\ keyOf[cur[t]] \in SubVar
      BY <2>1 DEF SlotInv
    <3>3. keyOf' = [keyOf EXCEPT ![cur[t]] = None]
      BY <2>1, <3>1, <3>2 DEF Release, ReleaseDefineId, VarByDefineId
    <3>4. \A v \in Var : v \notin SubVar => vars'[v] = vars[v]
      BY <2>1, <3>1, <3>2 DEF Release, ReleaseDefineId, VarByDefineId
    <3>5. \A u \in Thread : pc'[u] \in Working /\ call'[u] = "use" =>
             pc[u] \in Working /\ call[u] = "use" /\ cur[u] \in VarId
      BY <2>1, <3>1 DEF SlotInv
    <3>6. \A d \in VarId : keyOf'[d] = keyOf[d] /\ keyOf[d] \notin SubVar
      BY <2>1, <3>3 DEF SlotInv
    <3>7. \A d \in VarId : keyOf'[d] # None => vars'[keyOf'[d]] = d
      BY <3>4, <3>6
    <3>8. \A u \in Thread, d \in SubId :
             Applied(u, d)' /\ keyOf'[d] # None => Held(d)'
      BY <2>1, <2>2, <3>1, <3>3
    <3> QED
      BY <2>1, <3>1, <3>5, <3>6, <3>7, <3>8
  <2> QED
    BY <2>4, <2>5
<1>9. ASSUME NEW t \in Thread, Snapshot(t)
      PROVE  UseInv'
  BY <1>9 DEF Snapshot
<1>10. ASSUME NEW t \in Thread, Repoll(t)
      PROVE  UseInv'
  BY <1>10 DEF Repoll
<1>11. ASSUME NEW t \in Thread, Restore(t)
      PROVE  UseInv'
  BY <1>11 DEF Restore, ResetFlags
<1>12. ASSUME NEW t \in Thread, Open(t)
      PROVE  UseInv'
  BY <1>12 DEF Open, locals
<1>13. ASSUME NEW t \in Thread, MsgOpen(t)
      PROVE  UseInv'
  BY <1>13 DEF MsgOpen, Dispatches, ResetFlags
<1>14. ASSUME NEW t \in Thread, MsgOther(t)
      PROVE  UseInv'
  BY <1>14 DEF MsgOther, Dispatches
<1>15. ASSUME NEW t \in Thread, NEW d \in SubId, SubscribeMany(t, d)
      PROVE  UseInv'
  BY <1>15 DEF SubscribeMany, NewSubscription
<1>16. ASSUME NEW t \in Thread, NEW d \in SubId, NEW v \in SubVar,
             Subscribe(t, d, v)
      PROVE  UseInv'
  <2>1. /\ t \in App /\ pc[t] = "idle" /\ v \in Var /\ v # None /\ v \in SubVar
        /\ d \notin VarId
    BY <1>16 DEF Subscribe, NewSubscription, Var
  <2>2. /\ vars' = [vars EXCEPT ![v] = d] /\ keyOf' = [keyOf EXCEPT ![d] = v]
        /\ subs' = subs \cup {d} /\ call'[t] = "subscribe"
        /\ pc'[t] \in {"prepare", "apply"} /\ todo' = todo
        /\ pc'[t] = "prepare" => cur'[t] = d
        /\ \A u \in Thread : u # t =>
              cur'[u] = cur[u] /\ pc'[u] = pc[u] /\ call'[u] = call[u]
    BY <1>16 DEF Subscribe, NewSubscription, BindSubscriptionVar
  <2>3. \A e \in SubId : Held(e) \/ e = d => Held(e)'
    BY <2>1, <2>2
  <2>4. \A e \in VarId : keyOf'[e] = keyOf[e] /\ keyOf[e] # v
    BY <2>1, <2>2 DEF SlotInv
  <2>5. \A u \in Thread : pc'[u] \in Working /\ call'[u] = "use" =>
           /\ u # t /\ pc[u] \in Working /\ call[u] = "use" /\ cur[u] \in VarId
    BY <2>2 DEF SlotInv
  <2>6. \A e \in VarId : keyOf'[e] # None => vars'[keyOf'[e]] = e
    BY <2>1, <2>2, <2>4
  <2>7. \A u \in Thread, e \in SubId : Applied(u, e)' => Applied(u, e) \/ e = d
    BY <2>1, <2>2
  <2> QED
    BY <2>2, <2>3, <2>4, <2>5, <2>6, <2>7
<1>17. ASSUME NEW t \in Thread, NEW d \in SubId, Unsubscribe(t, d)
      PROVE  UseInv'
  <2>1. /\ t \in App /\ pc[t] = "idle" /\ lock = None
        /\ subs' = subs \ {d} /\ call' = [call EXCEPT ![t] = "unsubscribe"]
        /\ cur' = [cur EXCEPT ![t] = d] /\ UNCHANGED <<registry, todo>>
        /\ pc' = [pc EXCEPT ![t] = IF handle THEN "drop" ELSE "apply"]
    BY <1>17 DEF Unsubscribe
  <2>2. \A u \in Thread : ~ (pc[u] = "drop" /\ call[u] = "resubscribe")
    BY <2>1 DEF RestInv
  <2>3. ASSUME NEW u \in Thread, NEW e \in SubId, Applied(u, e)', keyOf[e] # None
        PROVE  Held(e)'
    <3>1. Applied(u, e)
      BY <2>1, <2>3
    <3>2. handle /\ Held(e)
      BY <2>3, <3>1 DEF WhoInv, Applying
    <3>3. pc'[t] = "drop" /\ cur'[t] = d
      BY <2>1, <3>2
    <3> QED
      BY <2>1, <3>2, <3>3
  <2> QED
    BY <2>1, <2>2, <2>3
<1>18. ASSUME NEW t \in Thread, NEW v \in Var, Use(t, v)
      PROVE  UseInv'
  <2>1. /\ UNCHANGED <<subs, todo>> /\ pc[t] = "idle"
        /\ pc' = [pc EXCEPT ![t] = "prepare"] /\ call' = [call EXCEPT ![t] = "use"]
        /\ v \in (IF t = Pump THEN WriteVar ELSE ReadVar) /\ v # None
        /\ \A u \in Thread : u # t => cur'[u] = cur[u]
    BY <1>18 DEF Use, GetOrCreateVar, BindSubscriptionVar
  <2>2. /\ \A d \in SubId : Held(d) => Held(d)'
        /\ \A u \in Thread, d \in SubId : Applied(u, d)' => Applied(u, d)
    BY <2>1
  <2>3. CASE cur' = [cur EXCEPT ![t] = vars[v]] /\ UNCHANGED registry /\ vars[v] # None
    <3>1. keyOf[vars[v]] = v
      BY <2>3 DEF RegistryInv, RegistryAgrees
    <3> QED
      BY <2>1, <2>2, <2>3, <3>1
  <2>4. ASSUME NEW d \in VarId, vars[v] = None, keyOf[d] = None,
               cur' = [cur EXCEPT ![t] = d], BindSubscriptionVar(d, v)
        PROVE  UseInv'
    <3>1. vars' = [vars EXCEPT ![v] = d] /\ keyOf' = [keyOf EXCEPT ![d] = v]
      BY <2>4 DEF BindSubscriptionVar
    <3>2. \A e \in VarId : keyOf'[e] # None => vars'[keyOf'[e]] = e
      BY <2>1, <2>4, <3>1
    <3>3. \A u \in Thread : u # t /\ pc'[u] \in Working /\ call'[u] = "use" =>
             keyOf[cur[u]] # None /\ cur[u] # d /\ pc[u] \in Working /\ call[u] = "use"
      BY <2>1, <2>4 DEF OnePumpRestores, Var
    <3>4. \A e \in SubId : keyOf'[e] = keyOf[e]
      BY <3>1
    <3>5. ASSUME NEW u \in Thread
          PROVE  /\ pc'[u] \in Working /\ call'[u] = "use" =>
                       keyOf'[cur'[u]] \in (IF u = Pump THEN WriteVar ELSE ReadVar)
                 /\ pc'[u] = "drop" /\ call'[u] = "resubscribe" => cur'[u] \in subs'
      <4>1. CASE u = t
        BY <2>1, <2>4, <3>1, <4>1
      <4>2. CASE u # t
        BY <2>1, <2>4, <3>1, <3>3, <4>2 DEF WorkInv
      <4> QED
        BY <4>1, <4>2
    <3>6. \A u \in Thread, e \in SubId : Applied(u, e)' /\ keyOf'[e] # None => Held(e)'
      BY <2>2, <3>4
    <3> QED
      BY <3>2, <3>5, <3>6
  <2> QED
    BY <1>18, <2>1, <2>3, <2>4 DEF Use, GetOrCreateVar
<1>19. ASSUME NEW d \in SubId, Resubscribe(d)
      PROVE  UseInv'
  BY <1>19 DEF Resubscribe
<1>20. CASE TimerSkips
  BY <1>20 DEF TimerSkips, locals
<1>21. CASE MsgQuit
  BY <1>21 DEF MsgQuit, EndSession, locals
<1>22. CASE StartPump
  BY <1>22 DEF StartPump, locals
<1>23. CASE Close
  BY <1>23 DEF Close, EndSession, ResetFlags, locals
<1>24. CASE UNCHANGED vs
  BY <1>24 DEF vs, locals
<1> QED
  BY NextCases, <1>1, <1>2, <1>3, <1>4, <1>5, <1>6, <1>7, <1>8, <1>9, <1>10,
     <1>11, <1>12, <1>13, <1>14, <1>15, <1>16, <1>17, <1>18, <1>19, <1>20,
     <1>21, <1>22, <1>23, <1>24, Zenon

\* One thread applies subscriptions at a time, and no two threads work on one
\* definition.
LEMMA Apart ==
  ASSUME DataOK, WorkInv, RestInv, SlotInv, WhoInv, UseInv, OnePumpRestores,
         NEW t \in Thread, NEW u \in Thread, t # u
  PROVE  /\ Applying(t) => ~ Applying(u)
         /\ pc[t] \in Working /\ pc[u] \in Working => cur[t] # cur[u]
<1> USE ThreadAssumption, NoneAssumption, IdAssumption
<1>1. ASSUME NEW w \in Thread, Applying(w) \/ pc[w] \in Working
      PROVE  w \in App \/ (w = Pump /\ running)
  BY <1>1 DEF Applying, RestInv, WhoInv, Working, Thread
<1>2. Applying(t) => ~ Applying(u)
  BY <1>1 DEF OnePumpRestores, WhoInv
<1>3. ASSUME pc[t] \in Working, pc[u] \in Working
      PROVE  cur[t] # cur[u]
  <2>1. CASE call[t] = "use" /\ call[u] = "use"
    <3>1. (t = Pump) # (u = Pump)
      BY <1>1, <1>3 DEF OnePumpRestores
    <3>2. keyOf[cur[t]] # keyOf[cur[u]]
      BY <1>3, <2>1, <3>1 DEF UseInv, OnePumpRestores
    <3> QED
      BY <3>2
  <2>2. CASE call[t] # "use" /\ call[u] # "use"
    BY <1>2, <1>3, <2>2 DEF Applying
  <2>3. CASE call[t] = "use" /\ call[u] # "use"
    BY <1>3, <2>3 DEF SlotInv, WorkInv
  <2>4. CASE call[t] # "use" /\ call[u] = "use"
    BY <1>3, <2>4 DEF SlotInv, WorkInv
  <2> QED
    BY <2>1, <2>2, <2>3, <2>4
<1> QED
  BY <1>2, <1>3

\* Nobody takes another definition's slot for that of its own.
LEMMA OwnSlot ==
  ASSUME DataOK, WorkInv, SlotInv, UseInv, NEW t \in Thread, pc[t] \in Working
  PROVE  VarByDefineId(cur[t]) \in {None, cur[t]}
<1>1. CASE call[t] = "use"
  BY <1>1 DEF SlotInv, UseInv, VarByDefineId
<1>2. CASE call[t] # "use"
  <2>1. cur[t] \in SubId /\ Applied(t, cur[t])
    BY <1>2 DEF WorkInv, Applied
  <2> QED
    BY <2>1 DEF SlotInv, UseInv, VarByDefineId
<1> QED
  BY <1>1, <1>2

LEMMA NextFieldInv ==
  ASSUME DataOK, FlagsOK, WorkInv, RegistryInv, KindInv, RestInv, SlotInv,
         WhoInv, UseInv, FieldInv, [Next]_vs, OnePumpRestores
  PROVE  FieldInv'
<1> USE NoneAssumption, IdAssumption
    DEF DataOK, FlagsOK, RestInv, FieldInv, Working, session, registry,
        Goto, Begin, Id
<1>1. ASSUME NEW t \in Thread, Prepare(t)
      PROVE  FieldInv'
  BY <1>1 DEF Prepare
<1>2. ASSUME NEW t \in Thread, Clear(t)
      PROVE  FieldInv'
  <2>1. /\ pc[t] = "clear" /\ pc' = [pc EXCEPT ![t] = "ensure"] /\ cur[t] \in Id
        /\ UNCHANGED <<opened, kind, cur, call, todo>>
        /\ dll' = IF handle THEN [dll EXCEPT ![cur[t]] = 0] ELSE dll
    BY <1>2 DEF Clear, WorkInv
  <2>2. dll' = [dll EXCEPT ![cur[t]] = 0]
    BY <2>1 DEF WhoInv
  <2>3. VarByDefineId(cur[t]) \in {None, cur[t]}
    BY <2>1, OwnSlot
  <2>4. \A d \in Id : defined'[d] = defined[d] \/ d = cur[t]
    BY <1>2, <2>3 DEF Clear
  <2>5. \A d \in Id : dll'[d] <= 1 /\ (defined'[d] \/ dll'[d] = 0)
    BY <2>1, <2>2, <2>4
  <2>6. \A u \in Thread : pc[u] \in Working => cur[u] \in Id
    BY DEF WorkInv
  <2>7. \A d \in Id : dll[d] = 0 => dll'[d] = 0
    BY <2>1, <2>2
  <2> QED
    BY <2>1, <2>5, <2>6, <2>7
<1>3. ASSUME NEW t \in Thread, Ensure(t)
      PROVE  FieldInv'
  <2>1. /\ pc[t] = "ensure" /\ UNCHANGED <<opened, dll, defined, kind, cur, call, todo>>
        /\ \/ pc' = [pc EXCEPT ![t] = "request"]
           \/ /\ pc' = [pc EXCEPT ![t] = "add"]
              /\ IsMany(cur[t]) \/ ~ defined[cur[t]]
    BY <1>3 DEF Ensure
  <2>2. cur[t] \in Id /\ (call[t] = "use" => ~ IsMany(cur[t]))
    BY <2>1 DEF WorkInv, SlotInv, IsMany
  <2>3. pc'[t] = "add" => dll[cur[t]] = 0
    BY <2>1, <2>2
  <2> QED
    BY <2>1, <2>3
<1>4. ASSUME NEW t \in Thread, Failed(t)
      PROVE  FieldInv'
  BY <1>4 DEF Failed
<1>5. ASSUME NEW t \in Thread, Add(t)
      PROVE  FieldInv'
  <2>1. /\ pc[t] = "add" /\ pc' = [pc EXCEPT ![t] = "request"] /\ cur[t] \in Id
        /\ UNCHANGED <<opened, kind, cur, call, todo>> /\ dll[cur[t]] = 0
        /\ dll' = [dll EXCEPT ![cur[t]] = 1]
        /\ defined' = [defined EXCEPT ![cur[t]] = TRUE]
    BY <1>5 DEF Add, WorkInv
  <2>2. opened
    BY <2>1 DEF WhoInv
  <2>3. cur[t] \in SubId => Applying(t) /\ kind[cur[t]] # "unused"
    BY <2>1 DEF Applying, SlotInv, KindInv
  <2>4. \A u \in Thread : u # t =>
           /\ Applying(t) => ~ Applying(u)
           /\ pc[u] \in Working => cur[u] # cur[t]
    BY <2>1, Apart
  <2>5. ASSUME NEW u \in Thread
        PROVE  /\ pc'[u] = "snapshot" => \A d \in SubId : dll'[d] = 0
               /\ \A d \in todo'[u] : dll'[d] = 0
               /\ pc'[u] \in Working => cur'[u] \notin todo'[u]
               /\ pc'[u] \in Working \ {"request"} /\ call'[u] # "use" => dll'[cur'[u]] = 0
               /\ pc'[u] = "add" => dll'[cur'[u]] = 0
    <3>1. CASE u = t
      BY <2>1, <3>1
    <3>2. CASE u # t
      BY <2>1, <2>3, <2>4, <3>2 DEF Applying, WorkInv
    <3> QED
      BY <3>1, <3>2
  <2> QED
    BY <2>1, <2>2, <2>3, <2>5
<1>6. ASSUME NEW t \in Thread, Request(t)
      PROVE  FieldInv'
  BY <1>6 DEF Request
<1>7. ASSUME NEW t \in Thread, Apply(t)
      PROVE  FieldInv'
  BY <1>7 DEF Apply
<1>8. ASSUME NEW t \in Thread, Drop(t)
      PROVE  FieldInv'
  <2>1. /\ pc[t] = "drop" /\ cur[t] \in SubId /\ dll' = [dll EXCEPT ![cur[t]] = 0]
        /\ UNCHANGED <<opened, kind, cur, call, todo, defined>>
        /\ pc' = [pc EXCEPT ![t] = "apply"] \/
             (pc' = [pc EXCEPT ![t] = "prepare"] /\ call[t] = "resubscribe")
    BY <1>8 DEF Drop, Release, ReleaseDefineId, WorkInv
  <2>2. \A d \in Id : dll[d] = 0 \/ d = cur[t] => dll'[d] = 0
    BY <2>1
  <2>3. \A d \in Id : dll'[d] <= 1 /\ (defined'[d] \/ dll'[d] = 0)
    BY <2>1
  <2>4. todo[t] = {}
    BY <2>1
  <2>5. \A u \in Thread : pc[u] \in Working => cur[u] \in Id
    BY DEF WorkInv
  <2> QED
    BY <2>1, <2>2, <2>3, <2>4, <2>5
<1>9. ASSUME NEW t \in Thread, Snapshot(t)
      PROVE  FieldInv'
  BY <1>9 DEF Snapshot
<1>10. ASSUME NEW t \in Thread, Repoll(t)
      PROVE  FieldInv'
  BY <1>10 DEF Repoll
<1>11. ASSUME NEW t \in Thread, Restore(t)
      PROVE  FieldInv'
  BY <1>11 DEF Restore, ResetFlags, WhoInv, OnePumpRestores
<1>12. ASSUME NEW t \in Thread, Open(t)
      PROVE  FieldInv'
  BY <1>12 DEF Open, locals, WhoInv
<1>13. ASSUME NEW t \in Thread, MsgOpen(t)
      PROVE  FieldInv'
  BY <1>13 DEF MsgOpen, Dispatches, ResetFlags
<1>14. ASSUME NEW t \in Thread, MsgOther(t)
      PROVE  FieldInv'
  BY <1>14 DEF MsgOther, Dispatches
<1>15. ASSUME NEW t \in Thread, NEW d \in SubId, SubscribeMany(t, d)
      PROVE  FieldInv'
  BY <1>15 DEF SubscribeMany, NewSubscription
<1>16. ASSUME NEW t \in Thread, NEW d \in SubId, NEW v \in SubVar,
             Subscribe(t, d, v)
      PROVE  FieldInv'
  BY <1>16 DEF Subscribe, NewSubscription, BindSubscriptionVar
<1>17. ASSUME NEW t \in Thread, NEW d \in SubId, Unsubscribe(t, d)
      PROVE  FieldInv'
  BY <1>17 DEF Unsubscribe
<1>18. ASSUME NEW t \in Thread, NEW v \in Var, Use(t, v)
      PROVE  FieldInv'
  BY <1>18 DEF Use, GetOrCreateVar, BindSubscriptionVar
<1>19. ASSUME NEW d \in SubId, Resubscribe(d)
      PROVE  FieldInv'
  BY <1>19 DEF Resubscribe
<1>20. CASE TimerSkips
  BY <1>20 DEF TimerSkips, locals
<1>21. CASE MsgQuit
  BY <1>21 DEF MsgQuit, EndSession, locals, WorkInv, OnePumpRestores
<1>22. CASE StartPump
  BY <1>22 DEF StartPump, locals
<1>23. CASE Close
  BY <1>23 DEF Close, EndSession, ResetFlags, locals, WorkInv, OnePumpRestores
<1>24. CASE UNCHANGED vs
  BY <1>24 DEF vs, locals
<1> QED
  BY NextCases, <1>1, <1>2, <1>3, <1>4, <1>5, <1>6, <1>7, <1>8, <1>9, <1>10,
     <1>11, <1>12, <1>13, <1>14, <1>15, <1>16, <1>17, <1>18, <1>19, <1>20,
     <1>21, <1>22, <1>23, <1>24, Zenon

\* No definition ever holds its fields twice (subscribe.py:374-384), although
\* the pump's recovery applies subscriptions again in the middle of a session
\* (subscribe.py:121-207) while the application reads, writes, unsubscribes and
\* reconnects.  With the SimStart timer in, this is false: run DefSimStart.
THEOREM RecoveryNeverStacks ==
  ASSUME OnePumpRestores
  PROVE  Spec => []NoStacking
<1> DEFINE Kept == RegistryInv /\ KindInv /\ RestInv /\ SlotInv /\ OwedInv
           Base == TypeOK /\ WorkInv
           Fields == WhoInv /\ UseInv /\ FieldInv
<1>1. Spec => []Kept
  <2>1. OneSubscriber
    BY DEF OnePumpRestores, OneSubscriber
  <2> QED
    BY <2>1, SubscriptionsKept
<1>2. Init => Fields
  <2> SUFFICES ASSUME Init PROVE Fields
    OBVIOUS
  <2> USE NoneAssumption, ThreadAssumption DEF Init, Thread, Id, Working
  <2>1. WhoInv
    BY DEF WhoInv, Applying
  <2>2. UseInv
    BY DEF UseInv, Applied
  <2>3. FieldInv
    BY DEF FieldInv
  <2> QED
    BY <2>1, <2>2, <2>3
<1>3. Base /\ Kept /\ Fields /\ [Next]_vs => Fields'
  BY NextWhoInv, NextUseInv, NextFieldInv DEF TypeOK
<1>4. Fields => NoStacking
  BY DEF FieldInv, NoStacking
<1> QED
  BY <1>1, <1>2, <1>3, <1>4, TypeCorrect, PTL DEF Spec
=============================================================================
