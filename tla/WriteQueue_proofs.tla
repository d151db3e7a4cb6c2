-------------------------- MODULE WriteQueue_proofs --------------------------
(***************************************************************************)
(* Machine-checked proofs about WriteQueue: the inductive invariant Inv    *)
(* and the safety properties that follow from it, for every set of writes, *)
(* every max_items and either setting of the two flags.                    *)
(***************************************************************************)
EXTENDS WriteQueue, TLAPS

\* Every step of the four parties, split for the case analyses below.
LEMMA NextCases ==
  ASSUME [Next]_vars
  PROVE  \/ \E o \in Op : \/ Submit(o) \/ Route(o) \/ Enqueue(o)
                          \/ DirectWrite(o) \/ SubmitOnPump(o)
         \/ LoopTest \/ DispatchReturns \/ DispatchRaises \/ AfterRaise
         \/ DrainCheck \/ DrainPop \/ DrainEnd \/ Execute \/ Finish
         \/ ExitCheck \/ LoopTail \/ ReconnectWait \/ Reopen \/ UntilOpenEnds
         \/ ReopenTimeout \/ ThreadEnds
         \/ Open \/ Start \/ Stop \/ JoinReturns \/ JoinExpires
         \/ Cancel \/ Drop
         \/ FlushCall \/ FlushTrue \/ FlushFalse
         \/ UNCHANGED vars
  BY Zenon DEF Next, Pump, Application, Flush

\* Executing a write adds one to its count and resolves its future.
LEMMA PerformType ==
  ASSUME DataOK, NEW o, Perform(o)
  PROVE  /\ runs' \in [Op -> Nat]
         /\ future' \in [Op -> {"unset", "ok", "error", "cancelled"}]
<1>1. CASE o \in Op
  BY <1>1 DEF DataOK, Perform
<1>2. CASE o \notin Op
  BY <1>2 DEF DataOK, Perform
<1> QED
  BY <1>1, <1>2

\* The initial state of the program is well typed.
LEMMA InitTypeOK == Init => TypeOK
<1> SUFFICES ASSUME Init PROVE TypeOK
  OBVIOUS
<1>1. FlagsOK
  BY DEF Init, FlagsOK
<1>2. DataOK
  BY MaxItemsAssumption DEF Init, DataOK, PumpState, Phase
<1> QED
  BY <1>1, <1>2 DEF TypeOK

\* Every step of every party keeps the types.
LEMMA NextTypeOK ==
  ASSUME TypeOK, [Next]_vars
  PROVE  TypeOK'
<1> USE DEF pumpVars, writeVars, flushVars
<1>1. FlagsOK'
  BY NextCases, Zenon
     DEF TypeOK, FlagsOK, vars, Submit, Route, Enqueue, DirectWrite,
         SubmitOnPump, LoopTest, DispatchReturns, DispatchRaises,
         AfterRaise, DrainCheck, DrainPop, DrainEnd, Execute, Finish,
         ExitCheck, LoopTail, ReconnectWait, Reopen, UntilOpenEnds,
         ReopenTimeout,
         ThreadEnds, PumpGoto, Open, Start, Stop, JoinReturns, JoinExpires,
         Cancel, Drop, FlushCall, FlushTrue, FlushFalse
<1>2. DataOK'
  <2> USE DEF TypeOK, DataOK, PumpState
  <2>1. CASE \E o \in Op : \/ Submit(o) \/ Route(o) \/ Enqueue(o)
                           \/ DirectWrite(o) \/ SubmitOnPump(o)
    <3> SUFFICES ASSUME NEW o \in Op,
                        \/ Submit(o) \/ Route(o) \/ Enqueue(o)
                        \/ DirectWrite(o) \/ SubmitOnPump(o)
                 PROVE  DataOK'
      BY <2>1
    <3>1. CASE Submit(o) \/ Route(o)
      BY <3>1 DEF Submit, Route, Phase
    <3>2. CASE Enqueue(o)
      BY <3>2 DEF Enqueue, Phase
    <3>3. CASE DirectWrite(o) \/ SubmitOnPump(o)
      <4>1. phase' \in [Op -> Phase]
        BY <3>3 DEF DirectWrite, SubmitOnPump, Phase
      <4> QED
        BY <3>3, <4>1, PerformType DEF DirectWrite, SubmitOnPump
    <3> QED
      BY <3>1, <3>2, <3>3
  <2>2. CASE \/ LoopTest \/ DispatchReturns \/ DispatchRaises \/ AfterRaise
             \/ DrainEnd \/ ExitCheck \/ LoopTail \/ ReconnectWait
             \/ Reopen \/ UntilOpenEnds \/ ReopenTimeout \/ ThreadEnds
    BY <2>2
       DEF LoopTest, DispatchReturns, DispatchRaises, AfterRaise, DrainEnd,
           ExitCheck, LoopTail, ReconnectWait, Reopen, UntilOpenEnds,
           ReopenTimeout,
           ThreadEnds, PumpGoto
  <2>3. CASE DrainCheck \/ DrainPop \/ Finish
    <3>1. CASE DrainCheck
      BY <3>1, MaxItemsAssumption DEF DrainCheck
    <3>2. CASE DrainPop
      BY <3>2 DEF DrainPop
    <3>3. CASE Finish
      BY <3>3, MaxItemsAssumption DEF Finish
    <3> QED
      BY <2>3, <3>1, <3>2, <3>3
  <2>4. CASE Execute
    BY <2>4, PerformType DEF Execute, PumpGoto
  <2>5. CASE \/ Open \/ Start \/ Stop \/ JoinReturns \/ JoinExpires
             \/ Cancel \/ Drop
    <3>1. CASE Cancel
      BY <3>1 DEF Cancel
    <3>2. CASE Open \/ Start \/ Drop
      BY <3>2 DEF Open, Start, Drop
    <3>3. CASE Stop
      BY <3>3 DEF Stop
    <3>4. CASE JoinReturns \/ JoinExpires
      BY <3>4 DEF JoinReturns, JoinExpires, AfterJoin
    <3> QED
      BY <2>5, <3>1, <3>2, <3>3, <3>4
  <2>6. CASE FlushCall \/ FlushTrue \/ FlushFalse
    BY <2>6 DEF FlushCall, FlushTrue, FlushFalse
  <2>7. CASE UNCHANGED vars
    BY <2>7 DEF vars
  <2> QED
    BY NextCases, <2>1, <2>2, <2>3, <2>4, <2>5, <2>6, <2>7
<1> QED
  BY <1>1, <1>2 DEF TypeOK

\* Type correctness: no step of a submitter, the pump, the application or a
\* flusher takes a variable out of its type; above all pending, a counter that
\* is decremented, stays a natural number.
THEOREM TypeCorrect == Spec => []TypeOK
<1>1. TypeOK /\ [Next]_vars => TypeOK'
  BY NextTypeOK
<1> QED
  BY <1>1, InitTypeOK, PTL DEF Spec

-----------------------------------------------------------------------------
(* The inductive invariant, one lemma for each of its parts.               *)

\* A step that touches neither the writes nor the pump's hand.
Quiet ==
    /\ UNCHANGED <<queue, phase, future, runs, before, inHand>>
    /\ \/ pump' = pump
       \/ /\ pump \notin {"execute", "finish"}
          /\ pump' \notin {"execute", "finish"}

\* Only submitters, the drain and the cancel are not quiet.
LEMMA QuietCases ==
  ASSUME [Next]_vars
  PROVE  \/ Quiet
         \/ \E o \in Op : \/ Submit(o) \/ Route(o) \/ Enqueue(o)
                          \/ DirectWrite(o) \/ SubmitOnPump(o)
         \/ DrainPop \/ Execute \/ Finish \/ Cancel
<1> USE DEF Quiet, pumpVars, writeVars
<1>1. CASE \/ LoopTest \/ DispatchReturns \/ DispatchRaises \/ AfterRaise
           \/ DrainCheck \/ DrainEnd \/ ExitCheck \/ LoopTail
           \/ ReconnectWait \/ Reopen \/ UntilOpenEnds \/ ReopenTimeout
           \/ ThreadEnds
  BY <1>1 DEF LoopTest, DispatchReturns, DispatchRaises, AfterRaise,
              DrainCheck, DrainEnd, ExitCheck, LoopTail, ReconnectWait,
              Reopen, UntilOpenEnds, ReopenTimeout, ThreadEnds, PumpGoto
<1>2. CASE \/ Open \/ Start \/ Stop \/ JoinReturns \/ JoinExpires \/ Drop
           \/ FlushCall \/ FlushTrue \/ FlushFalse \/ UNCHANGED vars
  BY <1>2 DEF Open, Start, Stop, JoinReturns, JoinExpires, Drop, FlushCall,
              FlushTrue, FlushFalse, vars, Alive
<1> QED
  BY NextCases, <1>1, <1>2

\* Appending keeps the earlier places and adds one at the end.
LEMMA AppendPlaces ==
  ASSUME queue \in Seq(Op), NEW o \in Op, queue' = Append(queue, o)
  PROVE  /\ Len(queue') = Len(queue) + 1
         /\ queue'[Len(queue) + 1] = o
         /\ \A i \in 1..Len(queue) : queue'[i] = queue[i]
         /\ \A i \in 1..Len(queue') : i \in 1..Len(queue)
                                     \/ i = Len(queue) + 1
  OBVIOUS

\* Popping the head moves every other write one place forward.
LEMMA TailPlaces ==
  ASSUME queue \in Seq(Op), queue # <<>>, queue' = Tail(queue)
  PROVE  /\ Len(queue') = Len(queue) - 1
         /\ Len(queue) \in Nat \ {0}
         /\ Head(queue) = queue[1]
         /\ \A i \in 1..Len(queue') : /\ i + 1 \in 1..Len(queue)
                                     /\ i + 1 # 1
                                     /\ queue'[i] = queue[i + 1]
  OBVIOUS

\* The write in the pump's hands is a write.
LEMMA HandIsOp ==
  ASSUME DataOK, HandInv, pump \in {"execute", "finish"}
  PROVE  inHand \in Op
  BY DEF DataOK, HandInv

LEMMA QueueInvStep ==
  ASSUME DataOK, DataOK', QueueInv, HandInv, WriteInv, [Next]_vars
  PROVE  QueueInv'
<1> USE DEF pumpVars, writeVars, DataOK
<1>1. CASE Quiet
  BY <1>1 DEF QueueInv, Quiet
<1>2. ASSUME NEW o \in Op, Submit(o) \/ Route(o) PROVE QueueInv'
  BY <1>2 DEF QueueInv, Submit, Route
<1>3. ASSUME NEW o \in Op, Enqueue(o) PROVE QueueInv'
  <2>1. /\ queue' = Append(queue, o)
        /\ UNCHANGED <<inHand, future>>
        /\ phase' = [phase EXCEPT ![o] = "queued"]
        /\ phase[o] = "append"
    BY <1>3 DEF Enqueue
  <2>2. future[o] = "unset" /\ o # inHand
    BY <2>1, NoneAssumption DEF WriteInv, HandInv
  <2>3. \A i \in 1..Len(queue) : queue[i] # o
    BY <2>1 DEF QueueInv
  <2>4. \A i, j \in 1..Len(queue') : queue'[i] = queue'[j] => i = j
    BY <2>1, <2>3, AppendPlaces DEF QueueInv
  <2>5. ASSUME NEW i \in 1..Len(queue')
        PROVE  /\ phase'[queue'[i]] = "queued"
               /\ future'[queue'[i]] = "unset"
               /\ queue'[i] # inHand'
    <3>1. CASE i \in 1..Len(queue)
      BY <2>1, <2>3, <3>1, AppendPlaces DEF QueueInv
    <3>2. CASE i = Len(queue) + 1
      BY <2>1, <2>2, <3>2, AppendPlaces
    <3> QED
      BY <2>1, <3>1, <3>2, AppendPlaces
  <2> QED
    BY <2>4, <2>5 DEF QueueInv
<1>4. ASSUME NEW o \in Op, DirectWrite(o) \/ SubmitOnPump(o) PROVE QueueInv'
  <2>1. /\ UNCHANGED <<queue, inHand>>
        /\ phase' = [phase EXCEPT ![o] = "done"]
        /\ phase[o] # "queued"
        /\ \A p \in Op \ {o} : future'[p] = future[p]
    BY <1>4 DEF DirectWrite, SubmitOnPump, Perform
  <2>2. \A i \in 1..Len(queue) : queue[i] # o /\ queue[i] \in Op
    BY <2>1 DEF QueueInv
  <2> QED
    BY <2>1, <2>2 DEF QueueInv
<1>5. CASE DrainPop
  <2>1. /\ queue # <<>>
        /\ queue' = Tail(queue)
        /\ inHand' = queue[1]
        /\ UNCHANGED <<phase, future>>
    BY <1>5, TailPlaces DEF DrainPop
  <2>2. \A i \in 1..Len(queue) : i # 1 => queue[i] # queue[1]
    BY <2>1, TailPlaces DEF QueueInv
  <2>3. \A i, j \in 1..Len(queue') : queue'[i] = queue'[j] => i = j
    BY <2>1, TailPlaces DEF QueueInv
  <2>4. \A i \in 1..Len(queue') : /\ phase'[queue'[i]] = "queued"
                                 /\ future'[queue'[i]] = "unset"
                                 /\ queue'[i] # inHand'
    BY <2>1, <2>2, TailPlaces DEF QueueInv
  <2> QED
    BY <2>3, <2>4 DEF QueueInv
<1>6. CASE Execute
  <2>1. /\ UNCHANGED <<queue, inHand, phase>>
        /\ \A p \in Op \ {inHand} : future'[p] = future[p]
    BY <1>6, HandIsOp DEF Execute, Perform, PumpGoto
  <2> QED
    BY <2>1 DEF QueueInv
<1>7. CASE Finish
  <2>1. \A i \in 1..Len(queue) : queue[i] \in Op
    OBVIOUS
  <2> QED
    BY <1>7, <2>1, NoneAssumption DEF Finish, QueueInv
<1>8. CASE Cancel
  BY <1>8 DEF Cancel, QueueInv
<1> QED
  BY QuietCases, <1>1, <1>2, <1>3, <1>4, <1>5, <1>6, <1>7, <1>8

LEMMA HandInvStep ==
  ASSUME DataOK, DataOK', QueueInv, HandInv, WriteInv, [Next]_vars
  PROVE  HandInv'
<1> USE DEF pumpVars, writeVars, DataOK
<1>1. CASE Quiet
  BY <1>1 DEF HandInv, Quiet
<1>2. ASSUME NEW o \in Op,
             \/ Submit(o) \/ Route(o) \/ Enqueue(o)
             \/ DirectWrite(o) \/ SubmitOnPump(o)
      PROVE  HandInv'
  <2>1. /\ UNCHANGED <<pump, inHand>>
        /\ phase[o] # "queued"
        /\ \A p \in Op \ {o} : phase'[p] = phase[p] /\ future'[p] = future[p]
    BY <1>2 DEF Submit, Route, Enqueue, DirectWrite, SubmitOnPump, Perform
  <2> QED
    BY <2>1 DEF HandInv
<1>3. CASE DrainPop
  BY <1>3, TailPlaces, NoneAssumption DEF DrainPop, HandInv, QueueInv
<1>4. CASE Execute
  BY <1>4, HandIsOp DEF Execute, Perform, PumpGoto, HandInv
<1>5. CASE Finish
  BY <1>5 DEF Finish, HandInv
<1>6. CASE Cancel
  BY <1>6 DEF Cancel, HandInv, QueueInv, Queued
<1> QED
  BY QuietCases, <1>1, <1>2, <1>3, <1>4, <1>5, <1>6

LEMMA WriteInvStep ==
  ASSUME DataOK, DataOK', QueueInv, HandInv, WriteInv, [Next]_vars
  PROVE  WriteInv'
<1> USE DEF pumpVars, writeVars, DataOK
<1>1. CASE Quiet
  BY <1>1 DEF WriteInv, Quiet, Queued
<1>2. ASSUME NEW o \in Op, Submit(o) \/ Route(o) PROVE WriteInv'
  BY <1>2 DEF WriteInv, Submit, Route, Queued
<1>3. ASSUME NEW o \in Op, Enqueue(o) PROVE WriteInv'
  <2>1. /\ queue' = Append(queue, o)
        /\ UNCHANGED <<inHand, future, runs>>
        /\ phase' = [phase EXCEPT ![o] = "queued"]
    BY <1>3 DEF Enqueue
  <2>2. Queued(o)' /\ \A p \in Op : Queued(p) => Queued(p)'
    BY <2>1, AppendPlaces DEF Queued
  <2> QED
    BY <2>1, <2>2 DEF WriteInv
<1>4. ASSUME NEW o \in Op, DirectWrite(o) \/ SubmitOnPump(o) PROVE WriteInv'
  <2>1. /\ UNCHANGED <<queue, inHand>>
        /\ phase' = [phase EXCEPT ![o] = "done"]
        /\ phase[o] \notin {"queued", "done"}
        /\ runs' = [runs EXCEPT ![o] = @ + 1]
        /\ future'[o] \in {"ok", "error"}
        /\ \A p \in Op \ {o} : future'[p] = future[p]
    BY <1>4 DEF DirectWrite, SubmitOnPump, Perform
  <2>2. runs'[o] = 1
    BY <2>1 DEF WriteInv
  <2> QED
    BY <2>1, <2>2 DEF WriteInv, Queued
<1>5. CASE DrainPop
  <2>1. /\ queue # <<>>
        /\ queue' = Tail(queue)
        /\ inHand' = queue[1]
        /\ inHand = None
        /\ UNCHANGED <<phase, future, runs>>
    BY <1>5, TailPlaces DEF DrainPop, HandInv
  <2>2. \A o \in Op : Queued(o) => o = inHand' \/ Queued(o)'
    <3> SUFFICES ASSUME NEW o \in Op, NEW i \in 1..Len(queue), queue[i] = o
                 PROVE  o = inHand' \/ Queued(o)'
      BY DEF Queued
    <3>1. CASE i = 1
      BY <2>1, <3>1
    <3>2. CASE i # 1
      <4>1. i - 1 \in 1..Len(queue') /\ queue'[i - 1] = o
        BY <2>1, <3>2, TailPlaces
      <4> QED
        BY <4>1 DEF Queued
    <3> QED
      BY <3>1, <3>2
  <2> QED
    BY <2>1, <2>2, NoneAssumption DEF WriteInv
<1>6. CASE Execute
  <2>1. /\ UNCHANGED <<queue, inHand, phase>>
        /\ runs' = [runs EXCEPT ![inHand] = @ + 1]
        /\ future'[inHand] \in {"ok", "error"}
        /\ \A p \in Op \ {inHand} : future'[p] = future[p]
        /\ inHand \in Op
        /\ future[inHand] = "unset"
        /\ phase[inHand] = "queued"
    BY <1>6, HandIsOp, NoneAssumption DEF Execute, Perform, PumpGoto, HandInv
  <2>2. runs'[inHand] = 1
    BY <2>1 DEF WriteInv
  <2> QED
    BY <2>1, <2>2 DEF WriteInv, Queued
<1>7. CASE Finish
  BY <1>7 DEF Finish, WriteInv, HandInv, Queued
<1>8. CASE Cancel
  BY <1>8 DEF Cancel, WriteInv, QueueInv, Queued
<1> QED
  BY QuietCases, <1>1, <1>2, <1>3, <1>4, <1>5, <1>6, <1>7, <1>8

LEMMA OwnerInvStep ==
  ASSUME DataOK, OwnerInv, [Next]_vars
  PROVE  OwnerInv'
<1> USE DEF OwnerInv, SingleOwner, Alive, pumpVars, writeVars
<1>1. CASE \E o \in Op : \/ Submit(o) \/ Route(o) \/ Enqueue(o)
                         \/ DirectWrite(o) \/ SubmitOnPump(o)
  BY <1>1 DEF Submit, Route, Enqueue, DirectWrite, SubmitOnPump
<1>2. CASE \/ LoopTest \/ DispatchReturns \/ DispatchRaises \/ AfterRaise
           \/ DrainCheck \/ DrainPop \/ DrainEnd \/ Execute \/ Finish
           \/ ExitCheck \/ LoopTail \/ ReconnectWait \/ Reopen \/ UntilOpenEnds
           \/ ReopenTimeout \/ ThreadEnds
  <2>1. Alive /\ UNCHANGED <<ctl, running>> /\ (hung => hung')
    BY <1>2 DEF LoopTest, DispatchReturns, DispatchRaises, AfterRaise,
       DrainCheck, DrainPop, DrainEnd, Execute, Finish, ExitCheck, LoopTail,
       ReconnectWait, Reopen, UntilOpenEnds, ReopenTimeout, ThreadEnds,
       PumpGoto
  <2> QED
    BY <2>1
<1>3. CASE Open \/ Start \/ Stop \/ Cancel \/ Drop
  BY <1>3 DEF Open, Start, Stop, Cancel, Drop
<1>4. CASE JoinReturns \/ JoinExpires
  BY <1>4 DEF JoinReturns, JoinExpires, AfterJoin
<1>5. CASE FlushCall \/ FlushTrue \/ FlushFalse \/ UNCHANGED vars
  BY <1>5 DEF FlushCall, FlushTrue, FlushFalse, vars
<1> QED
  BY NextCases, <1>1, <1>2, <1>3, <1>4, <1>5

\* The counter is exact until a pump is declared hung: only the cancel of a
\* close whose join expired can run while the pump holds a write.
LEMMA PendingExactStep ==
  ASSUME DataOK, DataOK', HandInv, HandInv', OwnerInv, PendingExact,
         [Next]_vars
  PROVE  PendingExact'
<1> USE DEF pumpVars, writeVars
<1>1. hung => hung'
  BY NextCases, Zenon
     DEF vars, Submit, Route, Enqueue, DirectWrite, SubmitOnPump, LoopTest,
         DispatchReturns, DispatchRaises, AfterRaise, DrainCheck, DrainPop,
         DrainEnd, Execute, Finish, ExitCheck, LoopTail, ReconnectWait,
         Reopen, UntilOpenEnds, ReopenTimeout, ThreadEnds, Open, Start, Stop,
         JoinReturns,
         JoinExpires, Cancel, Drop, FlushCall, FlushTrue, FlushFalse
<1>2. ASSUME ~hung, ~hung', pending = Len(queue) + InFlight
      PROVE  pending' = Len(queue') + InFlight'
  <2> USE DEF InFlight, DataOK
  <2>1. CASE \E o \in Op : \/ Submit(o) \/ Route(o)
                           \/ DirectWrite(o) \/ SubmitOnPump(o)
    BY <1>2, <2>1 DEF Submit, Route, DirectWrite, SubmitOnPump
  <2>2. ASSUME NEW o \in Op, Enqueue(o)
        PROVE  pending' = Len(queue') + InFlight'
    BY <1>2, <2>2, AppendPlaces DEF Enqueue
  <2>3. CASE \/ LoopTest \/ DispatchReturns \/ DispatchRaises \/ AfterRaise
             \/ DrainCheck \/ DrainEnd \/ ExitCheck \/ LoopTail
             \/ ReconnectWait \/ Reopen \/ UntilOpenEnds \/ ReopenTimeout
             \/ ThreadEnds
             \/ Execute
    BY <1>2, <2>3 DEF LoopTest, DispatchReturns, DispatchRaises, AfterRaise,
       DrainCheck, DrainEnd, ExitCheck, LoopTail, ReconnectWait, Reopen,
       UntilOpenEnds,
       ReopenTimeout, ThreadEnds, Execute, PumpGoto
  <2>4. CASE DrainPop
    <3>1. queue # <<>> /\ queue' = Tail(queue) /\ inHand' \in Op
      BY <2>4, TailPlaces DEF DrainPop
    <3>2. inHand = None /\ pending' = pending
      BY <2>4 DEF DrainPop, HandInv
    <3> QED
      BY <1>2, <3>1, <3>2, TailPlaces, NoneAssumption
  <2>5. CASE Finish
    BY <1>2, <2>5 DEF Finish, HandInv
  <2>6. CASE \/ Open \/ Start \/ Stop \/ JoinReturns \/ JoinExpires \/ Drop
    BY <1>2, <2>6 DEF Open, Start, Stop, JoinReturns, JoinExpires, Drop
  <2>7. CASE Cancel
    <3>1. inHand = None
      BY <1>2, <2>7 DEF Cancel, OwnerInv, SingleOwner, HandInv, Alive
    <3> QED
      BY <2>7, <3>1 DEF Cancel
  <2>8. CASE FlushCall \/ FlushTrue \/ FlushFalse \/ UNCHANGED vars
    BY <1>2, <2>8 DEF FlushCall, FlushTrue, FlushFalse, vars
  <2> QED
    BY NextCases, <2>1, <2>2, <2>3, <2>4, <2>5, <2>6, <2>7, <2>8
<1> QED
  BY <1>1, <1>2 DEF PendingExact

LEMMA PendingNeverHighStep ==
  ASSUME DataOK, DataOK', HandInv, HandInv', PendingNeverHigh, [Next]_vars
  PROVE  PendingNeverHigh'
<1> USE DEF PendingNeverHigh, InFlight, pumpVars, writeVars, DataOK
<1>1. CASE \E o \in Op : \/ Submit(o) \/ Route(o)
                         \/ DirectWrite(o) \/ SubmitOnPump(o)
  BY <1>1 DEF Submit, Route, DirectWrite, SubmitOnPump
<1>2. ASSUME NEW o \in Op, Enqueue(o) PROVE PendingNeverHigh'
  BY <1>2, AppendPlaces DEF Enqueue
<1>3. CASE \/ LoopTest \/ DispatchReturns \/ DispatchRaises \/ AfterRaise
           \/ DrainCheck \/ DrainEnd \/ ExitCheck \/ LoopTail
           \/ ReconnectWait \/ Reopen \/ UntilOpenEnds \/ ReopenTimeout
           \/ ThreadEnds
           \/ Execute
  BY <1>3 DEF LoopTest, DispatchReturns, DispatchRaises, AfterRaise,
     DrainCheck, DrainEnd, ExitCheck, LoopTail, ReconnectWait, Reopen,
     UntilOpenEnds,
     ReopenTimeout, ThreadEnds, Execute, PumpGoto
<1>4. CASE DrainPop
  <2>1. queue # <<>> /\ queue' = Tail(queue) /\ inHand' \in Op
    BY <1>4, TailPlaces DEF DrainPop
  <2>2. inHand = None /\ pending' = pending
    BY <1>4 DEF DrainPop, HandInv
  <2> QED
    BY <2>1, <2>2, TailPlaces, NoneAssumption
<1>5. CASE Finish
  BY <1>5 DEF Finish, HandInv
<1>6. CASE \/ Open \/ Start \/ Stop \/ JoinReturns \/ JoinExpires \/ Drop
  BY <1>6 DEF Open, Start, Stop, JoinReturns, JoinExpires, Drop
<1>7. CASE Cancel
  BY <1>7 DEF Cancel
<1>8. CASE FlushCall \/ FlushTrue \/ FlushFalse \/ UNCHANGED vars
  BY <1>8 DEF FlushCall, FlushTrue, FlushFalse, vars
<1> QED
  BY NextCases, <1>1, <1>2, <1>3, <1>4, <1>5, <1>6, <1>7, <1>8

\* A resolved future keeps its value in every step.
LEMMA FutureStep ==
  ASSUME DataOK, QueueInv, HandInv, WriteInv, [Next]_vars,
         NEW o \in Op, future[o] # "unset"
  PROVE  future'[o] = future[o]
<1> USE DEF DataOK
<1>1. CASE Quiet
  BY <1>1 DEF Quiet
<1>2. ASSUME NEW p \in Op,
             \/ Submit(p) \/ Route(p) \/ Enqueue(p)
             \/ DirectWrite(p) \/ SubmitOnPump(p)
      PROVE  future'[o] = future[o]
  BY <1>2 DEF Submit, Route, Enqueue, DirectWrite, SubmitOnPump, Perform,
              WriteInv
<1>3. CASE DrainPop \/ Finish
  BY <1>3 DEF DrainPop, Finish
<1>4. CASE Execute
  BY <1>4, HandIsOp DEF Execute, Perform, PumpGoto, HandInv
<1>5. CASE Cancel
  BY <1>5 DEF Cancel
<1> QED
  BY QuietCases, <1>1, <1>2, <1>3, <1>4, <1>5

LEMMA OrderInvStep ==
  ASSUME DataOK, DataOK', QueueInv, HandInv, WriteInv, WriteInv', OrderInv,
         [Next]_vars
  PROVE  OrderInv'
<1> USE DEF pumpVars, writeVars, DataOK
<1>m. \A o \in Op : future[o] # "unset" => future'[o] # "unset"
  BY FutureStep
<1>1. CASE Quiet
  BY <1>1 DEF OrderInv, Quiet
<1>2. ASSUME NEW o \in Op, Submit(o) \/ Route(o) PROVE OrderInv'
  <2>1. /\ UNCHANGED <<queue, inHand, before, runs, future>>
        /\ phase[o] # "queued"
        /\ \A p \in Op \ {o} : phase'[p] = phase[p]
    BY <1>2 DEF Submit, Route
  <2>2. \A p \in Op : phase'[p] # "queued" => before'[p] = {}
    BY <2>1 DEF OrderInv
  <2>3. \A i \in 1..Len(queue') : \A p \in before'[queue'[i]] :
           \/ future'[p] # "unset"
           \/ p = inHand'
           \/ \E j \in 1..(i - 1) : queue'[j] = p
    BY <2>1 DEF OrderInv
  <2>4. \A p \in Op : runs'[p] > 0 \/ p = inHand'
                     => \A q \in before'[p] : future'[q] # "unset"
    BY <2>1 DEF OrderInv
  <2> QED
    BY <2>2, <2>3, <2>4 DEF OrderInv
<1>3. ASSUME NEW o \in Op, Enqueue(o) PROVE OrderInv'
  <2>1. /\ queue' = Append(queue, o)
        /\ UNCHANGED <<inHand, future, runs>>
        /\ phase' = [phase EXCEPT ![o] = "queued"]
        /\ before' = [before EXCEPT ![o] = {p \in Op : phase[p] = "queued"}]
        /\ phase[o] = "append"
    BY <1>3 DEF Enqueue
  <2>2. runs[o] = 0 /\ o # inHand
    BY <2>1, NoneAssumption DEF WriteInv, HandInv
  <2>3. \A p \in Op : phase'[p] # "queued" => before'[p] = {}
    BY <2>1 DEF OrderInv
  <2>4. ASSUME NEW i \in 1..Len(queue'), NEW p \in before'[queue'[i]]
        PROVE  \/ future'[p] # "unset"
               \/ p = inHand'
               \/ \E j \in 1..(i - 1) : queue'[j] = p
    <3>1. CASE i \in 1..Len(queue)
      <4>1. queue'[i] = queue[i] /\ queue[i] # o /\ queue[i] \in Op
        BY <2>1, <3>1, AppendPlaces DEF QueueInv
      <4>2. p \in before[queue[i]]
        BY <2>1, <4>1
      <4>3. \/ future[p] # "unset"
            \/ p = inHand
            \/ \E j \in 1..(i - 1) : queue[j] = p
        BY <3>1, <4>2 DEF OrderInv
      <4> QED
        BY <2>1, <3>1, <4>3, AppendPlaces
    <3>2. CASE i = Len(queue) + 1
      <4>1. p \in Op /\ phase[p] = "queued"
        BY <2>1, <2>4, <3>2, AppendPlaces
      <4>2. future[p] # "unset" \/ p = inHand \/ Queued(p)
        BY <4>1 DEF WriteInv
      <4>3. Queued(p) => \E j \in 1..(i - 1) : queue'[j] = p
        BY <2>1, <3>2, AppendPlaces DEF Queued
      <4> QED
        BY <2>1, <4>2, <4>3
    <3> QED
      BY <2>1, <3>1, <3>2, AppendPlaces
  <2>5. \A p \in Op : runs'[p] > 0 \/ p = inHand'
                     => \A q \in before'[p] : future'[q] # "unset"
    BY <2>1, <2>2 DEF OrderInv
  <2> QED
    BY <2>3, <2>4, <2>5 DEF OrderInv
<1>4. ASSUME NEW o \in Op, DirectWrite(o) \/ SubmitOnPump(o) PROVE OrderInv'
  <2>1. /\ UNCHANGED <<queue, inHand, before>>
        /\ phase' = [phase EXCEPT ![o] = "done"]
        /\ phase[o] # "queued"
        /\ runs' = [runs EXCEPT ![o] = @ + 1]
    BY <1>4 DEF DirectWrite, SubmitOnPump, Perform
  <2>2. before[o] = {}
    BY <2>1 DEF OrderInv
  <2>3. \A i \in 1..Len(queue) : queue[i] \in Op
    OBVIOUS
  <2> QED
    BY <1>m, <2>1, <2>2, <2>3 DEF OrderInv
<1>5. CASE DrainPop
  <2>1. /\ queue # <<>>
        /\ queue' = Tail(queue)
        /\ inHand' = queue[1]
        /\ inHand = None
        /\ UNCHANGED <<phase, future, runs, before>>
    BY <1>5, TailPlaces DEF DrainPop, HandInv
  <2>2. \A i \in 1..Len(queue) : queue[i] \in Op
    OBVIOUS
  <2>3. ASSUME NEW i \in 1..Len(queue), NEW p \in before[queue[i]]
        PROVE  \/ future[p] # "unset"
               \/ \E j \in 1..(i - 1) : queue[j] = p
    <3>1. p \in Op
      BY <2>2, <2>3
    <3> QED
      BY <2>1, <2>3, <3>1, NoneAssumption DEF OrderInv
  <2>4. ASSUME NEW i \in 1..Len(queue'), NEW p \in before[queue'[i]],
               future[p] = "unset", p # inHand'
        PROVE  \E j \in 1..(i - 1) : queue'[j] = p
    <3>1. i + 1 \in 1..Len(queue) /\ queue'[i] = queue[i + 1]
      BY <2>1, TailPlaces
    <3>2. PICK j \in 1..((i + 1) - 1) : queue[j] = p
      BY <2>3, <2>4, <3>1
    <3>3. j # 1
      BY <2>1, <2>4, <3>2
    <3>4. j - 1 \in 1..(i - 1) /\ j - 1 \in 1..Len(queue') /\ (j - 1) + 1 = j
      BY <2>1, <3>1, <3>2, <3>3, TailPlaces
    <3>5. queue'[j - 1] = queue[j]
      BY <2>1, <3>4, TailPlaces
    <3> QED
      BY <3>2, <3>4, <3>5
  <2>5. 1 \in 1..Len(queue)
    BY <2>1, TailPlaces
  <2>6. \A p \in before[queue[1]] : future[p] # "unset"
    BY <2>3, <2>5
  <2>7. \A p \in Op : phase'[p] # "queued" => before'[p] = {}
    BY <2>1 DEF OrderInv
  <2>8. ASSUME NEW i \in 1..Len(queue'), NEW p \in before'[queue'[i]]
        PROVE  \/ future'[p] # "unset"
               \/ p = inHand'
               \/ \E j \in 1..(i - 1) : queue'[j] = p
    BY <2>1, <2>4, <2>8
  <2>9. \A p \in Op : runs'[p] > 0 \/ p = inHand'
                     => \A o \in before'[p] : future'[o] # "unset"
    BY <2>1, <2>6 DEF OrderInv
  <2> QED
    BY <2>7, <2>8, <2>9 DEF OrderInv
<1>6. CASE Execute
  <2>1. /\ UNCHANGED <<queue, inHand, phase, before>>
        /\ inHand \in Op
        /\ \A p \in Op \ {inHand} : runs'[p] = runs[p]
    BY <1>6, HandIsOp DEF Execute, Perform, PumpGoto
  <2>2. \A i \in 1..Len(queue) : queue[i] \in Op
    OBVIOUS
  <2> QED
    BY <1>m, <2>1, <2>2 DEF OrderInv
<1>7. CASE Finish
  BY <1>7, NoneAssumption DEF Finish, HandInv, OrderInv
<1>8. CASE Cancel
  <2>1. /\ queue' = <<>>
        /\ UNCHANGED <<inHand, phase, runs, before>>
    BY <1>8 DEF Cancel
  <2> QED
    BY <1>m, <2>1 DEF OrderInv
<1> QED
  BY QuietCases, <1>1, <1>2, <1>3, <1>4, <1>5, <1>6, <1>7, <1>8

\* A flush that saw the counter at zero saw an empty queue and an empty hand.
LEMMA FlushInvStep ==
  ASSUME DataOK, DataOK', QueueInv, HandInv, WriteInv, PendingExact, FlushInv,
         [Next]_vars
  PROVE  FlushInv'
<1> USE DEF FlushInv, FlushSound, pumpVars, writeVars, DataOK
<1>m. \A o \in Op : future[o] # "unset" => future'[o] # "unset"
  BY FutureStep
<1>q. \A o \in Op : phase[o] = "queued" => phase'[o] = "queued"
  <2>1. CASE \E o \in Op : \/ Submit(o) \/ Route(o) \/ Enqueue(o)
                           \/ DirectWrite(o) \/ SubmitOnPump(o)
    BY <2>1 DEF Submit, Route, Enqueue, DirectWrite, SubmitOnPump
  <2>2. CASE Quiet \/ DrainPop \/ Execute \/ Finish \/ Cancel
    BY <2>2 DEF Quiet, DrainPop, Execute, Finish, Cancel, PumpGoto
  <2> QED
    BY QuietCases, <2>1, <2>2
<1>h. hung => hung'
  BY NextCases, Zenon
     DEF vars, Submit, Route, Enqueue, DirectWrite, SubmitOnPump, LoopTest,
         DispatchReturns, DispatchRaises, AfterRaise, DrainCheck, DrainPop,
         DrainEnd, Execute, Finish, ExitCheck, LoopTail, ReconnectWait,
         Reopen, UntilOpenEnds, ReopenTimeout, ThreadEnds, Open, Start, Stop,
         JoinReturns,
         JoinExpires, Cancel, Drop, FlushCall, FlushTrue, FlushFalse
<1>1. CASE FlushCall
  BY <1>1 DEF FlushCall
<1>2. CASE FlushTrue
  <2>1. ~hung => inHand = None /\ queue = <<>>
    BY <1>2 DEF FlushTrue, PendingExact, InFlight
  <2>2. ASSUME ~hung, NEW o \in flushSet PROVE future[o] # "unset"
    <3>1. o \in Op /\ phase[o] = "queued" /\ o # inHand
      BY <2>1, <2>2, NoneAssumption
    <3>2. ~Queued(o)
      BY <2>1, <2>2 DEF Queued
    <3> QED
      BY <3>1, <3>2 DEF WriteInv
  <2> QED
    BY <1>2, <2>2 DEF FlushTrue
<1>3. CASE FlushFalse
  BY <1>3 DEF FlushFalse
<1>4. CASE UNCHANGED flushVars
  BY <1>4, <1>m, <1>q, <1>h DEF flushVars
<1> QED
  <2>1. FlushCall \/ FlushTrue \/ FlushFalse \/ UNCHANGED flushVars
    BY NextCases
       DEF vars, Submit, Route, Enqueue, DirectWrite, SubmitOnPump, LoopTest,
           DispatchReturns, DispatchRaises, AfterRaise, DrainCheck, DrainPop,
           DrainEnd, Execute, Finish, ExitCheck, LoopTail, ReconnectWait,
           Reopen, UntilOpenEnds, ReopenTimeout, ThreadEnds, Open, Start,
           Stop, JoinReturns,
           JoinExpires, Cancel, Drop, PumpGoto
  <2> QED
    BY <2>1, <1>1, <1>2, <1>3, <1>4

-----------------------------------------------------------------------------
(* The theorems.                                                           *)

\* Inv is inductive: it holds initially and every step preserves it.
THEOREM Invariance == Spec => []Inv
<1>1. Init => Inv
  <2> SUFFICES ASSUME Init PROVE Inv
    OBVIOUS
  <2>1. QueueInv /\ HandInv /\ WriteInv /\ OrderInv
    BY DEF Init, QueueInv, HandInv, WriteInv, OrderInv
  <2>2. OwnerInv
    BY DEF Init, OwnerInv, SingleOwner, Alive
  <2>3. FlushInv /\ PendingExact /\ PendingNeverHigh
    BY DEF Init, FlushInv, FlushSound, PendingExact, PendingNeverHigh, InFlight
  <2>4. TypeOK
    BY InitTypeOK
  <2> QED
    BY <2>1, <2>2, <2>3, <2>4 DEF Inv
<1>2. Inv /\ [Next]_vars => Inv'
  <2> SUFFICES ASSUME Inv, [Next]_vars PROVE Inv'
    OBVIOUS
  <2> USE DEF Inv
  <2>1. TypeOK' /\ DataOK /\ DataOK'
    BY NextTypeOK DEF TypeOK
  <2>2. QueueInv'
    BY <2>1, QueueInvStep
  <2>3. HandInv'
    BY <2>1, HandInvStep
  <2>4. WriteInv'
    BY <2>1, WriteInvStep
  <2>5. OwnerInv'
    BY <2>1, OwnerInvStep
  <2>6. OrderInv'
    BY <2>1, <2>4, OrderInvStep
  <2>7. FlushInv'
    BY <2>1, FlushInvStep
  <2>8. PendingExact'
    BY <2>1, <2>3, PendingExactStep
  <2>9. PendingNeverHigh'
    BY <2>1, <2>3, PendingNeverHighStep
  <2> QED
    BY <2>1, <2>2, <2>3, <2>4, <2>5, <2>6, <2>7, <2>8, <2>9
<1> QED
  BY <1>1, <1>2, PTL DEF Spec

\* No write is executed twice, and a cancelled one is not executed at all,
\* however submitters, the pump and close() interleave.
THEOREM ExecutedAtMostOnce == Spec => []AtMostOnce
<1>1. Inv => AtMostOnce
  <2> SUFFICES ASSUME Inv, NEW o \in Op
               PROVE  /\ runs[o] <= 1
                      /\ future[o] = "cancelled" => runs[o] = 0
                      /\ future[o] \in {"ok", "error"} => runs[o] = 1
    BY DEF AtMostOnce
  <2>1. future[o] \in {"unset", "ok", "error", "cancelled"}
    BY DEF Inv, TypeOK, DataOK
  <2> QED
    BY <2>1 DEF Inv, WriteInv
<1> QED
  BY <1>1, Invariance, PTL

\* _write_queue_pending is exact until a pump is declared hung, and never too
\* large even then.
THEOREM PendingCounter == Spec => [](PendingExact /\ PendingNeverHigh)
<1>1. Inv => PendingExact /\ PendingNeverHigh
  BY DEF Inv
<1> QED
  BY <1>1, Invariance, PTL

\* flush_write_queue() returns True only when all that was queued is resolved.
THEOREM FlushIsSound == Spec => []FlushSound
<1>1. Inv => FlushSound
  BY DEF Inv, FlushInv
<1> QED
  BY <1>1, Invariance, PTL

\* The queue is first in, first out all the way to the execution.
THEOREM FirstInFirstOut == Spec => []FIFO
<1>1. Inv => FIFO
  BY DEF Inv, OrderInv, FIFO
<1> QED
  BY <1>1, Invariance, PTL

\* One owner never meets a live pump that was not declared hung.
THEOREM OwnerMeetsNoPump == Spec => []SingleOwner
<1>1. Inv => SingleOwner
  BY DEF Inv, OwnerInv
<1> QED
  BY <1>1, Invariance, PTL

\* A resolved future is never overwritten.
THEOREM FuturesAreFinal == Spec => FutureStable
<1>1. Inv /\ [Next]_vars
        => [\A o \in Op : future[o] # "unset" => future'[o] = future[o]]_vars
  BY FutureStep DEF Inv, TypeOK
<1> QED
  BY <1>1, Invariance, PTL DEF Spec, FutureStable
-----------------------------------------------------------------------------
(* The refinement: WriteQueue implements WriteContract.                    *)

\* For the application a step that changes one write changes nothing else.
LEMMA SeenFrame ==
  ASSUME UNCHANGED <<queue, inHand>>, NEW o \in Op,
         \A p \in Op \ {o} : phase'[p] = phase[p] /\ future'[p] = future[p]
  PROVE  SeenState' = [SeenState EXCEPT ![o] = Seen(o)']
<1>1. \A p \in Op \ {o} : Seen(p)' = Seen(p)
  BY DEF Seen, Queued
<1> QED
  BY <1>1 DEF SeenState

\* A write whose submitter has not finished is idle for the application.
LEMMA IdleUntilAccepted ==
  ASSUME DataOK, QueueInv, HandInv, WriteInv, NEW o \in Op,
         phase[o] \in {"new", "admitted", "append", "direct"}
  PROVE  Seen(o) = "idle" /\ o # inHand /\ ~Queued(o) /\ future[o] = "unset"
  BY NoneAssumption DEF DataOK, QueueInv, HandInv, WriteInv, Seen, Queued

\* Submit and Route: the contract refuses, or does nothing.
LEMMA SubmitRefines ==
  ASSUME DataOK, QueueInv, HandInv, WriteInv, NEW o \in Op,
         Submit(o) \/ Route(o)
  PROVE  [Contract!Next]_<<queue, SeenState>>
<1>1. /\ UNCHANGED <<queue, inHand, future>>
      /\ phase[o] \in {"new", "admitted"}
      /\ phase'[o] \in {"refused", "admitted", "append", "direct"}
      /\ \A p \in Op \ {o} : phase'[p] = phase[p]
  BY DEF Submit, Route, DataOK, writeVars, pumpVars
<1>2. Seen(o) = "idle" /\ o # inHand /\ ~Queued(o) /\ future[o] = "unset"
  BY <1>1, IdleUntilAccepted
<1>3. Seen(o)' \in {"idle", "refused"}
  BY <1>1, <1>2 DEF Seen, Queued
<1>4. SeenState' = [SeenState EXCEPT ![o] = Seen(o)']
  BY <1>1, SeenFrame
<1>5. SeenState[o] = "idle"
  BY <1>2 DEF SeenState
<1>6. CASE Seen(o)' = "idle"
  <2>1. SeenState' = SeenState
    BY <1>4, <1>5, <1>6 DEF SeenState
  <2> QED
    BY <1>1, <2>1
<1>7. CASE Seen(o)' = "refused"
  <2>1. Contract!Refuse(o)
    BY <1>1, <1>4, <1>5, <1>7 DEF Contract!Refuse
  <2> QED
    BY <2>1 DEF Contract!Next
<1> QED
  BY <1>3, <1>6, <1>7

\* Appending to the queue is what the contract calls accepting.
LEMMA EnqueueRefines ==
  ASSUME DataOK, QueueInv, HandInv, WriteInv, NEW o \in Op, Enqueue(o)
  PROVE  Contract!Next
<1> USE DEF DataOK
<1>1. /\ queue' = Append(queue, o)
      /\ UNCHANGED <<inHand, future>>
      /\ phase[o] = "append"
      /\ \A p \in Op \ {o} : phase'[p] = phase[p]
  BY DEF Enqueue, pumpVars
<1>2. Seen(o) = "idle" /\ o # inHand /\ ~Queued(o) /\ future[o] = "unset"
  BY <1>1, IdleUntilAccepted
<1>3. Queued(o)' /\ \A p \in Op \ {o} : Queued(p)' <=> Queued(p)
  BY <1>1, AppendPlaces DEF Queued
<1>4. Seen(o)' = "waiting"
  BY <1>1, <1>2, <1>3 DEF Seen
<1>5. \A p \in Op \ {o} : Seen(p)' = Seen(p)
  BY <1>1, <1>3 DEF Seen
<1>6. SeenState' = [SeenState EXCEPT ![o] = "waiting"] /\ SeenState[o] = "idle"
  BY <1>2, <1>4, <1>5 DEF SeenState
<1>7. Contract!Accept(o)
  BY <1>1, <1>6 DEF Contract!Accept
<1> QED
  BY <1>7 DEF Contract!Next

\* A write executed by its own caller never entered the line.
LEMMA DirectRefines ==
  ASSUME DataOK, QueueInv, HandInv, WriteInv, NEW o \in Op,
         DirectWrite(o) \/ SubmitOnPump(o)
  PROVE  Contract!Next
<1>1. /\ UNCHANGED <<queue, inHand>>
      /\ phase[o] \in {"new", "direct"}
      /\ future'[o] \in {"ok", "error"}
      /\ \A p \in Op \ {o} : phase'[p] = phase[p] /\ future'[p] = future[p]
  BY DEF DirectWrite, SubmitOnPump, Perform, DataOK, pumpVars
<1>2. SeenState[o] = "idle"
  BY <1>1, IdleUntilAccepted DEF SeenState
<1>3. Seen(o)' = future'[o]
  BY <1>1 DEF Seen
<1>4. SeenState' = [SeenState EXCEPT ![o] = future'[o]]
  BY <1>1, <1>3, SeenFrame
<1>5. Contract!AtOnce(o, future'[o])
  BY <1>1, <1>2, <1>4 DEF Contract!AtOnce
<1> QED
  BY <1>1, <1>5 DEF Contract!Next, Contract!Answer

\* Popping a write is what the contract calls beginning it.
LEMMA DrainPopRefines ==
  ASSUME DataOK, QueueInv, HandInv, WriteInv, DrainPop
  PROVE  Contract!Next
<1> USE DEF DataOK
<1>0. PICK o \in Op : o = queue[1]
  BY TailPlaces DEF DrainPop
<1>1. /\ queue # <<>>
      /\ queue' = Tail(queue)
      /\ inHand' = o
      /\ inHand = None
      /\ o = Head(queue)
      /\ UNCHANGED <<phase, future>>
  BY <1>0, TailPlaces DEF DrainPop, HandInv
<1>2. 1 \in 1..Len(queue) /\ o \in Op
  BY <1>1, TailPlaces
<1>3. future[o] = "unset"
  BY <1>0, <1>2 DEF QueueInv
<1>4. \A p \in Op : SeenState[p] # "running"
  BY <1>1, NoneAssumption DEF SeenState, Seen
<1>5. ASSUME NEW p \in Op \ {o} PROVE Queued(p)' <=> Queued(p)
  <2>1. ASSUME NEW i \in 1..Len(queue), queue[i] = p
        PROVE  i - 1 \in 1..Len(queue') /\ queue'[i - 1] = p
    <3>1. i # 1
      BY <1>0, <1>5, <2>1
    <3> QED
      BY <1>1, <2>1, <3>1, TailPlaces
  <2>2. ASSUME NEW i \in 1..Len(queue'), queue'[i] = p
        PROVE  i + 1 \in 1..Len(queue) /\ queue[i + 1] = p
    BY <1>1, <2>2, TailPlaces
  <2> QED
    BY <2>1, <2>2 DEF Queued
<1>6. \A p \in Op \ {o} : Seen(p)' = Seen(p)
  BY <1>1, <1>5, NoneAssumption DEF Seen
<1>7. Seen(o)' = "running"
  BY <1>1, <1>3 DEF Seen
<1>8. SeenState' = [SeenState EXCEPT ![o] = "running"]
  BY <1>2, <1>6, <1>7 DEF SeenState
<1>9. Contract!Begin(o)
  BY <1>1, <1>4, <1>8 DEF Contract!Begin
<1> QED
  BY <1>2, <1>9 DEF Contract!Next

\* Executing the write in hand answers it.
LEMMA ExecuteRefines ==
  ASSUME DataOK, HandInv, Execute
  PROVE  Contract!Next
<1>1. inHand \in Op /\ future[inHand] = "unset"
  BY HandIsOp DEF Execute, PumpGoto, HandInv
<1>2. /\ UNCHANGED <<queue, inHand, phase>>
      /\ future'[inHand] \in {"ok", "error"}
      /\ \A p \in Op \ {inHand} : future'[p] = future[p]
  BY <1>1 DEF Execute, PumpGoto, Perform, DataOK
<1>3. SeenState[inHand] = "running"
  BY <1>1 DEF SeenState, Seen
<1>4. Seen(inHand)' = future'[inHand]
  BY <1>2 DEF Seen
<1>5. SeenState' = [SeenState EXCEPT ![inHand] = future'[inHand]]
  <2>1. \A p \in Op \ {inHand} : Seen(p)' = Seen(p)
    BY <1>2 DEF Seen, Queued
  <2> QED
    BY <1>1, <1>2, <1>4, <2>1 DEF SeenState
<1>6. Contract!Answered(inHand, future'[inHand])
  BY <1>2, <1>3, <1>5 DEF Contract!Answered
<1> QED
  BY <1>1, <1>2, <1>6 DEF Contract!Next, Contract!Answer

\* The cancel of close() answers exactly the line.
LEMMA CancelRefines ==
  ASSUME DataOK, QueueInv, HandInv, Cancel
  PROVE  Contract!Next
<1> USE DEF DataOK
<1>1. /\ queue' = <<>>
      /\ UNCHANGED <<inHand, phase>>
      /\ future' = [o \in Op |-> IF Queued(o) /\ future[o] = "unset"
                                 THEN "cancelled" ELSE future[o]]
  BY DEF Cancel, pumpVars
<1>2. \A o \in Op : Queued(o) => future[o] = "unset"
  BY DEF Queued, QueueInv
<1>3. \A o \in Op : ~Queued(o)'
  BY <1>1 DEF Queued
<1>4. \A o \in Op : Seen(o)' = IF Queued(o) THEN "cancelled" ELSE Seen(o)
  BY <1>1, <1>2, <1>3 DEF Seen
<1>5. \A o \in Op : Contract!InLine(o) <=> Queued(o)
  BY DEF Contract!InLine, Queued
<1>6. SeenState' = [o \in Op |-> IF Contract!InLine(o) THEN "cancelled"
                                 ELSE SeenState[o]]
  BY <1>4, <1>5 DEF SeenState
<1> QED
  BY <1>1, <1>6 DEF Contract!CancelLine, Contract!Next

\* Every step of every thread is one step of the contract, or none.
LEMMA StepRefines ==
  ASSUME Inv, [Next]_vars
  PROVE  [Contract!Next]_<<queue, SeenState>>
<1>0. DataOK /\ QueueInv /\ HandInv /\ WriteInv
  BY DEF Inv, TypeOK
<1>1. CASE Quiet
  BY <1>1 DEF Quiet, SeenState, Seen, Queued
<1>2. ASSUME NEW o \in Op,
             \/ Submit(o) \/ Route(o) \/ Enqueue(o)
             \/ DirectWrite(o) \/ SubmitOnPump(o)
      PROVE  [Contract!Next]_<<queue, SeenState>>
  BY <1>0, <1>2, SubmitRefines, EnqueueRefines, DirectRefines
<1>3. CASE DrainPop
  BY <1>0, <1>3, DrainPopRefines
<1>4. CASE Execute
  BY <1>0, <1>4, ExecuteRefines
<1>5. CASE Finish
  <2>1. /\ UNCHANGED <<queue, phase, future>>
        /\ inHand' = None
        /\ future[inHand] # "unset"
    BY <1>0, <1>5 DEF Finish, HandInv
  <2>2. \A o \in Op : Seen(o)' = Seen(o)
    BY <2>1, NoneAssumption DEF Seen, Queued
  <2> QED
    BY <2>1, <2>2 DEF SeenState
<1>6. CASE Cancel
  BY <1>0, <1>6, CancelRefines
<1> QED
  BY QuietCases, <1>1, <1>2, <1>3, <1>4, <1>5, <1>6

\* Nothing has been submitted when the contract begins.
LEMMA InitRefines == Init => Contract!Init
  BY NoneAssumption DEF Init, Contract!Init, SeenState, Seen, Queued

\* WriteQueue implements WriteContract, for every set of writes and whatever
\* the simulator, the owner and the handle do meanwhile.
THEOREM ContractKept == Spec => ImplementsContract
<1>1. Inv /\ [Next]_vars => [Contract!Next]_<<queue, SeenState>>
  BY StepRefines
<1> QED
  BY <1>1, Invariance, InitRefines, PTL
     DEF Spec, ImplementsContract, Contract!Spec

\* A pump told to stop leaves no write behind: its counter being exact, the
\* loop's tests of the counter are as good as tests of the queue.
THEOREM StopDrains == Spec => ExitDrained
<1>1. ASSUME Inv, [Next]_vars, pump \in {"test", "exitCheck"},
             pump' = "ending"
      PROVE  queue = <<>> \/ hung
  <2>0. /\ DataOK /\ PendingExact /\ pending \in Nat
        /\ queue \in Seq(Op) /\ InFlight \in {0, 1}
    BY <1>1 DEF Inv, TypeOK, DataOK, InFlight
  <2>1. pending = 0
    <3> USE DEF pumpVars, writeVars, flushVars
    <3>1. CASE LoopTest \/ ExitCheck
      BY <1>1, <3>1 DEF LoopTest, ExitCheck, PumpGoto
    <3>2. CASE ~(LoopTest \/ ExitCheck)
      <4>1. pump' = pump \/ pump \notin {"test", "exitCheck"} \/ pump' = "test"
        BY <1>1, <3>2, NextCases, Zenon
           DEF vars, Submit, Route, Enqueue, DirectWrite, SubmitOnPump,
               DispatchReturns, DispatchRaises, AfterRaise, DrainCheck,
               DrainPop, DrainEnd, Execute, Finish, LoopTail, ReconnectWait,
               Reopen, UntilOpenEnds, ReopenTimeout, ThreadEnds, PumpGoto,
               Open, Start, Stop,
               JoinReturns, JoinExpires, Cancel, Drop, FlushCall, FlushTrue,
               FlushFalse
      <4> QED
        BY <1>1, <4>1
    <3> QED
      BY <3>1, <3>2
  <2> QED
    BY <2>0, <2>1 DEF PendingExact
<1>2. Inv /\ [Next]_vars
        => ((pump \in {"test", "exitCheck"} /\ pump' = "ending")
              => queue = <<>> \/ hung)
  BY <1>1
<1>3. Inv /\ [Next]_vars
        => [(pump \in {"test", "exitCheck"} /\ pump' = "ending")
              => queue = <<>> \/ hung]_vars
  BY <1>2
<1> QED
  BY <1>3, Invariance, PTL DEF Spec, ExitDrained

-----------------------------------------------------------------------------
(* The dispatch thread of WriteQueue implements PumpContract.              *)

\* The stop event is set only while the flag is off, and the loop ends only
\* when it was told to or native code hung.
EndInv ==
    /\ stopEv => ~running
    /\ pump = "ending" => ~running \/ hung

LEMMA EndInvStep ==
  ASSUME EndInv, [Next]_vars
  PROVE  EndInv'
<1> USE DEF EndInv, pumpVars, PumpGoto
<1>1. CASE Start
  BY <1>1 DEF Start
<1>2. CASE Stop
  BY <1>2 DEF Stop
<1>3. CASE LoopTest \/ AfterRaise \/ ExitCheck \/ ReconnectWait \/ ReopenTimeout
  BY <1>3 DEF LoopTest, AfterRaise, ExitCheck, ReconnectWait, ReopenTimeout
<1>4. CASE DispatchReturns \/ DispatchRaises \/ DrainCheck \/ DrainPop
           \/ DrainEnd \/ Execute \/ Finish \/ LoopTail \/ Reopen
           \/ UntilOpenEnds \/ ThreadEnds
  <2>1. /\ UNCHANGED <<running, hung, stopEv>>
        /\ pump' # "ending"
    BY <1>4, Zenon
       DEF DispatchReturns, DispatchRaises, DrainCheck, DrainPop, DrainEnd,
           Execute, Finish, LoopTail, Reopen, UntilOpenEnds, ThreadEnds
  <2> QED
    BY <2>1
<1>5. CASE JoinExpires
  BY <1>5 DEF JoinExpires
<1>6. CASE UNCHANGED <<running, hung, stopEv, pump>>
  BY <1>6
<1> QED
  <2>1. \/ Start \/ Stop \/ JoinExpires
        \/ LoopTest \/ AfterRaise \/ ExitCheck \/ ReconnectWait
        \/ ReopenTimeout
        \/ DispatchReturns \/ DispatchRaises \/ DrainCheck \/ DrainPop
        \/ DrainEnd \/ Execute \/ Finish \/ LoopTail \/ Reopen
        \/ UntilOpenEnds \/ ThreadEnds
        \/ UNCHANGED <<running, hung, stopEv, pump>>
    BY NextCases
       DEF vars, Submit, Route, Enqueue, DirectWrite, SubmitOnPump, Open,
           JoinReturns, Cancel, Drop, FlushCall, FlushTrue, FlushFalse
  <2> QED
    BY <2>1, <1>1, <1>2, <1>3, <1>4, <1>5, <1>6

\* Every step of every thread is one step of the pump contract, or none.
LEMMA PumpRefines ==
  ASSUME EndInv, [Next]_vars
  PROVE  [PumpPart!Next]_<<IF Alive THEN {"pump"} ELSE {}, Told, hung>>
<1> USE DEF pumpVars, PumpGoto, Alive, Told
<1>1. CASE Start
  <2>1. PumpPart!Start
    BY <1>1 DEF Start, PumpPart!Start
  <2> QED
    BY <2>1 DEF PumpPart!Next
<1>2. CASE Stop
  <2>1. CASE Alive
    <3>1. PumpPart!Tell
      BY <1>2, <2>1 DEF Stop, PumpPart!Tell
    <3> QED
      BY <3>1 DEF PumpPart!Next
  <2>2. CASE ~Alive
    BY <1>2, <2>2 DEF Stop
  <2> QED
    BY <2>1, <2>2
<1>3. CASE JoinExpires \/ ReopenTimeout
  <2>1. PumpPart!Hang
    BY <1>3 DEF JoinExpires, ReopenTimeout, PumpPart!Hang
  <2> QED
    BY <2>1 DEF PumpPart!Next
<1>4. CASE ThreadEnds
  <2>1. PumpPart!Exit
    BY <1>4 DEF ThreadEnds, EndInv, PumpPart!Exit, PumpPart!Ends
  <2> QED
    BY <2>1 DEF PumpPart!Next
<1>5. CASE UNCHANGED <<running, hung>> /\ (pump' = "off" <=> pump = "off")
  BY <1>5
<1> QED
  <2>1. \/ Start \/ Stop \/ JoinExpires \/ ReopenTimeout \/ ThreadEnds
        \/ UNCHANGED <<running, hung>> /\ (pump' = "off" <=> pump = "off")
    BY NextCases
       DEF vars, Submit, Route, Enqueue, DirectWrite, SubmitOnPump, LoopTest,
           DispatchReturns, DispatchRaises, AfterRaise, DrainCheck, DrainPop,
           DrainEnd, Execute, Finish, ExitCheck, LoopTail, ReconnectWait,
           Reopen, UntilOpenEnds, Open, JoinReturns, Cancel, Drop, FlushCall,
           FlushTrue,
           FlushFalse
  <2> QED
    BY <2>1, <1>1, <1>2, <1>3, <1>4, <1>5

\* The dispatch thread of this module, whose start and stop are single steps,
\* implements PumpContract (client.py start_background_dispatch,
\* stop_background_dispatch, _dispatch_loop): what is shown here of the queue
\* rests on no more than PumpLifecycle delivers.
THEOREM PumpKeepsContract == Spec => ImplementsPump
<1>1. Init => EndInv
  BY DEF Init, EndInv
<1>2. EndInv /\ [Next]_vars => EndInv'
  BY EndInvStep
<1>3. Init => PumpPart!Init
  BY DEF Init, PumpPart!Init, Alive, Told
<1>4. EndInv /\ [Next]_vars
        => [PumpPart!Next]_<<IF Alive THEN {"pump"} ELSE {}, Told, hung>>
  BY PumpRefines
<1> QED
  BY <1>1, <1>2, <1>3, <1>4, PTL DEF Spec, ImplementsPump, PumpPart!Spec
=============================================================================
