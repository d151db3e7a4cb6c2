----------------------------- MODULE WriteQueue -----------------------------
(***************************************************************************)
(* The write queue of SimConnect (write_queue.py) with the three parties   *)
(* that touch it: the threads that call set()/trigger()/submit(), the      *)
(* dispatch thread that drains it between two CallDispatch calls           *)
(* (client.py _dispatch_loop), and the application thread that opens,      *)
(* starts, stops and closes the connection.                                *)
(*                                                                         *)
(* One member of Op is one _WriteOp object with its WriteFuture.  What a   *)
(* write does in the simulator is abstracted to "it ran, and succeeded or  *)
(* raised"; the definitions it touches are the subject of Definitions.     *)
(***************************************************************************)
EXTENDS Naturals, Sequences

CONSTANTS
    Op,              \* the writes the application will ever submit
    None,            \* no write in the hands of the dispatch thread
    MaxItems,        \* max_items of _drain_write_queue (256 in the code)
    AutoReconnect,   \* _auto_reconnect: may the pump reopen the handle?
    DispatchMayRaise \* may CallDispatch raise a Python exception?

ASSUME NoneAssumption == None \notin Op
ASSUME MaxItemsAssumption == MaxItems \in Nat \ {0}
ASSUME FlagsAssumption ==
    AutoReconnect \in BOOLEAN /\ DispatchMayRaise \in BOOLEAN

VARIABLES
    isOpen,   \* a non-null _hSimConnect
    running,  \* _dispatch_running
    stopEv,   \* _dispatch_stop_event
    hung,     \* _native_hung
    pump,     \* where the dispatch thread is; "off" when it is not alive
    inHand,   \* the write popped by _drain_write_queue, or None
    count,    \* writes drained in the current _drain_write_queue
    queue,    \* _write_queue
    pending,  \* _write_queue_pending
    phase,    \* where the call that submits each write is
    future,   \* the WriteFuture of each write
    runs,     \* how many times each write was executed
    before,   \* history: the writes that entered the queue earlier
    ctl,      \* where the application thread is in stop or close
    flush,    \* where a caller of flush_write_queue is
    flushSet  \* history: the writes queued when flush was called

pumpVars == <<pump, inHand, count, stopEv>>
writeVars == <<queue, pending, phase, future, runs, before>>
flushVars == <<flush, flushSet>>
vars == <<isOpen, running, hung, ctl, pumpVars, writeVars, flushVars>>

PumpState == {"off", "test", "dispatch", "raised", "drainCheck", "drain",
              "execute", "finish", "exitCheck", "tail", "reconnectWait",
              "reopen", "untilOpen", "ending"}

\* Thread.is_alive() of the dispatch thread.
Alive == pump # "off"

\* The pump is inside its while loop: it will look at the queue again.
Looping == pump \notin {"off", "ending"}

Phase == {"new", "refused", "admitted", "append", "direct", "queued", "done"}

Queued(o) == \E i \in 1..Len(queue) : queue[i] = o

InFlight == IF inHand = None THEN 0 ELSE 1

Init ==
    /\ isOpen = FALSE /\ running = FALSE /\ stopEv = FALSE /\ hung = FALSE
    /\ pump = "off" /\ inHand = None /\ count = 0
    /\ queue = <<>> /\ pending = 0
    /\ phase = [o \in Op |-> "new"]
    /\ future = [o \in Op |-> "unset"]
    /\ runs = [o \in Op |-> 0]
    /\ before = [o \in Op |-> {}]
    /\ ctl = "idle"
    /\ flush = "idle" /\ flushSet = {}

-----------------------------------------------------------------------------
(* A thread that submits a write: _enqueue_write.                          *)

\* write_queue.py:206  if not self.is_open: raise RuntimeError
Submit(o) ==
    /\ phase[o] = "new"
    /\ phase' = [phase EXCEPT ![o] = IF isOpen THEN "admitted" ELSE "refused"]
    /\ UNCHANGED <<isOpen, running, hung, ctl, pumpVars, flushVars,
                   queue, pending, future, runs, before>>

\* write_queue.py:217  the flag is read here, outside the queue's condition
Route(o) ==
    /\ phase[o] = "admitted"
    /\ phase' = [phase EXCEPT ![o] = IF running THEN "append" ELSE "direct"]
    /\ UNCHANGED <<isOpen, running, hung, ctl, pumpVars, flushVars,
                   queue, pending, future, runs, before>>

\* Defective variant: appendleft for append.
EnqueueFront(o) ==
    /\ phase[o] = "append"
    /\ phase' = [phase EXCEPT ![o] = "queued"]
    /\ queue' = <<o>> \o queue
    /\ pending' = pending + 1
    /\ before' = [before EXCEPT ![o] = {p \in Op : phase[p] = "queued"}]
    /\ UNCHANGED <<isOpen, running, hung, ctl, pumpVars, flushVars,
                   future, runs>>

\* write_queue.py:218-221  append and count, under _write_queue_done
Enqueue(o) ==
    /\ phase[o] = "append"
    /\ phase' = [phase EXCEPT ![o] = "queued"]
    /\ queue' = Append(queue, o)
    /\ pending' = pending + 1
    /\ before' = [before EXCEPT ![o] = {p \in Op : phase[p] = "queued"}]
    /\ UNCHANGED <<isOpen, running, hung, ctl, pumpVars, flushVars,
                   future, runs>>

\* The outcome of _execute_write_op: op.execute ran, its future is resolved.
Perform(o) ==
    /\ runs' = [runs EXCEPT ![o] = @ + 1]
    /\ \E r \in {"ok", "error"} : future' = [future EXCEPT ![o] = r]

\* write_queue.py:226  no pump is running: the caller executes it itself
DirectWrite(o) ==
    /\ phase[o] = "direct"
    /\ Perform(o)
    /\ phase' = [phase EXCEPT ![o] = "done"]
    /\ UNCHANGED <<isOpen, running, hung, ctl, pumpVars, flushVars,
                   queue, pending, before>>

\* A callback on the dispatch thread submits, from the loop's dispatch or from
\* the wait for OPEN, or a queued write does: executed on the spot.
SubmitOnPump(o) ==
    /\ pump \in {"dispatch", "untilOpen", "execute"}
    /\ isOpen
    /\ phase[o] = "new"
    /\ Perform(o)
    /\ phase' = [phase EXCEPT ![o] = "done"]
    /\ UNCHANGED <<isOpen, running, hung, ctl, pumpVars, flushVars,
                   queue, pending, before>>

-----------------------------------------------------------------------------
(* The dispatch thread: _dispatch_loop, _drain_write_queue,                *)
(* _execute_write_op.                                                      *)

PumpGoto(from, to) ==
    /\ pump = from
    /\ pump' = to
    /\ UNCHANGED <<inHand, count, stopEv, ctl, flushVars>>

\* while self._dispatch_running or self._write_queue_pending > 0
LoopTest ==
    /\ PumpGoto("test", IF ~running /\ pending = 0 THEN "ending"
                        ELSE IF isOpen /\ running THEN "dispatch"
                        ELSE "drainCheck")
    /\ UNCHANGED <<isOpen, running, hung, writeVars>>

\* dispatch() returns; a QUIT message seen by it has dropped the handle.
DispatchReturns ==
    /\ PumpGoto("dispatch", "drainCheck")
    /\ isOpen' \in {isOpen, FALSE}
    /\ UNCHANGED <<running, hung, writeVars>>

DispatchRaises ==
    /\ DispatchMayRaise
    /\ PumpGoto("dispatch", "raised")
    /\ UNCHANGED <<isOpen, running, hung, writeVars>>

\* except: if self._dispatch_stop_event.wait(1.0): break, else continue
AfterRaise ==
    /\ PumpGoto("raised", IF stopEv THEN "ending" ELSE "test")
    /\ UNCHANGED <<isOpen, running, hung, writeVars>>

\* Defective variant: the queue is drained only while there is a handle.
DrainCheckNeedsHandle ==
    /\ pump = "drainCheck"
    /\ pump' = IF pending > 0 /\ isOpen THEN "drain" ELSE "exitCheck"
    /\ count' = 0
    /\ UNCHANGED <<isOpen, running, hung, ctl, inHand, stopEv, writeVars,
                   flushVars>>

\* if self._write_queue_pending > 0: self._drain_write_queue()
DrainCheck ==
    /\ pump = "drainCheck"
    /\ pump' = IF pending > 0 THEN "drain" ELSE "exitCheck"
    /\ count' = 0
    /\ UNCHANGED <<isOpen, running, hung, ctl, inHand, stopEv, writeVars,
                   flushVars>>

\* Defective variant: the write is read but not removed.
DrainPopPeeks ==
    /\ pump = "drain"
    /\ count < MaxItems
    /\ queue # <<>>
    /\ inHand' = Head(queue)
    /\ queue' = queue
    /\ pump' = "execute"
    /\ UNCHANGED <<isOpen, running, hung, ctl, count, stopEv, pending, phase,
                   future, runs, before, flushVars>>

\* count < max_items and a write to pop, under _write_queue_done
DrainPop ==
    /\ pump = "drain"
    /\ count < MaxItems
    /\ queue # <<>>
    /\ inHand' = Head(queue)
    /\ queue' = Tail(queue)
    /\ pump' = "execute"
    /\ UNCHANGED <<isOpen, running, hung, ctl, count, stopEv, pending, phase,
                   future, runs, before, flushVars>>

DrainEnd ==
    /\ count = MaxItems \/ queue = <<>>
    /\ PumpGoto("drain", "exitCheck")
    /\ UNCHANGED <<isOpen, running, hung, writeVars>>

\* op.execute(self), then the future is set, before pending is decremented
Execute ==
    /\ PumpGoto("execute", "finish")
    /\ Perform(inHand)
    /\ UNCHANGED <<isOpen, running, hung, queue, pending, phase, before>>

\* Defective variant: the decrement is not guarded.
FinishUnguarded ==
    /\ pump = "finish"
    /\ pending' = pending - 1
    /\ inHand' = None
    /\ count' = count + 1
    /\ pump' = "drain"
    /\ UNCHANGED <<isOpen, running, hung, ctl, stopEv, queue, phase, future,
                   runs, before, flushVars>>

\* finally: the decrement is guarded, so a cancel meanwhile leaves it at 0
Finish ==
    /\ pump = "finish"
    /\ pending' = IF pending > 0 THEN pending - 1 ELSE pending
    /\ inHand' = None
    /\ count' = count + 1
    /\ pump' = "drain"
    /\ UNCHANGED <<isOpen, running, hung, ctl, stopEv, queue, phase, future,
                   runs, before, flushVars>>

\* Defective variant: the exit test reads the flag alone.
ExitCheckIgnoresQueue ==
    /\ PumpGoto("exitCheck", IF ~running THEN "ending"
                             ELSE "tail")
    /\ UNCHANGED <<isOpen, running, hung, writeVars>>

\* if not self._dispatch_running and self._write_queue_pending == 0: break
ExitCheck ==
    /\ PumpGoto("exitCheck", IF ~running /\ pending = 0 THEN "ending"
                             ELSE "tail")
    /\ UNCHANGED <<isOpen, running, hung, writeVars>>

\* the reconnect branch, or a 1 ms wait and around again; native_hung also
\* switches _auto_reconnect off
LoopTail ==
    /\ PumpGoto("tail", IF isOpen \/ ~running \/ ~AutoReconnect \/ hung
                        THEN "test"
                        ELSE "reconnectWait")
    /\ UNCHANGED <<isOpen, running, hung, writeVars>>

\* hung meanwhile: break; the back-off wait breaks on stop; open() itself
\* refuses when native hung
ReconnectWait ==
    /\ PumpGoto("reconnectWait", IF stopEv \/ hung THEN "ending" ELSE "reopen")
    /\ UNCHANGED <<isOpen, running, hung, writeVars>>

\* open() fails, or succeeds and _pump_until_open waits for OPEN ...
Reopen ==
    /\ \/ PumpGoto("reopen", "test") /\ UNCHANGED isOpen
       \/ PumpGoto("reopen", "untilOpen") /\ isOpen' = TRUE
    /\ UNCHANGED <<running, hung, writeVars>>

\* ... which ends by OPEN, its deadline, or an exception the loop swallows; a
\* QUIT seen meanwhile has dropped the handle again.
UntilOpenEnds ==
    /\ PumpGoto("untilOpen", "test")
    /\ isOpen' \in {isOpen, FALSE}
    /\ UNCHANGED <<running, hung, writeVars>>

\* ... or SimConnect_Open does not return in time: native hung, and break
ReopenTimeout ==
    /\ PumpGoto("reopen", "ending")
    /\ hung' = TRUE
    /\ UNCHANGED <<isOpen, running, writeVars>>

ThreadEnds ==
    /\ PumpGoto("ending", "off")
    /\ UNCHANGED <<isOpen, running, hung, writeVars>>

Pump == \/ LoopTest \/ DispatchReturns \/ DispatchRaises \/ AfterRaise
        \/ DrainCheck \/ DrainPop \/ DrainEnd \/ Execute \/ Finish
        \/ ExitCheck \/ LoopTail \/ ReconnectWait \/ Reopen \/ UntilOpenEnds
        \/ ReopenTimeout \/ ThreadEnds

-----------------------------------------------------------------------------
(* The application thread: open, start, stop, close.                       *)

Open ==
    /\ ctl \in {"idle", "closed"} /\ ~isOpen /\ ~hung
    /\ isOpen' = TRUE
    /\ ctl' = "idle"
    /\ UNCHANGED <<running, hung, pumpVars, writeVars, flushVars>>

\* start_background_dispatch: a no-op when running, refused when native hung
\* (or when the old thread is still alive, which SingleOwner excludes here).
Start ==
    /\ ctl \in {"idle", "closed"} /\ ~hung /\ ~running /\ ~Alive
    /\ running' = TRUE
    /\ stopEv' = FALSE
    /\ pump' = "test"
    /\ ctl' = "idle"
    /\ UNCHANGED <<isOpen, hung, inHand, count, writeVars, flushVars>>

\* stop_background_dispatch up to the join; close() does the same first.
Stop ==
    /\ ctl \in {"idle", "closed"}
    /\ ctl' \in {"stopJoin", "closeJoin"}
    /\ running' = FALSE
    /\ stopEv' = TRUE
    /\ UNCHANGED <<isOpen, hung, pump, inHand, count, writeVars, flushVars>>

AfterJoin == IF ctl = "closeJoin" THEN "cancel" ELSE "idle"

JoinReturns ==
    /\ ctl \in {"stopJoin", "closeJoin"}
    /\ ~Alive
    /\ ctl' = AfterJoin
    /\ UNCHANGED <<isOpen, running, hung, pumpVars, writeVars, flushVars>>

\* Defective variant: a zombie is not marked as native hung.
JoinExpiresSilently ==
    /\ ctl \in {"stopJoin", "closeJoin"}
    /\ Alive
    /\ ctl' = AfterJoin
    /\ UNCHANGED <<isOpen, running, hung, pumpVars, writeVars, flushVars>>

\* the join expires on a live thread: zombie, native hung
JoinExpires ==
    /\ ctl \in {"stopJoin", "closeJoin"}
    /\ Alive
    /\ hung' = TRUE
    /\ ctl' = AfterJoin
    /\ UNCHANGED <<isOpen, running, pumpVars, writeVars, flushVars>>

\* _cancel_write_queue: one critical section of _write_queue_done
Cancel ==
    /\ ctl = "cancel"
    /\ future' = [o \in Op |-> IF Queued(o) /\ future[o] = "unset"
                               THEN "cancelled" ELSE future[o]]
    /\ queue' = <<>>
    /\ pending' = 0
    /\ ctl' = "drop"
    /\ UNCHANGED <<isOpen, running, hung, pumpVars, phase, runs, before,
                   flushVars>>

\* the rest of close(): the handle is dropped
Drop ==
    /\ ctl = "drop"
    /\ isOpen' = FALSE
    /\ ctl' = "closed"
    /\ UNCHANGED <<running, hung, pumpVars, writeVars, flushVars>>

Application == \/ Open \/ Start \/ Stop
               \/ JoinReturns \/ JoinExpires \/ Cancel \/ Drop

-----------------------------------------------------------------------------
(* A caller of flush_write_queue.                                          *)

FlushCall ==
    /\ flush = "idle"
    /\ flush' = "waiting"
    /\ flushSet' = {o \in Op : phase[o] = "queued"}
    /\ UNCHANGED <<isOpen, running, hung, ctl, pumpVars, writeVars>>

\* Defective variant: flush looks at the queue instead of the counter.
FlushTrueOnEmptyQueue ==
    /\ flush = "waiting"
    /\ queue = <<>>
    /\ flush' = "true"
    /\ UNCHANGED <<isOpen, running, hung, ctl, pumpVars, writeVars, flushSet>>

FlushTrue ==
    /\ flush = "waiting"
    /\ pending = 0
    /\ flush' = "true"
    /\ UNCHANGED <<isOpen, running, hung, ctl, pumpVars, writeVars, flushSet>>

FlushFalse ==
    /\ flush = "waiting"
    /\ pending > 0
    /\ flush' = "false"
    /\ UNCHANGED <<isOpen, running, hung, ctl, pumpVars, writeVars, flushSet>>

Flush == FlushCall \/ FlushTrue \/ FlushFalse

-----------------------------------------------------------------------------
Next ==
    \/ \E o \in Op : \/ Submit(o) \/ Route(o) \/ Enqueue(o)
                     \/ DirectWrite(o) \/ SubmitOnPump(o)
    \/ Pump
    \/ Application
    \/ Flush

Spec == Init /\ [][Next]_vars

\* Threads that have begun a call go on with it, and CallDispatch, Open and
\* every write return: the operating system schedules them.  The application
\* is never obliged to start, stop, open, close or submit.
Fairness ==
    /\ WF_vars(Pump)
    /\ WF_vars(JoinReturns \/ Cancel \/ Drop)
    /\ \A o \in Op : WF_vars(Route(o) \/ Enqueue(o) \/ DirectWrite(o))
    /\ WF_vars(FlushTrue \/ FlushFalse)

FairSpec == Spec /\ Fairness

-----------------------------------------------------------------------------
(* Properties.                                                             *)

\* The type of every variable.
FlagsOK ==
    /\ isOpen \in BOOLEAN /\ running \in BOOLEAN
    /\ stopEv \in BOOLEAN /\ hung \in BOOLEAN

DataOK ==
    /\ pump \in PumpState
    /\ inHand \in Op \cup {None}
    /\ count \in 0..MaxItems
    /\ pump \in {"execute", "finish"} => count < MaxItems
    /\ queue \in Seq(Op)
    /\ pending \in Nat
    /\ phase \in [Op -> Phase]
    /\ future \in [Op -> {"unset", "ok", "error", "cancelled"}]
    /\ runs \in [Op -> Nat]
    /\ before \in [Op -> SUBSET Op]
    /\ ctl \in {"idle", "stopJoin", "closeJoin", "cancel", "drop", "closed"}
    /\ flush \in {"idle", "waiting", "true", "false"}
    /\ flushSet \in SUBSET Op

TypeOK == FlagsOK /\ DataOK

\* A write is executed at most once, by whichever thread executes it, and one
\* whose future says "cancelled" was not executed at all (the retry-safety
\* that callers of set() rely on when close() fails their write).
AtMostOnce ==
    \A o \in Op : /\ runs[o] <= 1
                  /\ future[o] = "cancelled" => runs[o] = 0
                  /\ future[o] \in {"ok", "error"} => runs[o] = 1

\* The pending counter, which the loop's exit test, write_queue_depth and
\* flush read instead of the queue, is the queue's length plus the write in
\* the pump's hands, until a pump is declared hung.
PendingExact == hung \/ pending = Len(queue) + InFlight

\* A hung pump can make the counter too small, never too large: nothing waits
\* for a write that does not exist.
PendingNeverHigh == pending <= Len(queue) + InFlight

\* flush_write_queue returning True means that every write queued before the
\* call is resolved, unless the pump is hung.
FlushSound ==
    flush = "true" => \A o \in flushSet : future[o] # "unset" \/ hung

\* Writes run in the order in which they entered the queue: when one has run,
\* every earlier one is resolved.
FIFO ==
    \A p \in Op : runs[p] > 0 => \A o \in before[p] : future[o] # "unset"

\* When start_background_dispatch may be called by the one thread that owns
\* the connection, no earlier pump is alive unless it was declared hung.
SingleOwner ==
    ctl \in {"idle", "cancel", "drop", "closed"} /\ ~running /\ ~hung
        => ~Alive

\* A resolved future never changes: neither a late execution nor a cancel
\* overwrites the answer a waiter may already have taken.
FutureStable ==
    [][\A o \in Op : future[o] # "unset" => future'[o] = future[o]]_vars

\* A dispatch thread that leaves its loop because it was told to stop leaves
\* no write behind, although it tests the counter and not the queue and may be
\* overtaken by submitters, a flush or a cancel; README: stop drains the queue
\* before the thread exits.  The three breaks (an exception or a reconnect
\* met by a stop, an Open that blocks) look at neither and are left out.
ExitDrained ==
    [][(pump \in {"test", "exitCheck"} /\ pump' = "ending")
         => queue = <<>> \/ hung]_vars

\* A write in the queue of a pump that is in its loop does not wait for ever,
\* connected or not: it is resolved, or the pump is declared hung, or one of
\* the breaks above takes the pump away from it.  The premise is needed: the
\* continue after an exception skips the drain, so a CallDispatch that raises
\* at every turn keeps the queue waiting for ever.
QueuedWriteResolves ==
    <>[](pump # "raised") =>
        \A o \in Op : (Queued(o) /\ Looping)
                        ~> \/ future[o] # "unset"
                           \/ hung
                           \/ pump = "ending" /\ Queued(o)

\* What the application sees of a write, in the words of the contract.
Seen(o) == IF future[o] # "unset" THEN future[o]
           ELSE IF o = inHand THEN "running"
           ELSE IF Queued(o) THEN "waiting"
           ELSE IF phase[o] = "refused" THEN "refused"
           ELSE "idle"

SeenState == [o \in Op |-> Seen(o)]

Contract == INSTANCE WriteContract WITH line <- queue, state <- SeenState

\* The queue with its pump, its counter and its owner implements the contract
\* of WriteContract: every step of any thread is, for the application, one
\* step of the contract or none.
ImplementsContract == Contract!Spec

\* The dispatch thread as this module has it, as an instance of the contract
\* that PumpLifecycle implements.
Told == Alive /\ ~running
PumpPart == INSTANCE PumpContract WITH
                DispatchThread <- {"pump"},
                alive <- IF Alive THEN {"pump"} ELSE {}, told <- Told

\* What happens to the dispatch thread here is what PumpContract allows: it is
\* started only when none is alive and native code never hung, and ends only
\* when told to or when native code hung.
ImplementsPump == PumpPart!Spec

-----------------------------------------------------------------------------
(* The inductive invariant behind the safety properties.                   *)

\* A queued write was appended once, has not run and is not in hand.
QueueInv ==
    /\ \A i, j \in 1..Len(queue) : queue[i] = queue[j] => i = j
    /\ \A i \in 1..Len(queue) : /\ phase[queue[i]] = "queued"
                               /\ future[queue[i]] = "unset"
                               /\ queue[i] # inHand

\* The pump holds a write exactly between popping it and the decrement.
HandInv ==
    /\ pump \in {"execute", "finish"} <=> inHand # None
    /\ inHand # None => phase[inHand] = "queued"
    /\ pump = "execute" => future[inHand] = "unset"
    /\ pump = "finish" => future[inHand] # "unset"

\* Per write: executions and future agree, and no unqueued call is resolved.
WriteInv ==
    \A o \in Op :
        /\ future[o] \in {"unset", "cancelled"} => runs[o] = 0
        /\ future[o] \in {"ok", "error"} => runs[o] = 1
        /\ phase[o] \notin {"queued", "done"} => future[o] = "unset"
        /\ phase[o] = "queued" => \/ future[o] # "unset"
                                 \/ o = inHand
                                 \/ Queued(o)

\* The owner's calls and the pump: while it stops, the flag is down; when it
\* has stopped, the thread is gone unless it is hung.
OwnerInv ==
    /\ ctl \in {"stopJoin", "closeJoin", "cancel", "drop"} => ~running
    /\ SingleOwner

\* What entered the queue before a write is resolved, in hand or ahead of it.
OrderInv ==
    /\ \A p \in Op : phase[p] # "queued" => before[p] = {}
    /\ \A i \in 1..Len(queue) : \A o \in before[queue[i]] :
            \/ future[o] # "unset"
            \/ o = inHand
            \/ \E j \in 1..(i - 1) : queue[j] = o
    /\ \A p \in Op : runs[p] > 0 \/ p = inHand
                     => \A o \in before[p] : future[o] # "unset"

FlushInv ==
    /\ \A o \in flushSet : phase[o] = "queued"
    /\ FlushSound

Inv == /\ TypeOK /\ QueueInv /\ HandInv /\ WriteInv /\ OwnerInv
       /\ OrderInv /\ FlushInv /\ PendingExact /\ PendingNeverHigh
=============================================================================
