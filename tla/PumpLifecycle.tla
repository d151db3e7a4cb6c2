---------------------------- MODULE PumpLifecycle ----------------------------
(***************************************************************************)
(* Starting, stopping and restarting the dispatch thread (client.py:       *)
(* ensure_background_dispatch, with_paused_dispatch, restart_dispatch,     *)
(* restart_background_dispatch, start_background_dispatch,                 *)
(* stop_background_dispatch) by several application threads, at the grain  *)
(* of single reads and writes of the shared attributes: none of these      *)
(* methods but ensure takes a lock.                                        *)
(*                                                                         *)
(* A dispatch thread is a Thread object; a member of Pump that no one      *)
(* refers to any more stands for the next object to be created.  The       *)
(* write queue is empty here: it is the subject of WriteQueue, which has   *)
(* one application thread.                                                 *)
(***************************************************************************)
EXTENDS Naturals, FiniteSets

CONSTANTS
    Caller,         \* application threads
    Pump,           \* Thread objects
    None,           \* no Thread, no holder of _lock
    Calls,          \* the methods the callers use, a subset of AllCalls
    MayHang,        \* may CallDispatch block for ever?
    AutoReconnect,  \* may the pump find its handle lost and reopen it?
    MaxPauses       \* bound: pauses nested in one another

AllCalls == {"start", "stop", "ensure", "restart", "pause"}

ASSUME NoneAssumption == None \notin Caller \cup Pump
ASSUME CallsAssumption == Calls \subseteq AllCalls
ASSUME FlagsAssumption == MayHang \in BOOLEAN /\ AutoReconnect \in BOOLEAN
ASSUME PausesAssumption == MaxPauses \in Nat

VARIABLES
    running,  \* _dispatch_running
    stopEv,   \* _dispatch_stop_event
    thread,   \* _dispatch_thread
    hung,     \* _native_hung
    lock,     \* who holds _lock
    recent,   \* restart_dispatch ran within the last 30 s (cool-down)
    pump,     \* the state of each Thread object
    stuck,    \* history: a native call blocked, or outlasted a whole join
    pc,       \* where each caller is: "idle" is its own code
    call,     \* the method it called; "resumed": a pause's restart
    target,   \* the Thread object a caller's stop is joining
    paused    \* with_paused_dispatch blocks it is in that stopped a pump

shared == <<running, stopEv, thread, hung, lock, recent>>
vars == <<shared, pump, stuck, pc, call, target, paused>>

\* Thread.is_alive()
LiveState == {"loop", "native", "stuck", "reopen", "opened"}
Live(t) == t # None /\ pump[t] \in LiveState

\* No one refers to p: it can stand for a new Thread object.
Free(p) ==
    /\ pump[p] \notin LiveState /\ p # thread
    /\ \A c \in Caller : pc[c] = "stopJoin" => target[c] # p

Init ==
    /\ running = FALSE /\ stopEv = FALSE /\ hung = FALSE /\ recent = FALSE
    /\ thread = None /\ lock = None /\ stuck = FALSE
    /\ pump = [p \in Pump |-> "exited"]
    /\ pc = [c \in Caller |-> "idle"]
    /\ call = [c \in Caller |-> "none"]
    /\ target = [c \in Caller |-> None]
    /\ paused = [c \in Caller |-> 0]

Goto(c, from, to) ==
    /\ pc[c] = from
    /\ pc' = [pc EXCEPT ![c] = to]

\* The call returns or raises; "with self._lock" in ensure lets the lock go.
Return(c) ==
    /\ pc' = [pc EXCEPT ![c] = "idle"]
    /\ call' = [call EXCEPT ![c] = IF @ = "resumed" THEN @ ELSE "none"]
    /\ lock' = IF lock = c THEN None ELSE lock

-----------------------------------------------------------------------------
(* The public methods, up to the point where they call start or stop.      *)

Begin(c) ==
    \E m \in Calls :
        /\ m = "pause" => paused[c] < MaxPauses
        /\ Goto(c, "idle", CASE m = "start"   -> "startHung"
                             [] m = "stop"    -> "stopFlag"
                             [] m = "ensure"  -> "ensureLock"
                             [] m = "restart" -> "cooldown"
                             [] m = "pause"   -> "pauseRead")
        /\ call' = [call EXCEPT ![c] = m]
        /\ UNCHANGED <<shared, pump, stuck, target, paused>>

\* with self._lock: if not self._dispatch_running: start
EnsureLock(c) ==
    /\ lock = None
    /\ Goto(c, "ensureLock", "ensureTest")
    /\ lock' = c
    /\ UNCHANGED <<running, stopEv, thread, hung, recent, pump, stuck, call,
                   target, paused>>

EnsureTest(c) ==
    /\ pc[c] = "ensureTest"
    /\ IF running
       THEN Return(c)
       ELSE Goto(c, "ensureTest", "startHung") /\ UNCHANGED <<call, lock>>
    /\ UNCHANGED <<running, stopEv, thread, hung, recent, pump, stuck,
                   target, paused>>

\* was_running = self._dispatch_running: if not, neither the stop before the
\* body nor the restart after it is called
PauseRead(c) ==
    /\ Goto(c, "pauseRead", IF running THEN "stopFlag" ELSE "idle")
    /\ call' = [call EXCEPT ![c] = IF running THEN @ ELSE "none"]
    /\ UNCHANGED <<shared, pump, stuck, target, paused>>

\* yield: the body may call anything, another pause included.
PauseBody(c, from) ==
    /\ Goto(c, from, "idle")
    /\ call' = [call EXCEPT ![c] = "none"]
    /\ paused' = [paused EXCEPT ![c] = @ + 1]
    /\ UNCHANGED lock

\* The innermost body is over, by its end or an exception: finally calls
\* restart_dispatch, unless the pause was made with restart=False.
PauseEnd(c) ==
    /\ paused[c] > 0
    /\ paused' = [paused EXCEPT ![c] = @ - 1]
    /\ \/ /\ Goto(c, "idle", "cooldown")
          /\ call' = [call EXCEPT ![c] = "resumed"]
       \/ /\ Goto(c, "idle", "idle")
          /\ call' = [call EXCEPT ![c] = "none"]
    /\ UNCHANGED <<shared, pump, stuck, target>>

\* Defective variant: the cool-down holds against force as well.
CooldownIgnoresForce(c) ==
    /\ pc[c] = "cooldown"
    /\ \E force \in BOOLEAN :
          IF recent
          THEN /\ Goto(c, "cooldown", "idle")
               /\ call' = [call EXCEPT ![c] = IF force THEN @ ELSE "none"]
               /\ UNCHANGED recent
          ELSE /\ Goto(c, "cooldown", "stopFlag")
               /\ recent' = TRUE
               /\ UNCHANGED call
    /\ UNCHANGED <<running, stopEv, thread, hung, lock, pump, stuck, target,
                   paused>>

\* restart_dispatch: skipped within 30 s of the last one unless forced
Cooldown(c) ==
    /\ \E force \in BOOLEAN :
          IF recent /\ ~force
          THEN /\ Goto(c, "cooldown", "idle")
               /\ call' = [call EXCEPT ![c] = "none"]
               /\ UNCHANGED recent
          ELSE /\ Goto(c, "cooldown", "stopFlag")
               /\ recent' = TRUE
               /\ UNCHANGED call
    /\ UNCHANGED <<running, stopEv, thread, hung, lock, pump, stuck, target,
                   paused>>

-----------------------------------------------------------------------------
(* start_background_dispatch.                                              *)

\* self._raise_if_native_hung
StartHung(c) ==
    /\ pc[c] = "startHung"
    /\ IF hung
       THEN Return(c)
       ELSE Goto(c, "startHung", "startRunning") /\ UNCHANGED <<call, lock>>
    /\ UNCHANGED <<running, stopEv, thread, hung, recent, pump, stuck,
                   target, paused>>

\* if self._dispatch_running: return
StartRunning(c) ==
    /\ pc[c] = "startRunning"
    /\ IF running
       THEN Return(c)
       ELSE Goto(c, "startRunning", "startZombie") /\ UNCHANGED <<call, lock>>
    /\ UNCHANGED <<running, stopEv, thread, hung, recent, pump, stuck,
                   target, paused>>

\* if self.dispatch_thread_alive and not self._dispatch_running: native hung
StartZombie(c) ==
    /\ pc[c] = "startZombie"
    /\ IF Live(thread) /\ ~running
       THEN Return(c) /\ hung' = TRUE
       ELSE /\ Goto(c, "startZombie", "startClear")
            /\ UNCHANGED <<call, lock, hung>>
    /\ UNCHANGED <<running, stopEv, thread, recent, pump, stuck,
                   target, paused>>

StartClear(c) ==
    /\ Goto(c, "startClear", "startFlag")
    /\ stopEv' = FALSE
    /\ UNCHANGED <<running, thread, hung, lock, recent, pump, stuck, call,
                   target, paused>>

StartFlag(c) ==
    /\ Goto(c, "startFlag", "startNew")
    /\ running' = TRUE
    /\ UNCHANGED <<stopEv, thread, hung, lock, recent, pump, stuck, call,
                   target, paused>>

\* self._dispatch_thread = threading.Thread(...)
StartNew(c) ==
    /\ Goto(c, "startNew", "startGo")
    /\ \E p \in Pump :
          /\ Free(p)
          /\ thread' = p
          /\ pump' = [pump EXCEPT ![p] = "created"]
    /\ UNCHANGED <<running, stopEv, hung, lock, recent, stuck, call,
                   target, paused>>

\* Defective variant: the new Thread is never started.
StartGoForgotten(c) ==
    /\ pc[c] = "startGo"
    /\ Return(c)
    /\ UNCHANGED <<running, stopEv, thread, hung, recent, pump, stuck,
                   target, paused>>

\* self._dispatch_thread.start() reads the attribute again: it raises when a
\* stop has cleared it or another starter's thread took its place and runs.
StartGo(c) ==
    /\ pc[c] = "startGo"
    /\ Return(c)
    /\ pump' = [p \in Pump |-> IF p = thread /\ pump[p] = "created"
                               THEN "loop" ELSE pump[p]]
    /\ UNCHANGED <<running, stopEv, thread, hung, recent, stuck,
                   target, paused>>

-----------------------------------------------------------------------------
(* stop_background_dispatch, and what its caller does with the answer.     *)

StopFlag(c) ==
    /\ Goto(c, "stopFlag", "stopEvent")
    /\ running' = FALSE
    /\ UNCHANGED <<stopEv, thread, hung, lock, recent, pump, stuck, call,
                   target, paused>>

StopEvent(c) ==
    /\ Goto(c, "stopEvent", "stopRead")
    /\ stopEv' = TRUE
    /\ UNCHANGED <<running, thread, hung, lock, recent, pump, stuck, call,
                   target, paused>>

\* thread = self._dispatch_thread; if thread and thread.is_alive(): join
StopRead(c) ==
    /\ Goto(c, "stopRead", IF Live(thread) THEN "stopJoin" ELSE "stopForget")
    /\ target' = [target EXCEPT ![c] = thread]
    /\ UNCHANGED <<shared, pump, stuck, call, paused>>

JoinReturns(c) ==
    /\ ~Live(target[c])
    /\ Goto(c, "stopJoin", "stopForget")
    /\ UNCHANGED <<shared, pump, stuck, call, target, paused>>

\* The join's timeout is over and stop answers False: restart raises, pause
\* carries on regardless.
JoinGivesUp(c) ==
    /\ pc[c] = "stopJoin"
    /\ IF call[c] = "pause"
       THEN PauseBody(c, "stopJoin")
       ELSE Return(c) /\ UNCHANGED paused
    /\ UNCHANGED <<running, stopEv, recent, pump, target>>

\* Defective variant: the zombie is forgotten instead of marked.
JoinExpiresForgets(c) ==
    /\ JoinGivesUp(c)
    /\ pump[target[c]] \in {"stuck", "reopen", "opened"}
    /\ thread' = None
    /\ stuck' = TRUE
    /\ UNCHANGED hung

\* Defective variant: the join gives up on a pump that is about to exit.
JoinExpiresEarly(c) ==
    /\ JoinGivesUp(c)
    /\ pump[target[c]] \in LiveState
    /\ hung' = TRUE
    /\ UNCHANGED <<thread, stuck>>

\* Defective variant: join() without a timeout.
JoinWithoutTimeout(c) == FALSE /\ JoinGivesUp(c)

\* Defective variant: the thread is stored where the flag belongs.
JoinExpiresKeepsThread(c) ==
    /\ JoinGivesUp(c)
    /\ pump[target[c]] \in {"stuck", "reopen", "opened"}
    /\ hung' = target[c]
    /\ stuck' = TRUE
    /\ UNCHANGED thread

\* The join times out on a thread blocked in native code, or on one that is
\* inside a reconnect: Open and the wait for OPEN take up to 5 s each, as
\* long as the join.
JoinExpires(c) ==
    /\ JoinGivesUp(c)
    /\ pump[target[c]] \in {"stuck", "reopen", "opened"}
    /\ hung' = TRUE
    /\ stuck' = TRUE
    /\ UNCHANGED thread

\* self._dispatch_thread = None; return True
StopForget(c) ==
    /\ pc[c] = "stopForget"
    /\ thread' = None
    /\ \/ call[c] = "stop" /\ Return(c) /\ UNCHANGED paused
       \/ call[c] = "pause" /\ PauseBody(c, "stopForget")
       \/ /\ call[c] \notin {"stop", "pause"}
          /\ Goto(c, "stopForget", "startHung")
          /\ UNCHANGED <<call, lock, paused>>
    /\ UNCHANGED <<running, stopEv, hung, recent, pump, stuck, target>>

-----------------------------------------------------------------------------
(* The dispatch threads: the skeleton of _dispatch_loop.                   *)

PumpGoto(p, from, to) ==
    /\ pump[p] = from
    /\ pump' = [pump EXCEPT ![p] = to]
    /\ UNCHANGED <<running, stopEv, thread, lock, recent, pc, call,
                   target, paused>>

\* Defective variant: the loop does not look at the flag.
LoopTestIgnoresFlag(p) ==
    /\ \/ PumpGoto(p, "loop", "native")
       \/ AutoReconnect /\ running
          /\ PumpGoto(p, "loop", IF stopEv \/ hung THEN "exited" ELSE "reopen")
    /\ UNCHANGED <<hung, stuck>>

\* dispatch() does nothing once native hung.  The reconnect branch ends the
\* loop on stop, and when it finds native hung after _auto_reconnect was read.
LoopTest(p) ==
    /\ \/ PumpGoto(p, "loop", IF ~running THEN "exited"
                             ELSE IF hung THEN "loop" ELSE "native")
       \/ AutoReconnect /\ running
          /\ PumpGoto(p, "loop", IF stopEv \/ hung THEN "exited" ELSE "reopen")
    /\ UNCHANGED <<hung, stuck>>

DispatchReturns(p) ==
    /\ PumpGoto(p, "native", "loop")
    /\ UNCHANGED <<hung, stuck>>

DispatchBlocks(p) ==
    /\ MayHang
    /\ PumpGoto(p, "native", "stuck")
    /\ stuck' = TRUE
    /\ UNCHANGED hung

\* A zombie may come back after all.
ZombieReturns(p) ==
    /\ PumpGoto(p, "stuck", "loop")
    /\ UNCHANGED <<hung, stuck>>

\* Open returned: wait for the OPEN message; or it failed.
ReopenReturns(p) ==
    /\ \E to \in {"opened", "loop"} : PumpGoto(p, "reopen", to)
    /\ UNCHANGED <<hung, stuck>>

\* Open itself timed out: its helper thread is blocked for ever; break.
ReopenBlocks(p) ==
    /\ MayHang
    /\ PumpGoto(p, "reopen", "exited")
    /\ hung' = TRUE
    /\ stuck' = TRUE

\* _pump_until_open ends, with or without the OPEN message.
PumpedUntilOpen(p) ==
    /\ PumpGoto(p, "opened", "loop")
    /\ UNCHANGED <<hung, stuck>>

\* Thirty seconds pass.
CooldownEnds ==
    /\ recent
    /\ recent' = FALSE
    /\ UNCHANGED <<running, stopEv, thread, hung, lock, pump, stuck, pc, call,
                   target, paused>>

-----------------------------------------------------------------------------
Step(c) ==
    \/ EnsureLock(c) \/ EnsureTest(c) \/ PauseRead(c) \/ Cooldown(c)
    \/ StartHung(c) \/ StartRunning(c) \/ StartZombie(c) \/ StartClear(c)
    \/ StartFlag(c) \/ StartNew(c) \/ StartGo(c)
    \/ StopFlag(c) \/ StopEvent(c) \/ StopRead(c)
    \/ JoinReturns(c) \/ JoinExpires(c) \/ StopForget(c)

PumpStep(p) ==
    \/ LoopTest(p) \/ DispatchReturns(p) \/ DispatchBlocks(p)
    \/ ReopenReturns(p) \/ ReopenBlocks(p) \/ PumpedUntilOpen(p)

Next ==
    \/ \E c \in Caller : Begin(c) \/ PauseEnd(c) \/ Step(c)
    \/ \E p \in Pump : PumpStep(p) \/ ZombieReturns(p)
    \/ CooldownEnds

Spec == Init /\ [][Next]_vars

\* A caller goes on with its call (how long it stays in the body of a pause
\* is its own affair) and a live, unblocked pump with its loop;
\* a waiter for _lock gets it in the end.  A zombie need not come back.
Fairness ==
    /\ \A c \in Caller : SF_vars(EnsureLock(c)) /\ WF_vars(Step(c))
    /\ \A p \in Pump : WF_vars(PumpStep(p))

FairSpec == Spec /\ Fairness

-----------------------------------------------------------------------------
(* Properties.                                                             *)

PC == {"idle", "ensureLock", "ensureTest", "pauseRead", "cooldown",
       "startHung", "startRunning", "startZombie", "startClear", "startFlag",
       "startNew", "startGo", "stopFlag", "stopEvent", "stopRead", "stopJoin",
       "stopForget"}

\* The type of every variable.
FlagsOK ==
    /\ running \in BOOLEAN /\ stopEv \in BOOLEAN /\ hung \in BOOLEAN
    /\ recent \in BOOLEAN /\ stuck \in BOOLEAN

DataOK ==
    /\ thread \in Pump \cup {None}
    /\ lock \in Caller \cup {None}
    /\ pump \in [Pump -> LiveState \cup {"created", "exited"}]
    /\ pc \in [Caller -> PC]
    /\ call \in [Caller -> AllCalls \cup {"none", "resumed"}]
    /\ target \in [Caller -> Pump \cup {None}]
    /\ paused \in [Caller -> Nat]

TypeOK == FlagsOK /\ DataOK

\* At most one dispatch thread is alive: "Single pump thread"
\* (docs/en/architecture.md), "never start a second CallDispatch thread".
SinglePump ==
    \A p, q \in Pump : Live(p) /\ Live(q) => p = q

\* A live dispatch thread is the one stop would join: none runs on unseen.
PumpKnown ==
    \A p \in Pump : Live(p) => thread = p

\* native_hung is raised only when native code is blocked or has outlasted a
\* whole join, never by start's zombie check finding a healthy pump that is on
\* its way out: the price of the flag is a process restart.
HungMeansStuck == hung => stuck

\* With no call in progress, a set running flag has a live pump behind it, so
\* that queued writes and subscriptions are served.
RunningMeansPump ==
    (\A c \in Caller : pc[c] = "idle") /\ running /\ ~hung => Live(thread)

\* A pause that stopped a running pump leaves a live one behind it, or native
\* code hung, whatever its body called (a stop, a start, a restart, another
\* pause) and however it ended.  Two pauses make no such promise: one with
\* restart=False, and one whose restart the 30 s cool-down skips, without
\* force, because the body or an earlier pause restarted the pump already.
PauseRestores ==
    \A c \in Caller :
        pc[c] = "idle" /\ call[c] = "resumed"
            => hung \/ (running /\ Live(thread))

\* The dispatch threads behind the steps and attributes implement PumpContract:
\* one at a time, none resumed after it was told to stop, none ending on its
\* own accord, and none at all after native code hung.
AlivePumps == {p \in Pump : Live(p)}
Told == AlivePumps # {} /\ ~running
Contract == INSTANCE PumpContract WITH
                DispatchThread <- Pump, alive <- AlivePumps, told <- Told
ImplementsPump == Contract!Spec

\* Every call returns: stop's join ends, ensure's lock is released.
CallsReturn == \A c \in Caller : pc[c] # "idle" ~> pc[c] = "idle"

\* After a stop with no start behind it every pump that is not blocked exits.
StoppedPumpExits ==
    \A p \in Pump :
        (Live(p) /\ ~running) ~> (~Live(p) \/ pump[p] = "stuck" \/ running)
=============================================================================
