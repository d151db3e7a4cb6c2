------------------------------ MODULE Session ------------------------------
(***************************************************************************)
(* The connection of one SimConnect object (client.py connect, open,       *)
(* close, dispatch, the reconnect of _dispatch_loop), what the messages    *)
(* OPEN, QUIT, SimStart and ASSIGNED_OBJECT_ID do to it, and the three     *)
(* things that must be set up again in every new session: the SimStart     *)
(* subscription, the mapping of client events (registry.py) and the        *)
(* restore of subscriptions, debounced by a timer (subscribe.py).          *)
(*                                                                         *)
(* A session is what one successful SimConnect_Open returns.  The thread   *)
(* "app" connects, closes and triggers, the thread "pump" dispatches and   *)
(* reconnects, and each restore timer is a thread of its own.  How the     *)
(* pump is started and stopped step by step is the subject of              *)
(* PumpLifecycle, what a restore does that of Definitions.                 *)
(***************************************************************************)
EXTENDS Naturals, FiniteSets

CONSTANTS
    SessionId,   \* sessions; one that nobody holds any more can be opened anew
    MaxIndex,    \* config indexes connect scans (8 in the code)
    Timer,       \* bound: restore timers alive at a time
    None,        \* no session, no timer
    MayHang,     \* may SimConnect_Open fail to return in time?
    OneOpener    \* the application connects only while no pump runs

ASSUME NoneAssumption == None \notin SessionId \cup Timer
ASSUME IndexAssumption == MaxIndex \in Nat \ {0}
ASSUME FlagsAssumption == MayHang \in BOOLEAN /\ OneOpener \in BOOLEAN

Thread == {"app", "pump"}

VARIABLES
    h,         \* _hSimConnect: the session it belongs to, or None
    ready,     \* _open_received
    simFlag,   \* _simstart_subscribed
    mapped,    \* the event of trigger() is in Registry._mapped_events
    hung,      \* _native_hung
    running,   \* _dispatch_running
    alive,     \* sessions both ends hold open
    gone,      \* sessions whose simulator has quit and whose QUIT is to come
    welcomed,  \* of both: those whose OPEN message was handled,
    simSubs,   \* ... those in which SimStart is subscribed
    evMapped,  \* ... and those in which the event is mapped
    stray,     \* history: a welcomed session got an event not mapped in it
    pc,        \* where each thread is
    hnd,       \* the handle each thread took into its call
    late,      \* connect's deadline is over
    idx,       \* the config index connect has come to
    after,     \* what follows the close of the application thread
    timer,     \* the state of each timer thread
    ref,       \* _restore_timer
    owed       \* history: a restore was scheduled and has not happened

client == <<h, ready, simFlag, mapped>>
sets == <<alive, gone, welcomed, simSubs, evMapped>>
sim == <<sets, stray>>
timers == <<timer, ref, owed>>
app == <<late, idx, after>>
vars == <<client, hung, running, sim, pc, hnd, app, timers>>

Init ==
    /\ h = None /\ ready = FALSE /\ simFlag = FALSE /\ mapped = FALSE
    /\ hung = FALSE /\ running = FALSE
    /\ alive = {} /\ gone = {} /\ welcomed = {} /\ simSubs = {}
    /\ evMapped = {} /\ stray = FALSE
    /\ pc = [t \in Thread |-> IF t = "app" THEN "idle" ELSE "off"]
    /\ hnd = [t \in Thread |-> None]
    /\ late = FALSE /\ idx = 1 /\ after = "idle"
    /\ timer = [x \in Timer |-> "none"] /\ ref = None /\ owed = FALSE

Goto(t, from, to) ==
    /\ pc[t] = from
    /\ pc' = [pc EXCEPT ![t] = to]

\* The simulator and the DLL forget a session.
Forget(s) ==
    /\ alive' = alive \ {s} /\ gone' = gone \ {s}
    /\ welcomed' = welcomed \ {s} /\ simSubs' = simSubs \ {s}
    /\ evMapped' = evMapped \ {s}

-----------------------------------------------------------------------------
(* open(), by the scan of connect or by the pump's reconnect.              *)

\* native hung, or an Open that times out: connect raises, the loop breaks
OpenAborts(t) ==
    /\ Goto(t, "open", IF t = "app" THEN "idle" ELSE "off")
    /\ \/ hung /\ UNCHANGED hung
       \/ MayHang /\ hung' = TRUE
    /\ IF t = "app" THEN late' = FALSE /\ idx' = 1 ELSE UNCHANGED <<late, idx>>
    /\ UNCHANGED <<client, running, sim, hnd, after, timers>>

\* an error: the next index, or the loop again
OpenFails(t) ==
    /\ ~hung
    /\ Goto(t, "open", IF t = "app" THEN "next" ELSE "loop")
    /\ UNCHANGED <<client, hung, running, sim, hnd, app, timers>>

\* SimConnect_Open returns a handle
OpenReturns(t) ==
    /\ ~hung
    /\ Goto(t, "open", "store")
    /\ \E s \in SessionId \ (alive \cup gone) :
          /\ \A u \in Thread : hnd[u] # s
          /\ h # s
          /\ alive' = alive \cup {s}
          /\ hnd' = [hnd EXCEPT ![t] = s]
    /\ UNCHANGED <<client, hung, running, gone, welcomed, simSubs, evMapped,
                   stray, app, timers>>

\* self._hSimConnect = h_sim, and a few lines later ...
OpenStores(t) ==
    /\ Goto(t, "store", "reset")
    /\ h' = hnd[t]
    /\ hnd' = [hnd EXCEPT ![t] = None]
    /\ UNCHANGED <<ready, simFlag, mapped, hung, running, sim, app, timers>>

\* ... self._open_received = False
OpenResets(t) ==
    /\ Goto(t, "reset", "simStart")
    /\ ready' = FALSE
    /\ UNCHANGED <<h, simFlag, mapped, hung, running, sim, hnd, app, timers>>

\* _ensure_simstart_subscribed: the subscription may fail, and is skipped
\* when the flag says that it was made
OpenSubscribes(t) ==
    /\ Goto(t, "simStart", "wait")
    /\ \/ /\ ~simFlag /\ h # None
          /\ simFlag' = TRUE
          /\ simSubs' = simSubs \cup {h}
       \/ UNCHANGED <<simFlag, simSubs>>
    /\ UNCHANGED <<h, ready, mapped, hung, running, alive, gone, welcomed,
                   evMapped, stray, hnd, app, timers>>

\* Time runs: one deadline for the whole scan.
DeadlinePasses ==
    /\ ~late
    /\ pc["app"] \in {"scan", "open", "store", "reset", "simStart", "wait",
                      "waitCall", "next"}
    /\ late' = TRUE
    /\ UNCHANGED <<client, hung, running, sim, pc, hnd, idx, after, timers>>

\* Defective variant: the wait ends only with OPEN.
WaitEndsOnOpen(t) ==
    /\ ready
    /\ Goto(t, "wait", IF t = "app" THEN "decide" ELSE "loop")
    /\ UNCHANGED <<client, hung, running, sim, hnd, app, timers>>

\* _pump_until_open ends with OPEN or at the deadline, which for a reconnect
\* is 5 s away and may pass at any moment.
WaitEnds(t) ==
    /\ ready \/ late \/ t = "pump"
    /\ Goto(t, "wait", IF t = "app" THEN "decide" ELSE "loop")
    /\ UNCHANGED <<client, hung, running, sim, hnd, app, timers>>

WaitDispatches(t) ==
    /\ ~ready /\ ~hung /\ h # None
    /\ t = "app" => ~late
    /\ Goto(t, "wait", "waitCall")
    /\ hnd' = [hnd EXCEPT ![t] = h]
    /\ UNCHANGED <<client, hung, running, sim, app, timers>>

Opening(t) ==
    \/ OpenAborts(t) \/ OpenFails(t) \/ OpenReturns(t)
    \/ OpenStores(t) \/ OpenResets(t) \/ OpenSubscribes(t)
    \/ WaitEnds(t) \/ WaitDispatches(t)

-----------------------------------------------------------------------------
(* CallDispatch with the handle taken before, and the message it delivers. *)

InCall(t) == pc[t] \in {"call", "waitCall"}

CallEnds(t) ==
    /\ InCall(t)
    /\ pc' = [pc EXCEPT ![t] = IF @ = "call" THEN "loop" ELSE "wait"]
    /\ hnd' = [hnd EXCEPT ![t] = None]
    /\ UNCHANGED <<hung, running, stray, app>>

NoMessage(t) ==
    /\ CallEnds(t)
    /\ UNCHANGED <<client, sets, timers>>

\* Defective variant: OPEN leaves the registry's flags as they are.
MsgOpenKeepsFlags(t) ==
    /\ CallEnds(t)
    /\ hnd[t] \in (alive \cup gone) \ welcomed
    /\ welcomed' = welcomed \cup {hnd[t]}
    /\ ready' = TRUE
    /\ owed' = FALSE
    /\ UNCHANGED <<h, simFlag, mapped, alive, gone, simSubs, evMapped, timer,
                   ref>>

\* OPEN: ready, the registry's flags are reset, everything is restored
MsgOpen(t) ==
    /\ CallEnds(t)
    /\ hnd[t] \in (alive \cup gone) \ welcomed
    /\ welcomed' = welcomed \cup {hnd[t]}
    /\ ready' = TRUE /\ mapped' = FALSE
    /\ owed' = FALSE
    /\ UNCHANGED <<h, simFlag, alive, gone, simSubs, evMapped, timer, ref>>

\* Defective variant: QUIT forgets the handle but not the SimStart flag.
MsgQuitKeepsFlag(t) ==
    /\ CallEnds(t)
    /\ hnd[t] \in gone
    /\ Forget(hnd[t])
    /\ h' = None /\ ready' = FALSE
    /\ owed' = FALSE
    /\ UNCHANGED <<simFlag, mapped, timer, ref>>

\* QUIT: the handle is forgotten; the registry and the timer are not touched
MsgQuit(t) ==
    /\ CallEnds(t)
    /\ hnd[t] \in gone
    /\ Forget(hnd[t])
    /\ h' = None /\ ready' = FALSE /\ simFlag' = FALSE
    /\ owed' = FALSE
    /\ UNCHANGED <<mapped, timer, ref>>

\* timer.cancel() on the one referred to; it has no effect on one that fired.
Cancelled ==
    [x \in Timer |-> IF x = ref /\ timer[x] = "waiting" THEN "none"
                     ELSE timer[x]]

\* Defective variant: a pending restore is cancelled and none put in its place.
MsgRestoreOnlyCancels(t) ==
    /\ CallEnds(t)
    /\ hnd[t] \in alive \cap welcomed
    /\ owed' = TRUE
    /\ IF ref # None
       THEN timer' = Cancelled /\ ref' = None
       ELSE \E x \in Timer :
               /\ timer[x] = "none"
               /\ timer' = [timer EXCEPT ![x] = "waiting"]
               /\ ref' = x
    /\ UNCHANGED <<client, sets>>

\* SimStart or ASSIGNED_OBJECT_ID: _schedule_restore_subscriptions cancels the
\* pending timer and starts another, in one hold of _restore_timer_lock
MsgRestore(t) ==
    /\ CallEnds(t)
    /\ hnd[t] \in alive \cap welcomed
    /\ owed' = TRUE
    /\ \E x \in Timer :
          /\ Cancelled[x] = "none"
          /\ timer' = [Cancelled EXCEPT ![x] = "waiting"]
          /\ ref' = x
    /\ UNCHANGED <<client, sets>>

Call(t) == NoMessage(t) \/ MsgOpen(t) \/ MsgQuit(t) \/ MsgRestore(t)

-----------------------------------------------------------------------------
(* The restore timers: _run_scheduled_restore.                             *)

TimerFires(x) ==
    /\ timer[x] = "waiting"
    /\ timer' = [timer EXCEPT ![x] = "fired"]
    /\ UNCHANGED <<client, hung, running, sim, pc, hnd, app, ref, owed>>

\* with lock: self._restore_timer = None, whichever timer it refers to by now
TimerClears(x) ==
    /\ timer[x] = "fired"
    /\ timer' = [timer EXCEPT ![x] = "due"]
    /\ ref' = None
    /\ UNCHANGED <<client, hung, running, sim, pc, hnd, app, owed>>

\* No handle, or OPEN restored everything less than 8 s ago: nothing to do.
\* Else _restore_subscriptions, which resets the registry's flags first.
TimerRestores(x) ==
    /\ timer[x] = "due"
    /\ timer' = [timer EXCEPT ![x] = "none"]
    /\ owed' = FALSE
    /\ \/ UNCHANGED mapped
       \/ h # None /\ mapped' = FALSE
    /\ UNCHANGED <<h, ready, simFlag, hung, running, sim, pc, hnd, app, ref>>

TimerStep(x) == TimerFires(x) \/ TimerClears(x) \/ TimerRestores(x)

-----------------------------------------------------------------------------
(* connect() and close() of the application thread.                        *)

ConnectCall ==
    /\ OneOpener => ~running /\ pc["pump"] = "off"
    /\ ~hung
    /\ Goto("app", "idle", "scan")
    /\ UNCHANGED <<client, hung, running, sim, hnd, app, timers>>

\* if self.is_open: self.close()
Scan ==
    /\ Goto("app", "scan", IF h # None THEN "cancel" ELSE "open")
    /\ after' = IF h # None THEN "open" ELSE after
    /\ UNCHANGED <<client, hung, running, sim, hnd, late, idx, timers>>

\* OPEN was received: start the pump if it does not run and return.
DecideReady ==
    /\ ready
    /\ pc["app"] = "decide"
    /\ LET starts == ~running /\ ~hung /\ pc["pump"] = "off"
       IN  /\ running' = (running \/ starts)
           /\ pc' = [pc EXCEPT !["app"] = "idle",
                               !["pump"] = IF starts THEN "loop" ELSE @]
    /\ late' = FALSE /\ idx' = 1
    /\ UNCHANGED <<client, hung, sim, hnd, after, timers>>

\* It was not: close, and on to the next index.
DecideNext ==
    /\ ~ready
    /\ Goto("app", "decide", "cancel")
    /\ after' = "next"
    /\ UNCHANGED <<client, hung, running, sim, hnd, late, idx, timers>>

NextIndex ==
    /\ Goto("app", "next", IF idx < MaxIndex THEN "scan" ELSE "idle")
    /\ idx' = IF idx < MaxIndex THEN idx + 1 ELSE 1
    /\ late' = (late /\ idx < MaxIndex)
    /\ UNCHANGED <<client, hung, running, sim, hnd, after, timers>>

CloseCall ==
    /\ Goto("app", "idle", "cancel")
    /\ UNCHANGED <<client, hung, running, sim, hnd, app, timers>>

\* Defective variant: the handle to close is read before the pump is joined.
CloseReadsEarly ==
    /\ Goto("app", "cancel", "join")
    /\ timer' = Cancelled
    /\ ref' = None
    /\ running' = FALSE
    /\ h' = None
    /\ hnd' = [hnd EXCEPT !["app"] = h]
    /\ UNCHANGED <<ready, simFlag, mapped, hung, sim, app, owed>>

\* _cancel_restore_timer, and the first half of stop_background_dispatch
CloseCancels ==
    /\ Goto("app", "cancel", "join")
    /\ timer' = Cancelled
    /\ ref' = None
    /\ running' = FALSE
    /\ UNCHANGED <<client, hung, sim, hnd, app, owed>>

JoinReturns ==
    /\ pc["pump"] = "off"
    /\ Goto("app", "join", "drop")
    /\ UNCHANGED <<client, hung, running, sim, hnd, app, timers>>

\* The join of a pump that is blocked, or inside a reconnect, expires.
JoinExpires ==
    /\ pc["pump"] \notin {"off", "loop"}
    /\ Goto("app", "join", "drop")
    /\ hung' = TRUE
    /\ UNCHANGED <<client, running, sim, hnd, app, timers>>

\* with self._lock: the handle is taken and forgotten with its flags; when
\* native hung it is not closed
CloseDrops ==
    /\ pc["app"] = "drop"
    /\ IF hung \/ h = None
       THEN Goto("app", "drop", after) /\ after' = "idle" /\ UNCHANGED hnd
       ELSE /\ Goto("app", "drop", "close")
            /\ hnd' = [hnd EXCEPT !["app"] = h]
            /\ UNCHANGED after
    /\ h' = None /\ ready' = FALSE /\ simFlag' = FALSE
    /\ owed' = FALSE
    /\ UNCHANGED <<mapped, hung, running, sim, late, idx, timer, ref>>

\* SimConnect_Close, and the registry's flags are reset
Closes ==
    /\ Goto("app", "close", after)
    /\ after' = "idle"
    /\ Forget(hnd["app"])
    /\ hnd' = [hnd EXCEPT !["app"] = None]
    /\ mapped' = FALSE
    /\ UNCHANGED <<h, ready, simFlag, hung, running, stray, late, idx, timers>>

App == \/ Scan \/ DecideReady \/ DecideNext \/ NextIndex
       \/ CloseCancels \/ JoinReturns \/ JoinExpires \/ CloseDrops \/ Closes

-----------------------------------------------------------------------------
(* trigger() and subscribe_system_event("SimStart").                       *)

\* Defective variant: trigger() does not ask whether there is a handle.
TriggerUnchecked ==
    /\ mapped' = TRUE
    /\ evMapped' = IF mapped THEN evMapped ELSE evMapped \cup {h}
    /\ stray' = (stray \/ h \in welcomed \ evMapped')
    /\ UNCHANGED <<h, ready, simFlag, hung, running, alive, gone, welcomed,
                   simSubs, pc, hnd, app, timers>>

\* _trigger_event_direct: map the event unless the registry says it is, send
Trigger ==
    /\ h # None
    /\ mapped' = TRUE
    /\ evMapped' = IF mapped THEN evMapped ELSE evMapped \cup {h}
    /\ stray' = (stray \/ h \in welcomed \ evMapped')
    /\ UNCHANGED <<h, ready, simFlag, hung, running, alive, gone, welcomed,
                   simSubs, pc, hnd, app, timers>>

\* By the pump between two dispatches when it runs, by the caller otherwise.
TriggerOnPump == pc["pump"] = "loop" /\ Trigger
TriggerDirect == pc["app"] = "idle" /\ ~running /\ pc["pump"] = "off" /\ Trigger

\* subscribe_system_event: the call of the DLL, then the flag
SubscribeSimStart ==
    /\ OneOpener => ~running /\ pc["pump"] = "off"
    /\ h # None
    /\ Goto("app", "idle", "simFlag")
    /\ simSubs' = simSubs \cup {h}
    /\ UNCHANGED <<client, hung, running, alive, gone, welcomed, evMapped,
                   stray, hnd, app, timers>>

SetSimFlag ==
    /\ Goto("app", "simFlag", "idle")
    /\ simFlag' = TRUE
    /\ UNCHANGED <<h, ready, mapped, hung, running, sim, hnd, app, timers>>

-----------------------------------------------------------------------------
(* The pump: start_background_dispatch, _dispatch_loop, and the simulator. *)

\* ensure_background_dispatch by the application thread
PumpStarts ==
    /\ pc["app"] = "idle" /\ ~hung /\ ~running
    /\ Goto("pump", "off", "loop")
    /\ running' = TRUE
    /\ UNCHANGED <<client, hung, sim, hnd, app, timers>>

PumpExits ==
    /\ ~running
    /\ Goto("pump", "loop", "off")
    /\ UNCHANGED <<client, hung, running, sim, hnd, app, timers>>

\* dispatch() reads the handle, then waits for _io_lock
PumpDispatches ==
    /\ running /\ h # None /\ ~hung
    /\ Goto("pump", "loop", "call")
    /\ hnd' = [hnd EXCEPT !["pump"] = h]
    /\ UNCHANGED <<client, hung, running, sim, app, timers>>

\* The reconnect branch, unless native hung: break.
PumpReconnects ==
    /\ running /\ h = None
    /\ Goto("pump", "loop", IF hung THEN "off" ELSE "open")
    /\ UNCHANGED <<client, hung, running, sim, hnd, app, timers>>

Pump == PumpExits \/ PumpDispatches \/ PumpReconnects

\* The simulator quits; QUIT is delivered by the next CallDispatch.
SimQuits ==
    /\ alive # {}
    /\ alive' = {}
    /\ gone' = gone \cup alive
    /\ UNCHANGED <<client, hung, running, welcomed, simSubs, evMapped, stray,
                   pc, hnd, app, timers>>

-----------------------------------------------------------------------------
Next ==
    \/ \E t \in Thread : Opening(t) \/ Call(t)
    \/ DeadlinePasses
    \/ \E x \in Timer : TimerStep(x)
    \/ ConnectCall \/ CloseCall \/ App
    \/ TriggerOnPump \/ TriggerDirect \/ SubscribeSimStart \/ SetSimFlag
    \/ PumpStarts \/ Pump
    \/ SimQuits

Spec == Init /\ [][Next]_vars

\* Threads go on with what they began, and time passes.  Nobody is obliged
\* to connect, close or trigger, no message has to come, and the pump's
\* CallDispatch may block for ever (a CallDispatch of connect's own wait may
\* not: nothing would end it).
Fairness ==
    /\ \A t \in Thread : WF_vars(Opening(t))
    /\ WF_vars(DeadlinePasses) /\ WF_vars(Call("app"))
    /\ WF_vars(App) /\ WF_vars(SetSimFlag) /\ WF_vars(Pump)

FairSpec == Spec /\ Fairness

-----------------------------------------------------------------------------
(* Properties.                                                             *)

AppPC == {"idle", "scan", "open", "store", "reset", "simStart", "wait",
          "waitCall", "decide", "next", "cancel", "join", "drop", "close",
          "simFlag"}
PumpPC == {"off", "loop", "call", "open", "store", "reset", "simStart",
           "wait", "waitCall"}

\* The type of every variable.
FlagsOK ==
    /\ ready \in BOOLEAN /\ simFlag \in BOOLEAN /\ mapped \in BOOLEAN
    /\ hung \in BOOLEAN /\ running \in BOOLEAN /\ late \in BOOLEAN
    /\ owed \in BOOLEAN /\ stray \in BOOLEAN

DataOK ==
    /\ h \in SessionId \cup {None}
    /\ alive \subseteq SessionId /\ gone \subseteq SessionId \ alive
    /\ welcomed \subseteq alive \cup gone /\ evMapped \subseteq alive \cup gone
    /\ simSubs \subseteq alive \cup gone
    /\ pc \in [Thread -> AppPC \cup PumpPC]
    /\ pc["app"] \in AppPC /\ pc["pump"] \in PumpPC
    /\ hnd \in [Thread -> SessionId \cup {None}]
    /\ idx \in 1..MaxIndex
    /\ after \in {"idle", "open", "next"}
    /\ timer \in [Timer -> {"none", "waiting", "fired", "due"}]
    /\ ref \in Timer \cup {None}

TypeOK == FlagsOK /\ DataOK

\* The two flags that other calls trust speak of the session the handle
\* belongs to: _open_received, which lets get, set and subscribe use the DLL,
\* says that OPEN of this very session was handled, and _simstart_subscribed,
\* which suppresses the subscription, that this very session has it.
FlagsOfSession ==
    ~hung => /\ ready <=> h \in welcomed
             /\ simFlag => h \in simSubs

\* Once its OPEN was handled, a session gets only events that were mapped in
\* it: the registry's memory of an earlier session's mappings is not used.
TransmitsMapped == ~stray

\* Every session the simulator holds open is the client's own or in the hands
\* of a thread on its way to store or close it, unless native hung; and no
\* thread is in CallDispatch with a handle that close() has closed.
SessionsAccounted ==
    /\ hung \/ alive \subseteq {h} \cup {hnd[t] : t \in
                  {u \in Thread : pc[u] \in {"store", "close"}}}
    /\ \A t \in Thread : InCall(t) => hnd[t] \in alive \cup gone

\* A restore that SimStart or ASSIGNED_OBJECT_ID asked for is not lost among
\* cancelled, fired and replaced timers: until it happens, or OPEN restores
\* everything, or the session ends, a timer stands for it.  (It may still be
\* put off for ever, by messages less than the debounce time apart.)
RestoreNotLost ==
    owed => \/ \E x \in Timer : timer[x] # "none"
            \/ pc["app"] \in {"join", "drop"}

\* connect and close return: the scan ends although a session may never send
\* OPEN, and the join although the pump may be blocked.
CallsReturn == pc["app"] # "idle" ~> pc["app"] = "idle"

-----------------------------------------------------------------------------
(* The dispatch thread as this module has it, as an instance of the        *)
(* contract that PumpLifecycle implements.                                 *)

Told == pc["pump"] # "off" /\ ~running
PumpPart == INSTANCE PumpContract WITH
                DispatchThread <- {"pump"},
                alive <- IF pc["pump"] = "off" THEN {} ELSE {"pump"},
                told <- Told

\* What happens to the dispatch thread here is what PumpContract allows: it is
\* started only when none is alive and native code never hung, and ends only
\* when told to or when native code hung.
ImplementsPump == PumpPart!Spec
=============================================================================
