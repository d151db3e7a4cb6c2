----------------------------- MODULE Definitions -----------------------------
(***************************************************************************)
(* Data definitions and subscriptions (registry.py, subscribe.py,          *)
(* sync_io.py, and the message handler of client.py): which definitions    *)
(* and requests the simulator holds, what the registry believes about      *)
(* them, and how subscribe, unsubscribe, get, set, the automatic recovery  *)
(* and the restore of every subscription keep the two in step.             *)
(*                                                                         *)
(* The grain is one call of the DLL, with the assignments that follow it:  *)
(* each takes _io_lock, which a thread in CallDispatch holds for as long   *)
(* as its callback runs; _lock is held where the code holds it.            *)
(***************************************************************************)
EXTENDS Naturals, FiniteSets

CONSTANTS
    App,      \* application threads
    Pump,     \* the dispatch thread
    Timer,    \* the thread of the restore timer
    None,     \* no id, no variable, no thread
    SubId,    \* subscription ids: also the id of the definition they own
    VarId,    \* definition ids of variables that get and set created
    SubVar, ReadVar, WriteVar,  \* SimVars subscribed to, read, written
    Env       \* what else may happen, a subset of AllEnv

AllEnv == {
    "shareVars",      \* two subscriptions of one SimVar
    "lateSubscribe",  \* subscribe after OPEN while the pump runs
    "simStart",       \* SimStart or a new object id more than 8 s after OPEN
    "restart",        \* restart_dispatch
    "recovery",       \* a subscription goes stale and the pump renews it
    "quitMidCall",    \* the simulator quits during a call
    "early"}          \* requests between open() and the OPEN message

Thread == App \cup {Pump, Timer}
Id == SubId \cup VarId
Var == SubVar \cup ReadVar \cup WriteVar

ASSUME ThreadAssumption == Pump \notin App /\ Timer \notin App /\ Pump # Timer
ASSUME NoneAssumption == None \notin Id \cup Var \cup Thread
ASSUME IdAssumption == SubId \cap VarId = {}
ASSUME EnvAssumption == Env \subseteq AllEnv

VARIABLES
    handle,   \* is_open
    opened,   \* _open_received
    running,  \* the pump runs
    dll,      \* how often each definition's fields were added; 2: or more
    asked,    \* periodic requests the simulator answers
    subs,     \* _subscriptions
    kind,     \* what each subscription id was given out for
    vars,     \* Registry._vars: the definition id of the variable's slot
    keyOf,    \* Registry._define_id_to_key
    defined,  \* VarSlot.defined, of every slot object
    lock,     \* who holds _lock
    io,       \* who holds _io_lock throughout a callback of CallDispatch
    timer,    \* the restore timer is armed
    pc, call, \* where each thread is, and in which call
    cur,      \* the definition it is working on
    todo      \* the subscriptions a restore still has to apply

session == <<handle, opened, running, dll, asked>>
registry == <<vars, keyOf, defined>>
locals == <<pc, call, cur, todo>>
vs == <<session, registry, subs, kind, lock, io, timer, locals>>

Init ==
    /\ handle = FALSE /\ opened = FALSE /\ running = FALSE /\ timer = FALSE
    /\ dll = [d \in Id |-> 0] /\ asked = {} /\ subs = {}
    /\ kind = [d \in SubId |-> "unused"]
    /\ vars = [v \in Var |-> None] /\ keyOf = [d \in Id |-> None]
    /\ defined = [d \in Id |-> FALSE]
    /\ lock = None /\ io = None
    /\ pc = [t \in Thread |-> "idle"] /\ call = [t \in Thread |-> "none"]
    /\ cur = [t \in Thread |-> None] /\ todo = [t \in Thread |-> {}]

Ready == handle /\ opened

\* Reset of the flags of the slots that _vars refers to, and of those only.
ResetFlags == defined' = [d \in Id |-> defined[d] /\ \A v \in Var : vars[v] # d]

\* t may call into the DLL: no other thread is inside CallDispatch.
MayCall(t) == io \in {None, t}

Goto(t, to) == pc' = [pc EXCEPT ![t] = to]

\* A thread may start a call: applications at any time, the pump between
\* two CallDispatch.
Begin(t, name) ==
    /\ pc[t] = "idle"
    /\ call' = [call EXCEPT ![t] = name]

-----------------------------------------------------------------------------
(* The registry.                                                           *)

BindSubscriptionVar(d, v) ==
    /\ vars' = [vars EXCEPT ![v] = d]
    /\ keyOf' = [keyOf EXCEPT ![d] = v]
    /\ UNCHANGED defined

\* The slot of v, a new one if there is none.
GetOrCreateVar(t, v) ==
    \/ /\ vars[v] # None
       /\ cur' = [cur EXCEPT ![t] = vars[v]]
       /\ UNCHANGED registry
    \/ /\ vars[v] = None
       /\ \E d \in VarId :
             /\ keyOf[d] = None
             /\ cur' = [cur EXCEPT ![t] = d]
             /\ BindSubscriptionVar(d, v)

\* The slot found for id d: another one's, if _vars has moved on.
VarByDefineId(d) == IF keyOf[d] = None THEN None ELSE vars[keyOf[d]]

\* Defective variant: the slot stays in _vars.
ReleaseDefineIdHalf(d) ==
    /\ vars' = vars
    /\ keyOf' = [keyOf EXCEPT ![d] = None]
    /\ UNCHANGED defined

ReleaseDefineId(d) ==
    /\ vars' = [vars EXCEPT ![keyOf[d]] = None]
    /\ keyOf' = [keyOf EXCEPT ![d] = None]
    /\ UNCHANGED defined

-----------------------------------------------------------------------------
(* Sending a definition and a request: _prepare_definition,                *)
(* _ensure_var_defined and the rest of _apply_subscription(_many).         *)

IsMany(d) == d \in SubId /\ kind[d] = "many"

\* _prepare_definition: is there an old definition to clear?
Prepare(t) ==
    /\ pc[t] = "prepare"
    /\ LET s == VarByDefineId(cur[t])
       IN  Goto(t, IF s # None /\ defined[s] THEN "clear" ELSE "ensure")
    /\ UNCHANGED <<session, registry, subs, kind, lock, io, timer, call, cur, todo>>

\* Defective variant: the flag of the cleared slot stays up.
ClearKeepsFlag(t) ==
    /\ pc[t] = "clear"
    /\ handle => MayCall(t)
    /\ dll' = IF handle THEN [dll EXCEPT ![cur[t]] = 0] ELSE dll
    /\ UNCHANGED defined
    /\ Goto(t, "ensure")
    /\ UNCHANGED <<handle, opened, running, asked, subs, kind, vars, keyOf, lock,
                   io, timer, call, cur, todo>>

\* Defective variant: the old definition is not cleared.
ClearForgotten(t) ==
    /\ pc[t] = "clear"
    /\ handle => MayCall(t)
    /\ UNCHANGED dll
    /\ LET s == VarByDefineId(cur[t])
       IN  defined' = IF s = None THEN defined ELSE [defined EXCEPT ![s] = FALSE]
    /\ Goto(t, "ensure")
    /\ UNCHANGED <<handle, opened, running, asked, subs, kind, vars, keyOf, lock,
                   io, timer, call, cur, todo>>

Clear(t) ==
    /\ pc[t] = "clear"
    /\ handle => MayCall(t)
    /\ dll' = IF handle THEN [dll EXCEPT ![cur[t]] = 0] ELSE dll
    /\ LET s == VarByDefineId(cur[t])
       IN  defined' = IF s = None THEN defined ELSE [defined EXCEPT ![s] = FALSE]
    /\ Goto(t, "ensure")
    /\ UNCHANGED <<handle, opened, running, asked, subs, kind, vars, keyOf, lock,
                   io, timer, call, cur, todo>>

\* A slot that is marked defined is not added again; the fields of a
\* subscribe_many always are.
Ensure(t) ==
    /\ pc[t] = "ensure"
    /\ Goto(t, IF IsMany(cur[t]) \/ ~defined[cur[t]] THEN "add" ELSE "request")
    /\ UNCHANGED <<session, registry, subs, kind, lock, io, timer, call, cur, todo>>

\* Without a session the call fails: the exception ends the work on cur.
Failed(t) ==
    /\ pc[t] \in {"add", "request"}
    /\ ~handle /\ MayCall(t)
    /\ Goto(t, "apply")
    /\ UNCHANGED <<session, registry, subs, kind, lock, io, timer, call, cur, todo>>

Add(t) ==
    /\ pc[t] = "add"
    /\ handle /\ MayCall(t)
    /\ dll' = [dll EXCEPT ![cur[t]] = IF @ = 0 THEN 1 ELSE 2]
    /\ defined' = [defined EXCEPT ![cur[t]] = TRUE]
    /\ Goto(t, "request")
    /\ UNCHANGED <<handle, opened, running, asked, subs, kind, vars, keyOf, lock,
                   io, timer, call, cur, todo>>

\* Defective variant: get leaves a periodic request behind.
RequestAlwaysPeriodic(t) ==
    /\ pc[t] = "request"
    /\ handle /\ MayCall(t)
    /\ asked' = asked \cup {cur[t]}
    /\ Goto(t, "apply")
    /\ UNCHANGED <<handle, opened, running, dll, registry, subs, kind, lock, io,
                   timer, call, cur, todo>>

\* Periodic for a subscription; get and set use the definition once.
Request(t) ==
    /\ pc[t] = "request"
    /\ handle /\ MayCall(t)
    /\ asked' = IF call[t] = "use" THEN asked ELSE asked \cup {cur[t]}
    /\ Goto(t, "apply")
    /\ UNCHANGED <<handle, opened, running, dll, registry, subs, kind, lock, io,
                   timer, call, cur, todo>>

\* Defective variant: subscribe does not release _lock.
ApplyKeepsLock(t) ==
    /\ pc[t] = "apply"
    /\ \/ /\ \E d \in todo[t] :
                /\ cur' = [cur EXCEPT ![t] = d]
                /\ todo' = [todo EXCEPT ![t] = @ \ {d}]
          /\ Goto(t, "prepare")
          /\ UNCHANGED <<call, lock>>
       \/ /\ todo[t] = {}
          /\ Goto(t, IF io = t THEN "repoll" ELSE "idle")
          /\ call' = [call EXCEPT ![t] = "none"]
          /\ cur' = [cur EXCEPT ![t] = None]
          /\ UNCHANGED <<lock, todo>>
    /\ UNCHANGED <<session, registry, subs, kind, io, timer>>

\* The next subscription of a restore, or the end of the call.
Apply(t) ==
    /\ pc[t] = "apply"
    /\ \/ /\ \E d \in todo[t] :
                /\ cur' = [cur EXCEPT ![t] = d]
                /\ todo' = [todo EXCEPT ![t] = @ \ {d}]
          /\ Goto(t, "prepare")
          /\ UNCHANGED <<call, lock>>
       \/ /\ todo[t] = {}
          /\ Goto(t, IF io = t THEN "repoll" ELSE "idle")
          /\ call' = [call EXCEPT ![t] = "none"]
          /\ cur' = [cur EXCEPT ![t] = None]
          /\ lock' = IF lock = t THEN None ELSE lock
          /\ UNCHANGED todo
    /\ UNCHANGED <<session, registry, subs, kind, io, timer>>

-----------------------------------------------------------------------------
(* The calls.                                                              *)

MaySubscribe == Ready /\ running => "lateSubscribe" \in Env

\* subscribe and subscribe_many: the whole call holds _lock.
NewSubscription(t, d, k) ==
    /\ t \in App /\ Begin(t, "subscribe") /\ MaySubscribe
    /\ kind[d] = "unused" /\ lock = None
    /\ kind' = [kind EXCEPT ![d] = k]
    /\ subs' = subs \cup {d}
    /\ IF Ready
       THEN /\ lock' = t /\ Goto(t, "prepare")
            /\ cur' = [cur EXCEPT ![t] = d]
       ELSE /\ Goto(t, "apply") /\ UNCHANGED <<lock, cur>>
    /\ UNCHANGED <<session, io, timer, todo>>

Subscribe(t, d, v) ==
    /\ (\E s \in subs : keyOf[s] = v) => "shareVars" \in Env
    /\ NewSubscription(t, d, "single")
    /\ BindSubscriptionVar(d, v)

SubscribeMany(t, d) == NewSubscription(t, d, "many") /\ UNCHANGED registry

\* Defective variant: the DLL calls are made under _lock.
UnsubscribeUnderLock(t, d) ==
    /\ t \in App /\ Begin(t, "unsubscribe")
    /\ lock = None /\ d \in subs
    /\ subs' = subs \ {d}
    /\ cur' = [cur EXCEPT ![t] = d]
    /\ Goto(t, IF handle THEN "drop" ELSE "apply")
    /\ lock' = t
    /\ UNCHANGED <<session, registry, kind, io, timer, todo>>

\* The info is gone from here on; what the simulator holds goes in Drop.
Unsubscribe(t, d) ==
    /\ t \in App /\ Begin(t, "unsubscribe")
    /\ lock = None /\ d \in subs
    /\ subs' = subs \ {d}
    /\ cur' = [cur EXCEPT ![t] = d]
    /\ Goto(t, IF handle THEN "drop" ELSE "apply")
    /\ UNCHANGED <<session, registry, kind, lock, io, timer, todo>>

\* _resubscribe_one, on the pump: cancels under _lock, then applies again.
Resubscribe(d) ==
    /\ "recovery" \in Env
    /\ running /\ handle /\ (opened \/ "early" \in Env)
    /\ Begin(Pump, "resubscribe")
    /\ lock = None /\ d \in subs
    /\ lock' = Pump
    /\ cur' = [cur EXCEPT ![Pump] = d]
    /\ Goto(Pump, "drop")
    /\ UNCHANGED <<session, registry, subs, kind, io, timer, todo>>

\* unsubscribe releases the slot it finds under the id; if another subscription
\* of the variable has released that one before, the id keeps its entry.
Release(d) ==
    IF VarByDefineId(d) # None THEN ReleaseDefineId(d) ELSE UNCHANGED registry

\* Defective variant: PERIOD_NEVER is not sent.
DropKeepsRequest(t) ==
    /\ pc[t] = "drop"
    /\ MayCall(t)
    /\ UNCHANGED asked
    /\ dll' = [dll EXCEPT ![cur[t]] = 0]
    /\ IF call[t] = "resubscribe"
       THEN /\ lock' = None /\ Goto(t, "prepare") /\ UNCHANGED registry
       ELSE /\ Goto(t, "apply") /\ Release(cur[t]) /\ UNCHANGED lock
    /\ UNCHANGED <<handle, opened, running, subs, kind, io, timer, call, cur, todo>>

\* PERIOD_NEVER and ClearDataDefinition, whose errors are ignored.
Drop(t) ==
    /\ pc[t] = "drop"
    /\ MayCall(t)
    /\ asked' = asked \ {cur[t]}
    /\ dll' = [dll EXCEPT ![cur[t]] = 0]
    /\ IF call[t] = "resubscribe"
       THEN /\ lock' = None /\ Goto(t, "prepare") /\ UNCHANGED registry
       ELSE /\ Goto(t, "apply") /\ Release(cur[t]) /\ UNCHANGED lock
    /\ UNCHANGED <<handle, opened, running, subs, kind, io, timer, call, cur, todo>>

\* get on an application thread; set on the pump, through the write queue.
Use(t, v) ==
    /\ \/ t \in App /\ v \in ReadVar /\ Ready
       \/ t = Pump /\ v \in WriteVar /\ running /\ handle
          /\ (opened \/ "early" \in Env)
    /\ Begin(t, "use")
    /\ GetOrCreateVar(t, v)
    /\ Goto(t, "prepare")
    /\ UNCHANGED <<session, subs, kind, lock, io, timer, todo>>

\* _restore_subscriptions outside the OPEN message: the timer's thread, and
\* restart_dispatch once it has stopped and started the pump.
Restore(t) ==
    /\ \/ t = Timer /\ timer /\ timer' = FALSE
          /\ handle /\ (opened \/ "early" \in Env)
       \/ t \in App /\ "restart" \in Env /\ Ready /\ running
          /\ pc[Pump] = "idle" /\ UNCHANGED timer
    /\ Begin(t, "restore")
    /\ ResetFlags
    /\ Goto(t, "snapshot")
    /\ UNCHANGED <<session, vars, keyOf, subs, kind, lock, io, cur, todo>>

Snapshot(t) ==
    /\ pc[t] = "snapshot" /\ lock = None
    /\ todo' = [todo EXCEPT ![t] = subs]
    /\ Goto(t, "apply")
    /\ UNCHANGED <<session, registry, subs, kind, lock, io, timer, call, cur>>

\* The timer finds no session, or an OPEN that was restored within 8 s.
TimerSkips ==
    /\ timer /\ timer' = FALSE
    /\ UNCHANGED <<session, registry, subs, kind, lock, io, locals>>

-----------------------------------------------------------------------------
(* Messages: the callback of CallDispatch, on the pump or, while connect   *)
(* waits for OPEN, on the application's thread.                            *)

Dispatches(t, name) ==
    /\ handle /\ io = None
    /\ \/ t = Pump /\ running
       \/ t \in App /\ ~running /\ ~opened
    /\ Begin(t, name)
    /\ io' = t

MsgOpen(t) ==
    /\ ~opened /\ Dispatches(t, "open")
    /\ opened' = TRUE
    /\ ResetFlags
    /\ Goto(t, "snapshot")
    /\ UNCHANGED <<handle, running, dll, asked, vars, keyOf, subs, kind, lock,
                   timer, cur, todo>>

\* Data, or an event: either ends with the repoll of the TYPE requests.
MsgOther(t) ==
    /\ opened /\ Dispatches(t, "data")
    /\ \/ UNCHANGED timer
       \/ "simStart" \in Env /\ timer' = TRUE
    /\ Goto(t, "repoll")
    /\ UNCHANGED <<session, registry, subs, kind, lock, cur, todo>>

\* The lookup of the subscription and _repoll_type_subscriptions take _lock.
Repoll(t) ==
    /\ pc[t] = "repoll"
    /\ Ready => lock = None
    /\ io' = None
    /\ Goto(t, "idle")
    /\ call' = [call EXCEPT ![t] = "none"]
    /\ UNCHANGED <<session, registry, subs, kind, lock, timer, cur, todo>>

EndSession ==
    /\ handle' = FALSE /\ opened' = FALSE
    /\ dll' = [d \in Id |-> 0] /\ asked' = {}

\* The simulator is gone, and with it every definition and request.
MsgQuit ==
    /\ running /\ handle /\ io = None /\ lock = None /\ pc[Pump] = "idle"
    /\ "quitMidCall" \in Env \/ \A t \in Thread : pc[t] = "idle"
    /\ EndSession
    /\ UNCHANGED <<running, registry, subs, kind, lock, io, timer, locals>>

-----------------------------------------------------------------------------
(* The session.                                                            *)

\* open(), by connect, or by the pump when it finds no handle.
Open(t) ==
    /\ ~handle /\ pc[t] = "idle"
    /\ IF t = Pump THEN running ELSE t \in App /\ ~running
    /\ handle' = TRUE /\ opened' = FALSE
    /\ UNCHANGED <<running, dll, asked, registry, subs, kind, lock, io, timer, locals>>

StartPump ==
    /\ handle /\ ~running
    /\ \E t \in App : pc[t] = "idle"
    /\ running' = TRUE
    /\ UNCHANGED <<handle, opened, dll, asked, registry, subs, kind, lock, io,
                   timer, locals>>

\* close(): stops the pump, cancels the timer, ends the session.
Close ==
    /\ handle \/ running
    /\ lock = None /\ io = None /\ pc[Pump] = "idle"
    /\ \A t \in Thread : pc[t] = "idle" \/ "quitMidCall" \in Env
    /\ running' = FALSE /\ timer' = FALSE
    /\ EndSession
    /\ IF handle THEN ResetFlags ELSE UNCHANGED defined
    /\ UNCHANGED <<vars, keyOf, subs, kind, lock, io, locals>>

-----------------------------------------------------------------------------

\* What a thread does once a call has begun.
Proceed(t) ==
    \/ Prepare(t) \/ Clear(t) \/ Ensure(t) \/ Failed(t) \/ Add(t) \/ Request(t)
    \/ Apply(t) \/ Drop(t) \/ Snapshot(t) \/ Repoll(t)

Calls(t) ==
    \/ \E d \in SubId : SubscribeMany(t, d) \/ Unsubscribe(t, d)
    \/ \E d \in SubId, v \in SubVar : Subscribe(t, d, v)
    \/ \E v \in Var : Use(t, v)
    \/ Restore(t) \/ Open(t) \/ MsgOpen(t) \/ MsgOther(t)

Next ==
    \/ \E t \in Thread : Proceed(t) \/ Calls(t)
    \/ \E d \in SubId : Resubscribe(d)
    \/ TimerSkips \/ MsgQuit \/ StartPump \/ Close

Spec == Init /\ [][Next]_vs

\* A call goes on. Strong fairness: the pump waits 1 ms between any two
\* CallDispatch (client.py:830), which lets a waiting thread have the locks.
FairSpec == Spec /\ \A t \in Thread : SF_vs(Proceed(t))
-----------------------------------------------------------------------------
(* Properties.                                                             *)

Working == {"prepare", "clear", "ensure", "add", "request"}

FlagsOK ==
    /\ handle \in BOOLEAN /\ opened \in BOOLEAN /\ running \in BOOLEAN
    /\ timer \in BOOLEAN /\ defined \in [Id -> BOOLEAN]

DataOK ==
    /\ dll \in [Id -> 0 .. 2] /\ asked \subseteq SubId /\ subs \subseteq SubId
    /\ kind \in [SubId -> {"unused", "single", "many"}]
    /\ vars \in [Var -> Id \cup {None}] /\ keyOf \in [Id -> Var \cup {None}]
    /\ lock \in Thread \cup {None} /\ io \in Thread \cup {None}
    /\ pc \in [Thread -> Working \cup {"idle", "apply", "drop", "snapshot", "repoll"}]
    /\ call \in [Thread -> {"none", "subscribe", "unsubscribe", "resubscribe",
                            "use", "restore", "open", "data"}]
    /\ cur \in [Thread -> Id \cup {None}] /\ todo \in [Thread -> SUBSET SubId]

TypeOK == FlagsOK /\ DataOK

Quiet == \A t \in Thread : pc[t] = "idle"

\* The two maps of the registry agree: the slot that get, set and the restore
\* find for a variable is known under its own id, and a subscription to one
\* variable keeps its entry until unsubscribe has taken it out.
RegistryAgrees ==
    /\ \A v \in Var : vars[v] # None => keyOf[vars[v]] = v
    /\ \A d \in subs : kind[d] = "single" => keyOf[d] # None

\* No definition ever holds its fields twice: a data message would then be
\* longer than the layout its reader decodes it with.
NoStacking == \A d \in Id : dll[d] <= 1

\* Between calls, in an open session, every subscription has its definition
\* and its periodic request, however often the session was lost before.
RestoredWhenQuiet ==
    Ready /\ Quiet => \A d \in subs : d \in asked /\ dll[d] # 0

\* Between calls, the simulator sends data for live subscriptions only.
NoGhostRequest == Quiet => asked \subseteq subs

\* t is on its way to add d's fields, and then to request it.
Rebuilds(t, d) ==
    \/ pc[t] = "snapshot" \/ d \in todo[t]
    \/ cur[t] = d /\ \/ pc[t] \in {"prepare", "clear", "add"}
                     \/ pc[t] = "ensure" /\ (IsMany(d) \/ ~ defined[d])
                     \/ pc[t] = "drop" /\ call[t] = "resubscribe"

\* Two threads that apply one subscription undo each other's work: one clears
\* the definition the other has just added and is about to request.  A request
\* for a live subscription whose definition is gone is never the last word: a
\* thread is on its way to add the fields and to request them again.
RequestsAreDefined ==
    \A t \in Thread :
        pc[t] = "request" /\ Ready /\ cur[t] \in subs /\ dll[cur[t]] = 0
            => \E u \in Thread : Rebuilds(u, cur[t])

\* No thread holds _lock and waits for _io_lock while the thread in
\* CallDispatch holds _io_lock and waits for _lock.
NoLockCycle ==
    \A t, u \in Thread :
        lock = t /\ io = u /\ t # u =>
            ~ (/\ pc[t] \in {"clear", "add", "request", "drop"}
               /\ pc[u] \in {"snapshot", "repoll"})

\* Every call, and every message's callback, comes to its end.
CallsReturn == \A t \in Thread : (pc[t] # "idle") ~> (pc[t] = "idle")
=============================================================================
