------------------------------ MODULE SyncRead ------------------------------
(***************************************************************************)
(* get and get_many (sync_io.py): a caller holds _get_lock, leaves a box   *)
(* in _pending_get under its request id, asks the simulator and waits for  *)
(* whoever dispatches to fill the box: the pump, or, when none runs, the   *)
(* caller's own loop.  The n-th call, its box and the simulator's answer   *)
(* to its request are all called n.                                        *)
(*                                                                         *)
(* A get uses the definition id of its variable's slot, which every get of *)
(* that variable shares, and its subscription too; a get_many has an id of *)
(* its own.  What the calls do to the definitions is in Definitions, how   *)
(* the pump comes and goes in PumpLifecycle: here it runs or it does not.  *)
(***************************************************************************)
EXTENDS Naturals

CONSTANTS
    App,         \* threads of the application
    Pump,        \* the dispatch thread
    Callback,    \* a subscription's callback, run by whoever dispatches
    Var,         \* variables that are read
    Subscribed,  \* those with a subscription as well
    Readers,     \* who may call get: one of these sets of callers
    MaxCalls,    \* bound on the calls
    None

ASSUME ThreadAssumption ==
    Pump \notin App /\ Callback \notin App /\ Pump # Callback
ASSUME VarAssumption == Subscribed \subseteq Var /\ Var \cap Nat = {}
ASSUME ReadersAssumption == Readers \subseteq SUBSET (App \cup {Callback})
ASSUME BoundAssumption == MaxCalls \in Nat
ASSUME NoneAssumption ==
    None \notin Var \cup Nat \cup App \cup {Pump, Callback}

Caller == App \cup {Callback}
Call == 1 .. MaxCalls
Id == Var \cup Call
Push == 0   \* a subscription's periodic message; n: the answer to call n

VARIABLES
    readers,  \* who calls get in this program
    running,  \* _dispatch_running
    opened,   \* _open_received
    getLock,  \* who holds _get_lock
    pending,  \* _pending_get: the box of each request id
    value, event,   \* the two parts of each box
    wire,     \* answers on their way
    calls,    \* calls made so far
    idOf,     \* the request id of each call
    outcome, got,   \* how each call ended, and with which message's data
    pc, mine, \* where each caller is, in which call
    io,       \* who is in CallDispatch, and holds _io_lock
    step, msg, box  \* how far it is, with which message and box

calling == <<getLock, pending, calls, idOf, outcome, got, pc, mine>>
dispatching == <<io, step, msg, box>>
boxes == <<value, event>>
vars == <<readers, running, opened, calling, boxes, wire, dispatching>>

Init ==
    /\ readers \in Readers /\ running \in BOOLEAN /\ opened \in BOOLEAN
    /\ getLock = None /\ pending = [i \in Id |-> None]
    /\ value = [c \in Call |-> None] /\ event = [c \in Call |-> FALSE]
    /\ wire = {} /\ calls = 0 /\ idOf = [c \in Call |-> None]
    /\ outcome = [c \in Call |-> "none"] /\ got = [c \in Call |-> None]
    /\ pc = [t \in Caller |-> "idle"] /\ mine = [t \in Caller |-> None]
    /\ io = None /\ step = "none" /\ msg = None /\ box = None

\* Calls of the DLL take _io_lock, which the callback's own thread holds.
MayCall(t) == io \in {None, t} \/ t = Callback

\* In one of the two loops, and not inside the dispatch() it calls there.
Loops(t, at) == pc[t] = at /\ io # t

Goto(t, to) == pc' = [pc EXCEPT ![t] = to]
Ends(t, how) == outcome' = [outcome EXCEPT ![mine[t]] = how]

-----------------------------------------------------------------------------
(* get and get_many.                                                       *)

\* The argument checks, then the wait for _get_lock.
Begin(t, id) ==
    /\ pc[t] = "idle" /\ calls < MaxCalls
    /\ calls' = calls + 1
    /\ mine' = [mine EXCEPT ![t] = calls + 1]
    /\ idOf' = [idOf EXCEPT ![calls + 1] = id]
    /\ Goto(t, "lock")
    /\ UNCHANGED <<getLock, pending, outcome, got>>

Get(t) ==
    /\ t \in readers \cap App
    /\ \E id \in Var \cup {calls + 1} : Begin(t, id)
    /\ UNCHANGED <<readers, running, opened, boxes, wire, dispatching>>

\* Defective variant: no _get_lock.
AcquireNothing(t) ==
    /\ pc[t] = "lock"
    /\ getLock' = t /\ Goto(t, "open")
    /\ UNCHANGED <<pending, calls, idOf, outcome, got, mine>>
    /\ UNCHANGED <<readers, running, opened, boxes, wire, dispatching>>

Acquire(t) ==
    /\ pc[t] = "lock" /\ getLock = None
    /\ getLock' = t /\ Goto(t, "open")
    /\ UNCHANGED <<pending, calls, idOf, outcome, got, mine>>
    /\ UNCHANGED <<readers, running, opened, boxes, wire, dispatching>>

Release(t) ==
    /\ getLock' = None /\ mine' = [mine EXCEPT ![t] = None]
    /\ Goto(t, "idle")

\* Up to the timeout the call waits for OPEN first.
SawOpen(t) ==
    /\ Loops(t, "open") /\ opened
    /\ Goto(t, "define")
    /\ UNCHANGED <<getLock, pending, calls, idOf, outcome, got, mine>>
    /\ UNCHANGED <<readers, running, opened, boxes, wire, dispatching>>

\* Defective variant: the exception leaves the lock behind.
OpenExpiresLocked(t) ==
    /\ Loops(t, "open") /\ ~opened
    /\ Ends(t, "failed") /\ Goto(t, "idle")
    /\ UNCHANGED <<getLock, pending, calls, idOf, got, mine>>
    /\ UNCHANGED <<readers, running, opened, boxes, wire, dispatching>>

OpenExpires(t) ==
    /\ Loops(t, "open") /\ ~opened
    /\ Ends(t, "failed") /\ Release(t)
    /\ UNCHANGED <<pending, calls, idOf, got>>
    /\ UNCHANGED <<readers, running, opened, boxes, wire, dispatching>>

\* The definition is sent, or fails with an exception, ...
Define(t) ==
    /\ pc[t] = "define" /\ MayCall(t)
    /\ \/ Goto(t, "register") /\ UNCHANGED <<getLock, outcome, mine>>
       \/ Ends(t, "failed") /\ Release(t)
    /\ UNCHANGED <<pending, calls, idOf, got>>
    /\ UNCHANGED <<readers, running, opened, boxes, wire, dispatching>>

\* ... a new box is registered, ...
Register(t) ==
    /\ pc[t] = "register"
    /\ pending' = [pending EXCEPT ![idOf[mine[t]]] = mine[t]]
    /\ Goto(t, "request")
    /\ UNCHANGED <<getLock, calls, idOf, outcome, got, mine>>
    /\ UNCHANGED <<readers, running, opened, boxes, wire, dispatching>>

\* ... and the request sent, which the simulator may never answer, or refused.
Request(t) ==
    /\ pc[t] = "request" /\ MayCall(t)
    /\ \/ /\ wire' = wire \cup {mine[t]}
          /\ Goto(t, "wait") /\ UNCHANGED outcome
       \/ Ends(t, "failed") /\ Goto(t, "finally") /\ UNCHANGED wire
    /\ UNCHANGED <<getLock, pending, calls, idOf, got, mine>>
    /\ UNCHANGED <<readers, running, opened, boxes, dispatching>>

\* event.wait; then the box is read again, through _pending_get.
Wakes(t) ==
    /\ Loops(t, "wait") /\ event[mine[t]]
    /\ Goto(t, "woke")
    /\ UNCHANGED <<getLock, pending, calls, idOf, outcome, got, mine>>
    /\ UNCHANGED <<readers, running, opened, boxes, wire, dispatching>>

Reads(t) ==
    /\ pc[t] = "woke"
    /\ LET b == pending[idOf[mine[t]]]
       IN  IF b # None /\ value[b] # None
           THEN Ends(t, "value") /\ got' = [got EXCEPT ![mine[t]] = value[b]]
           ELSE Ends(t, "failed") /\ UNCHANGED got
    /\ Goto(t, "finally")
    /\ UNCHANGED <<getLock, pending, calls, idOf, mine>>
    /\ UNCHANGED <<readers, running, opened, boxes, wire, dispatching>>

\* Defective variant: with a pump the wait has no timeout.
ExpiresWithoutPump(t) ==
    /\ Loops(t, "wait") /\ ~running
    /\ Ends(t, "failed") /\ Goto(t, "finally")
    /\ UNCHANGED <<getLock, pending, calls, idOf, got, mine>>
    /\ UNCHANGED <<readers, running, opened, boxes, wire, dispatching>>

\* The deadline, at whatever moment of the loop.
Expires(t) ==
    /\ Loops(t, "wait")
    /\ Ends(t, "failed") /\ Goto(t, "finally")
    /\ UNCHANGED <<getLock, pending, calls, idOf, got, mine>>
    /\ UNCHANGED <<readers, running, opened, boxes, wire, dispatching>>

\* Defective variant: the box of a call that timed out stays.
FinallyForgets(t) ==
    /\ pc[t] = "finally"
    /\ pending' = IF outcome[mine[t]] = "failed" THEN pending
                  ELSE [pending EXCEPT ![idOf[mine[t]]] = None]
    /\ IF idOf[mine[t]] \in Call
       THEN Goto(t, "clear") /\ UNCHANGED <<getLock, mine>>
       ELSE Release(t)
    /\ UNCHANGED <<calls, idOf, outcome, got>>
    /\ UNCHANGED <<readers, running, opened, boxes, wire, dispatching>>

Finally(t) ==
    /\ pc[t] = "finally"
    /\ pending' = [pending EXCEPT ![idOf[mine[t]]] = None]
    /\ IF idOf[mine[t]] \in Call
       THEN Goto(t, "clear") /\ UNCHANGED <<getLock, mine>>
       ELSE Release(t)
    /\ UNCHANGED <<calls, idOf, outcome, got>>
    /\ UNCHANGED <<readers, running, opened, boxes, wire, dispatching>>

\* get_many clears its definition before it gives the lock back.
Clear(t) ==
    /\ pc[t] = "clear" /\ MayCall(t)
    /\ Release(t)
    /\ UNCHANGED <<pending, calls, idOf, outcome, got>>
    /\ UNCHANGED <<readers, running, opened, boxes, wire, dispatching>>

-----------------------------------------------------------------------------
(* Dispatching.                                                            *)

\* The pump; without one, a caller between two looks at its event.
Dispatches(t) ==
    /\ io = None
    /\ \/ t = Pump /\ running
       \/ t \in App /\ ~running /\ pc[t] \in {"open", "wait"}

DispatchOpen(t) ==
    /\ Dispatches(t) /\ ~opened
    /\ opened' = TRUE
    /\ UNCHANGED <<readers, running, calling, boxes, wire, dispatching>>

\* A message's box is looked up under _lock: that of an answer by its request
\* id less the offset, that of a subscription's message by the id itself.
Take(t, m, id) ==
    /\ Dispatches(t) /\ opened
    /\ io' = t /\ msg' = m /\ box' = pending[id]
    /\ step' = IF pending[id] = None THEN "callback" ELSE "fill"
    /\ UNCHANGED <<readers, running, opened, calling, boxes>>

\* Defective variant: the box that waits, whatever the answer's id.
TakeAnswerAnyBox(t) == \E m \in wire, id \in {i \in Id : pending[i] # None} :
    Take(t, m, id) /\ wire' = wire \ {m}

TakeAnswer(t) == \E m \in wire : Take(t, m, idOf[m]) /\ wire' = wire \ {m}
TakePush(t) == \E v \in Subscribed : Take(t, Push, v) /\ UNCHANGED wire

\* Without a lock: the value, then the event; or nothing, if the data cannot
\* be decoded.
Fill ==
    /\ \/ /\ step = "fill"
          /\ value' = [value EXCEPT ![box] = msg]
          /\ step' = "set" /\ UNCHANGED event
       \/ /\ step = "set"
          /\ event' = [event EXCEPT ![box] = TRUE]
          /\ step' = "callback" /\ UNCHANGED value
       \/ step = "fill" /\ step' = "callback" /\ UNCHANGED boxes
    /\ UNCHANGED <<readers, running, opened, calling, wire, io, msg, box>>

\* A subscription's callback may read a variable itself.
CallsBack ==
    /\ step = "callback" /\ msg = Push /\ Callback \in readers
    /\ \E v \in Var : Begin(Callback, v)
    /\ step' = "inside"
    /\ UNCHANGED <<readers, running, opened, boxes, wire, io, msg, box>>

DispatchReturns ==
    /\ step \in {"callback", "inside"} /\ pc[Callback] = "idle"
    /\ io' = None /\ step' = "none" /\ msg' = None /\ box' = None
    /\ UNCHANGED <<readers, running, opened, calling, boxes, wire>>

-----------------------------------------------------------------------------
CallStep(t) ==
    \/ Acquire(t) \/ SawOpen(t) \/ OpenExpires(t) \/ Define(t) \/ Register(t)
    \/ Request(t) \/ Wakes(t) \/ Reads(t) \/ Expires(t)
    \/ Finally(t) \/ Clear(t)

Dispatch(t) == DispatchOpen(t) \/ TakeAnswer(t) \/ TakePush(t)
Handle == Fill \/ CallsBack \/ DispatchReturns

Next ==
    \/ \E t \in Caller : Get(t) \/ CallStep(t)
    \/ \E t \in App \cup {Pump} : Dispatch(t)
    \/ Handle

Spec == Init /\ [][Next]_vars

\* Threads run, deadlines pass, a lock or a mutex is not refused for ever.
FairSpec ==
    /\ Spec
    /\ WF_vars(Handle)
    /\ \A t \in Caller : SF_vars(CallStep(t))

-----------------------------------------------------------------------------
(* Properties.                                                             *)

Holding == {"open", "define", "register", "request", "wait", "woke",
            "finally", "clear"}

\* The type of every variable; and _get_lock is held by the one caller that is
\* in the part it protects.
FlagsOK ==
    /\ readers \in Readers /\ running \in BOOLEAN /\ opened \in BOOLEAN
    /\ event \in [Call -> BOOLEAN]

DataOK ==
    /\ getLock \in Caller \cup {None}
    /\ pending \in [Id -> Call \cup {None}]
    /\ value \in [Call -> 0 .. MaxCalls \cup {None}]
    /\ wire \subseteq Call /\ calls \in 0 .. MaxCalls
    /\ idOf \in [Call -> Id \cup {None}]
    /\ outcome \in [Call -> {"none", "value", "failed"}]
    /\ got \in [Call -> 0 .. MaxCalls \cup {None}]
    /\ pc \in [Caller -> {"idle", "lock"} \cup Holding]
    /\ mine \in [Caller -> Call \cup {None}]
    /\ io \in App \cup {Pump, None} /\ box \in Call \cup {None}
    /\ step \in {"none", "fill", "set", "callback", "inside"}
    /\ msg \in 0 .. MaxCalls \cup {None}
    /\ \A t \in Caller : pc[t] \in Holding <=> getLock = t

TypeOK == FlagsOK /\ DataOK

\* A box is registered only while its call holds _get_lock: none is left
\* behind by a timeout or an error, none is replaced while it is waited for.
PendingIsHolders ==
    \A i \in Id : pending[i] # None =>
        getLock # None /\ mine[getLock] = pending[i] /\ idOf[pending[i]] = i

\* What a call returns is its own answer, or a message of its variable's
\* subscription, or a late answer for the same variable to a call that was
\* over before.  No answer serves two calls, and none goes to a call while the
\* one it was made for waits for it.
AnswerIsOwn ==
    \A c \in Call : got[c] \notin {None, c} =>
        \/ got[c] = Push /\ idOf[c] \in Subscribed
        \/ /\ got[c] # Push
           /\ idOf[got[c]] = idOf[c] /\ idOf[c] \in Var
           /\ outcome[got[c]] # "none"
           /\ \A d \in Call \ {c} : got[d] # got[c]

\* A waiter that is woken finds a value: the break after the event of a box
\* without one is never taken, although nothing orders the two but the code.
WokenHasValue == \A c \in Call : event[c] => value[c] # None

\* What the application sees of a call, in the words of the contract.
Seen(c) ==
    IF outcome[c] # "none" THEN outcome[c]
    ELSE IF \E t \in Caller : mine[t] = c /\ pc[t] # "lock" THEN "reading"
    ELSE IF c <= calls THEN "waiting" ELSE "none"

SeenState == [c \in Call |-> Seen(c)]

Contract == INSTANCE ReadContract WITH
                state <- SeenState, asked <- idOf, data <- got

\* The calls with their lock, their boxes and their dispatchers implement
\* ReadContract: every step of any thread is, for the application, one step of
\* the contract or none.
ImplementsContract == Contract!Spec

\* get and get_many always come back.
CallsReturn == \A t \in Caller : (pc[t] # "idle") ~> (pc[t] = "idle")
-----------------------------------------------------------------------------
(* The inductive invariant behind the safety properties.                   *)

Asking == {"request", "wait", "woke", "finally"}
Asked == {"wait", "woke", "finally", "clear"}

\* Each caller that is not idle makes a call of its own, whose id is its
\* variable's or its own; calls without an outcome are still being made.
CallInv ==
    /\ \A t \in Caller : pc[t] = "idle" <=> mine[t] = None
    /\ \A t \in Caller : mine[t] # None => mine[t] <= calls
    /\ \A t, u \in Caller : mine[t] = mine[u] /\ mine[t] # None => t = u
    /\ \A c \in Call : c <= calls => idOf[c] \in Var \cup {c}
    /\ \A t \in Caller :
          pc[t] \in {"finally", "clear"} => outcome[mine[t]] # "none"
    /\ \A c \in Call :
          c <= calls /\ outcome[c] = "none" => \E t \in Caller : mine[t] = c

\* The one box is the holder's, from its registration to its removal.
PendingInv ==
    /\ \A i \in Id : pending[i] # None =>
          /\ getLock # None /\ pc[getLock] \in Asking
          /\ mine[getLock] = pending[i] /\ idOf[pending[i]] = i
    /\ \A t \in Caller :
          pc[t] \in Asking => pending[idOf[mine[t]]] = mine[t]

\* Answer m has reached call c.
Holds(c, m) == value[c] = m \/ got[c] = m

\* An answer is for a call that has asked, and in one place only.
AnswerInv ==
    /\ \A m \in Call :
          m \in wire \/ msg = m \/ (\E c \in Call : Holds(c, m)) =>
             m <= calls /\ \A t \in Caller : mine[t] = m => pc[t] \in Asked
    /\ \A m \in wire : msg # m
    /\ \A m \in Call, c \in Call :
          Holds(c, m) => m \notin wire /\ (step = "fill" => msg # m)
    /\ \A m \in Call, c \in Call, d \in Call :
          Holds(c, m) /\ Holds(d, m) => c = d

\* Message m is one that call c may return.
Fits(c, m) ==
    /\ c <= calls
    /\ \/ m = Push /\ idOf[c] \in Subscribed
       \/ m = c
       \/ m \in Call /\ idOf[m] = idOf[c] /\ outcome[m] # "none"

\* Boxes are filled with what fits them, and the value before the event.
BoxInv ==
    /\ step \in {"fill", "set"} => box # None /\ msg # None
    /\ box # None => Fits(box, msg)
    /\ \A c \in Call : value[c] # None => Fits(c, value[c])
    /\ \A c \in Call : got[c] # None => Fits(c, got[c])
    /\ step = "set" => value[box] # None
    /\ WokenHasValue

\* A call has no outcome before its last steps, nor data without one.
OutcomeInv ==
    /\ \A c \in Call : outcome[c] # "none" => c <= calls
    /\ \A c \in Call : got[c] # None => outcome[c] = "value"
    /\ \A t \in Caller : mine[t] # None /\ pc[t] \notin {"finally", "clear"} =>
          outcome[mine[t]] = "none"

Inv == TypeOK /\ CallInv /\ PendingInv /\ AnswerInv /\ BoxInv /\ OutcomeInv
=============================================================================
