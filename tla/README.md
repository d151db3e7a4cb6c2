# SimConnect-H: models, checks and proofs

SimConnect-H is a Python binding for Microsoft Flight Simulator's
`SimConnect.dll`.  The DLL is not thread-safe, its `SimConnect_CallDispatch` may
block for ever, its handle may die under the program at any moment, and the
library wraps it in threads, locks, a write queue and a worker process.  This
directory holds TLA+ models of that machinery, the TLC runs that check them on
small instances, and TLAPS proofs of their main properties for every value of
the constants.  All paths below are relative to `simconnect_native/`.

To check a module: `tlc -config WriteQueueSafety.cfg MCWriteQueue.tla`; to check
the proofs: `tlapm WriteQueue_proofs.tla`.  `PROJECT.json` lists the runs, the
source lines behind every definition, and for each property a *mutant*: a
plausible defect of the code, written down beside the definition it would break
("Defective variant"), under which the property must fail.

## 1. Inventory

### Components and their state

| Component | Source | State | Operations |
|---|---|---|---|
| Write queue | `write_queue.py` | `_write_queue`, `_write_queue_pending`, one `WriteFuture` per write, a condition | `set`, `set_many`, `trigger`, `submit` through `_enqueue_write`; `_drain_write_queue`, `_cancel_write_queue`, `flush_write_queue` |
| Pump control | `client.py` 668-784 | `_dispatch_running`, `_dispatch_stop_event`, `_dispatch_thread`, `_native_hung`, the cool-down of `restart_dispatch` | `start_`, `stop_`, `ensure_`, `restart_background_dispatch`, `restart_dispatch`, `with_paused_dispatch` |
| Dispatch loop | `client.py` 786-839 | the thread's place in its loop | dispatch, drain, reconnect, leave |
| Session | `client.py` 343-665 | `_hSimConnect`, `_open_received`, the OPEN time, `_restore_timer` | `connect`, `open`, `close`, `dispatch` and the message callback |
| Definitions, subscriptions | `registry.py`, `subscribe.py` | `_subscriptions`, `_vars`, `_define_id_to_key`, each slot's `defined`; in the simulator: definitions and periodic requests | `subscribe(_many)`, `unsubscribe`, renewal of a stale subscription, restore |
| Ids, layouts, health | `registry.py`, `fields.py`, `parsing.py`, `subscribe.py` | three id counters, composites, `_sub_last_callback` | give out ids, decode a message, find its reader, notice a silent subscription |
| Synchronous reads | `sync_io.py` | `_get_lock`, `_pending_get` with a box (value, event) per request id | `get`, `get_many`, delivery of answers |
| Isolated worker | `isolated.py` | `_proc`, `_ready`, `_hung`, `_reader_stop`, `_last_heartbeat`, two queues per worker | `connect`, `kill`, `shutdown`, reader, watchdog, the worker's loop |
| System events, lifecycle | `system_events.py`, `lifecycle.py` | handler tables, `_simstart_subscribed`, last aircraft title | subscribe to a system event, detect an aircraft change |
| Client events | `events.py`, `registry.py` | `_mapped_events` | map an event once per session, transmit it |
| Facade, discovery | `asyncio.py`, `structures.py`, `constants.py`, `dll.py`, `cli.py`, `utils.py` | none of their own | executor wrappers, tables, file search |

### How they interact

* One **pump** thread per connection calls `CallDispatch`; message callbacks run
  inside that call, on the pump, while it holds `_io_lock`.  Without a pump, the
  thread that waits in `connect` or `get` dispatches for itself.
* **Writers** append to the queue when `_dispatch_running` is set and execute
  directly otherwise; the pump drains the queue between two `CallDispatch`.
* **Readers** leave a box in `_pending_get` and wait; whoever dispatches fills it.
* **Locks**: `_lock` (subscriptions, `ensure`; a plain lock), `_io_lock` (each
  call of the DLL; reentrant), `_get_lock` (one `get` at a time; a plain lock,
  `client.py:89`), the queue's condition.  The pump attributes have no lock but that of `ensure`.
* **Sessions** end when the simulator quits or the handle is lost; whatever the
  simulator held is gone and is restored on the next OPEN message, by the restore
  timer, by `restart_dispatch`, or by the recovery of a stale subscription.
* The **isolated** client is a parent process whose application, readers and
  watchdogs meet in unprotected attributes, and a worker that may hang or die.

### What is hard, and what makes each part correct

* *Write queue*: the routing decision is taken outside the queue's lock, the
  counter is not the queue, a hung pump may hold a write that `close` cancels.
  Correct: at most one execution, none after a cancel, order, a truthful counter
  and `flush`, nothing left in the queue.
* *Pump control*: check-then-act without locks, joins that expire, threads that
  come back from the dead.  Correct: one dispatch thread, known to `stop`; the
  hung flag is true and final; a pause restores what it interrupted.
* *Definitions*: four ways to restore, sessions lost in the middle, two locks
  taken in both orders, slots shared by `get`, `set` and subscriptions.  Correct:
  after any loss every subscription is served again, by a definition that holds
  its fields once, and nothing is served that was unsubscribed; no deadlock.
* *Reads*: ids are reused, answers come late, the box is filled without a lock.
  Correct: a call takes no answer meant for a call that still waits, nothing
  stays registered, a woken waiter has a value, every call returns.
* *Session*: the new handle is stored before the flags of the old session are
  reset, `close` uses the DLL without `_io_lock`, timers outlive their session.
  Correct: the flags speak of the session at hand, no session is leaked or used
  after its close, no restore that a message asked for is lost.
* *Delivery*: one number space for subscriptions, variables, reads and TYPE
  answers; layouts computed twice, by the library and by the simulator.  Correct:
  a message reaches who asked for its fields, under the right keys; a silent
  subscription is noticed.
* *Isolated*: every attribute is shared with the threads of the previous worker.
  Correct: `kill` and `shutdown` leave no worker, `connect` believes the right
  one, a stuck worker is killed.

The individual hazards, each at its line and with the properties that watch it,
are in `PROJECT.json`.

## 2. Modules

Each component's module declares `CONSTANTS` with named assumptions, one action
per step of the code, `Spec` (safety), `FairSpec` (with fairness), a type
invariant and properties.  The `MC*` modules instantiate them for TLC, the
`*_proofs` modules prove theorems about them.

### WriteQueue (`MCWriteQueue`, `WriteQueue_proofs`)

`_enqueue_write` is split where its threads can be interrupted: the open test
(`Submit`), the read of the flag (`Route`), the append under the condition
(`Enqueue`), or the direct execution (`DirectWrite`); writes made on the pump
itself run at once (`SubmitOnPump`), in a callback of its own `CallDispatch`, of
the one a reconnect makes while it waits for OPEN (`pump` = "untilOpen"), or in
another write.  The dispatch loop is a program counter,
`pump`, one value per statement that reads or writes something shared:
`LoopTest`, `DispatchReturns`/`DispatchRaises`, `DrainCheck`, `DrainPop`,
`Execute` (resolves the future), `Finish` (decrements the counter), `ExitCheck`,
`LoopTail` and the reconnect branch.  The owner's thread opens, starts, stops and
closes (`Open`, `Start`, `Stop`, `JoinReturns`, `JoinExpires`, `Cancel`, `Drop`);
`Flush` is a second thread in `flush_write_queue`.  The write itself is abstract:
it succeeds or raises.  `before` and `flushSet` are history.

### WriteContract

What `set`, `trigger` and `submit` promise the application, without threads: a
line of accepted writes and the answer to each.  `Begin`, `Answered`, `AtOnce`,
`CancelLine`, `Refuse` are all that can happen to a write.  `WriteQueue`
implements it: `Contract == INSTANCE WriteContract WITH line <- write_queue,
state <- SeenState`, where `SeenState` reads a write's answer from its future and
"running" from the pump's hand; the run checks `ImplementsContract`, the theorem
`ContractKept` proves it.  The counter, the flags, the steps between reading a
flag and appending, `flush` and the whole owner are stutters, except `Cancel`.

### PumpLifecycle (`MCPumpLifecycle`, `PumpLifecycle_proofs`)

The same calls at the grain of *single attribute accesses*, by any number of
threads.  `start` is `StartHung`, `StartRunning`, `StartZombie`, `StartClear`,
`StartFlag`, `StartNew`, `StartGo`; `stop` is `StopFlag`, `StopEvent`,
`StopRead`, `JoinReturns` or `JoinExpires`, `StopForget`; `ensure` holds `_lock`;
`Cooldown` is `restart_dispatch`'s test, which chooses `force` and whether 30
seconds have passed.  `with_paused_dispatch` is `PauseRead`, a stop (`PauseBody`)
and `PauseEnd`: within the with-block the caller is "idle" and may call anything,
a pause inside the pause included, or leave at once; `paused` counts the open
blocks that stopped a pump, `MaxPauses` bounds their depth.  `PauseEnd` resumes
by `Cooldown`, or not at all (`restart=False`).  `pump[p]` is the state of a `Thread` object; `stuck`
records that a native call really blocked.  A `Thread` object nobody refers to
is used again for the next one, so three are enough for one owner (the one that
lives, the one being created, the one just forgotten).

### PumpContract

What everybody else may rely on about the dispatch thread: it is started only
when none is alive and native code never hung (`Start`); one that was told to stop
(`Tell`) does not resume; none ends unless told to or hung (`Exit`); `Hang` is for
ever.  Three modules implement it, each by a refinement mapping of its own
(`ImplementsPump`): `PumpLifecycle`, attribute by attribute, with one owner, or
with any number of threads that only call `ensure`; and `WriteQueue` and
`Session`, where start and stop are one step each.  The run `PumpOwner` checks the
first, theorems prove all of them.  It is the interface that lets the other two
leave out the steps of starting and stopping.

### Definitions (`MCDefinitions`, `Definitions_proofs`)

`dll[d]` counts how often the fields of definition `d` were added in this
session and `asked` is the set of periodic requests; `defined`, `vars`, `keyOf`,
`subs` are what the registry believes.  A thread's step is one call of the DLL
with the assignments that follow it; `io` is held through a callback, `lock`
where the code holds `_lock`.  `Prepare`, `Clear`, `Ensure`, `Add`, `Request` are
shared by every caller, as the functions are in the code; `Subscribe`,
`SubscribeMany`, `Unsubscribe`, `Resubscribe`, `Use` (get and set), `Restore`,
`MsgOpen` begin a call.  The constant `Env` names what the environment and the
application may do (share a variable, subscribe late, quit in the middle of a
call, ...), so that a run can say under which use a property holds.

### SyncRead (`MCSyncRead`, `SyncRead_proofs`)

The n-th call of `get` or `get_many`, its box and the simulator's answer are all
called n.  A `get` uses the id of its variable's slot, which later gets of that
variable and its subscription share; a `get_many` has an id of its own.  `wire`
holds answers on their way, delivered in any order, late or never.  `Take` looks
the box up, `Fill` sets its value and then its event without a lock; `Expires`
may come at any moment of the wait; `Finally` removes the box.  The constant
`Readers` says who reads: application threads, callbacks on the pump, or both.

### ReadContract

What `get` and `get_many` promise the application: reads are served one at a
time (`Begin`), each ends once, with an error (`Fail`) or with data (`Return`).
`Serves` says which data: those of one message about what was asked for, which no
other read has had and no other unfinished read is owed; for a subscribed variable
also a message of the subscription.  `SyncRead` implements it: `Contract ==
INSTANCE ReadContract WITH state <- SeenState, ...`; boxes, events, locks and
dispatchers are stutters, the fill of a box too: for the caller the read ends
when its wait does.

### Isolated (`MCIsolated`)

The n-th worker, its queues, its reader and its watchdog are all called n.  The
parent's attributes are variables of their own, and every statement of `connect`,
`kill`, `shutdown`, `_read_loop`, `_watchdog` that reads or writes one is an
action.  Only the events and commands that change the parent's state are kept:
heartbeats (of a healthy or a hung client), `zombie`, `ready`, `hung`, `bye`;
`connect`, `shutdown`.  A worker may block or die at any moment.  `_start_worker` is one
step, because between its assignments only threads of ended workers could run.

### Session (`MCSession`, `Session_proofs`)

A session is what one successful `SimConnect_Open` returns; `alive`, `gone`,
`welcomed`, `simSubs`, `evMapped` say what the simulator knows of it.  The
application's thread connects (`Scan`, the shared `Opening` steps, `DecideReady`,
`DecideNext`, `NextIndex`; one `DeadlinePasses` for the whole scan), closes
(`CloseCancels`, `JoinReturns`/`JoinExpires`, `CloseDrops`, `Closes`), triggers
and subscribes to SimStart; the pump dispatches and reconnects by the same
`Opening` steps; each restore timer is a thread.  `open()` is split where the
code stores the handle (`client.py:386`), resets the flag (`:390`) and
subscribes to SimStart.  A call of `CallDispatch` delivers OPEN, QUIT, SimStart
or ASSIGNED_OBJECT_ID, or blocks.  `hnd[t]` is the handle a thread took into its
call.  `OneOpener` says that the application connects only while no pump runs.

### Delivery (`MCDelivery`, `Delivery_proofs`)

The three counters of `registry.py`, the ids that `subscribe`, `subscribe_many`
(with its composites), `get` and `get_many` take from them, and the lookup of a
message's request id, first among the reads that wait and then among the
subscriptions, with or without `TYPE_REQ_OFFSET`.  `Layout` is
`build_field_layout`, `Packed` is what the simulator does with the fields it
knows, `ReadAt` reads one datatype at one offset.  `touched` and `stale` are the
table of callback times.  Requests are assumed to stand: what becomes of them is
the subject of `Definitions`.

The modules meet in a few assumptions, each of which one module makes and another
one justifies; a product of any two of them would be beyond TLC.

* `WriteQueue` has one owner thread, so `Start` finds no live pump that is not
  hung: `OneOwnerOnePump` in `PumpLifecycle_proofs`.  What it and `Session` let
  happen to the pump is within the `PumpContract` that `PumpLifecycle` delivers.
* `PumpLifecycle` has an empty queue: the loop's exits with a queue are in
  `WriteQueue`.
* `Session` has one application thread and starts and stops the pump in a step
  each; `PumpLifecycle` has the steps.  Its restore is one action; what it does is
  `Restore`, `Snapshot`, `Apply` in `Definitions`.
* `SyncRead` treats the definition as one step that succeeds or fails; what it
  does is `Use` in `Definitions`.

## 3. Runs

| Run | States | Properties | What it shows |
|---|---|---|---|
| `WriteQueueSafety` | 243,427 | `TypeOK` `AtMostOnce` `PendingExact` `FlushSound` `ExitDrained` `QueuedWriteResolves` `ImplementsContract` | The queue with reconnects, exceptions, hung pumps and close at any moment implements `WriteContract`, keeps its counter, leaves nothing behind. |
| `PumpOwner` | 19,119 | `TypeOK` `HungMeansStuck` `RunningMeansPump` `PauseRestores` `ImplementsPump` `CallsReturn` `StoppedPumpExits` | One owner may call everything in any order, also within a pause, while the pump blocks and reconnects: every step implements `PumpContract`, and a pause whose resume the cool-down does not skip leaves the pump running. |
| `DefOrdered` | 79,783 | `TypeOK` `NoStacking` `NoGhostRequest` `CallsReturn` | The documented order of calls, with OPEN as the only restore (`Env = {}`: no restore timer, no `restart_dispatch`, no recovery), keeps registry and simulator in step. |
| `DefRestore` | 2.27 million | `RegistryAgrees` `NoLockCycle` `RestoredWhenQuiet` `RequestsAreDefined` | Every subscription is back between calls, whatever was lost and whoever restores, and a request whose definition another thread has cleared is made again. |
| `Session` | 64,946 | `TypeOK` `FlagsOfSession` `TransmitsMapped` `SessionsAccounted` `RestoreNotLost` `CallsReturn` | Connect, close, reconnect, quit, hung calls and restore timers in any order. |
| `Delivery` | 2.73 million | `NoCrossingInRange` `ValuesAreOwn` `LiveIsWatched` | Messages reach their readers with the right values until a counter leaves its range; no live subscription goes unwatched. |
| `SyncRead` | 32,470 | `TypeOK` `PendingIsHolders` `ImplementsContract` `CallsReturn` | Reads in threads, or in callbacks on the pump, implement `ReadContract`; none stays registered. |
| `IsolatedPatient` | 607,173 | `TypeOK` `NoWorkerLeft` `ConnectedMeansReady` `StuckIsKilled` `CallsReturn` | The isolated client, if the application lets the old threads end before it connects again. |
| `DefLockCycle` | violated | `NoLockCycle` | see below |
| `DefSimStart` | violated | `NoStacking` | see below |
| `IsolatedReconnect` | violated | `NoWorkerLeft` | see below |
| `IdCollision` | violated | `ReadersExpectTheirData` | see below |

### The four violations

* `DefLockCycle`: `subscribe` after OPEN, on a thread, holds `_lock` and waits for
  `_io_lock`; the pump, inside `CallDispatch`, holds `_io_lock` and its callback
  waits for `_lock` (`subscribe.py:222`, `client.py:608`).
* `DefSimStart`: a restore within one session resets the `defined` flags first and
  then finds nothing to clear, so fields are added a second time
  (`subscribe.py:521`, `:377`).
* `IsolatedReconnect`: `kill()` works on a local process but resets `_proc`
  whatever it is by then; a worker started meanwhile is lost (`isolated.py:215`).
* `IdCollision`: `get_many` takes a new id each time; after 30 001 calls the ids
  are those of the TYPE answers of subscriptions (`registry.py:49`), and a
  subscription's answer is decoded as a read's.

### What other settings of the constants show

These behaviours of the code are in the models and are found by changing the
constants of a cfg, or by asking there for more than the run does; they have no
run of their own.

* `SyncRead` with `Readers <- Both` (a callback and a thread that read) has the cycle of
  `DefLockCycle` over `_get_lock` and `_io_lock` (`sync_io.py:50`).
* A write whose thread read the running flag just before `close` may be appended
  after the cancel: nobody wakes its waiter (`write_queue.py:217`).
* A loop that ends by an exception of a stopping pump, by the stop event in the
  reconnect wait or by an Open that times out does not drain the queue
  (`client.py:795`, `:812`, `:828`): `ExitDrained` names these exits.  A
  `CallDispatch` that raises in every turn starves the queue (`client.py:796`).
* Two threads in `start`, or `ensure` racing `stop`, start two pumps
  (`client.py:735`): `PumpOwner` with two callers.  A `start` that overtakes a
  `stop` finds the old thread alive and marks a healthy pump as hung
  (`client.py:739`).
* A `with_paused_dispatch` within 30 seconds of a restart leaves the pump stopped
  unless forced, as the cool-down also gates its resume (`client.py:690-700`).
  `PumpOwner` contains these steps; the words of `PauseRestores` except them, by
  the "none" that `Cooldown` writes to `call`, and without it the run fails.
* Two subscriptions of one SimVar share its slot (`registry.py:72`): the flag of
  the first is never reset, and after a reconnect its definition is skipped,
  although a restore is said to restore all of them (`subscribe.py:520`).
  `RestoredWhenQuiet` fails with `shareVars` in `Env`.
* `NoStacking` fails, with the constants of `DefOrdered`, as soon as `Env` holds
  one of `simStart` (the run `DefSimStart`), `restart`, `early` or `quitMidCall`,
  or if one variable is both read and written.  It
  holds there with `recovery`, which the theorem `RecoveryNeverStacks` proves, and
  with `recovery` and `lateSubscribe` or `shareVars`, which it does not.
* `DefOrdered` with `App = {a, b}` deadlocks (one dispatches for `connect` while
  the other subscribes: the cycle of `DefLockCycle`) and, with deadlocks let
  pass, violates `RestoredWhenQuiet`: `unsubscribe` releases its id after it has
  given up `_lock`; if another thread subscribes to the same SimVar in between,
  the new slot leaves the registry, its flag is never reset, and after a
  reconnect its definition is skipped (`subscribe.py:367`, `registry.py:105`),
  although the class is called thread-safe (`README.md:64`). The step of
  `RestoreReachesAll` that fails for two threads led to it.
* `unsubscribe` during the renewal of the same subscription, or between the
  snapshot of a timer's restore and its turn, is undone (`subscribe.py:154`):
  `NoGhostRequest` fails with `recovery` in `Env`.
* `get` and a queued `set` of the same variable clear each other's definition
  (`write_queue.py:314`, `sync_io.py:73`).  Therefore `DefOrdered` reads, writes
  and subscribes to different variables.
* `Session` with `OneOpener = FALSE`: an application that connects while the pump
  reconnects opens a second session, and the handle of the first is overwritten
  (`SessionsAccounted`, `FlagsOfSession` fail).  A reconnect that outlasts the
  join stores its handle after `close` has returned; native hung is set then,
  which is why both properties make an exception of it.
* A first config index that opens but sends no OPEN uses up the deadline of all
  (`client.py:460`): the later ones get one look each; `connect` still returns.
* A pump that handles OPEN between the store of the handle and the reset of the
  flag (`client.py:386`, `:390`) loses it: the session stays half open.  It
  needs two threads in one session, so not with `OneOpener`.
* After QUIT the registry's mappings are those of the dead session until the next
  OPEN; an event triggered in the half-open session is sent unmapped, which
  `TransmitsMapped` allows (it speaks of sessions after their OPEN).
* Messages less than the debounce apart put a restore off for ever; a timer that
  fires clears the reference to its successor (`subscribe.py:508`), which `close`
  then cannot cancel; a timer survives QUIT.  None of it loses a restore.
* A SimVar the simulator does not know is refused asynchronously and left out of
  the batch, so that every later key of the layout gets another field's value
  (`sync_io.py:349`): `Delivery` refuses one, and `ValuesAreOwn` without
  `KnownUpTo` fails.
* Subscription id 1000 is the first variable id, and variable id 20000 the first
  of `get_many`: the other two collisions of `IdCollision`.

### Bounds, and why they are enough

* `WriteQueueSafety`: two writes and `MaxItems` = 1, so that a drain ends with a
  write left, one waits behind one in hand, and one may come after a cancel.  No
  symmetry, because of the liveness property.
* `PumpOwner`: three `Thread` objects (above), pauses two deep (`MaxPauses`; an
  inner pause finds a stopped pump, or one that the outer body started), unbounded
  number of calls.
* `DefOrdered` and `DefRestore`: two subscriptions (one may be single and one
  many; one may fail where the other does not), two or one definition ids for
  reads and writes, one application thread, the pump and the timer; each may be
  in a call at the same time.  `dll[d]` stops at 2, which means "twice or more".
  The number of sessions and calls is not bounded.
* `Session`: two sessions at a time (an old one and the next; a session nobody
  holds any more may be opened anew, so their number is not bounded), a scan of
  two config indexes, two timers (one that has fired, one that waits).
* `Delivery`: three fields (four bytes, eight bytes, a string) and one that the
  simulator refuses, so that a batch
  has an offset that depends on a width and a composite has two children; ranges
  of two to four ids, so that each counter can leave its own; one message at a
  time, which meets every state of the tables.  `IdCollision` has the ranges of
  the code and lets 30 000 calls pass in a step.
* `IsolatedPatient`: two workers (an old one and a new one) and one event in each
  queue; `IsolatedReconnect` two events.  A worker waits when its queue is full,
  which the real queue never makes it do; this only removes behaviours in which
  more heartbeats of the same kind wait.
* `SyncRead`: two calls, so that one may be answered late into the other; two
  variables, one of them subscribed to.  The safety properties and the whole
  inductive invariant were also checked with three calls (857,773 states).
* No bound at all limits the theorems of section 4.

`CHECK_DEADLOCK FALSE` is in the configurations of `SyncRead` and `Delivery`
only: there calls or ids are bounded, and after the last one nothing may happen
any more.

### Fairness

* Threads are scheduled: weak fairness on each step a thread has begun to make.
  No run obliges anybody to *start* a call, to connect, or to fail.
* `WriteQueue`: the pump as a whole is fair, which includes that `CallDispatch`
  and each write return; a join that expires is never forced.
* `PumpLifecycle`: a blocked pump is *not* obliged to return.  `EnsureLock` has
  strong fairness: the lock is free again and again, and the operating system
  does not pass over a waiter for ever.
* `Definitions`, `SyncRead`: strong fairness of a call's steps.  The pump waits
  between any two `CallDispatch` (1 ms, `client.py:830`), which lets a waiter
  have `_io_lock`; without that assumption a busy pump could starve everyone.
  A deadlock is not hidden by it: a cycle disables the steps for good.
* `Session`: connect and close go on, the deadline passes, and a `CallDispatch`
  that connect makes itself returns (nothing else would end it, and its timeout
  is not looked at meanwhile); that of the pump may block for ever.
* `Isolated`: timeouts expire, and a heartbeat that does not come grows old.  The
  worker is not fair: it may be silent for ever.

## 4. Proofs

All proofs are checked to the last leaf; they assume only the named `ASSUME`s of
each module (distinct threads, `None` outside the data, bounds that are natural
numbers), which TLC evaluates in every run.

* **`WriteQueue_proofs`**, for every set of writes, every `MaxItems`, both
  settings of the flags: `TypeCorrect`, `ExecutedAtMostOnce`, `PendingCounter`,
  `FlushIsSound`, `FirstInFirstOut`, `OwnerMeetsNoPump`, `FuturesAreFinal`,
  `StopDrains`, and the refinements `ContractKept` (of `WriteContract`) and
  `PumpKeepsContract` (of `PumpContract`: the loop's exits follow a cleared flag
  or a hang, `EndInv`).  None
  of the properties is inductive.  `Inv` adds what ties them together: a queued
  write is there once, unresolved and not in hand (`QueueInv`); the pump holds a
  write exactly between pop and decrement (`HandInv`); executions agree with
  futures (`WriteInv`); while the owner stops, the flag is down (`OwnerInv`); and
  what came before a write is resolved, in hand or ahead of it (`OrderInv`).
* **`PumpLifecycle_proofs`**: `TypeCorrect` for any number of callers;
  `OneOwnerOnePump`, `OwnerRunningMeansPump`, `OwnerHungMeansStuck` and
  `OwnerPauseRestores`, and the refinement `OwnerKeepsContract` (of
  `PumpContract`), if one thread makes all the calls, of which `OwnerPauseRestores`
  leaves out two kinds of pause by its words: `restart=False`, and a resume that
  is not forced and that the cool-down skips; `EnsureOnePump` and
  `EnsureKeepsContract` (the same refinement), if any number call only `ensure`.
  The invariant (`StartStopInv`) says where in `start` no thread is alive and that
  the thread a stop joins is the known one;
  `EnsureInv` says that a caller past the lock holds it, which reduces many
  callers to one.  `FreshInv`, for the refinement, says that native code cannot
  hang between `start`'s test of the flag and the new thread's first step: no
  thread is alive that could, and the one owner is busy starting.  For many
  callers `GoInv` says the same of the one that holds the lock: who starts a
  thread has found the flag down, and nobody puts it up or stops.
* **`Definitions_proofs`**: `TypeCorrect` (with what a working thread works on),
  `RegistryAgreement` for any environment, and `OrderedCallsNoLockCycle`: one
  application thread that subscribes before the pump runs never closes the lock
  cycle of `DefLockCycle`.  `NoGhosts` holds for any threads, shared variables and
  lost sessions, as long as only OPEN restores: whoever adds a request holds
  `_lock` for it or is inside `CallDispatch`, so the call that takes it away is
  still to come (`HeldInv`).  `RestoreReachesAll` and `LostDefinitionsComeBack`
  assume `OneSubscriber` only: one thread subscribes, once to each variable, which
  nobody reads or writes.  Sessions may end in the middle of a call, requests may
  come before OPEN, subscriptions be made while the pump runs, and OPEN, the
  timer, `restart_dispatch` and the recovery may
  restore at once, two threads undoing each other's work on one subscription.
  `OwedInv` says that whatever a subscription lacks some thread is going to do
  (`Builds`), and that a flag that is up without a definition is one its renewer
  is about to notice (`Noticing`), so that nobody else skips the definition for
  it; `SlotInv` that the reset of the flags reaches every subscription.
  `RecoveryNeverStacks` says that no definition holds its fields twice although
  the recovery on the pump applies stale subscriptions again in the middle of a
  session.  It assumes `OnePumpRestores`, which has conditions on the caller and
  on the environment: one application thread, subscriptions made before the pump
  runs, no variable used in two ways; sessions that end between calls, no request
  before OPEN, no SimStart restore timer and no `restart_dispatch`.  The code arms
  that timer whatever the caller does, so for a flight that restarts the theorem
  does not apply and `DefSimStart` shows the fields added twice.  Its invariant:
  one thread applies subscriptions at a time (`WhoInv`, `Apart`), a slot found for
  a definition is its own or none (`UseInv`, `OwnSlot`), and a definition about to
  be added has no fields (`FieldInv`).
* **`Session_proofs`**: `TypeCorrect`, `RestoreIsNotLost` and `EventsAreMapped`
  for any number of sessions, indexes and timers and whoever connects;
  `FlagsSpeakOfTheSession` and `SessionsAreAccounted` assume `OneOpener`.  The
  invariant says which handle each thread holds at each step (`Held`, `Fresh`,
  `Closing`), what a session knows before its OPEN (`TransInv`), and that only
  one thread is between Open and the end of its wait (`Alone`, `Handles`).
* **`Delivery_proofs`**: `AnswersDoNotCross`, for any fields, lists, ranges and
  bounds: an id is used for one list of fields, below the counter it came from
  (`UseInv`); `LiveSubscriptionsAreWatched`; and `DecodedValuesAreOwn`, for any
  fields, datatypes, order and refusals: offsets are a recursive function of the
  list, and that the library's and the simulator's agree up to the first refused
  field is an induction over the natural numbers, done with the least
  counterexample instead of the library's induction theorem.
* **`Isolated_proofs`**, for any number of workers and events: `TypeCorrect`;
  `NoWorkerSurvives` and `ConnectTellsTheTruth` for a patient application.
  `LastInv`: only the last worker is alive, the parent knows it, and a thread in
  `kill` means this one or finds it dead; `ReadInv`: only the last worker's reader
  runs, and what it may hear is true.  `IsolatedReconnect` shows that patience is
  needed.
* **`SyncRead_proofs`**, for any threads, variables and number of calls, with any
  mixture of threads and callbacks that read: `TypeCorrect`, `OneBoxRegistered`,
  `AnswersAreOwn`, `ValueBeforeEvent`, and the refinement `ContractKept` (of
  `ReadContract`).  `Inv` adds whose call each caller makes
  (`CallInv`), that the one registered box is the lock holder's (`PendingInv`),
  that an answer is in one place (`AnswerInv`), and that a box is only filled
  with what fits its call (`Fits`, `BoxInv`).  The step that needs it is
  `TakeAnswer`: the answer to call m is looked up under an id that call c may use
  by now; m is then not made by anybody any more, so it is over.  The refinement
  needs in addition what each caller has been told (`OutcomeInv`).

### Only model-checked

Every liveness property and what needs fairness (out of the prover's reach).
Every safety property of a run is stated by a theorem, some of them under the
conditions that section 4 names.  `SinglePump`, `FIFO`,
`AnswerIsOwn` and `PendingNeverHigh` are proved and in no run: the contracts the
runs check imply the first three, and the last is a part of `PendingCounter`.

## 5. Not modelled

* `asyncio.py`: each coroutine runs one blocking call in an executor and keeps no
  state that the modelled calls lack (a `subscribe_collect` that is not run to its
  end leaves `unsubscribe` to the garbage collector).
* Structures, constants, DLL discovery, CLI, examples, scripts: pure data or file
  access, with unit tests in the repository.
* The bytes of strings and of exception messages (`parsing.py`).
* Handlers of system events other than SimStart: they are not subscribed again
  after a reconnect (`system_events.py:56`), and no text promises it.  Hooks and
  the change of the aircraft's title (`lifecycle.py:87`): one attribute without a
  lock, a change may be reported twice.
* A `subscribe` that fails in the middle (`subscribe.py:236`).
* In `isolated.py` the forwarding of subscriptions, sets and triggers.
* Wording of exceptions, logging, formatting.
* Python memory effects: an attribute access is atomic under the interpreter's
  lock, and so it is in the models.

## 6. Plan

1. `subscribe` that fails in the middle: failing calls of the DLL in `Definitions`
   together with the composites of `Delivery`.
2. `Definitions` with more than one application thread, and `RecoveryNeverStacks`
   for subscriptions made while the pump runs.
3. System event handlers over reconnects, and aircraft change detection.
