------------------------------ MODULE Isolated ------------------------------
(***************************************************************************)
(* IsolatedSimConnect (isolated.py): a parent that keeps SimConnect.dll in *)
(* a worker process it can kill.  In the parent run the application, which *)
(* calls connect, kill and shutdown, and for every worker ever started a   *)
(* reader thread of the event queue and a watchdog of the heartbeat.  None *)
(* of them takes a lock: they meet in _proc, _ready, _hung, _reader_stop   *)
(* and _last_heartbeat.                                                    *)
(*                                                                         *)
(* The n-th worker, its two queues, its reader and its watchdog are all    *)
(* called n.  Of the commands only connect and shutdown are kept, and of   *)
(* the events those that change the parent's state.                        *)
(***************************************************************************)
EXTENDS Naturals, Sequences

CONSTANTS
    MaxGen,  \* bound on the workers that are started
    MaxEvt,  \* bound on the events waiting in a queue
    Patient  \* does the application let the old threads end before it
             \* connects again?

ASSUME BoundsAssumption == MaxGen \in Nat \ {0} /\ MaxEvt \in Nat \ {0}
ASSUME PatientAssumption == Patient \in BOOLEAN

Gen == 1 .. MaxGen
None == 0   \* _proc is None
App == 0    \* the application's thread; watchdog n is thread n
Thread == {App} \cup Gen

VARIABLES
    gen,     \* workers started so far: _cmd_q and _evt_q belong to the last
    proc,    \* _proc
    worker,  \* the state of each worker process
    cmd,     \* commands each worker has not taken
    evt,     \* events of each worker no reader has taken
    ready,   \* _ready
    hung,    \* _hung
    stop,    \* _reader_stop
    beat,    \* _last_heartbeat: "none", "fresh", or "old": the timeout is over
    reader,  \* where each reader is
    source,  \* the queue it takes its next event from
    dog,     \* where each watchdog is
    kill,    \* how far each thread is in kill()
    victim,  \* the process that thread kills, or that shutdown joins
    ctl,     \* where the application is
    wasUp    \* history: the workers that connected

parent == <<gen, proc, ready, hung, stop>>
procs == <<worker, cmd, evt, wasUp>>
threads == <<reader, source, dog, kill, victim, ctl>>
vars == <<parent, procs, threads, beat>>

Live == {"fresh", "up", "sick", "stuck"}
Alive(g) == g # None /\ worker[g] \in Live

\* The worker's main loop turns: it sends heartbeats and takes commands.
Turning(g) == worker[g] \in {"fresh", "up", "sick"}

Init ==
    /\ gen = 0 /\ proc = None /\ beat = "none" /\ ctl = "idle"
    /\ ready = FALSE /\ hung = FALSE /\ stop = FALSE
    /\ worker = [g \in Gen |-> "none"] /\ wasUp = {}
    /\ cmd = [g \in Gen |-> <<>>] /\ evt = [g \in Gen |-> <<>>]
    /\ reader = [g \in Gen |-> "off"] /\ source = [g \in Gen |-> None]
    /\ dog = [g \in Gen |-> "off"]
    /\ kill = [t \in Thread |-> "no"] /\ victim = [t \in Thread |-> None]

-----------------------------------------------------------------------------
(* The application: connect, kill, shutdown.                               *)

Quiescent == \A g \in Gen : reader[g] = "off" /\ dog[g] = "off"

\* _start_worker: nothing if a worker is alive
StartWorker ==
    \/ /\ Alive(proc)
       /\ UNCHANGED <<parent, worker, reader, dog>>
    \/ /\ ~Alive(proc)
       /\ gen < MaxGen
       /\ Patient => Quiescent
       /\ gen' = gen + 1 /\ proc' = gen + 1
       /\ ready' = FALSE /\ hung' = FALSE /\ stop' = FALSE
       /\ worker' = [worker EXCEPT ![gen + 1] = "fresh"]
       /\ reader' = [reader EXCEPT ![gen + 1] = "test"]
       /\ dog' = [dog EXCEPT ![gen + 1] = "test"]

Send(g, c) == cmd' = [cmd EXCEPT ![g] = Append(@, c)]

Connect ==
    /\ ctl \in {"idle", "connected", "off"}
    /\ StartWorker
    /\ cmd[gen'] = <<>>   \* bounds the commands in flight
    /\ Send(gen', "connect")
    /\ ctl' = "waiting"
    /\ UNCHANGED <<evt, wasUp, source, kill, victim, beat>>

\* kill(): hung, and the process it is going to kill
KillBegin(t) ==
    /\ hung' = TRUE
    /\ kill' = [kill EXCEPT ![t] = "begun"]
    /\ victim' = [victim EXCEPT ![t] = proc]
    /\ UNCHANGED <<gen, proc, ready, stop>>

\* self._ready.wait
Woke ==
    /\ ctl = "waiting" /\ ready
    /\ ctl' = "woke"
    /\ UNCHANGED <<parent, procs, reader, source, dog, kill, victim, beat>>

\* Defective variant: no timeout, only the answer of a hung worker ends it.
WaitForEver ==
    /\ ctl = "waiting" /\ ready /\ hung
    /\ KillBegin(App)
    /\ ctl' = "killing"
    /\ UNCHANGED <<procs, reader, source, dog, beat>>

WaitExpires ==
    /\ ctl = "waiting" /\ ~ready
    /\ KillBegin(App)
    /\ ctl' = "killing"
    /\ UNCHANGED <<procs, reader, source, dog, beat>>

\* Defective variant: connect takes any answer for success.
WokeUnchecked ==
    /\ ctl = "woke"
    /\ ctl' = "connected"
    /\ UNCHANGED <<parent, kill, victim>>
    /\ UNCHANGED <<procs, reader, source, dog, beat>>

\* if self._hung: kill and raise
ConnectReturns ==
    /\ ctl = "woke"
    /\ IF hung
       THEN KillBegin(App) /\ ctl' = "killing"
       ELSE ctl' = "connected" /\ UNCHANGED <<parent, kill, victim>>
    /\ UNCHANGED <<procs, reader, source, dog, beat>>

Kill ==
    /\ ctl \in {"connected", "off"}
    /\ KillBegin(App)
    /\ ctl' = "killing"
    /\ UNCHANGED <<procs, reader, source, dog, beat>>

\* shutdown(): the command, if a worker is alive, ...
Shutdown ==
    /\ ctl \in {"connected", "off"}
    /\ IF Alive(proc)
       THEN Send(gen, "shutdown") /\ ctl' = "sent"
       ELSE ctl' = "joined" /\ UNCHANGED cmd
    /\ UNCHANGED <<parent, worker, evt, wasUp, reader, source, dog, kill, victim, beat>>

\* ... self._proc.join, an AttributeError if the watchdog has reset _proc, ...
Join ==
    /\ ctl = "sent"
    /\ victim' = [victim EXCEPT ![App] = proc]
    /\ ctl' = IF proc = None THEN "off" ELSE "joining"
    /\ UNCHANGED <<parent, procs, reader, source, dog, kill, beat>>

\* ... which returns when the worker has ended or after two seconds, ...
JoinEnds ==
    /\ ctl = "joining"
    /\ ctl' = "joined"
    /\ UNCHANGED <<parent, procs, reader, source, dog, kill, victim, beat>>

\* Defective variant: a worker that does not end is left alone.
ShutdownLeavesWorker ==
    /\ ctl = "joined"
    /\ stop' = TRUE /\ ctl' = "off"
    /\ UNCHANGED <<gen, proc, ready, hung, kill, victim>>
    /\ UNCHANGED <<procs, reader, source, dog, beat>>

\* ... and a worker that is still alive is killed.
ShutdownEnds ==
    /\ ctl = "joined"
    /\ IF Alive(proc)
       THEN KillBegin(App) /\ ctl' = "killing"
       ELSE /\ stop' = TRUE /\ ctl' = "off"
            /\ UNCHANGED <<gen, proc, ready, hung, kill, victim>>
    /\ UNCHANGED <<procs, reader, source, dog, beat>>

\* Defective variant: a worker that is dead already leaves nothing to do.
KillProcReturnsEarly(t) ==
    /\ kill[t] = "begun"
    /\ worker' = [g \in Gen |-> IF g = victim[t] /\ worker[g] \in Live
                                THEN "dead" ELSE worker[g]]
    /\ kill' = [kill EXCEPT ![t] = IF Alive(victim[t]) THEN "done" ELSE "no"]
    /\ UNCHANGED <<parent, cmd, evt, wasUp, reader, source, dog, victim, ctl, beat>>

\* if proc is alive: proc.kill(); proc.join()
KillProc(t) ==
    /\ kill[t] = "begun"
    /\ worker' = [g \in Gen |-> IF g = victim[t] /\ worker[g] \in Live
                                THEN "dead" ELSE worker[g]]
    /\ kill' = [kill EXCEPT ![t] = "done"]
    /\ UNCHANGED <<parent, cmd, evt, wasUp, reader, source, dog, victim, ctl, beat>>

\* self._proc = None, whatever it is by now, and the reader is told to stop
KillForget(t) ==
    /\ kill[t] = "done"
    /\ proc' = None /\ stop' = TRUE
    /\ kill' = [kill EXCEPT ![t] = "no"]
    /\ victim' = [victim EXCEPT ![t] = None]
    /\ IF t = App THEN ctl' = "off" /\ UNCHANGED dog
                  ELSE dog' = [dog EXCEPT ![t] = "off"] /\ UNCHANGED ctl
    /\ UNCHANGED <<gen, ready, hung, procs, reader, source, beat>>

-----------------------------------------------------------------------------
(* The reader and the watchdog.                                            *)

\* The loop's test, then a get on whatever queue is the parent's by now.
ReaderTest(r) ==
    /\ reader[r] = "test"
    /\ reader' = [reader EXCEPT ![r] = IF stop THEN "off" ELSE "get"]
    /\ source' = [source EXCEPT ![r] = gen]
    /\ UNCHANGED <<parent, procs, dog, kill, victim, ctl, beat>>

ReaderEmpty(r) ==
    /\ reader[r] = "get" /\ evt[source[r]] = <<>>
    /\ reader' = [reader EXCEPT ![r] = "test"]
    /\ source' = [source EXCEPT ![r] = None]
    /\ UNCHANGED <<parent, procs, dog, kill, victim, ctl, beat>>

ReaderTakes(r) ==
    /\ reader[r] = "get" /\ evt[source[r]] # <<>>
    /\ LET e == Head(evt[source[r]])
       IN  /\ beat' = IF e \in {"beat", "sickbeat", "ready"} THEN "fresh" ELSE beat
           /\ hung' = (hung \/ e \in {"sickbeat", "hung", "zombie"})
           /\ ready' = (ready \/ e \in {"ready", "hung", "zombie"})
           /\ reader' = [reader EXCEPT ![r] = IF e = "bye" THEN "off" ELSE "test"]
    /\ evt' = [evt EXCEPT ![source[r]] = Tail(@)]
    /\ source' = [source EXCEPT ![r] = None]
    /\ UNCHANGED <<gen, proc, stop, worker, cmd, wasUp, dog, kill, victim, ctl>>

DogTest(d) ==
    /\ dog[d] = "test"
    /\ dog' = [dog EXCEPT ![d] = IF Alive(proc) /\ ~stop THEN "sleep" ELSE "off"]
    /\ UNCHANGED <<parent, procs, reader, source, kill, victim, ctl, beat>>

\* Defective variant: the watchdog looks and never kills.
DogAwaitsFreshBeat(d) ==
    /\ dog[d] = "sleep"
    /\ dog' = [dog EXCEPT ![d] = "test"]
    /\ UNCHANGED <<parent, kill, victim>>
    /\ UNCHANGED <<procs, reader, source, ctl, beat>>

\* Half a second later: a heartbeat too old, of a worker that was ready once
DogWakes(d) ==
    /\ dog[d] = "sleep"
    /\ IF ready /\ beat = "old"
       THEN KillBegin(d) /\ dog' = [dog EXCEPT ![d] = "killing"]
       ELSE dog' = [dog EXCEPT ![d] = "test"] /\ UNCHANGED <<parent, kill, victim>>
    /\ UNCHANGED <<procs, reader, source, ctl, beat>>

\* Eight seconds without a heartbeat: the last worker sends none, or is busy
\* connecting again, which takes up to five seconds twice.
HeartbeatAges ==
    /\ beat = "fresh"
    /\ gen # 0
    /\ ~Turning(gen) \/ (worker[gen] = "up" /\ cmd[gen] # <<>>)
    /\ beat' = "old"
    /\ UNCHANGED <<parent, procs, threads>>

-----------------------------------------------------------------------------
(* The worker process: isolated_worker_main.                               *)

Emit(g, e) ==
    /\ Len(evt[g]) < MaxEvt
    /\ evt' = [evt EXCEPT ![g] = Append(@, e)]

Becomes(g, s) == worker' = [worker EXCEPT ![g] = s]

\* A heartbeat every half second between two commands; a worker with a zombie
\* or hung native code sends a zombie event behind it.  Either is lost when the
\* queue does not take it within a second.
Beat(g) ==
    /\ Turning(g)
    /\ IF worker[g] = "sick"
       THEN Emit(g, "sickbeat") \/ Emit(g, "zombie")
       ELSE Emit(g, "beat")
    /\ UNCHANGED <<parent, threads, beat, worker, cmd, wasUp>>

\* connect_hard succeeds, fails, or times out and leaves native_hung behind.
DoConnect(g) ==
    /\ Turning(g) /\ cmd[g] # <<>> /\ Head(cmd[g]) = "connect"
    /\ cmd' = [cmd EXCEPT ![g] = Tail(@)]
    /\ \/ /\ worker[g] # "sick"
          /\ Becomes(g, "up") /\ wasUp' = wasUp \cup {g} /\ Emit(g, "ready")
       \/ worker[g] # "sick" /\ Becomes(g, "fresh") /\ UNCHANGED <<evt, wasUp>>
       \/ Becomes(g, "sick") /\ Emit(g, "hung") /\ UNCHANGED wasUp
    /\ UNCHANGED <<parent, threads, beat>>

DoShutdown(g) ==
    /\ Turning(g) /\ cmd[g] # <<>> /\ Head(cmd[g]) = "shutdown"
    /\ cmd' = [cmd EXCEPT ![g] = Tail(@)]
    /\ Becomes(g, "dead") /\ Emit(g, "bye")
    /\ UNCHANGED <<parent, threads, beat, wasUp>>

\* The main loop blocks in native code, for ever; or the process dies.
Fails(g) ==
    /\ \/ Turning(g) /\ Becomes(g, "stuck")
       \/ Alive(g) /\ Becomes(g, "dead")
    /\ UNCHANGED <<parent, threads, beat, cmd, evt, wasUp>>

-----------------------------------------------------------------------------
AppStep == \/ Woke \/ WaitExpires \/ ConnectReturns
           \/ Join \/ JoinEnds \/ ShutdownEnds

KillStep(t) == KillProc(t) \/ KillForget(t)
Reader(r) == ReaderTest(r) \/ ReaderEmpty(r) \/ ReaderTakes(r)
Watchdog(d) == DogTest(d) \/ DogWakes(d)
Worker(g) == Beat(g) \/ DoConnect(g) \/ DoShutdown(g)

Next ==
    \/ Connect \/ Kill \/ Shutdown \/ AppStep \/ HeartbeatAges
    \/ \E t \in Thread : KillStep(t)
    \/ \E g \in Gen : Reader(g) \/ Watchdog(g) \/ Worker(g) \/ Fails(g)

Spec == Init /\ [][Next]_vars

\* Threads and processes run and time passes; no one must call or fail.
FairSpec ==
    /\ Spec
    /\ WF_vars(AppStep) /\ WF_vars(HeartbeatAges)
    /\ \A t \in Thread : WF_vars(KillStep(t))
    /\ \A g \in Gen : WF_vars(Reader(g)) /\ WF_vars(Watchdog(g))

-----------------------------------------------------------------------------
(* Properties.                                                             *)

Event == {"beat", "sickbeat", "zombie", "ready", "hung", "bye"}

\* The type of every variable; and a thread in kill() stays until its end.
TypeOK ==
    /\ gen \in 0 .. MaxGen /\ proc \in {None} \cup Gen
    /\ ready \in BOOLEAN /\ hung \in BOOLEAN /\ stop \in BOOLEAN
    /\ beat \in {"none", "fresh", "old"}
    /\ worker \in [Gen -> Live \cup {"none", "dead"}] /\ wasUp \subseteq Gen
    /\ cmd \in [Gen -> Seq({"connect", "shutdown"})] /\ evt \in [Gen -> Seq(Event)]
    /\ reader \in [Gen -> {"off", "test", "get"}] /\ source \in [Gen -> 0 .. MaxGen]
    /\ dog \in [Gen -> {"off", "test", "sleep", "killing"}]
    /\ kill \in [Thread -> {"no", "begun", "done"}]
    /\ victim \in [Thread -> {None} \cup Gen]
    /\ ctl \in {"idle", "waiting", "woke", "connected", "killing", "sent",
                "joining", "joined", "off"}
    /\ ctl = "killing" <=> kill[App] # "no"
    /\ \A d \in Gen : dog[d] = "killing" <=> kill[d] # "no"

\* Once kill() or shutdown() has returned, or connect has failed, no worker
\* process is alive: nothing keeps the simulator's connection.
NoWorkerLeft == ctl = "off" => \A g \in Gen : ~Alive(g)

\* connect returns only when the worker it leaves behind has connected: the
\* answers of an earlier worker, or of one that hung, are not taken for it.
ConnectedMeansReady ==
    [][ctl # "connected" /\ ctl' = "connected" => proc \in wasUp \cup {None}]_vars

\* A worker whose main loop blocks is killed: by the watchdog when it had been
\* ready, by connect when it had not.
StuckIsKilled ==
    \A g \in Gen : worker[g] = "stuck" ~> worker[g] = "dead"

\* connect, kill and shutdown always come back.
CallsReturn == (ctl # "off") ~> (ctl \in {"connected", "off", "idle"})
=============================================================================
