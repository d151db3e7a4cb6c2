--------------------------- MODULE Isolated_proofs ---------------------------
(***************************************************************************)
(* Proofs about Isolated, for any number of workers and any length of the  *)
(* event queues.                                                           *)
(***************************************************************************)
EXTENDS Isolated, TLAPS

FlagsOK == ready \in BOOLEAN /\ hung \in BOOLEAN /\ stop \in BOOLEAN

\* The types without those of the queues.
PlaceOK ==
    /\ gen \in 0 .. MaxGen /\ proc \in {None} \cup Gen
    /\ beat \in {"none", "fresh", "old"}
    /\ worker \in [Gen -> Live \cup {"none", "dead"}] /\ wasUp \subseteq Gen
    /\ reader \in [Gen -> {"off", "test", "get"}] /\ source \in [Gen -> 0 .. MaxGen]
    /\ dog \in [Gen -> {"off", "test", "sleep", "killing"}]
    /\ kill \in [Thread -> {"no", "begun", "done"}]
    /\ victim \in [Thread -> {None} \cup Gen]
    /\ ctl \in {"idle", "waiting", "woke", "connected", "killing", "sent",
                "joining", "joined", "off"}

KillOK ==
    /\ ctl = "killing" <=> kill[App] # "no"
    /\ \A d \in Gen : dog[d] = "killing" <=> kill[d] # "no"
    /\ \A d \in Gen : dog[d] # "off" => d <= gen

\* A call of the application, and a reader that is about to take an event,
\* follow the start of a worker.
Started ==
    /\ ctl # "idle" => gen # 0
    /\ proc # None => gen # 0
    /\ \A r \in Gen : reader[r] # "off" => gen # 0
    /\ \A r \in Gen : reader[r] = "get" => source[r] \in Gen

QueueOK ==
    /\ cmd \in [Gen -> Seq({"connect", "shutdown"})]
    /\ evt \in [Gen -> Seq(Event)]

\* Only the last worker is alive, the parent knows it, and a thread in kill()
\* means this worker or finds it dead.
LastInv ==
    /\ \A g \in Gen : Alive(g) => g = gen /\ proc = gen
    /\ \A t \in Thread : kill[t] = "begun" => victim[t] = gen \/ ~ Alive(gen)
    /\ \A t \in Thread : kill[t] = "done" => ~ Alive(gen)
    /\ ctl = "off" => ~ Alive(gen)

\* Only the last worker's reader runs, and what it may have heard is true.
ReaderInv ==
    /\ \A r \in Gen : reader[r] # "off" => r = gen
    /\ \A r \in Gen : reader[r] = "get" => source[r] = gen
    /\ proc \in {None, gen}

ReadyInv ==
    /\ \A g \in Gen : \A i \in 1 .. Len(evt[g]) : evt[g][i] = "ready" => g \in wasUp
    /\ ready => hung \/ gen \in wasUp
    /\ ctl = "woke" => ready

-----------------------------------------------------------------------------

LEMMA NextCases ==
    ASSUME Next \/ UNCHANGED vars, NEW P,
           \A t \in Thread : KillProc(t) => P,
           \A t \in Thread : KillForget(t) => P,
           \A g \in Gen : ReaderTest(g) => P,
           \A g \in Gen : ReaderEmpty(g) => P,
           \A g \in Gen : ReaderTakes(g) => P,
           \A g \in Gen : DogTest(g) => P,
           \A g \in Gen : DogWakes(g) => P,
           \A g \in Gen : Beat(g) => P,
           \A g \in Gen : DoConnect(g) => P,
           \A g \in Gen : DoShutdown(g) => P,
           \A g \in Gen : Fails(g) => P,
           Connect => P,
           Kill => P,
           Shutdown => P,
           Woke => P,
           WaitExpires => P,
           ConnectReturns => P,
           Join => P,
           JoinEnds => P,
           ShutdownEnds => P,
           HeartbeatAges => P,
           UNCHANGED vars => P
    PROVE  P
BY DEF Next, AppStep, KillStep, Reader, Watchdog, Worker

LEMMA FlagsStep == FlagsOK /\ [Next]_vars => FlagsOK'
<1> SUFFICES ASSUME FlagsOK, Next \/ UNCHANGED vars
             PROVE  FlagsOK'
  OBVIOUS
<1> USE DEF FlagsOK, parent
<1>1. ASSUME NEW t \in Thread, KillProc(t)
      PROVE  FlagsOK'
  BY <1>1 DEF KillProc
<1>2. ASSUME NEW t \in Thread, KillForget(t)
      PROVE  FlagsOK'
  BY <1>2 DEF KillForget
<1>3. ASSUME NEW g \in Gen, ReaderTest(g)
      PROVE  FlagsOK'
  BY <1>3 DEF ReaderTest
<1>4. ASSUME NEW g \in Gen, ReaderEmpty(g)
      PROVE  FlagsOK'
  BY <1>4 DEF ReaderEmpty
<1>5. ASSUME NEW g \in Gen, ReaderTakes(g)
      PROVE  FlagsOK'
  BY <1>5 DEF ReaderTakes
<1>6. ASSUME NEW g \in Gen, DogTest(g)
      PROVE  FlagsOK'
  BY <1>6 DEF DogTest
<1>7. ASSUME NEW g \in Gen, DogWakes(g)
      PROVE  FlagsOK'
  BY <1>7 DEF DogWakes, KillBegin
<1>8. ASSUME NEW g \in Gen, Beat(g)
      PROVE  FlagsOK'
  BY <1>8 DEF Beat, Emit
<1>9. ASSUME NEW g \in Gen, DoConnect(g)
      PROVE  FlagsOK'
  BY <1>9 DEF DoConnect, Emit, Becomes
<1>10. ASSUME NEW g \in Gen, DoShutdown(g)
       PROVE  FlagsOK'
  BY <1>10 DEF DoShutdown, Emit, Becomes
<1>11. ASSUME NEW g \in Gen, Fails(g)
       PROVE  FlagsOK'
  BY <1>11 DEF Fails, Becomes
<1>12. CASE Connect
  BY <1>12 DEF Connect, StartWorker, Send, Quiescent
<1>13. CASE Kill
  BY <1>13 DEF Kill, KillBegin
<1>14. CASE Shutdown
  BY <1>14 DEF Shutdown, Send
<1>15. CASE Woke
  BY <1>15 DEF Woke
<1>16. CASE WaitExpires
  BY <1>16 DEF WaitExpires, KillBegin
<1>17. CASE ConnectReturns
  BY <1>17 DEF ConnectReturns, KillBegin
<1>18. CASE Join
  BY <1>18 DEF Join
<1>19. CASE JoinEnds
  BY <1>19 DEF JoinEnds
<1>20. CASE ShutdownEnds
  BY <1>20 DEF ShutdownEnds, KillBegin
<1>21. CASE HeartbeatAges
  BY <1>21 DEF HeartbeatAges
<1>22. CASE UNCHANGED vars
  BY <1>22 DEF vars
<1> QED
  BY <1>1, <1>2, <1>3, <1>4, <1>5, <1>6, <1>7, <1>8, <1>9, <1>10, <1>11,
     <1>12, <1>13, <1>14, <1>15, <1>16, <1>17, <1>18, <1>19, <1>20, <1>21,
     <1>22, NextCases

LEMMA KillStepKeeps == PlaceOK /\ KillOK /\ [Next]_vars => KillOK'
<1> SUFFICES ASSUME PlaceOK, KillOK, Next \/ UNCHANGED vars
             PROVE  KillOK'
  OBVIOUS
<1> USE DEF Gen, Thread, App, None, parent, procs, threads, KillOK, PlaceOK
<1>1. ASSUME NEW t \in Thread, KillProc(t)
      PROVE  KillOK'
  BY <1>1 DEF KillProc
<1>2. ASSUME NEW t \in Thread, KillForget(t)
      PROVE  KillOK'
  <2>1. CASE t = App
    BY <1>2, <2>1 DEF KillForget
  <2>2. CASE t \in Gen
    <3>1. t # App
      BY <2>2
    <3> QED
      BY <1>2, <2>2, <3>1 DEF KillForget
  <2> QED
    BY <2>1, <2>2
<1>3. ASSUME NEW g \in Gen, ReaderTest(g)
      PROVE  KillOK'
  BY <1>3 DEF ReaderTest
<1>4. ASSUME NEW g \in Gen, ReaderEmpty(g)
      PROVE  KillOK'
  BY <1>4 DEF ReaderEmpty
<1>5. ASSUME NEW g \in Gen, ReaderTakes(g)
      PROVE  KillOK'
  BY <1>5 DEF ReaderTakes
<1>6. ASSUME NEW g \in Gen, DogTest(g)
      PROVE  KillOK'
  BY <1>6 DEF DogTest
<1>7. ASSUME NEW g \in Gen, DogWakes(g)
      PROVE  KillOK'
  <2>1. g \in Thread /\ g # 0 /\ dog[g] = "sleep"
    BY <1>7 DEF DogWakes
  <2>2. CASE ready /\ beat = "old"
    <3>1. /\ kill' = [kill EXCEPT ![g] = "begun"]
          /\ victim' = [victim EXCEPT ![g] = proc]
          /\ dog' = [dog EXCEPT ![g] = "killing"]
          /\ UNCHANGED <<gen, proc, procs, reader, source, ctl, beat>>
      BY <1>7, <2>2 DEF DogWakes, KillBegin
    <3> QED
      BY <2>1, <3>1
  <2>3. CASE ~ (ready /\ beat = "old")
    <3>1. /\ dog' = [dog EXCEPT ![g] = "test"]
          /\ UNCHANGED <<gen, proc, kill, victim, procs, reader, source, ctl, beat>>
      BY <1>7, <2>3 DEF DogWakes
    <3> QED
      BY <2>1, <3>1
  <2> QED
    BY <2>2, <2>3
<1>8. ASSUME NEW g \in Gen, Beat(g)
      PROVE  KillOK'
  BY <1>8 DEF Beat, Emit
<1>9. ASSUME NEW g \in Gen, DoConnect(g)
      PROVE  KillOK'
  BY <1>9 DEF DoConnect, Emit, Becomes
<1>10. ASSUME NEW g \in Gen, DoShutdown(g)
       PROVE  KillOK'
  BY <1>10 DEF DoShutdown, Emit, Becomes
<1>11. ASSUME NEW g \in Gen, Fails(g)
       PROVE  KillOK'
  BY <1>11 DEF Fails, Becomes
<1>12. CASE Connect
  <2>1. CASE Alive(proc) /\ UNCHANGED <<parent, worker, reader, dog>>
    BY <1>12, <2>1 DEF Connect, Send, Alive
  <2>2. CASE gen < MaxGen /\ gen' = gen + 1 /\ proc' = gen + 1
             /\ worker' = [worker EXCEPT ![gen + 1] = "fresh"]
             /\ reader' = [reader EXCEPT ![gen + 1] = "test"]
             /\ dog' = [dog EXCEPT ![gen + 1] = "test"]
    <3>1. gen + 1 \in Gen /\ gen + 1 # 0
      BY <2>2, BoundsAssumption
    <3>2. ctl' = "waiting" /\ ctl # "killing" /\ UNCHANGED <<evt, wasUp, source, kill, victim, beat>>
      BY <1>12 DEF Connect
    <3>3. ~ (gen + 1 <= gen) /\ \A d \in Gen : d <= gen => d <= gen + 1
      BY BoundsAssumption
    <3> QED
      BY <2>2, <3>1, <3>2, <3>3
  <2> QED
    BY <1>12, <2>1, <2>2 DEF Connect, StartWorker
<1>13. CASE Kill
  BY <1>13 DEF Kill, KillBegin
<1>14. CASE Shutdown
  BY <1>14 DEF Shutdown, Send
<1>15. CASE Woke
  BY <1>15 DEF Woke
<1>16. CASE WaitExpires
  BY <1>16 DEF WaitExpires, KillBegin
<1>17. CASE ConnectReturns
  BY <1>17 DEF ConnectReturns, KillBegin
<1>18. CASE Join
  BY <1>18 DEF Join
<1>19. CASE JoinEnds
  BY <1>19 DEF JoinEnds
<1>20. CASE ShutdownEnds
  BY <1>20 DEF ShutdownEnds, KillBegin
<1>21. CASE HeartbeatAges
  BY <1>21 DEF HeartbeatAges
<1>22. CASE UNCHANGED vars
  BY <1>22 DEF vars
<1> QED
  BY <1>1, <1>2, <1>3, <1>4, <1>5, <1>6, <1>7, <1>8, <1>9, <1>10, <1>11,
     <1>12, <1>13, <1>14, <1>15, <1>16, <1>17, <1>18, <1>19, <1>20, <1>21,
     <1>22, NextCases

LEMMA PlaceStep == Started /\ PlaceOK /\ [Next]_vars => PlaceOK'
<1> SUFFICES ASSUME Started, PlaceOK, Next \/ UNCHANGED vars
             PROVE  PlaceOK'
  OBVIOUS
<1> USE BoundsAssumption DEF Gen, Thread, App, None, parent, procs, threads, PlaceOK, Live, Started
<1>1. ASSUME NEW t \in Thread, KillProc(t)
      PROVE  PlaceOK'
  BY <1>1 DEF KillProc
<1>2. ASSUME NEW t \in Thread, KillForget(t)
      PROVE  PlaceOK'
  <2>1. CASE t = App
    BY <1>2, <2>1 DEF KillForget
  <2>2. CASE t \in Gen
    <3>1. t # App
      BY <2>2
    <3> QED
      BY <1>2, <2>2, <3>1 DEF KillForget
  <2> QED
    BY <2>1, <2>2
<1>3. ASSUME NEW g \in Gen, ReaderTest(g)
      PROVE  PlaceOK'
  BY <1>3 DEF ReaderTest
<1>4. ASSUME NEW g \in Gen, ReaderEmpty(g)
      PROVE  PlaceOK'
  BY <1>4 DEF ReaderEmpty
<1>5. ASSUME NEW g \in Gen, ReaderTakes(g)
      PROVE  PlaceOK'
  BY <1>5 DEF ReaderTakes
<1>6. ASSUME NEW g \in Gen, DogTest(g)
      PROVE  PlaceOK'
  BY <1>6 DEF DogTest
<1>7. ASSUME NEW g \in Gen, DogWakes(g)
      PROVE  PlaceOK'
  <2>1. g \in Thread /\ g # 0 /\ dog[g] = "sleep"
    BY <1>7 DEF DogWakes
  <2>2. CASE ready /\ beat = "old"
    <3>1. /\ kill' = [kill EXCEPT ![g] = "begun"]
          /\ victim' = [victim EXCEPT ![g] = proc]
          /\ dog' = [dog EXCEPT ![g] = "killing"]
          /\ UNCHANGED <<gen, proc, procs, reader, source, ctl, beat>>
      BY <1>7, <2>2 DEF DogWakes, KillBegin
    <3> QED
      BY <2>1, <3>1
  <2>3. CASE ~ (ready /\ beat = "old")
    <3>1. /\ dog' = [dog EXCEPT ![g] = "test"]
          /\ UNCHANGED <<gen, proc, kill, victim, procs, reader, source, ctl, beat>>
      BY <1>7, <2>3 DEF DogWakes
    <3> QED
      BY <2>1, <3>1
  <2> QED
    BY <2>2, <2>3
<1>8. ASSUME NEW g \in Gen, Beat(g)
      PROVE  PlaceOK'
  BY <1>8 DEF Beat, Emit
<1>9. ASSUME NEW g \in Gen, DoConnect(g)
      PROVE  PlaceOK'
  BY <1>9 DEF DoConnect, Emit, Becomes
<1>10. ASSUME NEW g \in Gen, DoShutdown(g)
       PROVE  PlaceOK'
  BY <1>10 DEF DoShutdown, Emit, Becomes
<1>11. ASSUME NEW g \in Gen, Fails(g)
       PROVE  PlaceOK'
  BY <1>11 DEF Fails, Becomes
<1>12. CASE Connect
  <2>1. CASE Alive(proc) /\ UNCHANGED <<parent, worker, reader, dog>>
    BY <1>12, <2>1 DEF Connect, Send, Alive
  <2>2. CASE gen < MaxGen /\ gen' = gen + 1 /\ proc' = gen + 1
             /\ worker' = [worker EXCEPT ![gen + 1] = "fresh"]
             /\ reader' = [reader EXCEPT ![gen + 1] = "test"]
             /\ dog' = [dog EXCEPT ![gen + 1] = "test"]
    <3>1. gen + 1 \in Gen /\ gen + 1 # 0
      BY <2>2, BoundsAssumption
    <3>2. ctl' = "waiting" /\ ctl # "killing" /\ UNCHANGED <<evt, wasUp, source, kill, victim, beat>>
      BY <1>12 DEF Connect
    <3>3. ~ (gen + 1 <= gen) /\ \A d \in Gen : d <= gen => d <= gen + 1
      BY BoundsAssumption
    <3> QED
      BY <2>2, <3>1, <3>2, <3>3
  <2> QED
    BY <1>12, <2>1, <2>2 DEF Connect, StartWorker
<1>13. CASE Kill
  BY <1>13 DEF Kill, KillBegin
<1>14. CASE Shutdown
  BY <1>14 DEF Shutdown, Send
<1>15. CASE Woke
  BY <1>15 DEF Woke
<1>16. CASE WaitExpires
  BY <1>16 DEF WaitExpires, KillBegin
<1>17. CASE ConnectReturns
  BY <1>17 DEF ConnectReturns, KillBegin
<1>18. CASE Join
  BY <1>18 DEF Join
<1>19. CASE JoinEnds
  BY <1>19 DEF JoinEnds
<1>20. CASE ShutdownEnds
  BY <1>20 DEF ShutdownEnds, KillBegin
<1>21. CASE HeartbeatAges
  BY <1>21 DEF HeartbeatAges
<1>22. CASE UNCHANGED vars
  BY <1>22 DEF vars
<1> QED
  BY <1>1, <1>2, <1>3, <1>4, <1>5, <1>6, <1>7, <1>8, <1>9, <1>10, <1>11,
     <1>12, <1>13, <1>14, <1>15, <1>16, <1>17, <1>18, <1>19, <1>20, <1>21,
     <1>22, NextCases

LEMMA StartedStep == PlaceOK /\ KillOK /\ Started /\ [Next]_vars => Started'
<1> SUFFICES ASSUME PlaceOK, KillOK, Started, Next \/ UNCHANGED vars
             PROVE  Started'
  OBVIOUS
<1> USE BoundsAssumption DEF Gen, Thread, App, None, parent, procs, threads, Started, PlaceOK, KillOK
<1>1. ASSUME NEW t \in Thread, KillProc(t)
      PROVE  Started'
  BY <1>1 DEF KillProc
<1>2. ASSUME NEW t \in Thread, KillForget(t)
      PROVE  Started'
  <2>1. CASE t = App
    BY <1>2, <2>1 DEF KillForget
  <2>2. CASE t \in Gen
    <3>1. t # App
      BY <2>2
    <3> QED
      BY <1>2, <2>2, <3>1 DEF KillForget
  <2> QED
    BY <2>1, <2>2
<1>3. ASSUME NEW g \in Gen, ReaderTest(g)
      PROVE  Started'
  BY <1>3 DEF ReaderTest
<1>4. ASSUME NEW g \in Gen, ReaderEmpty(g)
      PROVE  Started'
  BY <1>4 DEF ReaderEmpty
<1>5. ASSUME NEW g \in Gen, ReaderTakes(g)
      PROVE  Started'
  BY <1>5 DEF ReaderTakes
<1>6. ASSUME NEW g \in Gen, DogTest(g)
      PROVE  Started'
  BY <1>6 DEF DogTest
<1>7. ASSUME NEW g \in Gen, DogWakes(g)
      PROVE  Started'
  <2>1. g \in Thread /\ g # 0 /\ dog[g] = "sleep"
    BY <1>7 DEF DogWakes
  <2>2. CASE ready /\ beat = "old"
    <3>1. /\ kill' = [kill EXCEPT ![g] = "begun"]
          /\ victim' = [victim EXCEPT ![g] = proc]
          /\ dog' = [dog EXCEPT ![g] = "killing"]
          /\ UNCHANGED <<gen, proc, procs, reader, source, ctl, beat>>
      BY <1>7, <2>2 DEF DogWakes, KillBegin
    <3> QED
      BY <2>1, <3>1
  <2>3. CASE ~ (ready /\ beat = "old")
    <3>1. /\ dog' = [dog EXCEPT ![g] = "test"]
          /\ UNCHANGED <<gen, proc, kill, victim, procs, reader, source, ctl, beat>>
      BY <1>7, <2>3 DEF DogWakes
    <3> QED
      BY <2>1, <3>1
  <2> QED
    BY <2>2, <2>3
<1>8. ASSUME NEW g \in Gen, Beat(g)
      PROVE  Started'
  BY <1>8 DEF Beat, Emit
<1>9. ASSUME NEW g \in Gen, DoConnect(g)
      PROVE  Started'
  BY <1>9 DEF DoConnect, Emit, Becomes
<1>10. ASSUME NEW g \in Gen, DoShutdown(g)
       PROVE  Started'
  BY <1>10 DEF DoShutdown, Emit, Becomes
<1>11. ASSUME NEW g \in Gen, Fails(g)
       PROVE  Started'
  BY <1>11 DEF Fails, Becomes
<1>12. CASE Connect
  <2>1. CASE Alive(proc) /\ UNCHANGED <<parent, worker, reader, dog>>
    BY <1>12, <2>1 DEF Connect, Send, Alive
  <2>2. CASE gen < MaxGen /\ gen' = gen + 1 /\ proc' = gen + 1
             /\ worker' = [worker EXCEPT ![gen + 1] = "fresh"]
             /\ reader' = [reader EXCEPT ![gen + 1] = "test"]
             /\ dog' = [dog EXCEPT ![gen + 1] = "test"]
    <3>1. gen + 1 \in Gen /\ gen + 1 # 0
      BY <2>2, BoundsAssumption
    <3>2. ctl' = "waiting" /\ ctl # "killing" /\ UNCHANGED <<evt, wasUp, source, kill, victim, beat>>
      BY <1>12 DEF Connect
    <3>3. ~ (gen + 1 <= gen) /\ \A d \in Gen : d <= gen => d <= gen + 1
      BY BoundsAssumption
    <3> QED
      BY <2>2, <3>1, <3>2, <3>3
  <2> QED
    BY <1>12, <2>1, <2>2 DEF Connect, StartWorker
<1>13. CASE Kill
  BY <1>13 DEF Kill, KillBegin
<1>14. CASE Shutdown
  BY <1>14 DEF Shutdown, Send
<1>15. CASE Woke
  BY <1>15 DEF Woke
<1>16. CASE WaitExpires
  BY <1>16 DEF WaitExpires, KillBegin
<1>17. CASE ConnectReturns
  BY <1>17 DEF ConnectReturns, KillBegin
<1>18. CASE Join
  BY <1>18 DEF Join
<1>19. CASE JoinEnds
  BY <1>19 DEF JoinEnds
<1>20. CASE ShutdownEnds
  BY <1>20 DEF ShutdownEnds, KillBegin
<1>21. CASE HeartbeatAges
  BY <1>21 DEF HeartbeatAges
<1>22. CASE UNCHANGED vars
  BY <1>22 DEF vars
<1> QED
  BY <1>1, <1>2, <1>3, <1>4, <1>5, <1>6, <1>7, <1>8, <1>9, <1>10, <1>11,
     <1>12, <1>13, <1>14, <1>15, <1>16, <1>17, <1>18, <1>19, <1>20, <1>21,
     <1>22, NextCases

LEMMA QueueStep == PlaceOK /\ Started /\ QueueOK /\ [Next]_vars => QueueOK'
<1> SUFFICES ASSUME PlaceOK, Started, QueueOK, Next \/ UNCHANGED vars
             PROVE  QueueOK'
  OBVIOUS
<1> USE BoundsAssumption DEF Gen, Thread, App, None, parent, procs, threads, QueueOK, PlaceOK, Started, Event
<1>1. ASSUME NEW t \in Thread, KillProc(t)
      PROVE  QueueOK'
  BY <1>1 DEF KillProc
<1>2. ASSUME NEW t \in Thread, KillForget(t)
      PROVE  QueueOK'
  <2>1. CASE t = App
    BY <1>2, <2>1 DEF KillForget
  <2>2. CASE t \in Gen
    <3>1. t # App
      BY <2>2
    <3> QED
      BY <1>2, <2>2, <3>1 DEF KillForget
  <2> QED
    BY <2>1, <2>2
<1>3. ASSUME NEW g \in Gen, ReaderTest(g)
      PROVE  QueueOK'
  BY <1>3 DEF ReaderTest
<1>4. ASSUME NEW g \in Gen, ReaderEmpty(g)
      PROVE  QueueOK'
  BY <1>4 DEF ReaderEmpty
<1>5. ASSUME NEW g \in Gen, ReaderTakes(g)
      PROVE  QueueOK'
  BY <1>5 DEF ReaderTakes
<1>6. ASSUME NEW g \in Gen, DogTest(g)
      PROVE  QueueOK'
  BY <1>6 DEF DogTest
<1>7. ASSUME NEW g \in Gen, DogWakes(g)
      PROVE  QueueOK'
  <2>1. g \in Thread /\ g # 0 /\ dog[g] = "sleep"
    BY <1>7 DEF DogWakes
  <2>2. CASE ready /\ beat = "old"
    <3>1. /\ kill' = [kill EXCEPT ![g] = "begun"]
          /\ victim' = [victim EXCEPT ![g] = proc]
          /\ dog' = [dog EXCEPT ![g] = "killing"]
          /\ UNCHANGED <<gen, proc, procs, reader, source, ctl, beat>>
      BY <1>7, <2>2 DEF DogWakes, KillBegin
    <3> QED
      BY <2>1, <3>1
  <2>3. CASE ~ (ready /\ beat = "old")
    <3>1. /\ dog' = [dog EXCEPT ![g] = "test"]
          /\ UNCHANGED <<gen, proc, kill, victim, procs, reader, source, ctl, beat>>
      BY <1>7, <2>3 DEF DogWakes
    <3> QED
      BY <2>1, <3>1
  <2> QED
    BY <2>2, <2>3
<1>8. ASSUME NEW g \in Gen, Beat(g)
      PROVE  QueueOK'
  <2>1. PICK e \in {"beat", "sickbeat", "zombie"} :
           evt' = [evt EXCEPT ![g] = Append(evt[g], e)]
    BY <1>8 DEF Beat, Emit
  <2>2. Append(evt[g], e) \in Seq(Event)
    OBVIOUS
  <2>3. cmd' = cmd
    BY <1>8 DEF Beat
  <2> QED
    BY <2>1, <2>2, <2>3
<1>9. ASSUME NEW g \in Gen, DoConnect(g)
      PROVE  QueueOK'
  <2>1. /\ Tail(cmd[g]) \in Seq({"connect", "shutdown"})
        /\ cmd' = [cmd EXCEPT ![g] = Tail(cmd[g])]
    BY <1>9 DEF DoConnect
  <2>2. \/ UNCHANGED evt
        \/ evt' = [evt EXCEPT ![g] = Append(evt[g], "ready")]
        \/ evt' = [evt EXCEPT ![g] = Append(evt[g], "hung")]
    BY <1>9 DEF DoConnect, Emit
  <2>3. Append(evt[g], "ready") \in Seq(Event) /\ Append(evt[g], "hung") \in Seq(Event)
    OBVIOUS
  <2> QED
    BY <2>1, <2>2, <2>3
<1>10. ASSUME NEW g \in Gen, DoShutdown(g)
       PROVE  QueueOK'
  BY <1>10 DEF DoShutdown, Emit, Becomes
<1>11. ASSUME NEW g \in Gen, Fails(g)
       PROVE  QueueOK'
  BY <1>11 DEF Fails, Becomes
<1>12. CASE Connect
  <2>1. cmd' = [cmd EXCEPT ![gen'] = Append(cmd[gen'], "connect")] /\ UNCHANGED evt
    BY <1>12 DEF Connect, Send
  <2>2. gen' \in Gen
    <3>1. CASE Alive(proc) /\ gen' = gen
      BY <3>1 DEF Alive
    <3>2. CASE gen < MaxGen /\ gen' = gen + 1
      BY <3>2
    <3> QED
      BY <1>12, <3>1, <3>2 DEF Connect, StartWorker
  <2>3. Append(cmd[gen'], "connect") \in Seq({"connect", "shutdown"})
    BY <2>2
  <2> QED
    BY <2>1, <2>2, <2>3
<1>13. CASE Kill
  BY <1>13 DEF Kill, KillBegin
<1>14. CASE Shutdown
  <2>1. CASE Alive(proc)
    <3>1. gen \in Gen
      BY <1>14 DEF Shutdown
    <3>2. Append(cmd[gen], "shutdown") \in Seq({"connect", "shutdown"})
      BY <3>1
    <3> QED
      BY <1>14, <2>1, <3>1, <3>2 DEF Shutdown, Send
  <2>2. CASE ~ Alive(proc)
    BY <1>14, <2>2 DEF Shutdown
  <2> QED
    BY <2>1, <2>2
<1>15. CASE Woke
  BY <1>15 DEF Woke
<1>16. CASE WaitExpires
  BY <1>16 DEF WaitExpires, KillBegin
<1>17. CASE ConnectReturns
  BY <1>17 DEF ConnectReturns, KillBegin
<1>18. CASE Join
  BY <1>18 DEF Join
<1>19. CASE JoinEnds
  BY <1>19 DEF JoinEnds
<1>20. CASE ShutdownEnds
  BY <1>20 DEF ShutdownEnds, KillBegin
<1>21. CASE HeartbeatAges
  BY <1>21 DEF HeartbeatAges
<1>22. CASE UNCHANGED vars
  BY <1>22 DEF vars
<1> QED
  BY <1>1, <1>2, <1>3, <1>4, <1>5, <1>6, <1>7, <1>8, <1>9, <1>10, <1>11,
     <1>12, <1>13, <1>14, <1>15, <1>16, <1>17, <1>18, <1>19, <1>20, <1>21,
     <1>22, NextCases

LEMMA LastStep == Patient /\ PlaceOK /\ KillOK /\ LastInv /\ [Next]_vars => LastInv'
<1> SUFFICES ASSUME Patient, PlaceOK, KillOK, LastInv, Next \/ UNCHANGED vars
             PROVE  LastInv'
  OBVIOUS
<1> USE DEF Gen, Thread, App, None, parent, procs, threads, PlaceOK, KillOK, LastInv, Live, Alive, Turning
<1>1. ASSUME NEW t \in Thread, KillProc(t)
      PROVE  LastInv'
  BY <1>1 DEF KillProc
<1>2. ASSUME NEW t \in Thread, KillForget(t)
      PROVE  LastInv'
  BY <1>2 DEF KillForget
<1>3. ASSUME NEW g \in Gen, ReaderTest(g)
      PROVE  LastInv'
  BY <1>3 DEF ReaderTest
<1>4. ASSUME NEW g \in Gen, ReaderEmpty(g)
      PROVE  LastInv'
  BY <1>4 DEF ReaderEmpty
<1>5. ASSUME NEW g \in Gen, ReaderTakes(g)
      PROVE  LastInv'
  BY <1>5 DEF ReaderTakes
<1>6. ASSUME NEW g \in Gen, DogTest(g)
      PROVE  LastInv'
  BY <1>6 DEF DogTest
<1>7. ASSUME NEW g \in Gen, DogWakes(g)
      PROVE  LastInv'
  <2>1. g \in Thread /\ g # 0
    OBVIOUS
  <2>2. CASE kill' = [kill EXCEPT ![g] = "begun"] /\ victim' = [victim EXCEPT ![g] = proc]
    <3>1. proc = gen \/ ~ Alive(gen)
      OBVIOUS
    <3>2. UNCHANGED <<gen, proc, worker, ctl>>
      BY <1>7 DEF DogWakes, KillBegin
    <3> QED
      BY <2>1, <2>2, <3>1, <3>2
  <2>3. CASE UNCHANGED <<kill, victim>>
    BY <1>7, <2>3 DEF DogWakes, KillBegin
  <2> QED
    BY <1>7, <2>2, <2>3 DEF DogWakes, KillBegin
<1>8. ASSUME NEW g \in Gen, Beat(g)
      PROVE  LastInv'
  BY <1>8 DEF Beat, Emit
<1>9. ASSUME NEW g \in Gen, DoConnect(g)
      PROVE  LastInv'
  <2>1. \A h \in Gen : (worker[h] \in Live)' => worker[h] \in Live
    BY <1>9 DEF DoConnect, Emit, Becomes
  <2>2. UNCHANGED <<gen, proc, kill, victim, ctl>>
    BY <1>9 DEF DoConnect, Emit, Becomes
  <2>3. gen = 0 \/ gen \in Gen
    OBVIOUS
  <2> QED
    BY <2>1, <2>2, <2>3
<1>10. ASSUME NEW g \in Gen, DoShutdown(g)
       PROVE  LastInv'
  BY <1>10 DEF DoShutdown, Emit, Becomes
<1>11. ASSUME NEW g \in Gen, Fails(g)
       PROVE  LastInv'
  <2>1. \A h \in Gen : (worker[h] \in Live)' => worker[h] \in Live
    BY <1>11 DEF Fails, Becomes
  <2>2. UNCHANGED <<gen, proc, kill, victim, ctl>>
    BY <1>11 DEF Fails, Becomes
  <2>3. gen = 0 \/ gen \in Gen
    OBVIOUS
  <2> QED
    BY <2>1, <2>2, <2>3
<1>12. CASE Connect
  BY <1>12 DEF Connect, StartWorker, Send, Quiescent
<1>13. CASE Kill
  BY <1>13 DEF Kill, KillBegin
<1>14. CASE Shutdown
  BY <1>14 DEF Shutdown, Send
<1>15. CASE Woke
  BY <1>15 DEF Woke
<1>16. CASE WaitExpires
  BY <1>16 DEF WaitExpires, KillBegin
<1>17. CASE ConnectReturns
  BY <1>17 DEF ConnectReturns, KillBegin
<1>18. CASE Join
  BY <1>18 DEF Join
<1>19. CASE JoinEnds
  BY <1>19 DEF JoinEnds
<1>20. CASE ShutdownEnds
  BY <1>20 DEF ShutdownEnds, KillBegin
<1>21. CASE HeartbeatAges
  BY <1>21 DEF HeartbeatAges
<1>22. CASE UNCHANGED vars
  BY <1>22 DEF vars
<1> QED
  BY <1>1, <1>2, <1>3, <1>4, <1>5, <1>6, <1>7, <1>8, <1>9, <1>10, <1>11,
     <1>12, <1>13, <1>14, <1>15, <1>16, <1>17, <1>18, <1>19, <1>20, <1>21,
     <1>22, NextCases

LEMMA ReaderStep == Patient /\ PlaceOK /\ ReaderInv /\ [Next]_vars => ReaderInv'
<1> SUFFICES ASSUME Patient, PlaceOK, ReaderInv, Next \/ UNCHANGED vars
             PROVE  ReaderInv'
  OBVIOUS
<1> USE DEF Gen, Thread, App, None, parent, procs, threads, PlaceOK, ReaderInv
<1>1. ASSUME NEW t \in Thread, KillProc(t)
      PROVE  ReaderInv'
  BY <1>1 DEF KillProc
<1>2. ASSUME NEW t \in Thread, KillForget(t)
      PROVE  ReaderInv'
  BY <1>2 DEF KillForget
<1>3. ASSUME NEW g \in Gen, ReaderTest(g)
      PROVE  ReaderInv'
  BY <1>3 DEF ReaderTest
<1>4. ASSUME NEW g \in Gen, ReaderEmpty(g)
      PROVE  ReaderInv'
  BY <1>4 DEF ReaderEmpty
<1>5. ASSUME NEW g \in Gen, ReaderTakes(g)
      PROVE  ReaderInv'
  BY <1>5 DEF ReaderTakes
<1>6. ASSUME NEW g \in Gen, DogTest(g)
      PROVE  ReaderInv'
  BY <1>6 DEF DogTest
<1>7. ASSUME NEW g \in Gen, DogWakes(g)
      PROVE  ReaderInv'
  BY <1>7 DEF DogWakes, KillBegin
<1>8. ASSUME NEW g \in Gen, Beat(g)
      PROVE  ReaderInv'
  BY <1>8 DEF Beat, Emit
<1>9. ASSUME NEW g \in Gen, DoConnect(g)
      PROVE  ReaderInv'
  BY <1>9 DEF DoConnect, Emit, Becomes
<1>10. ASSUME NEW g \in Gen, DoShutdown(g)
       PROVE  ReaderInv'
  BY <1>10 DEF DoShutdown, Emit, Becomes
<1>11. ASSUME NEW g \in Gen, Fails(g)
       PROVE  ReaderInv'
  BY <1>11 DEF Fails, Becomes
<1>12. CASE Connect
  BY <1>12 DEF Connect, StartWorker, Send, Quiescent
<1>13. CASE Kill
  BY <1>13 DEF Kill, KillBegin
<1>14. CASE Shutdown
  BY <1>14 DEF Shutdown, Send
<1>15. CASE Woke
  BY <1>15 DEF Woke
<1>16. CASE WaitExpires
  BY <1>16 DEF WaitExpires, KillBegin
<1>17. CASE ConnectReturns
  BY <1>17 DEF ConnectReturns, KillBegin
<1>18. CASE Join
  BY <1>18 DEF Join
<1>19. CASE JoinEnds
  BY <1>19 DEF JoinEnds
<1>20. CASE ShutdownEnds
  BY <1>20 DEF ShutdownEnds, KillBegin
<1>21. CASE HeartbeatAges
  BY <1>21 DEF HeartbeatAges
<1>22. CASE UNCHANGED vars
  BY <1>22 DEF vars
<1> QED
  BY <1>1, <1>2, <1>3, <1>4, <1>5, <1>6, <1>7, <1>8, <1>9, <1>10, <1>11,
     <1>12, <1>13, <1>14, <1>15, <1>16, <1>17, <1>18, <1>19, <1>20, <1>21,
     <1>22, NextCases

LEMMA ReadyStep == PlaceOK /\ QueueOK /\ ReaderInv /\ ReadyInv /\ [Next]_vars => ReadyInv'
<1> SUFFICES ASSUME PlaceOK, QueueOK, ReaderInv, ReadyInv, Next \/ UNCHANGED vars
             PROVE  ReadyInv'
  OBVIOUS
<1> USE DEF Gen, Thread, App, None, parent, procs, threads, PlaceOK, QueueOK, ReaderInv, ReadyInv, Event
<1>1. ASSUME NEW t \in Thread, KillProc(t)
      PROVE  ReadyInv'
  BY <1>1 DEF KillProc
<1>2. ASSUME NEW t \in Thread, KillForget(t)
      PROVE  ReadyInv'
  BY <1>2 DEF KillForget
<1>3. ASSUME NEW g \in Gen, ReaderTest(g)
      PROVE  ReadyInv'
  BY <1>3 DEF ReaderTest
<1>4. ASSUME NEW g \in Gen, ReaderEmpty(g)
      PROVE  ReadyInv'
  BY <1>4 DEF ReaderEmpty
<1>5. ASSUME NEW g \in Gen, ReaderTakes(g)
      PROVE  ReadyInv'
  <2>1. source[g] = gen /\ source[g] \in Gen
    BY <1>5 DEF ReaderTakes
  <2>2. /\ evt' = [evt EXCEPT ![gen] = Tail(evt[gen])] /\ evt[gen] # <<>>
        /\ UNCHANGED <<gen, wasUp, ctl>>
    BY <1>5, <2>1 DEF ReaderTakes
  <2>3. (ready => ready') /\ (ready' => ready \/ Head(evt[gen]) = "ready" \/ hung')
        /\ (hung => hung')
    BY <1>5, <2>1 DEF ReaderTakes
  <2>4. Head(evt[gen]) = evt[gen][1] /\ 1 \in 1 .. Len(evt[gen])
    BY <2>1, <2>2
  <2>5. /\ Len(Tail(evt[gen])) = Len(evt[gen]) - 1
        /\ \A i \in 1 .. Len(Tail(evt[gen])) :
              i + 1 \in 1 .. Len(evt[gen]) /\ Tail(evt[gen])[i] = evt[gen][i + 1]
    BY <2>1, <2>2
  <2>6. \A h \in Gen : \A i \in 1 .. Len(evt'[h]) : evt'[h][i] = "ready" => h \in wasUp
    BY <2>1, <2>2, <2>5
  <2>7. ready' => hung' \/ gen \in wasUp
    BY <2>1, <2>3, <2>4
  <2> QED
    BY <2>2, <2>3, <2>6, <2>7
<1>6. ASSUME NEW g \in Gen, DogTest(g)
      PROVE  ReadyInv'
  BY <1>6 DEF DogTest
<1>7. ASSUME NEW g \in Gen, DogWakes(g)
      PROVE  ReadyInv'
  BY <1>7 DEF DogWakes, KillBegin
<1>8. ASSUME NEW g \in Gen, Beat(g)
      PROVE  ReadyInv'
  <2>1. PICK e \in {"beat", "sickbeat", "zombie"} :
           evt' = [evt EXCEPT ![g] = Append(evt[g], e)]
    BY <1>8 DEF Beat, Emit
  <2>2. UNCHANGED <<gen, ready, hung, ctl, wasUp>>
    BY <1>8 DEF Beat
  <2>3. /\ Len(Append(evt[g], e)) = Len(evt[g]) + 1
        /\ Append(evt[g], e)[Len(evt[g]) + 1] = e
        /\ \A i \in 1 .. Len(evt[g]) : Append(evt[g], e)[i] = evt[g][i]
    OBVIOUS
  <2>4. \A h \in Gen : \A i \in 1 .. Len(evt'[h]) :
           evt'[h][i] = "ready" => h \in wasUp
    BY <2>1, <2>3
  <2> QED
    BY <2>2, <2>4
<1>9. ASSUME NEW g \in Gen, DoConnect(g)
      PROVE  ReadyInv'
  <2>1. UNCHANGED <<gen, ready, hung, ctl>> /\ wasUp \subseteq wasUp'
    BY <1>9 DEF DoConnect
  <2>2. \/ UNCHANGED evt
        \/ evt' = [evt EXCEPT ![g] = Append(evt[g], "ready")] /\ g \in wasUp'
        \/ evt' = [evt EXCEPT ![g] = Append(evt[g], "hung")]
    BY <1>9 DEF DoConnect, Emit
  <2>3. \A e \in Event :
           /\ Len(Append(evt[g], e)) = Len(evt[g]) + 1
           /\ Append(evt[g], e)[Len(evt[g]) + 1] = e
           /\ \A i \in 1 .. Len(evt[g]) : Append(evt[g], e)[i] = evt[g][i]
    OBVIOUS
  <2>4. \A h \in Gen : \A i \in 1 .. Len(evt'[h]) : evt'[h][i] = "ready" => h \in wasUp'
    <3>1. CASE UNCHANGED evt
      BY <2>1, <3>1
    <3>2. ASSUME NEW e \in Event, evt' = [evt EXCEPT ![g] = Append(evt[g], e)],
                 e = "ready" => g \in wasUp'
          PROVE  \A h \in Gen : \A i \in 1 .. Len(evt'[h]) : evt'[h][i] = "ready" => h \in wasUp'
      <4> SUFFICES ASSUME NEW h \in Gen, NEW i \in 1 .. Len(evt'[h]), evt'[h][i] = "ready"
                   PROVE  h \in wasUp'
        OBVIOUS
      <4>1. CASE h # g
        BY <2>1, <3>2, <4>1
      <4>2. CASE h = g
        <5>1. evt'[g] = Append(evt[g], e)
          BY <3>2
        <5>2. CASE i = Len(evt[g]) + 1
          BY <2>3, <3>2, <4>2, <5>1, <5>2
        <5>3. CASE i \in 1 .. Len(evt[g])
          BY <2>1, <2>3, <4>2, <5>1, <5>3
        <5> QED
          BY <2>3, <4>2, <5>1, <5>2, <5>3
      <4> QED
        BY <4>1, <4>2
    <3>3. "ready" \in Event /\ "hung" \in Event
      OBVIOUS
    <3> QED
      BY <2>2, <3>1, <3>2, <3>3
  <2> QED
    BY <2>1, <2>4
<1>10. ASSUME NEW g \in Gen, DoShutdown(g)
       PROVE  ReadyInv'
  BY <1>10 DEF DoShutdown, Emit, Becomes
<1>11. ASSUME NEW g \in Gen, Fails(g)
       PROVE  ReadyInv'
  BY <1>11 DEF Fails, Becomes
<1>12. CASE Connect
  BY <1>12 DEF Connect, StartWorker, Send, Quiescent
<1>13. CASE Kill
  BY <1>13 DEF Kill, KillBegin
<1>14. CASE Shutdown
  BY <1>14 DEF Shutdown, Send
<1>15. CASE Woke
  BY <1>15 DEF Woke
<1>16. CASE WaitExpires
  BY <1>16 DEF WaitExpires, KillBegin
<1>17. CASE ConnectReturns
  BY <1>17 DEF ConnectReturns, KillBegin
<1>18. CASE Join
  BY <1>18 DEF Join
<1>19. CASE JoinEnds
  BY <1>19 DEF JoinEnds
<1>20. CASE ShutdownEnds
  BY <1>20 DEF ShutdownEnds, KillBegin
<1>21. CASE HeartbeatAges
  BY <1>21 DEF HeartbeatAges
<1>22. CASE UNCHANGED vars
  BY <1>22 DEF vars
<1> QED
  BY <1>1, <1>2, <1>3, <1>4, <1>5, <1>6, <1>7, <1>8, <1>9, <1>10, <1>11,
     <1>12, <1>13, <1>14, <1>15, <1>16, <1>17, <1>18, <1>19, <1>20, <1>21,
     <1>22, NextCases

-----------------------------------------------------------------------------

TypeInv == FlagsOK /\ PlaceOK /\ KillOK /\ Started /\ QueueOK

LEMMA TypeInit == Init => TypeInv
<1> SUFFICES ASSUME Init
             PROVE  TypeInv
  OBVIOUS
<1> USE BoundsAssumption
<1>1. FlagsOK
  BY DEF Init, FlagsOK
<1>2. PlaceOK
  BY DEF Init, PlaceOK, Gen, Thread, App, None, Live
<1>3. KillOK
  BY DEF Init, KillOK, Gen, Thread, App
<1>4. Started
  BY DEF Init, Started, Gen, None
<1>5. QueueOK
  BY DEF Init, QueueOK, Gen
<1> QED
  BY <1>1, <1>2, <1>3, <1>4, <1>5 DEF TypeInv

LEMMA TypeStep == TypeInv /\ [Next]_vars => TypeInv'
BY FlagsStep, PlaceStep, KillStepKeeps, StartedStep, QueueStep DEF TypeInv

LEMMA TypeAlways == Spec => []TypeInv
BY TypeInit, TypeStep, PTL DEF Spec

\* The types of all variables, and a thread in kill() stays until its end, for
\* any number of workers and whether or not the application is patient.
THEOREM TypeCorrect == Spec => []TypeOK
<1>1. TypeInv => TypeOK
  BY DEF TypeInv, FlagsOK, PlaceOK, KillOK, QueueOK, TypeOK
<1> QED
  BY <1>1, TypeAlways, PTL

LEMMA LastAlways == ASSUME Patient PROVE Spec => []LastInv
<1>1. Init => LastInv
  BY DEF Init, LastInv, Gen, Thread, Alive, Live
<1>2. TypeInv /\ LastInv /\ [Next]_vars => LastInv'
  BY LastStep DEF TypeInv
<1> QED
  BY <1>1, <1>2, TypeAlways, PTL DEF Spec

\* An application that lets the old threads end before it connects again finds
\* no worker process alive once kill, shutdown or a failed connect has returned
\* (isolated.py:145-216).
THEOREM NoWorkerSurvives == ASSUME Patient PROVE Spec => []NoWorkerLeft
<1>1. LastInv => NoWorkerLeft
  BY DEF LastInv, NoWorkerLeft
<1> QED
  BY <1>1, LastAlways, PTL

ReadInv == ReaderInv /\ ReadyInv

LEMMA ReadAlways == ASSUME Patient PROVE Spec => []ReadInv
<1>1. Init => ReadInv
  <2> SUFFICES ASSUME Init
               PROVE  ReadInv
    OBVIOUS
  <2>1. ReaderInv
    BY DEF Init, ReaderInv, Gen, None
  <2>2. \A g \in Gen : Len(evt[g]) = 0
    BY DEF Init
  <2>3. ReadyInv
    BY <2>2 DEF Init, ReadyInv
  <2> QED
    BY <2>1, <2>3 DEF ReadInv
<1>2. TypeInv /\ ReadInv /\ [Next]_vars => ReadInv'
  BY ReaderStep, ReadyStep DEF TypeInv, ReadInv
<1> QED
  BY <1>1, <1>2, TypeAlways, PTL DEF Spec

\* Under the same condition connect returns only when the worker it leaves in
\* _proc has sent "ready" (isolated.py:162-172, 255-282): no answer of an earlier worker,
\* and none of a worker that hung, is taken for it.
THEOREM ConnectTellsTheTruth == ASSUME Patient PROVE Spec => ConnectedMeansReady
<1> DEFINE A == ctl # "connected" /\ ctl' = "connected" => proc \in wasUp \cup {None}
<1>1. TypeInv /\ ReadInv /\ [Next]_vars => [A]_vars
  <2> SUFFICES ASSUME ReadInv, Next \/ UNCHANGED vars
               PROVE  A
    BY DEF vars
  <2> USE DEF parent, procs, threads
  <2>1. ASSUME NEW t \in Thread, KillProc(t)
        PROVE  A
    BY <2>1 DEF KillProc
  <2>2. ASSUME NEW t \in Thread, KillForget(t)
        PROVE  A
    BY <2>2 DEF KillForget
  <2>3. ASSUME NEW g \in Gen, ReaderTest(g)
        PROVE  A
    BY <2>3 DEF ReaderTest
  <2>4. ASSUME NEW g \in Gen, ReaderEmpty(g)
        PROVE  A
    BY <2>4 DEF ReaderEmpty
  <2>5. ASSUME NEW g \in Gen, ReaderTakes(g)
        PROVE  A
    BY <2>5 DEF ReaderTakes
  <2>6. ASSUME NEW g \in Gen, DogTest(g)
        PROVE  A
    BY <2>6 DEF DogTest
  <2>7. ASSUME NEW g \in Gen, DogWakes(g)
        PROVE  A
    BY <2>7 DEF DogWakes, KillBegin
  <2>8. ASSUME NEW g \in Gen, Beat(g)
        PROVE  A
    BY <2>8 DEF Beat, Emit
  <2>9. ASSUME NEW g \in Gen, DoConnect(g)
        PROVE  A
    BY <2>9 DEF DoConnect, Emit, Becomes
  <2>10. ASSUME NEW g \in Gen, DoShutdown(g)
         PROVE  A
    BY <2>10 DEF DoShutdown, Emit, Becomes
  <2>11. ASSUME NEW g \in Gen, Fails(g)
         PROVE  A
    BY <2>11 DEF Fails, Becomes
  <2>12. CASE Connect
    BY <2>12 DEF Connect, StartWorker, Send, Quiescent
  <2>13. CASE Kill
    BY <2>13 DEF Kill, KillBegin
  <2>14. CASE Shutdown
    BY <2>14 DEF Shutdown, Send
  <2>15. CASE Woke
    BY <2>15 DEF Woke
  <2>16. CASE WaitExpires
    BY <2>16 DEF WaitExpires, KillBegin
  <2>17. CASE ConnectReturns
    BY <2>17 DEF ConnectReturns, KillBegin, ReadInv, ReaderInv, ReadyInv
  <2>18. CASE Join
    BY <2>18 DEF Join
  <2>19. CASE JoinEnds
    BY <2>19 DEF JoinEnds
  <2>20. CASE ShutdownEnds
    BY <2>20 DEF ShutdownEnds, KillBegin
  <2>21. CASE HeartbeatAges
    BY <2>21 DEF HeartbeatAges
  <2>22. CASE UNCHANGED vars
    BY <2>22 DEF vars
  <2> QED
    BY <2>1, <2>2, <2>3, <2>4, <2>5, <2>6, <2>7, <2>8, <2>9, <2>10, <2>11,
       <2>12, <2>13, <2>14, <2>15, <2>16, <2>17, <2>18, <2>19, <2>20, <2>21,
       <2>22, NextCases
<1> QED
  BY <1>1, TypeAlways, ReadAlways, PTL DEF Spec, ConnectedMeansReady
=============================================================================
