--------------------------- MODULE SyncRead_proofs ---------------------------
(***************************************************************************)
(* What holds of get and get_many for any number of threads, variables and *)
(* calls, with a pump or without: the types, one registered box at most,   *)
(* and whose answer a call returns.                                        *)
(***************************************************************************)
EXTENDS SyncRead, TLAPS

\* What a caller's own steps leave alone.
CallerFrame == UNCHANGED <<readers, running, opened, boxes, dispatching>>

\* A step of Next, one case per action.
LEMMA NextCases ==
    ASSUME [Next]_vars
    PROVE \/ \E t \in Caller :
                \/ Get(t) \/ Acquire(t) \/ SawOpen(t) \/ OpenExpires(t)
                \/ Define(t) \/ Register(t) \/ Request(t) \/ Wakes(t)
                \/ Reads(t) \/ Expires(t) \/ Finally(t) \/ Clear(t)
          \/ \E t \in App \cup {Pump} :
                DispatchOpen(t) \/ TakeAnswer(t) \/ TakePush(t)
          \/ Fill \/ CallsBack \/ DispatchReturns \/ UNCHANGED vars
  BY Zenon DEF Next, CallStep, Dispatch, Handle

\* Initially.
LEMMA InitInv == Init => Inv
<1> SUFFICES ASSUME Init PROVE Inv
  OBVIOUS
<1> USE BoundAssumption, NoneAssumption, VarAssumption, ThreadAssumption
<1>1. FlagsOK
  BY Zenon DEF Init, FlagsOK
<1>2. DataOK
  BY DEF Init, DataOK, Holding, Caller
<1>3. CallInv
  BY DEF Init, CallInv, Call
<1>4. PendingInv
  BY DEF Init, PendingInv, Asking
<1>5. AnswerInv
  BY DEF Init, AnswerInv, Holds, Call
<1>6. BoxInv
  BY DEF Init, BoxInv, WokenHasValue
<1>7. OutcomeInv
  BY DEF Init, OutcomeInv
<1> QED
  BY <1>1, <1>2, <1>3, <1>4, <1>5, <1>6, <1>7 DEF Inv, TypeOK

\* The flags, and the events of the boxes, stay Boolean.
LEMMA NextFlagsOK == ASSUME FlagsOK, [Next]_vars PROVE FlagsOK'
<1>1. CASE Fill
  BY <1>1, Zenon DEF Fill, FlagsOK, boxes, calling
<1>2. CASE \E t \in App \cup {Pump} :
              DispatchOpen(t) \/ TakeAnswer(t) \/ TakePush(t)
  BY <1>2, Zenon DEF DispatchOpen, TakeAnswer, TakePush, Take, FlagsOK, boxes
<1>3. CASE CallsBack \/ DispatchReturns \/ UNCHANGED vars
  BY <1>3, Zenon DEF CallsBack, DispatchReturns, FlagsOK, boxes, vars
<1>4. ASSUME NEW t \in Caller,
             \/ Get(t) \/ Acquire(t) \/ SawOpen(t) \/ OpenExpires(t)
             \/ Define(t) \/ Register(t) \/ Request(t) \/ Wakes(t)
             \/ Reads(t) \/ Expires(t) \/ Finally(t) \/ Clear(t)
      PROVE  FlagsOK'
  <2>1. UNCHANGED <<readers, running, opened, event>>
    BY <1>4, Zenon DEF Get, Acquire, SawOpen, OpenExpires, Define, Register,
       Request, Wakes, Reads, Expires, Finally, Clear, boxes
  <2> QED
    BY <2>1, Zenon DEF FlagsOK
<1> QED
  BY <1>1, <1>2, <1>3, <1>4, NextCases, Zenon

\* The other variables keep their types, and the lock its holder.
LEMMA NextDataOK == 
    ASSUME DataOK, CallInv, AnswerInv, BoxInv, [Next]_vars PROVE DataOK'
<1> USE BoundAssumption, NoneAssumption, VarAssumption, ThreadAssumption
<1>1. ASSUME NEW t \in Caller, NEW id \in Id, Begin(t, id) PROVE
        /\ calls' \in 0 .. MaxCalls /\ idOf' \in [Call -> Id \cup {None}]
        /\ mine' \in [Caller -> Call \cup {None}]
        /\ pc' \in [Caller -> {"idle", "lock"} \cup Holding]
        /\ \A u \in Caller : pc'[u] \in Holding <=> getLock = u
  BY <1>1 DEF Begin, Goto, DataOK, Call, Id, Holding
<1>2. ASSUME NEW t \in Caller, Get(t) PROVE DataOK'
  <2>1. PICK id \in Var \cup {calls + 1} : Begin(t, id)
    BY <1>2 DEF Get
  <2>2. id \in Id
    BY <2>1 DEF Id, Begin, Call, DataOK
  <2> QED
    BY <1>2, <2>1, <2>2, <1>1 DEF Get, Begin, DataOK, boxes, dispatching
<1>3. ASSUME NEW t \in Caller, Acquire(t) \/ SawOpen(t) \/ OpenExpires(t)
      PROVE DataOK'
  BY <1>3 DEF Acquire, SawOpen, OpenExpires, Goto, Ends, Release, DataOK,
     CallInv, Holding, Loops, Caller, boxes, dispatching
<1>4. ASSUME NEW t \in Caller, Define(t) \/ Register(t) \/ Request(t)
      PROVE DataOK'
  BY <1>4 DEF Define, Register, Request, Goto, Ends, Release, DataOK, CallInv,
     Holding, Id, Caller, boxes, dispatching
<1>5. ASSUME NEW t \in Caller, Wakes(t) \/ Expires(t) PROVE DataOK'
  BY <1>5 DEF Wakes, Expires, Goto, Ends, DataOK, CallInv, Holding,
     Loops, boxes, dispatching
<1>11. ASSUME NEW t \in Caller, Reads(t) PROVE DataOK'
  <2> DEFINE b == pending[idOf[mine[t]]]
  <2>1. mine[t] \in Call /\ idOf[mine[t]] \in Id
    BY <1>11 DEF Reads, DataOK, CallInv, Call, Id
  <2>2. b \in Call \cup {None}
    BY <2>1 DEF DataOK
  <2>3. got' \in [Call -> 0 .. MaxCalls \cup {None}]
    BY <1>11, <2>1, <2>2 DEF Reads, DataOK
  <2> QED
    BY <1>11, <2>3 DEF Reads, Goto, Ends, DataOK, Holding, boxes, dispatching
<1>6. ASSUME NEW t \in Caller, Finally(t) \/ Clear(t) PROVE DataOK'
  BY <1>6 DEF Finally, Clear, Goto, Release, DataOK, CallInv, Holding,
     Id, Caller, boxes, dispatching
<1>7. ASSUME NEW t \in App \cup {Pump},
             DispatchOpen(t) \/ TakeAnswer(t) \/ TakePush(t)
      PROVE DataOK'
  <2>1. ASSUME NEW m \in 0 .. MaxCalls, NEW id \in Id, NEW w,
               w \subseteq Call, Take(t, m, id), wire' = w
        PROVE DataOK'
    BY <2>1 DEF Take, DataOK, calling, boxes
  <2>2. CASE TakeAnswer(t)
    <3>1. PICK m \in wire : Take(t, m, idOf[m]) /\ wire' = wire \ {m}
      BY <2>2 DEF TakeAnswer
    <3>2. m \in 0 .. MaxCalls /\ idOf[m] \in Id
      BY DEF DataOK, CallInv, AnswerInv, Call, Id
    <3>3. wire \ {m} \subseteq Call
      BY DEF DataOK
    <3> QED
      BY <3>1, <3>2, <3>3, <2>1
  <2>3. CASE TakePush(t)
    BY <2>3, <2>1 DEF TakePush, Push, Id, DataOK
  <2> QED
    BY <1>7, <2>2, <2>3 DEF DispatchOpen, DataOK, calling, boxes, dispatching
<1>8. CASE Fill
  BY <1>8 DEF Fill, DataOK, BoxInv, calling, boxes
<1>9. CASE CallsBack
  <2>1. PICK v \in Var : Begin(Callback, v)
    BY <1>9 DEF CallsBack
  <2> QED
    BY <1>9, <2>1, <1>1 DEF CallsBack, Begin, DataOK, Caller, Id, boxes
<1>10. CASE DispatchReturns \/ UNCHANGED vars
  BY <1>10 DEF DispatchReturns, DataOK, vars, calling, boxes, dispatching
<1> QED
  BY <1>2, <1>3, <1>4, <1>5, <1>6, <1>7, <1>8, <1>9, <1>10, <1>11,
     NextCases, Zenon

-----------------------------------------------------------------------------
(* Calls, and the box each registers.                                      *)

\* A new call is the last one, and belongs to one caller.
LEMMA BeginCallInv ==
    ASSUME DataOK, CallInv, NEW t \in Caller, NEW id \in Var \cup {calls + 1},
           Begin(t, id)
    PROVE CallInv'
<1> USE BoundAssumption, NoneAssumption, VarAssumption
<1>1. calls \in Nat /\ calls + 1 \in Call /\ calls' = calls + 1
  BY DEF Begin, DataOK, Call
<1>2. /\ mine' = [mine EXCEPT ![t] = calls + 1]
      /\ idOf' = [idOf EXCEPT ![calls + 1] = id]
      /\ pc' = [pc EXCEPT ![t] = "lock"] /\ outcome' = outcome
      /\ mine[t] = None
  BY DEF Begin, Goto, CallInv
<1>3. \A u \in Caller : pc'[u] = "idle" <=> mine'[u] = None
  BY <1>1, <1>2 DEF DataOK, CallInv, Call
<1>4. \A u \in Caller : mine'[u] # None => mine'[u] <= calls'
  BY <1>1, <1>2 DEF DataOK, CallInv, Call
<1>5. \A u, v \in Caller : mine'[u] = mine'[v] /\ mine'[u] # None => u = v
  BY <1>1, <1>2 DEF DataOK, CallInv, Call
<1>6. \A c \in Call : c <= calls' => idOf'[c] \in Var \cup {c}
  BY <1>1, <1>2 DEF DataOK, CallInv, Call
<1>7. \A u \in Caller : pc'[u] \in {"finally", "clear"} => outcome'[mine'[u]] # "none"
  BY <1>1, <1>2 DEF DataOK, CallInv
<1>8. ASSUME NEW c \in Call, c <= calls', outcome'[c] = "none"
      PROVE  \E u \in Caller : mine'[u] = c
  <2>1. CASE c = calls + 1
    BY <2>1, <1>2 DEF DataOK
  <2>2. CASE c <= calls
    <3>1. PICK u \in Caller : mine[u] = c
      BY <2>2, <1>8, <1>2 DEF CallInv
    <3>2. u # t
      BY <3>1, <1>2 DEF Call
    <3> QED
      BY <3>1, <3>2, <1>2 DEF DataOK
  <2> QED
    BY <2>1, <2>2, <1>1, <1>8 DEF Call
<1> QED
  BY <1>3, <1>4, <1>5, <1>6, <1>7, <1>8 DEF CallInv

LEMMA NextCallInv == ASSUME DataOK, CallInv, [Next]_vars PROVE CallInv'
<1> USE NoneAssumption, VarAssumption
<1>1. ASSUME NEW t \in Caller, Get(t) PROVE CallInv'
  BY <1>1, BeginCallInv DEF Get
<1>2. ASSUME NEW t \in Caller,
             \/ Acquire(t) \/ SawOpen(t) \/ Register(t) \/ Wakes(t)
      PROVE  CallInv'
  BY <1>2 DEF Acquire, SawOpen, Register, Wakes, Goto, Loops, DataOK, CallInv
<1>3. ASSUME NEW t \in Caller, OpenExpires(t) \/ Define(t) PROVE CallInv'
  BY <1>3 DEF OpenExpires, Define, Goto, Ends, Release, Loops, DataOK, CallInv
<1>4. ASSUME NEW t \in Caller, Request(t) \/ Reads(t) \/ Expires(t)
      PROVE  CallInv'
  BY <1>4 DEF Request, Reads, Expires, Goto, Ends, Loops, DataOK, CallInv
<1>5. ASSUME NEW t \in Caller, Finally(t) \/ Clear(t) PROVE CallInv'
  BY <1>5 DEF Finally, Clear, Goto, Release, DataOK, CallInv
<1>6. CASE CallsBack
  BY <1>6, BeginCallInv DEF CallsBack, Caller
<1>7. CASE \/ \E t \in App \cup {Pump} :
                 DispatchOpen(t) \/ TakeAnswer(t) \/ TakePush(t)
           \/ Fill \/ DispatchReturns \/ UNCHANGED vars
  <2>1. UNCHANGED <<calls, idOf, outcome, pc, mine>>
    BY <1>7, Zenon DEF DispatchOpen, TakeAnswer, TakePush, Take, Fill,
       DispatchReturns, vars, calling
  <2> QED
    BY <2>1 DEF CallInv
<1> QED
  BY <1>1, <1>2, <1>3, <1>4, <1>5, <1>6, <1>7, NextCases, Zenon

LEMMA NextPendingInv ==
    ASSUME DataOK, CallInv, PendingInv, [Next]_vars PROVE PendingInv'
<1> USE NoneAssumption, VarAssumption
<1>1. ASSUME NEW t \in Caller, NEW id, Begin(t, id) PROVE PendingInv'
  BY <1>1 DEF Begin, Goto, DataOK, CallInv, PendingInv, Asking, Holding, Call
<1>2. ASSUME NEW t \in Caller,
             \/ Acquire(t) \/ SawOpen(t) \/ OpenExpires(t) \/ Define(t)
      PROVE  PendingInv'
  BY <1>2 DEF Acquire, SawOpen, OpenExpires, Define, Goto, Release, Loops,
     DataOK, CallInv, PendingInv, Asking, Holding
<1>3. ASSUME NEW t \in Caller, Register(t) PROVE PendingInv'
  <2>1. getLock = t /\ pc[t] = "register"
    BY <1>3 DEF Register, DataOK, Holding
  <2>2. \A i \in Id : pending[i] = None
    BY <2>1 DEF PendingInv, Asking
  <2>3. mine[t] \in Call /\ idOf[mine[t]] \in Id
    BY <2>1 DEF DataOK, CallInv, Id, Call
  <2>4. /\ pending' = [pending EXCEPT ![idOf[mine[t]]] = mine[t]]
        /\ pc' = [pc EXCEPT ![t] = "request"]
        /\ UNCHANGED <<getLock, idOf, mine>>
    BY <1>3 DEF Register, Goto
  <2>5. \A u \in Caller : pc[u] \in Asking => u = t
    BY <2>1 DEF DataOK, Asking, Holding
  <2>6. \A u \in Caller : pc'[u] \in Asking => u = t
    BY <2>4, <2>5 DEF DataOK
  <2>7. pending'[idOf[mine[t]]] = mine[t] /\ pc'[t] \in Asking
    BY <2>3, <2>4 DEF DataOK, Asking
  <2>8. \A i \in Id : i # idOf[mine[t]] => pending'[i] = None
    BY <2>2, <2>4 DEF DataOK
  <2>9. idOf[mine[t]] \in Id /\ mine'[t] = mine[t] /\ getLock' = t
    BY <2>1, <2>3, <2>4
  <2>10. ASSUME NEW i \in Id, pending'[i] # None PROVE i = idOf'[mine'[t]]
    BY <2>4, <2>8, <2>10
  <2>11. t # None
    BY DEF Caller
  <2> QED
    BY <2>4, <2>6, <2>7, <2>9, <2>10, <2>11 DEF PendingInv
<1>4. ASSUME NEW t \in Caller,
             Request(t) \/ Wakes(t) \/ Reads(t) \/ Expires(t)
      PROVE  PendingInv'
  BY <1>4 DEF Request, Wakes, Reads, Expires, Goto, Loops, DataOK, CallInv,
     PendingInv, Asking, Holding
<1>5. ASSUME NEW t \in Caller, Finally(t) \/ Clear(t) PROVE PendingInv'
  BY <1>5 DEF Finally, Clear, Goto, Release, DataOK, CallInv, PendingInv,
     Asking, Holding, Id, Call
<1>6. CASE \/ \E t \in App \cup {Pump} :
                 DispatchOpen(t) \/ TakeAnswer(t) \/ TakePush(t)
           \/ Fill \/ DispatchReturns \/ UNCHANGED vars
  <2>1. UNCHANGED <<getLock, pending, idOf, pc, mine>>
    BY <1>6, Zenon DEF DispatchOpen, TakeAnswer, TakePush, Take, Fill,
       DispatchReturns, vars, calling
  <2> QED
    BY <2>1 DEF PendingInv
<1> QED
  BY <1>1, <1>2, <1>3, <1>4, <1>5, <1>6, NextCases, Zenon
     DEF Get, CallsBack, Caller

-----------------------------------------------------------------------------
(* Answers: where each is, and which call it reaches.                      *)

\* A step after which no answer is in a new place, no call that has asked is
\* at an earlier place, and no dispatcher is filling anew.
LEMMA AnswersStay ==
    ASSUME DataOK, AnswerInv, wire' \subseteq wire, msg' \in {msg, None},
           calls <= calls', calls' \in Nat,
           \A c \in Call : got'[c] \in {got[c], value[c]},
           value' = value, step' = "fill" => step = "fill" \/ msg' = None,
           \A m \in Call : m <= calls =>
              ((\A t \in Caller : mine[t] = m => pc[t] \in Asked)
               => (\A t \in Caller : mine'[t] = m => pc'[t] \in Asked))
    PROVE AnswerInv'
<1> USE NoneAssumption
<1>1. \A m \in Call, c \in Call : Holds(c, m)' => Holds(c, m)
  BY DEF Holds
<1>2. \A m \in Call : msg' = m => msg = m
  BY DEF Call
<1>3. ASSUME NEW m \in Call,
             m \in wire' \/ msg' = m \/ \E c \in Call : Holds(c, m)'
      PROVE  m <= calls' /\ \A t \in Caller : mine'[t] = m => pc'[t] \in Asked
  <2>1. m \in wire \/ msg = m \/ \E c \in Call : Holds(c, m)
    BY <1>1, <1>2, <1>3
  <2>2. m <= calls /\ \A t \in Caller : mine[t] = m => pc[t] \in Asked
    BY <2>1 DEF AnswerInv
  <2> QED
    BY <2>2 DEF DataOK, Call
<1>4. \A m \in wire' : msg' # m
  BY <1>2 DEF AnswerInv, DataOK
<1>5. \A m \in Call, c \in Call :
         Holds(c, m)' => m \notin wire' /\ (step' = "fill" => msg' # m)
  BY <1>1, <1>2 DEF AnswerInv, Call
<1>6. \A m \in Call, c \in Call, d \in Call :
         Holds(c, m)' /\ Holds(d, m)' => c = d
  BY <1>1 DEF AnswerInv
<1> QED
  BY <1>3, <1>4, <1>5, <1>6 DEF AnswerInv

LEMMA NextAnswerInv ==
    ASSUME DataOK, CallInv, PendingInv, AnswerInv, BoxInv, [Next]_vars
    PROVE  AnswerInv'
<1> USE BoundAssumption, NoneAssumption, VarAssumption
<1>1. ASSUME NEW t \in Caller, NEW id, Begin(t, id), value' = value,
             wire' = wire, msg' = msg, step' \in {step, "inside"}
      PROVE  AnswerInv'
  <2>1. /\ calls \in Nat /\ calls' = calls + 1 /\ got' = got
        /\ mine' = [mine EXCEPT ![t] = calls + 1]
        /\ pc' = [pc EXCEPT ![t] = "lock"]
    BY <1>1 DEF Begin, Goto, DataOK
  <2>2. ASSUME NEW m \in Call, m <= calls, NEW u \in Caller, mine'[u] = m,
               \A v \in Caller : mine[v] = m => pc[v] \in Asked
        PROVE  pc'[u] \in Asked
    BY <2>1, <2>2 DEF DataOK, Call
  <2> QED
    BY <1>1, <2>1, <2>2, AnswersStay
<1>2. ASSUME NEW t \in Caller,
             \/ Acquire(t) \/ SawOpen(t) \/ OpenExpires(t) \/ Define(t)
             \/ Register(t) \/ Wakes(t) \/ Expires(t) \/ Finally(t) \/ Clear(t)
      PROVE  AnswerInv'
  <2>1. UNCHANGED <<wire, msg, step, value, got, calls>>
    BY <1>2, Zenon DEF Acquire, SawOpen, OpenExpires, Define, Register, Wakes,
       Expires, Finally, Clear, boxes, dispatching
  <2>2. \A u \in Caller : u # t => pc'[u] = pc[u] /\ mine'[u] = mine[u]
    BY <1>2 DEF Acquire, SawOpen, OpenExpires, Define, Register, Wakes,
       Expires, Finally, Clear, Goto, Release, DataOK
  <2>3. \/ mine'[t] = None
        \/ mine'[t] = mine[t] /\ (pc[t] \in Asked => pc'[t] \in Asked)
    <3>1. CASE OpenExpires(t) \/ Define(t) \/ Finally(t) \/ Clear(t)
      BY <3>1 DEF OpenExpires, Define, Finally, Clear, Goto, Release, DataOK,
         Asked, Loops
    <3>2. CASE Acquire(t) \/ SawOpen(t) \/ Register(t)
      BY <3>2 DEF Acquire, SawOpen, Register, Goto, Asked, Loops
    <3>3. CASE Wakes(t) \/ Expires(t)
      BY <3>3 DEF Wakes, Expires, Goto, DataOK, Asked
    <3> QED
      BY <1>2, <3>1, <3>2, <3>3
  <2>4. calls \in Nat /\ None \notin Call
    BY DEF DataOK, Call
  <2> QED
    BY <2>1, <2>2, <2>3, <2>4, AnswersStay
<1>3. ASSUME NEW t \in Caller, Reads(t) PROVE AnswerInv'
  <2>1. UNCHANGED <<wire, msg, step, value, calls, mine>> /\ calls \in Nat
    BY <1>3 DEF Reads, boxes, dispatching, DataOK
  <2>2. pending[idOf[mine[t]]] = mine[t] /\ pc[t] \in Asked
    BY <1>3 DEF Reads, PendingInv, Asking, Asked
  <2>3. \A c \in Call : got'[c] \in {got[c], value[c]}
    BY <1>3, <2>2 DEF Reads, DataOK
  <2>4. \A u \in Caller : pc[u] \in Asked => pc'[u] \in Asked
    BY <1>3 DEF Reads, Goto, DataOK, Asked
  <2> QED
    BY <2>1, <2>3, <2>4, AnswersStay
<1>4. ASSUME NEW t \in Caller, Request(t) PROVE AnswerInv'
  <2>1. /\ UNCHANGED <<msg, step, value, got, calls, mine>> /\ calls \in Nat
        /\ pc[t] = "request" /\ wire' \in {wire, wire \cup {mine[t]}}
        /\ pc' \in {[pc EXCEPT ![t] = "wait"], [pc EXCEPT ![t] = "finally"]}
    BY <1>4 DEF Request, Goto, boxes, dispatching, DataOK
  <2>2. mine[t] \in Call /\ mine[t] <= calls
    BY <2>1 DEF DataOK, CallInv
  <2>3. /\ mine[t] \notin wire /\ msg # mine[t]
        /\ \A c \in Call : ~Holds(c, mine[t])
    BY <2>1, <2>2 DEF AnswerInv, Asked
  <2>4. \A u \in Caller : pc[u] \in Asked \/ u = t => pc'[u] \in Asked
    BY <2>1 DEF DataOK, Asked
  <2>5. \A u \in Caller : mine[u] = mine[t] => u = t
    BY <2>2 DEF CallInv, Call
  <2>6. \A m \in Call, c \in Call : Holds(c, m)' <=> Holds(c, m)
    BY <2>1 DEF Holds
  <2>7. \A m \in Call :
           m \in wire' \/ msg' = m \/ (\E c \in Call : Holds(c, m)') =>
              m <= calls' /\ \A u \in Caller : mine'[u] = m => pc'[u] \in Asked
    BY <2>1, <2>2, <2>4, <2>5, <2>6 DEF AnswerInv
  <2>8. \A m \in wire' : msg' # m
    BY <2>1, <2>3 DEF AnswerInv
  <2>9. \A m \in Call, c \in Call :
           Holds(c, m)' => m \notin wire' /\ (step' = "fill" => msg' # m)
    BY <2>1, <2>3, <2>6 DEF AnswerInv
  <2> QED
    BY <2>6, <2>7, <2>8, <2>9 DEF AnswerInv
<1>5. ASSUME NEW t \in App \cup {Pump}, DispatchOpen(t) \/ TakePush(t)
      PROVE  AnswerInv'
  <2>1. /\ UNCHANGED <<wire, value, got, calls, mine, pc>>
        /\ msg' = Push \/ (msg' = msg /\ step' = step)
    <3>1. CASE DispatchOpen(t)
      BY <3>1, Zenon DEF DispatchOpen, calling, boxes, dispatching
    <3>2. CASE TakePush(t)
      BY <3>2, Zenon DEF TakePush, Take, calling, boxes
    <3> QED
      BY <1>5, <3>1, <3>2
  <2>2. Push \notin Call
    BY DEF Push, Call
  <2>3. \A m \in Call, c \in Call : Holds(c, m)' <=> Holds(c, m)
    BY <2>1 DEF Holds
  <2> QED
    BY <2>1, <2>2, <2>3 DEF AnswerInv, DataOK
<1>6. ASSUME NEW t \in App \cup {Pump}, TakeAnswer(t) PROVE AnswerInv'
  <2>1. PICK m \in wire : msg' = m /\ wire' = wire \ {m}
    BY <1>6 DEF TakeAnswer, Take
  <2>2. UNCHANGED <<value, got, calls, mine, pc>> /\ m \in Call
    BY <1>6, <2>1 DEF TakeAnswer, Take, calling, boxes, DataOK
  <2>3. \A n \in Call, c \in Call : Holds(c, n)' <=> Holds(c, n)
    BY <2>2 DEF Holds
  <2> QED
    BY <2>1, <2>2, <2>3 DEF AnswerInv
<1>7. CASE Fill
  <2>1. CASE value' = value
    BY <1>7, <2>1, AnswersStay DEF Fill, calling, DataOK
  <2>2. CASE value' # value
    <3>1. /\ value' = [value EXCEPT ![box] = msg] /\ step = "fill"
          /\ step' = "set" /\ box \in Call
          /\ UNCHANGED <<wire, msg, got, calls, mine, pc>>
      BY <1>7, <2>2 DEF Fill, boxes, calling, BoxInv, DataOK
    <3>2. \A m \in Call, c \in Call :
             Holds(c, m)' => Holds(c, m) \/ (c = box /\ m = msg)
      BY <3>1 DEF Holds, DataOK
    <3>3. \A m \in Call, c \in Call : m = msg => ~Holds(c, m) /\ m \notin wire
      BY <3>1 DEF AnswerInv
    <3> QED
      BY <3>1, <3>2, <3>3 DEF AnswerInv
  <2> QED
    BY <2>1, <2>2
<1>8. CASE DispatchReturns \/ UNCHANGED vars
  <2>1. /\ UNCHANGED <<wire, value, got, calls, mine, pc>>
        /\ msg' \in {msg, None} /\ (step' = "fill" => step = "fill")
    BY <1>8, Zenon DEF DispatchReturns, vars, calling, boxes, dispatching
  <2> QED
    BY <2>1, AnswersStay DEF DataOK
<1>9. CASE CallsBack
  BY <1>9, <1>1 DEF CallsBack, Caller, boxes
<1>10. ASSUME NEW t \in Caller, Get(t) PROVE AnswerInv'
  BY <1>10, <1>1 DEF Get, boxes, dispatching
<1> QED
  BY <1>2, <1>3, <1>4, <1>5, <1>6, <1>7, <1>8, <1>9, <1>10, NextCases, Zenon

-----------------------------------------------------------------------------
(* Boxes: what they are filled with.                                       *)

\* What fits a call still fits it as long as no id changes and no outcome is
\* taken back.
LEMMA FitsStays ==
    ASSUME calls \in Nat, calls <= calls', calls' \in Nat,
           \A c \in Call : c <= calls => idOf'[c] = idOf[c],
           \A c \in Call : outcome[c] # "none" => outcome'[c] # "none",
           NEW c \in Call, NEW m, m \in Call => m <= calls, Fits(c, m)
    PROVE  Fits(c, m)'
  BY DEF Fits, Call

\* Every message a box or a call has is of a call made before, or a push.
LEMMA KnownMessages ==
    ASSUME AnswerInv
    PROVE  /\ msg \in Call => msg <= calls
           /\ \A c \in Call : value[c] \in Call => value[c] <= calls
           /\ \A c \in Call : got[c] \in Call => got[c] <= calls
  BY DEF AnswerInv, Holds

\* Calls go on, and no message moves.
LEMMA BoxesStay ==
    ASSUME DataOK, AnswerInv, BoxInv, calls <= calls', calls' \in Nat,
           \A c \in Call : c <= calls => idOf'[c] = idOf[c],
           \A c \in Call : outcome[c] # "none" => outcome'[c] # "none",
           \A c \in Call : got'[c] \in {got[c], value[c]},
           UNCHANGED <<value, event, msg, box>>, step' \in {step, "inside"}
    PROVE  BoxInv'
<1> USE NoneAssumption
<1>1. \A c \in Call : \A m : (m \in Call => m <= calls) /\ Fits(c, m) => Fits(c, m)'
  BY FitsStays DEF DataOK
<1>2. box # None => Fits(box, msg)'
  BY <1>1, KnownMessages DEF BoxInv, DataOK
<1>3. \A c \in Call : value[c] # None => Fits(c, value[c])'
  BY <1>1, KnownMessages DEF BoxInv
<1>4. ASSUME NEW c \in Call, got'[c] # None PROVE Fits(c, got[c])'
  <2>1. CASE got'[c] = got[c]
    BY <2>1, <1>1, <1>4, KnownMessages DEF BoxInv
  <2>2. CASE got'[c] = value[c]
    <3>1. Fits(c, value[c])'
      BY <2>2, <1>3, <1>4
    <3> QED
      BY <2>2, <3>1 DEF Fits
  <2> QED
    BY <2>1, <2>2
<1> QED
  BY <1>2, <1>3, <1>4 DEF BoxInv, WokenHasValue

LEMMA NextBoxInv ==
    ASSUME DataOK, CallInv, PendingInv, AnswerInv, BoxInv, [Next]_vars
    PROVE  BoxInv'
<1> USE BoundAssumption, NoneAssumption, VarAssumption
<1> calls \in Nat
  BY DEF DataOK
<1>1. ASSUME NEW t \in Caller, NEW id, Begin(t, id),
             UNCHANGED <<boxes, msg, box>>, step' \in {step, "inside"}
      PROVE  BoxInv'
  <2>1. /\ calls' = calls + 1 /\ got' = got /\ outcome' = outcome
        /\ idOf' = [idOf EXCEPT ![calls + 1] = id]
    BY <1>1 DEF Begin
  <2>2. \A c \in Call : c <= calls => idOf'[c] = idOf[c]
    BY <2>1 DEF DataOK, Call
  <2> QED
    BY <1>1, <2>1, <2>2, BoxesStay DEF boxes
<1>2. ASSUME NEW t \in Caller,
             \/ Acquire(t) \/ SawOpen(t) \/ OpenExpires(t) \/ Define(t)
             \/ Register(t) \/ Request(t) \/ Wakes(t) \/ Expires(t)
             \/ Finally(t) \/ Clear(t)
      PROVE  BoxInv'
  <2>1. UNCHANGED <<value, event, msg, box, step, got, calls, idOf>>
    BY <1>2, Zenon DEF Acquire, SawOpen, OpenExpires, Define, Register, Request,
       Wakes, Expires, Finally, Clear, boxes, dispatching
  <2>2. outcome' = outcome \/ outcome' = [outcome EXCEPT ![mine[t]] = "failed"]
    BY <1>2, Zenon DEF Acquire, SawOpen, OpenExpires, Define, Register, Request,
       Wakes, Expires, Finally, Clear, Ends
  <2>3. \A c \in Call : outcome[c] # "none" => outcome'[c] # "none"
    BY <2>2 DEF DataOK
  <2> QED
    BY <2>1, <2>3, BoxesStay
<1>3. ASSUME NEW t \in Caller, Reads(t) PROVE BoxInv'
  <2>1. UNCHANGED <<value, event, msg, box, step, calls, idOf>>
    BY <1>3, Zenon DEF Reads, boxes, dispatching
  <2>2. pending[idOf[mine[t]]] = mine[t]
    BY <1>3 DEF Reads, PendingInv, Asking
  <2>3. \A c \in Call : got'[c] \in {got[c], value[c]}
    BY <1>3, <2>2 DEF Reads, DataOK
  <2>4. \A c \in Call : outcome[c] # "none" => outcome'[c] # "none"
    BY <1>3 DEF Reads, Ends, DataOK
  <2> QED
    BY <2>1, <2>3, <2>4, BoxesStay
<1>4. ASSUME NEW t \in App \cup {Pump}, DispatchOpen(t) PROVE BoxInv'
  <2>1. UNCHANGED <<value, event, msg, box, step, got, calls, idOf, outcome>>
    BY <1>4, Zenon DEF DispatchOpen, calling, boxes, dispatching
  <2> QED
    BY <2>1, BoxesStay
<1>5. ASSUME NEW t \in App \cup {Pump}, NEW m, NEW id \in Id, Take(t, m, id),
             m # None, \A c \in Call : pending[id] = c => Fits(c, m)
      PROVE  BoxInv'
  <2>1. /\ UNCHANGED <<value, event, got, calls, idOf, outcome>>
        /\ msg' = m /\ box' = pending[id] /\ step' # "set"
        /\ step' = "fill" => pending[id] # None
    BY <1>5 DEF Take, calling, boxes
  <2>2. \A c \in Call : \A n : Fits(c, n) => Fits(c, n)'
    BY <2>1 DEF Fits
  <2>3. box' # None => Fits(box, msg)'
    <3>1. pending[id] \in Call \cup {None}
      BY DEF DataOK
    <3> QED
      BY <3>1, <1>5, <2>1 DEF Fits
  <2>4. ASSUME NEW c \in Call PROVE
           /\ value'[c] # None => Fits(c, value[c])'
           /\ got'[c] # None => Fits(c, got[c])'
    BY <2>1 DEF BoxInv, Fits
  <2> QED
    BY <1>5, <2>1, <2>3, <2>4 DEF BoxInv, WokenHasValue
<1>6. ASSUME NEW t \in App \cup {Pump}, TakePush(t) PROVE BoxInv'
  <2>1. PICK v \in Subscribed : Take(t, Push, v)
    BY <1>6 DEF TakePush
  <2>2. \A c \in Call : pending[v] = c => Fits(c, Push)
    BY DEF PendingInv, DataOK, CallInv, Fits, Id, Call
  <2> QED
    BY <2>1, <2>2, <1>5 DEF Id, Push
<1>7. ASSUME NEW t \in App \cup {Pump}, TakeAnswer(t) PROVE BoxInv'
  <2>1. PICK m \in wire : Take(t, m, idOf[m])
    BY <1>7 DEF TakeAnswer
  <2>2. /\ m \in Call /\ m <= calls /\ idOf[m] \in Id
        /\ \A u \in Caller : mine[u] = m => pc[u] \in Asked
    BY DEF DataOK, AnswerInv, CallInv, Id
  <2>3. ASSUME NEW c \in Call, pending[idOf[m]] = c PROVE Fits(c, m)
    <3>1. /\ getLock \in Caller /\ mine[getLock] = c /\ idOf[c] = idOf[m]
          /\ c <= calls
      BY <2>2, <2>3 DEF PendingInv, DataOK, CallInv, Call
    <3>2. ASSUME m # c PROVE outcome[m] # "none"
      <4>1. \A u \in Caller : pc[u] \in Asked => u = getLock
        BY DEF DataOK, Asked, Holding
      <4>2. \A u \in Caller : mine[u] # m
        BY <2>2, <3>1, <3>2, <4>1
      <4> QED
        BY <2>2, <4>2 DEF CallInv
    <3> QED
      BY <2>2, <3>1, <3>2 DEF Fits
  <2> QED
    BY <2>1, <2>2, <2>3, <1>5 DEF Call
<1>8. CASE Fill
  <2>1. /\ UNCHANGED <<msg, box, got, calls, idOf, outcome>>
        /\ box \in Call /\ msg # None
    BY <1>8 DEF Fill, calling, BoxInv, DataOK
  <2>2. /\ value' = value \/ (value' = [value EXCEPT ![box] = msg])
        /\ step' = "set" => value'[box] = msg
        /\ step' # "fill"
    BY <1>8, <2>1 DEF Fill, boxes, DataOK
  <2>3. \A c \in Call : event'[c] => value'[c] # None
    <3>1. CASE event' = event
      BY <3>1, <2>1, <2>2 DEF BoxInv, WokenHasValue, DataOK
    <3>2. CASE event' = [event EXCEPT ![box] = TRUE] /\ step = "set"
               /\ value' = value
      BY <3>2, <2>1 DEF BoxInv, WokenHasValue
    <3> QED
      BY <1>8, <3>1, <3>2, Zenon DEF Fill, boxes
  <2>4. \A c \in Call : \A n : Fits(c, n) => (calls' = calls /\ Fits(c, n)')
    BY <2>1 DEF Fits
  <2>5. box # None /\ Fits(box, msg)
    BY <2>1 DEF BoxInv, Call
  <2>6. Fits(box, msg)'
    BY <2>1, <2>5 DEF Fits
  <2>7. ASSUME NEW c \in Call PROVE value'[c] # None => Fits(c, value[c])'
    <3>1. CASE value'[c] = value[c]
      BY <2>1, <3>1 DEF BoxInv, Fits
    <3>2. CASE c = box /\ value'[c] = msg
      BY <2>1, <2>5, <3>2 DEF Fits
    <3> QED
      BY <2>2, <3>1, <3>2 DEF DataOK
  <2>8. ASSUME NEW c \in Call PROVE got'[c] # None => Fits(c, got[c])'
    BY <2>1 DEF BoxInv, Fits
  <2>9. step' \in {"fill", "set"} => box' # None /\ msg' # None
    BY <2>1, <2>5
  <2>10. step' = "set" => value'[box'] # None
    BY <2>1, <2>2
  <2> QED
    BY <2>3, <2>6, <2>7, <2>8, <2>9, <2>10 DEF BoxInv, WokenHasValue
<1>9. CASE DispatchReturns \/ UNCHANGED vars
  <2>1. CASE UNCHANGED vars
    <3>1. UNCHANGED <<value, event, msg, box, step, got, calls, idOf, outcome>>
      BY <2>1, Zenon DEF vars, calling, boxes, dispatching
    <3> QED
      BY <3>1, BoxesStay
  <2>2. CASE DispatchReturns
    <3>1. /\ UNCHANGED <<value, event, got, calls, idOf, outcome>>
          /\ step' = "none" /\ box' = None
      BY <2>2, Zenon DEF DispatchReturns, calling, boxes
    <3>2. ASSUME NEW c \in Call PROVE
             /\ value'[c] # None => Fits(c, value[c])'
             /\ got'[c] # None => Fits(c, got[c])'
      BY <3>1 DEF BoxInv, Fits
    <3> QED
      BY <3>1, <3>2 DEF BoxInv, WokenHasValue
  <2> QED
    BY <1>9, <2>1, <2>2
<1>10. CASE CallsBack
  BY <1>10, <1>1 DEF CallsBack, Caller
<1>11. ASSUME NEW t \in Caller, Get(t) PROVE BoxInv'
  BY <1>11, <1>1 DEF Get, dispatching
<1> QED
  BY <1>2, <1>3, <1>4, <1>6, <1>7, <1>8, <1>9, <1>10, <1>11, NextCases, Zenon

-----------------------------------------------------------------------------
(* Outcomes: set once, at the end of each call.                            *)

LEMMA NextOutcomeInv ==
    ASSUME DataOK, CallInv, PendingInv, BoxInv, OutcomeInv, [Next]_vars
    PROVE  OutcomeInv'
<1> USE BoundAssumption, NoneAssumption
<1> calls \in Nat
  BY DEF DataOK
<1>1. ASSUME NEW t \in Caller, NEW id, Begin(t, id) PROVE OutcomeInv'
  <2>1. /\ calls' = calls + 1 /\ calls + 1 \in Call
        /\ mine' = [mine EXCEPT ![t] = calls + 1]
        /\ pc' = [pc EXCEPT ![t] = "lock"]
        /\ UNCHANGED <<outcome, got>>
    BY <1>1 DEF Begin, Goto, DataOK, Call
  <2>2. outcome[calls + 1] = "none"
    BY <2>1 DEF OutcomeInv
  <2>3. \A c \in Call : outcome'[c] # "none" => c <= calls'
    BY <2>1 DEF OutcomeInv, Call
  <2>4. ASSUME NEW u \in Caller, mine'[u] # None,
               pc'[u] \notin {"finally", "clear"}
        PROVE  outcome'[mine'[u]] = "none"
    BY <2>1, <2>2, <2>4 DEF OutcomeInv, DataOK
  <2> QED
    BY <2>1, <2>3, <2>4 DEF OutcomeInv
<1>2. ASSUME NEW t \in Caller,
             \/ Acquire(t) \/ SawOpen(t) \/ Register(t) \/ Wakes(t)
             \/ Finally(t) \/ Clear(t)
      PROVE  OutcomeInv'
  BY <1>2 DEF Acquire, SawOpen, Register, Wakes, Finally, Clear, Goto, Release,
     Loops, DataOK, OutcomeInv
<1>3. ASSUME NEW t \in Caller,
             OpenExpires(t) \/ Define(t) \/ Request(t) \/ Expires(t)
      PROVE  OutcomeInv'
  BY <1>3 DEF OpenExpires, Define, Request, Expires, Ends, Goto, Release,
     Loops, DataOK, CallInv, OutcomeInv
<1>4. ASSUME NEW t \in Caller, Reads(t) PROVE OutcomeInv'
  <2>1. /\ mine[t] \in Call /\ mine[t] <= calls
        /\ pc' = [pc EXCEPT ![t] = "finally"] /\ UNCHANGED <<mine, calls>>
        /\ \/ /\ outcome' = [outcome EXCEPT ![mine[t]] = "failed"]
              /\ got' = got
           \/ /\ outcome' = [outcome EXCEPT ![mine[t]] = "value"]
              /\ \A c \in Call \ {mine[t]} : got'[c] = got[c]
    BY <1>4 DEF Reads, Ends, Goto, DataOK, CallInv
  <2>2. outcome[mine[t]] = "none"
    BY <1>4, <2>1 DEF Reads, OutcomeInv, Call
  <2>3. \A u \in Caller : mine[u] = mine[t] => u = t
    BY <2>1 DEF CallInv, Call
  <2> QED
    BY <2>1, <2>2, <2>3 DEF DataOK, OutcomeInv
<1>5. CASE \/ \E t \in App \cup {Pump} :
                 DispatchOpen(t) \/ TakeAnswer(t) \/ TakePush(t)
           \/ Fill \/ DispatchReturns \/ UNCHANGED vars
  <2>1. UNCHANGED <<calls, outcome, got, pc, mine>>
    BY <1>5, Zenon DEF DispatchOpen, TakeAnswer, TakePush, Take, Fill,
       DispatchReturns, vars, calling
  <2> QED
    BY <2>1 DEF OutcomeInv
<1> QED
  BY <1>1, <1>2, <1>3, <1>4, <1>5, NextCases, Zenon DEF Get, CallsBack, Caller

-----------------------------------------------------------------------------
(* The theorems.                                                           *)

\* The inductive invariant of get and get_many, for any number of threads,
\* variables and calls, wherever callbacks read.
THEOREM Invariance == Spec => []Inv
<1>1. ASSUME Inv, [Next]_vars PROVE Inv'
  BY <1>1, NextFlagsOK, NextDataOK, NextCallInv, NextPendingInv, NextAnswerInv,
     NextBoxInv, NextOutcomeInv DEF Inv, TypeOK
<1> QED
  BY <1>1, InitInv, PTL DEF Spec

\* Every variable keeps its type, and _get_lock its one holder.
THEOREM TypeCorrect == Spec => []TypeOK
<1>1. Inv => TypeOK
  BY DEF Inv
<1> QED
  BY <1>1, Invariance, PTL

\* No box stays registered when its call is over, and none is replaced.
THEOREM OneBoxRegistered == Spec => []PendingIsHolders
<1>1. Inv => PendingIsHolders
  BY DEF Inv, PendingInv, PendingIsHolders
<1> QED
  BY <1>1, Invariance, PTL

\* Whose answer a call of get or get_many returns.
THEOREM AnswersAreOwn == Spec => []AnswerIsOwn
<1> USE BoundAssumption, NoneAssumption, VarAssumption
<1>1. ASSUME Inv, NEW c \in Call, got[c] \notin {None, c}, got[c] # Push
      PROVE  /\ idOf[got[c]] = idOf[c] /\ idOf[c] \in Var
             /\ outcome[got[c]] # "none"
             /\ \A d \in Call \ {c} : got[d] # got[c]
  <2>1. /\ got[c] \in Call /\ idOf[got[c]] = idOf[c]
        /\ outcome[got[c]] # "none" /\ c <= calls
    BY <1>1 DEF Inv, BoxInv, Fits
  <2>2. got[c] <= calls
    BY <1>1, <2>1, KnownMessages DEF Inv
  <2>3. idOf[c] \in Var \cup {c} /\ idOf[got[c]] \in Var \cup {got[c]}
    BY <1>1, <2>1, <2>2 DEF Inv, CallInv
  <2>4. idOf[c] \in Var
    BY <1>1, <2>1, <2>3 DEF Call
  <2>5. \A d \in Call \ {c} : got[d] # got[c]
    BY <1>1, <2>1 DEF Inv, AnswerInv, Holds
  <2> QED
    BY <2>1, <2>4, <2>5
<1>2. ASSUME Inv, NEW c \in Call, got[c] = Push
      PROVE  idOf[c] \in Subscribed
  BY <1>2 DEF Inv, BoxInv, Fits, Push, Call
<1>3. Inv => AnswerIsOwn
  BY <1>1, <1>2 DEF AnswerIsOwn
<1> QED
  BY <1>3, Invariance, PTL

\* A woken waiter finds its value.
THEOREM ValueBeforeEvent == Spec => []WokenHasValue
<1>1. Inv => WokenHasValue
  BY DEF Inv, BoxInv
<1> QED
  BY <1>1, Invariance, PTL

-----------------------------------------------------------------------------
(* The refinement: SyncRead implements ReadContract.                       *)

\* In this part of its call a read is, for the application, in progress.
Reading == {"open", "define", "register", "request", "wait", "woke"}

\* What the application sees of the call a caller is making.
LEMMA SeenOfCaller ==
    ASSUME DataOK, CallInv, OutcomeInv, NEW t \in Caller, pc[t] # "idle"
    PROVE  /\ mine[t] \in Call
           /\ pc[t] = "lock" => Seen(mine[t]) = "waiting"
           /\ pc[t] \in Reading => Seen(mine[t]) = "reading"
           /\ pc[t] \in {"finally", "clear"} => Seen(mine[t]) = outcome[mine[t]]
<1> USE NoneAssumption
<1>1. mine[t] # None /\ mine[t] \in Call /\ mine[t] <= calls
  BY DEF DataOK, CallInv
<1>2. \A u \in Caller : mine[u] = mine[t] => u = t
  BY <1>1 DEF CallInv
<1>3. pc[t] \in Reading \cup {"lock"} => outcome[mine[t]] = "none"
  BY <1>1 DEF OutcomeInv, Reading
<1>4. pc[t] \in {"finally", "clear"} => outcome[mine[t]] # "none"
  BY DEF CallInv
<1> QED
  BY <1>1, <1>2, <1>3, <1>4 DEF Seen, Reading

\* A step of one caller within its call is seen of that call only.
LEMMA SeenFrame ==
    ASSUME CallInv, NEW t \in Caller, pc[t] # "idle", UNCHANGED calls,
           \A u \in Caller \ {t} : mine'[u] = mine[u] /\ pc'[u] = pc[u],
           mine'[t] \in {mine[t], None},
           \A c \in Call \ {mine[t]} : outcome'[c] = outcome[c]
    PROVE  \A c \in Call \ {mine[t]} : Seen(c)' = Seen(c)
<1> USE NoneAssumption
<1>1. ASSUME NEW c \in Call \ {mine[t]}
      PROVE  (\E u \in Caller : mine[u] = c /\ pc[u] # "lock")' <=>
                \E u \in Caller : mine[u] = c /\ pc[u] # "lock"
  BY DEF Call
<1> QED
  BY <1>1 DEF Seen

\* Asking: a call that has waited for nobody yet.
LEMMA BeginRefines ==
    ASSUME DataOK, CallInv, OutcomeInv, NEW t \in Caller,
           NEW id \in Var \cup {calls + 1}, Begin(t, id)
    PROVE  Contract!Next
<1> USE NoneAssumption, BoundAssumption
<1>0. PICK c \in Call : c = calls + 1
  BY DEF Begin, DataOK, Call
<1>1. /\ calls \in Nat /\ c = calls + 1 /\ calls' = c
      /\ mine' = [mine EXCEPT ![t] = c] /\ pc' = [pc EXCEPT ![t] = "lock"]
      /\ idOf' = [idOf EXCEPT ![c] = id] /\ UNCHANGED <<outcome, got>>
      /\ mine[t] = None
  BY <1>0 DEF Begin, Goto, DataOK, CallInv
<1>2. outcome[c] = "none" /\ \A u \in Caller : mine[u] # c
  BY <1>1 DEF OutcomeInv, CallInv, Call, DataOK
<1>3. Seen(c) = "none"
  BY <1>1, <1>2 DEF Seen
<1>4. Seen(c)' = "waiting"
  BY <1>1, <1>2 DEF Seen, DataOK
<1>5. ASSUME NEW d \in Call \ {c} PROVE Seen(d)' = Seen(d)
  <2>1. d <= calls' <=> d <= calls
    BY <1>1 DEF Call
  <2>2. \A u \in Caller : (mine'[u] = d /\ pc'[u] # "lock") <=>
                            (mine[u] = d /\ pc[u] # "lock")
    BY <1>1 DEF DataOK, Call
  <2> QED
    BY <1>1, <2>1, <2>2 DEF Seen
<1>6. SeenState[c] = "none" /\ SeenState' = [SeenState EXCEPT ![c] = "waiting"]
  BY <1>1, <1>3, <1>4, <1>5 DEF SeenState
<1>7. Contract!Ask(c, id)
  BY <1>1, <1>6 DEF Contract!Ask
<1> QED
  BY <1>1, <1>7 DEF Contract!Next

\* Getting the lock: the holder is the only one whose read is in progress.
LEMMA AcquireRefines ==
    ASSUME DataOK, CallInv, OutcomeInv, NEW t \in Caller, Acquire(t)
    PROVE  Contract!Next
<1> USE NoneAssumption
<1>1. /\ pc[t] = "lock" /\ getLock = None /\ pc' = [pc EXCEPT ![t] = "open"]
      /\ UNCHANGED <<calls, idOf, outcome, got, mine>>
  BY DEF Acquire, Goto
<1>2. PICK c \in Call : c = mine[t] /\ Seen(c) = "waiting"
  BY <1>1, SeenOfCaller
<1>3. \A d \in Call \ {c} : Seen(d)' = Seen(d)
  BY <1>1, <1>2, SeenFrame DEF DataOK
<1>4. outcome[c] = "none"
  BY <1>1, <1>2 DEF OutcomeInv, Call
<1>5. Seen(c)' = "reading"
  BY <1>1, <1>2, <1>4 DEF Seen, DataOK
<1>6. SeenState' = [SeenState EXCEPT ![c] = "reading"]
  BY <1>3, <1>5 DEF SeenState
<1>7. ASSUME NEW d \in Call PROVE Seen(d) # "reading"
  <2>1. \A u \in Caller : pc[u] \in {"idle", "lock"}
    BY <1>1 DEF DataOK, Caller
  <2>2. \A u \in Caller : mine[u] = d => pc[u] = "lock"
    BY <2>1 DEF CallInv, Call
  <2> QED
    BY <2>2 DEF Seen, DataOK
<1>8. Contract!Begin(c)
  BY <1>1, <1>2, <1>6, <1>7 DEF Contract!Begin, SeenState
<1> QED
  BY <1>8 DEF Contract!Next

\* A read that fails, wherever it is.
LEMMA FailureRefines ==
    ASSUME DataOK, CallInv, OutcomeInv, NEW t \in Caller, pc[t] \in Reading,
           UNCHANGED <<calls, idOf, got>>,
           outcome' = [outcome EXCEPT ![mine[t]] = "failed"],
           \A u \in Caller \ {t} : mine'[u] = mine[u] /\ pc'[u] = pc[u],
           mine'[t] \in {mine[t], None}
    PROVE  Contract!Next
<1>1. PICK c \in Call : c = mine[t] /\ Seen(c) = "reading"
  BY SeenOfCaller DEF Reading
<1>2. \A d \in Call \ {c} : Seen(d)' = Seen(d)
  BY <1>1, SeenFrame DEF Reading, DataOK
<1>3. Seen(c)' = "failed"
  BY <1>1 DEF Seen, DataOK
<1>4. SeenState' = [SeenState EXCEPT ![c] = "failed"]
  BY <1>2, <1>3 DEF SeenState
<1>5. Contract!Fail(c)
  BY <1>1, <1>4 DEF Contract!Fail, SeenState
<1> QED
  BY <1>5 DEF Contract!Next

\* A read that returns data: the box its id leads to is its own, and what
\* fits that box serves the call.
LEMMA ReadsRefines ==
    ASSUME Inv, NEW t \in Caller, Reads(t)
    PROVE  Contract!Next
<1> USE NoneAssumption
<1>0. DataOK /\ CallInv /\ PendingInv /\ AnswerInv /\ BoxInv /\ OutcomeInv
  BY DEF Inv, TypeOK
<1>1. PICK c \in Call : c = mine[t] /\ Seen(c) = "reading"
  BY <1>0, SeenOfCaller DEF Reads, Reading
<1>2. /\ pc[t] = "woke" /\ pc' = [pc EXCEPT ![t] = "finally"]
      /\ UNCHANGED <<calls, idOf, mine>> /\ pending[idOf[c]] = c
  BY <1>0, <1>1 DEF Reads, Goto, PendingInv, Asking
<1>3. CASE outcome' = [outcome EXCEPT ![c] = "failed"] /\ got' = got
  BY <1>0, <1>1, <1>2, <1>3, FailureRefines DEF Reading, DataOK
<1>4. ASSUME NEW m, m = value[c], m # None,
             outcome' = [outcome EXCEPT ![c] = "value"],
             got' = [got EXCEPT ![c] = m]
      PROVE  Contract!Next
  <2>1. \A d \in Call \ {c} : Seen(d)' = Seen(d)
    BY <1>0, <1>1, <1>2, <1>4, SeenFrame DEF DataOK
  <2>2. Seen(c)' = "value"
    BY <1>0, <1>1, <1>4 DEF Seen, DataOK
  <2>3. SeenState' = [SeenState EXCEPT ![c] = "value"]
    BY <2>1, <2>2 DEF SeenState
  <2>4. Fits(c, m)
    BY <1>0, <1>4 DEF BoxInv
  <2>5. ASSUME m # Push \/ idOf[c] \notin Subscribed
        PROVE  /\ m \in Call /\ idOf[m] = idOf[c]
               /\ m = c \/ outcome[m] # "none"
    BY <2>4, <2>5 DEF Fits
  <2>6. ASSUME m \in Call, NEW d \in Call PROVE got[d] # m
    <3>1. CASE d = c
      BY <1>0, <1>1, <1>2, <2>6, <3>1 DEF OutcomeInv, Call
    <3>2. CASE d # c
      BY <1>0, <1>4, <2>6, <3>2 DEF AnswerInv, Holds
    <3> QED
      BY <3>1, <3>2
  <2>7. \A d \in Call : outcome[d] # "none" => SeenState[d] \in {"value", "failed"}
    BY <1>0 DEF Seen, SeenState, DataOK
  <2>8. Contract!Serves(m, c)
    BY <2>5, <2>6, <2>7 DEF Contract!Serves, Contract!Over
  <2>9. Contract!Return(c, m)
    BY <1>1, <1>2, <1>4, <2>3, <2>8 DEF Contract!Return, SeenState
  <2>10. m \in Call \cup {Push}
    BY <2>5
  <2> QED
    BY <2>9, <2>10 DEF Contract!Next
<1> QED
  BY <1>1, <1>2, <1>3, <1>4 DEF Reads, Ends

\* The other steps of a caller change nothing the application sees.
LEMMA QuietCall ==
    ASSUME DataOK, CallInv, OutcomeInv, NEW t \in Caller,
           UNCHANGED <<calls, idOf, outcome, got>>, pc[t] # "idle",
           \A u \in Caller \ {t} : mine'[u] = mine[u] /\ pc'[u] = pc[u],
           \/ /\ pc[t] \in Reading /\ pc'[t] # "lock"
              /\ mine'[t] = mine[t]
           \/ /\ pc[t] \in {"finally", "clear"}
              /\ mine'[t] \in {mine[t], None}
    PROVE  UNCHANGED <<SeenState, idOf, got>>
<1>1. PICK c \in Call : c = mine[t]
  BY SeenOfCaller
<1>2. \A d \in Call \ {c} : Seen(d)' = Seen(d)
  BY <1>1, SeenFrame
<1>3. Seen(c)' = Seen(c)
  <2>1. CASE pc[t] \in Reading
    <3>1. Seen(c) = "reading" /\ outcome[c] = "none"
      BY <2>1, <1>1, NoneAssumption, SeenOfCaller
         DEF OutcomeInv, Reading, Call
    <3>2. mine'[t] = c /\ pc'[t] # "lock"
      BY <1>1, <2>1 DEF Reading
    <3> QED
      BY <3>1, <3>2 DEF Seen
  <2>2. CASE pc[t] \in {"finally", "clear"}
    BY <1>1, <2>2 DEF CallInv, Seen
  <2> QED
    BY <2>1, <2>2
<1> QED
  BY <1>2, <1>3 DEF SeenState

\* Every step of every thread is one step of the contract, or none.
LEMMA StepRefines ==
    ASSUME Inv, [Next]_vars
    PROVE  [Contract!Next]_<<SeenState, idOf, got>>
<1>0. DataOK /\ CallInv /\ OutcomeInv
  BY DEF Inv, TypeOK
<1>1. ASSUME NEW t \in Caller, Get(t)
      PROVE  [Contract!Next]_<<SeenState, idOf, got>>
  BY <1>0, <1>1, BeginRefines DEF Get
<1>2. ASSUME NEW t \in Caller, Acquire(t)
      PROVE  [Contract!Next]_<<SeenState, idOf, got>>
  BY <1>0, <1>2, AcquireRefines
<1>3. ASSUME NEW t \in Caller,
             SawOpen(t) \/ Register(t) \/ Wakes(t) \/ Finally(t) \/ Clear(t)
      PROVE  [Contract!Next]_<<SeenState, idOf, got>>
  <2>1. /\ UNCHANGED <<calls, idOf, outcome, got>> /\ pc[t] # "idle"
        /\ \A u \in Caller \ {t} : mine'[u] = mine[u] /\ pc'[u] = pc[u]
        /\ \/ pc[t] \in Reading /\ pc'[t] # "lock" /\ mine'[t] = mine[t]
           \/ pc[t] \in {"finally", "clear"} /\ mine'[t] \in {mine[t], None}
    BY <1>0, <1>3 DEF SawOpen, Register, Wakes, Finally, Clear, Goto, Release,
       Loops, DataOK, Reading
  <2>2. UNCHANGED <<SeenState, idOf, got>>
    BY <1>0, <2>1, QuietCall
  <2> QED
    BY <2>2
<1>4. ASSUME NEW t \in Caller,
             OpenExpires(t) \/ Define(t) \/ Request(t) \/ Expires(t)
      PROVE  [Contract!Next]_<<SeenState, idOf, got>>
  <2>1. /\ UNCHANGED <<calls, idOf, got>> /\ pc[t] \in Reading
        /\ \A u \in Caller \ {t} : mine'[u] = mine[u] /\ pc'[u] = pc[u]
        /\ \/ /\ outcome' = [outcome EXCEPT ![mine[t]] = "failed"]
              /\ mine'[t] \in {mine[t], None}
           \/ /\ UNCHANGED <<outcome, mine>> /\ pc'[t] # "lock"
    BY <1>0, <1>4 DEF OpenExpires, Define, Request, Expires, Ends, Goto,
       Release, Loops, DataOK, Reading
  <2>2. pc[t] # "idle"
    BY <2>1 DEF Reading
  <2>3. CASE UNCHANGED <<outcome, mine>> /\ pc'[t] # "lock"
    <3>1. UNCHANGED <<SeenState, idOf, got>>
      BY <1>0, <2>1, <2>2, <2>3, QuietCall
    <3> QED
      BY <3>1
  <2> QED
    BY <1>0, <2>1, <2>3, FailureRefines
<1>5. ASSUME NEW t \in Caller, Reads(t)
      PROVE  [Contract!Next]_<<SeenState, idOf, got>>
  BY <1>5, ReadsRefines
<1>6. CASE CallsBack
  BY <1>0, <1>6, BeginRefines DEF CallsBack, Caller
<1>7. CASE \/ \E t \in App \cup {Pump} :
                 DispatchOpen(t) \/ TakeAnswer(t) \/ TakePush(t)
           \/ Fill \/ DispatchReturns \/ UNCHANGED vars
  <2>1. UNCHANGED <<calls, idOf, outcome, got, pc, mine>>
    BY <1>7, Zenon DEF DispatchOpen, TakeAnswer, TakePush, Take, Fill,
       DispatchReturns, vars, calling
  <2> QED
    BY <2>1 DEF SeenState, Seen
<1> QED
  BY <1>1, <1>2, <1>3, <1>4, <1>5, <1>6, <1>7, NextCases

\* Nobody has asked when the contract begins.
LEMMA InitRefines == Init => Contract!Init
  BY NoneAssumption, BoundAssumption
     DEF Init, Contract!Init, SeenState, Seen, Call

\* get and get_many implement ReadContract, for any number of threads,
\* variables and calls, whoever dispatches and wherever callbacks read.
THEOREM ContractKept == Spec => ImplementsContract
<1>1. Inv /\ [Next]_vars => [Contract!Next]_<<SeenState, idOf, got>>
  BY StepRefines
<1> QED
  BY <1>1, Invariance, InitRefines, PTL
     DEF Spec, ImplementsContract, Contract!Spec
=============================================================================
