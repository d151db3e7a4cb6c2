--------------------------- MODULE Delivery_proofs ---------------------------
(***************************************************************************)
(* Proofs about Delivery, for any ranges of ids, any fields and any number *)
(* of subscriptions, reads and messages.                                   *)
(***************************************************************************)
EXTENDS Delivery, WellFoundedInduction, TLAPS

\* The counters never fall below the start of their range.
CountersInv ==
    /\ next \in [sub : Nat \ {0}, var : Nat, many : Nat]
    /\ next.var >= VarStart /\ next.many >= ManyStart

\* app is a record with the fields of Idle.
AppInv == app = [batch |-> app.batch, singles |-> app.singles, parent |-> app.parent,
                 made |-> app.made, touch |-> app.touch, drop |-> app.drop,
                 gone |-> app.gone]

\* The ids of subscriptions are given out once.
OnceInv ==
    /\ \A s \in subs \cup app.gone : s.id \in Nat \ {0} /\ s.id < next.sub
    /\ \A s, t \in subs : s.id = t.id => s = t
    /\ \A s \in subs, t \in app.gone : s.id # t.id

TypeInv ==
    /\ CountersInv
    /\ slot \in [Field -> Nat]
    /\ AppInv
    /\ app.singles \subseteq Field /\ app.touch \in Nat
    /\ OnceInv

\* Who uses an id, and for which fields.
IsUse(d, fs) ==
    \/ \E r \in subs \cup reading \cup wire : r.id = d /\ r.fields = fs
    \/ \E f \in Field : slot[f] = d /\ d # 0 /\ fs = <<f>>

Issued(d) ==
    /\ d \in Nat \ {0}
    /\ \/ d < next.sub
       \/ VarStart <= d /\ d < next.var
       \/ ManyStart <= d /\ d < next.many

\* While the counters are in range, an id in use was issued, for one purpose.
UseInv ==
    InRange =>
        /\ \A d, fs : IsUse(d, fs) => Issued(d)
        /\ \A d, fs, gs : IsUse(d, fs) /\ IsUse(d, gs) => fs = gs

-----------------------------------------------------------------------------

LEMMA NextCases ==
    ASSUME Next,
           NEW G,
           \A f \in Vars : Subscribe(f) => G,
           \A fs \in SubLists : SubscribeMany(fs) => G,
           MakeBatch => G, MakeSingle => G, Made => G,
           Unsubscribe => G, DropInfo => G, Dropped => G,
           \A fs \in ReadLists : GetMany(fs) => G,
           \A n \in Burst : GetManyCalls(n) => G,
           \A f \in Vars : Get(f) => G,
           ReadEnds => G, Receive => G, CallBack => G, Implausible => G,
           \A d \in stale : Renews(d) => G,
           SimSends => G,
           \A d \in touched : Ages(d) => G
    PROVE  G
BY DEF Next, Application, Reader, Pump

LEMMA StringsAreFields ==
    ASSUME NEW fs \in SubLists
    PROVE  Strings(fs) \subseteq Field
<1>1. fs \in Seq(Field)
  BY FieldAssumption
<1> QED
  BY <1>1 DEF Strings

\* The counters only grow.
LEMMA CountersGrow ==
    ASSUME CountersInv,
           NEW s \in Nat, NEW v \in Nat, NEW m \in Nat,
           next' = [sub |-> s, var |-> v, many |-> m],
           s >= next.sub, v >= next.var, m >= next.many
    PROVE  /\ CountersInv'
           /\ next'.sub = s /\ next'.var = v /\ next'.many = m
BY RangeAssumption DEF CountersInv

LEMMA NewIdIsNew ==
    ASSUME CountersInv, OnceInv, NEW e,
           e.id = next.sub, subs' = subs \cup {e},
           next'.sub = next.sub + 1, app'.gone = app.gone
    PROVE  OnceInv'
<1> USE DEF CountersInv, OnceInv
<1>1. \A s \in subs' \cup app'.gone : s.id \in Nat \ {0} /\ s.id < next'.sub
  OBVIOUS
<1>2. \A s \in subs \cup app.gone : s.id # e.id
  OBVIOUS
<1>3. \A s, t \in subs' : s.id = t.id => s = t
  BY <1>2
<1>4. \A s \in subs', t \in app'.gone : s.id # t.id
  BY <1>2
<1> QED
  BY <1>1, <1>3, <1>4

LEMMA TypeInit == Init => TypeInv
BY RangeAssumption DEF Init, TypeInv, CountersInv, AppInv, OnceInv, Idle

LEMMA TypeStep == TypeInv /\ [Next]_vs => TypeInv'
<1> SUFFICES ASSUME TypeInv, [Next]_vs
             PROVE  TypeInv'
  OBVIOUS
<1> USE RangeAssumption, FieldAssumption, BurstAssumption DEF TypeInv, CountersInv, AppInv, OnceInv
<1>1. ASSUME NEW f \in Vars, Subscribe(f)
      PROVE  TypeInv'
  BY <1>1 DEF Subscribe, Idle, registry, health
<1>2. ASSUME NEW fs \in SubLists, SubscribeMany(fs)
      PROVE  TypeInv'
  <2>1. Strings(fs) \subseteq Field
    BY StringsAreFields
  <2>2. /\ app'.singles \subseteq Field /\ app'.touch \in Nat
        /\ app'.gone = {} /\ subs' = subs /\ slot' = slot /\ AppInv'
    BY <1>2, <2>1 DEF SubscribeMany, Idle, registry, health
  <2>3. \/ next' = next
        \/ next' = [sub |-> next.sub + 1, var |-> next.var, many |-> next.many]
    BY <1>2 DEF SubscribeMany
  <2>4. CountersInv' /\ next'.sub >= next.sub
    BY <2>3, CountersGrow
  <2> QED
    BY <2>2, <2>4
<1>3. CASE MakeBatch
  <2>1. /\ next' = [sub |-> next.sub + 1, var |-> next.var, many |-> next.many]
        /\ subs' = subs \cup {[id |-> next.sub, fields |-> app.batch, many |-> TRUE]}
        /\ app'.singles = app.singles /\ app'.touch = next.sub /\ app'.gone = app.gone
        /\ slot' = slot /\ AppInv'
    BY <1>3 DEF MakeBatch
  <2>2. CountersInv' /\ next'.sub = next.sub + 1
    BY <2>1, CountersGrow
  <2>3. OnceInv'
    BY <2>1, <2>2, NewIdIsNew
  <2> QED
    BY <2>1, <2>2, <2>3
<1>4. CASE MakeSingle
  <2>1. PICK f \in app.singles :
           /\ next' = [sub |-> next.sub + 1,
                      var |-> IF next.sub >= next.var THEN next.sub + 1 ELSE next.var,
                      many |-> next.many]
           /\ slot' = [slot EXCEPT ![f] = next.sub]
           /\ subs' = subs \cup {[id |-> next.sub, fields |-> <<f>>, many |-> FALSE]}
           /\ app' = [app EXCEPT !.singles = @ \ {f}, !.touch = next.sub,
                                 !.made = @ \cup {next.sub}]
    BY <1>4 DEF MakeSingle
  <2>2. CountersInv' /\ next'.sub = next.sub + 1
    BY <2>1, CountersGrow
  <2>3. slot' \in [Field -> Nat]
    BY <2>1
  <2>4. /\ app'.singles \subseteq Field /\ app'.touch = next.sub
        /\ app'.gone = app.gone /\ AppInv'
        /\ subs' = subs \cup {[id |-> next.sub, fields |-> <<f>>, many |-> FALSE]}
    BY <2>1
  <2>5. OnceInv'
    BY <2>2, <2>4, NewIdIsNew
  <2> QED
    BY <2>2, <2>3, <2>4, <2>5
<1>5. CASE Made
  <2>1. UNCHANGED <<next, slot, subs>> /\ (app' = [app EXCEPT !.touch = 0] \/ app' = Idle)
    BY <1>5 DEF Made, registry
  <2>2. CASE app' = [app EXCEPT !.touch = 0]
    BY <2>1, <2>2
  <2>3. CASE app' = Idle
    BY <2>1, <2>3 DEF Idle
  <2> QED
    BY <2>1, <2>2, <2>3
<1>6. CASE Unsubscribe
  BY <1>6 DEF Unsubscribe, Idle, registry, health
<1>7. CASE DropInfo
  <2>1. PICK s \in subs :
           /\ subs' = subs \ {s} /\ app.gone = {}
           /\ app' = [app EXCEPT !.drop = @ \ {s.id}, !.gone = {s}]
           /\ UNCHANGED <<next, slot>>
    BY <1>7 DEF DropInfo, registry
  <2>2. /\ app'.gone = {s} /\ AppInv'
        /\ app'.singles = app.singles /\ app'.touch = app.touch
    BY <2>1
  <2> QED
    BY <2>1, <2>2
<1>8. CASE Dropped
  <2>1. PICK s \in app.gone :
           /\ slot' = IF s.many THEN slot ELSE [slot EXCEPT ![s.fields[1]] = 0]
           /\ app' = [app EXCEPT !.gone = {}]
           /\ UNCHANGED <<next, subs>>
    BY <1>8 DEF Dropped
  <2>2. slot' \in [Field -> Nat]
    <3>1. CASE s.fields[1] \in Field
      BY <2>1, <3>1
    <3>2. CASE s.fields[1] \notin Field
      BY <2>1, <3>2
    <3> QED
      BY <3>1, <3>2
  <2> QED
    BY <2>1, <2>2
<1>9. ASSUME NEW fs \in ReadLists, GetMany(fs)
      PROVE  TypeInv'
  <2>1. /\ next' = [sub |-> next.sub, var |-> next.var, many |-> next.many + 1]
        /\ UNCHANGED <<slot, subs, app>>
    BY <1>9 DEF GetMany, made
  <2>2. CountersInv' /\ next'.sub = next.sub
    BY <2>1, CountersGrow
  <2> QED
    BY <2>1, <2>2
<1>10. ASSUME NEW n \in Burst, GetManyCalls(n)
       PROVE  TypeInv'
  <2>1. /\ next' = [sub |-> next.sub, var |-> next.var, many |-> next.many + n]
        /\ UNCHANGED <<slot, subs, app>>
    BY <1>10 DEF GetManyCalls, made
  <2>2. CountersInv' /\ next'.sub = next.sub
    BY <2>1, CountersGrow
  <2> QED
    BY <2>1, <2>2
<1>11. ASSUME NEW f \in Vars, Get(f)
       PROVE  TypeInv'
  <2>1. /\ \/ UNCHANGED <<next, slot>>
           \/ /\ next' = [sub |-> next.sub, var |-> next.var + 1, many |-> next.many]
              /\ slot' = [slot EXCEPT ![f] = next.var]
        /\ UNCHANGED <<subs, app>>
    BY <1>11 DEF Get, made, registry
  <2>2. CountersInv' /\ next'.sub = next.sub
    BY <2>1, CountersGrow
  <2> QED
    BY <2>1, <2>2
<1>12. UNCHANGED <<registry, made>> => TypeInv'
  BY DEF made, registry
<1>13. /\ ReadEnds \/ Receive \/ CallBack \/ Implausible \/ SimSends
             => UNCHANGED <<registry, made>>
       /\ \A d : Renews(d) \/ Ages(d) => UNCHANGED <<registry, made>>
       /\ UNCHANGED vs => UNCHANGED <<registry, made>>
  BY DEF ReadEnds, Receive, CallBack, Implausible, SimSends, Renews, Ages, vs
<1> QED
  BY <1>1, <1>2, <1>3, <1>4, <1>5, <1>6, <1>7, <1>8, <1>9, <1>10, <1>11, <1>12,
     <1>13, NextCases

-----------------------------------------------------------------------------

\* The counters of every step grow.
Growth == next'.sub >= next.sub /\ next'.var >= next.var /\ next'.many >= next.many

\* No step takes an id back.
LEMMA GrowthStep ==
    ASSUME CountersInv, [Next]_vs
    PROVE  Growth
<1>0. \/ Next
      \/ UNCHANGED vs
  OBVIOUS
<1>u. UNCHANGED next => Growth
  BY DEF CountersInv, Growth
<1>1. ASSUME NEW fs \in SubLists, SubscribeMany(fs)
      PROVE  Growth
  BY <1>1 DEF SubscribeMany, CountersInv, Growth
<1>2. CASE MakeBatch
  BY <1>2 DEF MakeBatch, CountersInv, Growth
<1>3. CASE MakeSingle
  BY <1>3 DEF MakeSingle, CountersInv, Growth
<1>4. ASSUME NEW fs \in ReadLists, GetMany(fs)
      PROVE  Growth
  BY <1>4 DEF GetMany, CountersInv, Growth
<1>5. ASSUME NEW n \in Burst, GetManyCalls(n)
      PROVE  Growth
  BY <1>5, BurstAssumption DEF GetManyCalls, CountersInv, Growth
<1>6. ASSUME NEW f \in Vars, Get(f)
      PROVE  Growth
  <2>1. \/ UNCHANGED next
        \/ next' = [next EXCEPT !.var = @ + 1]
    BY <1>6 DEF Get, registry
  <2> QED
    BY <2>1 DEF CountersInv, Growth
<1>7. /\ \A f : Subscribe(f) => UNCHANGED next
      /\ \A d : Renews(d) \/ Ages(d) => UNCHANGED next
      /\ Made \/ Unsubscribe \/ DropInfo \/ Dropped \/ ReadEnds \/ Receive
         \/ CallBack \/ Implausible \/ SimSends \/ UNCHANGED vs => UNCHANGED next
  BY DEF Subscribe, Renews, Ages, Made, Unsubscribe, DropInfo, Dropped, ReadEnds,
         Receive, CallBack, Implausible, SimSends, vs, registry
<1> QED
  BY <1>0, <1>u, <1>1, <1>2, <1>3, <1>4, <1>5, <1>6, <1>7, NextCases

LEMMA IssuedStays ==
    ASSUME CountersInv, CountersInv', Growth, NEW d, Issued(d)
    PROVE  Issued(d)'
BY RangeAssumption DEF CountersInv, Growth, Issued

LEMMA RangeStays ==
    ASSUME CountersInv, CountersInv', Growth, InRange'
    PROVE  InRange
BY RangeAssumption DEF CountersInv, Growth, InRange

\* A step that gives out no id.
LEMMA NothingNew ==
    ASSUME CountersInv, CountersInv', Growth, UseInv,
           \A d, fs : IsUse(d, fs)' => IsUse(d, fs)
    PROVE  UseInv'
<1> SUFFICES ASSUME InRange'
             PROVE  /\ \A d, fs : IsUse(d, fs)' => Issued(d)'
                    /\ \A d, fs, gs : IsUse(d, fs)' /\ IsUse(d, gs)' => fs = gs
  BY DEF UseInv
<1>1. InRange
  BY RangeStays
<1>2. \A d : Issued(d) => Issued(d)'
  BY IssuedStays
<1> QED
  BY <1>1, <1>2 DEF UseInv

\* A step that gives out n for the fields ns.
LEMMA OneNew ==
    ASSUME CountersInv, CountersInv', Growth, UseInv,
           NEW n, NEW ns, Issued(n)', InRange' => ~ Issued(n),
           \A d, fs : IsUse(d, fs)' => IsUse(d, fs) \/ (d = n /\ fs = ns)
    PROVE  UseInv'
<1> SUFFICES ASSUME InRange'
             PROVE  /\ \A d, fs : IsUse(d, fs)' => Issued(d)'
                    /\ \A d, fs, gs : IsUse(d, fs)' /\ IsUse(d, gs)' => fs = gs
  BY DEF UseInv
<1>1. InRange
  BY RangeStays
<1>2. \A d : Issued(d) => Issued(d)'
  BY IssuedStays
<1>3. \A fs : ~ IsUse(n, fs)
  BY <1>1 DEF UseInv
<1>4. \A d, fs : IsUse(d, fs)' => Issued(d)'
  BY <1>1, <1>2 DEF UseInv
<1>5. ASSUME NEW d, NEW fs, NEW gs, IsUse(d, fs)', IsUse(d, gs)'
      PROVE  fs = gs
  <2>1. CASE d = n
    BY <1>3, <1>5, <2>1
  <2>2. CASE d # n
    <3>1. IsUse(d, fs) /\ IsUse(d, gs)
      BY <1>5, <2>2
    <3> QED
      BY <1>1, <3>1 DEF UseInv
  <2> QED
    BY <2>1, <2>2
<1> QED
  BY <1>4, <1>5

LEMMA UseInit == Init => UseInv
BY DEF Init, UseInv, IsUse

LEMMA UseStep == TypeInv /\ TypeInv' /\ UseInv /\ [Next]_vs => UseInv'
<1> SUFFICES ASSUME TypeInv, TypeInv', UseInv, [Next]_vs
             PROVE  UseInv'
  OBVIOUS
<1>c. CountersInv /\ CountersInv'
  BY DEF TypeInv
<1>0. \/ Next
      \/ UNCHANGED vs
  OBVIOUS
<1>e. ASSUME UNCHANGED next,
             \A d, fs : IsUse(d, fs)' => IsUse(d, fs)
      PROVE  UseInv'
  <2>1. Growth
    BY <1>e, <1>c DEF Growth, CountersInv
  <2> QED
    BY <1>e, <1>c, <2>1, NothingNew
<1>u. ASSUME UNCHANGED <<next, slot, subs, reading, wire>>
      PROVE  UseInv'
  BY <1>u, <1>e DEF IsUse
<1>1. ASSUME NEW f \in Vars, Subscribe(f)
      PROVE  UseInv'
  BY <1>1, <1>u DEF Subscribe, registry
<1>2. ASSUME NEW fs \in SubLists, SubscribeMany(fs)
      PROVE  UseInv'
  <2>1. /\ \/ next' = next
           \/ next' = [sub |-> next.sub + 1, var |-> next.var, many |-> next.many]
        /\ UNCHANGED <<slot, subs, reading, wire>>
    BY <1>2, <1>c DEF SubscribeMany, CountersInv
  <2>2. Growth
    BY <2>1, <1>c DEF Growth, CountersInv
  <2>3. \A d, gs : IsUse(d, gs)' => IsUse(d, gs)
    BY <2>1 DEF IsUse
  <2> QED
    BY <2>2, <2>3, <1>c, NothingNew
<1>3. CASE MakeBatch
  <2>1. /\ next' = [sub |-> next.sub + 1, var |-> next.var, many |-> next.many]
        /\ subs' = subs \cup {[id |-> next.sub, fields |-> app.batch, many |-> TRUE]}
        /\ UNCHANGED <<slot, reading, wire>>
    BY <1>3, <1>c DEF MakeBatch, CountersInv
  <2>2. Growth
    BY <2>1, <1>c DEF Growth, CountersInv
  <2> PICK n : n = next.sub
    OBVIOUS
  <2>3. ~ (InRange' /\ Issued(n))
    BY <2>1, <1>c, RangeAssumption DEF Issued, InRange, CountersInv
  <2>5. Issued(n)'
    BY <2>1, <1>c, RangeAssumption DEF Issued, CountersInv
  <2>4. \A d, fs : IsUse(d, fs)' => IsUse(d, fs) \/ (d = n /\ fs = app.batch)
    BY <2>1 DEF IsUse
  <2> QED
    BY <2>2, <2>3, <2>4, <2>5, <1>c, OneNew
<1>4. CASE MakeSingle
  <2>1. PICK f \in app.singles :
           /\ next' = [sub |-> next.sub + 1,
                      var |-> IF next.sub >= next.var THEN next.sub + 1 ELSE next.var,
                      many |-> next.many]
           /\ slot' = [slot EXCEPT ![f] = next.sub]
           /\ subs' = subs \cup {[id |-> next.sub, fields |-> <<f>>, many |-> FALSE]}
           /\ UNCHANGED <<reading, wire>>
    BY <1>4, <1>c DEF MakeSingle, CountersInv
  <2>2. Growth
    BY <2>1, <1>c DEF Growth, CountersInv
  <2> PICK n : n = next.sub
    OBVIOUS
  <2>3. ~ (InRange' /\ Issued(n))
    BY <2>1, <1>c, RangeAssumption DEF Issued, InRange, CountersInv
  <2>5. Issued(n)'
    BY <2>1, <1>c, RangeAssumption DEF Issued, CountersInv
  <2>4. \A d, fs : IsUse(d, fs)' => IsUse(d, fs) \/ (d = n /\ fs = <<f>>)
    BY <2>1 DEF IsUse, TypeInv
  <2> QED
    BY <2>2, <2>3, <2>4, <2>5, <1>c, OneNew
<1>5. CASE Made
  BY <1>5, <1>u DEF Made, registry
<1>6. CASE Unsubscribe
  BY <1>6, <1>u DEF Unsubscribe, registry
<1>7. CASE DropInfo
  <2>1. subs' \subseteq subs /\ UNCHANGED <<next, slot, reading, wire>>
    BY <1>7 DEF DropInfo, registry
  <2> QED
    BY <2>1, <1>e DEF IsUse
<1>8. CASE Dropped
  <2>1. PICK s \in app.gone :
           /\ slot' = IF s.many THEN slot ELSE [slot EXCEPT ![s.fields[1]] = 0]
           /\ UNCHANGED <<next, subs, reading, wire>>
    BY <1>8 DEF Dropped
  <2>2. \A f \in Field : slot'[f] = slot[f] \/ slot'[f] = 0
    BY <2>1 DEF TypeInv
  <2> QED
    BY <2>1, <2>2, <1>e DEF IsUse
<1>9. ASSUME NEW fs \in ReadLists, GetMany(fs)
      PROVE  UseInv'
  <2>1. /\ next' = [sub |-> next.sub, var |-> next.var, many |-> next.many + 1]
        /\ reading' = {Box(next.many, fs, {})}
        /\ UNCHANGED <<slot, subs, wire>>
    BY <1>9, <1>c DEF GetMany, made, CountersInv
  <2>2. Growth
    BY <2>1, <1>c DEF Growth, CountersInv
  <2> PICK n : n = next.many
    OBVIOUS
  <2>3. ~ (InRange' /\ Issued(n))
    BY <2>1, <1>c, RangeAssumption DEF Issued, InRange, CountersInv
  <2>5. Issued(n)'
    BY <2>1, <1>c, RangeAssumption DEF Issued, CountersInv
  <2>4. \A d, gs : IsUse(d, gs)' => IsUse(d, gs) \/ (d = n /\ gs = fs)
    BY <2>1 DEF IsUse, Box
  <2> QED
    BY <2>2, <2>3, <2>4, <2>5, <1>c, OneNew
<1>10. ASSUME NEW n \in Burst, GetManyCalls(n)
       PROVE  UseInv'
  <2>1. /\ next' = [sub |-> next.sub, var |-> next.var, many |-> next.many + n]
        /\ UNCHANGED <<slot, subs, reading, wire>>
    BY <1>10, <1>c DEF GetManyCalls, made, CountersInv
  <2>2. Growth
    BY <2>1, <1>c, BurstAssumption DEF Growth, CountersInv
  <2>3. \A d, gs : IsUse(d, gs)' => IsUse(d, gs)
    BY <2>1 DEF IsUse
  <2> QED
    BY <2>2, <2>3, <1>c, NothingNew
<1>11. ASSUME NEW f \in Vars, Get(f)
       PROVE  UseInv'
  <2>f. f \in Field
    BY FieldAssumption
  <2>1. CASE slot[f] # 0
    <3>1. /\ reading' = {Box(slot[f], <<f>>, {})}
          /\ UNCHANGED <<next, slot, subs, wire>>
      BY <1>11, <2>1 DEF Get, made, registry
    <3>2. \A d, fs : IsUse(d, fs)' => IsUse(d, fs)
      BY <3>1, <2>1, <2>f DEF IsUse, Box
    <3> QED
      BY <3>1, <3>2, <1>e
  <2>2. CASE slot[f] = 0
    <3>1. /\ next' = [sub |-> next.sub, var |-> next.var + 1, many |-> next.many]
          /\ reading' = {Box(next.var, <<f>>, {})}
          /\ slot' = [slot EXCEPT ![f] = next.var]
          /\ UNCHANGED <<subs, wire>>
      BY <1>11, <2>2, <1>c DEF Get, made, registry, CountersInv
    <3>2. Growth
      BY <3>1, <1>c DEF Growth, CountersInv
    <3> PICK n : n = next.var
      OBVIOUS
    <3>3. ~ (InRange' /\ Issued(n))
      BY <3>1, <1>c, RangeAssumption DEF Issued, InRange, CountersInv
    <3>5. Issued(n)'
      BY <3>1, <1>c, RangeAssumption DEF Issued, CountersInv
    <3>4. \A d, fs : IsUse(d, fs)' => IsUse(d, fs) \/ (d = n /\ fs = <<f>>)
      BY <3>1, <2>f DEF IsUse, Box, TypeInv
    <3> QED
      BY <3>2, <3>3, <3>4, <3>5, <1>c, OneNew
  <2> QED
    BY <2>1, <2>2
<1>12. CASE ReadEnds
  <2>1. reading' = {} /\ UNCHANGED <<next, slot, subs, wire>>
    BY <1>12 DEF ReadEnds, registry, made
  <2> QED
    BY <2>1, <1>e DEF IsUse
<1>13. CASE Receive
  <2>1. PICK m \in wire :
           /\ wire' = wire \ {m}
           /\ reading' = {IF r \in Lookup(Req(m), reading)
                          THEN Box(r.id, r.fields, Decode(r.fields, m.fields))
                          ELSE r : r \in reading}
           /\ UNCHANGED <<next, slot, subs>>
    BY <1>13 DEF Receive, registry, made
  <2>2. \A r \in reading' : \E q \in reading : r.id = q.id /\ r.fields = q.fields
    BY <2>1 DEF Box
  <2> QED
    BY <2>1, <2>2, <1>e DEF IsUse
<1>14. CASE SimSends
  <2>1. PICK s \in subs \cup reading : \E type \in BOOLEAN :
           wire' = wire \cup {Message(s, type)}
    BY <1>14 DEF SimSends
  <2>2. UNCHANGED <<next, slot, subs, reading>>
    BY <1>14 DEF SimSends, registry, made
  <2> QED
    BY <2>1, <2>2, <1>e DEF IsUse, Message
<1>15. CASE CallBack
  BY <1>15, <1>u DEF CallBack, registry, made
<1>16. CASE Implausible
  BY <1>16, <1>u DEF Implausible, registry, made
<1>17. ASSUME NEW d, Renews(d) \/ Ages(d)
       PROVE  UseInv'
  BY <1>17, <1>u DEF Renews, Ages, registry, made
<1>18. CASE UNCHANGED vs
  BY <1>18, <1>u DEF vs, registry, made
<1> QED
  BY <1>0, <1>1, <1>2, <1>3, <1>4, <1>5, <1>6, <1>7, <1>8, <1>9, <1>10, <1>11,
     <1>12, <1>13, <1>14, <1>15, <1>16, <1>17, <1>18, NextCases

-----------------------------------------------------------------------------

\* Messages carry ids that are in use, which Finds does not confuse in range.
LEMMA InRangeNoCrossing ==
    ASSUME UseInv, CountersInv, InRange
    PROVE  ReadersExpectTheirData
<1> SUFFICES ASSUME NEW m \in wire, NEW r \in subs \cup reading, Finds(Req(m), r.id)
             PROVE  r.fields = m.fields
  BY DEF ReadersExpectTheirData
<1>1. IsUse(m.id, m.fields) /\ IsUse(r.id, r.fields)
  BY DEF IsUse
<1>2. Issued(m.id) /\ Issued(r.id)
  BY <1>1 DEF UseInv
<1>3. m.id \in 1 .. TypeOffset /\ r.id \in 1 .. TypeOffset
  BY <1>2, RangeAssumption DEF Issued, InRange, CountersInv
<1>4. r.id = m.id
  BY <1>3, RangeAssumption DEF Finds, Req
<1> QED
  BY <1>1, <1>4 DEF UseInv

\* No answer reaches a read or a subscription that did not ask for it, as long
\* as no counter has left its range (registry.py:50).
THEOREM AnswersDoNotCross == Spec => []NoCrossingInRange
<1>1. Init => TypeInv /\ UseInv
  BY TypeInit, UseInit
<1>2. (TypeInv /\ UseInv) /\ [Next]_vs => (TypeInv /\ UseInv)'
  BY TypeStep, UseStep
<1>3. TypeInv /\ UseInv => NoCrossingInRange
  BY InRangeNoCrossing DEF NoCrossingInRange, TypeInv
<1> QED
  BY <1>1, <1>2, <1>3, PTL DEF Spec

-----------------------------------------------------------------------------

\* Nothing but a drop takes an id out of the table, and only its own.
LEMMA WatchStep == TypeInv /\ LiveIsWatched /\ [Next]_vs => LiveIsWatched'
<1> SUFFICES ASSUME TypeInv, LiveIsWatched, [Next]_vs
             PROVE  LiveIsWatched'
  OBVIOUS
<1>n. \A s \in subs : s.id # 0
  BY DEF TypeInv, OnceInv
<1>k. ASSUME subs' \subseteq subs, touched \subseteq touched',
             app'.touch = app.touch \/ app.touch = 0
      PROVE  LiveIsWatched'
  BY <1>k, <1>n DEF LiveIsWatched
<1>u. ASSUME UNCHANGED <<subs, app, touched>>
      PROVE  LiveIsWatched'
  BY <1>u DEF LiveIsWatched
<1>1. ASSUME NEW f \in Vars, Subscribe(f)
      PROVE  LiveIsWatched'
  BY <1>1, <1>k DEF Subscribe, Idle, health
<1>2. ASSUME NEW fs \in SubLists, SubscribeMany(fs)
      PROVE  LiveIsWatched'
  BY <1>2, <1>k DEF SubscribeMany, Idle, health
<1>3. CASE MakeBatch
  <2>1. /\ subs' = subs \cup {[id |-> next.sub, fields |-> app.batch, many |-> TRUE]}
        /\ app.touch = 0 /\ app'.touch = next.sub /\ touched' = touched
    BY <1>3 DEF MakeBatch, health, TypeInv, AppInv
  <2> QED
    BY <2>1, <1>n DEF LiveIsWatched
<1>4. CASE MakeSingle
  <2>1. PICK f \in app.singles :
        /\ subs' = subs \cup {[id |-> next.sub, fields |-> <<f>>, many |-> FALSE]}
        /\ app.touch = 0 /\ app'.touch = next.sub /\ touched' = touched
    BY <1>4 DEF MakeSingle, health, TypeInv, AppInv
  <2> QED
    BY <2>1, <1>n DEF LiveIsWatched
<1>5. CASE Made
  <2>1. subs' = subs /\ touched' = touched \cup {app.touch}
    BY <1>5 DEF Made, Touch
  <2> QED
    BY <2>1 DEF LiveIsWatched
<1>6. CASE Unsubscribe
  BY <1>6, <1>k DEF Unsubscribe, Idle, health
<1>7. CASE DropInfo
  <2>1. subs' \subseteq subs /\ app'.touch = app.touch /\ touched' = touched
    BY <1>7 DEF DropInfo, health, TypeInv, AppInv
  <2> QED
    BY <2>1, <1>k
<1>8. CASE Dropped
  <2>1. PICK t \in app.gone : /\ touched' = touched \ {t.id} /\ subs' = subs
                             /\ app' = [app EXCEPT !.gone = {}]
    BY <1>8 DEF Dropped
  <2>2. app'.touch = app.touch
    BY <2>1 DEF TypeInv, AppInv
  <2>3. \A s \in subs : s.id # t.id
    BY DEF TypeInv, OnceInv
  <2> QED
    BY <2>1, <2>2, <2>3 DEF LiveIsWatched
<1>9. CASE CallBack
  <2>1. subs' = subs /\ app' = app /\ touched \subseteq touched'
    BY <1>9 DEF CallBack, Touch, made
  <2> QED
    BY <2>1, <1>k
<1>10. ASSUME NEW d, Renews(d)
       PROVE  LiveIsWatched'
  BY <1>10, <1>k DEF Renews, Touch, made
<1>11. /\ \A fs : GetMany(fs) => UNCHANGED <<subs, app, touched>>
       /\ \A n : GetManyCalls(n) => UNCHANGED <<subs, app, touched>>
       /\ \A f : Get(f) => UNCHANGED <<subs, app, touched>>
       /\ \A d : Ages(d) => UNCHANGED <<subs, app, touched>>
       /\ ReadEnds \/ Receive \/ Implausible \/ SimSends
             => UNCHANGED <<subs, app, touched>>
       /\ UNCHANGED vs => UNCHANGED <<subs, app, touched>>
  BY DEF GetMany, GetManyCalls, Get, Ages, ReadEnds, Receive, Implausible,
         SimSends, vs, made, health
<1> QED
  BY <1>u, <1>1, <1>2, <1>3, <1>4, <1>5, <1>6, <1>7, <1>8, <1>9, <1>10, <1>11,
     NextCases

\* A subscription is in the table of callback times from the end of its call
\* until its own unsubscribe, whatever else is subscribed, dropped, renewed or
\* delivered meanwhile (subscribe.py:83).
THEOREM LiveSubscriptionsAreWatched == Spec => []LiveIsWatched
<1>1. Init => TypeInv /\ LiveIsWatched
  BY TypeInit DEF Init, LiveIsWatched
<1>2. (TypeInv /\ LiveIsWatched) /\ [Next]_vs => (TypeInv /\ LiveIsWatched)'
  BY TypeStep, WatchStep
<1> QED
  BY <1>1, <1>2, PTL DEF Spec

-----------------------------------------------------------------------------
(* Induction.                                                              *)

\* A set of naturals that is not empty has a least element.
LEMMA Least ==
    ASSUME NEW S, S \subseteq Nat, S # {}
    PROVE  \E n \in S : \A m \in S : ~ (m < n)
<1>1. \E n \in S : \A m \in S : <<m, n>> \notin OpToRel(<, Nat)
  BY WFMin, NatLessThanWellFounded, Zenon
<1> QED
  BY <1>1, Zenon DEF OpToRel

\* Induction, with a set for the predicate.
LEMMA NatSet ==
    ASSUME NEW S, 0 \in S, \A n \in Nat : n \in S => n + 1 \in S
    PROVE  Nat \subseteq S
<1> SUFFICES ASSUME Nat \ S # {} PROVE FALSE
  OBVIOUS
<1>1. PICK n \in Nat \ S : \A m \in Nat \ S : ~ (m < n)
  BY Least
<1>2. n # 0 /\ n - 1 \in Nat /\ n - 1 < n
  BY <1>1
<1>3. n - 1 \in S
  BY <1>1, <1>2
<1>4. (n - 1) + 1 \in S
  BY <1>2, <1>3
<1> QED
  BY <1>4, <1>1

-----------------------------------------------------------------------------
(* Layouts.                                                                *)

\* What is passed on to one subscription or read: numbers, or a string alone.
Proper(fs) ==
    /\ fs \in Seq(Field)
    /\ Len(fs) <= 1 \/ \A i \in 1 .. Len(fs) : Numeric(fs[i])

\* How far field i of fs moves the next one.
Step(fs, kept, i) == IF fs[i] \in kept THEN Width(fs[i]) ELSE 0

AreStarts(at, fs, kept, n) ==
    /\ at \in [1 .. n -> Nat]
    /\ \A i \in 1 .. n :
          at[i] = IF i = 1 THEN 0 ELSE at[i - 1] + Step(fs, kept, i - 1)

LEMMA Widths ==
    ASSUME NEW f \in Field
    PROVE  Width(f) \in Nat /\ (Numeric(f) => Width(f) > 0)
BY DEF Width, Numeric, DATATYPE_SIZES

LEMMA Steps ==
    ASSUME NEW fs \in Seq(Field), NEW kept, NEW i \in 1 .. Len(fs)
    PROVE  Step(fs, kept, i) \in Nat
BY Widths DEF Step

LEMMA StartsExist ==
    ASSUME NEW fs \in Seq(Field), NEW kept
    PROVE  \E at : AreStarts(at, fs, kept, Len(fs))
<1> DEFINE S == {n \in Nat : n <= Len(fs) => \E at : AreStarts(at, fs, kept, n)}
<1>1. 0 \in S
  <2>1. AreStarts([i \in 1 .. 0 |-> 0], fs, kept, 0)
    BY DEF AreStarts
  <2> QED
    BY <2>1
<1>2. ASSUME NEW n \in Nat, n \in S
      PROVE  n + 1 \in S
  <2> SUFFICES ASSUME n + 1 <= Len(fs)
               PROVE  \E at : AreStarts(at, fs, kept, n + 1)
    OBVIOUS
  <2>1. PICK at : AreStarts(at, fs, kept, n)
    BY <1>2
  <2> DEFINE next1 == IF n = 0 THEN 0 ELSE at[n] + Step(fs, kept, n)
             more == [i \in 1 .. n + 1 |-> IF i <= n THEN at[i] ELSE next1]
  <2>2. next1 \in Nat
    BY <2>1, Steps DEF AreStarts
  <2>3. more \in [1 .. n + 1 -> Nat]
    BY <2>1, <2>2 DEF AreStarts
  <2>4. ASSUME NEW i \in 1 .. n + 1
        PROVE  more[i] = IF i = 1 THEN 0 ELSE more[i - 1] + Step(fs, kept, i - 1)
    <3>1. CASE i <= n
      BY <2>1, <3>1 DEF AreStarts
    <3>2. CASE i = n + 1
      BY <2>1, <3>2
    <3> QED
      BY <3>1, <3>2
  <2>5. AreStarts(more, fs, kept, n + 1)
    BY <2>3, <2>4 DEF AreStarts
  <2> QED
    BY <2>5
<1> HIDE DEF S
<1>3. Nat \subseteq S
  BY <1>1, <1>2, NatSet
<1>4. Len(fs) \in S
  BY <1>3
<1> QED
  BY <1>4 DEF S

\* The recursive definition of Starts means what it says.
LEMMA StartsAre ==
    ASSUME NEW fs \in Seq(Field), NEW kept
    PROVE  AreStarts(Starts(fs, kept), fs, kept, Len(fs))
<1> DEFINE Rec(at) == at = [i \in 1 .. Len(fs) |->
            IF i = 1 THEN 0
            ELSE at[i - 1] + (IF fs[i - 1] \in kept THEN Width(fs[i - 1]) ELSE 0)]
<1>1. PICK at : AreStarts(at, fs, kept, Len(fs))
  BY StartsExist
<1>2. Rec(at)
  BY <1>1 DEF AreStarts, Step
<1>3. Starts(fs, kept) = CHOOSE a : Rec(a)
  BY DEF Starts
<1>4. Rec(Starts(fs, kept))
  <2> HIDE DEF Rec
  <2> QED BY <1>2, <1>3, Zenon
<1> DEFINE a == Starts(fs, kept)
<1> HIDE DEF a
<1>5. a = [i \in 1 .. Len(fs) |-> IF i = 1 THEN 0 ELSE a[i - 1] + Step(fs, kept, i - 1)]
  BY <1>4 DEF Step, a
<1> HIDE DEF Rec
<1>6. DOMAIN a = 1 .. Len(fs)
  BY <1>5
<1>7. \A i \in 1 .. Len(fs) :
         a[i] = IF i = 1 THEN 0 ELSE a[i - 1] + Step(fs, kept, i - 1)
  BY <1>5
<1> DEFINE S == {n \in Nat : n + 1 \in 1 .. Len(fs) => a[n + 1] \in Nat}
<1>8. 0 \in S
  BY <1>7
<1>9. ASSUME NEW n \in Nat, n \in S PROVE n + 1 \in S
  <2> SUFFICES ASSUME n + 2 \in 1 .. Len(fs) PROVE a[n + 2] \in Nat
    OBVIOUS
  <2>1. a[n + 2] = a[n + 1] + Step(fs, kept, n + 1)
    BY <1>7
  <2>2. n + 1 \in 1 .. Len(fs)
    OBVIOUS
  <2> QED
    BY <1>9, <2>1, <2>2, Steps
<1> HIDE DEF S
<1>10. Nat \subseteq S
  BY <1>8, <1>9, NatSet
<1>11. ASSUME NEW i \in 1 .. Len(fs) PROVE a[i] \in Nat
  <2>1. i - 1 \in S
    BY <1>10
  <2> QED
    BY <2>1 DEF S
<1>12. a \in [1 .. Len(fs) -> Nat]
  BY <1>5, <1>6, <1>11
<1> QED
  BY <1>7, <1>12 DEF AreStarts, a

\* A field begins where the one before it ends, or later.
LEMMA StartsGrow ==
    ASSUME NEW fs \in Seq(Field), NEW kept,
           NEW i \in 1 .. Len(fs), NEW j \in 1 .. Len(fs), i < j
    PROVE  Starts(fs, kept)[i] + Step(fs, kept, i) <= Starts(fs, kept)[j]
<1> DEFINE a == Starts(fs, kept)
           S == {n \in Nat : i + 1 + n <= Len(fs) =>
                                a[i] + Step(fs, kept, i) <= a[i + 1 + n]}
<1>1. AreStarts(a, fs, kept, Len(fs))
  BY StartsAre
<1> HIDE DEF a
<1>2. 0 \in S
  BY <1>1, Steps DEF AreStarts
<1>3. ASSUME NEW n \in Nat, n \in S PROVE n + 1 \in S
  <2> SUFFICES ASSUME i + 2 + n <= Len(fs)
               PROVE  a[i] + Step(fs, kept, i) <= a[i + 2 + n]
    OBVIOUS
  <2>0. i + 1 + n \in 1 .. Len(fs) /\ i + 2 + n \in 1 .. Len(fs) /\ i + 2 + n # 1
        /\ (i + 2 + n) - 1 = i + 1 + n
    OBVIOUS
  <2>1. a[i + 2 + n] = a[i + 1 + n] + Step(fs, kept, i + 1 + n)
    BY <1>1, <2>0 DEF AreStarts
  <2>2. Step(fs, kept, i + 1 + n) \in Nat /\ Step(fs, kept, i) \in Nat
        /\ a[i + 1 + n] \in Nat /\ a[i] \in Nat
    BY <1>1, <2>0, Steps DEF AreStarts
  <2>3. a[i] + Step(fs, kept, i) <= a[i + 1 + n]
    BY <1>3, <2>0
  <2> QED
    BY <2>1, <2>2, <2>3
<1> HIDE DEF S
<1>4. Nat \subseteq S
  BY <1>2, <1>3, NatSet
<1>5. j - (i + 1) \in S
  BY <1>4
<1> QED
  BY <1>5 DEF S, a

\* As long as the simulator refuses nothing, it packs where the layout looks.
LEMMA StartsAgree ==
    ASSUME NEW fs \in Seq(Field), NEW i \in 1 .. Len(fs),
           \A j \in 1 .. i : fs[j] \in Known
    PROVE  \A j \in 1 .. i : Starts(fs, Field)[j] = Starts(fs, Known)[j]
<1> DEFINE a == Starts(fs, Field)
           b == Starts(fs, Known)
           S == {n \in Nat : n + 1 <= i => a[n + 1] = b[n + 1]}
<1>1. AreStarts(a, fs, Field, Len(fs)) /\ AreStarts(b, fs, Known, Len(fs))
  BY StartsAre
<1> HIDE DEF a, b
<1>2. 0 \in S
  BY <1>1 DEF AreStarts
<1>3. ASSUME NEW n \in Nat, n \in S PROVE n + 1 \in S
  <2> SUFFICES ASSUME n + 2 <= i PROVE a[n + 2] = b[n + 2]
    OBVIOUS
  <2>1. a[n + 1] = b[n + 1]
    BY <1>3
  <2>2. Step(fs, Field, n + 1) = Step(fs, Known, n + 1)
    BY DEF Step
  <2>3. /\ a[n + 2] = a[n + 1] + Step(fs, Field, n + 1)
        /\ b[n + 2] = b[n + 1] + Step(fs, Known, n + 1)
    BY <1>1 DEF AreStarts
  <2> QED
    BY <2>1, <2>2, <2>3
<1> HIDE DEF S
<1>4. Nat \subseteq S
  BY <1>2, <1>3, NatSet
<1>5. ASSUME NEW j \in 1 .. i PROVE a[j] = b[j]
  <2>1. j - 1 \in S
    BY <1>4
  <2> QED
    BY <2>1 DEF S
<1> QED
  BY <1>5 DEF a, b

\* Where the layout looks for field i, the simulator has packed field i and
\* nothing else, unless it refused that field or one before it.
LEMMA ReadsOwn ==
    ASSUME NEW fs, Proper(fs), NEW i \in 1 .. Len(fs),
           \A j \in 1 .. i : fs[j] \in Known
    PROVE  ReadAt(fs, Starts(fs, Field)[i], DataType[fs[i]]) = fs[i]
<1> DEFINE b == Starts(fs, Known)
           at == Starts(fs, Field)[i]
           there == {p \in Packed(fs) : p.at = at /\ DataType[p.field] = DataType[fs[i]]}
<1>0. fs \in Seq(Field)
  BY DEF Proper
<1>1. AreStarts(b, fs, Known, Len(fs)) /\ at = b[i]
  BY <1>0, StartsAre, StartsAgree
<1>2. \A j, k \in 1 .. Len(fs) : j < k => b[j] + Step(fs, Known, j) <= b[k]
  BY <1>0, StartsGrow
<1>p. Packed(fs) = {[field |-> fs[j], at |-> b[j]] : j \in {k \in 1 .. Len(fs) : fs[k] \in Known}}
  BY DEF Packed
<1> HIDE DEF b, at
<1>3. ASSUME NEW j \in 1 .. Len(fs), fs[j] \in Known, b[j] = at PROVE j = i
  <2>1. CASE Len(fs) <= 1
    BY <2>1
  <2>2. CASE \A k \in 1 .. Len(fs) : Numeric(fs[k])
    <3>1. \A k \in 1 .. Len(fs) : fs[k] \in Known => Step(fs, Known, k) \in Nat \ {0}
      BY <1>0, <2>2, Widths DEF Step
    <3>2. b[j] \in Nat /\ b[i] \in Nat
      BY <1>1 DEF AreStarts
    <3>3. Step(fs, Known, j) \in Nat \ {0} /\ Step(fs, Known, i) \in Nat \ {0}
      BY <3>1, <1>3
    <3>4. ~ (j < i) /\ ~ (i < j)
      BY <1>1, <1>2, <1>3, <3>2, <3>3
    <3> QED
      BY <3>4
  <2> QED
    BY <2>1, <2>2 DEF Proper
<1>4. [field |-> fs[i], at |-> b[i]] \in there
  BY <1>1, <1>p
<1>5. \A p \in there : p.field = fs[i]
  BY <1>3, <1>p
<1> HIDE DEF there
<1>6. (CHOOSE p \in there : TRUE) \in there
  BY <1>4
<1>7. ReadAt(fs, at, DataType[fs[i]]) = (CHOOSE p \in there : TRUE).field
  BY <1>4 DEF ReadAt, there
<1> QED
  BY <1>5, <1>6, <1>7 DEF at

LEMMA DecodesOwn ==
    ASSUME NEW fs, Proper(fs)
    PROVE  Own(fs, Decode(fs, fs))
<1> SUFFICES ASSUME NEW e \in Decode(fs, fs), KnownUpTo(fs, e.key)
             PROVE  e.value = e.key
  BY DEF Own
<1>1. PICK i \in 1 .. Len(fs) :
         /\ e.key = fs[i]
         /\ e.value = ReadAt(fs, Starts(fs, Field)[i], DataType[fs[i]])
  BY DEF Decode, Layout
<1>2. \A j \in 1 .. i : fs[j] \in Known
  BY <1>1 DEF KnownUpTo
<1> QED
  BY <1>1, <1>2, ReadsOwn

Number == {f \in Field : Numeric(f)}

\* The list g[i - 1] of the numbers before field i, and that field.
Kept(g, fs, i) == IF Numeric(fs[i]) THEN Append(g[i - 1], fs[i]) ELSE g[i - 1]

AreKept(g, fs, n) ==
    /\ g \in [0 .. n -> Seq(Number)]
    /\ \A i \in 0 .. n : g[i] = IF i = 0 THEN << >> ELSE Kept(g, fs, i)

LEMMA KeptType ==
    ASSUME NEW fs \in Seq(Field), NEW i \in 1 .. Len(fs), NEW g,
           g[i - 1] \in Seq(Number)
    PROVE  Kept(g, fs, i) \in Seq(Number)
<1>1. fs[i] \in Field
  OBVIOUS
<1>2. Numeric(fs[i]) => fs[i] \in Number
  BY <1>1 DEF Number
<1>3. Numeric(fs[i]) => Append(g[i - 1], fs[i]) \in Seq(Number)
  BY <1>2
<1> QED
  BY <1>3 DEF Kept

LEMMA KeptExist ==
    ASSUME NEW fs \in Seq(Field)
    PROVE  \E g : AreKept(g, fs, Len(fs))
<1> DEFINE S == {n \in Nat : n <= Len(fs) => \E g : AreKept(g, fs, n)}
<1>1. 0 \in S
  <2>1. << >> \in Seq(Number)
    OBVIOUS
  <2>2. AreKept([i \in 0 .. 0 |-> << >>], fs, 0)
    BY <2>1 DEF AreKept
  <2> QED
    BY <2>2
<1>2. ASSUME NEW n \in Nat, n \in S
      PROVE  n + 1 \in S
  <2> SUFFICES ASSUME n + 1 <= Len(fs)
               PROVE  \E g : AreKept(g, fs, n + 1)
    OBVIOUS
  <2>1. PICK g : AreKept(g, fs, n)
    BY <1>2
  <2> DEFINE last == Kept(g, fs, n + 1)
             more == [i \in 0 .. n + 1 |-> IF i <= n THEN g[i] ELSE last]
  <2>2. last \in Seq(Number)
    <3>1. g[(n + 1) - 1] \in Seq(Number)
      BY <2>1 DEF AreKept
    <3> QED
      BY <3>1, KeptType
  <2> HIDE DEF last
  <2>3. more \in [0 .. n + 1 -> Seq(Number)]
    BY <2>1, <2>2 DEF AreKept
  <2>4. ASSUME NEW i \in 0 .. n + 1
        PROVE  more[i] = IF i = 0 THEN << >> ELSE Kept(more, fs, i)
    <3>1. CASE i = 0
      BY <2>1, <3>1 DEF AreKept
    <3>2. CASE i \in 1 .. n
      <4>1. more[i] = g[i] /\ more[i - 1] = g[i - 1]
        BY <3>2
      <4>2. g[i] = Kept(g, fs, i)
        BY <2>1, <3>2 DEF AreKept
      <4> QED
        BY <3>2, <4>1, <4>2 DEF Kept
    <3>3. CASE i = n + 1
      <4>1. more[i] = last /\ more[i - 1] = g[i - 1] /\ i # 0
        BY <3>3
      <4> QED
        BY <3>3, <4>1 DEF Kept, last
    <3> QED
      BY <3>1, <3>2, <3>3
  <2>5. AreKept(more, fs, n + 1)
    BY <2>3, <2>4 DEF AreKept
  <2> QED
    BY <2>5
<1> HIDE DEF S
<1>3. Nat \subseteq S
  BY <1>1, <1>2, NatSet
<1>4. Len(fs) \in S
  BY <1>3
<1> QED
  BY <1>4 DEF S

\* What Numbers keeps are numbers.
LEMMA NumbersProper ==
    ASSUME NEW fs \in Seq(Field)
    PROVE  Proper(Numbers(fs))
<1> DEFINE Rec(g) == g = [i \in 0 .. Len(fs) |->
            IF i = 0 THEN << >>
            ELSE IF Numeric(fs[i]) THEN Append(g[i - 1], fs[i]) ELSE g[i - 1]]
           u == CHOOSE g : Rec(g)
           S == {n \in Nat : n <= Len(fs) => u[n] \in Seq(Number)}
<1>1. PICK g : AreKept(g, fs, Len(fs))
  BY KeptExist
<1>2. Rec(g)
  BY <1>1 DEF AreKept, Kept
<1>3. Numbers(fs) = u[Len(fs)]
  BY DEF Numbers
<1>4. Rec(u)
  <2> HIDE DEF Rec
  <2> QED
    BY <1>2, Zenon
<1> HIDE DEF u
<1>5. \A i \in 0 .. Len(fs) : u[i] = IF i = 0 THEN << >> ELSE Kept(u, fs, i)
  BY <1>4 DEF Kept
<1> HIDE DEF Rec
<1>6. 0 \in S
  <2>1. u[0] = << >>
    BY <1>5
  <2>2. << >> \in Seq(Number)
    OBVIOUS
  <2> QED
    BY <2>1, <2>2
<1>7. ASSUME NEW n \in Nat, n \in S
      PROVE  n + 1 \in S
  <2> SUFFICES ASSUME n + 1 <= Len(fs)
               PROVE  u[n + 1] \in Seq(Number)
    OBVIOUS
  <2>1. u[(n + 1) - 1] \in Seq(Number)
    BY <1>7
  <2>2. Kept(u, fs, n + 1) \in Seq(Number)
    BY <2>1, KeptType
  <2> QED
    BY <1>5, <2>2
<1> HIDE DEF S
<1>8. Nat \subseteq S
  BY <1>6, <1>7, NatSet
<1>9. Len(fs) \in S
  BY <1>8
<1>10. Numbers(fs) \in Seq(Number)
  BY <1>3, <1>9 DEF S
<1> QED
  BY <1>10 DEF Proper, Number

LEMMA NoStringsProper ==
    ASSUME NEW fs \in Seq(Field), Strings(fs) = {}
    PROVE  Proper(fs)
BY DEF Strings, Proper

LEMMA SingleProper ==
    ASSUME NEW f \in Field
    PROVE  Proper(<<f>>)
BY DEF Proper

-----------------------------------------------------------------------------

\* Nobody asks for anything but a proper list.
ListInv ==
    /\ Proper(app.batch)
    /\ \A r \in subs \cup reading \cup wire : Proper(r.fields)

LEMMA ListInit == Init => ListInv
BY DEF Init, Idle, ListInv, Proper

LEMMA ListStep == TypeInv /\ ListInv /\ [Next]_vs => ListInv'
<1> SUFFICES ASSUME TypeInv, ListInv, [Next]_vs
             PROVE  ListInv'
  OBVIOUS
<1>0. \/ Next
      \/ UNCHANGED vs
  OBVIOUS
<1>e. Proper(<< >>)
  BY DEF Proper
<1>u. ASSUME app'.batch = app.batch \/ app'.batch = << >>,
             \A r \in (subs \cup reading \cup wire)' :
                \E q \in subs \cup reading \cup wire : r.fields = q.fields
      PROVE  ListInv'
  BY <1>u, <1>e DEF ListInv
<1>1. ASSUME NEW f \in Vars, Subscribe(f)
      PROVE  ListInv'
  BY <1>1, <1>u DEF Subscribe, Idle
<1>2. ASSUME NEW fs \in SubLists, SubscribeMany(fs)
      PROVE  ListInv'
  <2>1. fs \in Seq(Field)
    BY FieldAssumption
  <2>2. /\ \/ Strings(fs) = {} /\ app'.batch = fs
           \/ app'.batch = Numbers(fs)
        /\ UNCHANGED <<subs, reading, wire>>
    BY <1>2 DEF SubscribeMany, Idle
  <2>3. Proper(app'.batch)
    BY <2>1, <2>2, NoStringsProper, NumbersProper
  <2> QED
    BY <2>2, <2>3 DEF ListInv
<1>3. CASE MakeBatch
  <2>1. /\ subs' = subs \cup {[id |-> next.sub, fields |-> app.batch, many |-> TRUE]}
        /\ app'.batch = << >> /\ UNCHANGED <<reading, wire>>
    BY <1>3 DEF MakeBatch, TypeInv, AppInv
  <2> QED
    BY <2>1, <1>e DEF ListInv
<1>4. CASE MakeSingle
  <2>1. PICK f \in app.singles :
        /\ subs' = subs \cup {[id |-> next.sub, fields |-> <<f>>, many |-> FALSE]}
        /\ app'.batch = app.batch /\ UNCHANGED <<reading, wire>>
    BY <1>4 DEF MakeSingle, TypeInv, AppInv
  <2>2. Proper(<<f>>)
    BY SingleProper DEF TypeInv
  <2> QED
    BY <2>1, <2>2 DEF ListInv
<1>5. CASE Made
  <2>1. app'.batch = app.batch \/ app'.batch = << >>
    BY <1>5 DEF Made, Idle, TypeInv, AppInv
  <2> QED
    BY <1>5, <2>1, <1>u DEF Made
<1>6. CASE Unsubscribe
  BY <1>6, <1>u DEF Unsubscribe, Idle
<1>7. CASE DropInfo
  <2>1. subs' \subseteq subs /\ app'.batch = app.batch /\ UNCHANGED <<reading, wire>>
    BY <1>7 DEF DropInfo, TypeInv, AppInv
  <2> QED
    BY <2>1, <1>u
<1>8. CASE Dropped
  <2>1. app'.batch = app.batch /\ UNCHANGED <<subs, reading, wire>>
    BY <1>8 DEF Dropped, TypeInv, AppInv
  <2> QED
    BY <2>1, <1>u
<1>9. ASSUME NEW fs \in ReadLists, GetMany(fs)
      PROVE  ListInv'
  <2>1. /\ reading' = {Box(next.many, fs, {})} /\ Strings(fs) = {}
        /\ UNCHANGED <<app, subs, wire>>
    BY <1>9 DEF GetMany, made
  <2>2. Proper(fs)
    BY <2>1, FieldAssumption, NoStringsProper
  <2> QED
    BY <2>1, <2>2 DEF ListInv, Box
<1>10. ASSUME NEW f \in Vars, Get(f)
       PROVE  ListInv'
  <2>1. /\ \E d : reading' = {Box(d, <<f>>, {})}
        /\ UNCHANGED <<app, subs, wire>>
    BY <1>10 DEF Get, made
  <2>2. Proper(<<f>>)
    BY FieldAssumption, SingleProper
  <2> QED
    BY <2>1, <2>2 DEF ListInv, Box
<1>11. CASE ReadEnds
  BY <1>11, <1>u DEF ReadEnds, made
<1>12. CASE Receive
  <2>1. PICK m \in wire :
           /\ wire' = wire \ {m}
           /\ reading' = {IF r \in Lookup(Req(m), reading)
                          THEN Box(r.id, r.fields, Decode(r.fields, m.fields))
                          ELSE r : r \in reading}
           /\ UNCHANGED <<app, subs>>
    BY <1>12 DEF Receive, made
  <2>2. \A r \in reading' : \E q \in reading : r.fields = q.fields
    BY <2>1 DEF Box
  <2> QED
    BY <2>1, <2>2, <1>u
<1>13. CASE SimSends
  <2>1. PICK s \in subs \cup reading : \E type \in BOOLEAN :
           wire' = wire \cup {Message(s, type)}
    BY <1>13 DEF SimSends
  <2>2. UNCHANGED <<app, subs, reading>>
    BY <1>13 DEF SimSends, made
  <2> QED
    BY <2>1, <2>2, <1>u DEF Message
<1>14. /\ \A n : GetManyCalls(n) => UNCHANGED <<app, subs, reading, wire>>
       /\ \A d : Renews(d) \/ Ages(d) => UNCHANGED <<app, subs, reading, wire>>
       /\ CallBack \/ Implausible \/ UNCHANGED vs
             => UNCHANGED <<app, subs, reading, wire>>
  BY DEF GetManyCalls, Renews, Ages, CallBack, Implausible, vs, made
<1>15. UNCHANGED <<app, subs, reading, wire>> => ListInv'
  BY <1>u
<1> QED
  BY <1>0, <1>1, <1>2, <1>3, <1>4, <1>5, <1>6, <1>7, <1>8, <1>9, <1>10, <1>11,
     <1>12, <1>13, <1>14, <1>15, NextCases

\* What ValuesAreOwn says of each value.
AllOwn ==
    /\ \A h \in hand : Own(h.fields, h.values)
    /\ \A r \in reading : Own(r.fields, r.value)

LEMMA OwnStep ==
    TypeInv /\ TypeInv' /\ UseInv /\ ListInv /\ ValuesAreOwn /\ [Next]_vs
        => ValuesAreOwn'
<1> SUFFICES ASSUME TypeInv, TypeInv', UseInv, ListInv, ValuesAreOwn, [Next]_vs,
                    InRange'
             PROVE  AllOwn'
  BY DEF ValuesAreOwn, AllOwn
<1>0. \/ Next
      \/ UNCHANGED vs
  OBVIOUS
<1>r. InRange
  <2>1. Growth
    BY GrowthStep DEF TypeInv
  <2> QED
    BY <2>1, RangeStays DEF TypeInv
<1>u. ASSUME hand' \subseteq hand, reading' \subseteq reading
      PROVE  AllOwn'
  BY <1>u, <1>r DEF ValuesAreOwn, AllOwn
<1>n. ASSUME NEW d, NEW fs, hand' = hand, reading' = {Box(d, fs, {})}
      PROVE  AllOwn'
  BY <1>n, <1>r DEF ValuesAreOwn, AllOwn, Own, Box
<1>1. ASSUME NEW fs \in ReadLists, GetMany(fs)
      PROVE  AllOwn'
  BY <1>1, <1>n DEF GetMany
<1>2. ASSUME NEW f \in Vars, Get(f)
      PROVE  AllOwn'
  BY <1>2, <1>n DEF Get
<1>3. CASE Receive
  <2>1. PICK m \in wire :
           /\ reading' = {IF r \in Lookup(Req(m), reading)
                          THEN Box(r.id, r.fields, Decode(r.fields, m.fields))
                          ELSE r : r \in reading}
           /\ hand' = {[req |-> Req(m), fields |-> s.fields,
                        values |-> Decode(s.fields, m.fields)] :
                          s \in Lookup(Req(m), subs)}
    BY <1>3 DEF Receive
  <2>2. ASSUME NEW r \in subs \cup reading, Finds(Req(m), r.id)
        PROVE  Own(r.fields, Decode(r.fields, m.fields))
    <3>1. r.fields = m.fields
      BY <1>r, <2>2, InRangeNoCrossing DEF ReadersExpectTheirData, TypeInv
    <3>2. Proper(r.fields)
      BY DEF ListInv
    <3> QED
      BY <3>1, <3>2, DecodesOwn
  <2>3. \A R : \A r \in Lookup(Req(m), R) : r \in R /\ Finds(Req(m), r.id)
    BY DEF Lookup, Finds
  <2>4. ASSUME NEW h \in hand' PROVE Own(h.fields, h.values)
    BY <2>1, <2>2, <2>3
  <2>5. ASSUME NEW q \in reading' PROVE Own(q.fields, q.value)
    <3>1. PICK r \in reading :
             q = IF r \in Lookup(Req(m), reading)
                 THEN Box(r.id, r.fields, Decode(r.fields, m.fields)) ELSE r
      BY <2>1
    <3>2. CASE r \in Lookup(Req(m), reading)
      <4>1. q.fields = r.fields /\ q.value = Decode(r.fields, m.fields)
        BY <3>1, <3>2 DEF Box
      <4> QED
        BY <4>1, <2>2, <2>3, <3>2
    <3>3. CASE r \notin Lookup(Req(m), reading)
      BY <3>1, <3>3, <1>r DEF ValuesAreOwn
    <3> QED
      BY <3>2, <3>3
  <2> QED
    BY <2>4, <2>5 DEF AllOwn
<1>4. /\ \A f : Subscribe(f) => UNCHANGED <<hand, reading>>
      /\ \A fs : SubscribeMany(fs) => UNCHANGED <<hand, reading>>
      /\ \A n : GetManyCalls(n) => UNCHANGED <<hand, reading>>
      /\ \A d : Renews(d) \/ Ages(d) => UNCHANGED <<hand, reading>>
      /\ MakeBatch \/ MakeSingle \/ Made \/ Unsubscribe \/ DropInfo \/ Dropped
         \/ SimSends \/ UNCHANGED vs => UNCHANGED <<hand, reading>>
      /\ ReadEnds \/ CallBack \/ Implausible
            => hand' \subseteq hand /\ reading' \subseteq reading
  BY DEF Subscribe, SubscribeMany, GetManyCalls, Renews, Ages, MakeBatch,
         MakeSingle, Made, Unsubscribe, DropInfo, Dropped, SimSends, ReadEnds,
         CallBack, Implausible, vs
<1>5. UNCHANGED <<hand, reading>> => AllOwn'
  BY <1>u
<1>6. ReadEnds \/ CallBack \/ Implausible => AllOwn'
  BY <1>4, <1>u
<1> QED
  BY <1>0, <1>1, <1>2, <1>3, <1>4, <1>5, <1>6, NextCases

\* A callback or a read is given the value of its own field under each key, for
\* any mixture of datatypes, any number of fields and any order of messages, as
\* long as the counters are in range and the simulator refused neither that
\* field nor one before it (fields.py:47, sync_io.py:349).
THEOREM DecodedValuesAreOwn == Spec => []ValuesAreOwn
<1>1. Init => TypeInv /\ UseInv /\ ListInv /\ ValuesAreOwn
  BY TypeInit, UseInit, ListInit DEF Init, ValuesAreOwn
<1>2. (TypeInv /\ UseInv /\ ListInv /\ ValuesAreOwn) /\ [Next]_vs
         => (TypeInv /\ UseInv /\ ListInv /\ ValuesAreOwn)'
  BY TypeStep, UseStep, ListStep, OwnStep
<1> QED
  BY <1>1, <1>2, PTL DEF Spec
=============================================================================
