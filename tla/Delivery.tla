------------------------------ MODULE Delivery ------------------------------
(***************************************************************************)
(* Who receives a data message, how it is decoded, and how a subscription  *)
(* that falls silent is noticed (registry.py, subscribe.py, sync_io.py,    *)
(* fields.py, parsing.py): the id counters, the lookup of a message's      *)
(* request id among reads and subscriptions, the layout of batched fields, *)
(* composite subscriptions, and the times of the last callbacks.           *)
(*                                                                         *)
(* What the simulator holds for an id, and the loss of sessions, are the   *)
(* subject of Definitions; here every request stands.                      *)
(***************************************************************************)
EXTENDS Naturals, Sequences, FiniteSets

CONSTANTS
    Field,      \* the fields asked for; a field is its own key
    DataType,   \* the datatype of each field
    Known,      \* the fields whose SimVar the simulator knows
    Vars,       \* the fields passed to subscribe and get
    SubLists,   \* the mappings passed to subscribe_many
    ReadLists,  \* the mappings passed to get_many
    Garbage,    \* what is read where no field of that datatype lies
    VarStart,   \* Registry._VAR_ID_START
    ManyStart,  \* Registry._GET_MANY_ID_START
    TypeOffset, \* TYPE_REQ_OFFSET
    MaxSub, MaxVar, MaxMany, \* bounds: the counters,
    MaxLive, MaxWire,        \* subscriptions and messages at a time
    Burst       \* how many calls of get_many GetManyCalls stands for

ASSUME RangeAssumption ==
    /\ VarStart \in Nat /\ ManyStart \in Nat /\ TypeOffset \in Nat
    /\ 1 < VarStart /\ VarStart < ManyStart /\ ManyStart <= TypeOffset
ASSUME BurstAssumption == Burst \subseteq Nat
ASSUME FieldAssumption ==
    /\ DataType \in [Field -> Nat] /\ Known \subseteq Field /\ Vars \subseteq Field
    /\ SubLists \cup ReadLists \subseteq Seq(Field) /\ Garbage \notin Field

VARIABLES
    next,       \* _next_sub_id, _next_var_id, _next_get_many_id
    slot,       \* Registry._vars: the define id of a field's slot, or 0
    subs,       \* _subscriptions
    composites, \* _composite_subscriptions
    app,        \* the application's call: what it still has to do
    reading,    \* _pending_get: the box of the one read, with its value
    wire,       \* data messages on their way
    hand,       \* the decoded message whose callback is next
    touched,    \* _sub_last_callback: the subscriptions in it ...
    stale       \* ... and those of them older than 15 s

registry == <<next, slot>>
made == <<subs, composites, app>>
health == <<touched, stale>>
vs == <<registry, made, reading, wire, hand, health>>

Idle == [batch |-> << >>, singles |-> {}, parent |-> 0, made |-> {}, touch |-> 0,
         drop |-> {}, gone |-> {}]

Init ==
    /\ next = [sub |-> 1, var |-> VarStart, many |-> ManyStart]
    /\ slot = [f \in Field |-> 0]
    /\ subs = {} /\ composites = {} /\ app = Idle /\ reading = {}
    /\ wire = {} /\ hand = {} /\ touched = {} /\ stale = {}

-----------------------------------------------------------------------------
(* Fields.                                                                 *)

DATATYPE_SIZES == [d \in 1 .. 4 |-> IF d \in {2, 4} THEN 8 ELSE 4]

Numeric(f) == DataType[f] \in DOMAIN DATATYPE_SIZES
Strings(fs) == {f \in {fs[i] : i \in 1 .. Len(fs)} : ~Numeric(f)}

\* The numbers among fs, in their order.
Numbers(fs) ==
    LET upTo[i \in 0 .. Len(fs)] ==
            IF i = 0 THEN << >>
            ELSE IF Numeric(fs[i]) THEN Append(upTo[i - 1], fs[i]) ELSE upTo[i - 1]
    IN  upTo[Len(fs)]

\* A string has no size: it comes alone.
Width(f) == IF Numeric(f) THEN DATATYPE_SIZES[DataType[f]] ELSE 0

\* Where each field begins if those of fs that are kept are packed without gaps.
Starts(fs, kept) ==
    LET at[i \in 1 .. Len(fs)] ==
            IF i = 1 THEN 0
            ELSE at[i - 1] + (IF fs[i - 1] \in kept THEN Width(fs[i - 1]) ELSE 0)
    IN  at

\* Defective variant: every field takes eight bytes.
LayoutOfDoubles(fs) ==
    {[key |-> fs[i], at |-> 8 * (i - 1)] : i \in 1 .. Len(fs)}

\* build_field_layout.
Layout(fs) == {[key |-> fs[i], at |-> Starts(fs, Field)[i]] : i \in 1 .. Len(fs)}

\* The simulator packs the fields it knows in the order they were added.
Packed(fs) ==
    {[field |-> fs[i], at |-> Starts(fs, Known)[i]] :
        i \in {j \in 1 .. Len(fs) : fs[j] \in Known}}

\* read_data_at(base + offset, dtype).
ReadAt(sent, at, dtype) ==
    LET there == {p \in Packed(sent) : p.at = at /\ DataType[p.field] = dtype}
    IN  IF there = {} THEN Garbage ELSE (CHOOSE p \in there : TRUE).field

Decode(asked, sent) ==
    {[key |-> e.key, value |-> ReadAt(sent, e.at, DataType[e.key])] :
        e \in Layout(asked)}

-----------------------------------------------------------------------------
(* Subscribing and unsubscribing, on an application thread.                *)

\* The bounds allow n more ids, and k more subscriptions.
Room(n, k) == next.sub + n <= MaxSub + 1 /\ Cardinality(subs) + k <= MaxLive

Subscribe(f) ==
    /\ app = Idle /\ Room(1, 1)
    /\ app' = [Idle EXCEPT !.singles = {f}]
    /\ UNCHANGED <<registry, subs, composites, reading, wire, hand, health>>

\* With strings among the fields: a composite of one subscription for the
\* batch of numbers and one for each string.
SubscribeMany(fs) ==
    /\ app = Idle
    /\ LET n == Cardinality(Strings(fs)) + (IF Numbers(fs) = << >> THEN 0 ELSE 1)
       IN  IF Strings(fs) = {}
           THEN /\ Room(1, 1) /\ UNCHANGED next
                /\ app' = [Idle EXCEPT !.batch = fs]
           ELSE /\ Room(n + 1, n)
                /\ next' = [next EXCEPT !.sub = @ + 1]
                /\ app' = [Idle EXCEPT !.parent = next.sub, !.batch = Numbers(fs),
                                       !.singles = Strings(fs)]
    /\ UNCHANGED <<slot, subs, composites, reading, wire, hand, health>>

\* Below: the part of a subscription under _lock, with an id of its own.
MakeBatch ==
    /\ app.batch # << >> /\ app.touch = 0
    /\ LET d == next.sub
       IN  /\ next' = [next EXCEPT !.sub = d + 1]
           /\ subs' = subs \cup {[id |-> d, fields |-> app.batch, many |-> TRUE]}
           /\ app' = [app EXCEPT !.batch = << >>, !.touch = d, !.made = @ \cup {d}]
    /\ UNCHANGED <<slot, composites, reading, wire, hand, health>>

\* A single field takes over the slot of its variable.
MakeSingle ==
    /\ app.batch = << >> /\ app.touch = 0
    /\ \E f \in app.singles :
          LET d == next.sub
          IN  /\ next' = [next EXCEPT !.sub = d + 1,
                                      !.var = IF d >= @ THEN d + 1 ELSE @]
              /\ slot' = [slot EXCEPT ![f] = d]
              /\ subs' = subs \cup {[id |-> d, fields |-> <<f>>, many |-> FALSE]}
              /\ app' = [app EXCEPT !.singles = @ \ {f}, !.touch = d,
                                    !.made = @ \cup {d}]
    /\ UNCHANGED <<composites, reading, wire, hand, health>>

Touch(d) == touched' = touched \cup {d} /\ stale' = stale \ {d}

\* Defective variant: the parts of a composite are not entered.
MadeWithoutTouch ==
    /\ app.touch # 0
    /\ IF app.parent = 0 THEN Touch(app.touch) ELSE UNCHANGED <<touched, stale>>
    /\ IF app.batch # << >> \/ app.singles # {}
       THEN app' = [app EXCEPT !.touch = 0] /\ UNCHANGED composites
       ELSE /\ app' = Idle
            /\ composites' = IF app.parent = 0 THEN composites
                             ELSE composites \cup
                                  {[id |-> app.parent, children |-> app.made]}
    /\ UNCHANGED <<registry, subs, reading, wire, hand>>

\* The rest of it; the last one ends the call.
Made ==
    /\ app.touch # 0
    /\ Touch(app.touch)
    /\ IF app.batch # << >> \/ app.singles # {}
       THEN app' = [app EXCEPT !.touch = 0] /\ UNCHANGED composites
       ELSE /\ app' = Idle
            /\ composites' = IF app.parent = 0 THEN composites
                             ELSE composites \cup
                                  {[id |-> app.parent, children |-> app.made]}
    /\ UNCHANGED <<registry, subs, reading, wire, hand>>

\* The children of a composite are unsubscribed with it, one by one.
Unsubscribe ==
    /\ app = Idle
    /\ \/ \E c \in composites :
             /\ composites' = composites \ {c}
             /\ app' = [Idle EXCEPT !.drop = c.children]
       \/ \E s \in subs :
             /\ \A c \in composites : s.id \notin c.children
             /\ app' = [Idle EXCEPT !.drop = {s.id}]
             /\ UNCHANGED composites
    /\ UNCHANGED <<registry, subs, reading, wire, hand, health>>

\* Under _lock: the information goes.
DropInfo ==
    /\ app.gone = {}
    /\ \E s \in subs :
          /\ s.id \in app.drop
          /\ subs' = subs \ {s}
          /\ app' = [app EXCEPT !.drop = @ \ {s.id}, !.gone = {s}]
    /\ UNCHANGED <<registry, composites, reading, wire, hand, health>>

\* Then the definition, and the time of the last callback.
Dropped ==
    \E s \in app.gone :
        /\ slot' = IF s.many THEN slot ELSE [slot EXCEPT ![s.fields[1]] = 0]
        /\ touched' = touched \ {s.id} /\ stale' = stale \ {s.id}
        /\ app' = [app EXCEPT !.gone = {}]
        /\ UNCHANGED <<next, subs, composites, reading, wire, hand>>

-----------------------------------------------------------------------------
(* Reads: one at a time, under _get_lock.                                  *)

Box(d, fs, v) == [id |-> d, fields |-> fs, value |-> v]

\* Defective variant: get_many takes the next id of the subscriptions.
GetManySharesIds(fs) ==
    /\ reading = {} /\ Strings(fs) = {}
    /\ next.many <= MaxMany
    /\ next' = [next EXCEPT !.many = @ + 1]
    /\ reading' = {Box(next.sub, fs, {})}
    /\ UNCHANGED <<slot, made, wire, hand, health>>

GetMany(fs) ==
    /\ reading = {} /\ Strings(fs) = {}
    /\ next.many <= MaxMany
    /\ next' = [next EXCEPT !.many = @ + 1]
    /\ reading' = {Box(next.many, fs, {})}
    /\ UNCHANGED <<slot, made, wire, hand, health>>

\* Whole calls of get_many, one after the other, whose answers were taken.
GetManyCalls(n) ==
    /\ reading = {} /\ next.many + n <= MaxMany + 1
    /\ next' = [next EXCEPT !.many = @ + n]
    /\ UNCHANGED <<slot, made, reading, wire, hand, health>>

\* get: the id of the variable's slot, a new one if there is none.
Get(f) ==
    /\ reading = {}
    /\ \/ slot[f] # 0
          /\ reading' = {Box(slot[f], <<f>>, {})}
          /\ UNCHANGED registry
       \/ slot[f] = 0 /\ next.var <= MaxVar
          /\ reading' = {Box(next.var, <<f>>, {})}
          /\ slot' = [slot EXCEPT ![f] = next.var]
          /\ next' = [next EXCEPT !.var = @ + 1]
    /\ UNCHANGED <<made, wire, hand, health>>

\* With its value or without.
ReadEnds ==
    /\ reading # {} /\ reading' = {}
    /\ UNCHANGED <<registry, made, wire, hand, health>>

-----------------------------------------------------------------------------
(* Messages.                                                               *)

Message(r, type) == [id |-> r.id, type |-> type, fields |-> r.fields]

\* The request id it comes with.
Req(m) == IF m.type THEN m.id + TypeOffset ELSE m.id

\* The simulator sends what a subscription asked for, under its own id or as
\* the answer to a TYPE request, and the TYPE answer of a read.
SimSends ==
    /\ Cardinality(wire) < MaxWire
    /\ \/ \E s \in subs : wire' = wire \cup {Message(s, FALSE)}
       \/ \E s \in subs \cup reading : wire' = wire \cup {Message(s, TRUE)}
    /\ UNCHANGED <<registry, made, reading, hand, health>>

\* Does request id req find what is registered under id d?
Finds(req, d) == req = d \/ (req >= TypeOffset /\ d = req - TypeOffset)

\* The lookup prefers the id itself to the one without the offset.
Lookup(req, records) ==
    {r \in records : r.id = req}
    \cup {r \in records : Finds(req, r.id) /\ \A q \in records : q.id # req}

\* A message goes to the read that waits, then to the subscription.
Receive ==
    /\ hand = {}
    /\ \E m \in wire :
          /\ wire' = wire \ {m}
          /\ reading' = {IF r \in Lookup(Req(m), reading)
                         THEN Box(r.id, r.fields, Decode(r.fields, m.fields))
                         ELSE r : r \in reading}
          /\ hand' = {[req |-> Req(m), fields |-> s.fields,
                        values |-> Decode(s.fields, m.fields)] :
                         s \in Lookup(Req(m), subs)}
    /\ UNCHANGED <<registry, made, health>>

\* The callback runs and the id of the message is touched: for a TYPE answer
\* the offset id, which no subscription has and nobody looks at.
CallBack ==
    /\ \E h \in hand : IF h.req \in 1 .. MaxSub THEN Touch(h.req)
                       ELSE UNCHANGED <<touched, stale>>
    /\ hand' = {}
    /\ UNCHANGED <<registry, made, reading, wire>>

\* A value that is not plausible: the message is dropped.
Implausible ==
    /\ hand # {} /\ hand' = {}
    /\ UNCHANGED <<registry, made, reading, wire, health>>

-----------------------------------------------------------------------------
(* The health of subscriptions.                                            *)

\* Fifteen seconds without a callback; the age of other entries is not read.
Ages(d) ==
    /\ d \in touched \ stale /\ \E s \in subs : s.id = d
    /\ stale' = stale \cup {d}
    /\ UNCHANGED <<registry, made, reading, wire, hand, touched>>

\* unhealthy_subscriptions.
Unhealthy ==
    {d \in stale : (\E s \in subs : s.id = d) /\ \A c \in composites : c.id # d}

\* _auto_recover_subscriptions, between two CallDispatch: cancels and makes
\* again what was silent, one after the other.  A renewal that fails, or finds
\* that its subscription has gone meanwhile, changes nothing here.
Renews(d) ==
    /\ hand = {} /\ d \in Unhealthy
    /\ Touch(d)
    /\ UNCHANGED <<registry, made, reading, wire, hand>>

-----------------------------------------------------------------------------

Application ==
    \/ \E f \in Vars : Subscribe(f)
    \/ \E fs \in SubLists : SubscribeMany(fs)
    \/ MakeBatch \/ MakeSingle \/ Made \/ Unsubscribe \/ DropInfo \/ Dropped

Reader ==
    \/ \E fs \in ReadLists : GetMany(fs)
    \/ \E n \in Burst : GetManyCalls(n)
    \/ \E f \in Vars : Get(f)
    \/ ReadEnds

Pump == Receive \/ CallBack \/ Implausible \/ \E d \in stale : Renews(d)

Next == Application \/ Reader \/ Pump \/ SimSends \/ \E d \in touched : Ages(d)

Spec == Init /\ [][Next]_vs

-----------------------------------------------------------------------------
(* Properties.                                                             *)

\* Every counter is still in the range it was given.
InRange ==
    /\ next.sub <= VarStart /\ next.var <= ManyStart /\ next.many <= TypeOffset + 1

\* Whoever a message finds, a read or a subscription, asked for the fields
\* that were packed into it: no answer crosses to another's request
\* (registry.py:50: the ranges of ids are independent).
ReadersExpectTheirData ==
    \A m \in wire : \A r \in subs \cup reading :
        Finds(Req(m), r.id) => r.fields = m.fields

\* That holds until a counter has walked through its range.
NoCrossingInRange == InRange => ReadersExpectTheirData

\* The simulator knows every field of fs up to f.
KnownUpTo(fs, f) ==
    \A i \in 1 .. Len(fs) : fs[i] = f => \A j \in 1 .. i : fs[j] \in Known

Own(fs, values) ==
    \A e \in values : KnownUpTo(fs, e.key) => e.value = e.key

\* A callback or a read is given, under each key, the value of that key's
\* field, whatever the datatypes before it, unless the simulator refused that
\* field or one before it: a refusal harms only what follows (sync_io.py:349).
ValuesAreOwn ==
    InRange =>
        /\ \A h \in hand : Own(h.fields, h.values)
        /\ \A r \in reading : Own(r.fields, r.value)

\* Every live subscription is in the table of callback times once its call has
\* got that far: one that is missing there would count as healthy for ever and
\* never be renewed, however long it is silent (subscribe.py:83).
LiveIsWatched == \A s \in subs : s.id \in touched \cup {app.touch}
=============================================================================
