---------------------------- MODULE ReadContract ----------------------------
(***************************************************************************)
(* What get() and get_many() promise the application, without the locks,   *)
(* the boxes, the events and whoever dispatches: reads are served one at a *)
(* time, in any order; each ends once, with data or with an error; and the *)
(* data are those of one message about what was asked for, which no other  *)
(* read has returned and no other unfinished read is owed.                 *)
(***************************************************************************)
CONSTANTS
    Call,        \* the reads the application will ever make
    Var,         \* the variables of get; a get_many asks for its own list
    Subscribed,  \* variables that the simulator also sends unasked
    Push,        \* such a message; a call stands for the answer to it
    None

VARIABLES
    state,  \* what the application can know of each read
    asked,  \* the variable each asked for, or the read itself
    data    \* the message whose data it returned

Init ==
    /\ state = [c \in Call |-> "none"]
    /\ asked = [c \in Call |-> None]
    /\ data = [c \in Call |-> None]

Ask(c, what) ==
    /\ state[c] = "none"
    /\ state' = [state EXCEPT ![c] = "waiting"]
    /\ asked' = [asked EXCEPT ![c] = what]
    /\ UNCHANGED data

\* Only one read is in progress.
Begin(c) ==
    /\ state[c] = "waiting"
    /\ \A d \in Call : state[d] # "reading"
    /\ state' = [state EXCEPT ![c] = "reading"]
    /\ UNCHANGED <<asked, data>>

Fail(c) ==
    /\ state[c] = "reading"
    /\ state' = [state EXCEPT ![c] = "failed"]
    /\ UNCHANGED <<asked, data>>

Over(c) == state[c] \in {"value", "failed"}

\* Message m is about what c asked for, and c may have it.
Serves(m, c) ==
    \/ m = Push /\ asked[c] \in Subscribed
    \/ /\ m \in Call /\ asked[m] = asked[c]
       /\ m = c \/ Over(m)
       /\ \A d \in Call : data[d] # m

Return(c, m) ==
    /\ state[c] = "reading" /\ Serves(m, c)
    /\ state' = [state EXCEPT ![c] = "value"]
    /\ data' = [data EXCEPT ![c] = m]
    /\ UNCHANGED asked

Next == \E c \in Call :
    \/ \E what \in Var \cup {c} : Ask(c, what)
    \/ Begin(c) \/ Fail(c)
    \/ \E m \in Call \cup {Push} : Return(c, m)

Spec == Init /\ [][Next]_<<state, asked, data>>
=============================================================================
