--------------------------- MODULE WriteContract ---------------------------
(***************************************************************************)
(* What set(), trigger() and submit() promise the application, without     *)
(* the pump, the counter, the flags or the owner's calls: a write that is  *)
(* accepted waits in line, writes in line begin one at a time and in the   *)
(* order of the line, and each is answered once.  An answer is final; a    *)
(* write answered "cancelled" never began.                                 *)
(***************************************************************************)
EXTENDS Sequences

CONSTANT Op    \* the writes the application will ever submit

VARIABLES
    line,      \* the writes that wait for their turn, in order of acceptance
    state      \* what the application can know of each write

Answer == {"ok", "error"}

InLine(o) == \E i \in DOMAIN line : line[i] = o

Init == line = <<>> /\ state = [o \in Op |-> "idle"]

\* RuntimeError to the caller: the write never enters.
Refuse(o) ==
    /\ state[o] = "idle"
    /\ state' = [state EXCEPT ![o] = "refused"]
    /\ UNCHANGED line

Accept(o) ==
    /\ state[o] = "idle"
    /\ state' = [state EXCEPT ![o] = "waiting"]
    /\ line' = Append(line, o)

\* Only the first of the line begins, and nothing else is running then.
Begin(o) ==
    /\ line # <<>> /\ o = Head(line)
    /\ \A p \in Op : state[p] # "running"
    /\ state' = [state EXCEPT ![o] = "running"]
    /\ line' = Tail(line)

Answered(o, r) ==
    /\ state[o] = "running"
    /\ state' = [state EXCEPT ![o] = r]
    /\ UNCHANGED line

\* No pump, or on the pump itself: executed in the call that submits it.
AtOnce(o, r) ==
    /\ state[o] = "idle"
    /\ state' = [state EXCEPT ![o] = r]
    /\ UNCHANGED line

\* close() answers everything in line, and nothing else, in one step.
CancelLine ==
    /\ state' = [o \in Op |-> IF InLine(o) THEN "cancelled" ELSE state[o]]
    /\ line' = <<>>

Next ==
    \/ \E o \in Op : \/ Refuse(o) \/ Accept(o) \/ Begin(o)
                     \/ \E r \in Answer : Answered(o, r) \/ AtOnce(o, r)
    \/ CancelLine

Spec == Init /\ [][Next]_<<line, state>>
=============================================================================
