---------------------------- MODULE PumpContract ----------------------------
(***************************************************************************)
(* What the rest of the client may rely on about its dispatch thread,      *)
(* without locks, events, joins or the steps of starting one: a thread is  *)
(* started only when no other is alive; one that was told to stop does not *)
(* resume; none ends without being told, unless native code hung; and once *)
(* that has happened none is started any more.                             *)
(***************************************************************************)
CONSTANT DispatchThread

VARIABLES
    alive,  \* the dispatch threads that are alive
    told,   \* the one that is alive was told to stop
    hung    \* native_hung

Init == alive = {} /\ told = FALSE /\ hung = FALSE

Start ==
    /\ alive = {} /\ ~hung
    /\ \E p \in DispatchThread : alive' = {p}
    /\ UNCHANGED <<told, hung>>

Tell ==
    /\ alive # {} /\ told' = TRUE
    /\ UNCHANGED <<alive, hung>>

Ends == alive' = {} /\ told' = FALSE

Exit == (told \/ hung) /\ Ends /\ UNCHANGED hung

\* A call of native code has blocked, or outlasted a join; a thread inside
\* SimConnect_Open gives up.
Hang == hung' = TRUE /\ (Ends \/ UNCHANGED <<alive, told>>)

Next == Start \/ Tell \/ Exit \/ Hang

Spec == Init /\ [][Next]_<<alive, told, hung>>
=============================================================================
