------------------------------ MODULE MCDelivery ------------------------------
(* Instances of Delivery for TLC.                                             *)
EXTENDS Delivery, TLC

CONSTANTS alt, flaps, title, rpm

\* FLOAT64, INT32, STRINGV: an altitude, a flap index, a title; and a field
\* that the simulator refuses.
Types == (alt :> 4) @@ (flaps :> 1) @@ (title :> 11) @@ (rpm :> 4)

\* Field lists: numbers of two widths, with a refused field after or between
\* them; numbers and a string.
Mixed == {<<flaps, alt, rpm>>, <<flaps, title, alt>>}
Refused == {<<flaps, alt>>, <<flaps, rpm, alt>>}
Numbered == {<<flaps, alt>>}
=============================================================================
