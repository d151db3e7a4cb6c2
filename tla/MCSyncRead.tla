----------------------------- MODULE MCSyncRead -----------------------------
(***************************************************************************)
(* Instances of SyncRead for TLC.                                          *)
(***************************************************************************)
EXTENDS SyncRead, TLC

CONSTANTS a1, a2, alt, ias

MCApp == {a1, a2}
MCVar == {alt, ias}
MCSubscribed == {alt}

\* Reading in threads or in callbacks, and in both.
Either == {MCApp, {Callback}}
Both == {MCApp \cup {Callback}}
=============================================================================
