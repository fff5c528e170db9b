--------------------------- MODULE MCSignalEngine ---------------------------
(***************************************************************************)
(* Instances of SignalEngine for TLC.                                      *)
(***************************************************************************)
EXTENDS SignalEngine

LondonHours == <<8, 16>>
NewYorkHours == <<13, 21>>

\* Within the sessions and after them.
SomeHours == {20, 21}

\* Spreads below and at the limit of 2.
SomeTicks == {[bid |-> 10, ask |-> 10 + s, spread |-> s] : s \in {1, 2}}
=============================================================================
