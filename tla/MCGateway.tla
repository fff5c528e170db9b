----------------------------- MODULE MCGateway -----------------------------
(***************************************************************************)
(* Instances of Gateway for TLC.                                           *)
(***************************************************************************)
EXTENDS Gateway

\* The session check and the scan are due in every call of OnTimer, the other
\* sections in every second call.
Crowded == [heartbeat |-> 2, session |-> 1, scan |-> 1, orphan |-> 2, report |-> 2]

\* The default configuration in seconds.
Defaults == [heartbeat |-> 30, session |-> 60, scan |-> 3, orphan |-> 60, report |-> 5]

\* A backend that may send any command with any approval.
AnyCommand == [s \in DOMAIN Requested |-> {"OPEN", "CLOSE"}]

\* The backend of this repository: a trade command comes with the approval of
\* SCAN_SIGNAL -> AI_CONFIRMATION and with no other.
TradeOnSignal == [s \in DOMAIN Requested |-> IF s = "SCAN_SIGNAL" THEN {"OPEN"} ELSE {}]
=============================================================================
