------------------------------ MODULE EAStates ------------------------------
(***************************************************************************)
(* The states of the EA and the transition matrix that CStateMachine       *)
(* enforces (Types.mqh, StateMachine.mqh).                                  *)
(***************************************************************************)

EAState == {"BOOT", "CONNECT", "WAIT_SESSION", "CHECK_RISK", "SCAN_SIGNAL",
            "AI_CONFIRMATION", "OPEN_POSITION", "MANAGE_POSITION",
            "POSITION_CLOSED", "DISCONNECTED"}

TransitionTable ==
  {<<"BOOT", "CONNECT">>,
   <<"CONNECT", "WAIT_SESSION">>,
   <<"WAIT_SESSION", "CHECK_RISK">>,
   <<"CHECK_RISK", "SCAN_SIGNAL">>,
   <<"CHECK_RISK", "WAIT_SESSION">>,
   <<"SCAN_SIGNAL", "AI_CONFIRMATION">>,
   <<"SCAN_SIGNAL", "WAIT_SESSION">>,
   <<"AI_CONFIRMATION", "OPEN_POSITION">>,
   <<"AI_CONFIRMATION", "WAIT_SESSION">>,
   <<"OPEN_POSITION", "MANAGE_POSITION">>,
   <<"MANAGE_POSITION", "POSITION_CLOSED">>,
   <<"POSITION_CLOSED", "WAIT_SESSION">>,
   <<"DISCONNECTED", "WAIT_SESSION">>}
  \cup ((EAState \ {"DISCONNECTED"}) \X {"DISCONNECTED"})

IsValidTransition(from, to) == <<from, to>> \in TransitionTable

\* Mutant: the move is made without consulting the matrix.
UncheckedTransitionTo(from, to) == to

\* TransitionTo moves if the matrix allows it and otherwise stays.
TransitionTo(from, to) == IF IsValidTransition(from, to) THEN to ELSE from

\* The states a timer scan leaves by asking the backend, and what it asks for.
Requested ==
  [CHECK_RISK      |-> "SCAN_SIGNAL",
   SCAN_SIGNAL     |-> "AI_CONFIRMATION",
   AI_CONFIRMATION |-> "OPEN_POSITION",
   OPEN_POSITION   |-> "MANAGE_POSITION"]

Scanning == {"CHECK_RISK", "SCAN_SIGNAL", "AI_CONFIRMATION"}
=============================================================================
