---------------------------- MODULE StateMachine ----------------------------
(***************************************************************************)
(* What CStateMachine promises to everything that holds a pointer to it:   *)
(* a machine is born in BOOT, moves one valid transition at a time, and    *)
(* only the construction of a new machine takes the EA back to BOOT.       *)
(***************************************************************************)
EXTENDS EAStates

VARIABLE m_currentState

Init == m_currentState = "BOOT"

\* A successful call of TransitionTo; a rejected call is a stuttering step.
Move == /\ \E to \in EAState : /\ IsValidTransition(m_currentState, to)
                               /\ m_currentState' = to

\* OnDeinit deletes the machine and a later OnInit constructs another one.
Construct == m_currentState' = "BOOT"

Next == Move \/ Construct

Spec == Init /\ [][Next]_m_currentState
=============================================================================
