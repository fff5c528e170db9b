--------------------------- MODULE Gateway_proofs ---------------------------
(***************************************************************************)
(* Theorems about Gateway, for every interval table, threshold, number of  *)
(* tickets and set of commands.                                            *)
(***************************************************************************)
EXTENDS Gateway, TLAPS

\* TransitionTo stays among the states, and what it does is a move of the matrix.
LEMMA TransitionToState ==
  ASSUME NEW from \in EAState, NEW to \in EAState
  PROVE  /\ TransitionTo(from, to) \in EAState
         /\ TransitionTo(from, to) \in {from, to}
         /\ \/ TransitionTo(from, to) = from
            \/ IsValidTransition(from, TransitionTo(from, to))
BY DEF TransitionTo

\* Between commands the command variable is well-typed.
LEMMA NoCommandTyped == NoCommand \in Command
BY TicketsAssumption DEF NoCommand, Command

\* Every request is for a state of the machine.
LEMMA RequestedState ==
  ASSUME NEW s \in DOMAIN Requested
  PROVE  Requested[s] \in EAState \ {"DISCONNECTED"}
BY DEF Requested, EAState

\* What OnTimer makes of the state a reply left behind.
LEMMA AfterRequestState ==
  ASSUME NEW now \in EAState
  PROVE  /\ AfterRequest(now) \in EAState
         /\ AfterRequest(now) \in {now, "WAIT_SESSION"}
BY TransitionToState DEF AfterRequest, EAState

\* Counters saturate at Threshold and keep their order.
LEMMA BumpRange ==
  ASSUME NEW m \in 0..Threshold, NEW n \in 0..Threshold, m <= n
  PROVE  /\ Bump(m) \in 0..Threshold
         /\ Bump(m) <= Bump(n)
BY ThresholdAssumption DEF Bump

\* A heartbeat keeps the link variables in range, and the failure count below
\* the number of heartbeats in a row that were not answered.
LEMMA HeartbeatRange ==
  ASSUME TypeOK, failures <= missed, NEW o \in Outcome, Heartbeat(o)
  PROVE  /\ connected' \in BOOLEAN
         /\ failures' \in 0..Threshold /\ missed' \in 0..Threshold
         /\ failures' <= missed'
<1> USE ThresholdAssumption DEF TypeOK
<1>1. connected' \in BOOLEAN
  BY DEF Heartbeat, ConnectedAfter
<1>2. o \in {"ok", "refused"} => connected'
  BY DEF Heartbeat, ConnectedAfter
<1>3. /\ missed' = IF o \in {"ok", "refused"} THEN 0 ELSE Bump(missed)
      /\ failures' = IF connected' THEN 0 ELSE Bump(failures)
  BY DEF Heartbeat, FailuresAfter
<1>4. Bump(missed) \in 0..Threshold /\ Bump(failures) \in 0..Threshold
      /\ Bump(failures) <= Bump(missed)
  BY BumpRange
<1> QED
  BY <1>1, <1>2, <1>3, <1>4

\* The outcomes of a Post are outcomes, whatever the backend does.
LEMMA AnswersAreOutcomes ==
  TypeOK => MayAnswer[backend] \subseteq Outcome
BY DEF TypeOK, MayAnswer, Outcome

\* m_isConnected stays Boolean.
LEMMA ConnectedRange ==
  ASSUME TypeOK
  PROVE  /\ \A o \in Outcome : ConnectedAfter(connected, o) \in BOOLEAN
         /\ ConnectedAfterPosts(connected) \subseteq BOOLEAN
BY DEF TypeOK, ConnectedAfter, ConnectedAfterPosts

-----------------------------------------------------------------------------
\* Types, and the order of the two counts, which a heartbeat needs of each other.
Typed == TypeOK /\ failures <= missed

\* Initially every variable has its type.
LEMMA TypedInit == Init => Typed
<1> SUFFICES ASSUME Init PROVE Typed
  OBVIOUS
<1> USE IntervalAssumption, ThresholdAssumption, TicketsAssumption
<1>1. count \in [Tasks -> Nat] /\ \A t \in Tasks : count[t] < Interval[t]
  BY DEF Init
<1>2. cmd \in Command
  BY DEF Init, Command, NoCommand
<1>3. fsm \in EAState /\ snapshot = "none"
  BY DEF Init, EAState
<1>4. positions \subseteq 1..issued /\ issued \in 0..MaxTickets
  BY DEF Init
<1>5. /\ failures \in 0..Threshold /\ missed \in 0..Threshold
      /\ failures <= missed /\ openTicket \in 0..MaxTickets
  BY DEF Init
<1> QED
  BY <1>1, <1>2, <1>3, <1>4, <1>5 DEF Init, Typed, TypeOK

\* OnInit, OnDeinit and the start of the two handlers keep the types.
LEMMA TypedStart ==
  ASSUME Typed, StartUp \/ StartInert \/ Stop \/ TimerFires \/ OnTick
  PROVE  Typed'
<1> USE IntervalAssumption, ThresholdAssumption, TicketsAssumption
        DEF Typed, TypeOK, linkVars, execVars, brokerVars, envVars
<1>1. CASE StartUp
  <2>1. fsm' \in EAState
    BY <1>1, TransitionToState DEF StartUp, EAState
  <2>2. hasOpen' \in BOOLEAN /\ openTicket' \in 0..MaxTickets
    BY <1>1 DEF StartUp, AdoptPosition
  <2> QED
    BY <1>1, <2>1, <2>2 DEF StartUp
<1>2. CASE StartInert
  BY <1>2 DEF StartInert
<1>3. CASE Stop
  <2>1. NoCommand \in Command
    BY NoCommandTyped
  <2>2. fsm' \in EAState
    BY <1>3 DEF Stop, EAState
  <2>3. /\ failures' \in 0..Threshold /\ missed' \in 0..Threshold
        /\ failures' <= missed' /\ openTicket' \in 0..MaxTickets
    BY <1>3 DEF Stop
  <2>4. /\ count' = count /\ issued' = issued /\ positions' = positions
        /\ inSession' = inSession /\ backend' = backend
    BY <1>3 DEF Stop
  <2> QED
    BY <1>3, <2>1, <2>2, <2>3, <2>4 DEF Stop
<1>4. CASE TimerFires
  <2>1. count' \in [Tasks -> Nat] /\ \A t \in Tasks : count'[t] < Interval[t]
    BY <1>4 DEF TimerFires, CountAfter, IsDue
  <2> QED
    BY <1>4, <2>1 DEF TimerFires
<1>5. CASE OnTick
  <2>1. fsm' \in EAState
    BY <1>5, TransitionToState DEF OnTick, CheckSessionAbort, EAState
  <2>2. connected' \in BOOLEAN
    BY <1>5, ConnectedRange DEF OnTick
  <2> QED
    BY <1>5, <2>1, <2>2 DEF OnTick
<1> QED
  BY <1>1, <1>2, <1>3, <1>4, <1>5

\* A section that ends leaves well-typed what it shares with the others.
LEMMA FinishTyped ==
  ASSUME TypeOK, NEW t, Finish(t)
  PROVE  /\ due' \subseteq Tasks
         /\ pc' \in {"idle", "timer"}
         /\ snapshot' \in EAState \cup {"none"}
         /\ cmd' \in Command
         /\ count' = count
<1>1. cmd' \in Command
  BY TicketsAssumption DEF Finish, Command, NoCommand
<1> QED
  BY <1>1 DEF Finish, TypeOK

\* A scan acts on a state that has a request.
LEMMA ScanRequest ==
  ASSUME TypeOK, NEW s \in DOMAIN Requested
  PROVE  TransitionTo(fsm, Requested[s]) \in EAState
BY RequestedState, TransitionToState DEF TypeOK

\* The sections of OnTimer keep the types.
LEMMA TypedTimer ==
  ASSUME Typed,
         \/ SendHeartbeat \/ SessionCheck
         \/ RequestRejected \/ RequestApproved \/ CommandReceived
         \/ PositionClosed \/ ReadyForNextSession \/ NothingToScan
         \/ CheckOrphanPositions \/ ReportPosition
  PROVE  Typed'
<1> USE DEF Typed, linkVars, execVars, brokerVars, envVars
<1>a. MayAnswer[backend] \subseteq Outcome
  BY AnswersAreOutcomes
<1>b. \A o \in Outcome : ConnectedAfter(connected, o) \in BOOLEAN
  BY ConnectedRange
<1>1. CASE SendHeartbeat
  <2>1. /\ connected' \in BOOLEAN
        /\ failures' \in 0..Threshold /\ missed' \in 0..Threshold
        /\ failures' <= missed'
    BY <1>1, <1>a, HeartbeatRange DEF SendHeartbeat
  <2>2. fsm' \in EAState
    BY <1>1, TransitionToState DEF SendHeartbeat, TypeOK, EAState
  <2> QED
    BY <1>1, <2>1, <2>2, FinishTyped DEF SendHeartbeat, TypeOK
<1>2. CASE SessionCheck
  <2>1. fsm' \in EAState
    BY <1>2, TransitionToState DEF SessionCheck, TypeOK, EAState
  <2> QED
    BY <1>2, <2>1, FinishTyped DEF SessionCheck, TypeOK
<1>3. CASE RequestRejected
  <2>1. fsm' \in EAState
    BY <1>3, AfterRequestState DEF RequestRejected, TypeOK
  <2>2. connected' \in BOOLEAN
    BY <1>3, <1>a, <1>b DEF RequestRejected
  <2> QED
    BY <1>3, <2>1, <2>2, FinishTyped DEF RequestRejected, TypeOK
<1>4. CASE RequestApproved
  <2>1. fsm' \in EAState
    BY <1>4, AfterRequestState, ScanRequest DEF RequestApproved
  <2>2. connected' \in BOOLEAN
    BY <1>4, <1>a, <1>b DEF RequestApproved
  <2> QED
    BY <1>4, <2>1, <2>2, FinishTyped DEF RequestApproved, TypeOK
<1>5. CASE CommandReceived
  <2>1. fsm' \in EAState
    BY <1>5, ScanRequest DEF CommandReceived
  <2>2. connected' \in BOOLEAN /\ cmd' \in Command
    BY <1>5, <1>a, <1>b DEF CommandReceived
  <2> QED
    BY <1>5, <2>1, <2>2 DEF CommandReceived, TypeOK
<1>6. CASE PositionClosed
  <2>1. fsm' \in EAState
    BY <1>6, TransitionToState DEF PositionClosed, TypeOK, EAState
  <2> QED
    BY <1>6, <2>1 DEF PositionClosed, TypeOK
<1>7. CASE ReadyForNextSession
  <2>1. fsm' \in EAState
    BY <1>7, TransitionToState DEF ReadyForNextSession, TypeOK, EAState
  <2> QED
    BY <1>7, <2>1, FinishTyped DEF ReadyForNextSession, TypeOK
<1>8. CASE NothingToScan
  BY <1>8, FinishTyped DEF NothingToScan, TypeOK
<1>9. CASE CheckOrphanPositions
  <2>1. connected' \in BOOLEAN
    BY <1>9, ConnectedRange DEF CheckOrphanPositions, TypeOK
  <2> QED
    BY <1>9, <2>1, FinishTyped DEF CheckOrphanPositions, TypeOK
<1>10. CASE ReportPosition
  <2>1. connected' \in BOOLEAN
    BY <1>10, <1>a, <1>b DEF ReportPosition, TypeOK
  <2> QED
    BY <1>10, <2>1, FinishTyped DEF ReportPosition, TypeOK
<1> QED
  BY <1>1, <1>2, <1>3, <1>4, <1>5, <1>6, <1>7, <1>8, <1>9, <1>10

\* The rest of OnInit, the dispatch of commands and recovery keep the types.
LEMMA TypedDispatch ==
  ASSUME Typed,
         \/ ProbeBackend
         \/ CommandFails \/ OpenPosition \/ ClosePosition \/ ReportResult
         \/ RecoverySucceeds \/ RecoveryFails
  PROVE  Typed'
<1> USE DEF Typed, linkVars, execVars, brokerVars, envVars
<1>a. MayAnswer[backend] \subseteq Outcome
  BY AnswersAreOutcomes
<1>b. \A o \in Outcome : ConnectedAfter(connected, o) \in BOOLEAN
  BY ConnectedRange
<1>1. CASE ProbeBackend
  <2>1. /\ connected' \in BOOLEAN
        /\ failures' \in 0..Threshold /\ missed' \in 0..Threshold
        /\ failures' <= missed'
    BY <1>1, <1>a, HeartbeatRange DEF ProbeBackend
  <2>2. fsm' \in EAState
    BY <1>1, TransitionToState DEF ProbeBackend, TypeOK, EAState
  <2>3. count' \in [Tasks -> Nat] /\ \A t \in Tasks : count'[t] < Interval[t]
    BY <1>1, IntervalAssumption DEF ProbeBackend, ResetCounters
  <2> QED
    BY <1>1, <2>1, <2>2, <2>3 DEF ProbeBackend, TypeOK
<1>2. CASE CommandFails
  BY <1>2 DEF CommandFails, TypeOK
<1>3. CASE OpenPosition
  <2>1. issued' \in 0..MaxTickets /\ positions' \subseteq 1..issued'
    BY <1>3, TicketsAssumption DEF OpenPosition, TypeOK
  <2>2. hasOpen' \in BOOLEAN
    BY <1>3 DEF OpenPosition, TypeOK
  <2>3. openTicket' \in 0..MaxTickets
    BY <1>3, <2>1 DEF OpenPosition, TypeOK
  <2> QED
    BY <1>3, <2>1, <2>2, <2>3 DEF OpenPosition, TypeOK
<1>4. CASE ClosePosition
  <2>1. positions' \subseteq 1..issued'
    BY <1>4 DEF ClosePosition, TypeOK
  <2>2. hasOpen' \in BOOLEAN
    BY <1>4 DEF ClosePosition, TypeOK
  <2>3. openTicket' \in 0..MaxTickets
    BY <1>4, TicketsAssumption DEF ClosePosition, TypeOK
  <2> QED
    BY <1>4, <2>1, <2>2, <2>3 DEF ClosePosition, TypeOK
<1>5. CASE ReportResult
  <2>1. fsm' \in EAState
    BY <1>5, AfterRequestState DEF ReportResult, TypeOK
  <2>2. connected' \in BOOLEAN
    BY <1>5, <1>a, <1>b DEF ReportResult
  <2> QED
    BY <1>5, <2>1, <2>2, FinishTyped DEF ReportResult, TypeOK
<1>6. CASE RecoverySucceeds
  <2>1. fsm' \in EAState
    BY <1>6, TransitionToState DEF RecoverySucceeds, RecoverTo, TypeOK, EAState
  <2>2. failures' \in 0..Threshold /\ failures' <= missed'
    BY <1>6, ThresholdAssumption DEF RecoverySucceeds, TypeOK
  <2> QED
    BY <1>6, <2>1, <2>2 DEF RecoverySucceeds, TypeOK
<1>7. CASE RecoveryFails
  <2>1. connected' \in BOOLEAN
    BY <1>7, <1>a, <1>b DEF RecoveryFails
  <2> QED
    BY <1>7, <2>1 DEF RecoveryFails, TypeOK
<1> QED
  BY <1>1, <1>2, <1>3, <1>4, <1>5, <1>6, <1>7

\* The environment keeps the types.
LEMMA TypedEnvironment ==
  ASSUME Typed, Environment \/ UNCHANGED vars
  PROVE  Typed'
<1> USE DEF Typed, TypeOK, vars, handlerVars, linkVars, execVars, brokerVars, envVars
<1>1. CASE BrokerCloses
  BY <1>1 DEF BrokerCloses
<1>2. CASE SessionChanges
  BY <1>2 DEF SessionChanges
<1>3. CASE RetryElapses
  BY <1>3 DEF RetryElapses
<1>4. CASE BackendSettles
  BY <1>4 DEF BackendSettles
<1>5. CASE UNCHANGED vars
  BY <1>5
<1> QED
  BY <1>1, <1>2, <1>3, <1>4, <1>5 DEF Environment

\* Every step keeps the types.
LEMMA TypedStep == Typed /\ [Next]_vars => Typed'
BY TypedStart, TypedTimer, TypedDispatch, TypedEnvironment DEF Next, Handler

\* In every reachable state the variables have their types and every counter of
\* OnTimer is below its interval.
THEOREM TypeCorrect == Spec => []TypeOK
<1>1. Init => Typed
  BY TypedInit
<1>2. Typed /\ [Next]_vars => Typed'
  BY TypedStep
<1>3. Typed => TypeOK
  BY DEF Typed
<1> QED
  BY <1>1, <1>2, <1>3, PTL DEF Spec

-----------------------------------------------------------------------------
\* With every order that is carried out also confirmed, the broker's positions
\* and the executor's belief are one invariant: tracking makes a second order
\* impossible while the EA runs, and a single position is what lets the next
\* OnInit adopt all there is.
Tracked == PositionsAreTracked /\ AtMostOnePosition

\* Steps that leave positions and belief alone, while the EA runs or stays down.
LEMMA TrackedUnchanged ==
  ASSUME Tracked, UNCHANGED <<execVars, positions>>,
         Running \/ pc' \in {"off", "inert"}
  PROVE  Tracked'
BY DEF Tracked, PositionsAreTracked, AtMostOnePosition, Running, execVars

\* The steps that change positions or the executor keep them together.
LEMMA TrackedChange ==
  ASSUME BrokerAnswers = {"done"}, Typed, Tracked,
         StartUp \/ Stop \/ OpenPosition \/ ClosePosition \/ BrokerCloses
  PROVE  Tracked'
<1> USE DEF Tracked, PositionsAreTracked, AtMostOnePosition, Running
<1>1. CASE StartUp
  <2>1. positions' = positions
    BY <1>1 DEF StartUp, brokerVars
  <2>2. positions # {} => openTicket' \in positions
    BY <1>1 DEF StartUp, AdoptPosition
  <2>3. 0 \notin positions
    BY DEF Typed, TypeOK
  <2>4. positions # {} => hasOpen'
    <3>1. hasOpen' = (openTicket' # 0)
      BY <1>1 DEF StartUp
    <3> QED
      BY <2>2, <2>3, <3>1
  <2> QED
    BY <2>1, <2>2, <2>4
<1>2. CASE Stop
  BY <1>2 DEF Stop, brokerVars
<1>3. CASE OpenPosition
  <2>1. positions = {} /\ positions' = {issued'}
    BY <1>3 DEF OpenPosition, CheckNoExistingPosition
  <2>2. hasOpen' /\ openTicket' = issued'
    BY <1>3 DEF OpenPosition
  <2> QED
    BY <2>1, <2>2
<1>4. CASE ClosePosition
  <2>1. positions' = {}
    BY <1>4 DEF ClosePosition
  <2> QED
    BY <2>1
<1>5. CASE BrokerCloses
  BY <1>5 DEF BrokerCloses, handlerVars, execVars
<1> QED
  BY <1>1, <1>2, <1>3, <1>4, <1>5

\* Every step keeps them together.
LEMMA TrackedStep ==
  ASSUME BrokerAnswers = {"done"}, Typed, Tracked, [Next]_vars
  PROVE  Tracked'
<1>1. CASE StartUp \/ Stop \/ OpenPosition \/ ClosePosition \/ BrokerCloses
  BY <1>1, TrackedChange
<1>2. CASE StartInert
  BY <1>2, TrackedUnchanged DEF StartInert, brokerVars
<1>3. CASE TimerFires \/ OnTick
  BY <1>3, TrackedUnchanged DEF TimerFires, OnTick, brokerVars, Running
<1>4. CASE SendHeartbeat \/ SessionCheck \/ RequestRejected \/ RequestApproved
  BY <1>4, TrackedUnchanged DEF SendHeartbeat, SessionCheck, RequestRejected,
     RequestApproved, Turn, brokerVars, Running
<1>5. CASE CommandReceived \/ PositionClosed \/ ReadyForNextSession \/ NothingToScan
  BY <1>5, TrackedUnchanged DEF CommandReceived, PositionClosed,
     ReadyForNextSession, NothingToScan, Turn, brokerVars, Running
<1>6. CASE CheckOrphanPositions \/ ReportPosition \/ CommandFails \/ ReportResult
  BY <1>6, TrackedUnchanged DEF CheckOrphanPositions, ReportPosition, CommandFails,
     ReportResult, Turn, brokerVars, Running
<1>7. CASE ProbeBackend \/ RecoverySucceeds \/ RecoveryFails
  BY <1>7, TrackedUnchanged DEF ProbeBackend, RecoverySucceeds, RecoveryFails,
     brokerVars, Running
<1>8. CASE SessionChanges \/ RetryElapses \/ BackendSettles \/ UNCHANGED vars
  <2>1. UNCHANGED <<pc, execVars, positions>>
    BY <1>8 DEF SessionChanges, RetryElapses, BackendSettles, vars, handlerVars,
       brokerVars
  <2> QED
    BY <2>1 DEF Tracked, PositionsAreTracked, AtMostOnePosition, Running, execVars
<1> QED
  BY <1>1, <1>2, <1>3, <1>4, <1>5, <1>6, <1>7, <1>8 DEF Next, Handler, Environment

LEMMA SpecTracked ==
  ASSUME BrokerAnswers = {"done"}
  PROVE  Spec => []Tracked
<1>1. Init => Typed /\ Tracked
  <2>1. Init => Tracked
    BY DEF Init, Tracked, PositionsAreTracked, AtMostOnePosition, Running
  <2> QED
    BY <2>1, TypedInit
<1>2. Typed /\ Tracked /\ [Next]_vars => (Typed /\ Tracked)'
  BY TrackedStep, TypedStep
<1> QED
  BY <1>1, <1>2, PTL DEF Spec

\* A position open at the broker is the one the executor tracks, across restarts and
\* closes by the broker, provided that every order carried out is confirmed with
\* TRADE_RETCODE_DONE.
THEOREM PositionsTracked ==
  ASSUME BrokerAnswers = {"done"}
  PROVE  Spec => []PositionsAreTracked
<1>1. Tracked => PositionsAreTracked
  BY DEF Tracked
<1> QED
  BY <1>1, SpecTracked, PTL

\* The EA never has two positions open, under the same condition: what is tracked
\* keeps a second BUY or SELL from being sent.
THEOREM OnePosition ==
  ASSUME BrokerAnswers = {"done"}
  PROVE  Spec => []AtMostOnePosition
<1>1. Tracked => AtMostOnePosition
  BY DEF Tracked
<1> QED
  BY <1>1, SpecTracked, PTL

-----------------------------------------------------------------------------
\* A recovery is attempted only in DISCONNECTED.
Recovering == pc = "recover" => fsm = "DISCONNECTED"

\* Only OnTick starts a recovery, and no handler runs before it ends.
LEMMA RecoveringStep == Typed /\ Recovering /\ [Next]_vars => Recovering'
<1> SUFFICES ASSUME Typed, Recovering, [Next]_vars PROVE Recovering'
  OBVIOUS
<1> USE DEF Recovering
<1>1. CASE StartUp \/ StartInert \/ Stop \/ TimerFires \/ OnTick
  BY <1>1 DEF StartUp, StartInert, Stop, TimerFires, OnTick
<1>2. CASE SendHeartbeat \/ SessionCheck \/ RequestRejected \/ RequestApproved
  BY <1>2 DEF SendHeartbeat, SessionCheck, RequestRejected, RequestApproved, Finish
<1>3. CASE CommandReceived \/ PositionClosed \/ ReadyForNextSession \/ NothingToScan
  BY <1>3 DEF CommandReceived, PositionClosed, ReadyForNextSession, NothingToScan,
     Finish
<1>4. CASE CheckOrphanPositions \/ ReportPosition \/ ReportResult
  BY <1>4 DEF CheckOrphanPositions, ReportPosition, ReportResult, Finish
<1>5. CASE CommandFails \/ OpenPosition \/ ClosePosition \/ ProbeBackend
  BY <1>5 DEF CommandFails, OpenPosition, ClosePosition, ProbeBackend
<1>6. CASE RecoverySucceeds \/ RecoveryFails
  BY <1>6 DEF RecoverySucceeds, RecoveryFails
<1>7. CASE Environment \/ UNCHANGED vars
  BY <1>7 DEF Environment, BrokerCloses, SessionChanges, RetryElapses,
     BackendSettles, vars, handlerVars
<1> QED
  BY <1>1, <1>2, <1>3, <1>4, <1>5, <1>6, <1>7 DEF Next, Handler

\* How a step may change the state of the machine: not at all, by a move of the
\* matrix, or by the end of the EA.
Moved(now, next) == \/ next = now
                    \/ next \in EAState /\ IsValidTransition(now, next)

\* TransitionTo moves, to its target or nowhere.
LEMMA TransitionMoves ==
  ASSUME NEW from \in EAState, NEW to \in EAState
  PROVE  Moved(from, TransitionTo(from, to))
BY DEF TransitionTo, Moved

\* A request and the retreat after it are together at most one move, because the
\* retreat happens only when the request did not move the machine.
LEMMA RequestMoves ==
  ASSUME NEW now \in EAState, snapshot \in DOMAIN Requested
  PROVE  /\ Moved(now, AfterRequest(TransitionTo(now, Requested[snapshot])))
         /\ AfterRequest(TransitionTo(now, Requested[snapshot]))
              \in {now, "WAIT_SESSION", Requested[snapshot]}
<1> DEFINE there == TransitionTo(now, Requested[snapshot])
<1>1. Moved(now, there) /\ there \in {now, Requested[snapshot]}
  BY TransitionMoves, RequestedState, TransitionToState
<1>2. CASE there = Requested[snapshot]
  BY <1>1, <1>2 DEF AfterRequest
<1>3. CASE there = now
  <2>1. "WAIT_SESSION" \in EAState
    BY DEF EAState
  <2>2. AfterRequest(now) \in {now, TransitionTo(now, "WAIT_SESSION")}
    BY DEF AfterRequest
  <2>3. Moved(now, TransitionTo(now, "WAIT_SESSION"))
        /\ TransitionTo(now, "WAIT_SESSION") \in {now, "WAIT_SESSION"}
    BY <2>1, TransitionMoves, TransitionToState
  <2>4. Moved(now, now)
    BY DEF Moved
  <2> QED
    BY <1>3, <2>2, <2>3, <2>4
<1> QED
  BY <1>1, <1>2, <1>3

\* Every step changes the state of the machine by one move at most, and only a
\* heartbeat moves it to DISCONNECTED.
LEMMA StepMoves ==
  ASSUME Typed, Recovering, [Next]_vars
  PROVE  /\ Moved(fsm, fsm') \/ Stop
         /\ fsm' = "DISCONNECTED" /\ fsm # "DISCONNECTED" => SendHeartbeat
<1>a. /\ fsm \in EAState
      /\ {"CONNECT", "WAIT_SESSION", "CHECK_RISK", "POSITION_CLOSED", "DISCONNECTED"}
           \subseteq EAState
  BY DEF Typed, TypeOK, EAState
<1>b. Moved(fsm, fsm)
  BY DEF Moved
<1>c. \A to \in EAState : /\ Moved(fsm, TransitionTo(fsm, to))
                          /\ TransitionTo(fsm, to) \in {fsm, to}
  BY <1>a, TransitionMoves, TransitionToState
<1>1. CASE StartUp \/ ProbeBackend \/ Stop
  BY <1>1, <1>a, <1>b, <1>c DEF StartUp, ProbeBackend, Stop
<1>2. CASE StartInert \/ TimerFires \/ NothingToScan
  BY <1>2, <1>b DEF StartInert, TimerFires, NothingToScan
<1>3. CASE OnTick
  BY <1>3, <1>a, <1>b, <1>c DEF OnTick, CheckSessionAbort
<1>4. CASE SendHeartbeat
  BY <1>4, <1>a, <1>b, <1>c DEF SendHeartbeat
<1>5. CASE SessionCheck \/ PositionClosed \/ ReadyForNextSession
  BY <1>5, <1>a, <1>b, <1>c DEF SessionCheck, PositionClosed, ReadyForNextSession
<1>6. CASE RequestRejected \/ ReportResult
  <2>1. fsm' = AfterRequest(fsm)
    BY <1>6 DEF RequestRejected, ReportResult
  <2> QED
    BY <2>1, <1>a, <1>b, <1>c DEF AfterRequest
<1>7. CASE RequestApproved
  <2>1. /\ snapshot \in DOMAIN Requested
        /\ fsm' = AfterRequest(TransitionTo(fsm, Requested[snapshot]))
    BY <1>7 DEF RequestApproved
  <2> QED
    BY <2>1, <1>a, RequestMoves, RequestedState
<1>8. CASE CommandReceived
  <2>1. /\ snapshot \in DOMAIN Requested
        /\ fsm' = TransitionTo(fsm, Requested[snapshot])
    BY <1>8 DEF CommandReceived
  <2> QED
    BY <2>1, <1>c, RequestedState
<1>9. CASE RecoverySucceeds
  <2>1. PICK confirmed \in EAState : fsm' = RecoverTo(fsm, confirmed)
    BY <1>9 DEF RecoverySucceeds
  <2>2. fsm = "DISCONNECTED"
    BY <1>9 DEF RecoverySucceeds, Recovering
  <2>3. Moved(fsm, RecoverTo(fsm, confirmed))
    BY <1>a, <1>c DEF RecoverTo, Moved
  <2> QED
    BY <2>1, <2>2, <2>3
<1>10. CASE CheckOrphanPositions \/ ReportPosition \/ RecoveryFails
  BY <1>10, <1>b DEF CheckOrphanPositions, ReportPosition, RecoveryFails
<1>11. CASE CommandFails \/ OpenPosition \/ ClosePosition
  BY <1>11, <1>b DEF CommandFails, OpenPosition, ClosePosition
<1>12. CASE Environment \/ UNCHANGED vars
  BY <1>12, <1>b DEF Environment, BrokerCloses, SessionChanges, RetryElapses,
     BackendSettles, vars
<1> QED
  BY <1>1, <1>2, <1>3, <1>4, <1>5, <1>6, <1>7, <1>8, <1>9, <1>10, <1>11, <1>12
     DEF Next, Handler

\* DISCONNECTED is entered only when the failure count reaches Threshold, and
\* that count never exceeds the heartbeats that went unanswered in a row.
LEMMA SilentStep ==
  ASSUME Typed, Recovering, [Next]_vars, fsm # "DISCONNECTED", fsm' = "DISCONNECTED"
  PROVE  missed' = Threshold
<1>1. SendHeartbeat
  BY StepMoves
<1>2. failures' >= Threshold
  <2>1. TransitionTo(fsm, "DISCONNECTED") # fsm
    BY <1>1 DEF SendHeartbeat
  <2> QED
    BY <1>1 DEF SendHeartbeat
<1>3. missed' \in 0..Threshold /\ failures' \in 0..Threshold /\ failures' <= missed'
  BY TypedStep DEF Typed, TypeOK
<1> QED
  BY <1>2, <1>3, ThresholdAssumption

\* The EA declares itself disconnected only after Threshold heartbeats in a row
\* without an answer, for every threshold and every table of intervals.
THEOREM OnlySilenceDisconnects == Spec => DisconnectOnlyAfterSilence
<1>1. Init => Typed /\ Recovering
  BY TypedInit DEF Init, Recovering
<1>2. Typed /\ Recovering /\ [Next]_vars => (Typed /\ Recovering)'
  BY TypedStep, RecoveringStep
<1>3. Typed /\ Recovering /\ [Next]_vars
        => [fsm # "DISCONNECTED" /\ fsm' = "DISCONNECTED" => missed' = Threshold]_vars
  BY SilentStep
<1> QED
  BY <1>1, <1>2, <1>3, PTL DEF Spec, DisconnectOnlyAfterSilence

\* Every handler changes the state through the matrix of CStateMachine: the
\* gateway implements the abstract state machine.
THEOREM GatewayImplementsStateMachine == Spec => ImplementsStateMachine
<1>1. Init => FSM!Init /\ Typed /\ Recovering
  BY TypedInit DEF Init, Recovering, FSM!Init
<1>2. Typed /\ Recovering /\ [Next]_vars => (Typed /\ Recovering)'
  BY TypedStep, RecoveringStep
<1>3. Typed /\ Recovering /\ [Next]_vars => [FSM!Next]_fsm
  <2> SUFFICES ASSUME Typed, Recovering, [Next]_vars PROVE [FSM!Next]_fsm
    OBVIOUS
  <2>1. Moved(fsm, fsm') \/ fsm' = "BOOT"
    BY StepMoves DEF Stop
  <2>2. CASE fsm' = fsm
    BY <2>2
  <2>3. CASE fsm' \in EAState /\ IsValidTransition(fsm, fsm')
    BY <2>3 DEF FSM!Next, FSM!Move, FSM!EAState, FSM!IsValidTransition,
       FSM!TransitionTable, EAState, IsValidTransition, TransitionTable
  <2>4. CASE fsm' = "BOOT"
    BY <2>4 DEF FSM!Next, FSM!Construct
  <2> QED
    BY <2>1, <2>2, <2>3, <2>4 DEF Moved
<1> QED
  BY <1>1, <1>2, <1>3, PTL DEF Spec, ImplementsStateMachine, FSM!Spec

-----------------------------------------------------------------------------
(***************************************************************************)
(* A first connection that failed.  A timer call that began in CONNECT     *)
(* decides on that snapshot, and no other call meets the state, because    *)
(* CONNECT is entered from BOOT only.                                      *)
(***************************************************************************)
Connecting ==
  /\ fsm = "BOOT" => pc \in {"off", "inert"}
  /\ pc \in {"off", "inert", "connect", "idle", "recover"} => snapshot = "none"
  /\ fsm = "CONNECT" => snapshot \in {"none", "CONNECT"} /\ pc \in {"connect", "idle", "timer"}

\* Where a step in CONNECT may lead to.
LEMMA ConnectLeft ==
  ASSUME Typed, Recovering, Connecting, [Next]_vars, fsm = "CONNECT", fsm' # "CONNECT"
  PROVE  \/ fsm' = "WAIT_SESSION" /\ pc = "connect" /\ connected'
         \/ fsm' = "DISCONNECTED" /\ missed' = Threshold
         \/ pc' = "off"
<1>1. /\ snapshot \in {"none", "CONNECT"} /\ pc \in {"connect", "idle", "timer"}
      /\ snapshot \notin DOMAIN Requested
  BY DEF Connecting, Requested
<1>2. CASE ProbeBackend \/ Stop
  BY <1>2 DEF ProbeBackend, Stop, TransitionTo
<1>3. CASE SendHeartbeat
  <2>1. fsm' = "DISCONNECTED"
    BY <1>3 DEF SendHeartbeat, TransitionTo
  <2>2. missed' = Threshold
    BY <2>1, SilentStep
  <2> QED
    BY <2>1, <2>2
<1>4. CASE SessionCheck \/ OnTick
  BY <1>1, <1>4 DEF SessionCheck, MayTrade, OnTick, CheckSessionAbort, IsAbortableState, Scanning
<1>5. CASE RequestRejected \/ RequestApproved \/ CommandReceived \/ PositionClosed
  BY <1>1, <1>5 DEF RequestRejected, RequestApproved, CommandReceived, PositionClosed
<1>6. CASE \/ StartUp \/ StartInert \/ ReadyForNextSession
           \/ CommandFails \/ OpenPosition \/ ClosePosition \/ ReportResult
           \/ RecoverySucceeds \/ RecoveryFails
  BY <1>1, <1>6 DEF StartUp, StartInert, ReadyForNextSession, CommandFails, OpenPosition,
     ClosePosition, ReportResult, RecoverySucceeds, RecoveryFails
<1>7. CASE TimerFires \/ NothingToScan \/ CheckOrphanPositions \/ ReportPosition
  BY <1>7 DEF TimerFires, NothingToScan, CheckOrphanPositions, ReportPosition
<1>8. CASE Environment \/ UNCHANGED vars
  BY <1>8 DEF Environment, BrokerCloses, SessionChanges, RetryElapses, BackendSettles, vars
<1> QED
  BY <1>2, <1>3, <1>4, <1>5, <1>6, <1>7, <1>8 DEF Next, Handler

\* Only OnInit enters CONNECT, and only OnDeinit BOOT.
LEMMA ConnectEntered ==
  ASSUME Typed, Recovering, Connecting, [Next]_vars
  PROVE  /\ fsm' = "CONNECT" => fsm = "CONNECT" \/ StartUp
         /\ fsm' = "BOOT" => fsm = "BOOT" \/ Stop
<1>1. CASE StartUp \/ Stop
  BY <1>1 DEF StartUp, Stop, TransitionTo
<1>2. CASE ~StartUp /\ ~Stop
  <2>1. fsm = "BOOT" => fsm' = "BOOT"
    <3> SUFFICES ASSUME fsm = "BOOT" PROVE fsm' = "BOOT"
      OBVIOUS
    <3>1. pc \in {"off", "inert"}
      BY DEF Connecting
    <3>2. StartInert \/ Environment \/ UNCHANGED vars
      BY <1>2, <3>1 DEF Next, Handler, TimerFires, OnTick, ProbeBackend, SendHeartbeat,
         SessionCheck, RequestRejected, RequestApproved, CommandReceived, PositionClosed,
         ReadyForNextSession, NothingToScan, CheckOrphanPositions, ReportPosition, CommandFails,
         OpenPosition, ClosePosition, ReportResult, RecoverySucceeds, RecoveryFails, Turn
    <3> QED
      BY <3>2 DEF StartInert, Environment, BrokerCloses, SessionChanges, RetryElapses,
         BackendSettles, vars
  <2>2. Moved(fsm, fsm')
    BY <1>2, StepMoves
  <2>3. /\ fsm' = "CONNECT" => fsm \in {"CONNECT", "BOOT"}
        /\ fsm' = "BOOT" => fsm = "BOOT"
    BY <2>2 DEF Moved, IsValidTransition, TransitionTable, EAState
  <2> QED
    BY <2>1, <2>3
<1> QED
  BY <1>1, <1>2

\* What a timer call took for the state stays right about CONNECT.
LEMMA ConnectingStep == Typed /\ Recovering /\ Connecting /\ [Next]_vars => Connecting'
<1> SUFFICES ASSUME Typed, Recovering, Connecting, [Next]_vars PROVE Connecting'
  OBVIOUS
<1>a. /\ fsm' = "CONNECT" => fsm = "CONNECT" \/ StartUp
      /\ fsm' = "BOOT" => fsm = "BOOT" \/ Stop
  BY ConnectEntered
<1> USE DEF Connecting
<1>1. CASE StartUp \/ StartInert \/ Stop
  <2>1. CASE StartUp
    BY <2>1 DEF StartUp, TransitionTo, IsValidTransition, TransitionTable
  <2>2. CASE StartInert \/ Stop
    BY <2>2 DEF StartInert, Stop
  <2> QED
    BY <1>1, <2>1, <2>2
<1>2. CASE ProbeBackend
  BY <1>2, <1>a DEF ProbeBackend, StartUp, Stop
<1>3. CASE TimerFires
  BY <1>3 DEF TimerFires
<1>4. CASE OnTick
  BY <1>4, <1>a DEF OnTick, StartUp, Stop
<1>5. ASSUME NEW t, Finish(t), pc \in {"timer", "closed", "result"} PROVE Connecting'
  <2>1. pc' \in {"idle", "timer"} /\ pc # "off"
    BY <1>5 DEF Finish
  <2>2. snapshot' \in {"none", snapshot} /\ (pc' = "idle" => snapshot' = "none")
    BY <1>5 DEF Finish
  <2>3. fsm' # "BOOT" /\ (fsm' = "CONNECT" => fsm = "CONNECT")
    BY <1>5, <1>a, <2>1 DEF StartUp, Stop
  <2> QED
    BY <2>1, <2>2, <2>3
<1>6. CASE SendHeartbeat \/ SessionCheck \/ RequestRejected \/ RequestApproved
  BY <1>5, <1>6 DEF SendHeartbeat, SessionCheck, RequestRejected, RequestApproved, Turn
<1>7. CASE ReadyForNextSession \/ NothingToScan \/ CheckOrphanPositions \/ ReportPosition \/ ReportResult
  BY <1>5, <1>7 DEF ReadyForNextSession, NothingToScan, CheckOrphanPositions, ReportPosition,
     ReportResult, Turn
<1>8. CASE CommandReceived \/ PositionClosed
  <2>1. snapshot # "CONNECT" /\ snapshot # "none" /\ pc = "timer" /\ pc' \in {"dispatch", "closed"}
    BY <1>8 DEF CommandReceived, PositionClosed, Turn, Requested
  <2>2. fsm # "CONNECT" /\ fsm # "BOOT"
    BY <2>1
  <2> QED
    BY <1>a, <2>1, <2>2 DEF StartUp, Stop
<1>9. CASE CommandFails \/ OpenPosition \/ ClosePosition
  BY <1>9 DEF CommandFails, OpenPosition, ClosePosition
<1>10. CASE RecoverySucceeds \/ RecoveryFails
  BY <1>10, <1>a DEF RecoverySucceeds, RecoveryFails, StartUp, Stop
<1>11. CASE Environment \/ UNCHANGED vars
  BY <1>11 DEF Environment, BrokerCloses, SessionChanges, RetryElapses, BackendSettles,
     vars, handlerVars
<1> QED
  BY <1>1, <1>2, <1>3, <1>4, <1>6, <1>7, <1>8, <1>9, <1>10, <1>11 DEF Next, Handler

\* Why ConnectIsRetried fails, for every table of intervals: nothing but an answer to
\* OnInit's own probe leads from CONNECT into the protocol.  After a probe that failed
\* the EA waits for Threshold silences or for its end, however many heartbeats are
\* answered.
THEOREM OnlyProbeEndsConnect ==
  Spec => [][fsm = "CONNECT" /\ fsm' # "CONNECT" =>
               \/ fsm' = "WAIT_SESSION" /\ pc = "connect" /\ connected'
               \/ fsm' = "DISCONNECTED" /\ missed' = Threshold
               \/ pc' = "off"]_vars
<1> DEFINE Leaves == \/ fsm' = "WAIT_SESSION" /\ pc = "connect" /\ connected'
                     \/ fsm' = "DISCONNECTED" /\ missed' = Threshold
                     \/ pc' = "off"
<1>1. Init => Typed /\ Recovering /\ Connecting
  BY TypedInit DEF Init, Recovering, Connecting
<1>2. Typed /\ Recovering /\ Connecting /\ [Next]_vars => (Typed /\ Recovering /\ Connecting)'
  BY TypedStep, RecoveringStep, ConnectingStep
<1>3. Typed /\ Recovering /\ Connecting /\ [Next]_vars
        => [fsm = "CONNECT" /\ fsm' # "CONNECT" => Leaves]_vars
  BY ConnectLeft
<1> HIDE DEF Leaves
<1>4. Spec => [][fsm = "CONNECT" /\ fsm' # "CONNECT" => Leaves]_vars
  BY <1>1, <1>2, <1>3, PTL DEF Spec
<1> QED
  BY <1>4 DEF Leaves

-----------------------------------------------------------------------------
(***************************************************************************)
(* The timer of the EA and its scan.  No section after the heartbeat asks  *)
(* whether the machine has been disconnected since the state was read, so  *)
(* it is the intervals that keep a heartbeat out of the timer calls that   *)
(* scan: the session check begins a scan together with a heartbeat, and    *)
(* three scans later, before the next heartbeat, it is over.               *)
(***************************************************************************)
\* The session check comes with a heartbeat, and three scans fit between two
\* heartbeats; 60, 30 and 3 seconds are the shipped values.
TimersFit ==
  /\ \E m \in Nat : Interval["session"] = m * Interval["heartbeat"]
  /\ 3 * Interval["scan"] < Interval["heartbeat"]

\* An order is sent with the approval of a scan only.
OrdersOnSignal == \A s \in DOMAIN Requested : "OPEN" \in Commands[s] => s = "SCAN_SIGNAL"

\* The time from the session check to the last scan before state st.
Delay(st) ==
  IF st = "CHECK_RISK" THEN 0
  ELSE IF st = "SCAN_SIGNAL" THEN Interval["scan"] ELSE 2 * Interval["scan"]

\* The counters of session check and heartbeat run in step.
Aligned ==
  \E j \in Nat : count["session"] = j * Interval["heartbeat"] + count["heartbeat"]

\* A scan that has been done was done in time.
OnTime == fsm \in Scanning => count["session"] <= count["scan"] + Delay(fsm)

\* Before the scan of a timer call.
ScanAhead ==
  /\ \/ fsm \in {snapshot, "DISCONNECTED"}
     \/ snapshot = "WAIT_SESSION" /\ fsm = "CHECK_RISK" /\ count["session"] = 0
  /\ snapshot \in Scanning => count["session"] <= Interval["scan"] + Delay(snapshot)

\* While the scan of a timer call carries out a command.
Dispatching ==
  /\ "scan" \in due /\ snapshot \in DOMAIN Requested
  /\ snapshot \in Scanning =>
       /\ fsm = Requested[snapshot]
       /\ count["session"] <= Interval["scan"] + Delay(snapshot)
  /\ snapshot \notin Scanning => fsm \notin Scanning
  /\ cmd.kind = "OPEN" => snapshot = "SCAN_SIGNAL"

Down == pc \in {"off", "inert", "connect"}

Scheduled ==
  /\ Down => fsm \in {"BOOT", "CONNECT"} /\ snapshot = "none" /\ due = {}
  /\ ~Down => Aligned /\ ("scan" \notin due => OnTime)
  /\ \A t \in due : count[t] = 0
  /\ pc \in {"idle", "recover"} => snapshot = "none" /\ due = {}
  /\ snapshot \in Scanning => "heartbeat" \notin due /\ fsm # "DISCONNECTED"
  /\ pc = "timer" /\ "scan" \in due => ScanAhead
  /\ pc \in {"dispatch", "result"} => Dispatching
  /\ pc = "closed" => "scan" \in due /\ fsm \notin Scanning

\* The counters as numbers.
LEMMA Counters ==
  ASSUME Typed
  PROVE  \A t \in Tasks : /\ count[t] \in Nat /\ Interval[t] \in Nat \ {0}
                          /\ count[t] + 1 <= Interval[t]
                          /\ IsDue(t) <=> count[t] + 1 = Interval[t]
                          /\ CountAfter(t) = IF IsDue(t) THEN 0 ELSE count[t] + 1
<1> SUFFICES ASSUME NEW t \in Tasks
             PROVE  /\ count[t] \in Nat /\ Interval[t] \in Nat \ {0}
                    /\ count[t] + 1 <= Interval[t]
                    /\ IsDue(t) <=> count[t] + 1 = Interval[t]
                    /\ CountAfter(t) = IF IsDue(t) THEN 0 ELSE count[t] + 1
  OBVIOUS
<1>1. count[t] \in Nat /\ count[t] < Interval[t]
  BY DEF Typed, TypeOK
<1>2. Interval[t] \in Nat \ {0}
  BY IntervalAssumption
<1> QED
  BY <1>1, <1>2 DEF IsDue, CountAfter

LEMMA FiredCounters ==
  ASSUME Typed, TimerFires
  PROVE  \A t \in Tasks : /\ count'[t] = IF IsDue(t) THEN 0 ELSE count[t] + 1
                          /\ t \in due' <=> IsDue(t)
BY Counters DEF TimerFires

\* A multiple between 1 and the number itself.
LEMMA OneMultiple ==
  ASSUME NEW h \in Nat \ {0}, NEW k \in Int, k * h >= 1, k * h <= h
  PROVE  k * h = h
<1>1. CASE k <= 0
  <2>1. k * h <= 0
    BY <1>1, SMT
  <2> QED
    BY <2>1
<1>2. CASE k = 1
  BY <1>2
<1>3. CASE k >= 2
  <2>1. (k - 2) * h >= 0
    BY <1>3, SMT
  <2>2. (k - 2) * h = k * h - 2 * h
    OBVIOUS
  <2> QED
    BY <2>1, <2>2
<1> QED
  BY <1>1, <1>2, <1>3

LEMMA AlignedFires ==
  ASSUME Typed, TimersFit, Aligned, TimerFires
  PROVE  Aligned'
<1> DEFINE h == Interval["heartbeat"]  c == count["heartbeat"]  d == count["session"]
<1>1. /\ h \in Nat \ {0} /\ c \in Nat /\ d \in Nat /\ c + 1 <= h
      /\ IsDue("heartbeat") <=> c + 1 = h
      /\ IsDue("session") <=> d + 1 = Interval["session"]
      /\ count'["heartbeat"] = IF IsDue("heartbeat") THEN 0 ELSE c + 1
      /\ count'["session"] = IF IsDue("session") THEN 0 ELSE d + 1
  BY Counters, FiredCounters DEF Tasks
<1>2. PICK j \in Nat : d = j * h + c
  BY DEF Aligned
<1>3. PICK m \in Nat : Interval["session"] = m * h
  BY DEF TimersFit
<1>4. CASE IsDue("session")
  <2>1. m * h = j * h + (c + 1)
    BY <1>1, <1>2, <1>3, <1>4
  <2>2. (m - j) * h = m * h - j * h /\ m * h \in Int /\ j * h \in Int /\ m - j \in Int
    <3>1. \A a, b, x \in Nat :
             (a - b) * x = a * x - b * x /\ a * x \in Int /\ a - b \in Int
      OBVIOUS
    <3>2. h \in Nat
      BY <1>1
    <3> QED
      BY <3>1, <3>2
  <2>3. (m - j) * h = c + 1
    BY <1>1, <2>1, <2>2
  <2>4. c + 1 = h
    BY <1>1, <2>2, <2>3, OneMultiple
  <2>5. count'["session"] = 0 /\ count'["heartbeat"] = 0
    BY <1>1, <1>4, <2>4
  <2>6. 0 = 0 * h + 0 /\ 0 \in Nat
    BY <1>1
  <2> QED
    BY <2>5, <2>6 DEF Aligned
<1>5. CASE ~IsDue("session") /\ IsDue("heartbeat")
  <2>1. count'["session"] = j * h + h /\ count'["heartbeat"] = 0
    BY <1>1, <1>2, <1>5
  <2>2. j * h + h = (j + 1) * h + 0 /\ j + 1 \in Nat
    BY <1>1, <1>2
  <2> QED
    BY <2>1, <2>2 DEF Aligned
<1>6. CASE ~IsDue("session") /\ ~IsDue("heartbeat")
  BY <1>1, <1>2, <1>6 DEF Aligned
<1> QED
  BY <1>4, <1>5, <1>6

\* No heartbeat is due in a timer call that begins in a state of the scan.
LEMMA NoHeartbeatInScan ==
  ASSUME Typed, TimersFit, Aligned, OnTime, fsm \in Scanning
  PROVE  ~IsDue("heartbeat")
<1> DEFINE h == Interval["heartbeat"]  s == Interval["scan"]
<1>1. PICK j \in Nat : count["session"] = j * h + count["heartbeat"]
  BY DEF Aligned
<1>2. /\ h \in Nat \ {0} /\ s \in Nat \ {0} /\ count["scan"] + 1 <= s
      /\ count["scan"] \in Nat /\ count["heartbeat"] \in Nat
      /\ IsDue("heartbeat") <=> count["heartbeat"] + 1 = h
  BY Counters DEF Tasks
<1>3. j * h >= 0 /\ j * h \in Int
  BY <1>2, SMT
<1>4. count["session"] <= count["scan"] + Delay(fsm) /\ Delay(fsm) \in Nat /\ Delay(fsm) <= 2 * s
  BY <1>2 DEF OnTime, Delay
<1>5. 3 * s < h
  BY DEF TimersFit
<1> QED
  BY <1>1, <1>2, <1>3, <1>4, <1>5

\* A section that ends, if the scan is over or the state is still that of the call.
LEMMA FinishScheduled ==
  ASSUME Typed, Scheduled, ~Down, NEW t, Finish(t),
         "scan" \notin due \ {t} => OnTime',
         "scan" \in due \ {t} =>
           /\ pc = "timer"
           /\ \/ fsm' \in {snapshot, "DISCONNECTED"}
              \/ snapshot = "WAIT_SESSION" /\ fsm' = "CHECK_RISK" /\ count["session"] = 0,
         snapshot \in Scanning => fsm' # "DISCONNECTED"
  PROVE  Scheduled'
<1>1. /\ due' = due \ {t} /\ count' = count
      /\ pc' = (IF due' = {} THEN "idle" ELSE "timer")
      /\ snapshot' = (IF due' = {} THEN "none" ELSE snapshot)
  BY DEF Finish
<1>2. ~Down' /\ pc' \in {"idle", "timer"}
  BY <1>1 DEF Down
<1>3. Aligned'
  BY <1>1 DEF Scheduled, Aligned
<1>4. \A u \in due' : count'[u] = 0
  BY <1>1 DEF Scheduled
<1>5. pc' \in {"idle", "recover"} => snapshot' = "none" /\ due' = {}
  BY <1>1
<1>6. snapshot' \in Scanning => "heartbeat" \notin due' /\ fsm' # "DISCONNECTED"
  BY <1>1 DEF Scheduled, Scanning
<1>7. "scan" \in due' => ScanAhead'
  <2> SUFFICES ASSUME "scan" \in due' PROVE ScanAhead'
    OBVIOUS
  <2>1. snapshot' = snapshot /\ "scan" \in due
    BY <1>1
  <2>2. ScanAhead
    BY <1>1, <2>1 DEF Scheduled
  <2> QED
    BY <1>1, <2>1, <2>2 DEF ScanAhead, Delay
<1> QED
  BY <1>1, <1>2, <1>3, <1>4, <1>5, <1>6, <1>7 DEF Scheduled

\* Start and stop.
LEMMA ScheduledStart ==
  ASSUME Typed, Scheduled, StartUp \/ StartInert \/ Stop \/ ProbeBackend
  PROVE  Scheduled'
<1>1. CASE StartUp
  <2>1. fsm' \in {"BOOT", "CONNECT"}
    BY <1>1 DEF StartUp, Scheduled, Down, TransitionTo
  <2> QED
    BY <1>1, <2>1 DEF StartUp, Scheduled, Down, Scanning
<1>2. CASE StartInert
  BY <1>2 DEF StartInert, Scheduled, Down, Scanning
<1>3. CASE Stop
  BY <1>3 DEF Stop, Scheduled, Down, Scanning
<1>4. CASE ProbeBackend
  <2>1. fsm' \in {"BOOT", "CONNECT", "WAIT_SESSION"}
    BY <1>4 DEF ProbeBackend, Scheduled, Down, TransitionTo
  <2>2. pc' = "idle" /\ snapshot' = "none" /\ due' = {}
    BY <1>4 DEF ProbeBackend, Scheduled, Down
  <2>3. count'["session"] = 0 /\ count'["heartbeat"] = 0
    BY <1>4 DEF ProbeBackend, ResetCounters, Tasks
  <2>4. Aligned'
    <3>1. Interval["heartbeat"] \in Nat
      BY IntervalAssumption DEF Tasks
    <3>2. 0 = 0 * Interval["heartbeat"] + 0 /\ 0 \in Nat
      BY <3>1
    <3> QED
      BY <2>3, <3>2 DEF Aligned
  <2> QED
    BY <2>1, <2>2, <2>4 DEF Scheduled, Down, OnTime, Scanning
<1> QED
  BY <1>1, <1>2, <1>3, <1>4

\* The timer fires.
LEMMA ScheduledFires ==
  ASSUME Typed, TimersFit, Scheduled, TimerFires
  PROVE  Scheduled'
<1>1. /\ pc = "idle" /\ fsm' = fsm /\ cmd' = cmd
      /\ pc' = (IF due' = {} THEN "idle" ELSE "timer")
      /\ snapshot' = (IF due' = {} THEN "none" ELSE fsm)
  BY DEF TimerFires
<1>2. Aligned /\ OnTime /\ due = {}
  BY <1>1 DEF Scheduled, Down
<1>3. Aligned' /\ ~Down'
  BY <1>1, <1>2, AlignedFires DEF Down
<1>4. \A t \in due' : count'[t] = 0
  BY FiredCounters DEF TimerFires
<1>5. fsm \in Scanning => "heartbeat" \notin due'
  BY <1>2, NoHeartbeatInScan, FiredCounters DEF Tasks
<1>6. fsm \in Scanning => fsm # "DISCONNECTED" /\ fsm # "none"
  BY DEF Scanning
<1>7. "none" \notin Scanning
  BY DEF Scanning
<1>c. /\ count["session"] \in Nat /\ count["scan"] \in Nat
      /\ Interval["scan"] \in Nat \ {0} /\ Delay(fsm) \in Nat
      /\ IsDue("scan") <=> count["scan"] + 1 = Interval["scan"]
      /\ count["scan"] + 1 <= Interval["scan"]
      /\ count'["session"] = 0 \/ count'["session"] = count["session"] + 1
      /\ count'["scan"] = IF IsDue("scan") THEN 0 ELSE count["scan"] + 1
      /\ "scan" \in due' <=> IsDue("scan")
  BY Counters, FiredCounters DEF Tasks, Delay
<1>8. "scan" \notin due' => OnTime'
  <2> SUFFICES ASSUME ~IsDue("scan"), fsm \in Scanning
               PROVE  count'["session"] <= count'["scan"] + Delay(fsm)
    BY <1>1, <1>c DEF OnTime, Delay
  <2> QED
    BY <1>2, <1>c DEF OnTime
<1>9. "scan" \in due' => ScanAhead'
  <2> SUFFICES ASSUME "scan" \in due' PROVE ScanAhead'
    OBVIOUS
  <2>1. snapshot' = fsm /\ fsm' = fsm
    BY <1>1
  <2>2. fsm \in Scanning => count'["session"] <= Interval["scan"] + Delay(fsm)
    BY <1>2, <1>c DEF OnTime
  <2> QED
    BY <2>1, <2>2 DEF ScanAhead, Delay
<1>10. snapshot' \in Scanning => "heartbeat" \notin due' /\ fsm' # "DISCONNECTED"
  BY <1>1, <1>5, <1>6, <1>7
<1>11. pc' \in {"idle", "timer"} /\ (pc' = "idle" => snapshot' = "none" /\ due' = {})
  BY <1>1
<1> QED
  BY <1>3, <1>4, <1>8, <1>9, <1>10, <1>11 DEF Scheduled

\* In a timer call: what TransitionTo does to the state, which is that of the call
\* unless the call has disconnected it or begun a scan.
LEMMA InCall ==
  ASSUME Typed, Scheduled, pc = "timer"
  PROVE  /\ ~Down
         /\ "scan" \notin due => OnTime
         /\ "scan" \in due =>
              /\ ScanAhead
              /\ count["scan"] = 0
              /\ snapshot \in Scanning => fsm = snapshot
              /\ snapshot \notin Scanning /\ snapshot # "WAIT_SESSION" => fsm \notin Scanning
         /\ snapshot \in Scanning => fsm # "DISCONNECTED"
<1>1. ~Down
  BY DEF Down
<1>2. CASE "scan" \in due
  <2>1. ScanAhead /\ count["scan"] = 0
    BY <1>2 DEF Scheduled
  <2> QED
    BY <1>1, <1>2, <2>1 DEF Scheduled, ScanAhead, Scanning
<1> QED
  BY <1>1, <1>2 DEF Scheduled

\* The sections other than the scan.
LEMMA ScheduledSections ==
  ASSUME Typed, Scheduled,
         SendHeartbeat \/ SessionCheck \/ CheckOrphanPositions \/ ReportPosition
  PROVE  Scheduled'
<1>1. pc = "timer"
  BY DEF SendHeartbeat, SessionCheck, CheckOrphanPositions, ReportPosition, Turn
<1>2. CASE SendHeartbeat
  <2>1. "heartbeat" \in due /\ Finish("heartbeat") /\ fsm' \in {fsm, "DISCONNECTED"}
    BY <1>2 DEF SendHeartbeat, Turn, TransitionTo
  <2>2. snapshot \notin Scanning
    BY <2>1 DEF Scheduled
  <2>3. "scan" \notin due => OnTime'
    BY <1>1, <2>1, InCall DEF OnTime, Finish, Scanning, Delay
  <2>4. "scan" \in due => \/ fsm' \in {snapshot, "DISCONNECTED"}
                          \/ snapshot = "WAIT_SESSION" /\ fsm' = "CHECK_RISK" /\ count["session"] = 0
    BY <1>1, <2>1, InCall DEF ScanAhead
  <2> QED
    BY <1>1, <2>1, <2>2, <2>3, <2>4, InCall, FinishScheduled
<1>3. CASE SessionCheck
  <2>1. "session" \in due /\ Finish("session") /\ count["session"] = 0
    BY <1>3 DEF SessionCheck, Turn, Scheduled
  <2>2. \/ fsm' = fsm
        \/ snapshot = "WAIT_SESSION" /\ fsm' = "CHECK_RISK"
    BY <1>3 DEF SessionCheck, MayTrade, TransitionTo
  <2>3. "scan" \notin due => OnTime'
    <3>1. count' = count /\ count["scan"] \in Nat
      BY <2>1, Counters DEF Finish, Tasks
    <3> QED
      BY <1>1, <2>1, <2>2, <3>1, InCall DEF OnTime, Delay
  <2>4. "scan" \in due => \/ fsm' \in {snapshot, "DISCONNECTED"}
                          \/ snapshot = "WAIT_SESSION" /\ fsm' = "CHECK_RISK" /\ count["session"] = 0
    BY <1>1, <2>1, <2>2, InCall DEF ScanAhead
  <2>5. snapshot \in Scanning => fsm' # "DISCONNECTED"
    BY <1>1, <2>2, InCall DEF Scanning
  <2> QED
    BY <1>1, <2>1, <2>3, <2>4, <2>5, InCall, FinishScheduled
<1>4. CASE CheckOrphanPositions \/ ReportPosition
  <2>1. PICK t \in {"orphan", "report"} : Finish(t)
    BY <1>4 DEF CheckOrphanPositions, ReportPosition
  <2>2. fsm' = fsm /\ count' = count
    BY <1>4, <2>1 DEF CheckOrphanPositions, ReportPosition, Finish
  <2>3. "scan" \notin due => OnTime'
    BY <1>1, <2>2, InCall DEF OnTime, Delay
  <2> QED
    BY <1>1, <2>1, <2>2, <2>3, InCall, FinishScheduled DEF ScanAhead
<1> QED
  BY <1>2, <1>3, <1>4

\* A scan that ends in state now, with its counter at 0.
LEMMA ScanEnds ==
  ASSUME Typed, Scheduled, ~Down, "scan" \in due, Finish("scan"),
         fsm' \in Scanning => count["session"] <= Delay(fsm'),
         snapshot \in Scanning => fsm' # "DISCONNECTED"
  PROVE  Scheduled'
<1>1. count' = count /\ count["scan"] = 0 /\ count["session"] \in Nat
  BY Counters DEF Finish, Scheduled, Tasks
<1>2. Delay(fsm') \in Nat
  BY Counters DEF Delay, Tasks
<1>3. OnTime'
  BY <1>1, <1>2 DEF OnTime, Delay
<1> QED
  BY <1>3, FinishScheduled

\* A state of the scan and the one it asks for.
LEMMA NextScan ==
  ASSUME NEW s \in Scanning
  PROVE  /\ s \in DOMAIN Requested /\ s # "DISCONNECTED" /\ Requested[s] # "DISCONNECTED"
         /\ TransitionTo(s, Requested[s]) = Requested[s]
         /\ TransitionTo(s, "WAIT_SESSION") = "WAIT_SESSION"
         /\ s # Requested[s]
         /\ Requested[s] \in Scanning => Delay(Requested[s]) = Interval["scan"] + Delay(s)
<1>1. Interval["scan"] \in Nat
  BY IntervalAssumption DEF Tasks
<1> QED
  BY <1>1 DEF Scanning, Requested, TransitionTo, IsValidTransition, TransitionTable, Delay

\* OPEN_POSITION asks for a state out of the scan.
LEMMA OtherScan ==
  ASSUME NEW s \in DOMAIN Requested, s \notin Scanning, NEW now, now \notin Scanning
  PROVE  TransitionTo(now, Requested[s]) \notin Scanning
BY DEF Scanning, Requested, TransitionTo

\* The scan of a timer call.
LEMMA ScheduledScan ==
  ASSUME Typed, Scheduled, OrdersOnSignal,
         \/ RequestRejected \/ RequestApproved \/ CommandReceived
         \/ PositionClosed \/ NothingToScan
  PROVE  Scheduled'
<1>1. pc = "timer" /\ "scan" \in due
  BY DEF RequestRejected, RequestApproved, CommandReceived, PositionClosed, NothingToScan, Turn
<1>2. /\ ~Down /\ ScanAhead /\ count["scan"] = 0
      /\ snapshot \in Scanning => fsm = snapshot
      /\ snapshot \notin Scanning /\ snapshot # "WAIT_SESSION" => fsm \notin Scanning
  BY <1>1, InCall
<1>w. "WAIT_SESSION" \notin Scanning /\ "WAIT_SESSION" \notin DOMAIN Requested
  BY DEF Scanning, Requested
<1>3. CASE RequestRejected
  <2>1. snapshot \in DOMAIN Requested /\ Finish("scan") /\ fsm' = AfterRequest(fsm)
    BY <1>3 DEF RequestRejected
  <2>2. CASE snapshot \in Scanning
    <3>1. fsm' = "WAIT_SESSION"
      BY <1>2, <2>1, <2>2, NextScan DEF AfterRequest
    <3> QED
      BY <1>1, <1>2, <1>w, <2>1, <3>1, ScanEnds
  <2>3. CASE snapshot \notin Scanning
    <3>1. fsm' = fsm /\ fsm \notin Scanning
      BY <1>2, <1>w, <2>1, <2>3 DEF AfterRequest
    <3> QED
      BY <1>1, <1>2, <2>1, <2>3, <3>1, ScanEnds
  <2> QED
    BY <2>2, <2>3
<1>4. CASE RequestApproved
  <2>1. /\ snapshot \in DOMAIN Requested /\ Finish("scan")
        /\ fsm' = AfterRequest(TransitionTo(fsm, Requested[snapshot]))
    BY <1>4 DEF RequestApproved
  <2>2. CASE snapshot \in Scanning
    <3>1. fsm' = Requested[snapshot] /\ fsm' # "DISCONNECTED"
      BY <1>2, <2>1, <2>2, NextScan DEF AfterRequest
    <3>2. fsm' \in Scanning => count["session"] <= Delay(fsm')
      BY <1>2, <2>2, <3>1, NextScan DEF ScanAhead
    <3> QED
      BY <1>1, <1>2, <2>1, <3>1, <3>2, ScanEnds
  <2>3. CASE snapshot \notin Scanning
    <3>1. fsm' = TransitionTo(fsm, Requested[snapshot]) /\ fsm \notin Scanning
      BY <1>2, <1>w, <2>1, <2>3 DEF AfterRequest
    <3>2. fsm' \notin Scanning
      BY <2>1, <2>3, <3>1, OtherScan
    <3> QED
      BY <1>1, <1>2, <2>1, <2>3, <3>2, ScanEnds
  <2> QED
    BY <2>2, <2>3
<1>5. CASE CommandReceived
  <2>1. /\ snapshot \in DOMAIN Requested /\ pc' = "dispatch"
        /\ fsm' = TransitionTo(fsm, Requested[snapshot])
        /\ cmd'.kind \in Commands[snapshot]
        /\ UNCHANGED <<snapshot, due, count>>
    BY <1>5 DEF CommandReceived
  <2>2. cmd'.kind = "OPEN" => snapshot = "SCAN_SIGNAL"
    BY <2>1 DEF OrdersOnSignal
  <2>3. snapshot \in Scanning => fsm' = Requested[snapshot] /\ fsm' # "DISCONNECTED"
    BY <1>2, <2>1, NextScan
  <2>4. snapshot \notin Scanning => fsm' \notin Scanning
    BY <1>2, <1>w, <2>1, OtherScan
  <2>5. Dispatching'
    BY <1>1, <1>2, <2>1, <2>2, <2>3, <2>4 DEF Dispatching, ScanAhead, Delay
  <2>6. Aligned' /\ ~Down'
    BY <1>2, <2>1 DEF Scheduled, Aligned, Down
  <2>7. /\ \A t \in due' : count'[t] = 0
        /\ snapshot' \in Scanning => "heartbeat" \notin due' /\ fsm' # "DISCONNECTED"
    BY <2>1, <2>3 DEF Scheduled
  <2> QED
    BY <1>1, <2>1, <2>5, <2>6, <2>7 DEF Scheduled
<1>6. CASE PositionClosed
  <2>1. /\ snapshot = "MANAGE_POSITION" /\ pc' = "closed"
        /\ fsm' = TransitionTo(fsm, "POSITION_CLOSED")
        /\ UNCHANGED <<snapshot, due, count, cmd>>
    BY <1>6 DEF PositionClosed
  <2>2. fsm' \notin Scanning /\ snapshot \notin Scanning
    BY <1>2, <2>1 DEF TransitionTo, Scanning
  <2>3. Aligned' /\ ~Down'
    BY <1>2, <2>1 DEF Scheduled, Aligned, Down
  <2> QED
    BY <1>1, <2>1, <2>2, <2>3 DEF Scheduled
<1>7. CASE NothingToScan
  <2>1. snapshot \notin DOMAIN Requested /\ Finish("scan") /\ fsm' = fsm
    BY <1>7 DEF NothingToScan
  <2>2. snapshot \notin Scanning
    BY <2>1, NextScan
  <2>3. fsm \in Scanning => fsm = "CHECK_RISK" /\ count["session"] = 0
    BY <1>2, <2>2 DEF ScanAhead, Scanning
  <2> QED
    BY <1>1, <1>2, <2>1, <2>2, <2>3, ScanEnds DEF Delay
<1> QED
  BY <1>3, <1>4, <1>5, <1>6, <1>7

\* The pieces of the scan after the first.
LEMMA ScheduledPieces ==
  ASSUME Typed, Scheduled,
         \/ ReadyForNextSession \/ CommandFails \/ OpenPosition
         \/ ClosePosition \/ ReportResult
  PROVE  Scheduled'
<1>1. CASE ReadyForNextSession
  <2>1. /\ ~Down /\ "scan" \in due /\ fsm \notin Scanning /\ Finish("scan")
        /\ fsm' = TransitionTo(fsm, "WAIT_SESSION")
    BY <1>1 DEF ReadyForNextSession, Scheduled, Down
  <2>2. fsm' \notin Scanning
    BY <2>1 DEF TransitionTo, Scanning
  <2>3. snapshot \in Scanning => fsm' # "DISCONNECTED"
    BY <2>1 DEF Scheduled, TransitionTo
  <2> QED
    BY <2>1, <2>2, <2>3, ScanEnds
<1>2. CASE CommandFails \/ OpenPosition \/ ClosePosition
  <2>1. pc = "dispatch" /\ pc' = "result" /\ UNCHANGED <<fsm, snapshot, due, count, cmd>>
    BY <1>2 DEF CommandFails, OpenPosition, ClosePosition
  <2>2. Dispatching'
    BY <2>1 DEF Scheduled, Dispatching, Delay
  <2>3. Aligned' /\ ~Down' /\ "scan" \in due'
    BY <2>1 DEF Scheduled, Aligned, Down, Dispatching
  <2> QED
    BY <2>1, <2>2, <2>3 DEF Scheduled
<1>3. CASE ReportResult
  <2>1. ~Down /\ Dispatching /\ Finish("scan") /\ fsm' = AfterRequest(fsm)
    BY <1>3 DEF ReportResult, Scheduled, Down
  <2>2. CASE snapshot \in Scanning
    <3>1. fsm' = Requested[snapshot] /\ fsm' # "DISCONNECTED"
      BY <2>1, <2>2, NextScan DEF AfterRequest, Dispatching
    <3>2. fsm' \in Scanning => count["session"] <= Delay(fsm')
      BY <2>1, <2>2, <3>1, NextScan DEF Dispatching
    <3> QED
      BY <2>1, <3>1, <3>2, ScanEnds DEF Dispatching
  <2>3. CASE snapshot \notin Scanning
    <3>1. fsm' = fsm /\ fsm \notin Scanning
      BY <2>1, <2>3 DEF AfterRequest, Dispatching
    <3> QED
      BY <2>1, <2>3, <3>1, ScanEnds DEF Dispatching
  <2> QED
    BY <2>2, <2>3
<1> QED
  BY <1>1, <1>2, <1>3

\* Ticks, the recovery and the environment.
LEMMA ScheduledOthers ==
  ASSUME Typed, Recovering, Scheduled,
         OnTick \/ RecoverySucceeds \/ RecoveryFails \/ Environment \/ UNCHANGED vars
  PROVE  Scheduled'
<1>1. CASE OnTick \/ RecoverySucceeds \/ RecoveryFails
  <2>1. pc \in {"idle", "recover"} /\ pc' \in {"idle", "recover"}
        /\ UNCHANGED <<snapshot, due, count>>
    BY <1>1 DEF OnTick, RecoverySucceeds, RecoveryFails
  <2>2. fsm' \in {fsm, "WAIT_SESSION"}
    <3>1. CASE OnTick
      BY <3>1 DEF OnTick, CheckSessionAbort, TransitionTo
    <3>2. CASE RecoverySucceeds
      <4>1. PICK confirmed \in EAState : fsm' = RecoverTo(fsm, confirmed)
        BY <3>2 DEF RecoverySucceeds
      <4>2. fsm = "DISCONNECTED"
        BY <3>2 DEF RecoverySucceeds, Recovering
      <4> QED
        BY <4>1, <4>2 DEF RecoverTo, TransitionTo, IsValidTransition, TransitionTable
    <3>3. CASE RecoveryFails
      BY <3>3 DEF RecoveryFails
    <3> QED
      BY <1>1, <3>1, <3>2, <3>3
  <2>3. snapshot = "none" /\ due = {} /\ ~Down /\ Aligned /\ OnTime
    BY <2>1 DEF Scheduled, Down
  <2>4. OnTime'
    BY <2>1, <2>2, <2>3 DEF OnTime, Delay, Scanning
  <2>5. Aligned' /\ ~Down' /\ snapshot' \notin Scanning
    BY <2>1, <2>3 DEF Aligned, Down, Scanning
  <2> QED
    BY <2>1, <2>3, <2>4, <2>5 DEF Scheduled
<1>2. CASE Environment \/ UNCHANGED vars
  <2>1. UNCHANGED <<fsm, snapshot, pc, due, count, cmd>>
    BY <1>2 DEF Environment, BrokerCloses, SessionChanges, RetryElapses,
       BackendSettles, vars, handlerVars
  <2>2. (Down' <=> Down) /\ (Aligned' <=> Aligned) /\ (OnTime' <=> OnTime)
        /\ (ScanAhead' <=> ScanAhead) /\ (Dispatching' <=> Dispatching)
    BY <2>1 DEF Down, Aligned, OnTime, ScanAhead, Dispatching, Delay
  <2> QED
    BY <2>1, <2>2 DEF Scheduled
<1> QED
  BY <1>1, <1>2

LEMMA ScheduledInit == Init => Scheduled
BY DEF Init, Scheduled, Down, Scanning

LEMMA ScheduledStep ==
  ASSUME TimersFit, OrdersOnSignal, Typed, Recovering, Scheduled, [Next]_vars
  PROVE  Scheduled'
<1>1. CASE StartUp \/ StartInert \/ Stop \/ ProbeBackend
  BY <1>1, ScheduledStart
<1>2. CASE TimerFires
  BY <1>2, ScheduledFires
<1>3. CASE SendHeartbeat \/ SessionCheck \/ CheckOrphanPositions \/ ReportPosition
  BY <1>3, ScheduledSections
<1>4. CASE \/ RequestRejected \/ RequestApproved \/ CommandReceived
           \/ PositionClosed \/ NothingToScan
  BY <1>4, ScheduledScan
<1>5. CASE \/ ReadyForNextSession \/ CommandFails \/ OpenPosition
           \/ ClosePosition \/ ReportResult
  BY <1>5, ScheduledPieces
<1>6. CASE OnTick \/ RecoverySucceeds \/ RecoveryFails \/ Environment \/ UNCHANGED vars
  BY <1>6, ScheduledOthers
<1> QED
  BY <1>1, <1>2, <1>3, <1>4, <1>5, <1>6 DEF Next, Handler

\* With commands that come with a signal, an order goes out in AI_CONFIRMATION: the
\* machine accepted the approval that carried the command and has not been moved
\* since, because no heartbeat shares the timer call of a scan.
LEMMA OrdersAtConfirmation ==
  ASSUME TimersFit, OrdersOnSignal
  PROVE  Spec => [][issued' # issued => fsm = "AI_CONFIRMATION"]_vars
<1>1. Init => Typed /\ Recovering /\ Scheduled
  BY TypedInit, ScheduledInit DEF Init, Recovering
<1>2. Typed /\ Recovering /\ Scheduled /\ [Next]_vars => (Typed /\ Recovering /\ Scheduled)'
  BY TypedStep, RecoveringStep, ScheduledStep
<1>3. Typed /\ Recovering /\ Scheduled /\ [Next]_vars
        => [issued' # issued => fsm = "AI_CONFIRMATION"]_vars
  <2> SUFFICES ASSUME Typed, Scheduled, [Next]_vars, issued' # issued
               PROVE  fsm = "AI_CONFIRMATION"
    OBVIOUS
  <2>1. OpenPosition
    BY DEF Next, Handler, Environment, StartUp, StartInert, Stop, TimerFires, OnTick,
       ProbeBackend, SendHeartbeat, SessionCheck, RequestRejected, RequestApproved,
       CommandReceived, PositionClosed, ReadyForNextSession, NothingToScan,
       CheckOrphanPositions, ReportPosition, CommandFails, ClosePosition, ReportResult,
       RecoverySucceeds, RecoveryFails, BrokerCloses, SessionChanges, RetryElapses,
       BackendSettles, vars, brokerVars
  <2>2. Dispatching /\ cmd.kind = "OPEN"
    BY <2>1 DEF OpenPosition, Scheduled
  <2>3. snapshot = "SCAN_SIGNAL" /\ fsm = Requested[snapshot]
    BY <2>2 DEF Dispatching, Scanning
  <2> QED
    BY <2>3 DEF Requested
<1> QED
  BY <1>1, <1>2, <1>3, PTL DEF Spec

\* No order goes out from a machine that has been disconnected or aborted since the
\* scan that asked for it.
THEOREM OrdersInTurn ==
  ASSUME TimersFit, OrdersOnSignal
  PROVE  Spec => NoOrderOutOfTurn
<1>1. [issued' # issued => fsm = "AI_CONFIRMATION"]_vars
        => [issued' # issued => fsm \in {"AI_CONFIRMATION", "OPEN_POSITION"}]_vars
  OBVIOUS
<1> QED
  BY <1>1, OrdersAtConfirmation, PTL DEF NoOrderOutOfTurn

\* The end of a scan in which the machine is disconnected is no retreat to
\* WAIT_SESSION: the states that retreat are never disconnected by their own call.
LEMMA NoRetreat ==
  ASSUME Typed, Scheduled, fsm = "DISCONNECTED", snapshot \in DOMAIN Requested
  PROVE  /\ AfterRequest(fsm) = fsm
         /\ AfterRequest(TransitionTo(fsm, Requested[snapshot])) = fsm
<1>1. snapshot \notin Scanning
  BY DEF Scheduled
<1>2. TransitionTo(fsm, Requested[snapshot]) = fsm
  BY DEF TransitionTo, IsValidTransition, TransitionTable, Requested
<1> QED
  BY <1>1, <1>2 DEF AfterRequest

\* A disconnected machine is brought back by the recovery, or by the end of a
\* position that was closed: no scan on a state read before the heartbeat of its
\* own timer call takes it to WAIT_SESSION.
THEOREM ScanKeepsDisconnected ==
  ASSUME TimersFit, OrdersOnSignal
  PROVE  Spec => ScanNeverEndsDisconnected
<1>1. Init => Typed /\ Recovering /\ Scheduled
  BY TypedInit, ScheduledInit DEF Init, Recovering
<1>2. Typed /\ Recovering /\ Scheduled /\ [Next]_vars => (Typed /\ Recovering /\ Scheduled)'
  BY TypedStep, RecoveringStep, ScheduledStep
<1>3. Typed /\ Recovering /\ Scheduled /\ [Next]_vars
        => [fsm = "DISCONNECTED" /\ fsm' = "WAIT_SESSION" => pc \in {"recover", "closed"}]_vars
  <2> SUFFICES ASSUME Typed, Scheduled, [Next]_vars, fsm = "DISCONNECTED",
                      fsm' = "WAIT_SESSION", pc \notin {"recover", "closed"}
               PROVE  FALSE
    OBVIOUS
  <2>a. \A to : TransitionTo(fsm, to) \in {"DISCONNECTED", to}
    BY DEF TransitionTo
  <2>1. CASE StartUp \/ StartInert \/ Stop \/ TimerFires
    BY <2>1, <2>a DEF StartUp, StartInert, Stop, TimerFires
  <2>2. CASE ProbeBackend
    BY <2>2 DEF ProbeBackend, Scheduled, Down
  <2>3. CASE OnTick
    BY <2>3 DEF OnTick, CheckSessionAbort, IsAbortableState, Scanning
  <2>4. CASE SendHeartbeat \/ SessionCheck \/ PositionClosed
    BY <2>4, <2>a DEF SendHeartbeat, SessionCheck, PositionClosed
  <2>5. CASE RequestRejected \/ RequestApproved
    BY <2>5, NoRetreat DEF RequestRejected, RequestApproved
  <2>6. CASE CommandReceived
    <3>1. fsm' = TransitionTo(fsm, Requested[snapshot]) /\ snapshot \in DOMAIN Requested
      BY <2>6 DEF CommandReceived
    <3>2. Requested[snapshot] # "WAIT_SESSION"
      BY <3>1 DEF Requested
    <3> QED
      BY <2>a, <3>1, <3>2
  <2>7. CASE ReportResult
    <3>1. fsm' = AfterRequest(fsm) /\ snapshot \in DOMAIN Requested
      BY <2>7 DEF ReportResult, Scheduled, Dispatching
    <3> QED
      BY <3>1, NoRetreat
  <2>8. CASE \/ NothingToScan \/ CheckOrphanPositions \/ ReportPosition
             \/ CommandFails \/ OpenPosition \/ ClosePosition
    BY <2>8 DEF NothingToScan, CheckOrphanPositions, ReportPosition, CommandFails,
       OpenPosition, ClosePosition
  <2>9. CASE ReadyForNextSession \/ RecoverySucceeds \/ RecoveryFails
    BY <2>9 DEF ReadyForNextSession, RecoverySucceeds, RecoveryFails
  <2>10. CASE Environment \/ UNCHANGED vars
    BY <2>10 DEF Environment, BrokerCloses, SessionChanges, RetryElapses,
       BackendSettles, vars
  <2> QED
    BY <2>1, <2>2, <2>3, <2>4, <2>5, <2>6, <2>7, <2>8, <2>9, <2>10 DEF Next, Handler
<1> QED
  BY <1>1, <1>2, <1>3, PTL DEF Spec, ScanNeverEndsDisconnected
=============================================================================
