--------------------------- MODULE System_proofs ----------------------------
(***************************************************************************)
(* Theorems about System: the EA with this backend is the EA of Gateway,   *)
(* so that what is proved there holds here, and what follows from the way  *)
(* the backend is wired.                                                   *)
(***************************************************************************)
EXTENDS System, Gateway_proofs

\* Every step of the two together is a step of the EA or leaves it alone.
LEMMA StepOfGateway == [SystemNext]_systemVars => [Next]_vars
<1>1. StateApproved \/ SignalReceived \/ StateRejected => Handler
  BY DEF StateApproved, SignalReceived, StateRejected, Handler
<1>2. CommandEnds \/ ResultReported \/ StatusReported \/ RecoveryConfirmed => Handler
  BY DEF CommandEnds, ResultReported, StatusReported, RecoveryConfirmed, Handler
<1>3. Elsewhere => Handler
  BY DEF Elsewhere, Handler
<1>4. SystemTimer \/ SystemTick \/ Outside \/ Restart => Next
  BY DEF SystemTimer, SystemTick, Outside, Restart, Next
<1>5. UNCHANGED systemVars => UNCHANGED vars
  BY DEF systemVars
<1> QED
  BY <1>1, <1>2, <1>3, <1>4, <1>5 DEF SystemNext, SystemHandler, Next

\* The EA with this backend behaves as Gateway says of any backend: the answers of
\* StateManager and of the routers are among those that Gateway allows.
THEOREM SystemIsGateway == SystemSpec => Spec
<1>1. SystemInit => Init
  BY DEF SystemInit
<1> QED
  BY <1>1, StepOfGateway, PTL DEF SystemSpec, Spec

\* The EA with this backend never has two positions open, and tracks the one it has,
\* if every order carried out is confirmed.
THEOREM SystemKeepsOnePosition ==
  BrokerAnswers = {"done"} => (SystemSpec => [](AtMostOnePosition /\ PositionsAreTracked))
<1> SUFFICES ASSUME BrokerAnswers = {"done"}
             PROVE  SystemSpec => [](AtMostOnePosition /\ PositionsAreTracked)
  OBVIOUS
<1>1. Spec => []AtMostOnePosition
  BY OnePosition
<1>2. Spec => []PositionsAreTracked
  BY PositionsTracked
<1> QED
  BY <1>1, <1>2, SystemIsGateway, PTL

-----------------------------------------------------------------------------
(***************************************************************************)
(* As it is wired, no result of a trade is recorded.                       *)
(***************************************************************************)
\* The EA is not in MANAGE_POSITION, and neither the success flag nor position:open is set.
NothingIsManaged == fsm # "MANAGE_POSITION" /\ ~success /\ ~known

\* The scan that a timer call will do is not one of MANAGE_POSITION either.
WiredInv == NothingIsManaged /\ snapshot # "MANAGE_POSITION"

\* TransitionTo reaches its target or stays.
LEMMA TargetOrStay == \A from, to : TransitionTo(from, to) \in {from, to}
BY DEF TransitionTo

LEMMA Retreats == \A now : AfterRequest(now) \in {now, "WAIT_SESSION"}
BY TargetOrStay DEF AfterRequest

\* Neither the query nor the arguments of /trade/result are those that are needed.
LEMMA ResultIsNotHandled == ~TradeResultIsHandled
BY DEF TradeResultIsHandled, ProviderQuery, QuerySent

\* A section of OnTimer that ends keeps the state it was called with or forgets it.
LEMMA FinishForgets == \A t : Finish(t) => snapshot' \in {snapshot, "none"}
BY DEF Finish

\* An answer to a request moves the EA no further than the backend approves.
LEMMA RequestsWired ==
  WiredInv /\ (StateApproved \/ SignalReceived \/ StateRejected) => WiredInv'
<1> SUFFICES ASSUME WiredInv, StateApproved \/ SignalReceived \/ StateRejected
             PROVE  WiredInv'
  OBVIOUS
<1>a. fsm # "MANAGE_POSITION" /\ ~success /\ ~known /\ snapshot # "MANAGE_POSITION"
  BY DEF WiredInv, NothingIsManaged
<1>1. CASE StateApproved
  <2>1. RequestApproved /\ MayApprove(snapshot) /\ success' = Consumed(snapshot) /\ known' = known
    BY <1>1 DEF StateApproved
  <2>2. snapshot \in DOMAIN Requested /\ snapshot # "OPEN_POSITION"
    BY <1>a, <2>1 DEF RequestApproved, MayApprove, Requested
  <2>3. Requested[snapshot] # "MANAGE_POSITION"
    BY <2>2 DEF Requested
  <2>4. fsm' = AfterRequest(TransitionTo(fsm, Requested[snapshot]))
        /\ snapshot' \in {snapshot, "none"}
    BY <2>1, FinishForgets DEF RequestApproved
  <2>5. fsm' \in {fsm, Requested[snapshot], "WAIT_SESSION"}
    BY <2>4, TargetOrStay, Retreats
  <2>6. ~success' /\ ~known'
    BY <1>a, <2>1 DEF Consumed
  <2> QED
    BY <1>a, <2>3, <2>4, <2>5, <2>6 DEF WiredInv, NothingIsManaged
<1>2. CASE SignalReceived
  <2>1. /\ fsm' = TransitionTo(fsm, Requested[snapshot]) /\ snapshot = "SCAN_SIGNAL"
        /\ snapshot' = snapshot /\ success' = success /\ known' = known
    BY <1>2 DEF SignalReceived, CommandReceived, redisVars
  <2>2. Requested[snapshot] # "MANAGE_POSITION"
    BY <2>1 DEF Requested
  <2>3. fsm' \in {fsm, Requested[snapshot]}
    BY <2>1, TargetOrStay
  <2> QED
    BY <1>a, <2>1, <2>2, <2>3 DEF WiredInv, NothingIsManaged
<1>3. CASE StateRejected
  <2>1. /\ RequestRejected /\ known' = known
        /\ success' \in IF backend = "up" THEN {success} ELSE {success, Consumed(snapshot)}
    BY <1>3 DEF StateRejected
  <2>2. fsm' \in {fsm, "WAIT_SESSION"} /\ snapshot' \in {snapshot, "none"}
    BY <2>1, Retreats, FinishForgets DEF RequestRejected
  <2>3. ~success'
    BY <1>a, <2>1 DEF Consumed
  <2> QED
    BY <1>a, <2>1, <2>2, <2>3 DEF WiredInv, NothingIsManaged
<1> QED
  BY <1>1, <1>2, <1>3

\* The other requests write neither key: the result of a trade is not handled, and
\* the status of a position is reported in MANAGE_POSITION only.
LEMMA ReportsWired ==
  WiredInv /\ (CommandEnds \/ ResultReported \/ StatusReported \/ RecoveryConfirmed) => WiredInv'
<1> SUFFICES ASSUME WiredInv,
                    CommandEnds \/ ResultReported \/ StatusReported \/ RecoveryConfirmed
             PROVE  WiredInv'
  OBVIOUS
<1>a. fsm # "MANAGE_POSITION" /\ ~success /\ ~known /\ snapshot # "MANAGE_POSITION"
  BY DEF WiredInv, NothingIsManaged
<1>1. CASE CommandEnds
  <2>1. fsm' = fsm /\ snapshot' = snapshot /\ success' = success /\ known' = known
    BY <1>1 DEF CommandEnds, CommandFails, OpenPosition, redisVars
  <2> QED
    BY <1>a, <2>1 DEF WiredInv, NothingIsManaged
<1>2. CASE ResultReported
  <2>1. success' = success /\ known' = known
    BY <1>2, ResultIsNotHandled DEF ResultReported, receive_trade_result, redisVars
  <2>2. fsm' \in {fsm, "WAIT_SESSION"} /\ snapshot' \in {snapshot, "none"}
    BY <1>2, Retreats, FinishForgets DEF ResultReported, ReportResult
  <2> QED
    BY <1>a, <2>1, <2>2 DEF WiredInv, NothingIsManaged
<1>3. CASE StatusReported
  <2>1. known' = known /\ success' = success
    BY <1>a, <1>3 DEF StatusReported
  <2>2. fsm' = fsm /\ snapshot' \in {snapshot, "none"}
    BY <1>3, FinishForgets DEF StatusReported, ReportPosition
  <2> QED
    BY <1>a, <2>1, <2>2 DEF WiredInv, NothingIsManaged
<1>4. CASE RecoveryConfirmed
  <2>1. fsm' = RecoverTo(fsm, fsm) /\ snapshot' = snapshot /\ success' = success /\ known' = known
    BY <1>4 DEF RecoveryConfirmed, RecoverySucceeds, redisVars
  <2>2. fsm' \in {fsm, "WAIT_SESSION"}
    BY <2>1, TargetOrStay DEF RecoverTo
  <2> QED
    BY <1>a, <2>1, <2>2 DEF WiredInv, NothingIsManaged
<1> QED
  BY <1>1, <1>2, <1>3, <1>4

\* No other handler goes to MANAGE_POSITION.
LEMMA ElsewhereWired == WiredInv /\ Elsewhere => WiredInv'
<1> SUFFICES ASSUME WiredInv, Elsewhere PROVE WiredInv'
  OBVIOUS
<1>a. fsm # "MANAGE_POSITION" /\ ~success /\ ~known /\ snapshot # "MANAGE_POSITION"
  BY DEF WiredInv, NothingIsManaged
<1>b. success' = success /\ known' = known
  BY DEF Elsewhere, redisVars
<1> DEFINE Kept == /\ fsm' \in {fsm, "WAIT_SESSION", "CHECK_RISK", "POSITION_CLOSED", "DISCONNECTED"}
                   /\ snapshot' \in {snapshot, "none"}
<1>1. ASSUME ProbeBackend \/ RecoveryFails PROVE Kept
  BY <1>1, TargetOrStay DEF ProbeBackend, RecoveryFails
<1>2. ASSUME SendHeartbeat \/ SessionCheck PROVE Kept
  BY <1>2, TargetOrStay, FinishForgets DEF SendHeartbeat, SessionCheck
<1>3. ASSUME PositionClosed \/ ReadyForNextSession PROVE Kept
  BY <1>3, TargetOrStay, FinishForgets DEF PositionClosed, ReadyForNextSession
<1>4. ASSUME NothingToScan \/ CheckOrphanPositions PROVE Kept
  BY <1>4, FinishForgets DEF NothingToScan, CheckOrphanPositions
<1>5. Kept
  BY <1>1, <1>2, <1>3, <1>4 DEF Elsewhere
<1> QED
  BY <1>a, <1>b, <1>5 DEF WiredInv, NothingIsManaged

\* Nor do the events that start a handler, and the environment.
LEMMA EventsWired ==
  WiredInv /\ (SystemTimer \/ SystemTick \/ Outside \/ Restart) => WiredInv'
<1> SUFFICES ASSUME WiredInv, SystemTimer \/ SystemTick \/ Outside \/ Restart PROVE WiredInv'
  OBVIOUS
<1>a. fsm # "MANAGE_POSITION" /\ ~success /\ ~known /\ snapshot # "MANAGE_POSITION"
  BY DEF WiredInv, NothingIsManaged
<1>b. success' = success /\ known' = known
  BY DEF SystemTimer, SystemTick, Outside, Restart, redisVars
<1> DEFINE Kept == /\ fsm' \in {fsm, "WAIT_SESSION", "CONNECT", "BOOT"}
                   /\ snapshot' \in {snapshot, fsm, "none"}
<1>1. ASSUME SystemTimer PROVE Kept
  BY <1>1 DEF SystemTimer, TimerFires
<1>2. ASSUME SystemTick PROVE Kept
  BY <1>2, TargetOrStay DEF SystemTick, OnTick, CheckSessionAbort
<1>3. ASSUME Outside PROVE Kept
  <2>1. ASSUME StartUp \/ StartInert PROVE Kept
    BY <2>1, TargetOrStay DEF StartUp, StartInert
  <2>2. ASSUME Environment PROVE Kept
    BY <2>2 DEF Environment, BrokerCloses, SessionChanges, RetryElapses, BackendSettles,
       handlerVars
  <2> QED
    BY <1>3, <2>1, <2>2 DEF Outside
<1>4. ASSUME Restart PROVE Kept
  BY <1>4 DEF Restart, Stop
<1>5. Kept
  BY <1>1, <1>2, <1>3, <1>4
<1> QED
  BY <1>a, <1>b, <1>5 DEF WiredInv, NothingIsManaged

\* As the backend is wired, the EA never gets to MANAGE_POSITION and neither key is
\* ever set, for all intervals, thresholds, commands and answers of the broker, and
\* whether or not the backend answers.
THEOREM NothingManaged == SystemSpec => []NothingIsManaged
<1>1. SystemInit => WiredInv
  BY DEF SystemInit, Init, WiredInv, NothingIsManaged
<1>2. WiredInv /\ [SystemNext]_systemVars => WiredInv'
  <2>1. WiredInv /\ UNCHANGED systemVars => WiredInv'
    BY DEF systemVars, vars, handlerVars, redisVars, WiredInv, NothingIsManaged
  <2> QED
    BY <2>1, RequestsWired, ReportsWired, ElsewhereWired, EventsWired
       DEF SystemNext, SystemHandler
<1>3. WiredInv => NothingIsManaged
  BY DEF WiredInv
<1> QED
  BY <1>1, <1>2, <1>3, PTL DEF SystemSpec
=============================================================================
