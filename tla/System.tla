------------------------------- MODULE System -------------------------------
(***************************************************************************)
(* The EA and the backend together, as they are wired: Gateway with the    *)
(* answers of StateManager and of the routers for trades, positions and    *)
(* recovery, which decide on two keys in Redis.                            *)
(*                                                                         *)
(* A request is handled while its Post lasts, or is lost, or its answer    *)
(* is; Backend has the awaits inside a request.                            *)
(***************************************************************************)
EXTENDS Gateway

VARIABLES
  filled,   \* the last command that this run of the EA carried out opened a position
  success,  \* trade:result:success
  known     \* position:open

redisVars == <<success, known>>
systemVars == <<vars, filled, redisVars>>

SystemInit ==
  /\ Init
  /\ filled = FALSE
  /\ success = FALSE
  /\ known = FALSE

-----------------------------------------------------------------------------
(***************************************************************************)
(* POST /trade/result.                                                     *)
(***************************************************************************)
\* The providers of routers/trade.py take redis as a plain parameter, which
\* FastAPI looks for in the query; the EA sends no query.
ProviderQuery == {"redis"}
QuerySent     == {}

\* What the route passes to record_trade_result, and what that takes.
ArgumentsPassed == {"success", "ticket", "fill_price", "error_code", "error_message"}
ArgumentsTaken  == {"success", "ticket", "fill_price", "error_code"}

TradeResultIsHandled ==
  ProviderQuery \subseteq QuerySent /\ ArgumentsPassed \subseteq ArgumentsTaken

receive_trade_result ==
  IF TradeResultIsHandled
    THEN /\ success' = filled
         /\ known' = (known \/ filled)
    ELSE UNCHANGED redisVars

-----------------------------------------------------------------------------
(***************************************************************************)
(* POST /state/transition.  The risk lock is never set: no position is     *)
(* ever booked, since the EA does not ask for POSITION_CLOSED.  The hours  *)
(* of London and New York together are those of the EA.                    *)
(***************************************************************************)
MayApprove(s) ==
  CASE s = "CHECK_RISK"      -> inSession
    [] s = "SCAN_SIGNAL"     -> inSession /\ ~known
    [] s = "AI_CONFIRMATION" -> TRUE
    [] s = "OPEN_POSITION"   -> success

\* What an approval leaves of the success flag.
Consumed(s) == success /\ s # "OPEN_POSITION"

\* A signal is the one approval that carries a command.
StateApproved ==
  /\ RequestApproved
  /\ snapshot # "SCAN_SIGNAL"
  /\ MayApprove(snapshot)
  /\ success' = Consumed(snapshot)
  /\ UNCHANGED <<filled, known>>

SignalReceived ==
  /\ CommandReceived
  /\ snapshot = "SCAN_SIGNAL" /\ cmd'.kind = "OPEN"
  /\ MayApprove(snapshot)
  /\ UNCHANGED <<filled, redisVars>>

\* Refused, not answered in time, or failed; there need not be a signal.  The
\* backend may have approved what the EA did not hear of.
StateRejected ==
  /\ RequestRejected
  /\ backend = "up" => snapshot = "SCAN_SIGNAL" \/ ~MayApprove(snapshot)
  /\ success' \in IF backend = "up" THEN {success} ELSE {success, Consumed(snapshot)}
  /\ UNCHANGED <<filled, known>>

-----------------------------------------------------------------------------
(***************************************************************************)
(* The other requests.                                                     *)
(***************************************************************************)
\* Only a confirmed BUY or SELL is reported as a success.
CommandEnds ==
  /\ CommandFails \/ OpenPosition
  /\ filled' = (hasOpen' /\ ~hasOpen)
  /\ UNCHANGED redisVars

ResultReported ==
  /\ ReportResult
  /\ \/ receive_trade_result
     \/ backend # "up" /\ UNCHANGED redisVars
  /\ UNCHANGED filled

\* receive_position_status.
StatusReported ==
  /\ ReportPosition
  /\ known' \in IF snapshot = "MANAGE_POSITION" /\ hasOpen /\ positions # {}
                  THEN IF backend = "up" THEN {TRUE} ELSE {known, TRUE}
                  ELSE {known}
  /\ UNCHANGED <<filled, success>>

\* state_recovery confirms the state that the EA reports.
RecoveryConfirmed ==
  /\ RecoverySucceeds
  /\ fsm' = RecoverTo(fsm, fsm)
  /\ UNCHANGED <<filled, redisVars>>

Elsewhere ==
  /\ \/ ProbeBackend \/ SendHeartbeat \/ SessionCheck
     \/ PositionClosed \/ ReadyForNextSession \/ NothingToScan
     \/ CheckOrphanPositions \/ RecoveryFails
  /\ UNCHANGED <<filled, redisVars>>

SystemHandler ==
  \/ StateApproved \/ SignalReceived \/ StateRejected
  \/ CommandEnds \/ ResultReported \/ StatusReported
  \/ RecoveryConfirmed \/ Elsewhere

Outside ==
  /\ StartUp \/ StartInert \/ Environment
  /\ UNCHANGED <<filled, redisVars>>

Restart ==
  /\ Stop
  /\ filled' = FALSE
  /\ UNCHANGED redisVars

SystemTimer == TimerFires /\ UNCHANGED <<filled, redisVars>>
SystemTick  == OnTick /\ UNCHANGED <<filled, redisVars>>

SystemNext == SystemTimer \/ SystemTick \/ SystemHandler \/ Outside \/ Restart

\* Fairness as in Gateway.
SystemSpec ==
  /\ SystemInit /\ [][SystemNext]_systemVars
  /\ WF_systemVars(SystemHandler)
  /\ SF_systemVars(SystemTimer)
  /\ SF_systemVars(SystemTick)
  /\ WF_systemVars(RetryElapses /\ UNCHANGED <<filled, redisVars>>)

-----------------------------------------------------------------------------
\* With a backend that is up all the time, an order that opened a position gets the
\* EA from OPEN_POSITION to MANAGE_POSITION, unless the EA is stopped.
FillIsManaged ==
  [](Running => backend = "up") =>
    (fsm = "OPEN_POSITION" /\ filled ~> fsm # "OPEN_POSITION")
=============================================================================
