------------------------------ MODULE Gateway ------------------------------
(***************************************************************************)
(* The EA gateway: the event handlers of EAGateway.mq5 with every module   *)
(* they call (state machine, HTTP client, health monitor, recovery         *)
(* manager, command dispatcher, trade executor, session abort handler),    *)
(* running against a broker that closes positions by itself, a trading     *)
(* session that opens and closes, and a backend that may or may not        *)
(* answer.                                                                 *)
(*                                                                         *)
(* MQL5 runs one handler at a time, but a handler blocks in WebRequest and *)
(* the world moves meanwhile.  A handler is therefore cut at its Posts: pc *)
(* says which piece is next, and the environment may step between pieces.  *)
(***************************************************************************)
EXTENDS EAStates, Integers, FiniteSets

CONSTANTS
  Interval,       \* seconds between two runs of each section of OnTimer
  Threshold,      \* RECOVERY_DISCONNECT_THRESHOLD
  MaxTickets,     \* bound: positions ever opened
  BrokerAnswers,  \* how an order that is carried out may be acknowledged
  Commands        \* kinds of command a reply to a request from a state carries

Tasks == {"heartbeat", "session", "scan", "orphan", "report"}

ASSUME IntervalAssumption   == Interval \in [Tasks -> Nat \ {0}]
ASSUME ThresholdAssumption  == Threshold \in Nat \ {0}
ASSUME TicketsAssumption    == MaxTickets \in Nat
ASSUME AnswersAssumption    == BrokerAnswers \subseteq {"done", "unconfirmed"}
ASSUME CommandsAssumption   ==
  Commands \in [DOMAIN Requested -> SUBSET {"OPEN", "CLOSE"}]

VARIABLES
  fsm,         \* m_currentState of the state machine
  snapshot,    \* the local variable state of OnTimer; "none" out of scope
  pc,          \* the next piece of the running handler; "idle" between handlers
  due,         \* sections of OnTimer still to run in this call
  count,       \* the g_...Counter variables
  cmd,         \* the command being dispatched
  connected,   \* m_isConnected of the HTTP client
  failures,    \* m_consecutiveFailures of the recovery manager, up to Threshold
  missed,      \* history: heartbeats in a row without an answer, up to Threshold
  retryDue,    \* the retry interval since m_lastRetryTime has passed
  hasOpen,     \* m_hasOpenPosition of the trade executor
  openTicket,  \* m_openTicket of the trade executor
  positions,   \* tickets of the positions open at the broker
  issued,      \* number of tickets the broker has given out
  inSession,   \* IsInSession(): the UTC hour is in [8, 21)
  backend      \* how the backend behaves from now on

handlerVars == <<snapshot, pc, due, count, cmd>>
linkVars    == <<connected, failures, missed, retryDue>>
execVars    == <<hasOpen, openTicket>>
brokerVars  == <<positions, issued>>
envVars     == <<inSession, backend>>
vars == <<fsm, handlerVars, linkVars, execVars, brokerVars, envVars>>

NoCommand == [kind |-> "none", ticket |-> 0]
Command == [kind : {"none", "OPEN", "CLOSE"}, ticket : 0..MaxTickets]

-----------------------------------------------------------------------------
(***************************************************************************)
(* The HTTP client.  The outcome of one Post: a usable 2xx reply ("ok"),   *)
(* any other answer below 500 ("refused"), 5xx after all retries ("error") *)
(* or WebRequest = -1 ("timeout").  A flaky backend may give any of them.  *)
(***************************************************************************)
Outcome == {"ok", "refused", "error", "timeout"}

MayAnswer == [flaky |-> Outcome, up |-> {"ok"}, erring |-> {"error"},
              down |-> {"timeout"}]

\* Mutant: a timeout does not clear m_isConnected.
StickyConnectedAfter(conn, o) == conn \/ o \in {"ok", "refused"}

\* m_isConnected after a Post: exhausted 5xx retries leave it as it was.
ConnectedAfter(conn, o) ==
  \/ o \in {"ok", "refused"}
  \/ o = "error" /\ conn

\* m_isConnected after zero or more Posts whose replies nothing looks at.
ConnectedAfterPosts(conn) ==
  {conn} \cup {ConnectedAfter(conn, o) : o \in MayAnswer[backend]}

\* Counting up to Threshold: nothing distinguishes larger values.
Bump(n) == IF n < Threshold THEN n + 1 ELSE Threshold

\* Mutant: a success does not forget the failures before it.
ForgetfulFailures(n, conn) == IF conn THEN n ELSE Bump(n)

\* OnConnectionSuccess or OnConnectionFailure, by IsConnected().
FailuresAfter(n, conn) == IF conn THEN 0 ELSE Bump(n)

\* A heartbeat: Post, then the failure count, then the history of silence.
Heartbeat(o) ==
  /\ connected' = ConnectedAfter(connected, o)
  /\ failures' = FailuresAfter(failures, connected')
  /\ missed' = IF o \in {"ok", "refused"} THEN 0 ELSE Bump(missed)

-----------------------------------------------------------------------------
(***************************************************************************)
(* Start and stop.  All modules are new after OnInit; the counters are     *)
(* globals, which MQL5 keeps across a re-initialization.                   *)
(***************************************************************************)
Init ==
  /\ fsm = "BOOT"
  /\ snapshot = "none"
  /\ pc = "off"
  /\ due = {}
  /\ count = [t \in Tasks |-> 0]
  /\ cmd = NoCommand
  /\ connected = FALSE
  /\ failures = 0
  /\ missed = 0
  /\ retryDue = TRUE
  /\ hasOpen = FALSE
  /\ openTicket = 0
  /\ issued \in {0, 1} /\ issued <= MaxTickets
  /\ positions = 1..issued
  /\ inSession \in BOOLEAN
  /\ backend = "flaky"

\* Mutant: the executor starts without looking for a position.
AdoptNothing(ps) == {0}

\* TradeExecutor.Init: PositionSelect finds a position of the symbol, if any.
AdoptPosition(ps) == IF ps = {} THEN {0} ELSE ps

\* OnInit up to the connectivity probe: BOOT to CONNECT.
StartUp ==
  /\ pc = "off"
  /\ pc' = "connect"
  /\ fsm' = TransitionTo(fsm, "CONNECT")
  /\ openTicket' \in AdoptPosition(positions)
  /\ hasOpen' = (openTicket' # 0)
  /\ UNCHANGED <<snapshot, due, count, cmd, linkVars, brokerVars, envVars>>

\* OnInit returns early (bad configuration, no log file): every later handler
\* sees a NULL module and returns.
StartInert ==
  /\ pc = "off"
  /\ pc' = "inert"
  /\ UNCHANGED <<fsm, snapshot, due, count, cmd, linkVars, execVars, brokerVars,
                 envVars>>

\* OnInit resets every counter.
ResetCounters(c) == [t \in Tasks |-> 0]

\* The rest of OnInit: a heartbeat decides between WAIT_SESSION and CONNECT.
ProbeBackend ==
  /\ pc = "connect"
  /\ pc' = "idle"
  /\ \E o \in MayAnswer[backend] : Heartbeat(o)
  /\ fsm' = IF connected' THEN TransitionTo(fsm, "WAIT_SESSION") ELSE fsm
  /\ count' = ResetCounters(count)
  /\ UNCHANGED <<snapshot, due, cmd, retryDue, execVars, brokerVars, envVars>>

\* OnDeinit, or the terminal dies in the middle of a handler.
Stop ==
  /\ pc # "off"
  /\ pc' = "off"
  /\ fsm' = "BOOT"
  /\ snapshot' = "none"
  /\ due' = {}
  /\ cmd' = NoCommand
  /\ connected' = FALSE
  /\ failures' = 0
  /\ missed' = 0
  /\ retryDue' = TRUE
  /\ hasOpen' = FALSE
  /\ openTicket' = 0
  /\ UNCHANGED <<count, brokerVars, envVars>>

-----------------------------------------------------------------------------
(***************************************************************************)
(* OnTimer.  The state is read once, at the start; the sections that are   *)
(* due run in the order of the code, each deciding on that snapshot.       *)
(***************************************************************************)
Rank == [heartbeat |-> 1, session |-> 2, scan |-> 3, orphan |-> 4, report |-> 5]

\* Mutant: the session check does not wait for its interval.
IsDueOrSession(t) == t = "session" \/ count[t] + 1 >= Interval[t]

IsDue(t) == count[t] + 1 >= Interval[t]

\* Mutant: the section runs but its counter is not reset.
RunawayCount(t) == count[t] + 1

\* Increment, and reset the counter of a section that is going to run.
CountAfter(t) == IF IsDue(t) THEN 0 ELSE count[t] + 1

TimerFires ==
  /\ pc = "idle"
  /\ due' = {t \in Tasks : IsDue(t)}
  /\ count' = [t \in Tasks |-> CountAfter(t)]
  /\ pc' = IF due' = {} THEN "idle" ELSE "timer"
  /\ snapshot' = IF due' = {} THEN "none" ELSE fsm
  /\ UNCHANGED <<fsm, cmd, linkVars, execVars, brokerVars, envVars>>

Turn(t) ==
  /\ pc = "timer"
  /\ t \in due
  /\ \A u \in due : Rank[t] <= Rank[u]

\* Section t is over; after the last one OnTimer returns.
Finish(t) ==
  /\ due' = due \ {t}
  /\ pc' = IF due' = {} THEN "idle" ELSE "timer"
  /\ snapshot' = IF due' = {} THEN "none" ELSE snapshot
  /\ cmd' = NoCommand
  /\ UNCHANGED count

SendHeartbeat ==
  /\ Turn("heartbeat")
  /\ Finish("heartbeat")
  /\ \E o \in MayAnswer[backend] : Heartbeat(o)
  /\ fsm' = IF failures' >= Threshold /\ snapshot # "DISCONNECTED"
              THEN TransitionTo(fsm, "DISCONNECTED") ELSE fsm
  /\ UNCHANGED <<retryDue, execVars, brokerVars, envVars>>

\* Mutant: the session window is not consulted.
AlwaysMayTrade(s, open) == s = "WAIT_SESSION"

MayTrade(s, open) == s = "WAIT_SESSION" /\ open

SessionCheck ==
  /\ Turn("session")
  /\ Finish("session")
  /\ fsm' = IF MayTrade(snapshot, inSession)
              THEN TransitionTo(fsm, "CHECK_RISK") ELSE fsm
  /\ UNCHANGED <<linkVars, execVars, brokerVars, envVars>>

\* What OnTimer does after a request for which the machine is in state now:
\* back to WAIT_SESSION unless it got there; OPEN_POSITION only waits.
AfterRequest(now) ==
  IF snapshot \in Scanning /\ now # Requested[snapshot]
    THEN TransitionTo(now, "WAIT_SESSION") ELSE now

\* No usable reply, or a reply that does not approve.
RequestRejected ==
  /\ Turn("scan")
  /\ snapshot \in DOMAIN Requested
  /\ Finish("scan")
  /\ \E o \in MayAnswer[backend] : connected' = ConnectedAfter(connected, o)
  /\ fsm' = AfterRequest(fsm)
  /\ UNCHANGED <<failures, missed, retryDue, execVars, brokerVars, envVars>>

\* HandleStateResponse approves without a command.  It moves to the new_state that
\* the reply names, which is the state that was asked for: process_transition of
\* StateManager answers target_state.
RequestApproved ==
  /\ Turn("scan")
  /\ snapshot \in DOMAIN Requested
  /\ "ok" \in MayAnswer[backend]
  /\ Finish("scan")
  /\ connected' = ConnectedAfter(connected, "ok")
  /\ fsm' = AfterRequest(TransitionTo(fsm, Requested[snapshot]))
  /\ UNCHANGED <<failures, missed, retryDue, execVars, brokerVars, envVars>>

\* HandleStateResponse approves with a command, which it dispatches whether or
\* not the state machine accepted the transition.
CommandReceived ==
  /\ Turn("scan")
  /\ snapshot \in DOMAIN Requested
  /\ "ok" \in MayAnswer[backend]
  /\ pc' = "dispatch"
  /\ connected' = ConnectedAfter(connected, "ok")
  /\ fsm' = TransitionTo(fsm, Requested[snapshot])
  /\ \E c \in Command :
       /\ c.kind \in Commands[snapshot]
       /\ c.kind = "CLOSE" <=> c.ticket # 0
       /\ cmd' = c
  /\ UNCHANGED <<snapshot, due, count, failures, missed, retryDue, execVars,
                 brokerVars, envVars>>

\* MANAGE_POSITION: the position is gone as far as the executor knows.
PositionClosed ==
  /\ Turn("scan")
  /\ snapshot = "MANAGE_POSITION" /\ ~hasOpen
  /\ pc' = "closed"
  /\ fsm' = TransitionTo(fsm, "POSITION_CLOSED")
  /\ UNCHANGED <<snapshot, due, count, cmd, linkVars, execVars, brokerVars,
                 envVars>>

ReadyForNextSession ==
  /\ pc = "closed"
  /\ Finish("scan")
  /\ fsm' = TransitionTo(fsm, "WAIT_SESSION")
  /\ UNCHANGED <<linkVars, execVars, brokerVars, envVars>>

\* The scan has nothing to do in the other states.
NothingToScan ==
  /\ Turn("scan")
  /\ snapshot \notin DOMAIN Requested
  /\ snapshot = "MANAGE_POSITION" => hasOpen
  /\ Finish("scan")
  /\ UNCHANGED <<fsm, linkVars, execVars, brokerVars, envVars>>

\* The replies, CLOSE commands for orphans included, are only logged.
CheckOrphanPositions ==
  /\ Turn("orphan")
  /\ Finish("orphan")
  /\ IF snapshot \in {"BOOT", "CONNECT"}
       THEN UNCHANGED connected
       ELSE connected' \in ConnectedAfterPosts(connected) 
  /\ UNCHANGED <<fsm, failures, missed, retryDue, execVars, brokerVars, envVars>>

ReportPosition ==
  /\ Turn("report")
  /\ Finish("report")
  /\ IF snapshot = "MANAGE_POSITION" /\ hasOpen /\ positions # {}
       THEN \E o \in MayAnswer[backend] : connected' = ConnectedAfter(connected, o)
       ELSE UNCHANGED connected
  /\ UNCHANGED <<fsm, failures, missed, retryDue, execVars, brokerVars, envVars>>

-----------------------------------------------------------------------------
(***************************************************************************)
(* DispatchCommand and ExecuteCommand, up to the report of the result.     *)
(***************************************************************************)
\* Out of session, not valid (lot, stop levels, position open, wrong ticket)
\* or rejected by the broker: nothing happens and the failure is reported.
CommandFails ==
  /\ pc = "dispatch"
  /\ pc' = "result"
  /\ UNCHANGED <<fsm, snapshot, due, count, cmd, linkVars, execVars, brokerVars,
                 envVars>>

\* Mutant: BUY and SELL are not checked against the open position.
IgnoreExistingPosition(has) == TRUE

CheckNoExistingPosition(has) == ~has

\* ExecuteBuy and ExecuteSell.  Only TRADE_RETCODE_DONE is a success; an order
\* filled in part or with a lost confirmation opens a position all the same.
OpenPosition ==
  /\ pc = "dispatch"
  /\ cmd.kind = "OPEN"
  /\ inSession
  /\ CheckNoExistingPosition(hasOpen)
  /\ issued < MaxTickets
  /\ pc' = "result"
  /\ issued' = issued + 1
  /\ positions' = positions \cup {issued'}
  /\ \E answer \in BrokerAnswers :
       /\ hasOpen' = (answer = "done" \/ hasOpen)
       /\ openTicket' = IF answer = "done" THEN issued' ELSE openTicket
  /\ UNCHANGED <<fsm, snapshot, due, count, cmd, linkVars, envVars>>

\* ExecuteClose, for the tracked ticket only; allowed out of session.
ClosePosition ==
  /\ pc = "dispatch"
  /\ cmd.kind = "CLOSE"
  /\ hasOpen /\ cmd.ticket = openTicket
  /\ openTicket \in positions
  /\ pc' = "result"
  /\ positions' = positions \ {openTicket}
  /\ \E answer \in BrokerAnswers :
       /\ hasOpen' = (answer # "done")
       /\ openTicket' = IF answer = "done" THEN 0 ELSE openTicket
  /\ UNCHANGED <<fsm, snapshot, due, count, cmd, linkVars, issued, envVars>>

\* ReportResult or ReportSessionRejection, then back in OnTimer.
ReportResult ==
  /\ pc = "result"
  /\ Finish("scan")
  /\ \E o \in MayAnswer[backend] : connected' = ConnectedAfter(connected, o)
  /\ fsm' = AfterRequest(fsm)
  /\ UNCHANGED <<failures, missed, retryDue, execVars, brokerVars, envVars>>

-----------------------------------------------------------------------------
(***************************************************************************)
(* OnTick.  Its Posts (ticks, a new bar, MT5 connectivity) change nothing  *)
(* but m_isConnected; MarketCollector sends none in BOOT and CONNECT.      *)
(***************************************************************************)
\* Mutant: every state is aborted when the session ends.
AlwaysAbortable(s) == TRUE

IsAbortableState(s) == s \in Scanning

CheckSessionAbort(s) ==
  IF ~inSession /\ IsAbortableState(s) /\ ~hasOpen
    THEN TransitionTo(s, "WAIT_SESSION") ELSE s

OnTick ==
  /\ pc = "idle"
  /\ fsm' = CheckSessionAbort(fsm)
  /\ connected' \in ConnectedAfterPosts(connected)
  /\ LET attempt == fsm' = "DISCONNECTED" /\ retryDue
     IN  /\ pc' = IF attempt THEN "recover" ELSE "idle"
         /\ retryDue' = (retryDue /\ ~attempt)
  /\ UNCHANGED <<snapshot, due, count, cmd, failures, missed, execVars, brokerVars,
                 envVars>>

\* Mutant: no fallback when the confirmed state cannot be entered.
RecoverOrStay(now, confirmed) == TransitionTo(now, confirmed)

\* The confirmed state if it can be entered, otherwise WAIT_SESSION.
RecoverTo(now, confirmed) ==
  IF IsValidTransition(now, confirmed)
    THEN confirmed ELSE TransitionTo(now, "WAIT_SESSION")

\* AttemptRecovery with a confirmation in time.
RecoverySucceeds ==
  /\ pc = "recover"
  /\ pc' = "idle"
  /\ "ok" \in MayAnswer[backend]
  /\ \E confirmed \in EAState : fsm' = RecoverTo(fsm, confirmed)
  /\ connected' = TRUE
  /\ failures' = IF fsm' # fsm THEN 0 ELSE failures
  /\ UNCHANGED <<snapshot, due, count, cmd, missed, retryDue, execVars, brokerVars,
                 envVars>>

\* No answer, a bad one, or one that came after RECOVERY_CONFIRMATION_TIMEOUT.
RecoveryFails ==
  /\ pc = "recover"
  /\ pc' = "idle"
  /\ backend # "up"
  /\ \E o \in MayAnswer[backend] : connected' = ConnectedAfter(connected, o)
  /\ UNCHANGED <<fsm, snapshot, due, count, cmd, failures, missed, retryDue,
                 execVars, brokerVars, envVars>>

-----------------------------------------------------------------------------
(***************************************************************************)
(* The environment.                                                        *)
(***************************************************************************)
\* The broker closes a position at its stop-loss or take-profit.
BrokerCloses ==
  /\ \E t \in positions : positions' = positions \ {t}
  /\ UNCHANGED <<fsm, handlerVars, linkVars, execVars, issued, envVars>>

\* The UTC hour enters or leaves [8, 21).
SessionChanges ==
  /\ inSession' = ~inSession
  /\ UNCHANGED <<fsm, handlerVars, linkVars, execVars, brokerVars, backend>>

\* RECOVERY_RETRY_INTERVAL_SEC have passed since the last attempt.
RetryElapses ==
  /\ ~retryDue
  /\ retryDue' = TRUE
  /\ UNCHANGED <<fsm, handlerVars, connected, failures, missed, execVars,
                 brokerVars, envVars>>

\* The backend behaves the same from now on (the premise of liveness).
BackendSettles ==
  /\ backend = "flaky"
  /\ backend' \in {"up", "erring", "down"}
  /\ UNCHANGED <<fsm, handlerVars, linkVars, execVars, brokerVars, inSession>>

-----------------------------------------------------------------------------
Handler ==
  \/ ProbeBackend
  \/ SendHeartbeat \/ SessionCheck
  \/ RequestRejected \/ RequestApproved \/ CommandReceived
  \/ PositionClosed \/ ReadyForNextSession \/ NothingToScan
  \/ CheckOrphanPositions \/ ReportPosition
  \/ CommandFails \/ OpenPosition \/ ClosePosition \/ ReportResult
  \/ RecoverySucceeds \/ RecoveryFails

Environment ==
  BrokerCloses \/ SessionChanges \/ RetryElapses \/ BackendSettles

Next ==
  \/ StartUp \/ StartInert \/ Stop
  \/ TimerFires \/ OnTick
  \/ Handler
  \/ Environment

Spec == Init /\ [][Next]_vars

(***************************************************************************)
(* A started handler runs on, because every Post returns.  Timer and tick  *)
(* events queue behind a running handler and are served when it returns,   *)
(* hence strong fairness.  The clock reaches the next recovery attempt.    *)
(***************************************************************************)
Fairness ==
  /\ WF_vars(Handler)
  /\ SF_vars(TimerFires)
  /\ SF_vars(OnTick)
  /\ WF_vars(RetryElapses)

FairSpec == Spec /\ Fairness

-----------------------------------------------------------------------------
Running == pc \notin {"off", "inert"}

\* Every variable has its type, and no counter outlives its interval.
TypeOK ==
  /\ fsm \in EAState
  /\ snapshot \in EAState \cup {"none"}
  /\ pc \in {"off", "inert", "connect", "idle", "timer", "dispatch", "result",
             "closed", "recover"}
  /\ due \subseteq Tasks
  /\ count \in [Tasks -> Nat]
  /\ \A t \in Tasks : count[t] < Interval[t]
  /\ cmd \in Command
  /\ connected \in BOOLEAN /\ retryDue \in BOOLEAN /\ hasOpen \in BOOLEAN
  /\ inSession \in BOOLEAN
  /\ failures \in 0..Threshold /\ missed \in 0..Threshold
  /\ openTicket \in 0..MaxTickets /\ issued \in 0..MaxTickets
  /\ positions \subseteq 1..issued
  /\ backend \in {"flaky", "up", "erring", "down"}

\* The EA never has two positions open, across restarts, stale tracking and
\* positions that the broker closes behind its back.
AtMostOnePosition == \A t, u \in positions : t = u

\* A position that is open at the broker is the one the executor tracks, so
\* that a CLOSE for it is accepted and a second BUY or SELL is not.
PositionsAreTracked ==
  Running => positions \subseteq (IF hasOpen THEN {openTicket} ELSE {})

\* The EA declares itself disconnected only after Threshold heartbeats in a row
\* without an answer: no other failed Post, and no stale m_isConnected, counts.
DisconnectOnlyAfterSilence ==
  [][fsm # "DISCONNECTED" /\ fsm' = "DISCONNECTED" => missed' = Threshold]_vars

\* Every change of state by every handler is one the machine allows.
FSM == INSTANCE StateMachine WITH m_currentState <- fsm

ImplementsStateMachine == FSM!Spec

\* An order goes out only where a signal leads: never from a machine that its own
\* timer call has disconnected, or a tick has aborted, since the scan read the state
\* and asked, although the command of an approval is dispatched even if the
\* transition it approves was rejected.
NoOrderOutOfTurn ==
  [][issued' # issued => fsm \in {"AI_CONFIRMATION", "OPEN_POSITION"}]_vars

\* No reply to a scan request, and no failed one, ends DISCONNECTED although the
\* scan decides on a state read before the heartbeat of the same timer call.
ScanNeverEndsDisconnected ==
  [][fsm = "DISCONNECTED" /\ fsm' = "WAIT_SESSION" => pc \in {"recover", "closed"}]_vars

\* Once the backend stays up, the EA leaves DISCONNECTED and never returns.
RecoversForGood ==
  <>[](backend = "up") => <>[](fsm # "DISCONNECTED")

\* A backend that times out for good is noticed.
SilenceIsNoticed ==
  <>[](backend = "down" /\ Running) => []<>(fsm = "DISCONNECTED")

\* After the session ends for good the EA stops scanning for trades.
ScanningEndsWithSession ==
  <>[](~inSession) => <>[](fsm \notin Scanning)

-----------------------------------------------------------------------------
(***************************************************************************)
(* What comments say of the EA and the code does not do.                   *)
(***************************************************************************)
\* A position closed by SL or TP ends MANAGE_POSITION.
BrokerCloseIsNoticed ==
  fsm = "MANAGE_POSITION" /\ positions = {} ~> fsm # "MANAGE_POSITION"

\* A first connection that failed is tried again: the EA does not stay in CONNECT
\* beside a backend that answers every heartbeat.
ConnectIsRetried ==
  <>[](backend = "up" /\ Running) => []<>(fsm # "CONNECT")

\* The order is sent when the backend has confirmed the trade, which is the approval
\* of AI_CONFIRMATION -> OPEN_POSITION, and not before it.
OrderAwaitsConfirmation ==
  [][issued' # issued => fsm = "OPEN_POSITION"]_vars
=============================================================================
