------------------------------ MODULE Backend ------------------------------
(***************************************************************************)
(* The services of the backend on their Redis keys: StateManager (the      *)
(* transition and recovery routes), RiskEngine, TradeOrchestrator and      *)
(* PositionManager.  Every request runs as a coroutine of one event loop;  *)
(* between two awaits it is atomic, and each await is one Redis command.   *)
(* A coroutine is what is left of the sequence of awaits of its operation. *)
(***************************************************************************)
EXTENDS EAStates, Integers, Sequences, FiniteSets

CONSTANTS
  Calls,       \* operations that are called
  Slots,       \* coroutines that may run at the same time
  Apart,       \* sets {a, b} of operations that never run at the same time
  Failing,     \* whether a Redis command may raise and the process may die
  Equities,    \* account equities, in the unit of the profits
  Profits,     \* values of unrealized_pnl
  MaxLossPct,  \* max_daily_loss_pct
  MaxPnl,      \* bound: size of the daily profit or loss
  MaxFills     \* bound: fills reported and not yet followed by a management

ASSUME SlotsAssumption == Slots # {}
ASSUME EquityAssumption == Equities \subseteq Nat \ {0}
ASSUME ProfitAssumption == Profits \subseteq Int /\ 0 \in Profits
ASSUME LimitAssumption  == MaxLossPct \in Nat \ {0}
ASSUME BoundsAssumption == MaxPnl \in Nat /\ MaxFills \in Nat

VARIABLES
  eaState,         \* ea:state; "none" when expired
  success,         \* trade:result:success is "1"
  position,        \* position:open
  dailyPnl,        \* risk:daily_pnl
  lock,            \* risk:lock is "1"
  startingEquity,  \* risk:starting_equity; 0 when absent
  run,             \* the coroutines
  realized,        \* history: sum of the last reported profits of the
                   \*   positions closed since the day began
  credit           \* history: fills reported minus managements approved

riskVars == <<dailyPnl, lock, startingEquity>>
keyVars  == <<eaState, success, position, riskVars>>
history  == <<realized, credit>>
vars     == <<keyVars, run, history>>

NoPosition == [open |-> FALSE, profit |-> 0]
Position   == {NoPosition} \cup [open : {TRUE}, profit : Profits]

-----------------------------------------------------------------------------
(***************************************************************************)
(* The awaits of each operation, in the order of the code.  opened and     *)
(* failed are what receive_trade_result does with a result, reset and      *)
(* initialize are RiskEngine's operations at the start of a day and of the *)
(* service; no request of the EA gets that far in the code as it is.       *)
(***************************************************************************)
\* Mutant: the flag is not cleared.
ManageKeepingFlag == <<"get_success", "persist">>

\* OPEN_POSITION -> MANAGE_POSITION.
Manage == <<"get_success", "delete_success", "persist">>

\* record_trade_pnl.
RecordPnl == <<"get_pnl", "set_pnl", "get_equity", "set_lock">>

\* Mutant: the position is removed first.
CloseBeforeRecord == <<"get_position", "delete_position">> \o RecordPnl \o <<"persist">>

\* Mutant: the position is not removed.
CloseKeepingPosition == <<"get_position">> \o RecordPnl \o <<"persist">>

\* MANAGE_POSITION -> POSITION_CLOSED.
Close == <<"get_position">> \o RecordPnl \o <<"delete_position", "persist">>

Script ==
  [approve    |-> <<"persist">>,
   check_risk |-> <<"get_lock", "persist">>,
   scan       |-> <<"lrange", "get_tick", "has_position", "persist">>,
   manage     |-> Manage,
   close      |-> Close,
   status     |-> <<"set_position">>,
   opened     |-> <<"set_success", "delete_pending", "record_position">>,
   failed     |-> <<"delete_success", "delete_pending">>,
   reset      |-> <<"delete_lock", "zero_pnl", "set_equity">>,
   initialize |-> <<"get_existing", "set_equity", "zero_pnl">>]

Op == DOMAIN Script

ASSUME CallsAssumption == Calls \subseteq Op
ASSUME ApartAssumption == Apart \subseteq SUBSET Op

\* The pairs that the properties below need apart: those that write what a close
\* reads and books, of these the ones of RiskEngine, two managements, and a start
\* beside another one or beside a new day.
ClosesApart ==
  {{"close", op} : op \in {"close", "status", "opened", "reset", "initialize"}}
RiskOps      == {"close", "reset", "initialize"}
RiskApart    == {{"close", op} : op \in RiskOps}
ManagesApart == {{"manage"}}
StartsApart  == {{"initialize"}, {"initialize", "reset"}}

\* The state that an approved transition persists.  approve stands for the
\* transitions without a condition of their own and for /state/recovery.
Target ==
  [check_risk |-> {"SCAN_SIGNAL"}, scan |-> {"AI_CONFIRMATION"},
   manage |-> {"MANAGE_POSITION"}, close |-> {"POSITION_CLOSED"},
   approve |-> EAState]

\* A coroutine: its operation, the awaits that are left, the argument of the
\* call and the local value computed from what was read.
Idle == [op |-> "none", rest |-> <<>>, arg |-> 0, val |-> 0]

-----------------------------------------------------------------------------
Init ==
  /\ eaState = "none"
  /\ success = FALSE
  /\ position = NoPosition
  /\ dailyPnl = 0 /\ lock = FALSE /\ startingEquity = 0
  /\ run = [s \in Slots |-> Idle]
  /\ realized = 0 /\ credit = 0

\* The next await of s is w.
At(s, w) == run[s].rest # <<>> /\ Head(run[s].rest) = w

\* s is done with its await and goes on with the local value val.
Continue(s, val) ==
  run' = [run EXCEPT ![s] =
            IF Len(@.rest) = 1 THEN Idle
            ELSE [op |-> @.op, rest |-> Tail(@.rest), arg |-> @.arg, val |-> val]]

GoesOn(s) == Continue(s, run[s].val)

\* Mutant: a finished coroutine is not forgotten.
LeaveOpen(s) == run' = [run EXCEPT ![s].rest = <<>>]

\* s answers before the end of its sequence, or raises.
Ends(s) == run' = [run EXCEPT ![s] = Idle]

\* s leaves out the await after this one.
SkipsOne(s) == run' = [run EXCEPT ![s].rest = Tail(Tail(@))]

Arguments(op) ==
  CASE op \in {"reset", "initialize"} -> Equities
    [] op = "status" -> Profits
    [] OTHER -> {0}

\* A request comes in.  A transition that is refused before its first await (not
\* in the table, out of session) changes nothing and is left out.  Beside whom it
\* comes in is up to the clients.
Begin(s) ==
  /\ run[s].op = "none"
  /\ \E op \in Calls :
       /\ \A t \in Slots : {op, run[t].op} \notin Apart
       /\ op = "close" => \A p \in Profits : dailyPnl + p \in -MaxPnl..MaxPnl
       /\ op = "opened" => credit < MaxFills
       /\ \E arg \in Arguments(op) :
            run' = [run EXCEPT ![s] = [op |-> op, rest |-> Script[op], arg |-> arg, val |-> 0]]
  /\ UNCHANGED <<keyVars, history>>

-----------------------------------------------------------------------------
(***************************************************************************)
(* StateManager.                                                           *)
(***************************************************************************)
\* get_status for CHECK_RISK -> SCAN_SIGNAL.
GetLock(s) ==
  /\ At(s, "get_lock")
  /\ IF lock THEN Ends(s) ELSE GoesOn(s)
  /\ UNCHANGED <<keyVars, history>>

\* Candles and tick are read for the signal engine.
ReadMarket(s) ==
  /\ At(s, "lrange") \/ At(s, "get_tick")
  /\ GoesOn(s)
  /\ UNCHANGED <<keyVars, history>>

\* check_signal gives no signal while a position is open; without one it may.
HasPosition(s) ==
  /\ At(s, "has_position")
  /\ Ends(s) \/ (~position.open /\ GoesOn(s))
  /\ UNCHANGED <<keyVars, history>>

GetSuccess(s) ==
  /\ At(s, "get_success")
  /\ IF success THEN GoesOn(s) ELSE Ends(s)
  /\ UNCHANGED <<keyVars, history>>

\* In the result of a failed trade and in the management of an open one.
DeleteSuccess(s) ==
  /\ At(s, "delete_success")
  /\ success' = FALSE
  /\ GoesOn(s)
  /\ UNCHANGED <<eaState, position, riskVars, history>>

\* _persist_state, then the answer.
Persist(s) ==
  /\ At(s, "persist")
  /\ eaState' \in Target[run[s].op]
  /\ credit' = IF run[s].op = "manage" THEN credit - 1 ELSE credit
  /\ Ends(s)
  /\ UNCHANGED <<success, position, riskVars, realized>>

\* The time to live of ea:state is over.
StateExpires ==
  /\ eaState # "none"
  /\ eaState' = "none"
  /\ UNCHANGED <<success, position, riskVars, run, history>>

-----------------------------------------------------------------------------
(***************************************************************************)
(* PositionManager and TradeOrchestrator.                                  *)
(***************************************************************************)
\* update_position_status.
SetPosition(s) ==
  /\ At(s, "set_position")
  /\ position' = [open |-> TRUE, profit |-> run[s].arg]
  /\ GoesOn(s)
  /\ UNCHANGED <<eaState, success, riskVars, history>>

\* record_open_position stores no unrealized_pnl.
RecordPosition(s) ==
  /\ At(s, "record_position")
  /\ position' = [open |-> TRUE, profit |-> 0]
  /\ GoesOn(s)
  /\ UNCHANGED <<eaState, success, riskVars, history>>

SetSuccess(s) ==
  /\ At(s, "set_success")
  /\ success' = TRUE
  /\ credit' = credit + 1
  /\ GoesOn(s)
  /\ UNCHANGED <<eaState, position, riskVars, realized>>

\* The key trade:pending, which no request writes or reads.
DeletePending(s) ==
  /\ At(s, "delete_pending")
  /\ GoesOn(s)
  /\ UNCHANGED <<keyVars, history>>

\* mark_position_closed.
DeletePosition(s) ==
  /\ At(s, "delete_position")
  /\ position' = NoPosition
  /\ realized' = realized + position.profit
  /\ GoesOn(s)
  /\ UNCHANGED <<eaState, success, riskVars, credit>>

-----------------------------------------------------------------------------
(***************************************************************************)
(* RiskEngine.                                                             *)
(***************************************************************************)
\* The profit to record: 0 if there is no position.
GetPosition(s) ==
  /\ At(s, "get_position")
  /\ Continue(s, position.profit)
  /\ UNCHANGED <<keyVars, history>>

\* get_daily_pnl; the sum is kept in a local variable.
GetPnl(s) ==
  /\ At(s, "get_pnl")
  /\ Continue(s, dailyPnl + run[s].val)
  /\ UNCHANGED <<keyVars, history>>

SetPnl(s) ==
  /\ At(s, "set_pnl")
  /\ dailyPnl' = run[s].val
  /\ GoesOn(s)
  /\ UNCHANGED <<eaState, success, position, lock, startingEquity, history>>

\* Mutant: > instead of >=.
ExceedsLimit(p, e) == e > 0 /\ p < 0 /\ -p * 100 > MaxLossPct * e

\* calculate_loss_pct against max_daily_loss_pct.
LimitReached(p, e) == e > 0 /\ p < 0 /\ -p * 100 >= MaxLossPct * e

GetEquity(s) ==
  /\ At(s, "get_equity")
  /\ IF LimitReached(run[s].val, startingEquity) THEN GoesOn(s) ELSE SkipsOne(s)
  /\ UNCHANGED <<keyVars, history>>

SetLock(s) ==
  /\ At(s, "set_lock")
  /\ lock' = TRUE
  /\ GoesOn(s)
  /\ UNCHANGED <<eaState, success, position, dailyPnl, startingEquity, history>>

\* reset_daily, first await.
DeleteLock(s) ==
  /\ At(s, "delete_lock")
  /\ lock' = FALSE
  /\ GoesOn(s)
  /\ UNCHANGED <<eaState, success, position, dailyPnl, startingEquity, history>>

ZeroPnl(s) ==
  /\ At(s, "zero_pnl")
  /\ dailyPnl' = 0
  /\ realized' = 0
  /\ GoesOn(s)
  /\ UNCHANGED <<eaState, success, position, lock, startingEquity, credit>>

SetEquity(s) ==
  /\ At(s, "set_equity")
  /\ startingEquity' = run[s].arg
  /\ GoesOn(s)
  /\ UNCHANGED <<eaState, success, position, dailyPnl, lock, history>>

\* Mutant: the equity of a day that has begun is overwritten.
AlwaysMissing(e) == TRUE

\* initialize sets the equity only if no value exists.
IsMissing(e) == e = 0

GetExisting(s) ==
  /\ At(s, "get_existing")
  /\ IF IsMissing(startingEquity) THEN GoesOn(s) ELSE Ends(s)
  /\ UNCHANGED <<keyVars, history>>

-----------------------------------------------------------------------------
\* A Redis command raises: the request is answered with 500.
Raises(s) ==
  /\ Failing
  /\ run[s].op # "none"
  /\ Ends(s)
  /\ UNCHANGED <<keyVars, history>>

\* The process dies; what is in Redis survives.
Dies ==
  /\ Failing
  /\ run' = [s \in Slots |-> Idle]
  /\ UNCHANGED <<keyVars, history>>

Step(s) ==
  \/ Begin(s)
  \/ GetLock(s) \/ ReadMarket(s) \/ HasPosition(s)
  \/ GetSuccess(s) \/ DeleteSuccess(s) \/ Persist(s)
  \/ SetPosition(s) \/ RecordPosition(s) \/ SetSuccess(s) \/ DeletePending(s)
  \/ DeletePosition(s)
  \/ GetPosition(s) \/ GetPnl(s) \/ SetPnl(s) \/ GetEquity(s) \/ SetLock(s)
  \/ DeleteLock(s) \/ ZeroPnl(s) \/ SetEquity(s) \/ GetExisting(s)
  \/ Raises(s)

Next == (\E s \in Slots : Step(s)) \/ StateExpires \/ Dies

Spec == Init /\ [][Next]_vars

-----------------------------------------------------------------------------
Suffix(w) == {SubSeq(w, i, Len(w)) : i \in 1..Len(w)}

\* The coroutines of op, each with an await to come.
Coroutine(op) ==
  [op : {op}, rest : Suffix(Script[op]), arg : Arguments(op), val : Int]

\* Every variable has its type; a coroutine is in the middle of its operation.
TypeOK ==
  /\ eaState \in EAState \cup {"none"}
  /\ success \in BOOLEAN /\ lock \in BOOLEAN
  /\ position \in Position
  /\ dailyPnl \in Int /\ realized \in Int /\ credit \in Int
  /\ startingEquity \in Equities \cup {0}
  /\ DOMAIN run = Slots
  /\ \A s \in Slots : run[s] = Idle \/ \E op \in Calls : run[s] \in Coroutine(op)

AtRest == \A s \in Slots : run[s].op = "none"

\* At rest the daily profit or loss in Redis is the sum of the last reported
\* profits of the positions that were closed, each counted once.
EachCloseBookedOnce == AtRest => dailyPnl = realized

\* At rest a loss at the limit has set the lock.
LossLocks ==
  AtRest /\ startingEquity > 0 /\ -dailyPnl * 100 >= MaxLossPct * startingEquity
    => lock

\* RiskEngine behaves as if each of its operations were one step: a record is
\* done with its SET of the sum, a new day with the removal of the lock, the
\* first start with the equity.
Reached(op, w) == \E s \in Slots : run[s].op = op /\ At(s, w)

Resetting == Reached("reset", "zero_pnl") \/ Reached("reset", "set_equity")

Locking ==
  \E s \in Slots :
    \/ At(s, "get_equity") /\ LimitReached(run[s].val, startingEquity)
    \/ At(s, "set_lock")

Abstract == INSTANCE DailyRisk WITH
  pnl    <- IF Resetting \/ Reached("initialize", "zero_pnl") THEN 0 ELSE dailyPnl,
  lock   <- lock \/ Locking,
  equity <- IF Resetting THEN (CHOOSE e \in Equities :
                                  \E s \in Slots : run[s].op = "reset" /\ run[s].arg = e)
            ELSE startingEquity

ImplementsDailyRisk == Abstract!Spec

\* No loss is forgotten: when Redis fails or the process dies a position may be
\* booked again, but none is removed before it has been booked.
NoLossForgotten == AtRest => dailyPnl <= realized

\* A restart in the middle of a day keeps the day's starting equity, also after a
\* start that died half-way: initialize is about to write one only where there is none.
RestartKeepsDay ==
  \A s \in Slots : run[s].op = "initialize" /\ At(s, "set_equity") => startingEquity = 0

\* Every approval of MANAGE_POSITION has a fill of its own.
EachFillManagesOnce == credit >= 0
=============================================================================
