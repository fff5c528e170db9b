------------------------------- MODULE Health -------------------------------
(***************************************************************************)
(* What the backend knows of the EA and of its link to the trade server:   *)
(* the heartbeats and the MT5 reports of CHealthMonitor, the hash          *)
(* ea:health and the flag signals:paused that the health router keeps in   *)
(* Redis, and GET /health.                                                 *)
(*                                                                         *)
(* The clock moves in steps of one heartbeat interval (30 s).  A request   *)
(* that the EA has given up may still run in the backend.                  *)
(***************************************************************************)
EXTENDS Integers

CONSTANTS
  Slots,       \* requests that may run at the same time
  MaxRetries,  \* m_maxRetries of the HTTP client
  Lifetime,    \* time to live of ea:health (120 s)
  Recent       \* age at which the EA counts as disconnected (90 s)

ASSUME RetriesAssumption == MaxRetries \in Nat
ASSUME ClockAssumption   == Lifetime \in Nat /\ Lifetime >= 3 /\ Recent \in Nat /\ Recent >= 3

VARIABLES
  running,  \* the EA is running
  mt5,      \* TERMINAL_CONNECTED
  prev,     \* m_previousMT5Status
  due,      \* the heartbeat of this interval has not been sent
  run,      \* the requests in the backend
  record,   \* the hash ea:health
  ttl,      \* intervals until it expires
  paused,   \* signals:paused
  backend,  \* "flaky", or "up" for good
  missed,   \* history: heartbeats in a row that were not handled in time, up to 2
  untold    \* history: the last change of the link was not reported in time

eaVars    == <<running, mt5, prev, due>>
storeVars == <<record, ttl, paused>>
vars == <<eaVars, run, storeVars, backend, missed, untold>>

Forever == Lifetime + 1
Never   == Recent + 1

\* last_seen is kept as the time since then, up to Recent; Never if the hash has
\* no such field.
NoRecord == [link |-> FALSE, seen |-> Never, exists |-> FALSE]

\* Each handler writes the hash and has one more await after that.
AfterHSet(kind) ==
  CASE kind = "heartbeat" -> "expire"
    [] kind = "mt5disconnect" -> "set flag"
    [] kind = "mt5reconnect" -> "delete flag"

Reports == {"mt5disconnect", "mt5reconnect"}

\* A request: its kind, the status of the link in it, the await it has reached,
\* the attempt, and whether the EA is still waiting for the answer.
Idle == [kind |-> "none", link |-> FALSE, at |-> "none", attempt |-> 0, awaited |-> FALSE]

-----------------------------------------------------------------------------
Init ==
  /\ running = FALSE
  /\ mt5 \in BOOLEAN
  /\ prev = TRUE
  /\ due = FALSE
  /\ run = [s \in Slots |-> Idle]
  /\ record = NoRecord
  /\ ttl = Forever
  /\ paused = FALSE
  /\ backend = "flaky"
  /\ missed = 2
  /\ untold = TRUE

(***************************************************************************)
(* CHealthMonitor.  The EA waits for one request at a time.                *)
(***************************************************************************)
Waiting == \E s \in Slots : run[s].awaited

Request(kind, link, attempt) ==
  [kind |-> kind, link |-> link, at |-> "hset", attempt |-> attempt, awaited |-> TRUE]

\* The request r once the EA no longer waits for it: its attempt says nothing more.
Unawaited(r) == [kind |-> r.kind, link |-> r.link, at |-> r.at, attempt |-> 0, awaited |-> FALSE]

\* Post: the first attempt.
Post(kind, link) ==
  /\ ~Waiting
  /\ \E s \in Slots : run[s] = Idle /\ run' = [run EXCEPT ![s] = Request(kind, link, 0)]

\* OnInit.  Init of the monitor reads the status without reporting it.
Start ==
  /\ ~running
  /\ running' = TRUE
  /\ prev' = mt5
  /\ due' = TRUE
  /\ missed' = 2
  /\ untold' = TRUE
  /\ UNCHANGED <<mt5, run, storeVars, backend>>

\* OnDeinit, or the terminal dies in the middle of a Post.
Stop ==
  /\ running
  /\ running' = FALSE
  /\ due' = FALSE
  /\ run' = [s \in Slots |-> Unawaited(run[s])]
  /\ untold' = TRUE
  /\ UNCHANGED <<mt5, prev, storeVars, backend, missed>>

\* SendHeartbeat, every 30 seconds.
SendHeartbeat ==
  /\ running /\ due
  /\ Post("heartbeat", mt5)
  /\ due' = FALSE
  /\ missed' = IF missed < 2 THEN missed + 1 ELSE 2
  /\ UNCHANGED <<running, mt5, prev, storeVars, backend, untold>>

\* MonitorMT5Connectivity, with every tick: a change is reported once.  The new
\* status is stored when Post has returned, and nothing reads it before.
MonitorMT5Connectivity ==
  /\ running
  /\ prev # mt5
  /\ Post(IF mt5 THEN "mt5reconnect" ELSE "mt5disconnect", mt5)
  /\ prev' = mt5
  /\ untold' = TRUE
  /\ UNCHANGED <<running, mt5, due, storeVars, backend, missed>>

\* WebRequest gives up s, which may go on in the backend.  Only a 5xx is repeated.
TimesOut(s) ==
  /\ backend = "flaky"
  /\ run[s].awaited
  /\ run' = [run EXCEPT ![s] = Unawaited(@)]
  /\ UNCHANGED <<eaVars, storeVars, backend, missed, untold>>

-----------------------------------------------------------------------------
(***************************************************************************)
(* The health router.                                                      *)
(***************************************************************************)
\* Another report than that of s is still under way.
OtherReport(s) == \E r \in Slots \ {s} : run[r].kind \in Reports

\* The handler returns.
Ends(s) ==
  /\ run' = [run EXCEPT ![s] = Idle]
  /\ missed' = IF run[s].awaited /\ run[s].kind = "heartbeat" THEN 0 ELSE missed
  /\ untold' = IF run[s].awaited /\ run[s].kind \in Reports THEN OtherReport(s) ELSE untold

\* Mutant: the heartbeat keeps the link of an older request.
LinkIfReported(s) == IF run[s].kind \in Reports \/ ~record.exists THEN run[s].link ELSE record.link

\* Every handler writes mt5_connected.
LinkWritten(s) == run[s].link

\* HSET keeps the time to live of a hash and creates one that lives for ever.
HSet(s) ==
  /\ run[s].at = "hset"
  /\ record' = [exists |-> TRUE, link |-> LinkWritten(s),
                seen |-> IF run[s].kind = "mt5disconnect" THEN record.seen ELSE 0]
  /\ run' = [run EXCEPT ![s].at = AfterHSet(run[s].kind)]
  /\ UNCHANGED <<eaVars, ttl, paused, backend, missed, untold>>

\* Mutant: the time to live is that of one interval.
ShortLifetime(r) == IF r.exists THEN 1 ELSE Forever

\* Mutant: EXPIRE of an absent key.
LifetimeOfAny(r) == Lifetime

LifetimeAfter(r) == IF r.exists THEN Lifetime ELSE Forever

Expire(s) ==
  /\ run[s].at = "expire"
  /\ ttl' = LifetimeAfter(record)
  /\ Ends(s)
  /\ UNCHANGED <<eaVars, record, paused, backend>>

\* Mutant: the reconnection does not resume anything.
PausedForGood(s) == TRUE

PausedAfter(s) == run[s].at = "set flag"

SetOrDeleteFlag(s) ==
  /\ run[s].at \in {"set flag", "delete flag"}
  /\ paused' = PausedAfter(s)
  /\ Ends(s)
  /\ UNCHANGED <<eaVars, record, ttl, backend>>

\* An await raises: what was written stays, and the EA repeats its request.
Raises(s) ==
  /\ backend = "flaky"
  /\ run[s] # Idle
  /\ run' = [run EXCEPT ![s] =
               IF run[s].awaited /\ run[s].attempt < MaxRetries
                 THEN Request(run[s].kind, run[s].link, run[s].attempt + 1)
                 ELSE Idle]
  /\ UNCHANGED <<eaVars, storeVars, backend, missed, untold>>

Serve(s) == HSet(s) \/ Expire(s) \/ SetOrDeleteFlag(s)

-----------------------------------------------------------------------------
(***************************************************************************)
(* The environment.                                                        *)
(***************************************************************************)
Mt5Changes ==
  /\ mt5' = ~mt5
  /\ UNCHANGED <<running, prev, due, run, storeVars, backend, missed, untold>>

\* 30 seconds pass.  Every Post of the EA is assumed to return within them.
IntervalPasses ==
  /\ ~due /\ ~Waiting
  /\ due' = running
  /\ ttl' = IF ttl \in {1, Forever} THEN Forever ELSE ttl - 1
  /\ record' =
       IF ttl = 1 THEN NoRecord
       ELSE [record EXCEPT !.seen = IF @ < Recent THEN @ + 1 ELSE @]
  /\ UNCHANGED <<running, mt5, prev, run, paused, backend, missed, untold>>

BackendSettles ==
  /\ backend = "flaky"
  /\ backend' = "up"
  /\ UNCHANGED <<eaVars, run, storeVars, missed, untold>>

Next ==
  \/ Start \/ Stop \/ SendHeartbeat \/ MonitorMT5Connectivity
  \/ \E s \in Slots : Serve(s) \/ TimesOut(s) \/ Raises(s)
  \/ Mt5Changes \/ IntervalPasses \/ BackendSettles

Spec == Init /\ [][Next]_vars

(***************************************************************************)
(* Requests end, the clock goes on, and the EA sends what is due.  Ticks   *)
(* come from the trade server: while the link is down none need come, and  *)
(* the monitor, which only OnTick calls, need not look.                    *)
(***************************************************************************)
Fairness ==
  /\ \A s \in Slots : WF_vars(Serve(s))
  /\ WF_vars(SendHeartbeat)
  /\ WF_vars(mt5 /\ MonitorMT5Connectivity)
  /\ WF_vars(IntervalPasses)

FairSpec == Spec /\ Fairness

-----------------------------------------------------------------------------
(***************************************************************************)
(* GET /health.                                                            *)
(***************************************************************************)
\* Mutant: the age is not looked at.
EverSeen(r) == r.seen # Never

\* last_heartbeat_age < 90.
ea_connected(r) == r.seen < Recent

system_health(redis_connected) ==
  CASE ~redis_connected -> "unhealthy"
    [] redis_connected /\ ~ea_connected(record) -> "degraded"
    [] OTHER -> "healthy"

\* Every variable has its type; an absent hash has no time to live.
TypeOK ==
  /\ {running, mt5, prev, due, paused, untold} \subseteq BOOLEAN
  /\ record \in [link : BOOLEAN, seen : 0..Never, exists : BOOLEAN]
  /\ ttl \in 1..Forever
  /\ ~record.exists => record = NoRecord /\ ttl = Forever
  /\ backend \in {"flaky", "up"} /\ missed \in 0..2
  /\ \A s \in Slots : run[s].attempt \in 0..MaxRetries

\* GET /health says healthy as long as no two heartbeats in a row are missed,
\* whatever late requests, partial failures and reports of the link do.
OneMissIsTolerated == running /\ missed < 2 => system_health(TRUE) = "healthy"

\* signals:paused says the opposite of the link that the EA saw last, unless the
\* report of its last change failed or came late, or the EA has been restarted.
PauseFollowsLink == ~untold => paused = ~prev

\* An EA that has gone for good is noticed for good, even if its record stays.
SilenceIsNoticed == <>[]~running => <>[](system_health(TRUE) = "degraded")

\* A late or lost report does not matter for mt5_connected in the end: once the
\* EA, its link and the backend are up for good, the record says so for good.
LinkHeals ==
  <>[](running /\ mt5 /\ backend = "up") => <>[](record.exists /\ record.link)
=============================================================================
