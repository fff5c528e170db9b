--------------------------- MODULE Health_proofs ---------------------------
(***************************************************************************)
(* Theorems about Health, for any number of requests and retries: every    *)
(* variable keeps its type, GET /health tolerates one missed heartbeat,    *)
(* and signals:paused follows the link.                                    *)
(***************************************************************************)
EXTENDS Health, TLAPS

Kinds == {"none", "heartbeat", "mt5disconnect", "mt5reconnect"}

Requests == [kind : Kinds, link : BOOLEAN,
             at : {"none", "hset", "expire", "set flag", "delete flag"},
             attempt : 0..MaxRetries, awaited : BOOLEAN]

\* The await a request has reached is one of its handler.
StepFits(r) ==
  \/ r.kind = "none" /\ r.at = "none" /\ ~r.awaited
  \/ r.kind = "heartbeat" /\ r.at \in {"hset", "expire"}
  \/ r.kind = "mt5disconnect" /\ r.at \in {"hset", "set flag"}
  \/ r.kind = "mt5reconnect" /\ r.at \in {"hset", "delete flag"}

\* The EA waits for one request at a time, and only while it runs.
OneAwaited ==
  /\ \A r, s \in Slots : run[r].awaited /\ run[s].awaited => r = s
  /\ \A s \in Slots : run[s].awaited => running

\* Heartbeats that have passed or are due since the last one that was handled.
Late == missed + (IF due THEN 1 ELSE 0)

\* The record is no older than the heartbeats that are late, and it lives on.
Fresh == running /\ missed < 2 => record.seen <= Late /\ ttl >= Lifetime - Late

\* A heartbeat the EA waits for has been written in this interval.
HalfHandled ==
  \A s \in Slots : run[s].awaited /\ run[s].at = "expire" => record.exists /\ record.seen = 0

\* A report the EA waits for is that of the last change, and while no report is
\* under way the flag is right.
ReportFits ==
  /\ \A s \in Slots : run[s].awaited =>
       /\ run[s].kind = "mt5reconnect" => prev
       /\ run[s].kind = "mt5disconnect" => ~prev
  /\ ~untold => \A s \in Slots : run[s].kind \notin Reports
  /\ PauseFollowsLink

Requested ==
  /\ run \in [Slots -> Requests]
  /\ \A s \in Slots : StepFits(run[s])
  /\ OneAwaited

Typed ==
  /\ {running, mt5, prev, due, paused, untold} \subseteq BOOLEAN
  /\ record \in [link : BOOLEAN, seen : 0..Never, exists : BOOLEAN]
  /\ ttl \in 1..Forever
  /\ ~record.exists => record = NoRecord /\ ttl = Forever
  /\ backend \in {"flaky", "up"} /\ missed \in 0..2

IInv == Typed /\ Requested /\ Fresh /\ HalfHandled /\ ReportFits

\* The bounds are used as numbers.
LEMMA Numbers ==
  /\ MaxRetries \in Nat /\ Lifetime \in Nat /\ Recent \in Nat
  /\ Lifetime >= 3 /\ Recent >= 3
  /\ Forever = Lifetime + 1 /\ Never = Recent + 1
BY RetriesAssumption, ClockAssumption DEF Forever, Never

\* The await at which a request is says what its kind may be.
LEMMA AtStep ==
  ASSUME Requested, NEW s \in Slots
  PROVE  /\ run[s] \in Requests
         /\ run[s].at = "hset" => run[s].kind \in Kinds \ {"none"}
         /\ run[s].at = "expire" => run[s].kind = "heartbeat"
         /\ run[s].at = "set flag" => run[s].kind = "mt5disconnect"
         /\ run[s].at = "delete flag" => run[s].kind = "mt5reconnect"
<1>1. run[s] \in Requests /\ StepFits(run[s])
  BY DEF Requested
<1> QED
  BY <1>1 DEF StepFits, Kinds

\* No request is under way at first.
LEMMA InitIInv == Init => IInv
<1> SUFFICES ASSUME Init PROVE IInv
  OBVIOUS
<1> USE Numbers DEF Init
<1>1. Typed
  <2>1. {running, mt5, prev, due, paused, untold} \subseteq BOOLEAN
    OBVIOUS
  <2>2. record \in [link : BOOLEAN, seen : 0..Never, exists : BOOLEAN]
    BY DEF NoRecord
  <2>3. ttl \in 1..Forever /\ missed \in 0..2 /\ backend \in {"flaky", "up"}
    OBVIOUS
  <2> QED
    BY <2>1, <2>2, <2>3 DEF Typed
<1>2. Requested
  <2>1. Idle \in Requests /\ StepFits(Idle) /\ ~Idle.awaited
    BY DEF Idle, Requests, Kinds, StepFits
  <2>2. \A s \in Slots : run[s] = Idle
    OBVIOUS
  <2>3. run \in [Slots -> Requests]
    BY <2>1
  <2> QED
    BY <2>1, <2>2, <2>3 DEF Requested, OneAwaited
<1>3. Fresh /\ HalfHandled /\ ReportFits
  BY DEF Fresh, HalfHandled, ReportFits, PauseFollowsLink, Idle, Reports
<1> QED
  BY <1>1, <1>2, <1>3 DEF IInv

\* A request that is sent is awaited, and the only one that is.
LEMMA PostRequests ==
  ASSUME Requested, running' = running, running, 
         NEW kind \in Kinds \ {"none"}, NEW link \in BOOLEAN, Post(kind, link)
  PROVE  /\ Requested'
         /\ \A s \in Slots : run'[s].awaited => run'[s].kind = kind /\ run'[s].at = "hset"
         /\ \A s \in Slots : run'[s].kind = run[s].kind \/ run'[s].kind = kind
<1>1. PICK r \in Slots : run[r] = Idle /\ run' = [run EXCEPT ![r] = Request(kind, link, 0)]
  BY DEF Post
<1>2. Request(kind, link, 0) \in Requests /\ StepFits(Request(kind, link, 0))
  BY Numbers DEF Request, Requests, Kinds, StepFits
<1>3. \A s \in Slots : ~run[s].awaited
  BY DEF Post, Waiting
<1>4. \A s \in Slots : run'[s] = IF s = r THEN Request(kind, link, 0) ELSE run[s]
  BY <1>1 DEF Requested
<1>5. run' \in [Slots -> Requests]
  BY <1>1, <1>2 DEF Requested
<1>6. /\ Request(kind, link, 0).awaited
      /\ Request(kind, link, 0).kind = kind /\ Request(kind, link, 0).at = "hset"
  BY DEF Request
<1>7. \A s \in Slots : run'[s].awaited => s = r
  BY <1>3, <1>4
<1>8. OneAwaited'
  BY <1>7 DEF OneAwaited
<1>9. \A s \in Slots : StepFits(run'[s])
  BY <1>2, <1>4 DEF Requested
<1> QED
  BY <1>4, <1>5, <1>6, <1>7, <1>8, <1>9 DEF Requested

\* A request that ends leaves an idle slot.
LEMMA EndRequests ==
  ASSUME Requested, running' = running, NEW s \in Slots, run' = [run EXCEPT ![s] = Idle]
  PROVE  /\ Requested'
         /\ \A r \in Slots : run'[r] = IF r = s THEN Idle ELSE run[r]
<1>1. Idle \in Requests /\ StepFits(Idle) /\ ~Idle.awaited
  BY Numbers DEF Idle, Requests, Kinds, StepFits
<1>2. \A r \in Slots : run'[r] = IF r = s THEN Idle ELSE run[r]
  BY DEF Requested
<1>3. run' \in [Slots -> Requests]
  BY <1>1 DEF Requested
<1> QED
  BY <1>1, <1>2, <1>3 DEF Requested, OneAwaited

\* The fields of a request, and a request from its fields.
LEMMA RequestFields ==
  /\ \A r \in Requests :
       /\ r.kind \in Kinds /\ r.link \in BOOLEAN /\ r.awaited \in BOOLEAN
       /\ r.at \in {"none", "hset", "expire", "set flag", "delete flag"}
       /\ r.attempt \in 0..MaxRetries
  /\ \A k \in Kinds, l, w \in BOOLEAN, n \in 0..MaxRetries,
       a \in {"none", "hset", "expire", "set flag", "delete flag"} :
       [kind |-> k, link |-> l, at |-> a, attempt |-> n, awaited |-> w] \in Requests
BY DEF Requests

\* A request that goes on to the await a.
LEMMA AdvancedRequest ==
  ASSUME NEW r \in Requests,
         NEW a \in {"none", "hset", "expire", "set flag", "delete flag"}
  PROVE  /\ [r EXCEPT !.at = a] \in Requests
         /\ [r EXCEPT !.at = a].kind = r.kind
         /\ [r EXCEPT !.at = a].awaited <=> r.awaited
         /\ [r EXCEPT !.at = a].at = a
BY DEF Requests

\* A request the EA has given up goes on as it is.
LEMMA UnawaitedRequest ==
  ASSUME NEW r \in Requests, StepFits(r)
  PROVE  /\ Unawaited(r) \in Requests /\ StepFits(Unawaited(r))
         /\ ~Unawaited(r).awaited /\ Unawaited(r).kind = r.kind
<1>1. /\ r.kind \in Kinds /\ r.link \in BOOLEAN
      /\ r.at \in {"none", "hset", "expire", "set flag", "delete flag"}
  BY DEF Requests
<1>2. Unawaited(r) \in Requests
  <2>1. 0 \in 0..MaxRetries
    BY Numbers
  <2> QED
    BY <1>1, <2>1, RequestFields DEF Unawaited
<1>3. /\ Unawaited(r).kind = r.kind /\ Unawaited(r).at = r.at
      /\ ~Unawaited(r).awaited
  BY DEF Unawaited
<1> QED
  BY <1>2, <1>3 DEF StepFits

-----------------------------------------------------------------------------
\* A start begins with no heartbeat handled and no report told.
LEMMA StartStep == IInv /\ Start => IInv'
<1> SUFFICES ASSUME IInv, Start PROVE IInv'
  OBVIOUS
<1> USE Numbers DEF IInv, Start, storeVars
<1>1. Typed'
  BY DEF Typed
<1>2. Requested'
  BY DEF Requested, OneAwaited
<1>3. Fresh' /\ HalfHandled' /\ ReportFits'
  BY DEF Fresh, HalfHandled, ReportFits, PauseFollowsLink, Requested, OneAwaited
<1> QED
  BY <1>1, <1>2, <1>3

\* A stop leaves its request to go on by itself.
LEMMA StopStep == IInv /\ Stop => IInv'
<1> SUFFICES ASSUME IInv, Stop PROVE IInv'
  OBVIOUS
<1> USE Numbers DEF IInv, Stop, storeVars
<1>1. Typed'
  BY DEF Typed
<1>2. \A s \in Slots : 
        /\ run'[s] \in Requests /\ StepFits(run'[s])
        /\ ~run'[s].awaited /\ run'[s].kind = run[s].kind
  BY UnawaitedRequest DEF Requested
<1>3. Requested'
  BY <1>2 DEF Requested, OneAwaited
<1>4. Fresh' /\ HalfHandled' /\ ReportFits'
  BY <1>2 DEF Fresh, HalfHandled, ReportFits, PauseFollowsLink
<1> QED
  BY <1>1, <1>3, <1>4

\* A heartbeat that is sent counts as missed until it is handled.
LEMMA SendHeartbeatStep == IInv /\ SendHeartbeat => IInv'
<1> SUFFICES ASSUME IInv, SendHeartbeat PROVE IInv'
  OBVIOUS
<1> USE Numbers DEF IInv, SendHeartbeat, storeVars
<1>1. Typed'
  <2>1. {running', mt5', prev', due', paused', untold'} \subseteq BOOLEAN
    BY DEF Typed
  <2>2. missed' \in 0..2
    BY DEF Typed
  <2> QED
    BY <2>1, <2>2 DEF Typed
<1>2. /\ Requested'
      /\ \A s \in Slots : run'[s].awaited => run'[s].kind = "heartbeat" /\ run'[s].at = "hset"
      /\ \A s \in Slots : run'[s].kind = run[s].kind \/ run'[s].kind = "heartbeat"
  BY PostRequests DEF Kinds, Typed
<1>3. Fresh'
  BY DEF Fresh, Late, Typed
<1>4. HalfHandled'
  BY <1>2 DEF HalfHandled
<1>5. ReportFits'
  BY <1>2 DEF ReportFits, PauseFollowsLink, Reports
<1> QED
  BY <1>1, <1>2, <1>3, <1>4, <1>5

\* A report is of the last change, and until it is answered nothing is said of the flag.
LEMMA MonitorStep == IInv /\ MonitorMT5Connectivity => IInv'
<1> SUFFICES ASSUME IInv, MonitorMT5Connectivity PROVE IInv'
  OBVIOUS
<1> USE Numbers DEF IInv, MonitorMT5Connectivity, storeVars
<1> DEFINE kind == IF mt5 THEN "mt5reconnect" ELSE "mt5disconnect"
<1>1. Typed'
  BY DEF Typed
<1>2. /\ Requested'
      /\ \A s \in Slots : run'[s].awaited => run'[s].kind = kind /\ run'[s].at = "hset"
  <2>1. kind \in Kinds \ {"none"} /\ mt5 \in BOOLEAN /\ Post(kind, mt5)
    BY DEF Kinds, Typed
  <2> HIDE DEF kind
  <2> QED
    BY <2>1, PostRequests
<1>3. Fresh'
  BY DEF Fresh, Late
<1>4. HalfHandled'
  BY <1>2 DEF HalfHandled
<1>5. ReportFits'
  BY <1>2 DEF ReportFits, PauseFollowsLink, Typed
<1> QED
  BY <1>1, <1>2, <1>3, <1>4, <1>5

\* A timeout leaves one request fewer that is awaited.
LEMMA TimesOutStep == ASSUME IInv, NEW s \in Slots, TimesOut(s) PROVE IInv'
<1> USE Numbers DEF IInv, TimesOut, storeVars, eaVars
<1>1. Typed'
  BY DEF Typed
<1>2. \A r \in Slots :
        /\ run'[r] \in Requests /\ StepFits(run'[r])
        /\ run'[r].kind = run[r].kind
        /\ run'[r].awaited => run'[r] = run[r]
  BY UnawaitedRequest DEF Requested
<1>3. Requested'
  <2>1. run' \in [Slots -> Requests]
    BY <1>2 DEF Requested
  <2> QED
    BY <1>2, <2>1 DEF Requested, OneAwaited
<1>4. Fresh' /\ HalfHandled' /\ ReportFits'
  BY <1>2 DEF Fresh, HalfHandled, ReportFits, PauseFollowsLink, Late
<1> QED
  BY <1>1, <1>3, <1>4

\* A request that fails is repeated from its first await, or ends.
LEMMA RaisesStep == ASSUME IInv, NEW s \in Slots, Raises(s) PROVE IInv'
<1> USE Numbers DEF IInv, Raises, storeVars, eaVars
<1>1. Typed'
  BY DEF Typed
<1>2. CASE run[s].awaited /\ run[s].attempt < MaxRetries
  <2> DEFINE again == Request(run[s].kind, run[s].link, run[s].attempt + 1)
  <2>1. run[s] \in Requests /\ StepFits(run[s])
    BY DEF Requested
  <2>2. again \in Requests
    <3>1. run[s].attempt + 1 \in 0..MaxRetries
      <4>1. run[s].attempt \in 0..MaxRetries
        BY <2>1, RequestFields
      <4> QED
        BY <1>2, <4>1
    <3> QED
      BY <2>1, <3>1, RequestFields DEF Request
  <2>3. again.kind = run[s].kind /\ again.at = "hset" /\ again.awaited
    BY DEF Request
  <2>4. \A r \in Slots : run'[r] = IF r = s THEN again ELSE run[r]
    BY <1>2 DEF Requested
  <2>5. run' \in [Slots -> Requests]
    BY <1>2, <2>2 DEF Requested
  <2>6. StepFits(again)
    BY <1>2, <2>1, <2>3 DEF StepFits
  <2>7. \A r \in Slots : run'[r].kind = run[r].kind /\ (run'[r].awaited <=> run[r].awaited)
    BY <1>2, <2>3, <2>4
  <2> HIDE DEF again
  <2>8. Requested'
    <3>1. \A r \in Slots : StepFits(run'[r])
      BY <2>4, <2>6 DEF Requested
    <3> QED
      BY <2>5, <2>7, <3>1 DEF Requested, OneAwaited
  <2>9. Fresh' /\ HalfHandled' /\ ReportFits'
    <3>1. \A r \in Slots : run'[r].at = "expire" => run[r].at = "expire"
      BY <2>3, <2>4
    <3> QED
      BY <2>7, <3>1 DEF Fresh, Late, HalfHandled, ReportFits, PauseFollowsLink
  <2> QED
    BY <1>1, <2>8, <2>9
<1>3. CASE ~(run[s].awaited /\ run[s].attempt < MaxRetries)
  <2>1. Requested' /\ \A r \in Slots : run'[r] = IF r = s THEN Idle ELSE run[r]
    BY <1>3, EndRequests
  <2>2. ~Idle.awaited /\ Idle.kind \notin Reports
    BY DEF Idle, Reports
  <2>3. Fresh' /\ HalfHandled' /\ ReportFits'
    BY <2>1, <2>2 DEF Fresh, Late, HalfHandled, ReportFits, PauseFollowsLink
  <2> QED
    BY <1>1, <2>1, <2>3
<1> QED
  BY <1>2, <1>3

\* The write of the hash can only make the record more recent.
LEMMA HSetStep == ASSUME IInv, NEW s \in Slots, HSet(s) PROVE IInv'
<1> USE Numbers DEF IInv, HSet, eaVars
<1> DEFINE next == AfterHSet(run[s].kind)
<1>1. run[s] \in Requests /\ StepFits(run[s]) /\ run[s].kind \in Kinds \ {"none"}
  BY AtStep DEF Requested
<1>2. /\ next \in {"expire", "set flag", "delete flag"}
      /\ next = "expire" <=> run[s].kind = "heartbeat"
  BY <1>1 DEF AfterHSet, Kinds
<1>3. \A r \in Slots : run'[r] = IF r = s THEN [run[s] EXCEPT !.at = next] ELSE run[r]
  BY DEF Requested
<1>4. /\ [run[s] EXCEPT !.at = next] \in Requests
      /\ [run[s] EXCEPT !.at = next].kind = run[s].kind
      /\ [run[s] EXCEPT !.at = next].awaited <=> run[s].awaited
      /\ [run[s] EXCEPT !.at = next].at = next
  <2>1. next \in {"none", "hset", "expire", "set flag", "delete flag"}
    BY <1>2
  <2>2. run[s] \in Requests
    BY <1>1
  <2> HIDE DEF next, IInv, HSet
  <2> QED
    BY <2>1, <2>2, AdvancedRequest
<1>5. /\ \A r \in Slots : (run'[r].awaited <=> run[r].awaited) /\ run'[r].kind = run[r].kind
      /\ \A r \in Slots : run'[r].at = IF r = s THEN next ELSE run[r].at
  <2> HIDE DEF next, IInv, HSet
  <2> QED
    BY <1>3, <1>4
<1>6. Requested'
  <2>1. run' \in [Slots -> Requests]
    BY <1>4 DEF Requested
  <2>2. StepFits(run'[s])
    BY <1>1, <1>5 DEF StepFits, AfterHSet, Kinds
  <2>3. \A r \in Slots : StepFits(run'[r])
    BY <1>3, <2>2 DEF Requested
  <2> QED
    BY <1>5, <2>1, <2>3 DEF Requested, OneAwaited
<1>7. record' \in [link : BOOLEAN, seen : 0..Never, exists : BOOLEAN] /\ record'.exists
  <2>1. run[s].link \in BOOLEAN
    BY <1>1, RequestFields
  <2>2. (IF run[s].kind = "mt5disconnect" THEN record.seen ELSE 0) \in 0..Never
    BY DEF Typed
  <2> QED
    BY <2>1, <2>2 DEF LinkWritten
<1>8. record'.seen = IF run[s].kind = "mt5disconnect" THEN record.seen ELSE 0
  OBVIOUS
<1>9. Typed'
  BY <1>7 DEF Typed
<1>10. Fresh'
  BY <1>8 DEF Fresh, Late, Typed
<1>11. HalfHandled'
  <2>1. ASSUME NEW r \in Slots, run'[r].awaited, run'[r].at = "expire"
        PROVE  record'.seen = 0
    <3>1. CASE r = s
      BY <1>2, <1>5, <1>8, <2>1, <3>1
    <3>2. CASE r # s
      BY <1>5, <1>8, <2>1, <3>2 DEF HalfHandled
    <3> QED
      BY <3>1, <3>2
  <2> QED
    BY <1>7, <2>1 DEF HalfHandled
<1>12. ReportFits'
  BY <1>5 DEF ReportFits, PauseFollowsLink
<1> QED
  BY <1>6, <1>9, <1>10, <1>11, <1>12

\* The end of a heartbeat: the record lives for its whole time again.
LEMMA ExpireStep == ASSUME IInv, NEW s \in Slots, Expire(s) PROVE IInv'
<1> USE Numbers DEF IInv, Expire, Ends, eaVars
<1>1. run[s].kind = "heartbeat"
  BY AtStep
<1>2. Requested' /\ \A r \in Slots : run'[r] = IF r = s THEN Idle ELSE run[r]
  BY EndRequests
<1>3. ~Idle.awaited /\ Idle.kind \notin Reports
  BY DEF Idle, Reports
<1>4. untold' = untold
  BY <1>1 DEF Reports
<1>5. ttl' = IF record.exists THEN Lifetime ELSE Forever
  BY DEF LifetimeAfter
<1>6. Typed'
  <2>1. ttl' \in 1..Forever /\ missed' \in 0..2
    BY <1>5 DEF Typed
  <2> QED
    BY <1>4, <1>5, <2>1 DEF Typed
<1>7. Fresh'
  <2>1. CASE run[s].awaited
    <3>1. record.exists /\ record.seen = 0 /\ missed' = 0
      BY <1>1, <2>1 DEF HalfHandled
    <3> QED
      BY <1>5, <3>1 DEF Fresh, Late, Typed
  <2>2. CASE ~run[s].awaited
    BY <1>5, <2>2 DEF Fresh, Late, Typed
  <2> QED
    BY <2>1, <2>2
<1>8. HalfHandled' /\ ReportFits'
  BY <1>2, <1>3, <1>4 DEF HalfHandled, ReportFits, PauseFollowsLink
<1> QED
  BY <1>2, <1>6, <1>7, <1>8

\* The end of a report: the flag is that of its kind.
LEMMA FlagStep == ASSUME IInv, NEW s \in Slots, SetOrDeleteFlag(s) PROVE IInv'
<1> USE Numbers DEF IInv, SetOrDeleteFlag, Ends, eaVars
<1>1. \/ run[s].at = "set flag" /\ run[s].kind = "mt5disconnect" /\ paused' = TRUE
      \/ run[s].at = "delete flag" /\ run[s].kind = "mt5reconnect" /\ paused' = FALSE
  <2>1. run[s].at = "set flag" => run[s].kind = "mt5disconnect"
    BY AtStep
  <2>2. run[s].at = "delete flag" => run[s].kind = "mt5reconnect"
    BY AtStep
  <2>3. paused' = (run[s].at = "set flag")
    BY DEF PausedAfter
  <2> QED
    BY <2>1, <2>2, <2>3
<1>2. Requested' /\ \A r \in Slots : run'[r] = IF r = s THEN Idle ELSE run[r]
  BY EndRequests
<1>3. ~Idle.awaited /\ Idle.kind \notin Reports
  BY DEF Idle, Reports
<1>4. run[s].kind \in Reports /\ missed' = missed
  BY <1>1 DEF Reports
<1>5. untold' = IF run[s].awaited THEN OtherReport(s) ELSE untold
  BY <1>4
<1>6. paused' \in BOOLEAN /\ untold' \in BOOLEAN
  BY <1>5 DEF PausedAfter, OtherReport, Typed
<1>7. Typed'
  BY <1>4, <1>6 DEF Typed
<1>8. Fresh' /\ HalfHandled'
  BY <1>2, <1>3, <1>4 DEF Fresh, Late, HalfHandled
<1>9. ~untold' => /\ \A r \in Slots : run'[r].kind \notin Reports
                  /\ run[s].awaited
  BY <1>2, <1>3, <1>4, <1>5 DEF OtherReport, ReportFits
<1>10. run[s].awaited => paused' = ~prev
  <2>1. prev \in BOOLEAN
    BY DEF Typed
  <2>2. run[s].awaited => /\ run[s].kind = "mt5reconnect" => prev
                          /\ run[s].kind = "mt5disconnect" => ~prev
    BY DEF ReportFits
  <2> QED
    BY <1>1, <2>1, <2>2
<1>11. ReportFits'
  BY <1>2, <1>3, <1>9, <1>10 DEF ReportFits, PauseFollowsLink
<1> QED
  BY <1>2, <1>7, <1>8, <1>11

\* An interval makes the record older by one, and the next heartbeat due.
LEMMA IntervalStep == IInv /\ IntervalPasses => IInv'
<1> SUFFICES ASSUME IInv, IntervalPasses PROVE IInv'
  OBVIOUS
<1> USE Numbers DEF IInv, IntervalPasses
<1>1. Typed'
  <2>1. ttl' \in 1..Forever /\ (ttl = 1 => ttl' = Forever)
    BY DEF Typed
  <2>2. record' \in [link : BOOLEAN, seen : 0..Never, exists : BOOLEAN]
    <3>1. CASE ttl = 1
      BY <3>1 DEF NoRecord
    <3>2. CASE ttl # 1
      BY <3>2 DEF Typed
    <3> QED
      BY <3>1, <3>2
  <2>3. ~record'.exists => record' = NoRecord /\ ttl' = Forever
    <3>1. CASE ttl = 1
      BY <3>1
    <3>2. CASE ttl # 1
      <4>1. ~record'.exists => ~record.exists
        BY <3>2 DEF Typed
      <4>2. ASSUME ~record.exists PROVE record' = NoRecord
        <5>1. record = NoRecord
          BY <4>2 DEF Typed
        <5>2. ~(record.seen < Recent)
          BY <5>1 DEF NoRecord
        <5>3. record' = [record EXCEPT !.seen = record.seen]
          BY <3>2, <5>2
        <5> QED
          BY <5>1, <5>3 DEF NoRecord
      <4> QED
        BY <3>2, <4>1, <4>2 DEF Typed
    <3> QED
      BY <3>1, <3>2
  <2>4. {running', mt5', prev', due', paused', untold'} \subseteq BOOLEAN
    BY DEF Typed
  <2> QED
    BY <2>1, <2>2, <2>3, <2>4 DEF Typed
<1>2. Requested'
  BY DEF Requested, OneAwaited
<1>3. Fresh'
  <2> SUFFICES ASSUME running, missed < 2
               PROVE  record'.seen <= Late' /\ ttl' >= Lifetime - Late'
    BY DEF Fresh
  <2>1. record.seen <= missed /\ ttl >= Lifetime - missed /\ missed \in 0..1
    BY DEF Fresh, Late, Typed
  <2>2. Late' = missed + 1
    BY DEF Late
  <2>3. ttl # 1 /\ ttl \in 1..Forever /\ record.seen \in 0..Never
    BY <2>1 DEF Typed
  <2>4. record'.seen <= record.seen + 1
    BY <2>3 DEF Typed
  <2>5. ttl' >= ttl - 1
    BY <2>3
  <2> QED
    BY <2>1, <2>2, <2>3, <2>4, <2>5, ttl' \in Int, record'.seen \in Int
<1>4. HalfHandled' /\ ReportFits'
  BY DEF HalfHandled, ReportFits, PauseFollowsLink, Waiting
<1> QED
  BY <1>1, <1>2, <1>3, <1>4

\* The link and the backend change nothing else, nor does a stutter.
LEMMA OtherSteps == IInv /\ (Mt5Changes \/ BackendSettles \/ UNCHANGED vars) => IInv'
<1> SUFFICES ASSUME IInv, Mt5Changes \/ BackendSettles \/ UNCHANGED vars PROVE IInv'
  OBVIOUS
<1> USE DEF IInv, Mt5Changes, BackendSettles, vars, eaVars, storeVars
<1>1. Typed'
  BY DEF Typed
<1>2. Requested'
  BY DEF Requested, OneAwaited
<1>3. Fresh' /\ HalfHandled' /\ ReportFits'
  BY DEF Fresh, Late, HalfHandled, ReportFits, PauseFollowsLink
<1> QED
  BY <1>1, <1>2, <1>3

\* Every step keeps the invariant.
LEMMA NextIInv == IInv /\ [Next]_vars => IInv'
<1> SUFFICES ASSUME IInv, [Next]_vars PROVE IInv'
  OBVIOUS
<1>1. ASSUME NEW s \in Slots, Serve(s) \/ TimesOut(s) \/ Raises(s) PROVE IInv'
  BY <1>1, HSetStep, ExpireStep, FlagStep, TimesOutStep, RaisesStep DEF Serve
<1> QED
  BY <1>1, StartStep, StopStep, SendHeartbeatStep, MonitorStep, IntervalStep, OtherSteps DEF Next

\* The invariant holds for ever.
LEMMA SpecIInv == Spec => []IInv
BY InitIInv, NextIInv, PTL DEF Spec

-----------------------------------------------------------------------------
\* Every variable of the health watch keeps its type, whatever requests of the EA
\* end late, half done or not at all.
THEOREM HealthTypeCorrect == Spec => []TypeOK
<1>1. IInv => TypeOK
  <2> SUFFICES ASSUME IInv PROVE TypeOK
    OBVIOUS
  <2>1. \A s \in Slots : run[s].attempt \in 0..MaxRetries
    BY RequestFields DEF IInv, Requested
  <2> QED
    BY <2>1 DEF IInv, Typed, TypeOK
<1> QED
  BY <1>1, SpecIInv, PTL

\* GET /health says healthy while no two heartbeats in a row are missed: the age of
\* the record and its time to live leave room for one.
THEOREM OneMissTolerated == Spec => []OneMissIsTolerated
<1>1. IInv => OneMissIsTolerated
  <2> SUFFICES ASSUME IInv, running, missed < 2 PROVE system_health(TRUE) = "healthy"
    BY DEF OneMissIsTolerated
  <2>1. record.seen <= 2
    BY DEF IInv, Fresh, Late, Typed
  <2>2. ea_connected(record)
    BY <2>1, Numbers DEF ea_connected, IInv, Typed
  <2> QED
    BY <2>2 DEF system_health
<1> QED
  BY <1>1, SpecIInv, PTL

\* signals:paused is the opposite of the link whenever the report of its last change
\* was answered in time, with any number of late reports before.
THEOREM PauseFollows == Spec => []PauseFollowsLink
<1>1. IInv => PauseFollowsLink
  BY DEF IInv, ReportFits
<1> QED
  BY <1>1, SpecIInv, PTL

=============================================================================
