--------------------------- MODULE Backend_proofs ---------------------------
(***************************************************************************)
(* Theorems about Backend, for any number of coroutines and for all        *)
(* equities, profits and limits: types, the ledger, the fills, the         *)
(* refinement of DailyRisk and the lock.  Each theorem but the first names *)
(* the operations that it needs apart; all others run beside each other.   *)
(*                                                                         *)
(* Most of the work is to forget the sequences: a coroutine is known by    *)
(* its operation and the await it is at, and the tables HasAwait and       *)
(* Follows say what comes after what.                                      *)
(***************************************************************************)
EXTENDS Backend, SequenceTheorems, TLAPS

\* The await that coroutine s is at, while it runs.
Await(s) == Head(run[s].rest)

Awaits ==
  {"persist", "get_lock", "lrange", "get_tick", "has_position", "get_success",
   "delete_success", "get_position", "get_pnl", "set_pnl", "get_equity", "set_lock",
   "delete_position", "set_position", "set_success", "delete_pending",
   "record_position", "delete_lock", "zero_pnl", "set_equity", "get_existing"}

\* The operations and their awaits.
HasAwait ==
  {<<"approve", "persist">>,
   <<"check_risk", "get_lock">>, <<"check_risk", "persist">>,
   <<"scan", "lrange">>, <<"scan", "get_tick">>, <<"scan", "has_position">>,
   <<"scan", "persist">>,
   <<"manage", "get_success">>, <<"manage", "delete_success">>, <<"manage", "persist">>,
   <<"close", "get_position">>, <<"close", "get_pnl">>, <<"close", "set_pnl">>,
   <<"close", "get_equity">>, <<"close", "set_lock">>, <<"close", "delete_position">>,
   <<"close", "persist">>,
   <<"status", "set_position">>,
   <<"opened", "set_success">>, <<"opened", "delete_pending">>,
   <<"opened", "record_position">>,
   <<"failed", "delete_success">>, <<"failed", "delete_pending">>,
   <<"reset", "delete_lock">>, <<"reset", "zero_pnl">>, <<"reset", "set_equity">>,
   <<"initialize", "get_existing">>, <<"initialize", "set_equity">>,
   <<"initialize", "zero_pnl">>}

\* The first await of each operation.
First ==
  [approve |-> "persist", check_risk |-> "get_lock", scan |-> "lrange",
   manage |-> "get_success", close |-> "get_position", status |-> "set_position",
   opened |-> "set_success", failed |-> "delete_success", reset |-> "delete_lock",
   initialize |-> "get_existing"]

\* The awaits that are followed by another one of the same operation.
Follows ==
  {<<"check_risk", "get_lock", "persist">>,
   <<"scan", "lrange", "get_tick">>, <<"scan", "get_tick", "has_position">>,
   <<"scan", "has_position", "persist">>,
   <<"manage", "get_success", "delete_success">>,
   <<"manage", "delete_success", "persist">>,
   <<"close", "get_position", "get_pnl">>, <<"close", "get_pnl", "set_pnl">>,
   <<"close", "set_pnl", "get_equity">>, <<"close", "get_equity", "set_lock">>,
   <<"close", "set_lock", "delete_position">>,
   <<"close", "delete_position", "persist">>,
   <<"opened", "set_success", "delete_pending">>,
   <<"opened", "delete_pending", "record_position">>,
   <<"failed", "delete_success", "delete_pending">>,
   <<"reset", "delete_lock", "zero_pnl">>, <<"reset", "zero_pnl", "set_equity">>,
   <<"initialize", "get_existing", "set_equity">>,
   <<"initialize", "set_equity", "zero_pnl">>}

-----------------------------------------------------------------------------
(***************************************************************************)
(* The scripts.                                                            *)
(***************************************************************************)
\* The awaits of a booking.
LEMMA RecordPnlScript ==
  /\ RecordPnl \in Seq(Awaits) /\ Len(RecordPnl) = 4
  /\ RecordPnl[1] = "get_pnl" /\ RecordPnl[2] = "set_pnl"
  /\ RecordPnl[3] = "get_equity" /\ RecordPnl[4] = "set_lock"
BY DEF RecordPnl, Awaits

\* Those of the closing of a position, written out.
LEMMA CloseScript ==
  /\ Close \in Seq(Awaits) /\ Len(Close) = 7
  /\ Close[1] = "get_position" /\ Close[2] = "get_pnl" /\ Close[3] = "set_pnl"
  /\ Close[4] = "get_equity" /\ Close[5] = "set_lock"
  /\ Close[6] = "delete_position" /\ Close[7] = "persist"
<1> DEFINE a == <<"get_position">>
           c == <<"delete_position", "persist">>
<1>1. a \in Seq(Awaits) /\ Len(a) = 1 /\ a[1] = "get_position"
  BY DEF Awaits
<1>2. c \in Seq(Awaits) /\ Len(c) = 2 /\ c[1] = "delete_position" /\ c[2] = "persist"
  BY DEF Awaits
<1>3. Close = (a \o RecordPnl) \o c
  BY DEF Close
<1> HIDE DEF a, c
<1>4. /\ a \o RecordPnl \in Seq(Awaits) /\ Len(a \o RecordPnl) = Len(a) + Len(RecordPnl)
      /\ \A i \in 1..(Len(a) + Len(RecordPnl)) :
           (a \o RecordPnl)[i] = IF i <= Len(a) THEN a[i] ELSE RecordPnl[i - Len(a)]
  BY <1>1, RecordPnlScript, ConcatProperties, Zenon
<1> DEFINE b == a \o RecordPnl
<1>5. /\ b \in Seq(Awaits) /\ Len(b) = 5
      /\ \A i \in 1..5 : b[i] = IF i <= 1 THEN a[i] ELSE RecordPnl[i - 1]
  BY <1>1, <1>4, RecordPnlScript
<1> HIDE DEF b
<1>6. /\ b \o c \in Seq(Awaits) /\ Len(b \o c) = Len(b) + Len(c)
      /\ \A i \in 1..(Len(b) + Len(c)) :
           (b \o c)[i] = IF i <= Len(b) THEN b[i] ELSE c[i - Len(b)]
  BY <1>2, <1>5, ConcatProperties, Zenon
<1>7. Close = b \o c
  BY <1>3 DEF b
<1>8. /\ Close \in Seq(Awaits) /\ Len(Close) = 7
      /\ \A i \in 1..7 : Close[i] = IF i <= 5 THEN b[i] ELSE c[i - 5]
  BY <1>2, <1>5, <1>6, <1>7
<1> QED
  BY <1>1, <1>2, <1>5, <1>8, RecordPnlScript

\* Every script is a sequence that begins and goes on as the tables say.
LEMMA Scripts ==
  ASSUME NEW op \in Op
  PROVE  /\ Script[op] \in Seq(Awaits) /\ Len(Script[op]) \in Nat \ {0}
         /\ Script[op][1] = First[op]
         /\ \A i \in 1..Len(Script[op]) : <<op, Script[op][i]>> \in HasAwait
         /\ \A i \in 1..(Len(Script[op]) - 1) :
              <<op, Script[op][i], Script[op][i + 1]>> \in Follows
         /\ \A i \in 1..Len(Script[op]) : 
              i = Len(Script[op]) => \A w : <<op, Script[op][i], w>> \notin Follows
<1>0. op \in {"approve", "check_risk", "scan", "manage", "close", "status", "opened",
              "failed", "reset", "initialize"}
  BY DEF Op, Script
<1> USE DEF First, HasAwait, Follows, Awaits
<1>1. CASE op = "approve"
  BY <1>1 DEF Script
<1>2. CASE op = "check_risk"
  BY <1>2 DEF Script
<1>3. CASE op = "scan"
  BY <1>3 DEF Script
<1>4. CASE op = "manage"
  BY <1>4 DEF Script, Manage
<1>5. CASE op = "close"
  <2>1. Script[op] = Close
    BY <1>5 DEF Script
  <2>2. \A i \in 1..7 : i = 1 \/ i = 2 \/ i = 3 \/ i = 4 \/ i = 5 \/ i = 6 \/ i = 7
    OBVIOUS
  <2> QED
    BY <1>5, <2>1, <2>2, CloseScript
<1>6. CASE op = "status"
  BY <1>6 DEF Script
<1>7. CASE op = "opened"
  BY <1>7 DEF Script
<1>8. CASE op = "failed"
  BY <1>8 DEF Script
<1>9. CASE op = "reset"
  BY <1>9 DEF Script
<1>10. CASE op = "initialize"
  BY <1>10 DEF Script
<1> QED
  BY <1>0, <1>1, <1>2, <1>3, <1>4, <1>5, <1>6, <1>7, <1>8, <1>9, <1>10

-----------------------------------------------------------------------------
(***************************************************************************)
(* What a coroutine is, and what its steps do to it.                       *)
(***************************************************************************)
\* A suffix of a script begins with one of its awaits; its tail, if any, is the
\* suffix that begins with the next.
LEMMA Suffixes ==
  ASSUME NEW op \in Op, NEW i \in 1..Len(Script[op])
  PROVE  LET r == SubSeq(Script[op], i, Len(Script[op]))
         IN  /\ r \in Suffix(Script[op]) /\ r # <<>>
             /\ Len(r) = Len(Script[op]) - i + 1
             /\ Head(r) = Script[op][i]
             /\ Tail(r) = SubSeq(Script[op], i + 1, Len(Script[op]))
<1> DEFINE w == Script[op]  n == Len(w)  r == SubSeq(w, i, n)
<1>1. w \in Seq(Awaits) /\ n \in Nat \ {0}
  BY Scripts
<1> HIDE DEF w
<1>2. i \in 1..n /\ n \in i..n
  BY <1>1 DEF w
<1> HIDE DEF n
<1>3. Head(r) = w[i] /\ Tail(r) = SubSeq(w, i + 1, n)
  BY <1>1, <1>2, HeadTailOfSubSeq DEF n
<1>4. Len(r) = n - i + 1
  <2>1. \A j \in i..n : w[j] \in Awaits
    BY <1>1, <1>2, ElementOfSeq DEF n
  <2>2. Len(r) = IF i <= n THEN n - i + 1 ELSE 0
    BY <1>1, <1>2, <2>1, SubSeqProperties
  <2> QED
    BY <1>1, <1>2, <2>2
<1>5. r # <<>>
  <2> HIDE DEF r
  <2>1. Len(r) # 0
    BY <1>1, <1>2, <1>4
  <2>2. Len(<<>>) = 0
    OBVIOUS
  <2> QED
    BY <2>1, <2>2
<1>6. r \in Suffix(w)
  BY <1>2 DEF Suffix, n
<1> QED
  BY <1>3, <1>4, <1>5, <1>6 DEF w, n

\* A running coroutine is one of a called operation, at one of its awaits.
LEMMA Active ==
  ASSUME TypeOK, NEW s \in Slots, run[s].op # "none"
  PROVE  /\ run[s].op \in Calls /\ run[s].op \in Op
         /\ run[s] \in Coroutine(run[s].op)
         /\ run[s].arg \in Arguments(run[s].op) /\ run[s].val \in Int
         /\ \E i \in 1..Len(Script[run[s].op]) :
              /\ run[s].rest = SubSeq(Script[run[s].op], i, Len(Script[run[s].op]))
              /\ Await(s) = Script[run[s].op][i]
         /\ run[s].rest # <<>>
         /\ <<run[s].op, Await(s)>> \in HasAwait
<1>1. PICK op \in Calls : run[s] \in Coroutine(op)
  BY DEF TypeOK, Idle
<1>2. run[s].op = op /\ op \in Op
  BY <1>1, CallsAssumption DEF Coroutine
<1>3. PICK i \in 1..Len(Script[op]) : run[s].rest = SubSeq(Script[op], i, Len(Script[op]))
  BY <1>1 DEF Coroutine, Suffix
<1>4. run[s].rest # <<>> /\ Await(s) = Script[op][i]
  BY <1>2, <1>3, Suffixes DEF Await
<1>5. <<op, Await(s)>> \in HasAwait
  BY <1>2, <1>4, Scripts
<1>6. run[s].arg \in Arguments(op) /\ run[s].val \in Int
  BY <1>1 DEF Coroutine
<1> QED
  BY <1>1, <1>2, <1>3, <1>4, <1>5, <1>6

\* An idle coroutine is at no await.
LEMMA AtActive ==
  ASSUME TypeOK, NEW s \in Slots, NEW w, At(s, w)
  PROVE  run[s].op # "none" /\ Await(s) = w /\ <<run[s].op, w>> \in HasAwait
<1>1. run[s].rest # <<>> /\ Await(s) = w
  BY DEF At, Await
<1>2. run[s] # Idle
  BY <1>1 DEF Idle
<1>3. run[s].op # "none"
  BY <1>2, CallsAssumption DEF TypeOK, Coroutine, Op, Script
<1> QED
  BY <1>1, <1>3, Active

\* The next coroutine of slot s is r, the others stay.
Replaces(s, r) ==
  /\ DOMAIN run' = Slots
  /\ run'[s] = r
  /\ \A t \in Slots \ {s} : run'[t] = run[t]

\* Coroutine r goes on in slot s, at the await w.
Successor(s, w, val, r) ==
  /\ r \in Coroutine(run[s].op)
  /\ r.op = run[s].op /\ r.arg = run[s].arg /\ r.val = val
  /\ Head(r.rest) = w

\* Coroutine s ends with the await w, if it is the last one of its operation, and
\* otherwise goes on with the one that follows.
Advances(s, w, val) ==
  \/ Replaces(s, Idle) /\ \A v : <<run[s].op, w, v>> \notin Follows
  \/ \E r, v : /\ Replaces(s, r) /\ Successor(s, v, val, r)
              /\ <<run[s].op, w, v>> \in Follows

LEMMA ContinueStep ==
  ASSUME TypeOK, NEW s \in Slots, NEW w, At(s, w), NEW val \in Int, Continue(s, val)
  PROVE  Advances(s, w, val)
<1> DEFINE op == run[s].op  rest == run[s].rest  script == Script[op]  n == Len(script)
<1>1. Await(s) = w /\ op \in Calls /\ op \in Op /\ run[s] \in Coroutine(op)
  BY AtActive, Active
<1>2. PICK i \in 1..n : rest = SubSeq(script, i, n) /\ w = script[i]
  BY <1>1, AtActive, Active
<1>3. Len(rest) = n - i + 1 /\ Tail(rest) = SubSeq(script, i + 1, n)
  BY <1>1, <1>2, Suffixes
<1>4. n \in Nat
  BY <1>1, Scripts
<1>5. CASE i = n
  <2>1. Len(rest) = 1
    BY <1>3, <1>4, <1>5
  <2>2. Replaces(s, Idle)
    BY <2>1 DEF Continue, Replaces, TypeOK
  <2> QED
    BY <1>1, <1>2, <1>5, <2>2, Scripts DEF Advances
<1>6. CASE i # n
  <2>1. Len(rest) # 1 /\ i + 1 \in 1..n /\ i \in 1..(n - 1)
    BY <1>3, <1>4, <1>6
  <2> DEFINE r == [op |-> op, rest |-> Tail(rest), arg |-> run[s].arg, val |-> val]
  <2>2. Replaces(s, r)
    <3>1. run'[s] = r
      BY <2>1 DEF Continue, TypeOK
    <3>2. DOMAIN run' = Slots /\ \A t \in Slots \ {s} : run'[t] = run[t]
      BY DEF Continue, TypeOK
    <3> QED
      BY <3>1, <3>2 DEF Replaces
  <2>3. Tail(rest) \in Suffix(script) /\ Head(Tail(rest)) = script[i + 1]
    BY <1>1, <1>3, <2>1, Suffixes
  <2>4. /\ r \in Coroutine(op) /\ r.op = op /\ r.arg = run[s].arg /\ r.val = val
        /\ r.rest = Tail(rest)
    BY <1>1, <2>3 DEF Coroutine
  <2>5. Successor(s, script[i + 1], val, r)
    BY <2>3, <2>4 DEF Successor
  <2>6. <<op, w, script[i + 1]>> \in Follows
    BY <1>1, <1>2, <2>1, Scripts
  <2> QED
    BY <2>2, <2>5, <2>6 DEF Advances
<1> QED
  BY <1>5, <1>6

LEMMA GoesOnStep ==
  ASSUME TypeOK, NEW s \in Slots, NEW w, At(s, w), GoesOn(s)
  PROVE  Advances(s, w, run[s].val)
BY AtActive, Active, ContinueStep DEF GoesOn

LEMMA EndsStep ==
  ASSUME TypeOK, NEW s \in Slots, Ends(s)
  PROVE  Replaces(s, Idle)
BY DEF Ends, Replaces, TypeOK

\* Only the record of a profit leaves an await out.
LEMMA SkipsStep ==
  ASSUME TypeOK, NEW s \in Slots, At(s, "get_equity"), SkipsOne(s)
  PROVE  /\ run[s].op = "close"
         /\ \E r : Replaces(s, r) /\ Successor(s, "delete_position", run[s].val, r)
<1> DEFINE rest == run[s].rest
           r == [run[s] EXCEPT !.rest = Tail(Tail(rest))]
<1>1. run[s].op = "close" /\ "close" \in Op /\ run[s] \in Coroutine("close")
  BY AtActive, Active DEF HasAwait
<1>2. PICK i \in 1..7 : rest = SubSeq(Close, i, 7) /\ Close[i] = "get_equity"
  <2>1. Script["close"] = Close /\ Len(Close) = 7
    BY CloseScript DEF Script
  <2>2. /\ run[s].op # "none" /\ Await(s) = "get_equity"
    BY AtActive
  <2>3. PICK i \in 1..Len(Script[run[s].op]) :
          /\ run[s].rest = SubSeq(Script[run[s].op], i, Len(Script[run[s].op]))
          /\ Await(s) = Script[run[s].op][i]
    BY <2>2, Active
  <2> QED
    BY <1>1, <2>1, <2>2, <2>3
<1>3. Script["close"] = Close /\ Len(Close) = 7 /\ i = 4
  BY <1>2, CloseScript DEF Script
<1>4. Tail(rest) = SubSeq(Close, 5, 7)
  <2>1. 4 \in 1..Len(Script["close"])
    BY <1>3
  <2> QED
    BY <1>1, <1>2, <1>3, <2>1, Suffixes
<1>5. Tail(Tail(rest)) = SubSeq(Close, 6, 7)
  <2>1. 5 \in 1..Len(Script["close"])
    BY <1>3
  <2>2. Tail(SubSeq(Script["close"], 5, Len(Script["close"])))
          = SubSeq(Script["close"], 5 + 1, Len(Script["close"]))
    BY <1>1, <2>1, Suffixes, Zenon
  <2>3. 5 + 1 = 6
    OBVIOUS
  <2> HIDE DEF rest
  <2> QED
    BY <1>3, <1>4, <2>2, <2>3, Zenon
<1>6. Tail(Tail(rest)) \in Suffix(Close) /\ Head(Tail(Tail(rest))) = "delete_position"
  <2>1. 6 \in 1..Len(Script["close"])
    BY <1>3
  <2> QED
    BY <1>1, <1>3, <1>5, <2>1, Suffixes, CloseScript
<1>7. Replaces(s, r)
  <2>1. run'[s] = r
    BY DEF SkipsOne, TypeOK
  <2> QED
    BY <2>1 DEF SkipsOne, Replaces, TypeOK
<1>8. Successor(s, "delete_position", run[s].val, r)
  <2>1. /\ r \in Coroutine("close") /\ r.op = "close" /\ r.arg = run[s].arg
        /\ r.val = run[s].val /\ r.rest = Tail(Tail(rest))
    BY <1>1, <1>3, <1>6 DEF Coroutine
  <2> QED
    BY <1>1, <1>6, <2>1 DEF Successor
<1> QED
  BY <1>1, <1>7, <1>8

\* A new coroutine is at the first await of its operation.
LEMMA BeginStep ==
  ASSUME TypeOK, NEW s \in Slots, Begin(s)
  PROVE  /\ run[s] = Idle
         /\ \E op \in Calls : \E r :
              /\ Replaces(s, r) /\ r \in Coroutine(op) /\ Head(r.rest) = First[op]
              /\ op = "opened" => credit < MaxFills
<1>1. PICK op \in Calls :
        /\ op = "opened" => credit < MaxFills
        /\ \E arg \in Arguments(op) :
             run' = [run EXCEPT ![s] = [op |-> op, rest |-> Script[op], arg |-> arg, val |-> 0]]
  BY DEF Begin
<1>2. PICK arg \in Arguments(op) :
        run' = [run EXCEPT ![s] = [op |-> op, rest |-> Script[op], arg |-> arg, val |-> 0]]
  BY <1>1
<1> DEFINE r == [op |-> op, rest |-> Script[op], arg |-> arg, val |-> 0]
<1>3. op \in Op /\ Script[op] \in Seq(Awaits) /\ Len(Script[op]) \in Nat \ {0}
  BY CallsAssumption, Scripts
<1>4. Script[op] = SubSeq(Script[op], 1, Len(Script[op])) /\ 1 \in 1..Len(Script[op])
  BY <1>3, SubSeqFull
<1>5. Script[op] \in Suffix(Script[op]) /\ Head(Script[op]) = First[op]
  <2> DEFINE full == SubSeq(Script[op], 1, Len(Script[op]))
  <2>1. full \in Suffix(Script[op]) /\ Head(full) = Script[op][1]
    BY <1>3, <1>4, Suffixes
  <2>2. full = Script[op]
    BY <1>4
  <2> QED
    BY <1>3, <2>1, <2>2, Scripts
<1>6. r \in Coroutine(op)
  BY <1>5 DEF Coroutine
<1>7. Replaces(s, r)
  BY <1>2 DEF Replaces, TypeOK
<1>8. run[s] = Idle
  <2>1. run[s].op = "none"
    BY DEF Begin
  <2>2. \A o \in Calls : run[s] \notin Coroutine(o)
    BY <2>1, CallsAssumption DEF Coroutine, Op, Script
  <2> QED
    BY <2>2 DEF TypeOK
<1> QED
  BY <1>1, <1>5, <1>6, <1>7, <1>8

-----------------------------------------------------------------------------
(***************************************************************************)
(* Type correctness, for any number of coroutines and with failures.       *)
(***************************************************************************)
RunOK ==
  /\ DOMAIN run = Slots
  /\ \A s \in Slots : run[s] = Idle \/ \E op \in Calls : run[s] \in Coroutine(op)

KeysOK ==
  /\ eaState \in EAState \cup {"none"}
  /\ success \in BOOLEAN /\ lock \in BOOLEAN
  /\ position \in Position
  /\ dailyPnl \in Int /\ realized \in Int /\ credit \in Int
  /\ startingEquity \in Equities \cup {0}

\* A position and its profit.
LEMMA Positions ==
  /\ \A p \in Position : p.open \in BOOLEAN /\ p.profit \in Profits /\ p.profit \in Int
  /\ NoPosition \in Position /\ NoPosition.profit = 0 /\ NoPosition.open = FALSE
  /\ \A x \in Profits : [open |-> TRUE, profit |-> x] \in Position
  /\ 0 \in Profits
<1>1. \A x \in Profits : x \in Int
  BY ProfitAssumption
<1>2. NoPosition \in Position /\ NoPosition.profit = 0 /\ NoPosition.open = FALSE
  BY DEF Position, NoPosition
<1>3. \A x \in Profits : [open |-> TRUE, profit |-> x] \in Position
  BY DEF Position
<1>4. ASSUME NEW p \in Position
      PROVE  p.open \in BOOLEAN /\ p.profit \in Profits
  <2>1. CASE p = NoPosition
    BY <2>1, ProfitAssumption DEF NoPosition
  <2>2. CASE p \in [open : {TRUE}, profit : Profits]
    BY <2>2
  <2> QED
    BY <2>1, <2>2 DEF Position
<1> QED
  BY <1>1, <1>2, <1>3, <1>4, ProfitAssumption

LEMMA RunReplaced ==
  ASSUME TypeOK, NEW s \in Slots,
         \/ Replaces(s, Idle)
         \/ \E op \in Calls : \E r \in Coroutine(op) : Replaces(s, r)
  PROVE  RunOK'
BY DEF TypeOK, RunOK, Replaces

LEMMA RunAdvanced ==
  ASSUME TypeOK, NEW s \in Slots, NEW w, At(s, w), NEW val, Advances(s, w, val)
  PROVE  RunOK'
<1>1. run[s].op \in Calls
  BY AtActive, Active
<1> QED
  BY <1>1, RunReplaced DEF Advances, Successor

\* The arguments of a call have their types.
LEMMA Args ==
  ASSUME TypeOK, NEW s \in Slots, NEW w, At(s, w)
  PROVE  /\ run[s].val \in Int
         /\ w = "set_position" => run[s].arg \in Profits
         /\ w = "set_equity" => run[s].arg \in Equities
<1>1. run[s].val \in Int /\ run[s].arg \in Arguments(run[s].op) /\ <<run[s].op, w>> \in HasAwait
  BY AtActive, Active
<1>2. CASE w = "set_position"
  BY <1>1, <1>2 DEF HasAwait, Arguments
<1>3. CASE w = "set_equity"
  BY <1>1, <1>3 DEF HasAwait, Arguments
<1> QED
  BY <1>1, <1>2, <1>3

LEMMA StepRun ==
  ASSUME TypeOK, NEW s \in Slots, Step(s)
  PROVE  RunOK'
<1>1. CASE Begin(s)
  BY <1>1, BeginStep, RunReplaced
<1>2. ASSUME NEW w, At(s, w), GoesOn(s) PROVE RunOK'
  BY <1>2, GoesOnStep, RunAdvanced
<1>3. CASE Ends(s)
  BY <1>3, EndsStep, RunReplaced
<1>4. CASE GetPosition(s)
  <2>1. position.profit \in Int
    BY Positions DEF TypeOK
  <2> QED
    BY <1>4, <2>1, ContinueStep, RunAdvanced DEF GetPosition
<1>5. CASE GetPnl(s)
  <2>1. dailyPnl + run[s].val \in Int
    BY <1>5, Args DEF TypeOK, GetPnl
  <2> QED
    BY <1>5, <2>1, ContinueStep, RunAdvanced DEF GetPnl
<1>6. CASE GetEquity(s)
  <2>1. CASE GoesOn(s)
    BY <1>2, <1>6, <2>1 DEF GetEquity
  <2>2. CASE SkipsOne(s)
    <3>1. At(s, "get_equity")
      BY <1>6 DEF GetEquity
    <3>2. run[s].op \in Calls /\ run[s].op = "close"
      BY <2>2, <3>1, AtActive, Active, SkipsStep
    <3> QED
      BY <2>2, <3>1, <3>2, SkipsStep, RunReplaced DEF Successor
  <2> QED
    BY <1>6, <2>1, <2>2 DEF GetEquity
<1>7. CASE GetLock(s) \/ ReadMarket(s) \/ HasPosition(s) \/ GetSuccess(s) \/ DeleteSuccess(s)
  BY <1>2, <1>3, <1>7 DEF GetLock, ReadMarket, HasPosition, GetSuccess, DeleteSuccess
<1>8. CASE \/ SetPosition(s) \/ RecordPosition(s) \/ SetSuccess(s) \/ DeletePending(s)
           \/ DeletePosition(s)
  BY <1>2, <1>8 DEF SetPosition, RecordPosition, SetSuccess, DeletePending, DeletePosition
<1>9. CASE \/ SetPnl(s) \/ SetLock(s) \/ DeleteLock(s) \/ ZeroPnl(s) \/ SetEquity(s)
           \/ GetExisting(s)
  BY <1>2, <1>3, <1>9 DEF SetPnl, SetLock, DeleteLock, ZeroPnl, SetEquity, GetExisting
<1>10. CASE Persist(s) \/ Raises(s)
  BY <1>3, <1>10 DEF Persist, Raises
<1> QED
  BY <1>1, <1>4, <1>5, <1>6, <1>7, <1>8, <1>9, <1>10 DEF Step

\* A transition persists a state of the EA.
LEMMA Targets ==
  ASSUME TypeOK, NEW s \in Slots, At(s, "persist")
  PROVE  Target[run[s].op] \subseteq EAState
<1>1. run[s].op \in {"approve", "check_risk", "scan", "manage", "close"}
  BY AtActive DEF HasAwait
<1> QED
  BY <1>1 DEF Target, EAState

LEMMA StepKeys ==
  ASSUME TypeOK, NEW s \in Slots, Step(s)
  PROVE  KeysOK'
<1> USE DEF TypeOK, KeysOK, keyVars, riskVars, history
<1>1. CASE Begin(s) \/ GetLock(s) \/ ReadMarket(s) \/ HasPosition(s) \/ GetSuccess(s)
  BY <1>1 DEF Begin, GetLock, ReadMarket, HasPosition, GetSuccess
<1>2. CASE DeletePending(s) \/ GetPosition(s) \/ GetPnl(s) \/ GetEquity(s)
           \/ GetExisting(s) \/ Raises(s)
  BY <1>2 DEF DeletePending, GetPosition, GetPnl, GetEquity, GetExisting, Raises
<1>3. CASE DeleteSuccess(s) \/ SetLock(s) \/ DeleteLock(s)
  BY <1>3, Zenon DEF DeleteSuccess, SetLock, DeleteLock
<1>7. CASE ZeroPnl(s)
  BY <1>7 DEF ZeroPnl
<1>8. CASE SetSuccess(s)
  <2>1. credit' \in Int
    BY <1>8 DEF SetSuccess
  <2> QED
    BY <1>8, <2>1, Zenon DEF SetSuccess
<1>4. CASE Persist(s)
  <2>1. eaState' \in EAState
    BY <1>4, Targets DEF Persist
  <2>2. credit' \in Int
    BY <1>4 DEF Persist
  <2> QED
    BY <1>4, <2>1, <2>2 DEF Persist
<1>5. CASE SetPosition(s) \/ RecordPosition(s) \/ DeletePosition(s)
  BY <1>5, Positions, Args DEF SetPosition, RecordPosition, DeletePosition
<1>6. CASE SetPnl(s) \/ SetEquity(s)
  BY <1>6, Args DEF SetPnl, SetEquity
<1> QED
  BY <1>1, <1>2, <1>3, <1>4, <1>5, <1>6, <1>7, <1>8 DEF Step

LEMMA InitTypeOK == Init => TypeOK
BY Positions DEF Init, TypeOK

LEMMA NextTypeOK == TypeOK /\ [Next]_vars => TypeOK'
<1> SUFFICES ASSUME TypeOK, [Next]_vars PROVE TypeOK'
  OBVIOUS
<1>1. CASE \E s \in Slots : Step(s)
  BY <1>1, StepRun, StepKeys DEF TypeOK, RunOK, KeysOK
<1>2. CASE StateExpires
  BY <1>2 DEF StateExpires, TypeOK, riskVars, history
<1>3. CASE Dies
  <2>1. DOMAIN run' = Slots /\ \A s \in Slots : run'[s] = Idle
    BY <1>3 DEF Dies
  <2> QED
    BY <1>3, <2>1 DEF Dies, TypeOK, keyVars, riskVars, history
<1>4. CASE UNCHANGED vars
  BY <1>4 DEF vars, TypeOK, keyVars, riskVars, history
<1> QED
  BY <1>1, <1>2, <1>3, <1>4 DEF Next

\* Every key and every coroutine keeps its type, for any number of coroutines,
\* any calls, and with commands that raise and a process that dies.
THEOREM BackendTypeCorrect == Spec => []TypeOK
BY InitTypeOK, NextTypeOK, PTL DEF Spec

-----------------------------------------------------------------------------
(***************************************************************************)
(* Where a coroutine is after its step.                                    *)
(***************************************************************************)
\* s is in operation op, at the await w.
In(s, op, w) == run[s].op = op /\ At(s, w)

\* What leads to an await.
LEMMA Predecessors ==
  ASSUME NEW o, NEW w
  PROVE  /\ <<o, w, "get_pnl">> \in Follows <=> o = "close" /\ w = "get_position"
         /\ <<o, w, "set_pnl">> \in Follows <=> o = "close" /\ w = "get_pnl"
         /\ <<o, w, "get_equity">> \in Follows <=> o = "close" /\ w = "set_pnl"
         /\ <<o, w, "set_lock">> \in Follows <=> o = "close" /\ w = "get_equity"
         /\ <<o, w, "delete_position">> \in Follows <=> o = "close" /\ w = "set_lock"
         /\ <<"manage", w, "delete_success">> \in Follows <=> w = "get_success"
         /\ <<"manage", w, "persist">> \in Follows <=> w = "delete_success"
         /\ <<"reset", w, "zero_pnl">> \in Follows <=> w = "delete_lock"
         /\ <<"reset", w, "set_equity">> \in Follows <=> w = "zero_pnl"
         /\ <<"initialize", w, "set_equity">> \in Follows <=> w = "get_existing"
         /\ <<"initialize", w, "zero_pnl">> \in Follows <=> w = "set_equity"
BY DEF Follows

\* At most one await follows.
LEMMA FollowsOnce ==
  ASSUME NEW o, NEW w, NEW u, NEW v, <<o, w, u>> \in Follows, <<o, w, v>> \in Follows
  PROVE  u = v
BY DEF Follows

\* A coroutine that is not idle has an await to come.
LEMMA CoroutineRuns ==
  ASSUME NEW op \in Calls, NEW r \in Coroutine(op)
  PROVE  r.op = op /\ r.rest # <<>> /\ op # "none"
<1>1. op \in Op
  BY CallsAssumption
<1>2. r.op = op /\ r.rest \in Suffix(Script[op])
  BY DEF Coroutine
<1>3. PICK i \in 1..Len(Script[op]) : r.rest = SubSeq(Script[op], i, Len(Script[op]))
  BY <1>2 DEF Suffix
<1>4. r.rest # <<>>
  BY <1>1, <1>3, Suffixes
<1>5. "none" \notin Op
  BY DEF Op, Script
<1> QED
  BY <1>1, <1>2, <1>4, <1>5

LEMMA Moves ==
  ASSUME TypeOK, NEW s \in Slots, NEW w, At(s, w), NEW val, Advances(s, w, val)
  PROVE  /\ \A o, v : In(s, o, v)' <=> run[s].op = o /\ <<o, w, v>> \in Follows
         /\ run'[s].op \in {"none", run[s].op}
         /\ run'[s].op # "none" => run'[s].val = val /\ run'[s].arg = run[s].arg
<1>0. run[s].op \in Calls
  BY AtActive, Active
<1>1. CASE Replaces(s, Idle) /\ \A v : <<run[s].op, w, v>> \notin Follows
  BY <1>1 DEF Replaces, Idle, In, At
<1>2. CASE \E r, v : /\ Replaces(s, r) /\ Successor(s, v, val, r)
                     /\ <<run[s].op, w, v>> \in Follows
  <2>1. PICK r, u : /\ Replaces(s, r) /\ Successor(s, u, val, r)
                    /\ <<run[s].op, w, u>> \in Follows
    BY <1>2
  <2>2. /\ run'[s].op = run[s].op /\ run'[s].arg = run[s].arg /\ run'[s].val = val
        /\ run'[s].rest # <<>> /\ Head(run'[s].rest) = u
    BY <1>0, <2>1, CoroutineRuns DEF Replaces, Successor
  <2>3. \A v : At(s, v)' <=> u = v
    BY <2>2 DEF At
  <2>4. \A v : u = v <=> <<run[s].op, w, v>> \in Follows
    BY <2>1, FollowsOnce
  <2> QED
    BY <2>2, <2>3, <2>4 DEF In
<1> QED
  BY <1>1, <1>2 DEF Advances

\* A coroutine that has ended is nowhere.
LEMMA Ended ==
  ASSUME TypeOK, NEW s \in Slots, Ends(s)
  PROVE  (\A o, v : ~In(s, o, v)') /\ run'[s].op = "none"
BY EndsStep DEF Replaces, Idle, In, At

\* One that begins is at the first await.
LEMMA Begun ==
  ASSUME TypeOK, NEW s \in Slots, Begin(s)
  PROVE  /\ \A o, v : In(s, o, v)' => o \in Op /\ v = First[o]
         /\ run[s] = Idle
<1>1. PICK op \in Calls : \E r :
        Replaces(s, r) /\ r \in Coroutine(op) /\ Head(r.rest) = First[op]
  BY BeginStep
<1>2. PICK r : Replaces(s, r) /\ r \in Coroutine(op) /\ Head(r.rest) = First[op]
  BY <1>1
<1>3. op \in Op
  BY CallsAssumption
<1> QED
  BY <1>2, <1>3, BeginStep, CoroutineRuns DEF In, At, Replaces

\* An idle coroutine is nowhere, and one at an await is nowhere else.
LEMMA Nowhere ==
  ASSUME TypeOK, NEW s \in Slots
  PROVE  /\ run[s].op = "none" => \A o, v : ~In(s, o, v)
         /\ \A o, v, p, u : In(s, o, v) /\ In(s, p, u) => o = p /\ v = u
<1>1. ASSUME run[s].op = "none" PROVE \A v : ~At(s, v)
  BY <1>1, AtActive
<1> QED
  BY <1>1, AtActive DEF In, At

\* From one await to the next.
LEMMA Onward ==
  ASSUME TypeOK, NEW s \in Slots, NEW o, NEW w, NEW v, NEW val,
         In(s, o, w), Advances(s, w, val), <<o, w, v>> \in Follows
  PROVE  /\ \A p, u : In(s, p, u)' <=> p = o /\ u = v
         /\ run'[s].val = val /\ run'[s].arg = run[s].arg
<1>1. At(s, w) /\ run[s].op = o
  BY DEF In
<1>2. \A p, u : In(s, p, u)' <=> o = p /\ <<p, w, u>> \in Follows
  BY <1>1, Moves
<1>3. \A u : <<o, w, u>> \in Follows <=> u = v
  BY FollowsOnce
<1>4. In(s, o, v)'
  BY <1>2
<1>5. o # "none"
  BY <1>1, AtActive
<1>6. run'[s].op = o
  BY <1>4 DEF In
<1> QED
  BY <1>1, <1>2, <1>3, <1>5, <1>6, Moves

-----------------------------------------------------------------------------
(***************************************************************************)
(* Coroutines beside each other.                                           *)
(***************************************************************************)
\* What is kept apart when a request comes in stays apart.
KeptApart == \A s, t \in Slots : s # t => {run[s].op, run[t].op} \notin Apart

\* A step moves one coroutine, within its operation.
LEMMA OthersStay ==
  ASSUME TypeOK, NEW s \in Slots, Step(s)
  PROVE  /\ \A t \in Slots \ {s} : run'[t] = run[t]
         /\ Begin(s) \/ run'[s].op \in {"none", run[s].op}
<1> DEFINE Stay == /\ \A t \in Slots \ {s} : run'[t] = run[t]
                   /\ run'[s].op \in {"none", run[s].op}
<1>0. DOMAIN run = Slots
  BY DEF TypeOK
<1>1. ASSUME NEW val, Continue(s, val) PROVE Stay
  BY <1>0, <1>1 DEF Continue, Idle
<1>2. GoesOn(s) => Stay
  BY <1>1 DEF GoesOn
<1>3. Ends(s) => Stay
  BY <1>0 DEF Ends, Idle
<1>4. SkipsOne(s) => Stay
  <2> SUFFICES ASSUME SkipsOne(s) PROVE Stay
    OBVIOUS
  <2>1. PICK r : r = Tail(Tail(run[s].rest))
    OBVIOUS
  <2>2. run' = [run EXCEPT ![s].rest = r]
    BY <2>1 DEF SkipsOne
  <2>3. run'[s].op = run[s].op
    <3>1. run[s] = Idle \/ \E op \in Calls : run[s] \in Coroutine(op)
      BY DEF TypeOK
    <3> QED
      BY <1>0, <2>2, <3>1 DEF Idle, Coroutine
  <2> QED
    BY <1>0, <2>2, <2>3
<1>5. CASE Begin(s)
  BY <1>0, <1>5 DEF Begin
<1>6. CASE GetPosition(s) \/ GetPnl(s)
  BY <1>1, <1>6 DEF GetPosition, GetPnl
<1>7. CASE GetEquity(s) \/ GetLock(s) \/ ReadMarket(s) \/ HasPosition(s) \/ GetSuccess(s)
  BY <1>2, <1>3, <1>4, <1>7 DEF GetEquity, GetLock, ReadMarket, HasPosition, GetSuccess
<1>8. CASE \/ DeleteSuccess(s) \/ SetPosition(s) \/ RecordPosition(s) \/ SetSuccess(s)
           \/ DeletePending(s) \/ DeletePosition(s)
  BY <1>2, <1>8
  DEF DeleteSuccess, SetPosition, RecordPosition, SetSuccess, DeletePending, DeletePosition
<1>9. CASE \/ SetPnl(s) \/ SetLock(s) \/ DeleteLock(s) \/ ZeroPnl(s) \/ SetEquity(s)
           \/ GetExisting(s)
  BY <1>2, <1>3, <1>9 DEF SetPnl, SetLock, DeleteLock, ZeroPnl, SetEquity, GetExisting
<1>10. CASE Persist(s) \/ Raises(s)
  BY <1>3, <1>10 DEF Persist, Raises
<1> QED
  BY <1>5, <1>6, <1>7, <1>8, <1>9, <1>10 DEF Step

\* A coroutine that has not moved is where it was.
LEMMA Unmoved ==
  ASSUME NEW t, run'[t] = run[t]
  PROVE  /\ \A w : At(t, w)' <=> At(t, w)
         /\ \A o, w : In(t, o, w)' <=> In(t, o, w)
BY DEF In, At

\* No operation is kept apart from none.
LEMMA IdleApart == \A o : {o, "none"} \notin Apart /\ {"none", o} \notin Apart
<1>1. "none" \notin Op
  BY DEF Op, Script
<1> QED
  BY <1>1, ApartAssumption

LEMMA KeptApartInit == Init => KeptApart
<1> SUFFICES ASSUME Init, NEW s \in Slots, NEW t \in Slots
             PROVE  {run[s].op, run[t].op} \notin Apart
  BY DEF KeptApart
<1>1. run[s].op = "none" /\ run[t].op = "none"
  BY DEF Init, Idle
<1> QED
  BY <1>1, IdleApart

LEMMA KeptApartNext == TypeOK /\ KeptApart /\ [Next]_vars => KeptApart'
<1> SUFFICES ASSUME TypeOK, KeptApart, [Next]_vars PROVE KeptApart'
  OBVIOUS
<1>1. ASSUME NEW s \in Slots, Step(s) PROVE KeptApart'
  <2>1. \A t \in Slots \ {s} : run'[t] = run[t]
    BY <1>1, OthersStay
  <2>2. \A t \in Slots \ {s} : {run'[s].op, run'[t].op} \notin Apart
    <3>1. CASE Begin(s)
      <4>1. PICK op \in Calls : /\ \A t \in Slots : {op, run[t].op} \notin Apart
                               /\ run'[s].op = op
        BY <3>1 DEF Begin, TypeOK
      <4> QED
        BY <2>1, <4>1
    <3>2. CASE run'[s].op \in {"none", run[s].op}
      BY <2>1, <3>2, IdleApart DEF KeptApart
    <3> QED
      BY <1>1, <3>1, <3>2, OthersStay
  <2>3. \A t \in Slots \ {s} : {run'[t].op, run'[s].op} \notin Apart
    <3>1. \A a, b : {a, b} = {b, a}
      OBVIOUS
    <3> QED
      BY <2>2, <3>1
  <2> QED
    BY <2>1, <2>2, <2>3 DEF KeptApart
<1>2. CASE Dies
  BY <1>2, IdleApart DEF Dies, KeptApart, Idle
<1>3. CASE StateExpires \/ UNCHANGED vars
  BY <1>3 DEF StateExpires, vars, KeptApart
<1> QED
  BY <1>1, <1>2, <1>3 DEF Next

\* The operations that write the position or the daily sum.
LedgerOps == {"close", "status", "opened", "reset", "initialize"}

\* What an operation leaves alone.
LEMMA Harmless ==
  ASSUME TypeOK, NEW s \in Slots, Step(s)
  PROVE  /\ run[s].op \notin LedgerOps => UNCHANGED <<position, dailyPnl, realized>>
         /\ run[s].op \notin RiskOps => UNCHANGED riskVars
         /\ run[s].op # "manage" =>
              \/ credit' = credit /\ (success' => success)
              \/ credit' = credit + 1
<1> USE DEF keyVars, riskVars, history
<1>1. ASSUME NEW w, At(s, w), w \in {"set_position", "record_position", "delete_position",
                                    "set_pnl", "zero_pnl"}
      PROVE  run[s].op \in LedgerOps
  BY <1>1, AtActive DEF HasAwait, LedgerOps
<1>2. ASSUME NEW w, At(s, w), w \in {"set_pnl", "zero_pnl", "set_lock", "delete_lock",
                                    "set_equity"}
      PROVE  run[s].op \in RiskOps
  BY <1>2, AtActive DEF HasAwait, RiskOps
<1>3. CASE Begin(s) \/ GetLock(s) \/ ReadMarket(s) \/ HasPosition(s) \/ GetSuccess(s)
  BY <1>3 DEF Begin, GetLock, ReadMarket, HasPosition, GetSuccess
<1>4. CASE DeletePending(s) \/ GetPosition(s) \/ GetPnl(s) \/ GetEquity(s)
           \/ GetExisting(s) \/ Raises(s)
  BY <1>4 DEF DeletePending, GetPosition, GetPnl, GetEquity, GetExisting, Raises
<1>5. CASE DeleteSuccess(s) \/ Persist(s) \/ SetSuccess(s)
  BY <1>5 DEF DeleteSuccess, Persist, SetSuccess
<1>6. CASE SetPosition(s) \/ RecordPosition(s) \/ DeletePosition(s)
  BY <1>1, <1>6 DEF SetPosition, RecordPosition, DeletePosition
<1>7. CASE SetPnl(s) \/ ZeroPnl(s)
  BY <1>1, <1>2, <1>7 DEF SetPnl, ZeroPnl
<1>8. CASE SetLock(s) \/ DeleteLock(s) \/ SetEquity(s)
  BY <1>2, <1>8 DEF SetLock, DeleteLock, SetEquity
<1> QED
  BY <1>3, <1>4, <1>5, <1>6, <1>7, <1>8 DEF Step

-----------------------------------------------------------------------------
(***************************************************************************)
(* The ledger.  Between the SET of the daily sum and the removal of the    *)
(* position its profit is in the sum and not yet in realized.              *)
(***************************************************************************)
Holding(s) ==
  \/ In(s, "close", "get_equity") \/ In(s, "close", "set_lock")
  \/ In(s, "close", "delete_position")

\* The local value of a booking agrees with the keys it was computed from.
ValuesFit(s) ==
  /\ In(s, "close", "get_pnl") => run[s].val = position.profit
  /\ In(s, "close", "set_pnl") => run[s].val = dailyPnl + position.profit
  /\ In(s, "close", "get_equity") => run[s].val = dailyPnl

\* What the history has more than the daily sum, leaving out what is on its way.
Surplus(s) == realized + (IF Holding(s) THEN position.profit ELSE 0) - dailyPnl

LEMMA ValuesStep ==
  ASSUME TypeOK, NEW s \in Slots, ValuesFit(s), Step(s)
  PROVE  ValuesFit(s)'
<1> DEFINE Booking == {"get_pnl", "set_pnl", "get_equity"}
<1>0. ASSUME \A v \in Booking : ~In(s, "close", v)'
      PROVE  ValuesFit(s)'
  BY <1>0 DEF ValuesFit
<1>1. ASSUME NEW w, At(s, w), GoesOn(s), w \notin {"get_position", "get_pnl", "set_pnl"}
      PROVE  ValuesFit(s)'
  <2>1. Advances(s, w, run[s].val)
    BY <1>1, GoesOnStep
  <2>2. \A v : In(s, "close", v)' => <<"close", w, v>> \in Follows
    BY <1>1, <2>1, Moves
  <2>3. \A v \in Booking : <<"close", w, v>> \notin Follows
    BY <1>1, Predecessors
  <2> QED
    BY <1>0, <2>2, <2>3
<1>2. CASE Ends(s)
  BY <1>0, <1>2, Ended
<1>3. CASE Begin(s)
  BY <1>0, <1>3, Begun DEF First
<1>4. CASE GetPosition(s)
  <2>1. At(s, "get_position") /\ Continue(s, position.profit) /\ position' = position
    BY <1>4 DEF GetPosition, keyVars
  <2>2. Advances(s, "get_position", position.profit)
    BY <2>1, ContinueStep, Positions DEF TypeOK
  <2>3. In(s, "close", "get_position")
    BY <2>1, AtActive DEF In, HasAwait
  <2>4. <<"close", "get_position", "get_pnl">> \in Follows
    BY DEF Follows
  <2>5. \A v : In(s, "close", v)' => v = "get_pnl" /\ run'[s].val = position.profit
    BY <2>2, <2>3, <2>4, Onward
  <2> QED
    BY <2>1, <2>5 DEF ValuesFit
<1>5. CASE GetPnl(s)
  <2>1. /\ At(s, "get_pnl") /\ Continue(s, dailyPnl + run[s].val)
        /\ position' = position /\ dailyPnl' = dailyPnl
    BY <1>5 DEF GetPnl, keyVars, riskVars
  <2>2. Advances(s, "get_pnl", dailyPnl + run[s].val)
    BY <2>1, ContinueStep, Args DEF TypeOK
  <2>3. In(s, "close", "get_pnl")
    BY <2>1, AtActive DEF In, HasAwait
  <2>4. <<"close", "get_pnl", "set_pnl">> \in Follows
    BY DEF Follows
  <2>5. \A v : In(s, "close", v)' => v = "set_pnl" /\ run'[s].val = dailyPnl + run[s].val
    BY <2>2, <2>3, <2>4, Onward
  <2> QED
    BY <2>1, <2>3, <2>5 DEF ValuesFit
<1>6. CASE SetPnl(s)
  <2>1. At(s, "set_pnl") /\ dailyPnl' = run[s].val
    BY <1>6 DEF SetPnl
  <2>2. Advances(s, "set_pnl", run[s].val)
    BY <1>6, <2>1, GoesOnStep DEF SetPnl
  <2>3. In(s, "close", "set_pnl")
    BY <2>1, AtActive DEF In, HasAwait
  <2>4. <<"close", "set_pnl", "get_equity">> \in Follows
    BY DEF Follows
  <2>5. \A v : In(s, "close", v)' => v = "get_equity" /\ run'[s].val = run[s].val
    BY <2>2, <2>3, <2>4, Onward
  <2> QED
    BY <2>1, <2>5 DEF ValuesFit
<1>7. CASE GetEquity(s)
  <2>1. At(s, "get_equity")
    BY <1>7 DEF GetEquity
  <2>2. CASE SkipsOne(s)
    <3>1. PICK r : Replaces(s, r) /\ Successor(s, "delete_position", run[s].val, r)
      BY <2>1, <2>2, SkipsStep
    <3> QED
      BY <1>0, <3>1 DEF Replaces, Successor, In, At
  <2> QED
    BY <1>1, <1>7, <2>1, <2>2 DEF GetEquity
<1>8. CASE GetLock(s) \/ ReadMarket(s) \/ HasPosition(s) \/ GetSuccess(s) \/ DeleteSuccess(s)
  BY <1>1, <1>2, <1>8 DEF GetLock, ReadMarket, HasPosition, GetSuccess, DeleteSuccess
<1>9. CASE \/ SetPosition(s) \/ RecordPosition(s) \/ SetSuccess(s) \/ DeletePending(s)
           \/ DeletePosition(s)
  BY <1>1, <1>9 DEF SetPosition, RecordPosition, SetSuccess, DeletePending, DeletePosition
<1>10. CASE \/ SetLock(s) \/ DeleteLock(s) \/ ZeroPnl(s) \/ SetEquity(s) \/ GetExisting(s)
  BY <1>1, <1>2, <1>10 DEF SetLock, DeleteLock, ZeroPnl, SetEquity, GetExisting
<1>11. CASE Persist(s) \/ Raises(s)
  BY <1>2, <1>11 DEF Persist, Raises
<1> QED
  BY <1>3, <1>4, <1>5, <1>6, <1>7, <1>8, <1>9, <1>10, <1>11 DEF Step

\* The awaits at which a profit is on its way, and those that lead there.
LEMMA HoldsOn ==
  ASSUME TypeOK, NEW s \in Slots, NEW w, At(s, w)
  PROVE  /\ Holding(s) <=> w \in {"get_equity", "set_lock", "delete_position"}
         /\ \A val : Advances(s, w, val) =>
              (Holding(s)' <=> w \in {"set_pnl", "get_equity", "set_lock"})
<1>0. <<run[s].op, w>> \in HasAwait
  BY AtActive
<1>1. w \in {"set_pnl", "get_equity", "set_lock", "delete_position"} => run[s].op = "close"
  BY <1>0 DEF HasAwait
<1>2. In(s, run[s].op, w)
  BY DEF In
<1>3. Holding(s) <=> w \in {"get_equity", "set_lock", "delete_position"}
  BY <1>1, <1>2, Nowhere DEF Holding
<1>4. ASSUME NEW val, Advances(s, w, val)
      PROVE  Holding(s)' <=> w \in {"set_pnl", "get_equity", "set_lock"}
  <2>1. \A v : In(s, "close", v)' <=> run[s].op = "close" /\ <<"close", w, v>> \in Follows
    BY <1>4, Moves
  <2>2. Holding(s)' <=> \/ In(s, "close", "get_equity")' \/ In(s, "close", "set_lock")'
                        \/ In(s, "close", "delete_position")'
    BY DEF Holding
  <2>3. /\ <<"close", w, "get_equity">> \in Follows <=> w = "set_pnl"
        /\ <<"close", w, "set_lock">> \in Follows <=> w = "get_equity"
        /\ <<"close", w, "delete_position">> \in Follows <=> w = "set_lock"
    BY Predecessors
  <2>4. Holding(s)' <=> run[s].op = "close" /\ w \in {"set_pnl", "get_equity", "set_lock"}
    BY <2>1, <2>2, <2>3
  <2> QED
    BY <1>1, <2>4
<1> QED
  BY <1>3, <1>4

\* One coroutine at a time keeps the surplus, but for a command that raises
\* when a profit is on its way.
LEMMA SurplusStep ==
  ASSUME TypeOK, NEW s \in Slots, ValuesFit(s), Step(s)
  PROVE  \/ Surplus(s)' = Surplus(s)
         \/ Surplus(s)' = 0
         \/ Failing /\ Surplus(s)' = Surplus(s) - position.profit
<1> USE DEF Surplus
<1>0. /\ realized \in Int /\ dailyPnl \in Int
      /\ position.profit \in Int
  BY Positions DEF TypeOK
<1> DEFINE Same == realized' = realized /\ dailyPnl' = dailyPnl
<1>1. ASSUME NEW w, At(s, w), GoesOn(s), Same, w # "set_pnl",
             w # "delete_position", position' = position
      PROVE  Surplus(s)' = Surplus(s)
  BY <1>1, GoesOnStep, HoldsOn
<1>2. ASSUME NEW w, At(s, w), GoesOn(s), Same,
             w \in {"set_position", "record_position"}
      PROVE  Surplus(s)' = Surplus(s)
  BY <1>0, <1>2, GoesOnStep, HoldsOn
<1>3. ASSUME NEW w, At(s, w), Ends(s), Same, 
             w \notin {"get_equity", "set_lock", "delete_position"}
      PROVE  Surplus(s)' = Surplus(s)
  BY <1>0, <1>3, Ended, HoldsOn DEF Holding
<1>4. CASE Raises(s)
  <2>1. Same /\ ~Holding(s)' /\ Failing
    BY <1>4, Ended DEF Raises, Holding, keyVars, riskVars, history
  <2> QED
    BY <1>0, <2>1
<1>5. CASE Begin(s)
  <2>1. ~Holding(s)'
    BY <1>5, Begun DEF First, Holding
  <2>2. ~Holding(s)
    BY <1>5, Begun, Nowhere DEF Idle, Holding
  <2> QED
    BY <1>0, <1>5, <2>1, <2>2 DEF Begin, keyVars, riskVars, history
<1>6. CASE GetPosition(s)
  <2>1. Advances(s, "get_position", position.profit) /\ At(s, "get_position") /\ Same
    BY <1>0, <1>6, ContinueStep DEF GetPosition, keyVars, riskVars, history
  <2> QED
    BY <1>0, <2>1, HoldsOn
<1>7. CASE GetPnl(s)
  <2>1. Advances(s, "get_pnl", dailyPnl + run[s].val) /\ At(s, "get_pnl") /\ Same
    BY <1>0, <1>7, Args, ContinueStep DEF GetPnl, keyVars, riskVars, history
  <2> QED
    BY <1>0, <2>1, HoldsOn
<1>8. CASE SetPnl(s)
  <2>1. /\ At(s, "set_pnl") /\ Advances(s, "set_pnl", run[s].val)
        /\ dailyPnl' = run[s].val /\ realized' = realized /\ position' = position
    BY <1>8, GoesOnStep DEF SetPnl, history
  <2>2. In(s, "close", "set_pnl")
    BY <2>1, AtActive DEF In, HasAwait
  <2>3. run[s].val = dailyPnl + position.profit
    BY <2>2 DEF ValuesFit
  <2>4. ~Holding(s) /\ Holding(s)'
    BY <2>1, HoldsOn
  <2> QED
    BY <1>0, <2>1, <2>3, <2>4
<1>9. CASE GetEquity(s)
  <2>1. At(s, "get_equity") /\ Same /\ position' = position
    BY <1>9 DEF GetEquity, keyVars, riskVars, history
  <2>2. CASE SkipsOne(s)
    <3>1. PICK r : Replaces(s, r) /\ Successor(s, "delete_position", run[s].val, r)
      BY <2>1, <2>2, SkipsStep
    <3>2. In(s, "close", "delete_position")'
      BY <2>1, <2>2, <3>1, SkipsStep, CoroutineRuns, AtActive, Active
      DEF Replaces, Successor, In, At
    <3>3. Holding(s) /\ Holding(s)'
      BY <2>1, <3>2, HoldsOn DEF Holding
    <3> QED
      BY <2>1, <3>3
  <2> QED
    BY <1>1, <1>9, <2>1, <2>2 DEF GetEquity
<1>10. CASE DeletePosition(s)
  <2>1. /\ At(s, "delete_position") /\ Advances(s, "delete_position", run[s].val)
        /\ realized' = realized + position.profit /\ dailyPnl' = dailyPnl
    BY <1>10, GoesOnStep DEF DeletePosition, riskVars
  <2> QED
    BY <1>0, <2>1, HoldsOn
<1>11. CASE ZeroPnl(s)
  <2>1. /\ At(s, "zero_pnl") /\ Advances(s, "zero_pnl", run[s].val)
        /\ realized' = 0 /\ dailyPnl' = 0
    BY <1>11, GoesOnStep DEF ZeroPnl
  <2> QED
    BY <2>1, HoldsOn
<1>12. CASE SetPosition(s) \/ RecordPosition(s)
  BY <1>2, <1>12 DEF SetPosition, RecordPosition, riskVars, history
<1>13. CASE GetLock(s) \/ ReadMarket(s) \/ HasPosition(s) \/ GetSuccess(s) \/ DeleteSuccess(s)
  BY <1>1, <1>3, <1>13
  DEF GetLock, ReadMarket, HasPosition, GetSuccess, DeleteSuccess, keyVars, riskVars, history
<1>14. CASE SetSuccess(s) \/ DeletePending(s) \/ Persist(s)
  BY <1>1, <1>3, <1>14
  DEF SetSuccess, DeletePending, Persist, keyVars, riskVars, history
<1>15. CASE SetLock(s) \/ DeleteLock(s) \/ SetEquity(s) \/ GetExisting(s)
  BY <1>1, <1>3, <1>15
  DEF SetLock, DeleteLock, SetEquity, GetExisting, keyVars, riskVars, history
<1> QED
  BY <1>4, <1>5, <1>6, <1>7, <1>8, <1>9, <1>10, <1>11, <1>12, <1>13, <1>14, <1>15 DEF Step

Fits == \A s \in Slots : ValuesFit(s)

\* While a position is being closed no other coroutine writes the ledger.
LEMMA CloseAlone ==
  ASSUME ClosesApart \subseteq Apart, KeptApart, NEW s \in Slots, NEW t \in Slots, s # t,
         run[s].op = "close"
  PROVE  run[t].op \notin LedgerOps
<1>1. {"close", run[t].op} \notin ClosesApart
  BY DEF KeptApart
<1> QED
  BY <1>1 DEF ClosesApart, LedgerOps

LEMMA FitsNext ==
  ASSUME ClosesApart \subseteq Apart, TypeOK, KeptApart, Fits, [Next]_vars
  PROVE  Fits'
<1> SUFFICES ASSUME NEW t \in Slots PROVE ValuesFit(t)'
  BY DEF Fits
<1>1. ASSUME NEW s \in Slots, Step(s), s # t PROVE ValuesFit(t)'
  <2>1. \A w : In(t, "close", w)' <=> In(t, "close", w)
    BY <1>1, OthersStay, Unmoved
  <2>2. run'[t] = run[t]
    BY <1>1, OthersStay
  <2>3. CASE run[t].op # "close"
    BY <2>1, <2>3 DEF ValuesFit, In
  <2>4. CASE run[t].op = "close"
    <3>1. position' = position /\ dailyPnl' = dailyPnl
      BY <1>1, <2>4, CloseAlone, Harmless
    <3> QED
      BY <2>1, <2>2, <3>1 DEF Fits, ValuesFit
  <2> QED
    BY <2>3, <2>4
<1>2. CASE \E s \in Slots : Step(s)
  BY <1>1, <1>2, ValuesStep DEF Fits
<1>3. CASE Dies
  BY <1>3 DEF Dies, Idle, ValuesFit, In, At
<1>4. CASE StateExpires \/ UNCHANGED vars
  BY <1>4 DEF StateExpires, vars, keyVars, riskVars, history, Fits, ValuesFit, In, At
<1> QED
  BY <1>2, <1>3, <1>4 DEF Next

\* No profit is on its way but that of s.
OnlyHolder(s) == \A t \in Slots \ {s} : ~Holding(t)

LEMMA LedgerInit == Init => TypeOK /\ KeptApart /\ Fits /\ \A s \in Slots : Surplus(s) = 0
<1> SUFFICES ASSUME Init
             PROVE  TypeOK /\ KeptApart /\ Fits /\ \A s \in Slots : Surplus(s) = 0
  OBVIOUS
<1>1. \A s \in Slots : Surplus(s) = 0 /\ ValuesFit(s)
  BY DEF Init, ValuesFit, Surplus, Holding, In, At, Idle
<1> QED
  BY <1>1, InitTypeOK, KeptApartInit DEF Fits

LEMMA HoldersClose ==
  ASSUME ClosesApart \subseteq Apart, KeptApart, NEW s \in Slots, Holding(s)
  PROVE  run[s].op = "close" /\ OnlyHolder(s)
<1>1. \A t \in Slots : Holding(t) => run[t].op = "close" /\ run[t].op \in LedgerOps
  BY DEF Holding, In, LedgerOps
<1> QED
  BY <1>1, CloseAlone DEF OnlyHolder

\* The surplus after a step comes from the one before it.
Follow(s, t) ==
  \/ Surplus(s)' = Surplus(t)
  \/ Surplus(s)' = 0
  \/ Failing /\ Surplus(s)' = Surplus(t) - position.profit

LEMMA SurplusNext ==
  ASSUME ClosesApart \subseteq Apart, TypeOK, KeptApart, Fits, [Next]_vars,
         NEW s \in Slots, OnlyHolder(s)'
  PROVE  \E t \in Slots : OnlyHolder(t) /\ Follow(s, t)
<1>0. realized \in Int /\ dailyPnl \in Int /\ position.profit \in Int
  BY Positions DEF TypeOK
<1>1. ASSUME NEW u \in Slots, Step(u) PROVE \E t \in Slots : OnlyHolder(t) /\ Follow(s, t)
  <2>1. \A t \in Slots \ {u} : Holding(t)' <=> Holding(t)
    BY <1>1, OthersStay, Unmoved DEF Holding
  <2>2. CASE u = s
    <3>1. OnlyHolder(s)
      BY <2>1, <2>2 DEF OnlyHolder
    <3>2. Follow(s, s)
      BY <1>1, <2>2, SurplusStep DEF Fits, Follow
    <3> QED
      BY <3>1, <3>2
  <2>3. CASE u # s /\ Holding(s)
    <3>1. run[s].op = "close" /\ OnlyHolder(s)
      BY <2>3, HoldersClose
    <3>2. UNCHANGED <<position, dailyPnl, realized>>
      BY <1>1, <2>3, <3>1, CloseAlone, Harmless
    <3>3. Follow(s, s)
      BY <2>1, <2>3, <3>2 DEF Surplus, Follow
    <3> QED
      BY <3>1, <3>3
  <2>4. CASE u # s /\ ~Holding(s)
    <3>1. OnlyHolder(u)
      BY <2>1, <2>4 DEF OnlyHolder
    <3>2. ~Holding(s)' /\ ~Holding(u)'
      BY <2>1, <2>4 DEF OnlyHolder
    <3>3. Surplus(s)' = Surplus(u)'
      BY <3>2 DEF Surplus
    <3>4. Follow(s, u)
      BY <1>1, <3>3, SurplusStep DEF Fits, Follow
    <3> QED
      BY <3>1, <3>4
  <2> QED
    BY <2>2, <2>3, <2>4
<1>2. CASE Dies
  <2>1. ~Holding(s)' /\ Failing /\ realized' = realized /\ dailyPnl' = dailyPnl
    BY <1>2 DEF Dies, Idle, Holding, In, At, keyVars, riskVars, history
  <2>2. CASE \A t \in Slots : ~Holding(t)
    BY <2>1, <2>2 DEF OnlyHolder, Follow, Surplus
  <2>3. CASE \E t \in Slots : Holding(t)
    <3>1. PICK t \in Slots : Holding(t)
      BY <2>3
    <3>2. OnlyHolder(t)
      BY <3>1, HoldersClose
    <3>3. Surplus(s)' = Surplus(t) - position.profit
      BY <1>0, <2>1, <3>1 DEF Surplus
    <3> QED
      BY <2>1, <3>2, <3>3 DEF Follow
  <2> QED
    BY <2>2, <2>3
<1>3. CASE StateExpires \/ UNCHANGED vars
  <2>1. UNCHANGED <<realized, dailyPnl, position, run>>
    BY <1>3 DEF StateExpires, vars, keyVars, riskVars, history
  <2>2. OnlyHolder(s) /\ Surplus(s)' = Surplus(s)
    BY <2>1 DEF OnlyHolder, Surplus, Holding, In, At
  <2> QED
    BY <2>2 DEF Follow
<1> QED
  BY <1>1, <1>2, <1>3 DEF Next

\* At rest nothing is on its way.
LEMMA SurplusAtRest ==
  ASSUME TypeOK, NEW s \in Slots, AtRest
  PROVE  OnlyHolder(s) /\ Surplus(s) = realized - dailyPnl
<1>1. \A t \in Slots : ~Holding(t)
  BY Nowhere DEF AtRest, Holding
<1> QED
  BY <1>1 DEF Surplus, OnlyHolder, TypeOK

\* Every position that is closed is in the daily sum exactly once, for any number of
\* requests beside each other, if nothing else writes the position or the sum while
\* one is being closed and no Redis command raises.
THEOREM ClosesAreBookedOnce ==
  ASSUME ClosesApart \subseteq Apart, ~Failing
  PROVE  Spec => []EachCloseBookedOnce
<1> DEFINE Balanced == \A s \in Slots : OnlyHolder(s) => Surplus(s) = 0
           Inv == TypeOK /\ KeptApart /\ Fits /\ Balanced
<1>1. Init => Inv
  BY LedgerInit
<1>2. Inv /\ [Next]_vars => Inv'
  <2> SUFFICES ASSUME Inv, [Next]_vars PROVE Inv'
    OBVIOUS
  <2>1. ASSUME NEW s \in Slots, OnlyHolder(s)' PROVE Surplus(s)' = 0
    <3>1. PICK t \in Slots : OnlyHolder(t) /\ Follow(s, t)
      BY <2>1, SurplusNext
    <3> QED
      BY <3>1 DEF Follow
  <2> QED
    BY <2>1, NextTypeOK, KeptApartNext, FitsNext
<1>3. Inv => EachCloseBookedOnce
  <2> SUFFICES ASSUME Inv, AtRest PROVE dailyPnl = realized
    BY DEF EachCloseBookedOnce
  <2>1. PICK s \in Slots : TRUE
    BY SlotsAssumption
  <2> QED
    BY <2>1, SurplusAtRest DEF TypeOK
<1> QED
  BY <1>1, <1>2, <1>3, PTL DEF Spec

\* No loss is missing in the daily sum, although a command may raise and the
\* process may die between any two of them: a close that is asked for again books
\* the loss again.  Stated for losses, of which one more can only make the sum less,
\* and with the same operations apart.
THEOREM LossesAreBooked ==
  ASSUME ClosesApart \subseteq Apart, \A p \in Profits : p <= 0
  PROVE  Spec => []NoLossForgotten
<1> DEFINE Covered == \A s \in Slots : OnlyHolder(s) => Surplus(s) >= 0
           Inv == TypeOK /\ KeptApart /\ Fits /\ Covered
<1>1. Init => Inv
  BY LedgerInit
<1>2. Inv /\ [Next]_vars => Inv'
  <2> SUFFICES ASSUME Inv, [Next]_vars PROVE Inv'
    OBVIOUS
  <2>1. position.profit \in Int /\ position.profit <= 0
    <3>1. position \in Position
      BY DEF TypeOK
    <3> QED
      BY <3>1, Positions
  <2>2. ASSUME NEW s \in Slots, OnlyHolder(s)' PROVE Surplus(s)' >= 0
    <3>1. PICK t \in Slots : OnlyHolder(t) /\ Follow(s, t)
      BY <2>2, SurplusNext
    <3>2. Surplus(t) \in Int /\ Surplus(t) >= 0
      BY <2>1, <3>1 DEF Surplus, TypeOK
    <3> QED
      BY <2>1, <3>1, <3>2 DEF Follow
  <2> QED
    BY <2>2, NextTypeOK, KeptApartNext, FitsNext
<1>3. Inv => NoLossForgotten
  <2> SUFFICES ASSUME Inv, AtRest PROVE dailyPnl <= realized
    BY DEF NoLossForgotten
  <2>1. PICK s \in Slots : TRUE
    BY SlotsAssumption
  <2> QED
    BY <2>1, SurplusAtRest DEF TypeOK
<1> QED
  BY <1>1, <1>2, <1>3, PTL DEF Spec

-----------------------------------------------------------------------------
(***************************************************************************)
(* The fills.  The flag is a fill that no management has taken, and a      *)
(* management that is about to persist has taken one.                      *)
(***************************************************************************)
Taken(s) == In(s, "manage", "persist")

FillsFit(s) ==
  /\ success => credit >= 1
  /\ Taken(s) => credit >= 1
  /\ success /\ Taken(s) => credit >= 2
  /\ credit >= 0
  /\ In(s, "manage", "delete_success") => credit >= 1

\* What the two awaits of a management follow.
LEMMA Managing ==
  ASSUME TypeOK, NEW s \in Slots, NEW w, At(s, w), GoesOn(s)
  PROVE  /\ Taken(s)' <=> run[s].op = "manage" /\ w = "delete_success"
         /\ In(s, "manage", "delete_success")' <=> w = "get_success"
         /\ Taken(s) <=> run[s].op = "manage" /\ w = "persist"
<1>1. Advances(s, w, run[s].val)
  BY GoesOnStep
<1>2. \A v : In(s, "manage", v)' <=> run[s].op = "manage" /\ <<"manage", w, v>> \in Follows
  BY <1>1, Moves
<1>3. w = "get_success" => run[s].op = "manage"
  BY AtActive DEF HasAwait
<1>4. In(s, run[s].op, w)
  BY DEF In
<1>5. Taken(s) <=> run[s].op = "manage" /\ w = "persist"
  BY <1>4, Nowhere DEF Taken
<1>6. In(s, "manage", "delete_success")' <=> w = "get_success"
  BY <1>2, <1>3, Predecessors
<1>7. Taken(s)' <=> run[s].op = "manage" /\ w = "delete_success"
  <2>1. Taken(s)' <=> In(s, "manage", "persist")'
    BY DEF Taken
  <2> QED
    BY <2>1, <1>2, Predecessors
<1> QED
  BY <1>5, <1>6, <1>7

LEMMA FillsStep ==
  ASSUME TypeOK, NEW s \in Slots, FillsFit(s), Step(s)
  PROVE  FillsFit(s)'
<1> USE DEF FillsFit
<1>0. credit \in Int
  BY DEF TypeOK
<1> DEFINE Away == ~Taken(s)' /\ ~In(s, "manage", "delete_success")'
           Same == credit' = credit /\ success' = success
<1>1. ASSUME Away, Same PROVE FillsFit(s)'
  BY <1>1
<1>2. ASSUME NEW w, At(s, w), GoesOn(s), w \notin {"get_success", "delete_success"}
      PROVE  Away
  BY <1>2, Managing
<1>3. ASSUME Ends(s) PROVE Away
  BY <1>3, Ended DEF Taken
<1>4. CASE Begin(s)
  <2>1. Same
    BY <1>4 DEF Begin, keyVars, history
  <2>2. Away
    BY <1>4, Begun DEF First, Taken
  <2> QED
    BY <1>1, <2>1, <2>2
<1>5. CASE GetSuccess(s)
  <2>1. Same /\ At(s, "get_success")
    BY <1>5 DEF GetSuccess, keyVars, history
  <2>2. CASE success /\ GoesOn(s)
    BY <2>1, <2>2, Managing
  <2> QED
    BY <1>1, <1>3, <1>5, <2>1, <2>2 DEF GetSuccess
<1>6. CASE DeleteSuccess(s)
  <2>1. At(s, "delete_success") /\ GoesOn(s) /\ success' = FALSE /\ credit' = credit
    BY <1>6 DEF DeleteSuccess, history
  <2>2. ~In(s, "manage", "delete_success")'
    BY <2>1, Managing
  <2>3. Taken(s)' => In(s, "manage", "delete_success")
    BY <2>1, Managing DEF In
  <2> QED
    BY <2>1, <2>2, <2>3
<1>7. CASE Persist(s)
  <2>1. /\ At(s, "persist") /\ Ends(s) /\ success' = success
        /\ credit' = IF run[s].op = "manage" THEN credit - 1 ELSE credit
    BY <1>7 DEF Persist
  <2>2. Away
    BY <1>3, <2>1
  <2>3. Taken(s) <=> run[s].op = "manage"
    BY <2>1 DEF Taken, In
  <2> QED
    BY <1>0, <2>1, <2>2, <2>3
<1>8. CASE SetSuccess(s)
  <2>1. At(s, "set_success") /\ GoesOn(s) /\ success' = TRUE /\ credit' = credit + 1
    BY <1>8 DEF SetSuccess
  <2>2. Away
    BY <1>2, <2>1
  <2> QED
    BY <1>0, <2>1, <2>2
<1>9. CASE GetPosition(s) \/ GetPnl(s)
  <2>1. Same
    BY <1>9 DEF GetPosition, GetPnl, keyVars, history
  <2>2. PICK w \in {"get_position", "get_pnl"}, val \in Int : At(s, w) /\ Continue(s, val)
    BY <1>9, Positions, Args DEF GetPosition, GetPnl, TypeOK
  <2>3. Advances(s, w, val) /\ run[s].op = "close"
    BY <2>2, ContinueStep, AtActive DEF HasAwait
  <2>4. Away
    BY <2>2, <2>3, Moves DEF Taken
  <2> QED
    BY <1>1, <2>1, <2>4
<1>10. CASE GetEquity(s)
  <2>1. Same /\ At(s, "get_equity")
    BY <1>10 DEF GetEquity, keyVars, history
  <2>2. CASE SkipsOne(s)
    <3>1. run[s].op = "close"
      BY <2>1, <2>2, SkipsStep
    <3>2. PICK r : Replaces(s, r) /\ Successor(s, "delete_position", run[s].val, r)
      BY <2>1, <2>2, SkipsStep
    <3>3. run'[s].op = "close"
      BY <3>1, <3>2 DEF Replaces, Successor
    <3> QED
      BY <1>1, <2>1, <3>3 DEF Taken, In
  <2> QED
    BY <1>1, <1>2, <1>10, <2>1, <2>2 DEF GetEquity
<1>11. CASE GetLock(s) \/ ReadMarket(s) \/ HasPosition(s) \/ GetExisting(s) \/ Raises(s)
  BY <1>1, <1>2, <1>3, <1>11
  DEF GetLock, ReadMarket, HasPosition, GetExisting, Raises, keyVars, history
<1>12. CASE SetPosition(s) \/ RecordPosition(s) \/ DeletePending(s) \/ DeletePosition(s)
  BY <1>1, <1>2, <1>12
  DEF SetPosition, RecordPosition, DeletePending, DeletePosition, keyVars, history
<1>13. CASE SetPnl(s) \/ SetLock(s) \/ DeleteLock(s) \/ ZeroPnl(s) \/ SetEquity(s)
  BY <1>1, <1>2, <1>13 DEF SetPnl, SetLock, DeleteLock, ZeroPnl, SetEquity, history
<1> QED
  BY <1>4, <1>5, <1>6, <1>7, <1>8, <1>9, <1>10, <1>11, <1>12, <1>13 DEF Step

\* Two managements do not overlap; what a coroutine that is none of them does to the
\* flag and the fills suits one that is.
LEMMA FillsBeside ==
  ASSUME ManagesApart \subseteq Apart, TypeOK, KeptApart, NEW s \in Slots, NEW t \in Slots,
         s # t, Step(s), FillsFit(s), FillsFit(t)
  PROVE  FillsFit(t)'
<1>0. credit \in Int
  BY DEF TypeOK
<1>1. /\ Taken(t)' <=> Taken(t)
      /\ In(t, "manage", "delete_success")' <=> In(t, "manage", "delete_success")
  BY OthersStay, Unmoved DEF Taken
<1>2. CASE run[s].op = "manage"
  <2>1. run[t].op # "manage"
    BY <1>2 DEF KeptApart, ManagesApart
  <2>2. FillsFit(s)'
    BY FillsStep
  <2> QED
    BY <1>1, <2>1, <2>2 DEF FillsFit, Taken, In
<1>3. CASE run[s].op # "manage"
  <2>1. \/ credit' = credit /\ (success' => success)
        \/ credit' = credit + 1
    BY <1>3, Harmless
  <2> QED
    BY <1>0, <1>1, <2>1 DEF FillsFit
<1> QED
  BY <1>2, <1>3

\* Every approval of MANAGE_POSITION takes a fill of its own, whatever other requests
\* run beside it, as long as it is not another management: neither a command that raises
\* nor a process that dies between the read of the flag and its removal lets a
\* fill count twice.
THEOREM FillsManageOnce ==
  ASSUME ManagesApart \subseteq Apart
  PROVE  Spec => []EachFillManagesOnce
<1> DEFINE Fill == \A s \in Slots : FillsFit(s)
           Inv == TypeOK /\ KeptApart /\ Fill
<1>1. Init => Inv
  BY InitTypeOK, KeptApartInit DEF Init, FillsFit, Taken, In, At, Idle
<1>2. Inv /\ [Next]_vars => Inv'
  <2> SUFFICES ASSUME Inv, [Next]_vars, NEW t \in Slots PROVE FillsFit(t)'
    BY NextTypeOK, KeptApartNext
  <2>1. CASE \E s \in Slots : Step(s)
    BY <2>1, FillsStep, FillsBeside
  <2>2. CASE Dies
    BY <2>2 DEF Dies, FillsFit, Taken, In, At, Idle, keyVars, history
  <2>3. CASE StateExpires \/ UNCHANGED vars
    BY <2>3 DEF StateExpires, vars, keyVars, history, FillsFit, Taken, In, At
  <2> QED
    BY <2>1, <2>2, <2>3 DEF Next
<1>3. Inv => EachFillManagesOnce
  BY SlotsAssumption DEF EachFillManagesOnce, FillsFit
<1> QED
  BY <1>1, <1>2, <1>3, PTL DEF Spec

-----------------------------------------------------------------------------
(***************************************************************************)
(* The risk engine.                                                        *)
(***************************************************************************)
\* The new day has begun and its keys are not all written.
Halfway(s) == In(s, "reset", "zero_pnl") \/ In(s, "reset", "set_equity")

\* The same for the first start.
Starting(s) == In(s, "initialize", "zero_pnl")

\* The lock is decided on and not yet set.
Locks(s) ==
  \/ At(s, "get_equity") /\ LimitReached(run[s].val, startingEquity)
  \/ At(s, "set_lock")

\* Without a failure the step of s is the one of its await.
LEMMA StepAt ==
  ASSUME TypeOK, NEW s \in Slots, ~Failing, Step(s)
  PROVE  /\ At(s, "set_pnl") => SetPnl(s)
         /\ At(s, "get_equity") => GetEquity(s)
         /\ At(s, "set_lock") => SetLock(s)
         /\ At(s, "delete_lock") => DeleteLock(s)
         /\ At(s, "zero_pnl") => ZeroPnl(s)
         /\ At(s, "set_equity") => SetEquity(s)
         /\ At(s, "get_existing") => GetExisting(s)
         /\ At(s, "get_position") => GetPosition(s)
         /\ At(s, "get_pnl") => GetPnl(s)
<1> DEFINE W == {"set_pnl", "get_equity", "set_lock", "delete_lock", "zero_pnl", "set_equity",
                 "get_existing", "get_position", "get_pnl"}
<1> SUFFICES ASSUME NEW w \in W, At(s, w)
             PROVE  \/ w = "set_pnl" /\ SetPnl(s)
                    \/ w = "get_equity" /\ GetEquity(s)
                    \/ w = "set_lock" /\ SetLock(s)
                    \/ w = "delete_lock" /\ DeleteLock(s)
                    \/ w = "zero_pnl" /\ ZeroPnl(s)
                    \/ w = "set_equity" /\ SetEquity(s)
                    \/ w = "get_existing" /\ GetExisting(s)
                    \/ w = "get_position" /\ GetPosition(s)
                    \/ w = "get_pnl" /\ GetPnl(s)
  <2>1. \A w : At(s, w) => \A v : At(s, v) => v = w
    BY DEF At
  <2> QED
    BY <2>1
<1>1. \A v : At(s, v) => v = w
  BY DEF At
<1>2. run[s].op # "none"
  BY AtActive
<1>3. ~Begin(s) /\ ~Raises(s)
  BY <1>2 DEF Begin, Raises
<1>4. /\ ~GetLock(s) /\ ~ReadMarket(s) /\ ~HasPosition(s) /\ ~GetSuccess(s)
      /\ ~DeleteSuccess(s) /\ ~Persist(s)
  BY <1>1 DEF GetLock, ReadMarket, HasPosition, GetSuccess, DeleteSuccess, Persist
<1>5. /\ ~SetPosition(s) /\ ~RecordPosition(s) /\ ~SetSuccess(s) /\ ~DeletePending(s)
      /\ ~DeletePosition(s)
  BY <1>1 DEF SetPosition, RecordPosition, SetSuccess, DeletePending, DeletePosition
<1>6. /\ SetPnl(s) => w = "set_pnl"
      /\ GetEquity(s) => w = "get_equity"
      /\ SetLock(s) => w = "set_lock"
      /\ DeleteLock(s) => w = "delete_lock"
      /\ ZeroPnl(s) => w = "zero_pnl"
      /\ SetEquity(s) => w = "set_equity"
      /\ GetExisting(s) => w = "get_existing"
      /\ GetPosition(s) => w = "get_position"
      /\ GetPnl(s) => w = "get_pnl"
  BY <1>1 DEF SetPnl, GetEquity, SetLock, DeleteLock, ZeroPnl, SetEquity, GetExisting,
              GetPosition, GetPnl
<1> QED
  BY <1>3, <1>4, <1>5, <1>6 DEF Step

\* A step begins or ends an operation, leaves out the lock, or goes on to the await
\* that follows.
LEMMA StepKinds ==
  ASSUME TypeOK, NEW s \in Slots, Step(s)
  PROVE  \/ Begin(s) \/ Ends(s)
         \/ At(s, "get_equity") /\ SkipsOne(s)
         \/ \E w, val : At(s, w) /\ Advances(s, w, val)
<1>1. ASSUME NEW w, At(s, w), GoesOn(s) PROVE \E v, val : At(s, v) /\ Advances(s, v, val)
  BY <1>1, GoesOnStep
<1>2. CASE GetPosition(s) \/ GetPnl(s)
  <2>1. PICK w \in {"get_position", "get_pnl"}, val \in Int : At(s, w) /\ Continue(s, val)
    BY <1>2, Positions, Args DEF GetPosition, GetPnl, TypeOK
  <2> QED
    BY <2>1, ContinueStep
<1>3. CASE GetLock(s) \/ ReadMarket(s) \/ HasPosition(s) \/ GetSuccess(s) \/ DeleteSuccess(s)
  BY <1>1, <1>3 DEF GetLock, ReadMarket, HasPosition, GetSuccess, DeleteSuccess
<1>4. CASE \/ SetPosition(s) \/ RecordPosition(s) \/ SetSuccess(s) \/ DeletePending(s)
           \/ DeletePosition(s) \/ GetExisting(s)
  BY <1>1, <1>4
  DEF SetPosition, RecordPosition, SetSuccess, DeletePending, DeletePosition, GetExisting
<1>5. CASE \/ SetPnl(s) \/ GetEquity(s) \/ SetLock(s) \/ DeleteLock(s) \/ ZeroPnl(s)
           \/ SetEquity(s)
  BY <1>1, <1>5 DEF SetPnl, GetEquity, SetLock, DeleteLock, ZeroPnl, SetEquity
<1>6. CASE Persist(s) \/ Raises(s)
  BY <1>6 DEF Persist, Raises
<1> QED
  BY <1>2, <1>3, <1>4, <1>5, <1>6 DEF Step

\* Where the steps of the risk engine lead to, and who takes them.
LEMMA RiskSteps ==
  ASSUME TypeOK, NEW s \in Slots
  PROVE  /\ SetPnl(s) => /\ run[s].op = "close" /\ In(s, "close", "get_equity")'
                         /\ run'[s].val = run[s].val
         /\ GetEquity(s) => /\ run[s].op = "close"
                            /\ LimitReached(run[s].val, startingEquity)
                                 => In(s, "close", "set_lock")'
         /\ SetLock(s) => run[s].op = "close"
         /\ DeleteLock(s) => run[s].op = "reset" /\ In(s, "reset", "zero_pnl")'
         /\ ZeroPnl(s) => /\ run[s].op \in {"reset", "initialize"}
                          /\ run[s].op = "reset" => In(s, "reset", "set_equity")'
         /\ SetEquity(s) =>
              /\ run[s].op \in {"reset", "initialize"} /\ run[s].arg \in Equities
              /\ run[s].op = "initialize" => Starting(s)'
<1>1. ASSUME NEW w, At(s, w), GoesOn(s), NEW o, NEW v, run[s].op = o, <<o, w, v>> \in Follows
      PROVE  In(s, o, v)' /\ run'[s].val = run[s].val
  <2>1. In(s, o, w) /\ Advances(s, w, run[s].val)
    BY <1>1, GoesOnStep DEF In
  <2> QED
    BY <1>1, <2>1, Onward
<1>2. ASSUME NEW w, At(s, w)
      PROVE  /\ w \in {"set_pnl", "get_equity", "set_lock"} => run[s].op = "close"
             /\ w = "delete_lock" => run[s].op = "reset"
             /\ w \in {"zero_pnl", "set_equity"} => run[s].op \in {"reset", "initialize"}
  BY <1>2, AtActive DEF HasAwait
<1>3. /\ <<"close", "set_pnl", "get_equity">> \in Follows
      /\ <<"close", "get_equity", "set_lock">> \in Follows
      /\ <<"reset", "delete_lock", "zero_pnl">> \in Follows
      /\ <<"reset", "zero_pnl", "set_equity">> \in Follows
      /\ <<"initialize", "set_equity", "zero_pnl">> \in Follows
  BY DEF Follows
<1>4. /\ SetPnl(s) => At(s, "set_pnl") /\ GoesOn(s)
      /\ GetEquity(s) =>
           /\ At(s, "get_equity")
           /\ LimitReached(run[s].val, startingEquity) => GoesOn(s)
      /\ SetLock(s) => At(s, "set_lock")
      /\ DeleteLock(s) => At(s, "delete_lock") /\ GoesOn(s)
      /\ ZeroPnl(s) => At(s, "zero_pnl") /\ GoesOn(s)
      /\ SetEquity(s) => At(s, "set_equity") /\ GoesOn(s)
  BY DEF SetPnl, GetEquity, SetLock, DeleteLock, ZeroPnl, SetEquity
<1>5. SetPnl(s) => /\ run[s].op = "close" /\ In(s, "close", "get_equity")'
                   /\ run'[s].val = run[s].val
  BY <1>1, <1>2, <1>3, <1>4
<1>6. GetEquity(s) => /\ run[s].op = "close"
                      /\ LimitReached(run[s].val, startingEquity)
                           => In(s, "close", "set_lock")'
  BY <1>1, <1>2, <1>3, <1>4
<1>7. DeleteLock(s) => run[s].op = "reset" /\ In(s, "reset", "zero_pnl")'
  BY <1>1, <1>2, <1>3, <1>4
<1>8. ZeroPnl(s) => /\ run[s].op \in {"reset", "initialize"}
                    /\ run[s].op = "reset" => In(s, "reset", "set_equity")'
  BY <1>1, <1>2, <1>3, <1>4
<1>9. SetEquity(s) => /\ run[s].op \in {"reset", "initialize"} /\ run[s].arg \in Equities
                      /\ run[s].op = "initialize" => Starting(s)'
  BY <1>1, <1>2, <1>3, <1>4, Args DEF Starting
<1> QED
  BY <1>2, <1>4, <1>5, <1>6, <1>7, <1>8, <1>9
\* And from where its awaits are reached.
LEMMA RiskReached ==
  ASSUME TypeOK, NEW s \in Slots, ~Failing, Step(s)
  PROVE  /\ In(s, "reset", "zero_pnl")' => DeleteLock(s)
         /\ In(s, "reset", "set_equity")' => ZeroPnl(s) /\ run[s].op = "reset"
         /\ In(s, "initialize", "set_equity")' => GetExisting(s) /\ startingEquity = 0
         /\ Starting(s)' => SetEquity(s) /\ run[s].op = "initialize"
         /\ At(s, "get_equity")' => SetPnl(s)
         /\ At(s, "set_lock")' => GetEquity(s) /\ LimitReached(run[s].val, startingEquity)
         /\ In(s, "close", "get_pnl")' => GetPosition(s)
         /\ In(s, "close", "set_pnl")' => GetPnl(s) /\ run[s].op = "close"
<1>0. \A v : At(s, v)' <=> \E o : In(s, o, v)'
  BY DEF In
<1>1. CASE Begin(s)
  <2> DEFINE Later == {"zero_pnl", "set_equity", "get_equity", "set_lock", "get_pnl", "set_pnl"}
  <2>1. \A o \in Op : First[o] \notin Later
    BY DEF Op, Script, First
  <2>2. \A o, v : In(s, o, v)' => v \notin Later
    BY <1>1, <2>1, Begun
  <2> QED
    BY <1>0, <2>2 DEF Starting
<1>2. CASE Ends(s)
  <2>1. \A o, v : ~In(s, o, v)'
    BY <1>2, Ended
  <2> QED
    BY <1>0, <2>1 DEF Starting
<1>3. CASE At(s, "get_equity") /\ SkipsOne(s)
  <2>1. PICK r : Replaces(s, r) /\ Successor(s, "delete_position", run[s].val, r)
    BY <1>3, SkipsStep
  <2>2. \A o, v : In(s, o, v)' => v = "delete_position"
    BY <2>1 DEF Replaces, Successor, In, At
  <2> QED
    BY <1>0, <2>2 DEF Starting
<1>4. CASE \E w, val : At(s, w) /\ Advances(s, w, val)
  <2>1. PICK w, val : At(s, w) /\ Advances(s, w, val)
    BY <1>4
  <2>2. \A o, v : In(s, o, v)' => run[s].op = o /\ <<o, w, v>> \in Follows
    BY <2>1, Moves
  <2>3. /\ <<"reset", w, "zero_pnl">> \in Follows => w = "delete_lock"
        /\ <<"reset", w, "set_equity">> \in Follows => w = "zero_pnl"
        /\ <<"initialize", w, "set_equity">> \in Follows => w = "get_existing"
        /\ <<"initialize", w, "zero_pnl">> \in Follows => w = "set_equity"
        /\ \A o : <<o, w, "get_equity">> \in Follows => w = "set_pnl"
        /\ \A o : <<o, w, "set_lock">> \in Follows => w = "get_equity"
        /\ <<"close", w, "get_pnl">> \in Follows => w = "get_position"
        /\ <<"close", w, "set_pnl">> \in Follows => w = "get_pnl"
    BY DEF Follows
  <2>4. /\ In(s, "reset", "zero_pnl")' => w = "delete_lock"
        /\ In(s, "reset", "set_equity")' => w = "zero_pnl" /\ run[s].op = "reset"
        /\ In(s, "initialize", "set_equity")' => w = "get_existing"
        /\ Starting(s)' => w = "set_equity" /\ run[s].op = "initialize"
        /\ In(s, "close", "get_pnl")' => w = "get_position"
        /\ In(s, "close", "set_pnl")' => w = "get_pnl" /\ run[s].op = "close"
    BY <2>2, <2>3 DEF Starting
  <2>5. /\ At(s, "get_equity")' => w = "set_pnl"
        /\ At(s, "set_lock")' => w = "get_equity"
    BY <1>0, <2>2, <2>3
  <2>6. In(s, "initialize", "set_equity")' => startingEquity = 0
    <3>1. In(s, "initialize", "set_equity")' => GetExisting(s) /\ ~Ends(s)
      BY <2>1, <2>4, StepAt, Ended
    <3> QED
      BY <3>1 DEF GetExisting, IsMissing
  <2>7. At(s, "set_lock")' => LimitReached(run[s].val, startingEquity)
    <3>1. ASSUME At(s, "get_equity"), SkipsOne(s) PROVE ~At(s, "set_lock")'
      <4>1. PICK r : Replaces(s, r) /\ Successor(s, "delete_position", run[s].val, r)
        BY <3>1, SkipsStep
      <4> QED
        BY <4>1 DEF Replaces, Successor, At
    <3>2. At(s, "set_lock")' => GetEquity(s) /\ ~SkipsOne(s)
      BY <2>1, <2>5, <3>1, StepAt
    <3> QED
      BY <3>2 DEF GetEquity
  <2> QED
    BY <2>1, <2>4, <2>5, <2>6, <2>7, StepAt
<1> QED
  BY <1>1, <1>2, <1>3, <1>4, StepKinds

\* What a step does to the keys of the risk engine.
LEMMA RiskKeys ==
  ASSUME TypeOK, NEW s \in Slots, Step(s)
  PROVE  /\ startingEquity # 0 => startingEquity' # 0
         /\ lock' => lock \/ SetLock(s)
         /\ dailyPnl' \in {dailyPnl, 0} \/ SetPnl(s)
         /\ \/ UNCHANGED riskVars
            \/ SetPnl(s) \/ SetLock(s) \/ DeleteLock(s) \/ ZeroPnl(s) \/ SetEquity(s)
<1> USE DEF keyVars, riskVars
<1>1. CASE SetPnl(s) \/ SetLock(s) \/ DeleteLock(s) \/ ZeroPnl(s)
  BY <1>1 DEF SetPnl, SetLock, DeleteLock, ZeroPnl
<1>2. CASE SetEquity(s)
  <2>1. run[s].arg \in Equities
    BY <1>2, RiskSteps
  <2> QED
    BY <1>2, <2>1, EquityAssumption DEF SetEquity
<1>3. CASE \/ Begin(s) \/ GetLock(s) \/ ReadMarket(s) \/ HasPosition(s) \/ GetSuccess(s)
           \/ DeleteSuccess(s) \/ Persist(s) \/ Raises(s)
  BY <1>3
  DEF Begin, GetLock, ReadMarket, HasPosition, GetSuccess, DeleteSuccess, Persist, Raises
<1>4. CASE \/ SetPosition(s) \/ RecordPosition(s) \/ SetSuccess(s) \/ DeletePending(s)
           \/ DeletePosition(s) \/ GetPosition(s) \/ GetPnl(s) \/ GetEquity(s)
           \/ GetExisting(s)
  BY <1>4
  DEF SetPosition, RecordPosition, SetSuccess, DeletePending, DeletePosition, GetPosition,
      GetPnl, GetEquity, GetExisting
<1> QED
  BY <1>1, <1>2, <1>3, <1>4 DEF Step

\* While a new day or a first start is under way no position is being closed, the
\* lock is off and, once cleared, the sum stays 0.
DaysFit(s) ==
  /\ Halfway(s) => ~lock
  /\ In(s, "reset", "set_equity") => dailyPnl = 0
  /\ In(s, "initialize", "set_equity") => ~lock
  /\ Starting(s) => ~lock /\ startingEquity # 0

\* The lock needs a starting equity.
LockHasEquity == lock \/ (\E s \in Slots : At(s, "set_lock")) => startingEquity # 0

\* A close has computed its sum with a profit.
ProfitsFit(s) ==
  /\ In(s, "close", "get_pnl") => run[s].val \in Profits
  /\ In(s, "close", "set_pnl") => run[s].val - dailyPnl \in Profits

RiskInv ==
  /\ TypeOK /\ KeptApart /\ LockHasEquity
  /\ \A s \in Slots : DaysFit(s) /\ ProfitsFit(s)

NoClose == \A t \in Slots : run[t].op # "close"

\* No position is being closed during a reset or an initialize.
LEMMA DaysApart ==
  RiskApart \subseteq Apart /\ KeptApart =>
    \A s \in Slots : run[s].op \in {"reset", "initialize"} => NoClose
<1> SUFFICES ASSUME RiskApart \subseteq Apart, KeptApart, NEW s \in Slots,
                    run[s].op \in {"reset", "initialize"}, NEW t \in Slots,
                    run[t].op = "close"
             PROVE  FALSE
  BY DEF NoClose
<1>1. {run[t].op, run[s].op} \in RiskApart
  BY DEF RiskApart, RiskOps
<1> QED
  BY <1>1 DEF KeptApart

\* A second close neither.
LEMMA OneClose ==
  ASSUME RiskApart \subseteq Apart, KeptApart, NEW s \in Slots, run[s].op = "close",
         NEW t \in Slots, t # s
  PROVE  run[t].op \notin RiskOps
<1>1. \A o \in RiskOps : {run[s].op, o} \in RiskApart
  BY DEF RiskApart
<1> QED
  BY <1>1 DEF KeptApart

LEMMA ProfitsStep ==
  ASSUME TypeOK, ~Failing, NEW s \in Slots, Step(s), ProfitsFit(s)
  PROVE  ProfitsFit(s)'
<1>1. ASSUME GetPosition(s), In(s, "close", "get_pnl")' PROVE run'[s].val \in Profits
  <2>1. At(s, "get_position") /\ Continue(s, position.profit)
    BY <1>1 DEF GetPosition
  <2>2. position.profit \in Profits /\ position.profit \in Int
    BY Positions DEF TypeOK
  <2>3. Advances(s, "get_position", position.profit)
    BY <2>1, <2>2, ContinueStep
  <2> QED
    BY <1>1, <2>1, <2>2, <2>3, Moves DEF In
<1>2. ASSUME GetPnl(s), run[s].op = "close", In(s, "close", "set_pnl")'
      PROVE  run'[s].val - dailyPnl' \in Profits
  <2>1. At(s, "get_pnl") /\ Continue(s, dailyPnl + run[s].val) /\ dailyPnl' = dailyPnl
    BY <1>2 DEF GetPnl, keyVars, riskVars
  <2>2. run[s].val \in Profits /\ run[s].val \in Int /\ dailyPnl \in Int
    BY <1>2, <2>1, Args DEF ProfitsFit, In, TypeOK
  <2>3. Advances(s, "get_pnl", dailyPnl + run[s].val)
    BY <2>1, <2>2, ContinueStep
  <2>4. run'[s].val = dailyPnl + run[s].val
    BY <1>2, <2>1, <2>3, Moves DEF In
  <2>5. run'[s].val - dailyPnl' = run[s].val
    BY <2>1, <2>2, <2>4
  <2> QED
    BY <2>2, <2>5
<1> QED
  BY <1>1, <1>2, RiskReached DEF ProfitsFit

LEMMA DaysStep ==
  ASSUME TypeOK, ~Failing, LockHasEquity, NEW s \in Slots, Step(s), DaysFit(s)
  PROVE  DaysFit(s)'
<1>1. Halfway(s)' => ~lock'
  <2>1. DeleteLock(s) => ~lock'
    BY DEF DeleteLock
  <2>2. ZeroPnl(s) /\ run[s].op = "reset" => ~lock'
    BY DEF ZeroPnl, DaysFit, Halfway, In
  <2> QED
    BY <2>1, <2>2, RiskReached DEF Halfway
<1>2. In(s, "reset", "set_equity")' => dailyPnl' = 0
  BY RiskReached DEF ZeroPnl
<1>3. In(s, "initialize", "set_equity")' => ~lock'
  <2>1. GetExisting(s) /\ startingEquity = 0 => ~lock'
    BY DEF GetExisting, LockHasEquity, keyVars, riskVars
  <2> QED
    BY <2>1, RiskReached
<1>4. Starting(s)' => ~lock' /\ startingEquity' # 0
  <2>1. ASSUME SetEquity(s), run[s].op = "initialize" PROVE ~lock' /\ startingEquity' # 0
    <3>1. In(s, "initialize", "set_equity") /\ startingEquity' = run[s].arg /\ lock' = lock
      BY <2>1 DEF SetEquity, In
    <3>2. run[s].arg # 0
      BY <2>1, RiskSteps, EquityAssumption
    <3> QED
      BY <3>1, <3>2 DEF DaysFit
  <2> QED
    BY <2>1, RiskReached
<1> QED
  BY <1>1, <1>2, <1>3, <1>4 DEF DaysFit

LEMMA RiskInvInit == Init => RiskInv
<1> SUFFICES ASSUME Init PROVE RiskInv
  OBVIOUS
<1>1. \A s \in Slots : \A w : run[s].op = "none" /\ ~At(s, w)
  BY DEF Init, Idle, At
<1> QED
  BY <1>1, InitTypeOK, KeptApartInit
  DEF Init, RiskInv, LockHasEquity, DaysFit, ProfitsFit, Halfway, Starting, In

LEMMA RiskInvNext ==
  ASSUME RiskApart \subseteq Apart, ~Failing, RiskInv, [Next]_vars
  PROVE  RiskInv'
<1> USE DEF RiskInv
<1>1. TypeOK' /\ KeptApart'
  BY NextTypeOK, KeptApartNext
<1>2. ASSUME NEW s \in Slots, Step(s)
      PROVE  LockHasEquity' /\ \A t \in Slots : DaysFit(t)' /\ ProfitsFit(t)'
  <2>1. LockHasEquity'
    <3>1. ASSUME NEW t \in Slots, At(t, "set_lock")' PROVE startingEquity' # 0
      <4>1. CASE t = s
        <5>1. LimitReached(run[s].val, startingEquity)
          BY <1>2, <3>1, <4>1, RiskReached
        <5>2. startingEquity # 0
          BY <5>1 DEF LimitReached
        <5> QED
          BY <1>2, <5>2, RiskKeys
      <4>2. CASE t # s
        <5>1. At(t, "set_lock")
          BY <1>2, <3>1, <4>2, OthersStay, Unmoved
        <5> QED
          BY <1>2, <5>1, RiskKeys DEF LockHasEquity
      <4> QED
        BY <4>1, <4>2
    <3>2. lock' => startingEquity' # 0
      <4>1. SetLock(s) => At(s, "set_lock")
        BY DEF SetLock
      <4> QED
        BY <1>2, <4>1, RiskKeys DEF LockHasEquity
    <3> QED
      BY <3>1, <3>2 DEF LockHasEquity
  <2>2. ASSUME NEW t \in Slots, t # s PROVE DaysFit(t)' /\ ProfitsFit(t)'
    <3>1. run'[t] = run[t]
      BY <1>2, <2>2, OthersStay
    <3>2. \A o, w : In(t, o, w)' <=> In(t, o, w)
      BY <3>1, Unmoved
    <3>3. DaysFit(t)'
      <4>1. CASE run[t].op \notin {"reset", "initialize"}
        BY <3>2, <4>1 DEF DaysFit, Halfway, Starting, In
      <4>2. CASE run[t].op \in {"reset", "initialize"}
        <5>1. ~SetLock(s) /\ ~SetPnl(s)
          BY <4>2, DaysApart, RiskSteps DEF NoClose
        <5>2. /\ lock' => lock
              /\ dailyPnl' \in {dailyPnl, 0}
              /\ startingEquity # 0 => startingEquity' # 0
          BY <1>2, <5>1, RiskKeys
        <5> QED
          BY <3>2, <5>2 DEF DaysFit, Halfway, Starting
      <4> QED
        BY <4>1, <4>2
    <3>4. ProfitsFit(t)'
      <4>1. CASE run[t].op # "close"
        BY <3>2, <4>1 DEF ProfitsFit, In
      <4>2. CASE run[t].op = "close"
        <5>1. dailyPnl' = dailyPnl
          BY <1>2, <2>2, <4>2, OneClose, Harmless DEF riskVars
        <5> QED
          BY <3>1, <3>2, <5>1 DEF ProfitsFit
      <4> QED
        BY <4>1, <4>2
    <3> QED
      BY <3>3, <3>4
  <2> QED
    BY <1>2, <2>1, <2>2, DaysStep, ProfitsStep
<1>3. CASE StateExpires \/ UNCHANGED vars
  <2>1. UNCHANGED <<run, dailyPnl, lock, startingEquity>>
    BY <1>3 DEF StateExpires, vars, keyVars, riskVars
  <2> QED
    BY <1>1, <2>1 DEF LockHasEquity, DaysFit, ProfitsFit, Halfway, Starting, In, At
<1>4. CASE Dies
  BY <1>4 DEF Dies
<1> QED
  BY <1>1, <1>2, <1>3, <1>4 DEF Next

\* The limit of the code and that of DailyRisk: a loss at the limit is a loss.
LEMMA Limits ==
  ASSUME NEW p \in Int, NEW e \in Equities \cup {0}
  PROVE  LimitReached(p, e) <=> Abstract!Breached(p, e)
<1>1. e \in Nat /\ MaxLossPct \in Nat /\ MaxLossPct > 0
  BY EquityAssumption, LimitAssumption
<1>2. CASE e > 0
  <2>1. MaxLossPct * e > 0
    BY <1>1, <1>2, SMT
  <2>2. MaxLossPct * e \in Int
    BY <1>1
  <2>3. -p * 100 >= MaxLossPct * e => p < 0
    BY <2>1, <2>2
  <2> QED
    BY <2>3 DEF LimitReached, Abstract!Breached
<1> QED
  BY <1>1, <1>2 DEF LimitReached, Abstract!Breached

\* The refinement mapping.
BarPnl == IF Resetting \/ Reached("initialize", "zero_pnl") THEN 0 ELSE dailyPnl
BarLock == lock \/ Locking
BarEquity ==
  IF Resetting THEN (CHOOSE e \in Equities :
                       \E s \in Slots : run[s].op = "reset" /\ run[s].arg = e)
  ELSE startingEquity

\* The mapping, coroutine by coroutine.
Marks ==
  /\ Resetting <=> \E s \in Slots : Halfway(s)
  /\ Reached("initialize", "zero_pnl") <=> \E s \in Slots : Starting(s)
  /\ Locking <=> \E s \in Slots : Locks(s)

LEMMA MarksHold == Marks
<1>1. Resetting <=> \E s \in Slots : Halfway(s)
  BY DEF Resetting, Reached, Halfway, In
<1>2. Reached("initialize", "zero_pnl") <=> \E s \in Slots : Starting(s)
  BY DEF Reached, Starting, In
<1>3. Locking <=> \E s \in Slots : Locks(s)
  BY DEF Locking, Locks
<1> QED
  BY <1>1, <1>2, <1>3 DEF Marks

\* In the middle of a reset the day has an equity, and only a close sets the lock.
BarsFit ==
  TypeOK => /\ Resetting => BarEquity \in Equities
            /\ NoClose => ~Locking

LEMMA BarsAlwaysFit == BarsFit
<1> SUFFICES ASSUME TypeOK
             PROVE  /\ Resetting => BarEquity \in Equities
                    /\ NoClose => ~Locking
  BY DEF BarsFit
<1>1. ASSUME Resetting PROVE BarEquity \in Equities
  <2>1. PICK s \in Slots : Halfway(s)
    BY <1>1, MarksHold DEF Marks
  <2>2. run[s].op = "reset" /\ run[s].arg \in Equities
    BY <2>1, Active DEF Halfway, In, Arguments
  <2> QED
    BY <1>1, <2>2 DEF BarEquity
<1>2. ASSUME NEW s \in Slots, Locks(s) PROVE run[s].op = "close"
  BY <1>2, AtActive DEF Locks, HasAwait
<1> QED
  BY <1>1, <1>2, MarksHold DEF Marks, NoClose

\* Both hold after a step as well.
LEMMA AfterStep == Marks' /\ BarsFit'
BY MarksHold, BarsAlwaysFit, PTL

\* The steps of DailyRisk.
BarBook ==
  \E p \in Profits :
    /\ BarPnl' = BarPnl + p
    /\ BarLock' <=> BarLock \/ Abstract!Breached(BarPnl', BarEquity)
    /\ BarEquity' = BarEquity
BarBeginDay == BarPnl' = 0 /\ ~BarLock' /\ BarEquity' \in Equities
BarStutter == BarPnl' = BarPnl /\ (BarLock' <=> BarLock) /\ BarEquity' = BarEquity

BarNext == BarBook \/ BarBeginDay \/ BarStutter

LEMMA BarIsDailyRisk ==
  /\ BarNext => [Abstract!Next]_<<BarPnl, BarLock, BarEquity>>
  /\ Abstract!Init <=> BarPnl = 0 /\ BarLock = FALSE /\ BarEquity = 0
<1>1. BarBook => Abstract!Book
  BY DEF BarBook, Abstract!Book, BarPnl, BarLock, BarEquity
<1>2. BarBeginDay => Abstract!BeginDay
  BY DEF BarBeginDay, Abstract!BeginDay, BarPnl, BarLock, BarEquity
<1>3. BarStutter => UNCHANGED <<BarPnl, BarLock, BarEquity>>
  BY DEF BarStutter, BarLock
<1>4. Abstract!Init <=> BarPnl = 0 /\ BarLock = FALSE /\ BarEquity = 0
  BY DEF Abstract!Init, BarPnl, BarLock, BarEquity
<1> QED
  BY <1>1, <1>2, <1>3, <1>4 DEF BarNext, Abstract!Next

\* A reset or an initialize that is under way, or ends, is a day that begins.
LEMMA DayBegins ==
  ASSUME TypeOK', NoClose', ~lock', BarPnl' = 0, BarEquity' \in Equities
  PROVE  BarNext
BY AfterStep DEF BarsFit, BarNext, BarBeginDay, BarLock

\* Beside a reset or an initialize no close begins and nothing sets the lock.
LEMMA NoCloseStays ==
  ASSUME TypeOK, KeptApart', RiskApart \subseteq Apart, NoClose,
         NEW s \in Slots, Step(s),
         NEW t \in Slots, run'[t].op \in {"reset", "initialize"} \/ run'[s].op # "close"
  PROVE  NoClose' /\ (lock' => lock)
<1>1. lock' => lock
  BY RiskKeys, RiskSteps DEF NoClose
<1>2. CASE run'[t].op \in {"reset", "initialize"}
  <2>1. ASSUME NEW u \in Slots, run'[u].op = "close" PROVE FALSE
    <3>1. {run'[u].op, run'[t].op} \in RiskApart
      BY <1>2, <2>1 DEF RiskApart, RiskOps
    <3> QED
      BY <1>2, <2>1, <3>1 DEF KeptApart
  <2> QED
    BY <1>1, <2>1 DEF NoClose
<1>3. CASE run'[s].op # "close"
  BY <1>1, <1>3, OthersStay DEF NoClose
<1> QED
  BY <1>2, <1>3

\* Without a failure every step of a request is a step of DailyRisk or none.
LEMMA RefinementStep ==
  ASSUME RiskApart \subseteq Apart, ~Failing, RiskInv, RiskInv', NEW s \in Slots, Step(s)
  PROVE  BarNext
<1> USE DEF RiskInv
<1>1. TypeOK' /\ KeptApart'
  OBVIOUS
<1>2. ASSUME NEW t \in Slots, t # s
      PROVE  /\ run'[t] = run[t]
             /\ Halfway(t)' <=> Halfway(t)
             /\ Starting(t)' <=> Starting(t)
  BY <1>2, OthersStay, Unmoved DEF Halfway, Starting
<1>3. CASE Resetting
  <2>1. PICK t \in Slots : Halfway(t)
    BY <1>3, MarksHold DEF Marks
  <2>2. run[t].op = "reset" /\ NoClose /\ ~lock
    BY <2>1, DaysApart DEF Halfway, In, DaysFit
  <2>3. NoClose' /\ ~lock'
    <3>1. run'[t].op = "reset" \/ run'[s].op # "close"
      <4>1. CASE t = s
        BY <2>2, <4>1, OthersStay DEF Begin
      <4>2. CASE t # s
        BY <1>2, <2>2, <4>2
      <4> QED
        BY <4>1, <4>2
    <3> QED
      BY <2>2, <3>1, NoCloseStays
  <2>4. CASE Resetting'
    BY <1>1, <2>3, <2>4, AfterStep, DayBegins DEF BarsFit, BarPnl
  <2>5. CASE ~Resetting'
    <3>1. ~Halfway(s)' /\ Halfway(s)
      BY <1>2, <2>1, <2>5, AfterStep DEF Marks
    <3>2. In(s, "reset", "set_equity")
      <4>1. ASSUME In(s, "reset", "zero_pnl") PROVE FALSE
        BY <3>1, <4>1, StepAt, RiskSteps DEF In, Halfway
      <4> QED
        BY <3>1, <4>1 DEF Halfway
    <3>3. SetEquity(s) /\ dailyPnl = 0
      BY <3>2, StepAt DEF In, DaysFit
    <3>4. dailyPnl' = 0 /\ startingEquity' \in Equities
      BY <3>3, RiskSteps DEF SetEquity
    <3> QED
      BY <1>1, <2>3, <2>5, <3>4, DayBegins DEF BarPnl, BarEquity
  <2> QED
    BY <2>4, <2>5
<1>4. CASE ~Resetting /\ Resetting'
  <2>1. Halfway(s)' /\ ~Halfway(s)
    BY <1>2, <1>4, MarksHold, AfterStep DEF Marks
  <2>2. DeleteLock(s)
    <3>1. ZeroPnl(s) /\ run[s].op = "reset" => Halfway(s)
      BY DEF ZeroPnl, Halfway, In
    <3> QED
      BY <2>1, <3>1, RiskReached DEF Halfway
  <2>3. ~lock' /\ NoClose'
    <3>1. run[s].op = "reset" /\ run'[s].op = "reset"
      BY <2>2, RiskSteps DEF In
    <3>2. NoClose
      BY <3>1, DaysApart
    <3> QED
      BY <1>1, <2>2, <3>1, <3>2, NoCloseStays DEF DeleteLock
  <2> QED
    BY <1>1, <1>4, <2>3, AfterStep, DayBegins DEF BarsFit, BarPnl
<1>5. CASE ~Resetting /\ ~Resetting' /\ \E t \in Slots : Starting(t)
  <2>1. PICK t \in Slots : Starting(t)
    BY <1>5
  <2>2. run[t].op = "initialize" /\ NoClose /\ ~lock /\ startingEquity # 0
    BY <2>1, DaysApart DEF Starting, In, DaysFit
  <2>3. NoClose' /\ ~lock'
    <3>1. run'[t].op = "initialize" \/ run'[s].op # "close"
      <4>1. CASE t = s
        BY <2>2, <4>1, OthersStay DEF Begin
      <4>2. CASE t # s
        BY <1>2, <2>2, <4>2
      <4> QED
        BY <4>1, <4>2
    <3> QED
      BY <2>2, <3>1, NoCloseStays
  <2>4. BarEquity' \in Equities
    <3>1. startingEquity' # 0
      BY <2>2, RiskKeys
    <3>2. startingEquity' \in Equities
      BY <1>1, <3>1 DEF TypeOK
    <3> QED
      BY <1>5, <3>2 DEF BarEquity
  <2>5. BarPnl' = 0
    <3>1. CASE \E u \in Slots : Starting(u)'
      BY <3>1, AfterStep DEF Marks, BarPnl
    <3>2. CASE ~Starting(s)' /\ t = s
      <4>1. ZeroPnl(s)
        BY <2>1, <3>2, StepAt DEF Starting, In
      <4> QED
        BY <4>1 DEF ZeroPnl, BarPnl
    <3> QED
      BY <1>2, <2>1, <3>1, <3>2
  <2> QED
    BY <1>1, <2>3, <2>4, <2>5, DayBegins
<1>6. CASE ~Resetting' /\ (~\E t \in Slots : Starting(t)) /\ \E t \in Slots : Starting(t)'
  <2>1. Starting(s)'
    BY <1>2, <1>6
  <2>2. SetEquity(s) /\ run[s].op = "initialize" /\ run'[s].op = "initialize"
    BY <2>1, RiskReached DEF Starting, In
  <2>3. ~lock /\ NoClose
    BY <2>2, DaysApart DEF SetEquity, DaysFit, In
  <2>4. ~lock' /\ NoClose'
    BY <1>1, <2>2, <2>3, NoCloseStays
  <2>5. BarEquity' \in Equities
    BY <1>6, <2>2, RiskSteps DEF SetEquity, BarEquity
  <2>6. BarPnl' = 0
    BY <1>6, AfterStep DEF Marks, BarPnl
  <2> QED
    BY <1>1, <2>4, <2>5, <2>6, DayBegins
<1>7. CASE /\ ~Resetting /\ ~Resetting'
           /\ \A t \in Slots : ~Starting(t) /\ ~Starting(t)'
  <2>1. BarPnl = dailyPnl /\ BarEquity = startingEquity
    BY <1>7, MarksHold DEF Marks, BarPnl, BarEquity
  <2>2. BarPnl' = dailyPnl' /\ BarEquity' = startingEquity'
    BY <1>7, AfterStep DEF Marks, BarPnl, BarEquity
  <2>3. ~DeleteLock(s) /\ ~ZeroPnl(s) /\ ~SetEquity(s)
    <3>1. ~Halfway(s) /\ ~Halfway(s)'
      BY <1>7, MarksHold, AfterStep DEF Marks
    <3>2. ~DeleteLock(s)
      BY <3>1, RiskSteps DEF Halfway
    <3>3. ~ZeroPnl(s)
      BY <1>7, <3>1, RiskSteps DEF ZeroPnl, Halfway, Starting, In
    <3>4. ~SetEquity(s)
      BY <1>7, <3>1, RiskSteps DEF SetEquity, Halfway, In
    <3> QED
      BY <3>2, <3>3, <3>4
  <2>4. ASSUME run[s].op = "close", NEW t \in Slots, t # s PROVE ~Locks(t) /\ ~Locks(t)'
    <3>1. run[t].op # "close"
      BY <2>4, OneClose DEF RiskOps
    <3>2. \A w : At(t, w)' <=> At(t, w)
      BY <1>2, <2>4, Unmoved
    <3> QED
      BY <3>1, <3>2, AtActive DEF Locks, HasAwait
  <2>5. CASE SetPnl(s)
    <3>1. /\ run[s].op = "close" /\ At(s, "set_pnl") /\ dailyPnl' = run[s].val
          /\ lock' = lock /\ startingEquity' = startingEquity
      BY <2>5, RiskSteps DEF SetPnl
    <3>2. dailyPnl' - dailyPnl \in Profits /\ dailyPnl' \in Int /\ dailyPnl \in Int
      BY <1>1, <3>1 DEF ProfitsFit, In, TypeOK
    <3>3. ~Locks(s)
      BY <3>1 DEF Locks, At
    <3>4. Locks(s)' <=> LimitReached(dailyPnl', startingEquity')
      <4>1. In(s, "close", "get_equity")' /\ run'[s].val = dailyPnl'
        BY <2>5, <3>1, RiskSteps
      <4> QED
        BY <4>1 DEF Locks, In, At
    <3>5. (BarLock <=> lock) /\ (BarLock' <=> lock \/ LimitReached(dailyPnl', startingEquity))
      BY <2>4, <3>1, <3>3, <3>4, MarksHold, AfterStep DEF Marks, BarLock
    <3>6. startingEquity \in Equities \cup {0}
      BY DEF TypeOK
    <3>7. LimitReached(dailyPnl', startingEquity)
            <=> Abstract!Breached(dailyPnl', startingEquity)
      BY <3>2, <3>6, Limits
    <3>8. BarLock' <=> BarLock \/ Abstract!Breached(BarPnl', BarEquity)
      BY <2>1, <2>2, <3>5, <3>7
    <3>9. BarPnl' = BarPnl + (dailyPnl' - dailyPnl)
      <4>1. \A a, b \in Int : a = b + (a - b)
        OBVIOUS
      <4> QED
        BY <2>1, <2>2, <3>2, <4>1
    <3> QED
      BY <2>1, <2>2, <3>1, <3>2, <3>8, <3>9 DEF BarNext, BarBook
  <2>6. CASE SetLock(s)
    <3>1. /\ Locks(s) /\ lock'
          /\ dailyPnl' = dailyPnl /\ startingEquity' = startingEquity
      BY <2>6 DEF SetLock, Locks
    <3> QED
      BY <2>1, <2>2, <3>1, MarksHold DEF Marks, BarLock, BarNext, BarStutter
  <2>7. CASE UNCHANGED riskVars /\ ~SetPnl(s) /\ ~SetLock(s)
    <3>1. dailyPnl' = dailyPnl /\ startingEquity' = startingEquity /\ lock' = lock
      BY <2>7 DEF riskVars
    <3>2. Locks(s)' <=> Locks(s)
      <4>1. At(s, "get_equity")' => FALSE
        BY <2>7, RiskReached
      <4>2. At(s, "set_lock") => FALSE
        BY <2>7, StepAt
      <4>3. Locks(s)' => Locks(s)
        BY <4>1, RiskReached DEF Locks, GetEquity
      <4>4. Locks(s) => Locks(s)'
        BY <4>2, StepAt, RiskSteps DEF Locks, In
      <4> QED
        BY <4>3, <4>4
    <3>3. \A t \in Slots : Locks(t)' <=> Locks(t)
      BY <1>2, <3>1, <3>2 DEF Locks, At
    <3>4. BarLock' <=> BarLock
      BY <3>1, <3>3, MarksHold, AfterStep DEF Marks, BarLock
    <3> QED
      BY <2>1, <2>2, <3>1, <3>4 DEF BarNext, BarStutter
  <2> QED
    BY <2>3, <2>5, <2>6, <2>7, RiskKeys
<1> QED
  BY <1>3, <1>4, <1>5, <1>6, <1>7

LEMMA RiskInit == Init => Abstract!Init
<1> SUFFICES ASSUME Init PROVE Abstract!Init
  OBVIOUS
<1>1. \A s \in Slots : \A w : ~At(s, w)
  BY DEF Init, Idle, At
<1>2. ~Resetting /\ ~Reached("initialize", "zero_pnl") /\ ~Locking
  BY <1>1 DEF Resetting, Reached, Locking
<1>3. BarPnl = 0 /\ BarLock = FALSE /\ BarEquity = 0
  BY <1>2 DEF Init, BarPnl, BarLock, BarEquity
<1> QED
  BY <1>3, BarIsDailyRisk

LEMMA RiskNext ==
  ASSUME RiskApart \subseteq Apart, ~Failing, RiskInv, [Next]_vars
  PROVE  RiskInv' /\ BarNext
<1>1. RiskInv'
  BY RiskInvNext
<1>2. CASE \E s \in Slots : Step(s)
  BY <1>1, <1>2, RefinementStep
<1>3. CASE StateExpires \/ UNCHANGED vars
  <2>1. UNCHANGED <<run, dailyPnl, lock, startingEquity>>
    BY <1>3 DEF StateExpires, vars, keyVars, riskVars
  <2> QED
    BY <1>1, <2>1
    DEF BarNext, BarStutter, BarPnl, BarLock, BarEquity, Resetting, Reached, Locking, At
<1>4. CASE Dies
  BY <1>4 DEF Dies
<1> QED
  BY <1>1, <1>2, <1>3, <1>4 DEF Next

\* RiskEngine, an await at a time, is DailyRisk, for any number of requests beside
\* each other, if no close runs beside another close, a reset or an initialize and no
\* command raises: every booking is one step with its SET of the sum, the decision on
\* the lock included; a new day is one step, and so is the first start.  What resets
\* and initializes do beside each other is a day that begins again.
THEOREM BackendImplementsDailyRisk ==
  ASSUME RiskApart \subseteq Apart, ~Failing
  PROVE  Spec => ImplementsDailyRisk
<1>1. Init => RiskInv /\ Abstract!Init
  BY RiskInvInit, RiskInit
<1>2. RiskInv /\ [Next]_vars => RiskInv'
  BY RiskNext
<1>3. RiskInv /\ [Next]_vars => [Abstract!Next]_<<BarPnl, BarLock, BarEquity>>
  BY RiskNext, BarIsDailyRisk
<1> QED
  BY <1>1, <1>2, <1>3, PTL
  DEF Spec, ImplementsDailyRisk, Abstract!Spec, BarPnl, BarLock, BarEquity

-----------------------------------------------------------------------------
(***************************************************************************)
(* The lock, with two closes beside each other as well.                    *)
(***************************************************************************)
\* Somebody is on the way to the lock, or to a sum of 0.
Pursues(s) ==
  \/ At(s, "get_equity") /\ run[s].val = dailyPnl
  \/ At(s, "set_lock") \/ Starting(s) \/ In(s, "reset", "zero_pnl")

LockInv ==
  /\ TypeOK /\ KeptApart
  /\ \A s \in Slots : In(s, "reset", "set_equity") => dailyPnl = 0
  /\ LimitReached(dailyPnl, startingEquity) => lock \/ \E s \in Slots : Pursues(s)

LEMMA LockInvStep ==
  ASSUME {"close", "reset"} \in Apart, ~Failing, LockInv, NEW s \in Slots, Step(s)
  PROVE  LockInv'
<1> USE DEF LockInv
<1>1. TypeOK' /\ KeptApart'
  BY NextTypeOK, KeptApartNext DEF Next
<1>2. ASSUME NEW t \in Slots, t # s
      PROVE  run'[t] = run[t] /\ (\A w : At(t, w)' <=> At(t, w))
             /\ \A o, w : In(t, o, w)' <=> In(t, o, w)
  BY <1>2, OthersStay, Unmoved
<1>3. ASSUME NEW t \in Slots, In(t, "reset", "set_equity")' PROVE dailyPnl' = 0
  <2>1. CASE t = s
    BY <1>3, <2>1, RiskReached DEF ZeroPnl
  <2>2. CASE t # s
    <3>1. run[t].op = "reset" /\ dailyPnl = 0
      BY <1>2, <1>3, <2>2 DEF In
    <3>2. ~SetPnl(s)
      BY <2>2, <3>1, RiskSteps DEF KeptApart
    <3> QED
      BY <3>1, <3>2, RiskKeys
  <2> QED
    BY <2>1, <2>2
<1>4. ASSUME LimitReached(dailyPnl', startingEquity')
      PROVE  lock' \/ \E t \in Slots : Pursues(t)'
  <2>1. CASE SetPnl(s)
    <3>1. At(s, "get_equity")' /\ run'[s].val = dailyPnl'
      BY <2>1, RiskSteps DEF SetPnl, In
    <3> QED
      BY <3>1 DEF Pursues
  <2>2. CASE SetLock(s)
    BY <2>2 DEF SetLock
  <2>3. CASE DeleteLock(s)
    BY <2>3, RiskSteps DEF Pursues
  <2>4. CASE ZeroPnl(s)
    BY <1>4, <2>4 DEF ZeroPnl, LimitReached
  <2>5. CASE SetEquity(s)
    <3>1. CASE run[s].op = "reset"
      <4>1. dailyPnl' = 0
        BY <2>5, <3>1 DEF SetEquity, In
      <4> QED
        BY <1>4, <4>1 DEF LimitReached
    <3>2. CASE run[s].op = "initialize"
      BY <2>5, <3>2, RiskSteps DEF Pursues
    <3> QED
      BY <2>5, <3>1, <3>2, RiskSteps
  <2>6. CASE UNCHANGED riskVars /\ ~SetPnl(s) /\ ~SetLock(s) /\ ~DeleteLock(s) /\ ~ZeroPnl(s)
    <3>1. dailyPnl' = dailyPnl /\ startingEquity' = startingEquity /\ lock' = lock
      BY <2>6 DEF riskVars
    <3>2. CASE lock
      BY <3>1, <3>2
    <3>3. ASSUME NEW t \in Slots, Pursues(t), t # s PROVE Pursues(t)'
      BY <1>2, <3>1, <3>3 DEF Pursues, Starting
    <3>4. CASE Pursues(s)
      <4>1. At(s, "get_equity") /\ run[s].val = dailyPnl
        BY <2>6, <3>4, StepAt DEF Pursues, Starting, In
      <4>2. GetEquity(s) /\ LimitReached(run[s].val, startingEquity)
        BY <1>4, <3>1, <4>1, StepAt
      <4> QED
        BY <4>2, RiskSteps DEF Pursues, In
    <3> QED
      BY <1>4, <3>1, <3>2, <3>3, <3>4
  <2> QED
    BY <2>1, <2>2, <2>3, <2>4, <2>5, <2>6, RiskKeys
<1> QED
  BY <1>1, <1>3, <1>4

\* A loss at the limit locks trading: whenever no request runs, a daily sum at or
\* below the limit has set risk:lock.  Closes, first starts and whatever else may run
\* beside each other; only no reset runs beside a close, and no command raises.
THEOREM LimitLocks ==
  ASSUME {"close", "reset"} \in Apart, ~Failing
  PROVE  Spec => []LossLocks
<1>1. Init => LockInv
  <2> SUFFICES ASSUME Init PROVE LockInv
    OBVIOUS
  <2>1. \A s \in Slots : \A w : ~At(s, w)
    BY DEF Init, Idle, At
  <2> QED
    BY <2>1, InitTypeOK, KeptApartInit DEF Init, LockInv, LimitReached, In
<1>2. LockInv /\ [Next]_vars => LockInv'
  <2> SUFFICES ASSUME LockInv, [Next]_vars PROVE LockInv'
    OBVIOUS
  <2>1. CASE StateExpires \/ UNCHANGED vars
    <3>1. UNCHANGED <<run, dailyPnl, lock, startingEquity>>
      BY <2>1 DEF StateExpires, vars, keyVars, riskVars
    <3>2. TypeOK' /\ KeptApart'
      BY NextTypeOK, KeptApartNext DEF LockInv
    <3> QED
      BY <3>1, <3>2 DEF LockInv, Pursues, Starting, In, At
  <2> QED
    BY <2>1, LockInvStep DEF Next, Dies
<1>3. LockInv => LossLocks
  <2> SUFFICES ASSUME LockInv, AtRest, startingEquity > 0,
                      -dailyPnl * 100 >= MaxLossPct * startingEquity
               PROVE  lock
    BY DEF LossLocks
  <2>1. dailyPnl \in Int /\ startingEquity \in Equities \cup {0}
    BY DEF LockInv, TypeOK
  <2>2. LimitReached(dailyPnl, startingEquity)
    BY <2>1, Limits DEF Abstract!Breached
  <2>3. \A s \in Slots : \A w : ~At(s, w)
    BY AtActive DEF AtRest, LockInv
  <2> QED
    BY <2>2, <2>3 DEF LockInv, Pursues, Starting, In
<1> QED
  BY <1>1, <1>2, <1>3, PTL DEF Spec

-----------------------------------------------------------------------------
(***************************************************************************)
(* Without the operations that write the starting equity.                  *)
(***************************************************************************)
DayUnknown ==
  /\ TypeOK
  /\ startingEquity = 0 /\ lock = FALSE
  /\ \A s \in Slots : ~At(s, "set_lock")

LEMMA DayUnknownStep ==
  ASSUME Calls \cap {"reset", "initialize"} = {}, DayUnknown, NEW s \in Slots, Step(s)
  PROVE  DayUnknown'
<1> USE DEF DayUnknown
<1>1. run[s].op \notin {"reset", "initialize"}
  BY Active DEF Idle
<1>2. ~SetEquity(s) /\ ~DeleteLock(s) /\ ~ZeroPnl(s)
  BY <1>1, RiskSteps
<1>3. ~SetLock(s)
  BY DEF SetLock
<1>4. lock' = FALSE /\ startingEquity' = 0
  <2>1. CASE SetPnl(s)
    BY <2>1 DEF SetPnl
  <2>2. CASE UNCHANGED riskVars
    BY <2>2 DEF riskVars
  <2> QED
    BY <1>2, <1>3, <2>1, <2>2, RiskKeys
<1>5. ~At(s, "set_lock")'
  <2>1. CASE Ends(s)
    BY <2>1, Ended DEF In
  <2>2. CASE Begin(s)
    <3>1. \A o \in Op : First[o] # "set_lock"
      BY DEF Op, Script, First
    <3> QED
      BY <2>2, <3>1, Begun DEF In
  <2>3. CASE At(s, "get_equity") /\ SkipsOne(s)
    <3>1. PICK r : Replaces(s, r) /\ Successor(s, "delete_position", run[s].val, r)
      BY <2>3, SkipsStep
    <3> QED
      BY <3>1 DEF Replaces, Successor, At
  <2>4. CASE GetEquity(s)
    <3>1. ~LimitReached(run[s].val, startingEquity)
      BY DEF LimitReached
    <3> QED
      BY <2>3, <2>4, <3>1 DEF GetEquity
  <2>5. ASSUME NEW w, NEW val, At(s, w), Advances(s, w, val), ~Begin(s), ~Ends(s), ~GetEquity(s)
        PROVE  ~At(s, "set_lock")'
    <3>1. w # "get_equity"
      <4> SUFFICES ASSUME At(s, "get_equity") PROVE FALSE
        BY <2>5
      <4>1. \A v : At(s, v) => v = "get_equity"
        BY DEF At
      <4>2. /\ ~GetLock(s) /\ ~ReadMarket(s) /\ ~HasPosition(s) /\ ~GetSuccess(s)
            /\ ~DeleteSuccess(s) /\ ~Persist(s)
        BY <4>1 DEF GetLock, ReadMarket, HasPosition, GetSuccess, DeleteSuccess, Persist
      <4>3. /\ ~SetPosition(s) /\ ~RecordPosition(s) /\ ~SetSuccess(s) /\ ~DeletePending(s)
            /\ ~DeletePosition(s) /\ ~GetPosition(s) /\ ~GetPnl(s) /\ ~SetPnl(s)
            /\ ~GetExisting(s)
        BY <4>1 DEF SetPosition, RecordPosition, SetSuccess, DeletePending, DeletePosition,
                    GetPosition, GetPnl, SetPnl, GetExisting
      <4> QED
        BY <1>2, <1>3, <2>5, <4>2, <4>3 DEF Step, Raises
    <3>2. \A o : <<o, w, "set_lock">> \in Follows => w = "get_equity"
      BY Predecessors
    <3> QED
      BY <2>5, <3>1, <3>2, Moves DEF In
  <2> QED
    BY <2>1, <2>2, <2>3, <2>4, <2>5, StepKinds
<1>6. ASSUME NEW t \in Slots, t # s PROVE ~At(t, "set_lock")'
  BY <1>6, OthersStay, Unmoved
<1>7. TypeOK'
  BY NextTypeOK DEF Next
<1> QED
  BY <1>4, <1>5, <1>6, <1>7

\* Where nothing calls reset_daily or initialize, as in the code today, the starting
\* equity stays unknown and risk:lock is never set, however large the loss, whatever
\* requests run beside each other and whatever raises.
THEOREM NoDayNoLock ==
  ASSUME Calls \cap {"reset", "initialize"} = {}
  PROVE  Spec => [](startingEquity = 0 /\ ~lock)
<1>1. Init => DayUnknown
  BY InitTypeOK DEF Init, DayUnknown, Idle, At
<1>2. DayUnknown /\ [Next]_vars => DayUnknown'
  <2> SUFFICES ASSUME DayUnknown, [Next]_vars PROVE DayUnknown'
    OBVIOUS
  <2>1. CASE StateExpires \/ UNCHANGED vars
    <3>1. UNCHANGED <<run, lock, startingEquity>>
      BY <2>1 DEF StateExpires, vars, keyVars, riskVars
    <3> QED
      BY <3>1, NextTypeOK DEF DayUnknown, At
  <2>2. CASE Dies
    BY <2>2, NextTypeOK DEF DayUnknown, Dies, keyVars, riskVars, At, Idle
  <2> QED
    BY <2>1, <2>2, DayUnknownStep DEF Next
<1>3. DayUnknown => startingEquity = 0 /\ ~lock
  BY DEF DayUnknown
<1> QED
  BY <1>1, <1>2, <1>3, PTL DEF Spec
-----------------------------------------------------------------------------
(***************************************************************************)
(* A restart in the middle of a day, with failures.                        *)
(***************************************************************************)
\* An initialize that comes to its SET of the equity has just read that there is none.
LEMMA EquityWasMissing ==
  ASSUME TypeOK, NEW s \in Slots, Step(s), In(s, "initialize", "set_equity")'
  PROVE  startingEquity = 0 /\ startingEquity' = 0
<1>1. ~Ends(s)
  BY Ended
<1>2. ~Begin(s)
  <2>1. First["initialize"] # "set_equity"
    BY DEF First
  <2> QED
    BY <2>1, Begun
<1>3. ~(At(s, "get_equity") /\ SkipsOne(s))
  <2> SUFFICES ASSUME At(s, "get_equity"), SkipsOne(s) PROVE FALSE
    OBVIOUS
  <2>1. PICK r : Replaces(s, r) /\ Successor(s, "delete_position", run[s].val, r)
    BY SkipsStep
  <2> QED
    BY <2>1 DEF Replaces, Successor, In, At
<1>4. PICK w, val : At(s, w) /\ Advances(s, w, val)
  BY <1>1, <1>2, <1>3, StepKinds
<1>5. w = "get_existing"
  <2>1. <<"initialize", w, "set_equity">> \in Follows
    BY <1>4, Moves
  <2> QED
    BY <2>1 DEF Follows
<1>6. GetExisting(s)
  <2>1. \A v : At(s, v) => v = "get_existing"
    BY <1>4, <1>5 DEF At
  <2>2. /\ ~GetLock(s) /\ ~ReadMarket(s) /\ ~HasPosition(s) /\ ~GetSuccess(s)
        /\ ~DeleteSuccess(s) /\ ~Persist(s)
    BY <2>1 DEF GetLock, ReadMarket, HasPosition, GetSuccess, DeleteSuccess, Persist
  <2>3. /\ ~SetPosition(s) /\ ~RecordPosition(s) /\ ~SetSuccess(s) /\ ~DeletePending(s)
        /\ ~DeletePosition(s) /\ ~GetPosition(s) /\ ~GetPnl(s)
    BY <2>1 DEF SetPosition, RecordPosition, SetSuccess, DeletePending, DeletePosition,
                GetPosition, GetPnl
  <2>4. /\ ~SetPnl(s) /\ ~GetEquity(s) /\ ~SetLock(s) /\ ~DeleteLock(s) /\ ~ZeroPnl(s)
        /\ ~SetEquity(s)
    BY <2>1 DEF SetPnl, GetEquity, SetLock, DeleteLock, ZeroPnl, SetEquity
  <2>5. ~Raises(s)
    BY <1>1 DEF Raises
  <2> QED
    BY <1>2, <2>2, <2>3, <2>4, <2>5 DEF Step
<1> QED
  BY <1>1, <1>6 DEF GetExisting, IsMissing, keyVars, riskVars

StartInv == TypeOK /\ KeptApart /\ RestartKeepsDay

LEMMA StartInvStep ==
  ASSUME StartsApart \subseteq Apart, StartInv, NEW s \in Slots, Step(s)
  PROVE  RestartKeepsDay'
<1> USE DEF StartInv
<1> SUFFICES ASSUME NEW t \in Slots, In(t, "initialize", "set_equity")'
             PROVE  startingEquity' = 0
  BY DEF RestartKeepsDay, In
<1>1. CASE t = s
  BY <1>1, EquityWasMissing
<1>2. CASE t # s
  <2>1. run[t].op = "initialize" /\ At(t, "set_equity")
    BY <1>2, OthersStay, Unmoved DEF In
  <2>2. startingEquity = 0
    BY <2>1 DEF RestartKeepsDay
  <2>3. ~SetEquity(s)
    <3>1. run[s].op \notin {"reset", "initialize"}
      <4>1. {run[t].op, run[s].op} \notin Apart
        BY <1>2 DEF KeptApart
      <4>2. {"initialize", "reset"} \in Apart /\ {"initialize", "initialize"} \in Apart
        BY DEF StartsApart
      <4> QED
        BY <2>1, <4>1, <4>2
    <3> QED
      BY <3>1, RiskSteps
  <2> QED
    BY <2>2, <2>3, RiskKeys DEF SetPnl, SetLock, DeleteLock, ZeroPnl, riskVars
<1> QED
  BY <1>1, <1>2

\* A restart keeps the day's starting equity, for any number of requests, with commands
\* that raise and a process that dies between any two of them, if the service starts
\* once at a time and not at the moment of a reset.
THEOREM RestartsKeepDay ==
  ASSUME StartsApart \subseteq Apart
  PROVE  Spec => []RestartKeepsDay
<1>1. Init => StartInv
  <2>1. Init => RestartKeepsDay
    BY DEF Init, RestartKeepsDay, Idle, At
  <2> QED
    BY <2>1, InitTypeOK, KeptApartInit DEF StartInv
<1>2. StartInv /\ [Next]_vars => StartInv'
  <2> SUFFICES ASSUME StartInv, [Next]_vars PROVE StartInv'
    OBVIOUS
  <2>1. TypeOK' /\ KeptApart'
    BY NextTypeOK, KeptApartNext DEF StartInv
  <2>2. CASE StateExpires \/ UNCHANGED vars
    <3>1. UNCHANGED <<run, startingEquity>>
      BY <2>2 DEF StateExpires, vars, keyVars, riskVars
    <3> QED
      BY <2>1, <3>1 DEF StartInv, RestartKeepsDay, At
  <2>3. CASE Dies
    BY <2>1, <2>3 DEF StartInv, RestartKeepsDay, Dies, Idle, At
  <2> QED
    BY <2>1, <2>2, <2>3, StartInvStep DEF Next, StartInv
<1>3. StartInv => RestartKeepsDay
  BY DEF StartInv
<1> QED
  BY <1>1, <1>2, <1>3, PTL DEF Spec
=============================================================================
