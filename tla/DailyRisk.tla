----------------------------- MODULE DailyRisk -----------------------------
(***************************************************************************)
(* What RiskEngine promises: a day's profit and loss is the sum of the     *)
(* trades booked in it, and the loss limit locks trading at once and until *)
(* the next day.  Every operation is one step.                             *)
(***************************************************************************)
EXTENDS Integers

CONSTANTS Equities,    \* positive amounts an account may hold
          Profits,     \* profits and losses of a trade
          MaxLossPct   \* max_daily_loss_pct

VARIABLES pnl, lock, equity

\* The loss is at least MaxLossPct per cent of the day's starting equity.
Breached(p, e) == e > 0 /\ -p * 100 >= MaxLossPct * e

\* There is no starting equity until the first day begins.
Init == pnl = 0 /\ lock = FALSE /\ equity = 0

Book ==
  \E p \in Profits :
    /\ pnl' = pnl + p
    /\ lock' = (lock \/ Breached(pnl', equity))
    /\ UNCHANGED equity

\* A new day begins with a clear account.  Nothing says when: reset_daily looks at no
\* clock and no key, whoever calls it begins a day.
BeginDay == pnl' = 0 /\ lock' = FALSE /\ equity' \in Equities

\* The first start of the service, with nothing known of the day.
FirstStart ==
  /\ equity = 0
  /\ pnl' = 0
  /\ equity' \in Equities
  /\ UNCHANGED lock

Next == Book \/ BeginDay \/ FirstStart

Spec == Init /\ [][Next]_<<pnl, lock, equity>>
=============================================================================
