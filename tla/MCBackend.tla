----------------------------- MODULE MCBackend -----------------------------
(***************************************************************************)
(* Instances of Backend for TLC.                                           *)
(***************************************************************************)
EXTENDS Backend, TLC

\* The requests on the keys of the ledger and of the fills.
KeyCalls == Op \ {"approve", "check_risk", "scan"}

\* The same and those that only read.
ReadersToo == Op \ {"approve"}

AllApart == ClosesApart \cup ManagesApart
AllAndStartsApart == AllApart \cup StartsApart

\* A loss of 3 reaches the limit of 3 per cent of 100 exactly, one of 2 does not.
MixedProfits == {-3, -2, 0, 2}
Losses == {-3, -1, 0}

\* The invariants do not tell the coroutines apart.
EitherSlot == Permutations(Slots)
=============================================================================
