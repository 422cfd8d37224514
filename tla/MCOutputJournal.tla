-------------------------- MODULE MCOutputJournal --------------------------
(* OutputJournal for TLC: two plans, two transactions. *)
EXTENDS OutputJournal

CONSTANTS p1, p2, none, t1, t2

PlansMC == {p1, p2}
TxMC == {t1, t2}
=============================================================================
