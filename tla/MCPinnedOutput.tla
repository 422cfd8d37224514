-------------------------- MODULE MCPinnedOutput --------------------------
(* PinnedOutput for TLC: two plans, two builders. *)
EXTENDS PinnedOutput, TLC

CONSTANTS b1, b2, p1, p2, none, t1, t2

BuildersMC == {b1, b2}
PlansMC == {p1, p2}
TxMC == {t1, t2}

\* Builders, plans and suffixes are interchangeable.
SymmetryMC ==
    Permutations(BuildersMC) \cup Permutations(PlansMC) \cup Permutations(TxMC)
=============================================================================
