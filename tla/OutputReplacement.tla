------------------------- MODULE OutputReplacement -------------------------
(***************************************************************************)
(* What a replacement of the generated output tree promises, with nothing  *)
(* said of staging trees, journals or backups.  A caller asks for a plan   *)
(* to be materialized; until the call is acknowledged the tree that a      *)
(* reader of the output root ends up with is either the tree of the last   *)
(* acknowledged call or the tree of a call made since then.  A call that   *)
(* is acknowledged leaves only its own tree possible, across crashes too.  *)
(***************************************************************************)
CONSTANTS
    Plans,      \* the build plans that callers materialize
    NoPlan      \* "there is no output tree"

VARIABLES
    current,    \* the plan whose tree is, or recovery will put, at the output root
    outcomes,   \* the plans that current may still turn out to be
    request     \* the plan of the call in progress, or NoPlan

vars == <<current, outcomes, request>>

Init ==
    /\ current \in Plans \cup {NoPlan}
    /\ outcomes = {current}
    /\ request = NoPlan

\* A caller asks for p to be materialized.
Begin(p) ==
    /\ request = NoPlan
    /\ request' = p
    /\ outcomes' = outcomes \cup {p}
    /\ UNCHANGED current

\* The output root switches between whole outcomes: an installation, its
\* rollback, or what an unsynced rename turns into when power is lost.
Switch ==
    /\ current' \in outcomes
    /\ UNCHANGED outcomes
    /\ request' \in {request, NoPlan}

\* The call succeeds: its plan is the only outcome left.
Acknowledge ==
    /\ request # NoPlan
    /\ current = request
    /\ outcomes' = {request}
    /\ request' = NoPlan
    /\ UNCHANGED current

\* The call fails, or the process dies: every outcome stays possible.
Abandon ==
    /\ request' = NoPlan
    /\ UNCHANGED <<current, outcomes>>

Next ==
    \/ \E p \in Plans : Begin(p)
    \/ Switch
    \/ Acknowledge
    \/ Abandon

Spec == Init /\ [][Next]_vars

-----------------------------------------------------------------------------
\* Every outcome is a plan somebody asked for, and current is one of them.
TypeOK ==
    /\ outcomes \subseteq Plans \cup {NoPlan}
    /\ request \in Plans \cup {NoPlan}
    /\ current \in outcomes
=============================================================================
