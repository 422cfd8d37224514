------------------------------ MODULE HookRun ------------------------------
(***************************************************************************)
(* What the Pi hook runtime may expect of a ProcessRunner: one run of a    *)
(* hook command is condemned by at most one cause, and settles once.  A    *)
(* run that was condemned is rejected for that cause and no other; one     *)
(* that was not is resolved with what the command said.                    *)
(***************************************************************************)
CONSTANTS
    Causes,     \* why a run is condemned: a timeout, an abort, ...
    NoCause     \* it is not: no member of Causes

VARIABLES
    cause,      \* what condemned the run
    outcome     \* "pending", "resolved" or "rejected"

vars == <<cause, outcome>>

Init == cause = NoCause /\ outcome = "pending"

Condemn(c) ==
    /\ outcome = "pending"
    /\ cause = NoCause
    /\ cause' = c
    /\ outcome' \in {"pending", "rejected"}

Reject ==
    /\ outcome = "pending"
    /\ cause # NoCause
    /\ outcome' = "rejected"
    /\ UNCHANGED cause

Resolve ==
    /\ outcome = "pending"
    /\ cause = NoCause
    /\ outcome' = "resolved"
    /\ UNCHANGED cause

Next == (\E c \in Causes : Condemn(c)) \/ Reject \/ Resolve

Spec == Init /\ [][Next]_vars
=============================================================================
