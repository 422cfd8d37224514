-------------------------- MODULE MCReleaseArchive --------------------------
(***************************************************************************)
(* Instances of ReleaseArchive: two Agent Plugins packages with an archive *)
(* each and another target with one archive of its own.                    *)
(***************************************************************************)
EXTENDS ReleaseArchive

MCFold == ("one" :> "one") @@ ("two" :> "two") @@ ("Two" :> "two") @@ ("pi" :> "pi") @@ ("con" :> "con")
MCBadStems == {"con"}

Unit(top, stem) == [root |-> top, stem |-> stem]

One == <<"one">>
Two == <<"two">>

\* The files of the Agent Plugins target, with the version of the last one.
PluginFiles(version) ==
    (<<"one", "skill">> :> "v1") @@ (<<"two", "skill">> :> version)

Plugins(version, units) ==
    [target |-> "agent-plugins", files |-> PluginFiles(version), units |-> units]

Pi == [target |-> "pi", files |-> (<<"package.json">> :> "v1"), units |-> <<Unit(<<>>, "pi")>>]

Named(targets) == [named |-> TRUE, targets |-> targets]

TwoUnits == <<Unit(One, "one"), Unit(Two, "two")>>

\* What an adapter returns, before and after one file changes, and with one
\* target more.
GoodPlans ==
    {Named(<<Plugins("v1", TwoUnits)>>), Named(<<Plugins("v2", TwoUnits), Pi>>)}

\* A target without files needs no archive.
EmptyPlan == Named(<<[target |-> "pi", files |-> <<>>, units |-> <<>>]>>)

\* Plans that must be refused: no name and a reserved name, names that only
\* case tells apart, units that overlap, files without an archive unit.
BadPlans ==
    {[named |-> FALSE, targets |-> <<Plugins("v1", <<Unit(One, "one"), Unit(Two, "con")>>)>>],
     Named(<<Plugins("v1", <<Unit(One, "two"), Unit(Two, "Two")>>)>>),
     Named(<<Plugins("v1", <<Unit(One, "one"), Unit(<<>>, "two")>>)>>),
     Named(<<Plugins("v1", <<>>)>>)}
AllPlans == GoodPlans \cup BadPlans \cup {EmptyPlan}

\* Commands and directories are interchangeable.
SymmetryMC == Permutations(Procs) \cup Permutations(Bases) \cup Permutations(Dirs)
=============================================================================
