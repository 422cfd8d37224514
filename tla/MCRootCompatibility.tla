------------------------ MODULE MCRootCompatibility ------------------------
(***************************************************************************)
(* An instance of RootCompatibility: an array entry, a dependency with two *)
(* versions, which the v0.5.1 runtime required as well, the extension of   *)
(* that runtime, the Claude marker and one Codex profile.                  *)
(***************************************************************************)
EXTENDS RootCompatibility

MCKeys == {"entry", "chalk", "pi-subagents"}
MCAllowed == [k \in MCKeys |-> IF k = "chalk" THEN {"v1", "v2"} ELSE {"listed"}]
MCFiles == {"marker", "profile"}
MCOwner == [f \in MCFiles |-> IF f = "marker" THEN "claude" ELSE "codex"]
MCRank == [p \in MCFiles \cup {"package.json", ".npmrc", "state"} |->
             CASE p = "state" -> 1 [] p = "marker" -> 2 [] p = "profile" -> 3
               [] p = ".npmrc" -> 4 [] OTHER -> 5]

Generated(entry, chalk) ==
    [k \in MCKeys |-> CASE k = "entry" -> entry [] k = "chalk" -> chalk
                       [] OTHER -> "none"]

GeneratedFiles(profile) ==
    [f \in MCFiles |-> IF f = "profile" THEN profile ELSE "generated"]

Source(targets, enabled, keys, profile) ==
    [targets |-> targets, enabled |-> enabled, keys |-> keys,
     files |-> GeneratedFiles(profile)]

\* Everything enabled, with a manifest of both keys or of one; Pi disabled,
\* with a Codex profile and without; nothing enabled and Pi no longer a target;
\* a selection that misses an enabled target.
MCSources ==
    LET all == {"claude", "codex", "pi"}
        both == Generated("listed", "v1")
    IN  {Source(all, all, both, "generated"),
         Source(all, all, Generated("listed", "none"), "generated"),
         Source(all, all, Generated("none", "v1"), "none"),
         Source(all, {"claude", "codex"}, both, "generated"),
         Source(all, {"claude", "codex"}, both, "none"),
         Source({"claude", "codex"}, {}, both, "none"),
         Source({"claude", "codex"}, all, both, "generated")}
=============================================================================
