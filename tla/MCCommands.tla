----------------------------- MODULE MCCommands -----------------------------
(***************************************************************************)
(* Two packages, and two targets of which one cannot render a version.     *)
(***************************************************************************)
EXTENDS Commands

MCVersions == {"v1", "v2", "broken"}
MCUnsupported == {<<"codex", "v2">>}
=============================================================================
