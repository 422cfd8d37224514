------------------------- MODULE MCWorkspaceLayout -------------------------
(***************************************************************************)
(* Instances of WorkspaceLayout: a source directory with one below it, an  *)
(* output, and an alias, with paths that differ in case, lead through the  *)
(* alias, or name what does not exist.                                     *)
(***************************************************************************)
EXTENDS WorkspaceLayout, TLC

MCNames == {"src", "SRC", "out", "OUT", "gen", "ln", "rel"}
MCLower == [n \in MCNames |-> CASE n = "SRC" -> "src" [] n = "OUT" -> "out" [] OTHER -> n]

MCDirs == {"root", "S", "G", "O", "R", "new1", "new2"}

Tree(entries) ==
    [d \in MCDirs |-> [n \in MCNames |->
        IF <<d, n>> \in DOMAIN entries THEN entries[<<d, n>>] ELSE Nothing]]

At(dir, name, to) == <<dir, name>> :> to

Sources == At("root", "src", Directory("S")) @@ At("S", "gen", Directory("G"))
Output == At("root", "out", Directory("O"))

MCTrees ==
    {Tree(Sources @@ Output @@ At("root", "rel", Directory("R"))),
     Tree(Sources @@ At("root", "ln", Link(<<"src">>))),
     Tree(Sources @@ Output @@ At("root", "ln", Link(<<"src", "gen">>)) @@ At("root", "gen", Directory("R"))),
     Tree(Sources @@ Output @@ At("root", "ln", Link(<<"out">>)) @@ At("root", "rel", Link(<<"gen">>))),
     Tree(Sources @@ At("root", "ln", Link(<<"ln">>))),
     Tree(Sources @@ At("root", "ln", Link(<<"src", "rel">>)))}

Request(command, source, output, destination) ==
    [command |-> command, source |-> source, output |-> output, destination |-> destination]

SourcePaths == {<<"src">>, <<"SRC", "gen">>, <<"ln">>, <<>>}
OutputPaths == {<<"out">>, <<"SRC">>, <<"src", "gen">>, <<"ln">>, <<"gen", "out">>}
Destinations == {<<"rel">>, <<"OUT", "rel">>, <<"ln", "rel">>, <<"src">>}

MCRequests ==
    {Request(c, s, o, <<"rel">>) : c \in {"build", "check"}, s \in SourcePaths, o \in OutputPaths}
        \cup {Request("package", s, o, d) : s \in SourcePaths, o \in OutputPaths, d \in Destinations}

Change(name, to) == [dir |-> "root", name |-> name, to |-> to]

MCEdits ==
    {Change("src", Link(<<"out">>)), Change("src", Nothing),
     Change("out", Link(<<"src">>)), Change("out", Nothing),
     Change("gen", Link(<<"src">>)), Change("gen", Nothing),
     Change("ln", Link(<<"out">>)), Change("ln", Link(<<"src">>)),
     Change("rel", Link(<<"out">>)), Change("rel", Link(<<"src", "gen">>))}
=============================================================================
