--------------------------- MODULE MCOutputWriter ---------------------------
(***************************************************************************)
(* Instances of OutputWriter for TLC.  A call asks for the mock and the    *)
(* fake of one class and a file of no class, or for one of them.           *)
(***************************************************************************)
EXTENDS OutputWriter

CONSTANTS mock, fake, all, bad, new, other, ClassA, ClassB, nc

MCPaths == {mock, fake, all}

F(p, c) == [path |-> p, class |-> c, content |-> new]

Sets == {<<F(mock, ClassA), F(fake, ClassA), F(all, nc)>>}

SmallSets == {<<F(mock, ClassA), F(fake, ClassB)>>,
              <<F(mock, ClassA), F(bad, nc)>>,
              <<F(fake, nc), F(mock, ClassA), F(fake, ClassA)>>}

Calls(sets, dry) == [files : sets, overwrite : BOOLEAN, dry_run : dry]

FaultRequests == Calls(Sets \union SmallSets, BOOLEAN)

TwoFiles == {<<F(mock, ClassA), F(fake, ClassB)>>}

CrashRequests == Calls(TwoFiles, {FALSE})

CrashPaths == {mock, fake}
=============================================================================
