------------------------------ MODULE FrontEnd ------------------------------
(***************************************************************************)
(* The first half of RunCli of src/src/Runner.cpp: the command line is     *)
(* read, the headers are searched, the classes are resolved, each with     *)
(* what the one before it made.  Runner takes over where this ends.        *)
(***************************************************************************)
EXTENDS CompilationResolver

CONSTANT Setups  \* command line, file system and translation units to consider

ASSUME ArgumentsGiven == \A setup \in Setups : IsCommandLine(setup.arguments)
ASSUME TreesGiven == \A setup \in Setups : IsTree(setup.tree)
ASSUME SourcesGiven == \A setup \in Setups : AreSources(setup.sources)
ASSUME LinesGiven == \A setup \in Setups :
  \A command \in Range(setup.sources.commands) : IsCompilerCommand(command)
ASSUME MapsGiven == \A text \in DOMAIN MapNamed :
  IsNormal(MapNamed[text][1]) /\ IsNormal(MapNamed[text][2])
ASSUME PathsGiven == \A text \in DOMAIN PathNamed : IsNormal(PathNamed[text])

VARIABLE stage   \* "options", "scan", "resolve", "end" or "exit"

vars == <<stage, arguments, tree, sources, configVars, scanVars, resolverVars>>
-----------------------------------------------------------------------------
ReadOptions ==
  /\ stage = "options" /\ ~parsed
  /\ ParseConfig
  /\ UNCHANGED <<stage, sources, scanVars, resolverVars>>

(* Help, or an error and perhaps its report *)
ExitAfterOptions ==
  /\ stage = "options" /\ parsed
  /\ help \/ errors # {}
  /\ stage' = "exit"
  /\ UNCHANGED <<arguments, tree, sources, configVars, scanVars, resolverVars>>

BeginScan ==
  /\ stage = "options" /\ parsed
  /\ ~help /\ errors = {}
  /\ stage' = "scan"
  /\ UNCHANGED <<arguments, tree, sources, configVars, scanVars, resolverVars>>

SearchHeaders ==
  /\ stage = "scan" /\ scan # "done"
  /\ ScanHeaders
  /\ UNCHANGED <<stage, arguments, tree, sources, configVars, resolverVars>>

ExitAfterScan ==
  /\ stage = "scan" /\ scan = "done"
  /\ scan_errors # {}
  /\ stage' = "exit"
  /\ UNCHANGED <<arguments, tree, sources, configVars, scanVars, resolverVars>>

BeginResolve ==
  /\ stage = "scan" /\ ScanSucceeded
  /\ stage' = "resolve"
  /\ UNCHANGED <<arguments, tree, sources, configVars, scanVars, resolverVars>>

ResolveClasses ==
  /\ stage = "resolve" /\ ~Resolved
  /\ ResolveCompilation
  /\ UNCHANGED <<stage, arguments, tree, configVars, scanVars>>

(* Errors of the resolver do not end the run: see GenerationPolicy. *)
EndResolve ==
  /\ stage = "resolve" /\ Resolved
  /\ stage' = "end"
  /\ UNCHANGED <<arguments, tree, sources, configVars, scanVars, resolverVars>>

Init ==
  /\ \E setup \in Setups :
       /\ arguments = setup.arguments
       /\ tree = setup.tree
       /\ sources = setup.sources
       /\ scan_faults = setup.faults
  /\ stage = "options"
  /\ ConfigInit /\ ScanInit /\ ResolverInit

(* RunCli goes on with the generation, or returns. *)
Terminated ==
  /\ stage \in {"end", "exit"}
  /\ UNCHANGED vars

Next ==
  \/ ReadOptions \/ ExitAfterOptions \/ BeginScan
  \/ SearchHeaders \/ ExitAfterScan \/ BeginResolve
  \/ ResolveClasses \/ EndResolve
  \/ Terminated

Spec == Init /\ [][Next]_vars
=============================================================================
