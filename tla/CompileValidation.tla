------------------------- MODULE CompileValidation -------------------------
(***************************************************************************)
(* ValidateGeneratedOutputCompile of                                       *)
(* src/src/validation/GeneratedCompileValidator.cpp: the generated files   *)
(* are written to a temporary tree and compiled there, each under the      *)
(* arguments of its own class, and linked.  A command is one step here;    *)
(* RunCommand is about what happens within one.                            *)
(*                                                                         *)
(* The tree's name is made from the process identifier and a counter, so   *)
(* a call may find the tree of a process that died, or that kept it.       *)
(***************************************************************************)
EXTENDS Naturals, Sequences, FiniteSets, SequencesExt

CONSTANTS
  Inputs,    \* options and generated files of the calls to consider
  MaxRuns,   \* bound: calls
  MaxCrashes \* bound: deaths of the process

VARIABLES
  input,        \* the options and the files of the call
  pc,           \* what the call does next
  i,            \* index in the loop of the phase
  staged,       \* the files accepted for the tree, with normal paths
  exists,       \* the root of the tree exists
  store,        \* the files in the tree
  commands,     \* result.commands
  diagnostics,  \* result.diagnostics
  object_paths, \* what will be linked
  keep,         \* the tree outlives the call
  runs, crashes \* counters: runs names the call, crashes is for its bound only

result == <<commands, diagnostics>>
vars == <<input, pc, i, staged, exists, store, result, object_paths, keep, runs, crashes>>

opt == input.options

Paths == [rooted : BOOLEAN, parts : Seq(STRING), ext : STRING]

Files == [rank : Nat, kind : STRING, path : Paths, class : STRING, header : STRING]

SourceArgs == [class : STRING, header : STRING, args : Seq(Seq(STRING))]

(* What a caller hands over: a finite number of files, each with its own place
   in the sorted order. *)
ASSUME InputsGiven ==
  \A given \in Inputs :
    /\ given.options.mode \in {"none", "syntax", "compile", "link"}
    /\ given.options.keep_failed_artifacts \in BOOLEAN
    /\ given.options.source_args \in Seq(SourceArgs)
    /\ given.files \subseteq Files /\ IsFiniteSet(given.files)
    /\ \A f, g \in given.files : f.rank = g.rank => f = g

(* How the generator names them: the headers of one kind end alike, and a fake
   lies in no directory that the objects of the headers have.  The search for
   collisions of objects relies on it: it compares fakes with fakes only. *)
ASSUME NamesGiven ==
  \A given \in Inputs : \A f, g \in given.files :
    /\ f.kind = g.kind /\ f.kind \in {"mock_header", "all_mocks_header"} =>
         f.path.ext = g.path.ext
    /\ f.kind = "fake_source" =>
         {"mock_headers", "all_mocks_header", "link_main_smoke"} \cap Range(f.path.parts) = {}
-----------------------------------------------------------------------------
(* The members of a sequence at some of its places, in their order. *)

Nth(places, n) == CHOOSE k \in places : Cardinality({j \in places : j <= k}) = n

At(s, places) == [n \in 1 .. Cardinality(places) |-> s[Nth(places, n)]]

(* Paths: components without the extension of the last, and that extension. *)

Normal(p) == [p EXCEPT !.parts = At(p.parts, {k \in DOMAIN p.parts : p.parts[k] # "."})]

StagingDirectory == ".mockfakegen-staging"

ValidateGeneratedPath(p) ==
  /\ p.parts # <<>> /\ ~p.rooted
  /\ ".." \notin Range(p.parts)
  /\ Last(p.parts) \notin {"", "."}
  /\ ~ /\ Head(Normal(p).parts) = StagingDirectory
       /\ Len(Normal(p).parts) > 1 \/ p.ext = ""

Below(directory, p, ext) == directory \o p.parts \o <<ext>>

OutputPath(p) == Below(<<"generated">>, p, p.ext)
FakeObjectPath(p) == Below(<<"objects">>, p, ".o")

SmokeDirectory(kind) ==
  IF kind = "mock_header" THEN "mock_header_smoke" ELSE "all_mocks_header_smoke"
SmokeSourcePath(f) == Below(<<SmokeDirectory(f.kind)>>, f.path, ".cpp")

SmokeObjectDirectory(kind) ==
  IF kind = "mock_header" THEN "mock_headers" ELSE "all_mocks_header"
SmokeObjectPath(f) == Below(<<"objects", SmokeObjectDirectory(f.kind)>>, f.path, ".o")

MainSmoke == <<"link_main_smoke", ".cpp">>
MainSmokeObject == <<"objects", "link_main_smoke", ".o">>
-----------------------------------------------------------------------------
(* Arguments: one of a command line is <<option>>, <<value>> or, joined,   *)
(* <<option, value>>.                                                      *)

IncludeSearchPathOptions ==
  {<<"-I">>, <<"-iquote">>, <<"-isystem">>, <<"-idirafter">>, <<"-iframework">>, <<"-F">>}

SeparateCompilePathOptions ==
  IncludeSearchPathOptions \union
  {<<"-include">>, <<"-imacros">>, <<"-include-pch">>, <<"-ivfsoverlay">>,
   <<"-isysroot">>, <<"--sysroot">>, <<"-resource-dir">>}

StandardOptions == {<<"-std">>, <<"--std">>}

(* The loops over arguments: an option in takes is read with the next one. *)
Items(args, takes) ==
  LET Step(acc, arg) ==
        IF acc.open
          THEN [items |-> Append(Front(acc.items), Append(Last(acc.items), arg)),
                open |-> FALSE]
          ELSE [items |-> Append(acc.items, <<arg>>), open |-> arg \in takes]
  IN FoldLeft(Step, [items |-> <<>>, open |-> FALSE], args).items

NormalizeCxx23StandardArgs(args) ==
  LET IsStandard(item) == item[1] \in StandardOptions \/ item[1][1] \in {"-std=", "--std="}
  IN FlattenSeq(SelectSeq(Items(args, StandardOptions), LAMBDA item : ~IsStandard(item)))
       \o << <<"-std=", "c++23">> >>

Compiler == <<"c++">>

BaseCompileArguments(extra_args) ==
  NormalizeCxx23StandardArgs(
    << Compiler, <<"-I">>, <<"generated">> >>
    \o FlattenSeq([k \in DOMAIN opt.include_dirs |-> << <<"-I">>, opt.include_dirs[k] >>])
    \o extra_args)

ValidationArgsByName(f) ==
  LET args == opt.source_args
      own == {k \in DOMAIN args : args[k].class = f.class}
  IN IF own = {} THEN opt.extra_args ELSE args[Nth(own, 1)].args

ValidationArgsForFile(f) ==
  LET args == opt.source_args
      own == {k \in DOMAIN args : args[k].class = f.class /\ args[k].header = f.header}
  IN IF own = {} THEN opt.extra_args ELSE args[Nth(own, 1)].args

Occurs(args, item) ==
  \E k \in 1 .. Len(args) - Len(item) + 1 : SubSeq(args, k, k + Len(item) - 1) = item

AppendUnique(args, item) == IF Occurs(args, item) THEN args ELSE args \o item

IsSearchItem(item) == Len(item) = 2 /\ item[1] \in IncludeSearchPathOptions

AppendAllMocksIncludeSearchArgs(args, compile_args) ==
  FoldLeft(AppendUnique, args,
           SelectSeq(Items(compile_args, SeparateCompilePathOptions), IsSearchItem))

AllSourceArgSetsContain(item) == \A s \in Range(opt.source_args) : Occurs(s.args, item)

AllMocksValidationArgs ==
  LET WithSearch == FoldLeft(LAMBDA args, s : AppendAllMocksIncludeSearchArgs(args, s.args),
                             opt.extra_args, opt.source_args)
      Common == SelectSeq(Items(Head(opt.source_args).args, SeparateCompilePathOptions),
                          LAMBDA item : ~IsSearchItem(item) /\ AllSourceArgSetsContain(item))
  IN IF opt.source_args = <<>> THEN opt.extra_args
     ELSE FoldLeft(AppendUnique, WithSearch, Common)
-----------------------------------------------------------------------------
(* What there is to compile, in the order in which it is *)

IsCxxValidationInput(f) ==
  f.kind \in {"runtime_header", "mock_header", "fake_source", "all_mocks_header"}

(* f.rank is the place of the file in the stable order of SortGeneratedFiles. *)
CxxFiles ==
  LET cxx == {f \in input.files : IsCxxValidationInput(f)}
      ranks == {f.rank : f \in cxx}
  IN [n \in 1 .. Cardinality(ranks) |-> CHOOSE f \in cxx : f.rank = Nth(ranks, n)]

Job(source, smoke, object, args) ==
  [source |-> source, smoke |-> smoke, object |-> object, args |-> BaseCompileArguments(args)]

PlacesOf(kind) == {k \in DOMAIN staged : staged[k].kind = kind}

JobsFor(kind, JobOf(_)) ==
  [n \in 1 .. Cardinality(PlacesOf(kind)) |-> JobOf(staged[Nth(PlacesOf(kind), n)])]

LinkNeedsMain == opt.mode = "link" /\ opt.link_files = <<>>

Jobs ==
  JobsFor("mock_header",
          LAMBDA f : Job(SmokeSourcePath(f), TRUE, SmokeObjectPath(f), ValidationArgsForFile(f)))
  \o JobsFor("all_mocks_header",
             LAMBDA f : Job(SmokeSourcePath(f), TRUE, SmokeObjectPath(f), AllMocksValidationArgs))
  \o (IF LinkNeedsMain THEN <<Job(MainSmoke, TRUE, MainSmokeObject, opt.extra_args)>> ELSE <<>>)
  \o JobsFor("fake_source",
             LAMBDA f : Job(OutputPath(f.path), FALSE, FakeObjectPath(f.path),
                            ValidationArgsForFile(f)))
-----------------------------------------------------------------------------
(* The call *)

(* A file of the tree: what it was made from, and by which call. *)
Made(path, source) == [path |-> path, source |-> source, run |-> runs]

With(path, source) == {f \in store : f.path # path} \union {Made(path, source)}

Torn == <<"torn">>

Say(about, artifact) ==
  diagnostics' = Append(diagnostics, [about |-> about, artifact |-> artifact])

(* An early return with a diagnostic. *)
GiveUp(about) ==
  /\ Say(about, opt.keep_failed_artifacts)
  /\ keep' = opt.keep_failed_artifacts
  /\ pc' = "destroy"

Ended == {"returned", "littered", "dead"}

Goto(next) == pc' = next /\ i' = 1

Begin ==
  /\ pc \in Ended /\ runs < MaxRuns
  /\ runs' = runs + 1
  /\ input' \in Inputs
  /\ pc' = IF input'.options.mode = "none" THEN "returned" ELSE "clear"
  /\ \/ UNCHANGED <<exists, store>>
     \/ exists' = FALSE /\ store' = {}  \* a name that has not been used
  /\ staged' = <<>> /\ commands' = <<>> /\ diagnostics' = <<>>
  /\ object_paths' = <<>> /\ keep' = FALSE /\ i' = 1
  /\ UNCHANGED crashes

ClearTreeNever ==
  /\ pc = "clear"
  /\ exists' = TRUE
  /\ Goto("stage")
  /\ UNCHANGED <<input, staged, store, result, object_paths, keep, runs, crashes>>

(* The constructor of TempTree. *)
ClearTree ==
  /\ pc = "clear"
  /\ store' = {} /\ exists' = TRUE
  /\ Goto("stage")
  /\ UNCHANGED <<input, staged, result, object_paths, keep, runs, crashes>>

Outputs == {f \in store : Head(f.path) = "generated"}

ClearTreeFails ==
  /\ pc = "clear"
  /\ store' \in {store, Outputs, {}}
  /\ exists' \in {exists, FALSE} /\ (store' # {} => exists')
  /\ Say("tree", FALSE)
  /\ pc' = "destroy"
  /\ UNCHANGED <<input, i, staged, commands, object_paths, keep, runs, crashes>>

Taken(f) == \E k \in DOMAIN staged : OutputPath(staged[k].path) = OutputPath(Normal(f.path))

StageFile ==
  /\ pc = "stage" /\ i <= Len(CxxFiles)
  /\ LET f == CxxFiles[i]
     IN IF ~ValidateGeneratedPath(f.path) \/ Taken(f)
          THEN GiveUp("path") /\ UNCHANGED <<i, staged>>
          ELSE /\ staged' = Append(staged, [f EXCEPT !.path = Normal(@)])
               /\ i' = i + 1
               /\ UNCHANGED <<pc, diagnostics, keep>>
  /\ UNCHANGED <<input, exists, store, commands, object_paths, runs, crashes>>

StageDone ==
  /\ pc = "stage" /\ i > Len(CxxFiles)
  /\ Goto("write")
  /\ UNCHANGED <<input, staged, exists, store, result, object_paths, keep, runs, crashes>>

(* WriteText: a failure may leave a part of the file. *)
WriteFile ==
  /\ pc = "write" /\ i <= Len(staged)
  /\ LET path == OutputPath(staged[i].path)
     IN \/ /\ store' = With(path, path)
           /\ i' = i + 1
           /\ UNCHANGED <<pc, diagnostics, keep>>
        \/ /\ store' \in {store, With(path, Torn)}
           /\ GiveUp("write")
           /\ UNCHANGED i
  /\ UNCHANGED <<input, staged, exists, commands, object_paths, runs, crashes>>

ObjectsNeverCollide == FALSE

ObjectsCollide ==
  \E j, k \in DOMAIN staged :
    /\ j # k /\ staged[j].kind = "fake_source" /\ staged[k].kind = "fake_source"
    /\ FakeObjectPath(staged[j].path) = FakeObjectPath(staged[k].path)

CheckFakeObjects ==
  /\ pc = "write" /\ i > Len(staged)
  /\ IF opt.mode # "syntax" /\ ObjectsCollide
       THEN GiveUp("object") /\ UNCHANGED i
       ELSE Goto("source") /\ UNCHANGED <<diagnostics, keep>>
  /\ UNCHANGED <<input, staged, exists, store, commands, object_paths, runs, crashes>>

WriteSmokeSource ==
  /\ pc = "source" /\ i <= Len(Jobs)
  /\ LET job == Jobs[i]
     IN \/ /\ store' = IF job.smoke THEN With(job.source, job.source) ELSE store
           /\ pc' = "compile"
           /\ UNCHANGED <<diagnostics, keep>>
        \/ /\ job.smoke
           /\ store' \in {store, With(job.source, Torn)}
           /\ GiveUp("smoke")
  /\ UNCHANGED <<input, i, staged, exists, commands, object_paths, runs, crashes>>

Compiled(job, exit) ==
  Append(commands, [source |-> job.source, args |-> job.args, exit |-> exit, linked |-> {}])

Advance == pc' = "source" /\ i' = i + 1

AddObject(job) ==
  object_paths' = IF opt.mode = "syntax" THEN object_paths ELSE Append(object_paths, job.object)

(* Exit code 0 and anything else: a timeout is one of the latter. *)
Compile ==
  /\ pc = "compile"
  /\ LET job == Jobs[i]
     IN /\ \/ /\ commands' = Compiled(job, 0)
              /\ store' = IF opt.mode = "syntax" THEN store ELSE With(job.object, job.source)
              /\ UNCHANGED diagnostics
           \/ /\ commands' = Compiled(job, 1)
              /\ Say("compile", opt.keep_failed_artifacts)
              /\ UNCHANGED store
        /\ AddObject(job)
  /\ Advance
  /\ UNCHANGED <<input, staged, exists, keep, runs, crashes>>

ObjectDirectoryFails ==
  /\ pc = "compile" /\ opt.mode # "syntax"
  /\ Say("directory", opt.keep_failed_artifacts)
  /\ AddObject(Jobs[i])
  /\ Advance
  /\ UNCHANGED <<input, staged, exists, store, commands, keep, runs, crashes>>

CompiledAll == pc = "source" /\ i > Len(Jobs)

ReadyToLink == opt.mode = "link" /\ diagnostics = <<>>

Link ==
  /\ CompiledAll /\ ReadyToLink
  /\ \E exit \in {0, 1} :
       /\ commands' = Append(commands,
            [source |-> <<"generated_link_smoke">>, args |-> BaseCompileArguments(opt.extra_args),
             exit |-> exit, linked |-> {f \in store : f.path \in Range(object_paths)}])
       /\ IF exit = 0 THEN UNCHANGED diagnostics ELSE Say("link", opt.keep_failed_artifacts)
  /\ Goto("finish")
  /\ UNCHANGED <<input, staged, exists, store, object_paths, keep, runs, crashes>>

FinishKeeping ==
  /\ pc = "finish" \/ (CompiledAll /\ ~ReadyToLink)
  /\ keep' = opt.keep_failed_artifacts
  /\ Goto("destroy")
  /\ UNCHANGED <<input, staged, exists, store, result, object_paths, runs, crashes>>

Finish ==
  /\ pc = "finish" \/ (CompiledAll /\ ~ReadyToLink)
  /\ keep' = (opt.keep_failed_artifacts /\ diagnostics # <<>>)
  /\ Goto("destroy")
  /\ UNCHANGED <<input, staged, exists, store, result, object_paths, runs, crashes>>

DestroyTreeAlways ==
  /\ pc = "destroy"
  /\ exists' = FALSE /\ store' = {}
  /\ pc' = "returned"
  /\ UNCHANGED <<input, i, staged, result, object_paths, keep, runs, crashes>>

(* The destructor of TempTree, which ignores the error of a removal. *)
DestroyTree ==
  /\ pc = "destroy"
  /\ IF keep THEN UNCHANGED <<exists, store>> ELSE exists' = FALSE /\ store' = {}
  /\ pc' = "returned"
  /\ UNCHANGED <<input, i, staged, result, object_paths, keep, runs, crashes>>

DestroyTreeFails ==
  /\ pc = "destroy" /\ ~keep /\ exists
  /\ store' \in {store, Outputs}
  /\ pc' = "littered"
  /\ UNCHANGED <<input, i, staged, exists, result, object_paths, keep, runs, crashes>>

(* The process dies, for example of the exception that create_directories
   throws in WriteText and that nothing catches. *)
Crash ==
  /\ pc \notin Ended /\ crashes < MaxCrashes
  /\ crashes' = crashes + 1
  /\ pc' = "dead"
  /\ UNCHANGED <<input, i, staged, exists, store, result, object_paths, keep, runs>>

Init ==
  /\ input \in Inputs /\ pc = "dead" /\ i = 1
  /\ staged = <<>> /\ exists = FALSE /\ store = {}
  /\ commands = <<>> /\ diagnostics = <<>> /\ object_paths = <<>>
  /\ keep = FALSE /\ runs = 0 /\ crashes = 0

Next ==
  \/ Begin \/ ClearTree \/ ClearTreeFails
  \/ StageFile \/ StageDone \/ WriteFile \/ CheckFakeObjects
  \/ WriteSmokeSource \/ Compile \/ ObjectDirectoryFails \/ Link
  \/ Finish \/ DestroyTree \/ DestroyTreeFails \/ Crash

Spec == Init /\ [][Next]_vars
-----------------------------------------------------------------------------
(* Properties *)

Returned == pc \in {"returned", "littered"} /\ opt.mode # "none"

(* Own arguments, read off the options: those of the file's class under its
   header, which another class of the same name may not lend it. *)
OwnArguments(f) ==
  LET own == {s.args : s \in {t \in Range(opt.source_args) :
                                t.class = f.class /\ t.header = f.header}}
  IN IF own = {} THEN {opt.extra_args} ELSE own

SourceOf(f) == IF f.kind = "fake_source" THEN OutputPath(f.path) ELSE SmokeSourcePath(f)

ToCompile == {f \in Range(staged) : f.kind # "runtime_header"}

(* Success says that every C++ file of the input was accepted for the tree and
   compiled by a command of its own that ended with 0, a mock or fake under the
   arguments of its own class; in link mode, that a link of all the objects
   ended with 0 and that no object had been overwritten by that of another
   file.  (result.ok() of ValidateGeneratedOutputCompile: that no diagnostic was
   added, over all its early returns and continued errors.) *)
SuccessCoversEveryFile ==
  (Returned /\ diagnostics = <<>>) =>
    /\ Cardinality({OutputPath(f.path) : f \in Range(staged)}) = Len(CxxFiles)
    /\ \A f \in ToCompile : \E c \in Range(commands) :
         /\ c.source = SourceOf(f) /\ c.exit = 0
         /\ f.kind # "all_mocks_header" =>
              \E own \in OwnArguments(f) : c.args = BaseCompileArguments(own)
    /\ opt.mode = "link" =>
         LET link == Last(commands)
         IN /\ link.exit = 0
            /\ {SourceOf(f) : f \in ToCompile} \subseteq {o.source : o \in link.linked}
            /\ \A o \in link.linked : o.run = runs
            /\ Cardinality(link.linked) = Len(commands) - 1

(* Each command sees below its -I directory the files of this call, all of
   them, complete, and nothing else: not what an earlier process of the same
   identifier has left, which a missing #include would then find.  (TempTree
   clears its root or ends the call; all files are written before the first
   command.) *)
CommandsSeeOnlyTheseFiles ==
  [][Len(commands') > Len(commands) =>
       Outputs = {Made(OutputPath(Normal(f.path)), OutputPath(Normal(f.path))) :
                    f \in Range(CxxFiles)}]_vars

(* A diagnostic names the tree as the place of the artifacts exactly if the tree
   is still there; a tree that nothing names is there only if its removal
   failed, and a failure whose artifacts are to be kept loses them only if there
   was no tree to begin with.  (The assignments of tree.keep before each return
   against artifact_path.) *)
ArtifactsKeptAsSaid ==
  Returned =>
    LET named == \E d \in Range(diagnostics) : d.artifact
    IN /\ named => exists /\ pc = "returned"
       /\ exists /\ pc = "returned" => named
       /\ opt.keep_failed_artifacts =>
            \A d \in Range(diagnostics) : d.artifact \/ d.about = "tree"

=============================================================================
