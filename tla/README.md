# A model of mockfakegen

mockfakegen reads C++ headers and writes gMock mocks, link-time fakes and their
support files for the classes it finds. This directory holds TLA+ modules that
model the parts of it whose correctness depends on the order of steps, on
failures or on concurrency, the TLC configurations that check them on small
instances, and proofs, checked by TLAPS, of the properties that matter most.

Paths below are relative to the repository root; the C++ code is under
`src/src/`.

## The system

A run (`RunCli`, `Runner.cpp`) is a sequence of stages in one thread. Each stage
returns a value with diagnostics, and the stages meet in the policy decision and
in the writer.

    arguments -> Config -> HeaderScanner -> CompilationResolver (Clang front end)
      -> file name collisions -> CodeGenerator -> GeneratedFormatter
      -> GeneratedOutputCheck -> compile validation (RunCommand per command)
      -> GenerationPolicy -> OutputWriter -> exit code

The generated code has a life of its own: each generated test program contains
`MockFakeRuntime.h`, a registry through which fakes find the mocks of a test.

| Component | State it keeps | Operations | What is hard | What makes it correct |
|---|---|---|---|---|
| OutputWriter (`output/OutputWriter.cpp`) | the plan (publish, had_existing, backed_up, published), the result, and on disk: outputs, staged files, backups | plan, check, stage, publish, roll back | every filesystem call can fail, the process can die, others edit the outputs | all or nothing; no torn file; the old file is never lost; the report is true |
| Mock registry (`runtime_template/RuntimeTemplate.cpp`, fake bodies of `generator/CodeGenerator.cpp`) | a stack of entries per mock type, per thread or global; shared ownership | Push, Pop, Current, fake call | threads of a test, lifetimes of mocks | the right mock; no use after the end of its life; no spurious abort |
| RunCommand (`validation/GeneratedCompileValidator.cpp`) | the child, its pipe, the captured output, the deadline | start, wait, read, kill | the child, its own children, the clock and the loop run at once | the timeout bounds the call; success is real; the capture is exact |
| Compile validation (same file) | a temporary tree, object paths, the list of commands run | write the tree, compile each file, link | early returns, artifacts to keep or remove, object paths that coincide | no file is taken for validated that was not |
| GenerationPolicy (`validation/GenerationPolicy.cpp`) | none | failure kind -> decision, combination of decisions | several failures at once | the strictest decision wins; the design's policy table |
| Runner (`Runner.cpp`) | the results of the stages, the files selected | the stages above; report and manifest; removal of stale suppressed files | a failure after something was already changed | what is published, reported and returned agree |
| CompilationResolver (`CompilationResolver.cpp`) | observations of classes, parse attempts, commands | rewrite commands, parse, merge, parse alone | the order of headers and commands; one class seen under several configurations; headers known under several paths | one model per class; conflicts are reported; no header is passed over; the arguments of a class work without its command |
| HeaderScanner (`HeaderScanner.cpp`) | directories visited, headers found, the iterator | traverse, exclude, sort | symbolic links in circles and out of the project, output below the input, failing calls | each header once, no generated file taken for input, an end |
| CodeGenerator (`generator/CodeGenerator.cpp`) | none; its results are kept by the run | name the files, resolve collisions, list files in fragment and report | names that collide and are resolved twice; lists made before and after the policy's decision | distinct paths; report, fragment and files agree |
| Config (`Config.cpp`) | the options parsed so far, what has been seen | read an argument, check conflicts and roots | what is a value and what an option; roots that are one directory under two names | a command line is understood as a whole; nothing is written into the input |
| GeneratedOutputCheck, GeneratedFormatter, RunDiagnostic, ProjectModel, GeneratedFile, FormatStyle, ValidationMode, CliSupport, main | none or passive records | conversions, text searches, library calls | nothing ordered or concurrent | unit tests suffice |
| ClassExtractor (`clang/ClassExtractor.cpp`) | classes found, names given | take over, refuse or pass over each member | every combination of a member's traits; names that are taken | a class without a remark can be linked and used |
| TypeSpellingService, ClangDiagnosticCollector (`clang/`) | none | spell types, collect messages | C++ itself | outside of what these models can express |

Interactions: the stages call each other through values only. The writer shares
the output directory with other programs and with earlier runs of itself. The
supervision of a command shares a pipe and a process group with the command. The
registry is shared by the threads of a test program and by the generated fakes.

## Modules

| Module | What it is |
|---|---|
| `OutputWriter` | `WriteGeneratedFiles`, one filesystem operation per step |
| `AtomicPublish` | what a caller of `WriteGeneratedFiles` may rely on |
| `MCOutputWriter` | the requests and constants of the two writer runs |
| `OutputWriterProofs` | types; no torn output; all or nothing; old files kept; one file in flight; true statuses; the writer implements `AtomicPublish` |
| `MockRegistry`, `MCMockRegistry` | the registry in its three modes, and the programs of its run |
| `MockRegistryProofs` | all properties of the registry, for any threads, scopes and mocks |
| `RunCommand`, `MCRunCommand` | the supervision of one command |
| `RunCommandProofs` | its types, real success, exact capture, nothing left running |
| `CompileValidation`, `MCCompileValidation` | `ValidateGeneratedOutputCompile`: the temporary tree and the commands over it |
| `CompileValidationProofs` | what success says, what commands see, what is kept, for any files and arguments |
| `GenerationPolicy` | the decision of `EvaluateGenerationPolicy`, as operators |
| `Runner`, `MCRunner` | `RunCli`: stages, policy and the calls of the writer, composed with `AtomicPublish` |
| `RunnerProofs` | the policy as a least upper bound; all properties of the runner |
| `Paths` | paths, links and what the front end asks of the file system |
| `Config` | `ParseConfig`, one argument per step |
| `HeaderScanner` | `ScanHeaders`, one directory entry per step |
| `ClassExtraction` | what the extractor takes over from a declaration, as operators |
| `CompilationResolver` | `ResolveCompilation`, one translation unit per step |
| `GeneratedFiles`, `MCGeneratedFiles` | the generated files, their names, and what fragment and report say of them, composed with `GenerationPolicy` |
| `GeneratedFilesProofs` | names that can be told apart stay apart; report, fragment and files agree |
| `FrontEnd`, `MCFrontEnd` | the first half of `RunCli`, composed of the four before |
| `FrontEndProofs` | what the words of a command line mean, the roots and the search for headers, for any command line and any tree with links |
| `ResolverProofs` | no header unread, conflicts, one model per class, complete classes, for any database, declarations and failures |

`FrontEnd` EXTENDS `CompilationResolver`, which extends `HeaderScanner` (and
`ClassExtraction`), which extends `Config`, which extends `Paths`: each stage
reads what the one before it made, and `FrontEnd` says when it may. `Runner` has
the same stages as outcomes, and goes on from there over several runs.

The map in `PROJECT.json` names the lines every definition stands for. An
operator whose name says what is wrong with it (`RenameErrorIgnored`,
`KeyShared`, ...) is not part of any specification: it is a plausible bug,
written next to the definition it would replace, and each property is known to
fail under one of them.

### OutputWriter

`req` holds the arguments; `publish`, `hadExisting`, `backedUp`, `published` are
the four flags of `PlanEntry` as sets of indices; `status` and `diags` are the
`OutputWriteResult`, diagnostics being reduced to their codes; `pc` and `i` are
the phase and its loop index. `out`, `staged` and `backup` are the output
directory and the two halves of `.mockfakegen-staging`, from paths to contents.
A path may hold nothing (`Absent`), something that is no regular file (`Odd`)
or a file that has not been completely written (`Torn`).

Each action is one filesystem operation of the code with the bookkeeping that
belongs to it: `BackupExisting` and `RenameStaged` are the two renames of
`PublishStagedFiles`, `OutputPathStillPublishable` the look between them,
`OpenStaged` and `WriteStaged` the two halves of `WriteTextFile`,
`RollbackRemove` and `RollbackRestore` the two halves of one turn of
`RollbackPublishedFiles`, `PrepareStagingRoot` and `RemoveStagingRoot` the
removals of the staging tree, the latter with its error ignored. Every
operation can fail wherever the code looks at an error, and a removal that
fails may have removed any part. `CreateOutputRoot` and `PrepareOutputParents`
change no file, so their many error returns are one failure each; the lexical
rules of `ValidateGeneratedPath` are one path that is refused (`BadPath`).

`Crash` is the death of the process at any point; a later call starts from what
is on the disk. `Edit` is another program changing an output file at any point.

Three history variables say what a property is relative to: `before`, the files
the call found, with later edits; `raced`, the paths edited after the writer
looked at them; `windowed`, those edited between its last look and its rename.

`AtomicPublish` is the abstract specification: a call opens, and in one step
commits, aborts, or ends damaged. A process that dies may leave any mix of old,
new and missing files, but never half a file. The refinement mapping
(`Logical`) counts a file as what the rollback would put back for as long as it
can be taken back, so that all renames of a call are one abstract step.

### MockRegistry

One mock type; `stack` maps a key to a vector of entries, the key being the
thread in thread-local mode and one value in the others. An entry is named by
the scope whose token it carries. A registry operation is two steps, one that
takes the mutex and reads the vector (`Enter`) and one that writes it and lets go
(`Leave`), so that without the mutex operations would lose each other's work. In
thread-local mode there is no mutex and none is needed.

`Construct`, `Push` are a constructor; `Destruct`, `Pop`, `DestroyMembers` a
destructor up to the end of the `mock_` member; `Call`, `Deliver`, `Return` a
fake that finds a mock, and `Miss` one that does not and takes the configured
fallback. `Referenced` lists the shared owners of a mock in shared-owner mode.
`DropTestReference` and `EndMockLifetime` are what the test itself does with
its mocks. A test program is a `setup`, chosen at the start: the mode, the
fallback, the threads, those that make scopes, and whether they keep the rules.
`lifo` says that each thread destroys its scopes in the reverse order, `join`
that other threads are idle when it does: the rules the user guide states for the modes ("Registry Modes", `src/docs/user_guide.md:344`).

### RunCommand

The supervising loop has one action per call (`WaitNoHang`, `CheckDeadline`,
`GiveUp`, `Poll`, `ReadSome`, `ReadNothing`, `Finish`); its locals are
variables. The rest of the state is the kernel's: the states of the command and
of one helper process it may start, their process group, who holds the pipe and
how much is in it, who has been sent SIGKILL. The command may exit at any point
with any status, close its output early, or start a helper that holds the pipe
after the command has ended, with or without leaving the group. Output is
counted, not represented. `passed` and `broken` are history variables.

### CompileValidation

The tree is `exists` and `store`, each file with its path, with what it was made
from and by which call; so a leftover of another call is never taken for the
file that should be there. `commands`, `diagnostics` and `object_paths` are the
fields and locals of that name, `keep` is `tree.keep`. The phases are those of
the code: `ClearTree` (the constructor of `TempTree`), `StageFile` (the checks of
each path), `WriteFile`, `CheckFakeObjects`, then for each of `Jobs` a
`WriteSmokeSource` and a `Compile`, `Link`, `Finish` and `DestroyTree` (the
destructor, whose error nobody looks at). A command is one step with the exit
code it had; what happens within one is `RunCommand`. Every operation that can
fail has its early return (`GiveUp`) or, where the code goes on, its diagnostic.

The generated files of a call are a set, each with its place in the stable order of
`SortGeneratedFiles` (`rank`), which is the order the loops take them in.

The arguments of each command are computed as in the code: an argument is an
option, a value, or the two joined, since it is on this difference that the code
depends.

### The front end

`Config` reads `arguments` from left to right (`index`); every turn of the loop
is one of eleven actions, by what the argument is. `FinishOptions` is what
follows the loop: missing roots, conflicts, and the checks of the roots against
each other through links. `config` is a function from options to their values,
`errors` a set of codes with options.

`HeaderScanner` has the iterator of the standard library as a stack (`frames`)
of open directories with the names still to come, in any order; each action
takes one entry, decides, and says with `Advance` whether the iterator goes into
it. The iterator leaves the directories at its end that are used up (`Popped`). A
call of the file system may fail wherever the code looks at an error, once per run
(`scan_faults`); where the code passes over an error in silence, because a canonical
path is out of reach, the model does too, and notes no directory. A tree is any one
a file system can have (`IsTree` in `Paths`): what exists lies in a directory, and a
link leads to something that exists, to nothing or to itself. The order of
`FinishScan` is a permutation of the list that leaves it in order; `IsPermutation`
says once more what `Permutations` of the module `TLC` has as elements, since the
provers do not know it. So it is with the order of the commands in
`LoadCompileCommands`, where `ComesBefore` leaves equal paths as they were.

`ClassExtraction` gives what becomes of a member as the first entry of an ordered
list of refusals that applies to its traits: the order in which
`ClassExtractor.cpp` asks. `LinkOutcome` and `InterfaceOutcome` say what becomes of
a member, and `Kept` and `Refused` go through the members in their order with these
outcomes as a function. `VisitRecord` is one declaration, with the names that were
given before. The members are those that the class itself declares: no bases are
looked at, as in the code, so what a class inherits (`inherited`, the pure functions
it does not override) decides nothing and is there for `ReadyClassesBuild` only.

`CompilationResolver` sorts and rewrites the commands (`LoadCompileCommands`,
`SanitizeValidationCompileCommandArgs`, `ApplyPathMaps`), parses one translation
unit per step (`RealTuParsed`, `RealTuFails`), merges what it says of each header
(`MergeClass`), and then parses by itself each header of which no unit said
anything (`SyntheticTuParsed`, `SyntheticTuFails`). The loops over the classes of a
header and the headers of a unit are functions of how far they have come
(`merged`). What Clang would see is given by `sources`, of which only `AreSources`
is assumed: the declarations of a header and the members of each come in lists, a
member is of one of five kinds, only a virtual method or destructor is pure, and a
declaration has finitely many neighbours and inherited functions. A word of a command
line that follows an option which awaits one is a value, whatever it begins with,
because the code does not look at it: of CMake's `-Xclang -include -Xclang x.hxx` it
takes the second `-Xclang` for the path, misses a file of that name, and reports an
error; `UnitZ` of the runs has such a line. Whether a parse succeeds is left open at
each step.

### GenerationPolicy and Runner

`GenerationPolicy` has the failure kinds, the decision for each
(`EvaluateFailurePolicy`), their combination (`ApplyFailurePolicy`) and the kinds
found in the input of the policy (`FoundKinds`). `Runner` is a run as a sequence
of stages: `RefuseArguments`, `ScanFails` and `FormatFails` are the early ends
(each writes manifest and report alone), `Decide` the policy, then
`RemoveStaleSuppressedGeneratedFiles` if publication is suppressed, and one or two
calls of `WriteGeneratedFiles`. `path` names which call the run has come to;
`AfterFailedWrite` leads to the second one. What the stages would find (`found`)
and the options (`opt`) are chosen when a run begins.

A call of the writer opens, and commits, aborts, ends damaged or dies: the steps
of `AtomicPublish`, which `OutputWriter` is shown to implement (`writer_faults`).
`Conflict` says when a call must end without a change; any other call may still
meet a fault. `disk` maps the generated files, the manifest and the report to
contents; a manifest or report is reduced to the run it tells of, the failures it
names and the sources it calls usable (`TextOf`). `faulty` is a history variable:
the last call met a fault of the filesystem; and so is `before`: what the disk held when
the run began, or when an undo failed. A dry run ends with the plan of
`WriteGeneratedFiles` (`PlanWrite`), which returns before it looks at what is there, so
that no conflict is found; a path that cannot be used still makes the exit code one.
AllMocks header, runtime header and
CMake fragment are one file, `Support`.

### GeneratedFiles

The part of `RunCli` from the merged classes to the last report, with an eye to
names and lists. A class has namespaces and a name; `QualifiedFileNameToken` joins
them, each put through `Sanitized` (a function given as a constant, since only
which names it makes equal matters). A path is a prefix, a stem and a suffix.
`report_classes` holds the stems of each class's files as the report will have
them: `ResolveGeneratedClassFilenames` resolves them once, and
`GenerateMockFakeProject`, called with the result, resolves them again. `Decide`
is the policy with `ApplyPolicyLinkReadiness` and the first report, made before
anything is known of the publication; `WriteFails` makes the report again from
the statuses of the failed call, which `PublishedOrDefault` looks up by kind, path
and class name. Which files a failed write reports as unchanged is left open; how
they reach the disk is `OutputWriter`, and what the policy decides is
`GenerationPolicy`. Manifest and report are one value, the set of their class
entries; format failures end the run early, as in `Runner`.

## What is checked

| Run | Question | Instance |
|---|---|---|
| `writer_faults` | does the report of a call agree with the disk whatever fails, and does the writer implement `AtomicPublish`? | two calls, two crashes, sets of two and three files of different classes, one with a refused path, both options, every initial directory; 210 153 states |
| `writer_crash` | what survives a crash and somebody else's edits? | two calls of two files, one crash, two edits; 269 413 states |
| `registry_modes` | do fakes find the right and only live mocks, in each mode under its rules? | three programs: two parallel tests in thread-local mode; a test with two workers, joined before a scope ends, in global-mutex mode; two threads that end scopes in any order, without joins, in shared-owner mode; three scopes, two mocks |
| `command_bounded` | does the timeout hold, is success real, is the capture exact? | pipe of 2, buffer of 2, limit of 3; 24 122 states |
| `validation_calls` | is what was validated what was generated, and is the tree where the diagnostics say? | two calls, one crash, all modes, two classes of one name, files in odd places; 118 476 states |
| `front_end` | is what reaches the generator what the user's tree declares? | pairs of options on odd roots, eleven trees, every kind of member, two or three translation units and a synthetic one; 111 665 states |
| `runner_runs` | do exit code, publication and report follow what was found? | campaign "matrix": one run, every combination of findings and options; campaign "history": two runs, one of them dying or failing to undo, headers that change, foreign and odd files in the directory; 573 642 states |
| `generated_files` | have the files distinct paths, and do fragment and report tell the truth about them? | all sets of up to three of thirteen classes with fakes, of two of any kind, one of four; two classes under every finding and option; 43 233 states |
| `runner_format_report` | are all sources a report calls usable there? | one run: they are not |
| `runner_stale_report` | does a failed write leave its report? | two runs: it does not |
| `command_flood` | does the timeout hold for any command? | as before, without a bound on the command's writing: it does not |
| `resolver_conflict` | is every difference between two observations a conflict? | one class, one destructor: it is not |

The writer's properties:

- `AllOrNothing`: a call with a diagnostic has changed no file, one without has
  all in place, although files of several classes are blocked one by one.
- `ReportsMatchDisk`: each `OutputFileResult` says what is on the disk.
- `NoTornOutput`, `OldCopyKept`, `OneFileInFlight`: at every point, so also
  after a crash, no output is half a file, the file found is at its path or in
  the backup, and at most one of them is at the latter only.
- `AppearedFileSurvives`: a file somebody creates where the call had found none
  is not replaced, except in the window between the last look and the rename.
- `ImplementsAtomicPublish`.

`AllOrNothing`, `ReportsMatchDisk`, `OldCopyKept` and `OneFileInFlight` exempt a
call that reports `output_rollback_failure`: the code then removes the staging
tree with the backups in it and promises no more than that report. They are
also relative to paths not edited by others after the writer looked at them.

The registry's: `RegistryMirrorsScopes` (exactly the open scopes are
registered), `InnermostOwnMock`, `LifoNeverAborts`, `LookupSeesScopes` (the
fallback is taken only if no visible scope is open), `NoUseAfterFree`,
`DestroyedUnlocked` (no registry operation ends the life of a mock while it
holds the mutex). `NoUseAfterFree` is checked in global-mutex mode with joins,
where the rules of the mode make it true, and in shared-owner mode without,
where the ownership does.

The supervisor's: `SuccessIsReal`, `CaptureExact`, `NothingLeftRunning`,
`TimeoutBounds`.

The validation's:

- `SuccessCoversEveryFile`: without a diagnostic, every C++ file was accepted and
  compiled by a command of its own under the arguments of its own class, not of
  another one of the same name, and the link had the object of every file.
- `CommandsSeeOnlyTheseFiles`: below `-I generated` each command finds the files of
  this call, complete, and nothing of an earlier process with the same number.
- `ArtifactsKeptAsSaid`: a tree is named by a diagnostic exactly if it is there.

The front end's, each over all its actions:

- `AcceptedMeansAsWritten`: an accepted command line was understood as a whole;
  no argument was a value for one reader and an option for another. It compares
  the loop, which skips, refuses and remembers as it goes, with a definition of what
  a command line means that looks at the places of its words only: which are values
  (`ValuesOf`), where an option stands (`PlacesOf`), what its list then is
  (`Meanings`).
- `ArtifactsNeverInInputRoot`: whenever something will be written, if only the
  report of a bad command line, it is not into the input, through whatever links.
- `OwnHeadersFoundOnce`, `CandidatesAreInputs`, `NoEndlessDescent`: a scan without
  errors has every header below the root, none twice, none from outside of the
  project or from generated output. As long as it has none, the open directories that
  links led to are all different, so that links in circles cannot keep it: there are
  no more of them than the tree has directories.
- `ConflictsFound`: a conflict is reported if and only if two parses of a class
  differ, in any order of commands and under any path of the header.
- `ClassesKeptApart`: one class from one observation with just its arguments.
- `NoHeaderUnread`: a broken translation unit never hides a header.
- `ArgsStandAlone`: no path in the arguments of a class depends on the directory,
  the machine or the sources of the command it came from. It is about what the
  command lines give (`OnlyCommandsNamePaths`): the code passes the user's own
  `--extra-arg` words on as they are, so a relative path among them stays relative.
- `ForeignPathsReplaced`: a path that was absolute in a command line is never left in
  a directory that the path maps replace, however it is spelled and whatever links are
  on the way, if neither a map nor a link leads back there (`MapsLeadAway`). Only a
  relative path can lead into such a directory; the user guide promises maps for
  absolute prefixes.
- `ReadyClassesBuild`: a class of which nothing is reported as unsupported has a
  definition for every member it declares that needs one, or a mock that leaves nothing
  pure (`LeftPure`) but what the class inherits; generated names are free and distinct.
  The exception is what the code does, see the disagreements below.

The generated files', stated for classes whose
qualified file names are different, not another class's short name, and not the
runtime header's (`Unmistakable`):

- `CollisionsResolved`: no two files of a run have one path, also where a class with
  a fake and one without share a name.
- `ReportNamesFiles`: the report's names, resolved once, are those of the files,
  resolved twice.
- `FragmentListsUsable`: the fragment, made before the policy decided, lists what the
  published report calls usable.

The run's: `OutcomeFollowsMatrix` compares what a run comes to with the policy
table of the design document (section 21.5, written down as `Matrix`), over all
rows that apply at once: an exit code of zero needs all of them, also in a dry run; if
one forbids publication, no generated file is there at the end that was not there
before the run, also when it fails as it should; and if none does, every generated
file is. `SuppressedNeverPublished` follows each step of each path,
second writes and deaths included. `ExitZeroMeansPublished`,
`AdvertisedSourcesExist` and `FailureReportedOnOverwrite` relate the exit code and
the report to the files in the directory at the end of a run.

### Disagreements between the documents and the code

`runner_format_report` violates `UsableSourcesExist`. After a format failure no
generated file is published, but the report and the manifest are made without a
publication status for any file (`Runner.cpp:1091`), and `MakeClassReportEntry`
then takes every file for published: they list fake sources as usable that are not
in the directory. The design's table (`src/mock_fake_generator_design_ket_v1_1.md:1720`)
says that nothing is published as usable output in that case. On every other path
the property holds (`AdvertisedSourcesExist`).

`runner_stale_report` violates `WriteFailureReported`. When a write ends in a
conflict, the report of the failure is written with leave to overwrite only if
`--overwrite` was given or the failed call itself had written a report
(`Runner.cpp:1229`). A failed call has written nothing, which is `AllOrNothing` and
proved, so without `--overwrite` the report of an earlier run stays. The design
says "emit report: yes" of a write failure (line 1719). With `--overwrite` the
report is the run's own (`FailureReportedOnOverwrite`).

`command_flood` violates `TimeoutBounds`. `ReadAvailableOutput` reads until the
pipe is found empty. A command that always has more to say when the pipe is read
keeps the loop there, and the deadline is not looked at again. The user guide
(`src/docs/user_guide.md:195`) calls the option a timeout for each validation
command, without such a condition. With a bound on what is written between two
pauses of the reader (`MaxBurst`), `TimeoutBounds` holds.

`resolver_conflict` violates `EveryDifferenceIsAConflict`. `ClassFingerprint`
(`CompilationResolver.cpp:1361`) leaves out whether the mock overrides the
destructor, so an interface class that declares a defaulted virtual destructor
under one command and none under another is merged without a word, and the
generated mock is that of whichever came first. The design document
(`src/mock_fake_generator_design_ket_v1_1.md:1653`) wants such a difference
reported. For what a fake defines and a mock has methods for, `ConflictsFound`
holds.

Four more were met while modelling and are on record as hazards. No run is about
them: each fails aloud, if not in the run itself then when its product is compiled,
or is rare.

- `ShouldUseInterfaceMockMode` (`ClassExtractor.cpp:815`) and `ExtractInterfaceMembers`
  (line 1519) go through the declarations of the class itself. A pure function that an
  interface inherits and does not override is neither mocked nor reported, so the mock
  derived from the interface is abstract: its header compiles, and a test that makes one
  does not. The user guide (`src/docs/user_guide.md:403`) says that the tool "does not
  silently skip unsupported C++ constructs", and `src/README.md:13` the same.
  `ReadyClassesBuild` excepts inherited functions for this reason, and `Derived` of
  `MCFrontEnd` is such an interface.
- `a::b::A` and `a_b::A` are both given the qualified name `Mock_a_b_A.h`
  (`generator/CodeGenerator.cpp:463`), and nothing looks whether it is free, although
  the user guide (`src/docs/user_guide.md:178`) says that collisions are resolved. The
  writer refuses the duplicate path, so nothing is lost but the run. The same happens to
  a class `FakeRuntime`, whose mock header is the runtime's, and to namespaces that
  differ only in characters outside of ASCII. `CollisionsResolved` says when it cannot
  happen.
- With `n::A`, `m::A` and `x::_n_A` the first resolution of names gives `n::A` the header
  that is the short name of `x::_n_A`; the second renames the header of `x::_n_A`, but
  report and manifest are made from the first. `ReportNamesFiles` says when the two agree.
- `AllMocksValidationArgs` (`validation/GeneratedCompileValidator.cpp:818`) wants include
  search paths kept broad, but recognises one only as two arguments: `-I/path`, as CMake
  writes it, is dropped unless every class has it.

### Bounds, and why they are enough

Writer: the phases treat each entry alone and are ordered by index; with three
entries there is one before, one at and one after any point of failure, and
with two of one class and one of none the blocking of classes has all its
cases. Two calls are needed for a call to meet the leftovers of another, and two
crashes for both to die. Two edits suffice to
create and then replace one file, or to touch both files. Runs of the writer may stop after
`MaxRuns` calls, so these runs do not look for deadlocks.

Registry: three scopes on one thread give an innermost, an outermost and one in
the middle, and two mocks let a mock be registered once or twice. An abort ends
the process, so these runs do not look for deadlocks either. Scopes and mocks
are symmetric; the specification has no liveness property, so symmetry is sound.

Run: one class, since classes meet only in quantifiers over all of them; its mock
and fake can then be present, absent, foreign or old independently. Two runs let
one meet the files and the report of another, `Histories` letting the headers, the
failures and the options differ between them; more runs add no content that two
cannot leave. One run may be lost (`MaxLosses`): it dies, or fails and cannot undo.
The campaign "matrix" varies findings instead of histories and loses no run. The runs end
after `MaxRuns`, hence no deadlock check.

Validation: two classes of one name give each class a stranger whose arguments it
might get; two calls let one find the tree of the other, dead, littered or kept;
paths that meet in one object, meet in one output, or are refused, stand for all
that do. It ends after `MaxRuns` calls, hence no deadlock check.

Front end: pairs of some thirty additions to the command line let each option meet
each other one, as duplicate, as conflict, or as the would-be value before it. The trees have every kind of
link: to a directory beside, to one above, to each other, to a file, to nothing,
to itself, out of the project, into the output. A second failing call adds
nothing, since after the first one the scan has failed. Two units and a synthetic one give three
observations of a class; each member is checked alone and beside a pure virtual
function, which is what decides between link and interface mode. Here deadlock is checked, and the state graph
has no cycle but the end's: so every run of the front end comes to its end.

Generated files: a collision is between two classes, and two resolutions of it need a
third and a fourth one with names made for it; more classes only repeat these pairs. The
thirteen classes share a name, nearly share a qualified one (joined by an underscore,
sanitized, in a namespace of the class's name, in two headers), or meet the
runtime header. The run of the program ends with the last report, hence no deadlock
check.

Command: a pipe of two and a limit of three let a read end before, at and beyond
the limit and let the pipe be full; one helper stands for any number, since
what matters is whether some process holds the pipe or is in the group. A run
ends when the call returns and the processes are gone, hence no deadlock check.

### Fairness

Only `RunCommand` has any: weak fairness of the supervising loop (one thread of
our own process, whose waits all end: `poll` has a timeout, `waitpid` waits only
for a command that was sent SIGKILL), of the clock, and of the kernel's carrying
out SIGKILL. Nothing is asked of the command or its helper, which may do nothing
forever. The other modules state safety only; that the front end ends follows from the
absence of deadlock and of cycles in its finite graph, with `NoEndlessDescent` for
the reason.

## What is proved

Of the writer, for all constants that satisfy `MarkersDistinct`,
`RequestsWellFormed` and `BoundsNatural`: any set of paths, contents and requests of any length, with any
number of calls, crashes and edits.

- `TypeCorrect`: `Spec => []TypeOK`. The index of each phase is in the range the
  phase needs, and the entries accepted for publication have distinct, accepted
  paths (`IndexInv`, `PlanOK`), which is what later phases rely on when they
  treat a path and its entry as one.
- `OutputsNeverTorn`: `Spec => []NoTornOutput`. `NoTornOutput` is not inductive:
  a staged file that is torn is about to be renamed. `TornInv` adds that in the
  publishing phases every staged file still to be renamed is complete, and that
  no backup is torn. Leftovers of a crashed run may well be torn; they are gone
  before anything is staged, because `PrepareStagingRoot` ends the call when it
  cannot remove them. The proof has one step per action.
- `FailedCallChangesNothing`: `Spec => []AllOrNothing`, and
- `OldFilesKept`: `Spec => []OldCopyKept`. These rest on `PlanInv`, what has been
  decided for each entry and what that says of the file found, and `UndoInv`,
  where the file found at the path of each entry is: while publishing, by the
  position of the index (published before it, backed up at it, untouched after it); while
  rolling back, the mirror image. Neither can be inductive without the other: an
  undo puts back what was there only if the plan knew what was there, and a
  conflict changes nothing only because an entry in conflict is never published.
- `OneInFlight`: `Spec => []OneFileInFlight`. `UndoInv` lets a rollback have any
  number of entries still to take back; `FlightInv` adds that of those before it
  every published one is in place, and that the one entry that may be moved away
  and not replaced is the last of them.
- `ReportTrue`: `Spec => []ReportsMatchDisk`. `ReportInv` says what `Unchanged`
  and `SkippedExisting` claim of a file from the moment the status is given to the
  return; the other statuses follow from `AllOrNothing`.
- `AppearedIsKept`: `Spec => AppearedFileSurvives`, of each step. `LookInv` is all it
  needs beside the types: what is put back was found by the first look, and before the
  rename there is nothing at the path, or what came after the second look.
- `WriterIsAtomic`: if `MaxEdits = 0` then `Spec => ImplementsAtomicPublish`; an
  edit by somebody else is no step of `AtomicPublish`. A step inside a call is a
  stutter, because `Logical` is all along what the call found (`LogicalIsBefore`),
  and the last step of a call commits, aborts, ends damaged or crashes. `UndoInv` says
  nothing once a step of the rollback has failed, where this must hold too; `StoreInv`
  says then, entry by entry, where the old file is, and that the backup directory
  holds no file but those moved by this call.

Of the supervision of a command, for all constants that satisfy `SizesPositive`
and `FloodsBoolean`: pipes, buffers, limits and bursts of any size.

- `TypeCorrect`: `Spec => []TypeOK`; the capture never grows past the limit. It is
  proved only: what the run would find here, `CaptureExact` finds.
- `SuccessReal`: `Spec => []SuccessIsReal`. It is not inductive: that the
  output has been read to the end when the loop gives up the pipe (`PipeInv`), that
  the command is reaped exactly when the loop knows it (`ReapedInv`) and that
  nobody is killed and nothing reported before the time is up (`ResultInv`) are
  needed for `Finish`.
- `NoneLeftRunning`: `Spec => []NothingLeftRunning`, with `DoomInv`: whoever is in
  the group after the kill is doomed, and since the command is too, nobody joins.
- `CaptureIsExact`: `Spec => []CaptureExact`, for every split of the output into
  reads.

`LoopInv` is the conjunction; its proof has one step per action.

Of the generated files, for all constants that satisfy `ProjectsGiven`: any set of
classes in any namespaces, with any sanitizer.

- `TypeCorrect`, `FilesApart` (`CollisionsResolved`), `ShortUnlessShared`
  (`ShortNamesKept`, which only the proof is about), `ReportAgrees` (`ReportNamesFiles`), `FragmentAgrees`
  (`FragmentListsUsable`).

The argument is that the first resolution gives each class one of two stems
(`ResolvedStem`), that these differ between classes that can be told apart
(`StemsDiffer`), and that the second therefore finds nothing to do (`ResolvedOnce`).
`IInv` says in each stage what the names, files and lists were made from;
`PublishedReadiness` says that the policy publishes only where its readiness is that
of the extraction, because a class the fallback cannot serve withholds all files.

Of the registry, for all constants that satisfy `NamesGiven` and `SetupsGiven`: any
number of threads, scopes and mocks, and test programs in the three modes.

- `TypeCorrect`, `MirrorsScopes` (`RegistryMirrorsScopes`), `OwnMock`
  (`InnermostOwnMock`), `LifoIsEnough` (`LifoNeverAborts`), `LookupsSeeScopes`
  (`LookupSeesScopes`) and `NoneDiesLocked` (`DestroyedUnlocked`), the last two of
  each step.
- `MocksOutliveCalls` (`NoUseAfterFree`), if the global mode's tests join their
  workers before a scope is destroyed (`Joined`). The user guide asks for that
  (`src/docs/user_guide.md:344`), and without it the mode promises nothing: its
  fakes run on a plain reference. In the other two modes nothing is assumed.

Mutual exclusion is where the argument starts: in the two modes with a mutex, a
thread is inside an operation exactly if it holds it, and in the thread-local mode
nobody ever does (`LockInv`). Hence what an operation has read of its stack is
still the stack when it acts on it (`SeenInv`), and a stack holds exactly the
scopes of its threads that are registered, each once (`StackInv`); this needs that
a scope has one owner and is constructed and destroyed once (`OwnInv`). What makes a
fake find the innermost mock is that in the thread-local mode the stack and the
thread's own nest of scopes are the same sequence but for the scope that is just
coming or going (`OrderInv`). `LifeInv` says of a running fake that the scope its
mock came from has not been left, which only joining ensures in the global mode. In
the shared-owner mode it is not needed, since the fake holds a copy.

Of the runner and its policy, for all constants that satisfy `CampaignsGiven` and
`DisksGiven`: any classes and findings, any output directory, any number of runs
that may die or fail to undo.

- `MatrixFacts` and `PolicyFacts`, lemmas: the policy for each kind of failure is its
  row of the design's table, and the decision for whatever a run has found is the
  strictest of its rows. The code applies the rows one after another and the lemma
  follows it (`Covers`, `ApplyKindFacts`); the outcome depends on the set only.
- `TypeCorrect`, `ExitFollowsMatrix` (`OutcomeFollowsMatrix`), `ZeroMeansPublished`
  (`ExitZeroMeansPublished`), `AdvertisedExist` (`AdvertisedSourcesExist`),
  `FailureReported` (`FailureReportedOnOverwrite`) and, of each step,
  `NeverPublished` (`SuppressedNeverPublished`).

`OutcomeInv` says for each path through a run what its exit code, decision and text
are, and that the text of a failed write tells of files that are as it says
(`TellsOf`), which stays true because the second write has artifacts only.
`WritingInv` keeps the goal of an open call what was selected when it was opened, and
`WrittenInv` says how a run can have ended: what it last wanted is in place, or it
had failed before and could not write its report. `BeforeInv` says that until a run
that publishes has succeeded each generated file is as it was before or gone: the
other calls select artifacts only, and a failed one changes nothing. Exit codes come
from `OutcomeInv` and `PolicyFacts`, with one more for a dry run whose plan failed.

Of the compile validation, for all constants that satisfy `InputsGiven` and
`NamesGiven`: any number of generated files of any kinds and paths, classes of any
names with any arguments, and any number of calls and deaths.

- `ArtifactsAsSaid` (`ArtifactsKeptAsSaid`), `SuccessCovers`
  (`SuccessCoversEveryFile`) and, of each step, `CommandsSeeTheCall`
  (`CommandsSeeOnlyTheseFiles`).

`KeepInv` has two cases for a call on its way out: no tree has come to be and
nothing is promised, or every diagnostic promises what the option says and the tree
is kept exactly if there is one. `StagedInv` says that the files accepted so far
are the first of the input, under their normal paths, with different outputs;
`TreeInv` that what lies under `generated` is made from just these by this call,
which holds however the calls before have ended, because a call begins with a
cleared root or ends. `CommandsInv` is about success only: while there is no
diagnostic, there is one successful command per job so far, in their order, and
outside of syntax mode one object of each and no other. It is not inductive without
the two before it, since a later job must neither overwrite the object of an earlier
one nor be that of a file that was not accepted.

That no object is overwritten is `ObjectsApart`, where the assumption `NamesGiven`
is needed: the code compares the objects of fakes with each other
(`GeneratedCompileValidator.cpp:1182`) but not with those of the headers, nor these
with each other. For the files of the generator that suffices: a fake is
`Fake<name>.cpp` in the root (`model/ProjectModel.cpp:95`), so in no directory where
the objects of headers lie, nor called `link_main_smoke`; all mock headers end in
`.h`, so that different headers have different objects. `InputsGiven` asks of
the files only what a stable sort gives, a place of its own for each.

Of the front end, for all constants that satisfy `TreesGiven`, `PathsGiven`,
`NumbersGiven` and `ArgumentsGiven` (a command line is a list of arguments, each with
an equals sign or without): any command lines, any trees with whatever links, any order of the
entries of a directory, and any call of the file system failing.

- `WritesElsewhere` (`ArtifactsNeverInInputRoot`), from `OptionsInvariance`:
  `OptionsInv` says that the roots in the configuration are paths, and that a command
  line is accepted only without an objection to its roots.
- `AcceptedIsUnderstood` (`AcceptedMeansAsWritten`), from `WordsUnderstood`.
- `OnlyInputsAreTaken` (`CandidatesAreInputs`), `OwnHeadersAreFound`
  (`OwnHeadersFoundOnce`) and `DescentIsBounded` (`NoEndlessDescent`), from
  `FrontInvariance`: `FrontInv` is `OptionsInv`, `StageInv` and `ScanInv`.

Where a path leads (`Physical`) is a walk over its names. What holds of it for every
length is proved by `Climb`, which is induction with a set of lengths in the place
of a predicate: the physical path has no link in it, a path without links is its
own, and of two paths that lead to one place either both can be resolved or neither.
A report may be written although the input root cannot be resolved; by the last fact
the output directory is then another place.

`WordsInv` speaks of the words before `index`, as long as there is no error and no
help is asked for: the word at `index` is not a value of the one before it, the
configuration says what the words before it say (`AsWritten`), and `seen` has the
options with one value that stand there, each once (`SeenOk`). The
header extensions need a part of their own (`ExtensionsOk`), since the first of them
takes the default away and a second like it is passed over: the list is that of the
first occurrences. `--strict` and `--best-effort` write each other's field, so that
nothing is said of these two fields once both were given; that is an error, but only
`FinishOptions` finds it. Each turn of the loop is a lemma; one that reports an error
or sets `help` (`WordRefused`) ends what is to be known, and one that takes a flag or a
value adds just the places that `ValuesOf` and `PlacesOf` have at the new index.

`ScanInv` has four parts. `FramesOk`: each open directory lies below an entry,
already taken, of each one before it. `HeadersOk`: what was found is a candidate,
differs from the rest, and lies below nothing that is still to come; it is from this
that nothing is found twice. The other two hold until the first error. `PathsOk` and
`GroundsOk`: what is open or found lies in the project, through no skipped directory,
and each open directory that a link led to was noted when the link was followed, so
that the next link to it is not. `NoneMissed`: each header that is wanted is in the
list or ahead of the iterator.

Of the resolver, for all constants that satisfy these and `SourcesGiven`: any
headers, commands, path maps and declarations, and any translation unit failing.

- `EveryHeaderIsRead` (`NoHeaderUnread`), `ConflictsAreReported` (`ConflictsFound`),
  `ClassesStayApart` (`ClassesKeptApart`) and `ReadyMeansComplete`
  (`ReadyClassesBuild`), all from `ResolverInvariance`.

`ResolverInv` relates what the resolver keeps to the classes that its attempts have
found so far (`SeenIn`). `ObservedOk`: each class found has an observation, which is
the fingerprint of one of those found, and a conflict is noted for it exactly if
another of them differs from that one. `KeptOk`: the classes kept are those found,
each once, with the model and the arguments of the first attempt that found it.
`ReadBy`: each header that the loop has passed was parsed with success or has its
error; a header that counts as read by a real unit (`real`) was.

A step merges all classes of all headers of a unit, a walk inside a walk; each is
followed by `Climb`, class by class (`MergeStep`) and header by header
(`HeaderMerged`). The attempt being merged is already in the list, so that in
between the classes known are those of the attempts before it and the first of its
own. `ConflictsFound` speaks of any two parses, the code compares with the
first only, and by fingerprints; the last step is that these are the same
(`FingerprintTells`): a fingerprint leaves out the methods that are faked, but these
are the mocked ones or none, which is what the extractor makes them (`ClassOk`), and
`interface_mock`, which it has, says which.

What `ReadyClassesBuild` says is kept of each list of classes that a parse finds
(`ExtractedOk`). A member is passed over without a word only by a few conditions that
exclude that it needs a definition (`SilentNeedsNothing`, `PureIsMocked`); a refusal is
never of that kind (`RefusalsAreLoud`), whatever the traits. So what needs a
definition is taken over or reported (`LinkMembers`, `InterfaceMembers`). A name is
looked for among more candidates than there are names taken (`NameLeft`), so the one
given is free; that it is free of the earlier classes of the parse too is an invariant
of the walk over the declarations (`ClassFound`), which keeps the reserved names in
step with the classes.

- `ArgumentsStandAlone` (`ArgsStandAlone`) and `MapsReplaceForeignPaths`
  (`ForeignPathsReplaced`), from `ArgsInvariance`, for all constants that satisfy also
  `LinesGiven` and `MapsGiven`: any path maps between normal paths, and any command
  lines but two kinds (`IsCompilerCommand`): those in which a word after an option that
  awaits one is itself an option to another of the walks (`-o -I d`, which the walks
  divide differently), and those in which a macro or a target begins with a slash.

`ArgsInv` says that the arguments of each attempt are in their places and that what a
tried command misses has been reported; `ListsInv`, proved with it, that the options
that may be repeated are lists and the maps normal. The arguments of a command come
from three walks over words, each with its own list of options that await a value.
Each walk is a function of how far it has come, with the option that awaits a value as
part of its state (`SanitizeWalks`, `ObserveWalks`, `NormalizeWalks`); `Pending` says
from the line alone which option that is after n words. While the arguments are made,
`Shaped` holds: an option that awaits a path is followed by one, each path is one of
the line's, resolved (`LinePaths`), and nothing else is an absolute path. The third
walk, which removes the standards, keeps this and leaves the one it appends
(`ArgsFit`); it must not take an option for the value of a standard before it, which is
where the shape of the user's words is needed. That the paths exist relates the first
walk to the second, which has other lists and skips other words: each token that the
first takes for a path is one that the second has looked at (`AllObserved`), so that a
missing one is an error of its unit (`Reported`). A header that no unit mentions takes
the arguments of the nearest command, which has been tried before
(`HeaderArgsFit`, `NearestIsOne`).

For the maps, a path that is replaced lies below where its map leads (`MapsReplace`),
and whether it then stays out of a replaced directory is a walk over its names
(`LedAway`): until a link is met the path is a beginning of itself, and after one it is
apart from the directory, however far it goes down. Without `MapsLeadAway` this is
false: with chained maps the result of one lies in the directory of the next, since a
path is mapped once.

TLC checked each part of these invariants on the runs' instances before it was
proved, and with it the properties they lead to.

Only model-checked: `TimeoutBounds`, a liveness property under fairness and so out of
the prover's reach. All other properties of the passing runs are theorems.

## What is not modelled, and why

- Clang itself, the spelling of types, the formatter, the generated C++ text and
  the text checks on it: data transformations of structures too rich for a model
  to say more than a test. What Clang says of a declaration is an input here.
- File names that differ only in the case of letters, which some file systems take
  for one; nothing in the code treats them as such.
- In the front end: values that begin with an equals sign, response files, the
  warnings that only advise (letter case of paths, compilers, targets, unmapped
  paths), the error for a link that cannot be resolved, and `validation_args`,
  which nothing reads.
- A directory below a link to its own ancestor is read twice, under two paths:
  `HeaderScanner.cpp:516` compares a link with the directories visited so far, but a
  real directory with none. `OwnHeadersFoundOnce` speaks of paths for that reason;
  the resolver knows both paths for one file (`ClassesKeptApart`).
- The loss of power: the writer does not call fsync and claims nothing there.
- Two generators on one output directory: the staging directory has one fixed name
  and no lock, and no document says that they may run at once.
- Reuse of process identifiers, and signals to the generator itself.
- Several mock types: they share nothing in the registry.

## Plan

Every property of the runs but the liveness property is proved. What could be added
is more of the code: the letter case of names on file systems that ignore it, the
arguments of the AllMocks header (`GeneratedCompileValidator.cpp:821`), and the
markers that the rendered text must carry for a later run to know it.
