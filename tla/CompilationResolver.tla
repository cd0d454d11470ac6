------------------------ MODULE CompilationResolver ------------------------
(***************************************************************************)
(* ResolveCompilation of src/src/CompilationResolver.cpp: each command of  *)
(* the compilation database is rewritten and its translation unit parsed;  *)
(* what it says of each header is merged with what others said; a header   *)
(* of which no translation unit said anything is parsed by itself.  One    *)
(* action is one translation unit, real or synthetic.                      *)
(*                                                                         *)
(* A token of a command line is [opt, val]: an option, a value, or an      *)
(* option joined with its value.  The word after an option that awaits one *)
(* is a value, whatever it begins with, since the code does not look at it:*)
(* -Xclang -include -Xclang x.h has the value -Xclang, then x.h.  A value  *)
(* is a sequence of texts; that of a path has its names, after "/" if it is*)
(* absolute.  What Clang finds in a translation unit is given by sources,  *)
(* whether it does is left open.                                           *)
(***************************************************************************)
EXTENDS HeaderScanner, ClassExtraction

CONSTANT TokenNamed  \* the tokens that the texts of --extra-arg stand for

VARIABLES
  sources,  \* database, commands and synthetic, see the comment above Sees
  resolve,  \* "no", "commands", "headers" or "done"
  commands, \* the commands that were loaded, in their order
  unit,     \* index of the command or the header that is next
  result    \* CompilationResolveResult, with the observations

resolverVars == <<resolve, commands, unit, result>>
-----------------------------------------------------------------------------
(* Paths of a command *)

Rooted(path) == <<"/">> \o path
IsAbsolute(value) == value # <<>> /\ Head(value) = "/"

path_maps == config["--path-map"]

(* The longest FROM that a path is under, the first of these *)
BestMatch(path) ==
  LET matching == {k \in DOMAIN path_maps : IsUnder(path, path_maps[k][1])}
      length(k) == Len(path_maps[k][1])
  IN CHOOSE k \in matching :
       \A j \in matching : length(j) < length(k) \/ (length(j) = length(k) /\ k <= j)

ApplyPathMapsUnnormalized(path) ==
  IF \A k \in DOMAIN path_maps : ~IsUnder(path, path_maps[k][1]) THEN LinkFree(path)
  ELSE LET map == path_maps[BestMatch(path)]
       IN LinkFree(map[2] \o RelativeTo(map[1], path))

ApplyPathMaps(path) ==
  LET candidate == LexicallyNormal(path)
  IN IF \A k \in DOMAIN path_maps : ~IsUnder(candidate, path_maps[k][1])
       THEN LinkFree(candidate)
       ELSE LET map == path_maps[BestMatch(candidate)]
            IN LinkFree(map[2] \o RelativeTo(map[1], candidate))

CommandDirectory(command) == ApplyPathMaps(command.directory)

CommandRelativePath(command, value) ==
  IF IsAbsolute(value) THEN ApplyPathMaps(Tail(value))
  ELSE LinkFree(CommandDirectory(command) \o value)

SourcePath(command) == CommandRelativePath(command, command.file)

ResolveRelativeArgument(command, value) ==
  IF IsAbsolute(value) THEN value ELSE Rooted(CommandRelativePath(command, value))

ResolveCommandPathArgument(command, value) == Rooted(CommandRelativePath(command, value))
-----------------------------------------------------------------------------
(* Arguments *)

NoOption == "(none)"

Opt(option) == [opt |-> option, val |-> <<>>]
Val(value) == [opt |-> NoOption, val |-> value]
Joined(option, value) == [opt |-> option, val |-> value]

IsSeparateValidationPathOption ==
  {"-I", "-iquote", "-isystem", "-idirafter", "-iframework", "-F", "-include", "-imacros",
   "-isysroot", "--sysroot", "-resource-dir"}

IsSeparateValidationValueOption == {"-D", "-U", "-target", "--target"}

IsSeparatePathOption == IsSeparateValidationPathOption \union {"-include-pch", "-ivfsoverlay"}

IsJoinedValidationValueOption == {"-D", "-U", "-target=", "--target=", "-stdlib="}

(* SplitJoinedPathOption; the arguments of a class keep the first four. *)
JoinedPathOptions ==
  {"-I", "-F", "-isystem", "--sysroot=",
   "--gcc-toolchain=", "-fmodule-map-file=", "-fmodules-cache-path=", "-fprebuilt-module-path="}

RewriteJoinedValidationPathOption == {"-I", "-F", "-isystem", "--sysroot="}

IsSourcePathArgument(command, token) ==
  /\ token.opt = NoOption /\ token.val # <<>>
  /\ \/ token.val = command.file
     \/ /\ IsAbsolute(token.val) \/ Len(token.val) > 1
        /\ CommandRelativePath(command, token.val) = SourcePath(command)

(* A walk over a command line.  It has the option whose value the next     *)
(* token is, if any, and the list it makes.                                *)
Walk(line, Turn(_, _)) ==
  LET walk[n \in 0 .. Len(line)] ==
        IF n = 0 THEN [option |-> NoOption, list |-> <<>>] ELSE Turn(walk[n - 1], line[n])
  IN walk[Len(line)].list

Adding(at, tokens) == [option |-> NoOption, list |-> at.list \o tokens]

Sanitized(command, at, token) ==
  IF at.option \in IsSeparateValidationPathOption
    THEN Adding(at, <<Opt(at.option), Val(ResolveCommandPathArgument(command, token.val))>>)
  ELSE IF at.option \in IsSeparateValidationValueOption
    THEN Adding(at, <<Opt(at.option), token>>)
  ELSE CASE token.opt = "-c" \/ IsSourcePathArgument(command, token) -> at
         [] /\ token.val = <<>>
            /\ token.opt \in IsSeparateValidationPathOption \union IsSeparateValidationValueOption ->
              [at EXCEPT !.option = token.opt]
         [] token.val # <<>> /\ token.opt \in RewriteJoinedValidationPathOption ->
              Adding(at, <<Joined(token.opt, ResolveCommandPathArgument(command, token.val))>>)
         [] \/ token.val # <<>> /\ token.opt \in IsJoinedValidationValueOption
            \/ token = Opt("-pthread") ->
              Adding(at, <<token>>)
         [] OTHER -> at

SanitizeValidationCompileCommandArgs(command) ==
  Walk(command.line, LAMBDA at, token : Sanitized(command, at, token))

(* -std and --std are dropped with the value after them. *)
Normalized(at, token) ==
  IF at.option # NoOption THEN [at EXCEPT !.option = NoOption]
  ELSE CASE token.val = <<>> /\ token.opt \in {"-std", "--std"} -> [at EXCEPT !.option = token.opt]
         [] token.opt \in {"-std=", "--std="} -> at
         [] OTHER -> Adding(at, <<token>>)

NormalizeCxx23StandardArgs(args) == Append(Walk(args, Normalized), Joined("-std=", <<"c++23">>))

(* ConfigCompilerArgs of Runner.cpp *)
ConfigCompilerArgs ==
  LET defines == config["--define"]
      extra == config["--extra-arg"]
  IN [k \in DOMAIN defines |-> Joined("-D", <<defines[k]>>)]
     \o [k \in DOMAIN extra |-> TokenNamed[extra[k]]]

ExtraIncludeArgs ==
  LET directories == config["--include-dir"]
  IN [k \in 1 .. 2 * Len(directories) |->
        IF k % 2 = 1 THEN Opt("-I") ELSE Val(Rooted(LinkFree(directories[k \div 2])))]

AppendExtraCompilerArgs(args) == args \o ExtraIncludeArgs \o ConfigCompilerArgs

CompileArgs(command) ==
  NormalizeCxx23StandardArgs(AppendExtraCompilerArgs(SanitizeValidationCompileCommandArgs(command)))
-----------------------------------------------------------------------------
(* AddCompileCommandPreflightDiagnostics, as far as it reports missing paths *)

OutputOptions == {"-o", "-MF", "-MT", "-MQ", "-MJ", "-serialize-diagnostics"}

IsFileLikeOption ==
  {"file", "-include", "-imacros", "-include-pch", "-ivfsoverlay", "-fmodule-map-file="}

ShouldExpectDirectory(option) == option \notin IsFileLikeOption

(* What the command line says is at a path: the options and the paths. *)
Observed(command, at, token) ==
  LET Observing(option) ==
        Adding(at, << <<option, CommandRelativePath(command, token.val)>> >>)
  IN IF at.option \in OutputOptions THEN [at EXCEPT !.option = NoOption]
     ELSE IF at.option # NoOption THEN Observing(at.option)
     ELSE CASE token.opt = "-c" \/ IsSourcePathArgument(command, token) -> at
            [] token.val = <<>> /\ token.opt \in OutputOptions \union IsSeparatePathOption ->
                 [at EXCEPT !.option = token.opt]
            [] token.val # <<>> /\ token.opt \in JoinedPathOptions -> Observing(token.opt)
            [] OTHER -> at

ObserveCompileCommandPaths(command) ==
  << <<"directory", CommandDirectory(command)>>, <<"file", SourcePath(command)>> >>
  \o Walk(command.line, LAMBDA at, token : Observed(command, at, token))

IsMissing(option, path) ==
  /\ option # "-fmodules-cache-path="
  /\ \/ ShouldExpectDirectory(option) /\ ~IsDirectory(tree, path)
     \/ option \in IsFileLikeOption /\ ~IsRegularFile(tree, path)

AddCompileCommandPathDiagnostics(command) ==
  {<<"Error", "CompileDatabaseMappedPathMissing", Rooted(observed[2])>> :
     observed \in {o \in Range(ObserveCompileCommandPaths(command)) : IsMissing(o[1], o[2])}}
-----------------------------------------------------------------------------
(* Merging *)

Options ==
  [fake_special_members |-> config["--fake-special-members"],
   fake_static_data |-> config["--fake-static-data"],
   interface_mock |-> config["--interface-mock"],
   filtering |-> Given("--class-filter"),
   class_filter |-> IF Given("--class-filter") THEN FilterNames[config["--class-filter"]] ELSE {}]

(* sources.commands are the commands of the database, each with directory, *)
(* file, line and what its translation unit sees: for a header, by its     *)
(* link-free path, the declarations.  sources.synthetic is what a header   *)
(* declares by itself.                                                     *)
Sees(seen_by_unit, header) ==
  IF LinkFree(header) \in DOMAIN seen_by_unit THEN seen_by_unit[LinkFree(header)] ELSE <<>>

(* What sources may be *)
AreSources(given) ==
  /\ given.commands \in Seq(Range(given.commands))
  /\ \A sees \in {command.sees : command \in Range(given.commands)} \union {given.synthetic} :
       \A header \in DOMAIN sees : AreDeclarations(sees[header])

(* What a command of the database may be: the line of a compiler.  The     *)
(* word after an option that awaits one is read as a value, which it is to *)
(* every walk unless it is an option that some walk knows: as in -o -I d,  *)
(* where one takes -I for the output and another d for a directory.  Such  *)
(* lines are left out, and those where a macro or a target begins with "/".*)
Awaits(token) ==
  /\ token.val = <<>>
  /\ token.opt \in IsSeparatePathOption \union IsSeparateValidationValueOption \union OutputOptions

IsCompilerCommand(command) ==
  /\ command.directory \in Seq(STRING) /\ command.file \in Seq(STRING)
  /\ command.line \in Seq([opt : STRING, val : Seq(STRING)])
  /\ \A k \in DOMAIN command.line : k > 1 /\ Awaits(command.line[k - 1]) =>
       /\ command.line[k].opt = NoOption
       /\ command.line[k - 1].opt \in IsSeparateValidationValueOption =>
            ~IsAbsolute(command.line[k].val)

HasExtractedContent(extraction) ==
  extraction.classes # <<>> \/ extraction.unsupported # {} \/ extraction.filtered # 0

NameOnly(header, class) == <<class.namespaces, class.name>>

ClassKey(header, class) == <<Rooted(LinkFree(header)), class.namespaces, class.name>>

FingerprintInAnyOrder(class) ==
  <<class.namespaces, class.name, class.members.interface_mock, Range(class.members.mock_methods),
    Range(class.members.unsupported_items)>>

(* Methods that are faked but not mocked, the generated names and the      *)
(* destructor of a mock are not part of it.                                *)
ClassFingerprint(class) ==
  <<class.namespaces, class.name, class.members.interface_mock, class.members.mock_methods,
    class.members.fake_constructors, class.members.fake_destructors,
    class.members.static_data_members, class.members.unsupported_items>>

Attempt(header, mode, success, args, classes) ==
  [header |-> header, mode |-> mode, success |-> success, args |-> args, classes |-> classes]

(* The conflict is reported again for each further observation that differs. *)
MergeClass(r, header, args, class) ==
  LET key == ClassKey(header, class)
  IN IF key \notin DOMAIN r.observations
       THEN [r EXCEPT
               !.observations = [k \in DOMAIN @ \union {key} |->
                                   IF k = key THEN ClassFingerprint(class) ELSE @[k]],
               !.classes = Append(@, [header |-> header, model |-> class]),
               !.arg_sets = Append(@, [name |-> class.name, namespaces |-> class.namespaces,
                                       header |-> header, args |-> args])]
     ELSE IF r.observations[key] # ClassFingerprint(class)
       THEN [r EXCEPT !.diagnostics = @ \union {<<"Error", "CompileConfigConflict", key>>}]
     ELSE r

MergeExtraction(r, header, args, extraction) ==
  LET noted == [r EXCEPT !.filtered = @ + extraction.filtered,
                         !.unsupported = @ \union ({LinkFree(header)} \X extraction.unsupported)]
      merged[n \in 0 .. Len(extraction.classes)] ==
        IF n = 0 THEN noted ELSE MergeClass(merged[n - 1], header, args, extraction.classes[n])
  IN merged[Len(extraction.classes)]

NoResult ==
  [classes |-> <<>>, arg_sets |-> <<>>, observations |-> <<>>, unsupported |-> {},
   filtered |-> 0, attempts |-> <<>>, diagnostics |-> {}, real |-> {}]

ok == \A d \in result.diagnostics : d[1] # "Error"
-----------------------------------------------------------------------------
(* The database *)

(* stable_sort by the paths of the sources *)
ComesBefore(j, k) ==
  LET path(n) == SourcePath(sources.commands[n])
  IN PathLess(path(j), path(k)) \/ (~PathLess(path(k), path(j)) /\ j < k)

SortsCommands(order) ==
  /\ IsPermutation(order, DOMAIN sources.commands)
  /\ \A k \in DOMAIN order : k > 1 => ComesBefore(order[k - 1], order[k])

LoadCompileCommands ==
  /\ resolve = "no"
  /\ result' = [result EXCEPT !.diagnostics =
                  CASE sources.database = "none" -> {<<"Warning", "CompileDatabaseNotFound", <<>>>>}
                    [] sources.database = "broken" ->
                         {<<"Warning", "CompileDatabaseLoadFailure", <<>>>>}
                    [] OTHER -> {}]
  /\ \E order \in Permutations(DOMAIN sources.commands) :
       /\ SortsCommands(order)
       /\ commands' = IF sources.database # "loaded" THEN <<>>
                      ELSE [k \in DOMAIN sources.commands |-> sources.commands[order[k]]]
  /\ resolve' = "commands"
  /\ unit' = 1

AtCommand == resolve = "commands" /\ unit <= Len(commands)

Preflighted(r) ==
  [r EXCEPT !.diagnostics = @ \union AddCompileCommandPathDiagnostics(commands[unit])]

RealTuFailsMarkingHeaders ==
  /\ AtCommand
  /\ result' = [Preflighted(result) EXCEPT !.real = DOMAIN headers]
  /\ unit' = unit + 1
  /\ UNCHANGED <<resolve, commands>>

(* The source cannot be read, or Clang reports an error: a warning, and an *)
(* attempt that failed for every header.                                   *)
RealTuFails ==
  /\ AtCommand
  /\ LET source == SourcePath(commands[unit])
         code == IF IsRegularFile(tree, source) THEN "RealTuParseFailure"
                 ELSE "TranslationUnitReadFailure"
         failed == [k \in DOMAIN headers |->
                      Attempt(headers[k], "RealTu", FALSE, CompileArgs(commands[unit]), <<>>)]
     IN result' = [Preflighted(result) EXCEPT
                     !.attempts = @ \o failed,
                     !.diagnostics = @ \union {<<"Warning", code, Rooted(source)>>}]
  /\ unit' = unit + 1
  /\ UNCHANGED <<resolve, commands>>

(* A header counts as parsed if the unit had anything to say of it. *)
MergeHeader(r, k, command, args) ==
  LET extraction == ExtractClassDefinitions(Sees(command.sees, headers[k]), Options)
  IN IF ~HasExtractedContent(extraction) THEN r
     ELSE MergeExtraction(
            [r EXCEPT !.real = @ \union {k},
                      !.attempts = Append(@, Attempt(headers[k], "RealTu", TRUE, args,
                                                     extraction.classes))],
            headers[k], args, extraction)

RealTuParsed ==
  /\ AtCommand
  /\ IsRegularFile(tree, SourcePath(commands[unit]))
  /\ LET args == CompileArgs(commands[unit])
         merged[k \in 0 .. Len(headers)] ==
           IF k = 0 THEN Preflighted(result) ELSE MergeHeader(merged[k - 1], k, commands[unit], args)
     IN result' = merged[Len(headers)]
  /\ unit' = unit + 1
  /\ UNCHANGED <<resolve, commands>>

FinishCommands ==
  /\ resolve = "commands" /\ unit > Len(commands)
  /\ resolve' = "headers"
  /\ unit' = 1
  /\ UNCHANGED <<commands, result>>
-----------------------------------------------------------------------------
(* Headers of which no translation unit said anything *)

AppendProjectRootInclude(args) ==
  LET root == Rooted(project_root)
  IN IF \/ Joined("-I", root) \in Range(args)
        \/ \E k \in DOMAIN args : k > 1 /\ args[k] = Val(root) /\ args[k - 1] = Opt("-I")
       THEN args ELSE Append(args, Joined("-I", root))

CommonNames(p, q) ==
  Cardinality({k \in 1 .. Len(p) : k <= Len(q) /\ SubSeq(p, 1, k) = SubSeq(q, 1, k)})

(* The first of the commands whose source is nearest to the header *)
Nearest(header) ==
  LET score(k) == CommonNames(Parent(LinkFree(header)), Parent(SourcePath(commands[k])))
  IN commands[CHOOSE k \in DOMAIN commands :
                \A j \in DOMAIN commands : score(j) < score(k) \/ (score(j) = score(k) /\ k <= j)]

BuildSyntheticTuFallbackArgs == <<Joined("-std=", <<"c++23">>), Joined("-I", Rooted(project_root))>>

NearestCompileArgs(header) ==
  NormalizeCxx23StandardArgs(AppendExtraCompilerArgs(
    IF commands = <<>> THEN BuildSyntheticTuFallbackArgs
    ELSE AppendProjectRootInclude(SanitizeValidationCompileCommandArgs(Nearest(header)))))

AtHeader == resolve = "headers" /\ unit <= Len(headers)

SkipParsedHeader ==
  /\ AtHeader /\ unit \in result.real
  /\ unit' = unit + 1
  /\ UNCHANGED <<resolve, commands, result>>

SyntheticTuFails ==
  /\ AtHeader /\ unit \notin result.real
  /\ LET header == headers[unit]
     IN result' = [result EXCEPT
          !.attempts = Append(@, Attempt(header, "SyntheticTu", FALSE,
                                         NearestCompileArgs(header), <<>>)),
          !.diagnostics = @ \union {<<"Error", "SyntheticTuParseFailure", Rooted(header)>>}]
  /\ unit' = unit + 1
  /\ UNCHANGED <<resolve, commands>>

SyntheticTuParsed ==
  /\ AtHeader /\ unit \notin result.real
  /\ LET header == headers[unit]
         args == NearestCompileArgs(header)
         extraction == ExtractClassDefinitions(Sees(sources.synthetic, header), Options)
     IN result' = MergeExtraction(
          [result EXCEPT !.attempts =
             Append(@, Attempt(header, "SyntheticTu", TRUE, args, extraction.classes))],
          header, args, extraction)
  /\ unit' = unit + 1
  /\ UNCHANGED <<resolve, commands>>

(* SortProjectModel: only the order of the classes changes, which is not   *)
(* modelled.                                                               *)
FinishResolve ==
  /\ resolve = "headers" /\ unit > Len(headers)
  /\ resolve' = "done"
  /\ UNCHANGED <<commands, unit, result>>

ResolverInit ==
  /\ resolve = "no"
  /\ commands = <<>>
  /\ unit = 1
  /\ result = NoResult

ResolveCompilation ==
  /\ \/ LoadCompileCommands
     \/ RealTuFails \/ RealTuParsed \/ FinishCommands
     \/ SkipParsedHeader \/ SyntheticTuFails \/ SyntheticTuParsed \/ FinishResolve
  /\ UNCHANGED sources
-----------------------------------------------------------------------------
(* Properties *)

Resolved == resolve = "done"

(* The file and the name of a class tell it from any other. *)
Identity(header, class) == <<Rooted(LinkFree(header)), class.namespaces, class.name>>

(* The classes that successful parses found *)
SeenClasses ==
  UNION {{<<Identity(a.header, class), class>> : class \in Range(a.classes)} :
           a \in Range(result.attempts)}

ConflictReported(key) == <<"Error", "CompileConfigConflict", key>> \in result.diagnostics

(* What a generated fake defines and a generated mock has methods for *)
Defined(members) == [members EXCEPT !.mock_destructor_override = FALSE]

(* A conflict is reported for a class if and only if two parses found      *)
(* different members of it to define or to mock: in whatever order they    *)
(* came, whether in real or synthetic translation units, and under         *)
(* whatever paths their header was known to each.                          *)
ConflictsFound ==
  Resolved =>
    \A key \in {s[1] : s \in SeenClasses} :
      ConflictReported(key) <=>
        \E s, t \in {u \in SeenClasses : u[1] = key} :
          Defined(s[2].members) # Defined(t[2].members)

(* The design document (mock_fake_generator_design_ket_v1_1.md:1653) says  *)
(* that different declarations of a class are diagnosed as a conflict of   *)
(* compile configurations: so are those that change the destructor of the  *)
(* generated mock.                                                         *)
EveryDifferenceIsAConflict ==
  Resolved =>
    \A s, t \in SeenClasses :
      s[1] = t[1] /\ s[2].members # t[2].members => ConflictReported(s[1])

(* Every class that was found is generated once, from one observation of   *)
(* it, the first, and validated with the arguments of just that            *)
(* observation; two classes of one name in two headers stay two.           *)
ClassesKeptApart ==
  Resolved =>
    LET key(k) == Identity(result.classes[k].header, result.classes[k].model)
        has(a, k) == \E class \in Range(a.classes) : Identity(a.header, class) = key(k)
        first(k) == CHOOSE n \in DOMAIN result.attempts :
                      /\ has(result.attempts[n], k)
                      /\ \A j \in 1 .. n - 1 : ~has(result.attempts[j], k)
    IN /\ {s[1] : s \in SeenClasses} = {key(k) : k \in DOMAIN result.classes}
       /\ Cardinality({s[1] : s \in SeenClasses}) = Len(result.classes)
       /\ DOMAIN result.arg_sets = DOMAIN result.classes
       /\ \A k \in DOMAIN result.classes :
            LET origin == result.attempts[first(k)]
            IN /\ result.classes[k].model \in Range(origin.classes)
               /\ result.arg_sets[k] =
                    [name |-> key(k)[3], namespaces |-> key(k)[2],
                     header |-> origin.header, args |-> origin.args]

IsPathToken(args, k) ==
  \/ args[k].opt \in RewriteJoinedValidationPathOption /\ args[k].val # <<>>
  \/ k > 1 /\ args[k - 1].val = <<>> /\ args[k - 1].opt \in IsSeparateValidationPathOption

StandardIn(args) == {k \in DOMAIN args : args[k].opt \in {"-std=", "--std=", "-std", "--std"}}

(* What is said of the paths and the sources in the arguments holds of what *)
(* the command lines give; the code passes the user's own arguments on.    *)
AddsNoPath(token) ==
  /\ token.opt \notin OutputOptions \union {"-c"}
  /\ token.opt \notin IsSeparateValidationPathOption \union RewriteJoinedValidationPathOption
  /\ token.opt = NoOption => ~IsAbsolute(token.val)
  /\ token.opt \in {"-std", "--std"} => token.val = <<>>

OnlyCommandsNamePaths == \A text \in Range(config["--extra-arg"]) : AddsNoPath(TokenNamed[text])

(* The paths of an attempt that come from a command line *)
CommandPaths(args) ==
  {args[k].val : k \in {k \in DOMAIN args : IsPathToken(args, k)}}
  \ ({Rooted(LinkFree(d)) : d \in Range(config["--include-dir"])} \union {Rooted(project_root)})

(* The arguments of a class are used in another directory, on another      *)
(* machine and for other sources than the command they come from: each of  *)
(* their paths is absolute, and without an error each exists; no source or *)
(* output is left in them, and the one standard is the last.               *)
ArgsStandAlone ==
  Resolved /\ OnlyCommandsNamePaths =>
    \A a \in Range(result.attempts) :
      /\ StandardIn(a.args) = {Len(a.args)}
      /\ \A token \in Range(a.args) : token.opt \notin OutputOptions \union {"-c"}
      /\ \A path \in CommandPaths(a.args) :
           IsAbsolute(path) /\ (ok => PathExists(tree, Tail(path)))
      /\ \A command \in Range(commands) : \A k \in DOMAIN a.args :
           a.args[k] = Val(Rooted(SourcePath(command))) => IsPathToken(a.args, k)

Apart(path, directory) == ~IsUnder(path, directory) /\ ~IsUnder(directory, path)

(* The directories that are replaced are not where the maps or links lead. *)
MapsLeadAway ==
  \A m \in Range(path_maps) :
    /\ \A other \in Range(path_maps) : Apart(other[2], m[1])
    /\ \A l \in Followed(tree) : Apart(tree.links[l], m[1])

(* A path that was absolute where the command was made is never left in a  *)
(* directory that the maps were given to replace, in whatever option it is *)
(* and however it is spelled; only a relative path can lead into one.      *)
ForeignPathsReplaced ==
  Resolved /\ OnlyCommandsNamePaths /\ MapsLeadAway =>
    \A a \in Range(result.attempts) : \A path \in CommandPaths(a.args) :
      \/ \A m \in Range(path_maps) : ~IsUnder(Tail(path), m[1])
      \/ \E command \in Range(commands) : \E token \in Range(command.line) :
           /\ ~IsAbsolute(token.val)
           /\ path = Rooted(LinkFree(CommandDirectory(command) \o token.val))

(* No header is passed over: at the end each has been parsed by itself or  *)
(* by a translation unit that had something to say of it, or an error      *)
(* names it; a broken translation unit never hides a header.               *)
NoHeaderUnread ==
  Resolved =>
    \A h \in Range(headers) :
      \/ \E a \in Range(result.attempts) : a.header = h /\ a.success
      \/ <<"Error", "SyntheticTuParseFailure", Rooted(h)>> \in result.diagnostics

(* The members that a program calling them must find a definition of *)
NeedsDefinition(member) ==
  CASE member.kind = "template" -> FALSE
    [] member.kind = "static_data" -> member.traits \intersect {"inline", "constexpr"} = {}
    [] OTHER -> member.traits \intersect
                  {"body", "pure", "deleted", "defaulted", "constexpr", "consteval"} = {}

Faked(members) ==
  Range(members.fake_methods) \union Range(members.fake_constructors)
  \union Range(members.fake_destructors) \union Range(members.static_data_members)

(* The pure functions, declared or inherited, that the mock does not        *)
(* override: with one of them the mock cannot be instantiated               *)
LeftPure(class) ==
  (class.declared.inherited
     \union {m.signature : m \in {n \in Range(class.declared.members) : "pure" \in n.traits}})
  \ Range(class.members.mock_methods)

(* Of a class of which nothing is reported as unsupported, every member    *)
(* that it declares and that has no definition in the header gets one from *)
(* the fake, or in interface mode the mock leaves nothing pure but what    *)
(* the class inherits, which nothing looks at; and the names that fake and *)
(* mock declare are free in the product's namespace and not the same for   *)
(* two classes of one parse.                                               *)
ReadyClassesBuild ==
  Resolved =>
    \A class \in {s[2] : s \in SeenClasses} :
      /\ class.members.unsupported_items = <<>> =>
           IF class.members.interface_mock
             THEN LeftPure(class) \subseteq class.declared.inherited
             ELSE \A member \in Range(class.declared.members) :
                    NeedsDefinition(member) => member.signature \in Faked(class.members)
      /\ {class.mock_name, class.scoped_mock_name} \intersect Product(class.declared) = {}
      /\ class.mock_name # class.scoped_mock_name
      /\ \A a \in Range(result.attempts) : class \in Range(a.classes) =>
           \A other \in Range(a.classes) \ {class} :
             other.namespaces = class.namespaces =>
               {other.mock_name, other.scoped_mock_name}
                 \intersect {class.mock_name, class.scoped_mock_name} = {}
=============================================================================
