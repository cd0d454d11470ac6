------------------------------- MODULE Config -------------------------------
(***************************************************************************)
(* ParseConfig of src/src/Config.cpp: the command line is read from left   *)
(* to right into a configuration and a list of errors.  One action is one  *)
(* turn of its loop; FinishOptions is what follows the loop.               *)
(*                                                                         *)
(* An argument of the command line is <<text>>, or <<name, value>> when it *)
(* has an equals sign.  The configuration maps each option to its value.   *)
(***************************************************************************)
EXTENDS Integers, Paths

CONSTANTS
  None,           \* std::nullopt
  PathNamed,      \* the normal paths that the texts given as paths stand for
  MapNamed,       \* the pairs that texts of the form FROM=TO stand for
  Regexes,        \* the texts that std::regex accepts
  Numeral,        \* the numbers that texts of digits stand for
  MaxInt,         \* numeric_limits<int>::max()
  HardwareThreads \* what hardware_concurrency returns

ASSUME NumbersGiven ==
  /\ MaxInt \in Nat \ {0} /\ HardwareThreads \in Nat
  /\ \A text \in DOMAIN Numeral : Numeral[text] \in Nat

(* What a command line may be *)
IsCommandLine(given) ==
  /\ given \in Seq(Range(given))
  /\ \A argument \in Range(given) : Len(argument) \in {1, 2}

VARIABLES
  tree,        \* the file system: see Paths
  arguments,   \* the command line without the program's name
  index,       \* the argument to read next
  config,      \* the configuration so far
  seen,        \* seen_options
  scanning,    \* option_scanning_enabled
  overridden,  \* header_extension_overridden
  errors,      \* the code and the option of each error
  help,        \* help_requested
  parsed       \* ParseConfig has returned

configVars == <<index, config, seen, scanning, overridden, errors, help, parsed>>
-----------------------------------------------------------------------------
(* The options *)

IsPresenceFlagOption ==
  {"--help", "--dry-run", "--overwrite", "--strict", "--best-effort",
   "--validation-keep-artifacts"}

Roots == {"--input-root", "--output-dir", "--build-path", "--project-root"}

SinglePaths == Roots \union {"--validation-artifact-dir"}

Switches ==
  {"--fake-special-members", "--fake-static-data", "--interface-mock",
   "--emit-all-mocks", "--emit-manifest", "--emit-cmake-fragment"}

IsRepeatableOption ==
  {"--header-extension", "--exclude", "--include-dir", "--define", "--extra-arg", "--path-map"}

Booleans == [text \in {"true", "false"} |-> text = "true"]

(* The words each of these options accepts *)
LegalWords ==
  [o \in {"--std", "--access", "--include-struct", "--registry-mode", "--fallback-policy",
          "--mock-namespace-mode", "--collision-policy", "--format-style", "--validate",
          "--header-extension"} |->
     CASE o = "--std" -> {"c++23"}
       [] o = "--access" -> {"public"}
       [] o = "--include-struct" -> {"false"}
       [] o = "--registry-mode" -> {"thread-local", "global-mutex", "shared-owner"}
       [] o = "--fallback-policy" -> {"abort", "default-return", "throw"}
       [] o = "--mock-namespace-mode" -> {"same-as-product"}
       [] o = "--collision-policy" -> {"qualified-filename"}
       [] o = "--format-style" -> {"file", "llvm", "google", "none"}
       [] o = "--validate" -> {"none", "syntax", "compile", "link"}
       [] o = "--header-extension" -> {".h", ".hpp", ".hh", ".hxx"}]

(* Words that are refused with the remark that they are not supported yet *)
Deferred(o, text) ==
  \/ o = "--config"
  \/ o = "--access" /\ text \in {"protected", "private"}
  \/ o = "--include-struct" /\ text = "true"

IsKnownOption ==
  IsPresenceFlagOption \union SinglePaths \union Switches \union IsRepeatableOption
  \union DOMAIN LegalWords
  \union {"--config", "--header-filter", "--class-filter", "--jobs", "--validation-timeout-ms"}

DefaultJobs ==
  IF HardwareThreads = 0 THEN 1 ELSE IF HardwareThreads < 1024 THEN HardwareThreads ELSE 1024

DefaultHeaderExtensions == <<".h", ".hpp", ".hh", ".hxx">>

DefaultConfig ==
  [o \in IsKnownOption \ {"--config", "--help"} |->
     CASE o = "--header-extension" -> DefaultHeaderExtensions
       [] o \in IsRepeatableOption \ {"--header-extension"} -> <<>>
       [] o \in SinglePaths \union {"--header-filter", "--class-filter"} -> None
       [] o \in {"--emit-all-mocks", "--emit-manifest", "--emit-cmake-fragment",
                 "--best-effort"} -> TRUE
       [] o \in {"--dry-run", "--overwrite", "--strict", "--validation-keep-artifacts",
                 "--fake-special-members", "--fake-static-data", "--interface-mock"} -> FALSE
       [] o = "--std" -> "c++23"
       [] o = "--access" -> "public"
       [] o = "--include-struct" -> "false"
       [] o = "--registry-mode" -> "thread-local"
       [] o = "--fallback-policy" -> "abort"
       [] o = "--mock-namespace-mode" -> "same-as-product"
       [] o = "--collision-policy" -> "qualified-filename"
       [] o = "--format-style" -> "file"
       [] o = "--validate" -> "compile"
       [] o = "--validation-timeout-ms" -> 30000
       [] o = "--jobs" -> DefaultJobs]

(* ParsePositiveInt *)
IsPositiveInt(text) == text \in DOMAIN Numeral /\ Numeral[text] \in 1 .. MaxInt

IsLegal(o, text) ==
  CASE o \in SinglePaths \union {"--include-dir"} -> text \in DOMAIN PathNamed
    [] o = "--path-map" -> text \in DOMAIN MapNamed
    [] o \in DOMAIN LegalWords -> text \in LegalWords[o]
    [] o \in Switches -> text \in DOMAIN Booleans
    [] o \in {"--header-filter", "--class-filter"} -> text \in Regexes
    [] o \in {"--jobs", "--validation-timeout-ms"} -> IsPositiveInt(text)
    [] o \in {"--exclude", "--define", "--extra-arg"} -> text # ""

Meaning(o, text) ==
  CASE o \in SinglePaths \union {"--include-dir"} -> PathNamed[text]
    [] o = "--path-map" -> MapNamed[text]
    [] o \in Switches -> Booleans[text]
    [] o \in {"--jobs", "--validation-timeout-ms"} -> Numeral[text]
    [] OTHER -> text
-----------------------------------------------------------------------------
(* The loop *)

Argument == arguments[index]
InlineValue == Len(Argument) = 2
Option == Argument[1]

(* StartsWithOptionPrefix; "--" and "--verbose" are the others that have it. *)
OptionLike(argument) == argument[1] \in IsKnownOption \union {"--", "--verbose"}

IsSeparator == scanning /\ Argument = <<"--">>

Reading == ~parsed /\ index <= Len(arguments)

ReadingOption == Reading /\ ~IsSeparator /\ scanning /\ OptionLike(Argument)

ReadingFlag == ReadingOption /\ Option \in IsPresenceFlagOption

ReadingValueOption == ReadingOption /\ Option \in IsKnownOption \ IsPresenceFlagOption

AddError(code, o) == errors' = errors \union {<<code, o>>}

Separator ==
  /\ Reading /\ IsSeparator
  /\ scanning' = FALSE
  /\ index' = index + 1
  /\ UNCHANGED <<config, seen, overridden, errors, help, parsed>>

UnexpectedArgument ==
  /\ Reading /\ ~IsSeparator
  /\ ~scanning \/ ~OptionLike(Argument)
  /\ AddError("UnexpectedArgument", "none")
  /\ index' = index + 1
  /\ UNCHANGED <<config, seen, scanning, overridden, help, parsed>>

UnknownOption ==
  /\ ReadingOption /\ Option \notin IsKnownOption
  /\ AddError("UnknownOption", Option)
  /\ index' = index + 1
  /\ UNCHANGED <<config, seen, scanning, overridden, help, parsed>>

(* A flag with a value is not noted as seen, and --help=text does ask for help. *)
FlagWithValue ==
  /\ ReadingFlag /\ InlineValue
  /\ AddError("InvalidOptionValue", Option)
  /\ help' = (help \/ Option = "--help")
  /\ index' = index + 1
  /\ UNCHANGED <<config, seen, scanning, overridden, parsed>>

IsDuplicate == Option \in seen

MarkOptionSeen == seen' = seen \union ({Option} \ IsRepeatableOption)

Flag ==
  /\ ReadingFlag /\ ~InlineValue /\ ~IsDuplicate
  /\ MarkOptionSeen
  /\ help' = (help \/ Option = "--help")
  /\ config' = CASE Option = "--help" -> config
                 [] Option = "--strict" ->
                      [config EXCEPT !["--strict"] = TRUE, !["--best-effort"] = FALSE]
                 [] Option = "--best-effort" ->
                      [config EXCEPT !["--best-effort"] = TRUE, !["--strict"] = FALSE]
                 [] OTHER -> [config EXCEPT ![Option] = TRUE]
  /\ index' = index + 1
  /\ UNCHANGED <<scanning, overridden, errors, parsed>>

DuplicateFlag ==
  /\ ReadingFlag /\ ~InlineValue /\ IsDuplicate
  /\ AddError("DuplicateOption", Option)
  /\ index' = index + 1
  /\ UNCHANGED <<config, seen, scanning, overridden, help, parsed>>

(* ReadOptionValue: a value of its own may not look like an option, except *)
(* that of --extra-arg.                                                    *)
HasValue ==
  \/ InlineValue
  \/ /\ index < Len(arguments)
     /\ Option = "--extra-arg" \/ ~OptionLike(arguments[index + 1])

Text(argument) == IF Len(argument) = 1 THEN argument[1] ELSE argument[1] \o "=" \o argument[2]

Value == IF InlineValue THEN Argument[2] ELSE Text(arguments[index + 1])

AfterValue == IF InlineValue THEN index + 1 ELSE index + 2

MissingValue ==
  /\ ReadingValueOption /\ ~HasValue
  /\ MarkOptionSeen
  /\ errors' = errors \union {<<"MissingOptionValue", Option>>}
                      \union (IF IsDuplicate THEN {<<"DuplicateOption", Option>>} ELSE {})
  /\ index' = index + 1
  /\ UNCHANGED <<config, scanning, overridden, help, parsed>>

(* The value of the second occurrence is read and dropped. *)
DuplicateValue ==
  /\ ReadingValueOption /\ HasValue /\ IsDuplicate
  /\ AddError("DuplicateOption", Option)
  /\ index' = AfterValue
  /\ UNCHANGED <<config, seen, scanning, overridden, help, parsed>>

ReadingValue == ReadingValueOption /\ HasValue /\ ~IsDuplicate

DeferredValue ==
  /\ ReadingValue /\ Deferred(Option, Value)
  /\ MarkOptionSeen
  /\ AddError("DeferredOption", Option)
  /\ index' = AfterValue
  /\ UNCHANGED <<config, scanning, overridden, help, parsed>>

InvalidValue ==
  /\ ReadingValue /\ ~Deferred(Option, Value) /\ ~IsLegal(Option, Value)
  /\ MarkOptionSeen
  /\ AddError("InvalidOptionValue", Option)
  /\ index' = AfterValue
  /\ UNCHANGED <<config, scanning, overridden, help, parsed>>

AppendUniqueHeaderExtension(extensions, extension) ==
  IF extension \in Range(extensions) THEN extensions ELSE Append(extensions, extension)

AppliedKeepingDefaults(o, text) ==
  IF o \in IsRepeatableOption THEN Append(config[o], Meaning(o, text)) ELSE Meaning(o, text)

(* What a legal value makes of the one the configuration has *)
Applied(o, text) ==
  CASE o = "--header-extension" ->
         AppendUniqueHeaderExtension(IF overridden THEN config[o] ELSE <<>>, text)
    [] o \in IsRepeatableOption \ {"--header-extension"} -> Append(config[o], Meaning(o, text))
    [] OTHER -> Meaning(o, text)

TakeValue ==
  /\ ReadingValue /\ ~Deferred(Option, Value) /\ IsLegal(Option, Value)
  /\ MarkOptionSeen
  /\ config' = [config EXCEPT ![Option] = Applied(Option, Value)]
  /\ overridden' = (overridden \/ Option = "--header-extension")
  /\ index' = AfterValue
  /\ UNCHANGED <<scanning, errors, help, parsed>>
-----------------------------------------------------------------------------
(* After the loop *)

Given(o) == config[o] # None

MissingRoots ==
  {<<"MissingRequiredOption", o>> : o \in {o \in Roots : ~Given(o) /\ ~help}}

Conflicts ==
  IF {"--strict", "--best-effort"} \subseteq seen THEN {<<"ConflictingOption", "--strict">>} ELSE {}

Invalid(o) == <<"InvalidOptionValue", o>>

Unresolved(options) ==
  {Invalid(o) : o \in {o \in options : ~Resolvable(tree, config[o])}}

InputOutsideProject ==
  LET input == config["--input-root"]
      project == config["--project-root"]
      unresolved == Unresolved({"--input-root", "--project-root"})
  IN CASE ~Given("--input-root") \/ ~Given("--project-root") -> {}
       [] ~IsUnder(input, project) -> {Invalid("--input-root")}
       [] unresolved # {} -> unresolved
       [] ~IsUnder(Physical(tree, input), Physical(tree, project)) -> {Invalid("--input-root")}
       [] OTHER -> {}

OutputIsInput ==
  LET input == config["--input-root"]
      output == config["--output-dir"]
      unresolved == Unresolved({"--input-root", "--output-dir"})
  IN CASE ~Given("--input-root") \/ ~Given("--output-dir") -> {}
       [] input = output -> {Invalid("--output-dir")}
       [] unresolved # {} -> unresolved
       [] Physical(tree, input) = Physical(tree, output) -> {Invalid("--output-dir")}
       [] OTHER -> {}

FinishOptions ==
  /\ ~parsed /\ index > Len(arguments)
  /\ errors' = errors \union Conflicts \union MissingRoots
                      \union InputOutsideProject \union OutputIsInput
  /\ parsed' = TRUE
  /\ UNCHANGED <<index, config, seen, scanning, overridden, help>>

(* result.config has a value *)
HasConfig == parsed /\ (\A o \in Roots : Given(o)) /\ ~help

(* CanWriteConfigErrorArtifacts of Runner.cpp *)
CanWriteWhateverIsWrong == HasConfig

CanWriteConfigErrorArtifacts == HasConfig /\ \A e \in errors : e[2] # "--output-dir"

ConfigInit ==
  /\ index = 1
  /\ config = DefaultConfig
  /\ seen = {}
  /\ scanning = TRUE
  /\ overridden = FALSE
  /\ errors = {}
  /\ help = FALSE
  /\ parsed = FALSE

ParseConfig ==
  /\ \/ Separator \/ UnexpectedArgument \/ UnknownOption
     \/ FlagWithValue \/ Flag \/ DuplicateFlag
     \/ MissingValue \/ DuplicateValue \/ DeferredValue \/ InvalidValue \/ TakeValue
     \/ FinishOptions
  /\ UNCHANGED <<tree, arguments>>
-----------------------------------------------------------------------------
(* Properties *)

AsksForValue(argument) ==
  Len(argument) = 1 /\ argument[1] \in IsKnownOption \ IsPresenceFlagOption

(* The places of the arguments that are values: an argument is one if the   *)
(* argument before it, itself not a value, asks for one.                    *)
ValuesOf(given) ==
  LET values[n \in 0 .. Len(given)] ==
        IF n < 2 THEN {}
        ELSE LET before == values[n - 1]
             IN IF n - 1 \notin before /\ AsksForValue(given[n - 1]) THEN before \union {n}
                ELSE before
  IN values[Len(given)]

PlacesOf(given, o) == {k \in DOMAIN given \ ValuesOf(given) : given[k][1] = o}

TextAt(given, k) == IF Len(given[k]) = 2 THEN given[k][2] ELSE Text(given[k + 1])

(* The places of an option with a text that no earlier one of it has *)
FirstsOf(given, o) ==
  LET places == PlacesOf(given, o)
  IN {k \in places : \A j \in places : j < k => TextAt(given, j) # TextAt(given, k)}

(* What an option means at these places, in order: all up to the n-th *)
Meanings(given, o, places) ==
  LET list[n \in 0 .. Len(given)] ==
        IF n = 0 THEN <<>>
        ELSE IF n \in places THEN Append(list[n - 1], Meaning(o, TextAt(given, n)))
        ELSE list[n - 1]
  IN list

(* What the first n words say of an option *)
AsWritten(given, o, n) ==
  LET places == {k \in PlacesOf(given, o) : k <= n}
  IN CASE o = "--header-extension" ->
            IF places = {} THEN DefaultHeaderExtensions
            ELSE Meanings(given, o, FirstsOf(given, o))[n]
       [] o \in IsRepeatableOption \ {"--header-extension"} ->
            Meanings(given, o, PlacesOf(given, o))[n]
       [] o \in IsPresenceFlagOption -> places # {}
       [] OTHER -> IF places = {} THEN DefaultConfig[o]
                   ELSE Meaning(o, TextAt(given, CHOOSE k \in places : TRUE))

(* A command line that is accepted is understood as a whole: every option  *)
(* that takes one value was given at most once and has that value or its   *)
(* default, every list holds what was given for it, in that order, and no  *)
(* argument was a value for one reader and an option for the other.        *)
AcceptedMeansAsWritten ==
  parsed /\ errors = {} /\ ~help =>
    /\ \A o \in DOMAIN config \ IsRepeatableOption :
         \A j, k \in PlacesOf(arguments, o) : j = k
    /\ \A o \in DOMAIN config \ {"--best-effort"} :
         config[o] = AsWritten(arguments, o, Len(arguments))
    /\ config["--best-effort"] = (PlacesOf(arguments, "--strict") = {})

(* Whenever anything is going to be written, be it no more than the report *)
(* of a bad command line, it is not into the directory that holds the      *)
(* product's headers; and a scan stays in the project.  Both whatever the  *)
(* links are through which the directories were given.                     *)
ArtifactsNeverInInputRoot ==
  LET input == Physical(tree, config["--input-root"])
  IN /\ parsed /\ (CanWriteConfigErrorArtifacts \/ (HasConfig /\ errors = {})) =>
          Physical(tree, config["--output-dir"]) # input
     /\ HasConfig /\ errors = {} =>
          IsUnder(input, Physical(tree, config["--project-root"]))
=============================================================================
