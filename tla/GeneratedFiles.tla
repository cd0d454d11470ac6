--------------------------- MODULE GeneratedFiles ---------------------------
(***************************************************************************)
(* What the classes of a run are turned into: GenerateMockFakeProject of   *)
(* src/src/generator/CodeGenerator.cpp, its names for files, and the part  *)
(* of RunCli that follows these names through the CMake fragment, the      *)
(* publication and the report.  Whether files are published is decided by  *)
(* GenerationPolicy.                                                       *)
(*                                                                         *)
(* A path is a prefix, a stem and a suffix, so that the runtime header is  *)
(* the mock header of a class FakeRuntime.  The text of the files is left  *)
(* out; how they reach the disk is OutputWriter, and what an earlier run   *)
(* has left there is Runner.                                               *)
(***************************************************************************)
EXTENDS GenerationPolicy, SequencesExt

CONSTANTS
  Namespaces, Name,  \* of each class: the namespaces it is in, and its own name
  Sanitized,         \* SanitizeFileNameComponent, of each of these words
  Projects           \* the runs to consider

Generations == {"interface-mock", "mock-only", "link-replacement"}

Project ==
  [found : Findings, generation : [Classes -> Generations], strict : BOOLEAN,
   emit_all_mocks : BOOLEAN, emit_cmake_fragment : BOOLEAN]

ASSUME ProjectsGiven == Projects \subseteq Project

VARIABLES
  pc,             \* the stage that comes next
  project,        \* what the front end has found, and the options
  report_classes, \* the stems of the files of each class, as the report knows them
  link_ready,     \* the classes that are link-ready, as far as the run knows
  files,          \* the generated files
  publications,   \* what is known of their publication; no file: nothing yet
  report,         \* the entries of the classes in the last report
  published       \* the generated files in the output directory are those of the run

vars == <<pc, project, report_classes, link_ready, files, publications, report, published>>

classes == project.found.classes

HasFakeSource(c) == project.generation[c] = "link-replacement"

QualifiedName(c) == Append(Namespaces[c], Name[c])
-----------------------------------------------------------------------------
(* Names *)

MockHeader(stem) == <<"Mock", stem, ".h">>
FakeSource(stem) == <<"Fake", stem, ".cpp">>

RuntimeHeader == MockHeader("FakeRuntime")
AllMocks == <<"", "AllMocks", ".h">>
Fragment == <<"", "CMakeLists.fragment", ".cmake">>

(* A namespace with the name of the class in it is not told from the class. *)
QualifiedFileNameComponents(c) ==
  IF Namespaces[c] # <<>> /\ Last(Namespaces[c]) = Name[c]
  THEN Namespaces[c] ELSE QualifiedName(c)

QualifiedFileNameToken(c) ==
  FoldLeft(LAMBDA text, component :
             IF text = "" THEN Sanitized[component]
             ELSE text \o "_" \o Sanitized[component],
           "", QualifiedFileNameComponents(c))

QualifiedStem(c) == "_" \o QualifiedFileNameToken(c)

(* The names that ClassExtractor gives to the files of a class *)
DefaultNames == [c \in Classes |-> [mock |-> Name[c], fake |-> Name[c]]]

(* A class does not collide unless its mock header does: for comparison *)
CollidesByMock(names, c) ==
  \E d \in classes \ {c} :
    HasFakeSource(c) = HasFakeSource(d) /\ names[d].mock = names[c].mock

(* More than one class with this mock header, or this fake source *)
Collides(names, c) ==
  \E d \in classes \ {c} :
    \/ names[d].mock = names[c].mock
    \/ HasFakeSource(c) /\ HasFakeSource(d) /\ names[d].fake = names[c].fake

ResolveQualifiedFilenameCollisions(names) ==
  [c \in Classes |->
     IF c \in classes /\ Collides(names, c)
     THEN [mock |-> QualifiedStem(c), fake |-> QualifiedStem(c)] ELSE names[c]]
-----------------------------------------------------------------------------
(* The generated files: what they are for, of which class, and which other
   files they list *)

ClassFile(kind, path, c) == [kind |-> kind, path |-> path, owner |-> {c}, lists |-> {}]

MockHeaders(names) == {ClassFile("mock", MockHeader(names[c].mock), c) : c \in classes}

FakeSources(names) ==
  {ClassFile("fake", FakeSource(names[c].fake), c) : c \in {d \in classes : HasFakeSource(d)}}

PathsOf(fs) == {f.path : f \in fs}

Supporting(kind, path, lists) ==
  [kind |-> kind, path |-> path, owner |-> {}, lists |-> lists]

AllMocksHeader(fs) == Supporting("all_mocks", AllMocks, PathsOf({f \in fs : f.kind = "mock"}))

(* The fragment lists all fakes: for comparison *)
FragmentOfAllFakes(fs, ready) ==
  Supporting("cmake", Fragment, PathsOf({f \in fs : f.kind = "fake"}))

(* With the readiness known when the files are generated *)
CMakeFragment(fs, ready) ==
  Supporting("cmake", Fragment,
             PathsOf({f \in fs : f.kind = "fake" /\ f.owner \subseteq ready}))

(* It resolves collisions once more, in names that were resolved before. *)
GenerateMockFakeProject(given, ready) ==
  LET names == ResolveQualifiedFilenameCollisions(given)
      ofClasses == MockHeaders(names) \union FakeSources(names)
  IN ofClasses
     \union {f \in {Supporting("runtime", RuntimeHeader, {})} :
               \E c \in classes : project.generation[c] # "interface-mock"}
     \union {f \in {AllMocksHeader(ofClasses)} : project.emit_all_mocks}
     \union {f \in {CMakeFragment(ofClasses, ready)} :
               project.emit_cmake_fragment /\ FakeSources(names) # {}}

DuplicateOutputPath == \E f, g \in files : f # g /\ f.path = g.path
-----------------------------------------------------------------------------
(* The report *)

(* FindPublication: two files alike in kind, path and class have one status. *)
Publication(known, kind, path, c) ==
  {known[f] : f \in {g \in DOMAIN known :
     g.kind = kind /\ g.path = path /\ \E d \in g.owner : QualifiedName(d) = QualifiedName(c)}}

PublishedOrDefault(known, kind, path, c) ==
  DOMAIN known = {} \/ "unchanged" \in Publication(known, kind, path, c)

MakeClassReportEntry(known, ready, c) ==
  LET mock == MockHeader(report_classes[c].mock)
      fake == FakeSource(report_classes[c].fake)
  IN [class |-> c,
      mock_header |-> mock,
      fake_source |-> IF HasFakeSource(c) THEN {fake} ELSE {},
      link_ready |->
        /\ c \in ready
        /\ PublishedOrDefault(known, "mock", mock, c)
        /\ HasFakeSource(c) => PublishedOrDefault(known, "fake", fake, c),
      filename_collision |->
        \/ mock # MockHeader(Name[c])
        \/ HasFakeSource(c) /\ fake # FakeSource(Name[c])]

NoPublications == [f \in {} |-> "selected"]

ReportOf(known, ready) == {MakeClassReportEntry(known, ready, c) : c \in classes}

(* What is known of the publication of each file *)
BuildFilePublications(unchanged, otherwise) ==
  [f \in files |-> IF f \in unchanged THEN "unchanged" ELSE otherwise]

UsableFakeSources == UNION {e.fake_source : e \in {r \in report : r.link_ready}}
-----------------------------------------------------------------------------
(* The run, from the classes on *)

Init ==
  /\ pc = "resolve"
  /\ project \in Projects
  /\ report_classes = DefaultNames
  /\ link_ready = project.found.classes \ (project.found.marked \union project.found.unsupported)
  /\ files = {} /\ publications = NoPublications /\ report = {} /\ published = FALSE

(* The report is made of the classes as extracted: for comparison *)
KeepExtractedNames ==
  /\ pc = "resolve"
  /\ pc' = "generate"
  /\ UNCHANGED <<project, report_classes, link_ready, files, publications, report, published>>

ResolveGeneratedClassFilenames ==
  /\ pc = "resolve"
  /\ pc' = "generate"
  /\ report_classes' = ResolveQualifiedFilenameCollisions(report_classes)
  /\ UNCHANGED <<project, link_ready, files, publications, report, published>>

Generate ==
  /\ pc = "generate"
  /\ pc' = "format"
  /\ files' = GenerateMockFakeProject(report_classes, link_ready)
  /\ UNCHANGED <<project, report_classes, link_ready, publications, report, published>>

FormatFails ==
  /\ pc = "format"
  /\ pc' = "done"
  /\ report' = ReportOf(publications, link_ready)
  /\ UNCHANGED <<project, report_classes, link_ready, files, publications, published>>

(* The policy, ApplyPolicyLinkReadiness, and the first report; when nothing
   is published, the second as well.                                        *)
Decide ==
  /\ pc = "format"
  /\ LET decision == EvaluateGenerationPolicy(project.strict, TRUE, project.found) IN
     /\ pc' = IF decision.publish THEN "write" ELSE "done"
     /\ publications' = IF decision.publish THEN publications
                        ELSE BuildFilePublications({}, "suppressed_by_policy")
  /\ link_ready' = {c \in classes : LinkReady(project.found, c)}
  /\ report' = ReportOf(publications', link_ready')
  /\ UNCHANGED <<project, report_classes, files, published>>

WriteSucceeds ==
  /\ pc = "write" /\ ~DuplicateOutputPath
  /\ pc' = "done"
  /\ published' = TRUE
  /\ UNCHANGED <<project, report_classes, link_ready, files, publications, report>>

(* Files that a failed write found as they should be are reported as such;
   with a duplicate path it looks at none.                                  *)
WriteFails ==
  /\ pc = "write"
  /\ pc' = "done"
  /\ \E unchanged \in SUBSET {f \in files : f.owner # {} /\ ~DuplicateOutputPath} :
       publications' = BuildFilePublications(unchanged, "failed")
  /\ report' = ReportOf(publications', link_ready)
  /\ UNCHANGED <<project, report_classes, link_ready, files, published>>

Next ==
  \/ ResolveGeneratedClassFilenames \/ Generate \/ FormatFails \/ Decide
  \/ WriteSucceeds \/ WriteFails

Spec == Init /\ [][Next]_vars
-----------------------------------------------------------------------------
(* Properties *)

TypeOK ==
  /\ pc \in {"resolve", "generate", "format", "write", "done"}
  /\ project \in Projects
  /\ DOMAIN report_classes = Classes
  /\ link_ready \subseteq classes
  /\ {f.kind : f \in files} \subseteq {"mock", "fake", "runtime", "all_mocks", "cmake"}
  /\ DOMAIN publications \subseteq files
  /\ {e.class : e \in report} \subseteq classes
  /\ published \in BOOLEAN

(* The classes of the run have qualified names that stay different as names
   of files, none has by itself the qualified name of another, and none is
   called FakeRuntime.                                                      *)
Unmistakable ==
  \A c \in classes :
    /\ Name[c] # "FakeRuntime" /\ QualifiedStem(c) # "FakeRuntime"
    /\ \A d \in classes \ {c} :
         QualifiedStem(c) # QualifiedStem(d) /\ QualifiedStem(c) # Name[d]

(* Collisions are resolved, for classes that can be told apart: no two files
   of a run have one path (CodeGenerator.cpp, ResolveQualifiedFilename-
   Collisions, applied twice; classes with and without a fake, of one name).*)
CollisionsResolved == Unmistakable => ~DuplicateOutputPath

(* A class keeps its short file names unless another class of the run has
   its name, and exactly the others are reported as collisions (design
   document, 14.3: qualified names are for collisions only).                *)
ShortNamesKept ==
  \A e \in report :
    Unmistakable =>
      (e.filename_collision <=> \E d \in classes \ {e.class} : Name[d] = Name[e.class])

(* The names of the report, resolved once, are those of the files, resolved
   twice: each class is reported with its own mock header and its own fake. *)
ReportNamesFiles ==
  \A e \in report :
    Unmistakable =>
      /\ ClassFile("mock", e.mock_header, e.class) \in files
      /\ \A p \in e.fake_source : ClassFile("fake", p, e.class) \in files

(* A published fragment, whose readiness is that of the generation, lists
   the sources that the report, after the policy, calls usable.             *)
FragmentListsUsable ==
  published /\ Unmistakable =>
    \A f \in files : f.kind = "cmake" => f.lists = UsableFakeSources

=============================================================================
