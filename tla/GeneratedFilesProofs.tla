------------------------ MODULE GeneratedFilesProofs ------------------------
(***************************************************************************)
(* What holds of the names and the lists of a run for every set of classes *)
(* and every way of putting names together.                                *)
(***************************************************************************)
EXTENDS GeneratedFiles, TLAPS

Extracted == classes \ (project.found.marked \union project.found.unsupported)

Resolved == ResolveQualifiedFilenameCollisions(DefaultNames)

SharesName(c) == \E d \in classes \ {c} : Name[d] = Name[c]

StemOf(c) == IF SharesName(c) THEN QualifiedStem(c) ELSE Name[c]

(* Stages in which the files are there *)
Generated == {"format", "write", "done"}

NamesInv ==
  /\ project \in Projects
  /\ pc \in {"resolve", "generate"} \union Generated
  /\ report_classes = IF pc = "resolve" THEN DefaultNames ELSE Resolved

FilesInv ==
  files = IF pc \in Generated THEN GenerateMockFakeProject(Resolved, Extracted) ELSE {}

EntryInv(e) ==
  LET mock == MockHeader(Resolved[e.class].mock)
      fake == FakeSource(Resolved[e.class].fake)
  IN /\ e.class \in classes
     /\ e.mock_header = mock
     /\ e.fake_source = IF HasFakeSource(e.class) THEN {fake} ELSE {}
     /\ e.filename_collision <=> \/ mock # MockHeader(Name[e.class])
                                \/ /\ HasFakeSource(e.class)
                                   /\ fake # FakeSource(Name[e.class])

ReportInv == \A e \in report : pc \in {"write", "done"} /\ EntryInv(e)

(* Up to a publication nothing is known of it, and what the policy calls
   ready is what was ready before.                                         *)
PublicationInv ==
  /\ published \in BOOLEAN
  /\ DOMAIN publications \subseteq files
  /\ link_ready \subseteq classes
  /\ pc # "done" => publications = NoPublications /\ ~published
  /\ pc \in {"resolve", "generate", "format"} => link_ready = Extracted
  /\ pc = "write" \/ published => report = ReportOf(NoPublications, Extracted)

IInv == NamesInv /\ FilesInv /\ ReportInv /\ PublicationInv
-----------------------------------------------------------------------------
(* Collisions of the names that the classes have by default *)

LEMMA ClassesKnown ==
  ASSUME NamesInv
  PROVE  classes \subseteq Classes
BY ProjectsGiven DEF NamesInv, Project, Findings, classes

LEMMA DefaultCollisions ==
  ASSUME NamesInv, NEW c \in classes
  PROVE  Collides(DefaultNames, c) <=> SharesName(c)
<1>1. \A d \in classes : /\ DefaultNames[d].mock = Name[d]
                         /\ DefaultNames[d].fake = Name[d]
  BY ClassesKnown DEF DefaultNames
<1>. QED
  BY <1>1 DEF Collides, SharesName

(* A class keeps its name or has the qualified one, for both of its files. *)
LEMMA ResolvedStem ==
  ASSUME NamesInv, NEW c \in classes
  PROVE  Resolved[c].mock = StemOf(c) /\ Resolved[c].fake = StemOf(c)
<1>1. c \in Classes
  BY ClassesKnown
<1>2. CASE SharesName(c)
  <2>1. Resolved[c] = [mock |-> QualifiedStem(c), fake |-> QualifiedStem(c)]
    BY <1>1, <1>2, DefaultCollisions
    DEF Resolved, ResolveQualifiedFilenameCollisions
  <2>. QED
    BY <1>2, <2>1 DEF StemOf
<1>3. CASE ~SharesName(c)
  <2>1. Resolved[c] = DefaultNames[c]
    BY <1>1, <1>3, DefaultCollisions
    DEF Resolved, ResolveQualifiedFilenameCollisions
  <2>2. DefaultNames[c] = [mock |-> Name[c], fake |-> Name[c]]
    BY <1>1 DEF DefaultNames
  <2>. QED
    BY <1>3, <2>1, <2>2 DEF StemOf
<1>. QED
  BY <1>2, <1>3

(* Names that can be told apart are told apart by the first resolution. *)
LEMMA StemsDiffer ==
  ASSUME Unmistakable, NEW c \in classes, NEW d \in classes \ {c}
  PROVE  StemOf(c) # StemOf(d)
<1>1. QualifiedStem(c) # QualifiedStem(d) /\ QualifiedStem(c) # Name[d]
  BY DEF Unmistakable
<1>2. QualifiedStem(d) # Name[c]
  <2>1. c \in classes \ {d}
    OBVIOUS
  <2>. QED
    BY <2>1 DEF Unmistakable
<1>3. ~SharesName(c) => Name[c] # Name[d]
  BY DEF SharesName
<1>. QED
  BY <1>1, <1>2, <1>3 DEF StemOf

LEMMA StemsNotRuntime ==
  ASSUME Unmistakable, NEW c \in classes
  PROVE  StemOf(c) # "FakeRuntime"
BY DEF Unmistakable, StemOf

(* The second resolution then finds nothing to do. *)
LEMMA ResolvedOnce ==
  ASSUME NamesInv, Unmistakable
  PROVE  ResolveQualifiedFilenameCollisions(Resolved) = Resolved
<1>1. \A c \in classes : ~Collides(Resolved, c)
  <2>. SUFFICES ASSUME NEW c \in classes PROVE ~Collides(Resolved, c)
    OBVIOUS
  <2>1. \A d \in classes \ {c} : /\ Resolved[d].mock # Resolved[c].mock
                                 /\ Resolved[d].fake # Resolved[c].fake
    BY ResolvedStem, StemsDiffer
  <2>. QED
    BY <2>1 DEF Collides
<1>2. Resolved = [c \in Classes |-> Resolved[c]]
  BY DEF Resolved, ResolveQualifiedFilenameCollisions
<1>3. ResolveQualifiedFilenameCollisions(Resolved) = [c \in Classes |-> Resolved[c]]
  BY <1>1 DEF ResolveQualifiedFilenameCollisions
<1>. QED
  BY <1>2, <1>3
-----------------------------------------------------------------------------
(* What is in the generated files *)

(* Those with the qualified names once resolved *)
OfClasses == MockHeaders(Resolved) \union FakeSources(Resolved)

LEMMA FilesListed ==
  ASSUME NamesInv, Unmistakable,
         NEW f \in GenerateMockFakeProject(Resolved, Extracted)
  PROVE  \/ \E c \in classes : f = ClassFile("mock", MockHeader(StemOf(c)), c)
         \/ \E c \in classes : /\ HasFakeSource(c)
                               /\ f = ClassFile("fake", FakeSource(StemOf(c)), c)
         \/ f = Supporting("runtime", RuntimeHeader, {})
         \/ f = AllMocksHeader(OfClasses)
         \/ f = CMakeFragment(OfClasses, Extracted)
<1>1. \/ f \in MockHeaders(Resolved) \/ f \in FakeSources(Resolved)
      \/ f = Supporting("runtime", RuntimeHeader, {})
      \/ f = AllMocksHeader(OfClasses)
      \/ f = CMakeFragment(OfClasses, Extracted)
  BY ResolvedOnce DEF GenerateMockFakeProject, OfClasses
<1>2. ASSUME f \in MockHeaders(Resolved)
      PROVE  \E c \in classes : f = ClassFile("mock", MockHeader(StemOf(c)), c)
  BY <1>2, ResolvedStem DEF MockHeaders
<1>3. ASSUME f \in FakeSources(Resolved)
      PROVE  \E c \in classes : /\ HasFakeSource(c)
                               /\ f = ClassFile("fake", FakeSource(StemOf(c)), c)
  BY <1>3, ResolvedStem DEF FakeSources
<1>. QED
  BY <1>1, <1>2, <1>3

LEMMA PathsDiffer ==
  ASSUME NamesInv, Unmistakable,
         NEW f \in GenerateMockFakeProject(Resolved, Extracted),
         NEW g \in GenerateMockFakeProject(Resolved, Extracted),
         f.path = g.path
  PROVE  f = g
<1>. DEFINE IsMock(h) == \E c \in classes : h = ClassFile("mock", MockHeader(StemOf(c)), c)
            IsFake(h) == \E c \in classes : h = ClassFile("fake", FakeSource(StemOf(c)), c)
<1>1. /\ IsMock(f) \/ IsFake(f) \/ f = Supporting("runtime", RuntimeHeader, {})
         \/ f = AllMocksHeader(OfClasses) \/ f = CMakeFragment(OfClasses, Extracted)
      /\ IsMock(g) \/ IsFake(g) \/ g = Supporting("runtime", RuntimeHeader, {})
         \/ g = AllMocksHeader(OfClasses) \/ g = CMakeFragment(OfClasses, Extracted)
  BY FilesListed
<1>2. ASSUME NEW c \in classes, NEW d \in classes, StemOf(c) = StemOf(d)
      PROVE  c = d
  BY <1>2, StemsDiffer
<1>3. ASSUME IsMock(f), IsMock(g) PROVE f = g
  <2>1. PICK c \in classes : f = ClassFile("mock", MockHeader(StemOf(c)), c)
    BY <1>3
  <2>2. PICK d \in classes : g = ClassFile("mock", MockHeader(StemOf(d)), d)
    BY <1>3
  <2>3. StemOf(c) = StemOf(d)
    BY <2>1, <2>2 DEF ClassFile, MockHeader
  <2>. QED
    BY <1>2, <2>1, <2>2, <2>3
<1>4. ASSUME IsFake(f), IsFake(g) PROVE f = g
  <2>1. PICK c \in classes : f = ClassFile("fake", FakeSource(StemOf(c)), c)
    BY <1>4
  <2>2. PICK d \in classes : g = ClassFile("fake", FakeSource(StemOf(d)), d)
    BY <1>4
  <2>3. StemOf(c) = StemOf(d)
    BY <2>1, <2>2 DEF ClassFile, FakeSource
  <2>. QED
    BY <1>2, <2>1, <2>2, <2>3
<1>5. ASSUME NEW h, IsMock(h)
      PROVE  h.path[1] = "Mock" /\ h.path[2] # "FakeRuntime"
  BY <1>5, StemsNotRuntime DEF ClassFile, MockHeader
<1>6. ASSUME NEW h, IsFake(h)
      PROVE  h.path[1] = "Fake"
  BY <1>6 DEF ClassFile, FakeSource
<1>. DEFINE runtime == Supporting("runtime", RuntimeHeader, {})
            all == AllMocksHeader(OfClasses)
            cmake == CMakeFragment(OfClasses, Extracted)
<1>7. /\ runtime.path[1] = "Mock" /\ runtime.path[2] = "FakeRuntime"
      /\ all.path[1] = "" /\ all.path[2] = "AllMocks"
      /\ cmake.path[1] = "" /\ cmake.path[2] = "CMakeLists.fragment"
  BY DEF Supporting, RuntimeHeader, MockHeader, AllMocksHeader, AllMocks, CMakeFragment,
         Fragment
<1>. HIDE DEF IsMock, IsFake, runtime, all, cmake
<1>8. f.path[1] = g.path[1] /\ f.path[2] = g.path[2]
  OBVIOUS
<1>9. CASE IsMock(f)
  <2>1. f.path[1] = "Mock" /\ f.path[2] # "FakeRuntime"
    BY <1>5, <1>9
  <2>2. IsMock(g)
    BY <1>1, <1>6, <1>7, <1>8, <2>1 DEF runtime, all, cmake
  <2>. QED
    BY <1>3, <1>9, <2>2
<1>10. CASE IsFake(f)
  <2>1. f.path[1] = "Fake"
    BY <1>6, <1>10
  <2>2. IsFake(g)
    BY <1>1, <1>5, <1>7, <1>8, <2>1 DEF runtime, all, cmake
  <2>. QED
    BY <1>4, <1>10, <2>2
<1>11. CASE f \in {runtime, all, cmake}
  <2>1. ~IsMock(g) /\ ~IsFake(g)
    BY <1>5, <1>6, <1>7, <1>8, <1>11
  <2>2. g \in {runtime, all, cmake}
    BY <1>1, <2>1 DEF runtime, all, cmake
  <2>3. CASE f = runtime
    BY <1>7, <1>8, <2>2, <2>3
  <2>4. CASE f = all
    BY <1>7, <1>8, <2>2, <2>4
  <2>5. CASE f = cmake
    BY <1>7, <1>8, <2>2, <2>5
  <2>. QED
    BY <1>11, <2>3, <2>4, <2>5
<1>. QED
  BY <1>1, <1>9, <1>10, <1>11 DEF runtime, all, cmake
-----------------------------------------------------------------------------
(* What the properties follow from *)

LEMMA EntryMade ==
  ASSUME report_classes = Resolved, NEW c \in classes, NEW known, NEW ready
  PROVE  EntryInv(MakeClassReportEntry(known, ready, c))
BY DEF EntryInv, MakeClassReportEntry

LEMMA PathsApart == IInv => CollisionsResolved
<1>. SUFFICES ASSUME IInv, Unmistakable, NEW f \in files, NEW g \in files, f.path = g.path
              PROVE  f = g
  BY DEF CollisionsResolved, DuplicateOutputPath
<1>1. files = GenerateMockFakeProject(Resolved, Extracted)
  BY DEF IInv, FilesInv
<1>. QED
  BY <1>1, PathsDiffer DEF IInv

LEMMA NamesShort == IInv => ShortNamesKept
<1>. SUFFICES ASSUME IInv, Unmistakable, NEW e \in report
              PROVE  e.filename_collision <=> SharesName(e.class)
  BY DEF ShortNamesKept, SharesName
<1>1. EntryInv(e) /\ e.class \in classes
  BY DEF IInv, ReportInv, EntryInv
<1>2. Resolved[e.class].mock = StemOf(e.class) /\ Resolved[e.class].fake = StemOf(e.class)
  BY <1>1, ResolvedStem DEF IInv
<1>3. ASSUME SharesName(e.class) PROVE e.filename_collision
  <2>1. PICK d \in classes \ {e.class} : Name[d] = Name[e.class]
    BY <1>3 DEF SharesName
  <2>2. QualifiedStem(e.class) # Name[e.class]
    BY <1>1, <2>1 DEF Unmistakable
  <2>. QED
    BY <1>1, <1>2, <1>3, <2>2 DEF EntryInv, StemOf, MockHeader
<1>4. ASSUME ~SharesName(e.class) PROVE ~e.filename_collision
  BY <1>1, <1>2, <1>4 DEF EntryInv, StemOf
<1>. QED
  BY <1>3, <1>4

LEMMA ReportNames == IInv => ReportNamesFiles
<1>. SUFFICES ASSUME IInv, Unmistakable, NEW e \in report
              PROVE  /\ ClassFile("mock", e.mock_header, e.class) \in files
                     /\ \A p \in e.fake_source : ClassFile("fake", p, e.class) \in files
  BY DEF ReportNamesFiles
<1>1. EntryInv(e) /\ e.class \in classes /\ pc \in {"write", "done"}
  BY DEF IInv, ReportInv, EntryInv
<1>2. MockHeaders(Resolved) \union FakeSources(Resolved) \subseteq files
  BY <1>1, ResolvedOnce DEF IInv, FilesInv, Generated, GenerateMockFakeProject
<1>3. ClassFile("mock", e.mock_header, e.class) \in MockHeaders(Resolved)
  BY <1>1 DEF EntryInv, MockHeaders
<1>4. ASSUME NEW p \in e.fake_source
      PROVE  ClassFile("fake", p, e.class) \in FakeSources(Resolved)
  BY <1>1, <1>4 DEF EntryInv, FakeSources
<1>. QED
  BY <1>2, <1>3, <1>4

LEMMA FragmentUsable == IInv => FragmentListsUsable
<1>. SUFFICES ASSUME IInv, published, Unmistakable, NEW f \in files, f.kind = "cmake"
              PROVE  f.lists = UsableFakeSources
  BY DEF FragmentListsUsable
<1>. DEFINE Source(c) == FakeSource(Resolved[c].fake)
            listed == {Source(c) : c \in {d \in Extracted : HasFakeSource(d)}}
            fakes == {g \in OfClasses : g.kind = "fake" /\ g.owner \subseteq Extracted}
<1>1. pc = "done" /\ report = ReportOf(NoPublications, Extracted) /\ report_classes = Resolved
  BY DEF IInv, NamesInv, PublicationInv
<1>2. f = CMakeFragment(OfClasses, Extracted)
  <2>1. f \in GenerateMockFakeProject(Resolved, Extracted)
    BY <1>1 DEF IInv, FilesInv
  <2>2. ASSUME NEW c, NEW path, NEW kind \in {"mock", "fake"}
        PROVE  f # ClassFile(kind, path, c)
    BY DEF ClassFile
  <2>3. f # Supporting("runtime", RuntimeHeader, {}) /\ f # AllMocksHeader(OfClasses)
    BY DEF Supporting, AllMocksHeader
  <2>. QED
    BY <2>1, <2>2, <2>3, FilesListed DEF IInv
<1>3. f.lists = PathsOf(fakes)
  BY <1>2 DEF CMakeFragment, Supporting
<1>4. ASSUME NEW p \in PathsOf(fakes) PROVE p \in listed
  <2>1. PICK g \in fakes : p = g.path
    BY <1>4 DEF PathsOf
  <2>2. g \notin MockHeaders(Resolved)
    BY <2>1 DEF MockHeaders, ClassFile
  <2>3. PICK c \in classes : /\ HasFakeSource(c)
                            /\ g = ClassFile("fake", Source(c), c)
    BY <2>1, <2>2 DEF OfClasses, FakeSources
  <2>4. c \in Extracted /\ p = Source(c)
    BY <2>1, <2>3 DEF ClassFile
  <2>. QED
    BY <2>3, <2>4
<1>5. ASSUME NEW p \in listed PROVE p \in PathsOf(fakes)
  <2>1. PICK c \in Extracted : HasFakeSource(c) /\ p = Source(c)
    BY <1>5
  <2>. DEFINE g == ClassFile("fake", Source(c), c)
  <2>2. g \in OfClasses
    BY <2>1 DEF OfClasses, FakeSources, Extracted
  <2>3. g.kind = "fake" /\ g.owner \subseteq Extracted /\ g.path = p
    BY <2>1 DEF ClassFile
  <2>. QED
    BY <2>2, <2>3 DEF PathsOf
<1>6. DOMAIN NoPublications = {}
  BY DEF NoPublications
<1>7. ASSUME NEW c \in classes
      PROVE  LET e == MakeClassReportEntry(NoPublications, Extracted, c)
             IN /\ e.link_ready <=> c \in Extracted
                /\ e.fake_source = IF HasFakeSource(c) THEN {Source(c)} ELSE {}
  BY <1>1, <1>6 DEF MakeClassReportEntry, PublishedOrDefault
<1>8. ASSUME NEW p \in UsableFakeSources PROVE p \in listed
  <2>1. PICK e \in report : e.link_ready /\ p \in e.fake_source
    BY <1>8 DEF UsableFakeSources
  <2>2. PICK c \in classes : e = MakeClassReportEntry(NoPublications, Extracted, c)
    BY <1>1, <2>1 DEF ReportOf
  <2>. QED
    BY <1>7, <2>1, <2>2
<1>9. ASSUME NEW p \in listed PROVE p \in UsableFakeSources
  <2>1. PICK c \in Extracted : HasFakeSource(c) /\ p = Source(c)
    BY <1>9
  <2>2. c \in classes
    BY DEF Extracted
  <2>. DEFINE e == MakeClassReportEntry(NoPublications, Extracted, c)
  <2>3. e \in report
    BY <1>1, <2>2 DEF ReportOf
  <2>4. e.link_ready /\ p \in e.fake_source
    BY <1>7, <2>1, <2>2
  <2>. QED
    BY <2>3, <2>4 DEF UsableFakeSources
<1>. QED
  BY <1>3, <1>4, <1>5, <1>8, <1>9
-----------------------------------------------------------------------------
(* The policy *)

(* A failure that the policy finds in its input withholds the files. *)
LEMMA FailureWithholds ==
  ASSUME NEW d, NEW strict, NEW kind
  PROVE  ApplyFailurePolicy(d, EvaluateFailurePolicy(strict, kind)).publish
           <=> d.publish /\ EvaluateFailurePolicy(strict, kind).publish
BY DEF ApplyFailurePolicy

(* What is published has no class that the fallback cannot serve. *)
LEMMA PublishedFits ==
  ASSUME NEW found \in Findings, NEW strict,
         EvaluateGenerationPolicy(strict, TRUE, found).publish
  PROVE  found.misfit \intersect found.classes = {}
<1>. DEFINE Apply(d, kind) ==
              IF kind \in FoundKinds(found)
              THEN ApplyFailurePolicy(d, EvaluateFailurePolicy(strict, kind)) ELSE d
            none == [exit_code |-> 0, publish |-> TRUE, manifest |-> TRUE, report |-> TRUE]
            before == Apply(Apply(Apply(Apply(none, "parse"), "unsupported"), "ket"),
                            "validation")
            all == Apply(Apply(before, "fallback"), "readiness")
<1>1. all.publish
  BY DEF EvaluateGenerationPolicy
<1>. HIDE DEF before
<1>2. Apply(before, "fallback").publish
  BY <1>1, FailureWithholds
<1>3. ~EvaluateFailurePolicy(strict, "fallback").publish
  BY DEF EvaluateFailurePolicy
<1>4. "fallback" \notin FoundKinds(found)
  BY <1>2, <1>3, FailureWithholds
<1>. QED
  BY <1>4 DEF FoundKinds, FailureKinds

LEMMA PublishedReadiness ==
  ASSUME NamesInv,
         EvaluateGenerationPolicy(project.strict, TRUE, project.found).publish
  PROVE  {c \in classes : LinkReady(project.found, c)} = Extracted
<1>1. project.found \in Findings
  BY ProjectsGiven DEF NamesInv, Project
<1>2. project.found.misfit \intersect classes = {}
  BY <1>1, PublishedFits DEF classes
<1>. QED
  BY <1>2 DEF LinkReady, Extracted
-----------------------------------------------------------------------------
(* The invariant is inductive *)

LEMMA SameProject ==
  ASSUME project' = project
  PROVE  /\ Resolved' = Resolved
         /\ GenerateMockFakeProject(Resolved, Extracted)'
              = GenerateMockFakeProject(Resolved, Extracted)
         /\ Extracted' = Extracted /\ classes' = classes
         /\ \A e : EntryInv(e)' <=> EntryInv(e)
<1>1. Extracted' = Extracted /\ classes' = classes
  BY DEF Extracted, classes
<1>2. \A c : HasFakeSource(c)' <=> HasFakeSource(c)
  BY DEF HasFakeSource
<1>3. Resolved' = Resolved
  BY <1>1, <1>2 DEF Resolved, ResolveQualifiedFilenameCollisions, Collides
<1>4. \A e : EntryInv(e)' <=> EntryInv(e)
  BY <1>1, <1>2, <1>3 DEF EntryInv
<1>5. GenerateMockFakeProject(Resolved, Extracted)'
        = GenerateMockFakeProject(Resolved, Extracted)
  <2>. DEFINE names == ResolveQualifiedFilenameCollisions(Resolved)
              needsRuntime == \E c \in classes : project.generation[c] # "interface-mock"
  <2>1. names' = names
    BY <1>1, <1>2, <1>3 DEF ResolveQualifiedFilenameCollisions, Collides
  <2>2. needsRuntime' <=> needsRuntime
    BY <1>1
  <2>. HIDE DEF names
  <2>3. MockHeaders(names)' = MockHeaders(names)
    BY <1>1, <2>1 DEF MockHeaders
  <2>4. FakeSources(names)' = FakeSources(names)
    BY <1>1, <1>2, <2>1 DEF FakeSources
  <2>. DEFINE ofClasses == MockHeaders(names) \union FakeSources(names)
              result ==
                ofClasses
                \union {f \in {Supporting("runtime", RuntimeHeader, {})} : needsRuntime}
                \union {f \in {AllMocksHeader(ofClasses)} : project.emit_all_mocks}
                \union {f \in {CMakeFragment(ofClasses, Extracted)} :
                          project.emit_cmake_fragment /\ FakeSources(names) # {}}
  <2>5. GenerateMockFakeProject(Resolved, Extracted) = result
    BY DEF GenerateMockFakeProject, names
  <2>6. GenerateMockFakeProject(Resolved, Extracted)' = result'
    BY DEF GenerateMockFakeProject, names
  <2>7. AllMocksHeader(ofClasses)' = AllMocksHeader(ofClasses)
    BY <2>3, <2>4 DEF AllMocksHeader, PathsOf, Supporting
  <2>8. CMakeFragment(ofClasses, Extracted)' = CMakeFragment(ofClasses, Extracted)
    BY <1>1, <2>3, <2>4 DEF CMakeFragment, PathsOf, Supporting
  <2>. HIDE DEF needsRuntime
  <2>9. result' = result
    BY <2>2, <2>3, <2>4, <2>7, <2>8
  <2>. QED
    BY <2>5, <2>6, <2>9
<1>. QED
  BY <1>1, <1>3, <1>4, <1>5

LEMMA SameReport ==
  ASSUME project' = project, report_classes' = report_classes
  PROVE  ReportOf(NoPublications, Extracted)' = ReportOf(NoPublications, Extracted)
<1>1. Extracted' = Extracted /\ classes' = classes
  BY DEF Extracted, classes
<1>. QED
  BY <1>1 DEF ReportOf, MakeClassReportEntry, PublishedOrDefault, Publication, NoPublications,
              HasFakeSource

LEMMA InitHolds == Init => IInv
<1>. SUFFICES ASSUME Init PROVE IInv
  OBVIOUS
<1>1. NamesInv
  BY DEF Init, NamesInv
<1>2. FilesInv
  BY DEF Init, FilesInv, Generated
<1>3. ReportInv
  BY DEF Init, ReportInv
<1>4. DOMAIN NoPublications = {}
  BY DEF NoPublications
<1>5. PublicationInv
  BY <1>4 DEF Init, PublicationInv, Extracted, classes
<1>. QED
  BY <1>1, <1>2, <1>3, <1>5 DEF IInv

LEMMA StepHolds ==
  ASSUME IInv, [Next]_vars
  PROVE  IInv'
<1>. USE SameProject
<1>1. CASE ResolveGeneratedClassFilenames
  <2>1. NamesInv'
    BY <1>1 DEF ResolveGeneratedClassFilenames, IInv, NamesInv, Resolved
  <2>2. FilesInv'
    BY <1>1 DEF ResolveGeneratedClassFilenames, IInv, FilesInv, Generated
  <2>3. ReportInv'
    BY <1>1 DEF ResolveGeneratedClassFilenames, IInv, ReportInv
  <2>4. PublicationInv'
    BY <1>1 DEF ResolveGeneratedClassFilenames, IInv, PublicationInv
  <2>. QED
    BY <2>1, <2>2, <2>3, <2>4 DEF IInv
<1>2. CASE Generate
  <2>1. NamesInv'
    BY <1>2 DEF Generate, IInv, NamesInv, Generated
  <2>2. FilesInv'
    BY <1>2 DEF Generate, IInv, NamesInv, FilesInv, PublicationInv, Generated
  <2>3. ReportInv'
    BY <1>2 DEF Generate, IInv, ReportInv
  <2>4. PublicationInv'
    <3>1. DOMAIN NoPublications = {}
      BY DEF NoPublications
    <3>. QED
      BY <1>2, <3>1 DEF Generate, IInv, PublicationInv
  <2>. QED
    BY <2>1, <2>2, <2>3, <2>4 DEF IInv
<1>3. CASE FormatFails
  <2>1. NamesInv' /\ FilesInv' /\ PublicationInv'
    BY <1>3 DEF FormatFails, IInv, NamesInv, FilesInv, PublicationInv, Generated
  <2>2. ReportInv'
    BY <1>3, EntryMade DEF FormatFails, IInv, NamesInv, ReportInv, ReportOf
  <2>. QED
    BY <2>1, <2>2 DEF IInv
<1>4. CASE Decide
  <2>. DEFINE decision == EvaluateGenerationPolicy(project.strict, TRUE, project.found)
  <2>1. NamesInv' /\ FilesInv'
    BY <1>4 DEF Decide, IInv, NamesInv, FilesInv, Generated
  <2>2. ReportInv'
    BY <1>4, EntryMade DEF Decide, IInv, NamesInv, ReportInv, ReportOf
  <2>3. PublicationInv'
    <3>1. ~published' /\ published' \in BOOLEAN /\ link_ready' \subseteq classes'
      BY <1>4 DEF Decide, IInv, PublicationInv
    <3>2. CASE decision.publish
      <4>1. publications' = NoPublications /\ link_ready' = Extracted /\ pc' = "write"
        BY <1>4, <3>2, PublishedReadiness DEF Decide, IInv, PublicationInv
      <4>2. report' = ReportOf(NoPublications, Extracted)
        BY <1>4, <4>1 DEF Decide
      <4>3. DOMAIN NoPublications = {}
        BY DEF NoPublications
      <4>4. report' = ReportOf(NoPublications, Extracted)'
        BY <1>4, <4>2, SameReport DEF Decide
      <4>. QED
        BY <3>1, <4>1, <4>3, <4>4 DEF PublicationInv
    <3>3. CASE ~decision.publish
      BY <1>4, <3>1, <3>3 DEF Decide, PublicationInv, BuildFilePublications
    <3>. QED
      BY <3>2, <3>3
  <2>. QED
    BY <2>1, <2>2, <2>3 DEF IInv
<1>5. CASE WriteSucceeds
  <2>1. NamesInv' /\ FilesInv' /\ ReportInv'
    BY <1>5 DEF WriteSucceeds, IInv, NamesInv, FilesInv, ReportInv, Generated
  <2>2. PublicationInv'
    BY <1>5, SameReport DEF WriteSucceeds, IInv, PublicationInv
  <2>. QED
    BY <2>1, <2>2 DEF IInv
<1>6. CASE WriteFails
  <2>1. NamesInv' /\ FilesInv'
    BY <1>6 DEF WriteFails, IInv, NamesInv, FilesInv, Generated
  <2>2. ReportInv'
    BY <1>6, EntryMade DEF WriteFails, IInv, NamesInv, ReportInv, ReportOf
  <2>3. PublicationInv'
    BY <1>6 DEF WriteFails, IInv, PublicationInv, BuildFilePublications
  <2>. QED
    BY <2>1, <2>2, <2>3 DEF IInv
<1>7. CASE UNCHANGED vars
  <2>1. NamesInv' /\ FilesInv' /\ ReportInv'
    BY <1>7 DEF vars, IInv, NamesInv, FilesInv, ReportInv
  <2>2. PublicationInv'
    BY <1>7, SameReport DEF vars, IInv, PublicationInv
  <2>. QED
    BY <2>1, <2>2 DEF IInv
<1>. QED
  BY <1>1, <1>2, <1>3, <1>4, <1>5, <1>6, <1>7 DEF Next

LEMMA InvariantHolds == Spec => []IInv
<1>. QED
  BY InitHolds, StepHolds, PTL DEF Spec

LEMMA TypesHold == IInv => TypeOK
<1>. SUFFICES ASSUME IInv PROVE TypeOK
  OBVIOUS
<1>1. DOMAIN report_classes = Classes
  BY DEF IInv, NamesInv, DefaultNames, Resolved, ResolveQualifiedFilenameCollisions
<1>2. {f.kind : f \in files} \subseteq {"mock", "fake", "runtime", "all_mocks", "cmake"}
  <2>. SUFFICES ASSUME NEW f \in GenerateMockFakeProject(Resolved, Extracted)
                PROVE  f.kind \in {"mock", "fake", "runtime", "all_mocks", "cmake"}
    BY DEF IInv, FilesInv
  <2>. DEFINE names == ResolveQualifiedFilenameCollisions(Resolved)
              ofClasses == MockHeaders(names) \union FakeSources(names)
  <2>1. \/ f \in MockHeaders(names) \/ f \in FakeSources(names)
        \/ f = Supporting("runtime", RuntimeHeader, {})
        \/ f = AllMocksHeader(ofClasses) \/ f = CMakeFragment(ofClasses, Extracted)
    BY DEF GenerateMockFakeProject
  <2>. HIDE DEF names
  <2>2. f \in MockHeaders(names) => f.kind = "mock"
    BY DEF MockHeaders, ClassFile
  <2>3. f \in FakeSources(names) => f.kind = "fake"
    BY DEF FakeSources, ClassFile
  <2>. QED
    BY <2>1, <2>2, <2>3 DEF Supporting, AllMocksHeader, CMakeFragment
<1>3. {e.class : e \in report} \subseteq classes
  BY DEF IInv, ReportInv, EntryInv
<1>. QED
  BY <1>1, <1>2, <1>3 DEF IInv, NamesInv, PublicationInv, Generated, TypeOK
-----------------------------------------------------------------------------
(* The variables keep their types: TypeOK in every reachable state. *)
THEOREM TypeCorrect == Spec => []TypeOK
BY InvariantHolds, TypesHold, PTL

(* No two files of a run have one path, for any classes that can be told
   apart by their qualified names (CollisionsResolved).                     *)
THEOREM FilesApart == Spec => []CollisionsResolved
BY InvariantHolds, PathsApart, PTL

(* Such classes have qualified file names only where they share their name,
   and are reported as collisions just then (ShortNamesKept).               *)
THEOREM ShortUnlessShared == Spec => []ShortNamesKept
BY InvariantHolds, NamesShort, PTL

(* The report has the names of the files of each such class, although the
   generator resolves names that the run has resolved (ReportNamesFiles).   *)
THEOREM ReportAgrees == Spec => []ReportNamesFiles
BY InvariantHolds, ReportNames, PTL

(* A published CMake fragment lists what the report calls usable, although
   it was made before the policy decided (FragmentListsUsable).             *)
THEOREM FragmentAgrees == Spec => []FragmentListsUsable
BY InvariantHolds, FragmentUsable, PTL
=============================================================================
