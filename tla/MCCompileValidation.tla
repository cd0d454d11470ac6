------------------------ MODULE MCCompileValidation ------------------------
(* Instances of CompileValidation for TLC. *)
EXTENDS CompileValidation

Path(parts, ext) == [rooted |-> FALSE, parts |-> parts, ext |-> ext]

File(rank, kind, path, class, header) ==
  [rank |-> rank, kind |-> kind, path |-> path, class |-> class, header |-> header]

Shared(rank, kind, name) == File(rank, kind, Path(<<name>>, ".h"), "none", "none")

Runtime == Shared(7, "runtime_header", "MockFakeRuntime")
AllMocks == Shared(1, "all_mocks_header", "AllMocks")
Report == File(9, "report", Path(<<"report">>, ".json"), "none", "none")

MockOf(rank, name, class, header) ==
  File(rank, "mock_header", Path(<<name>>, ".h"), class, header)
FakeOf(rank, name, class, header) ==
  File(rank, "fake_source", Path(<<name>>, ".cpp"), class, header)

(* Two classes of one name in two headers, as the generator lays them out. *)
Project == {Runtime, AllMocks, Report,
             MockOf(5, "MockA", "A", "a.h"), FakeOf(2, "FakeA", "A", "a.h"),
             MockOf(6, "MockA_b", "A", "b.h"), FakeOf(3, "FakeA_b", "A", "b.h")}

OneClass == {Runtime, AllMocks, MockOf(5, "MockB", "B", "b.h"), FakeOf(2, "FakeB", "B", "b.h")}

Fakes(p, q) == {File(1, "fake_source", p, "A", "a.h"), File(2, "fake_source", q, "B", "b.h")}

(* Paths a caller may give: in directories, to one object, to one output, refused. *)
OddProjects ==
  {Fakes(Path(<<"a", "FakeS">>, ".cpp"), Path(<<"b", "FakeS">>, ".cpp")),
   Fakes(Path(<<"a", "FakeS">>, ".cc"), Path(<<"a", "FakeS">>, ".cpp")),
   Fakes(Path(<<".", "FakeS">>, ".cpp"), Path(<<"FakeS">>, ".cpp")),
   Fakes(Path(<<"FakeS">>, ".cpp"), Path(<<"..", "FakeS">>, ".cpp")),
   Fakes(Path(<<"FakeS">>, ".cpp"), Path(<<StagingDirectory, "FakeT">>, ".cpp"))}

Source(class, header, args) == [class |-> class, header |-> header, args |-> args]

(* The arguments of the two classes, as the resolver hands them on. *)
Separate ==
  <<Source("A", "a.h", << <<"-I">>, <<"/a">>, <<"-D", "X">>, <<"-include">>, <<"/c.h">> >>),
    Source("A", "b.h", << <<"-D", "Y">>, <<"-isystem">>, <<"/b">>, <<"-include">>, <<"/c.h">> >>)>>

Options(mode, keep_failed, link_files, source_args) ==
  [mode |-> mode, keep_failed_artifacts |-> keep_failed, link_files |-> link_files,
   include_dirs |-> << <<"/in">> >>, extra_args |-> << <<"-D", "Z">>, <<"-std=", "c++20">> >>,
   source_args |-> source_args]

Input(options, files) == [options |-> options, files |-> files]

AllOptions ==
  {Options(mode, k, links, Separate) :
     mode \in {"syntax", "compile", "link"}, k \in BOOLEAN, links \in {<<>>, <<"gmock.a">>}}

MCInputs ==
  {Input(o, Project) : o \in AllOptions}
  \union {Input(Options("link", FALSE, <<>>, <<>>), OneClass)}
  \union {Input(Options("none", FALSE, <<>>, <<>>), OneClass)}
  \union {Input(Options(mode, k, <<"gmock.a">>, Separate), files) :
            mode \in {"syntax", "link"}, k \in BOOLEAN, files \in OddProjects}

=============================================================================
