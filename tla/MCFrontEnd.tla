----------------------------- MODULE MCFrontEnd -----------------------------
(* Instances of FrontEnd for TLC. *)
EXTENDS FrontEnd

MCPathNamed ==
  ("/p" :> <<"p">>) @@ ("/p/in" :> <<"p", "in">>) @@ ("/p/./in" :> <<"p", "in">>)
  @@ ("/p/out" :> <<"p", "out">>) @@ ("/p/b" :> <<"p", "b">>) @@ ("/q" :> <<"q">>)
  @@ ("/p/same" :> <<"p", "same">>) @@ ("/p/away" :> <<"p", "away">>)
  @@ ("/p/self" :> <<"p", "self">>) @@ ("/p/none" :> <<"p", "none">>)
  @@ ("/p/src" :> <<"p", "src">>) @@ ("/p/in/a" :> <<"p", "in", "a">>)

(* The sources were compiled below /r, on another machine. *)
MCMapNamed == ("/r=/p" :> << <<"r">>, <<"p">> >>) @@ ("/r/a=/q" :> << <<"r", "a">>, <<"q">> >>)

MCRegexes == {"A"}
MCNumeral == ("0" :> 0) @@ ("2" :> 2) @@ ("12345678901" :> 9)
MCFilterNames == [text \in {"A"} |-> {"A", "A.h"}]
MCGlobNames == [text \in {"**/B.h"} |-> {"B.h"}]
MCTokenNamed ==
  ("--strict" :> Opt("--strict")) @@ ("-std=c++20" :> Joined("-std=", <<"c++20">>))
  @@ ("-std" :> Opt("-std")) @@ ("c++20" :> Val(<<"c++20">>))

Texts == <<"A.h", "AllMocks.h", "B.h", "C.hpp", "MockA.h", "MockFakeRuntime.h", "a", "away", "b", "build",
           "generation_report.md", "in", "l", "m", "manifest.json", "none", "out", "p", "q", "r",
           "same", "self", "src", "t", "up", "x.cpp", "y.cpp", "z.cpp">>

MCExtension ==
  [name \in Range(Texts) |->
     CASE name = "C.hpp" -> ".hpp"
       [] name \in {"A.h", "AllMocks.h", "B.h", "MockA.h", "MockFakeRuntime.h"} -> ".h"
       [] OTHER -> ""]
-----------------------------------------------------------------------------
(* Trees *)

P(s) == <<"p">> \o s
In(s) == <<"p", "in">> \o s
NoLinks == [path \in {} |-> <<>>]

PlainTree ==
  [dirs |-> {<<>>, P(<<>>), In(<<>>), In(<<"a">>), P(<<"out">>), P(<<"b">>), P(<<"src">>), <<"q">>},
   files |-> {In(<<"A.h">>), In(<<"a", "B.h">>), P(<<"src", "x.cpp">>), P(<<"src", "y.cpp">>)},
   links |-> NoLinks, marked |-> {}]

(* The places that options name *)
LinkedTree ==
  [PlainTree EXCEPT !.files = {In(<<"A.h">>), P(<<"src", "x.cpp">>), P(<<"src", "y.cpp">>)}, !.links =
     (P(<<"same">>) :> In(<<>>)) @@ (P(<<"away">>) :> <<"q">>) @@ (P(<<"self">>) :> Looping)]

With(dirs, files, links) ==
  [PlainTree EXCEPT !.dirs = @ \union dirs, !.files = @ \union files, !.links = links]

(* Two directories that lead to each other, and to the whole project *)
Crossing ==
  With({In(<<"m">>)}, {}, (In(<<"a", "l">>) :> In(<<"m">>)) @@ (In(<<"m", "l">>) :> In(<<"a">>)))

Inward == With({}, {}, (In(<<"a", "l">>) :> In(<<"a">>)) @@ (In(<<"a", "m">>) :> In(<<>>)))

Upward == With({}, {}, In(<<"up">>) :> P(<<>>))

(* Links to a directory, to a file, to nothing and out of the project *)
Aliases ==
  With({In(<<"t">>)}, {In(<<"t", "A.h">>), <<"q", "A.h">>},
       (In(<<"l">>) :> In(<<"t">>)) @@ (In(<<"B.h">>) :> In(<<"A.h">>))
       @@ (In(<<"m">>) :> Dangling) @@ (In(<<"a", "A.h">>) :> <<"q", "A.h">>))

OutsideLinks == With({<<"q", "t">>}, {<<"q", "t", "A.h">>}, (In(<<"l">>) :> <<"q", "t">>)
                  @@ (In(<<"m">>) :> Looping) @@ (In(<<"t">>) :> P(<<"src">>)))

(* Directories that are left out, and links to them *)
Generated ==
  [With({In(<<"build">>), In(<<"t">>)},
        {In(<<"build", "A.h">>), In(<<"t", "A.h">>), In(<<"t", "AllMocks.h">>),
         In(<<"MockA.h">>), P(<<"out", "A.h">>)},
        (In(<<"l">>) :> In(<<"t">>)) @@ (In(<<"m">>) :> P(<<"out">>)))
   EXCEPT !.marked = {In(<<"MockA.h">>)}]

Reports ==
  With({In(<<"t">>), In(<<"b">>)},
       {In(<<"t", "A.h">>), In(<<"t", "manifest.json">>), In(<<"t", "generation_report.md">>),
        In(<<"b", "A.h">>), In(<<"b", "manifest.json">>), In(<<"C.hpp">>)},
       In(<<"a", "l">>) :> In(<<"t">>))

Empty == [PlainTree EXCEPT !.files = {P(<<"src", "x.cpp">>)}]
Rootless == [PlainTree EXCEPT !.dirs = {d \in @ : ~IsUnder(d, In(<<>>))}, !.files = {}]
RootIsFile == [Rootless EXCEPT !.files = {In(<<>>)}]
-----------------------------------------------------------------------------
(* Declarations *)

Member(kind, signature, traits) == [kind |-> kind, signature |-> signature, traits |-> traits]
Method(signature, traits) == Member("method", signature, traits)

Class(name, members) ==
  [name |-> name, namespaces |-> <<"n">>, kind |-> "class", context |-> "namespace",
   template |-> "no", traits |-> {}, members |-> members, inherited |-> {},
   neighbours |-> {name}]

Plain == Class("A", <<Method("f()", {})>>)
Wider == Class("A", <<Method("f()", {}), Method("g()", {})>>)
Moved == Class("A", <<Method("g()", {}), Method("f()", {})>>)
Other == Class("B", <<Method("f()", {"static"})>>)

Interface == Class("A", <<Method("f()", {"virtual", "pure"})>>)
Destroyed == Class("A", <<Method("f()", {"virtual", "pure"}),
                          Member("destructor", "~A()", {"virtual", "defaulted"})>>)
Derived == [Interface EXCEPT !.inherited = {"q()"}]

Namespaced(class, namespaces) == [class EXCEPT !.namespaces = namespaces]
Among(class, names) == [class EXCEPT !.neighbours = @ \union names]

(* One member of each sort, with what may be said of it *)
MethodTraits ==
  {{}, {"body"}, {"static"}, {"virtual"}, {"virtual", "pure"}, {"virtual", "body"},
   {"virtual", "pure", "nonpublic"}, {"virtual", "pure", "macro"}, {"virtual", "final"},
   {"virtual", "pure", "operator"}, {"virtual", "pure", "volatile"}, {"deleted"},
   {"assignment", "defaulted"}, {"assignment"}, {"virtual", "pure", "assignment"},
   {"constexpr", "body"}, {"consteval", "body"}, {"nonpublic", "body"}, {"conversion"},
   {"operator", "body"}, {"macro"}, {"attributes"}, {"conditional_noexcept"}, {"explicit_object"},
   {"auto_return", "body"}, {"virtual", "pure", "function_pointer_return"},
   {"attributed_parameter", "private_return"}, {"const_move_only_parameter"}}

ConstructorTraits ==
  {{}, {"default"}, {"default", "defaulted"}, {"body"}, {"deleted"}, {"nonpublic", "default"},
   {"exception_spec"}, {"private_parameter"}, {"macro"}}

DestructorTraits ==
  {{}, {"body"}, {"defaulted"}, {"virtual"}, {"virtual", "body"}, {"virtual", "defaulted"},
   {"virtual", "pure"}, {"virtual", "nonpublic", "defaulted"}, {"nonpublic"}, {"exception_spec"}}

StaticDataTraits ==
  {{}, {"inline", "initializer"}, {"constexpr", "inline", "initializer"}, {"initializer"},
   {"constinit"}, {"thread_local"}, {"array", "nested_type"}, {"not_default_constructible"}, {"macro"}}

OneMember ==
  {Method("f()", t) : t \in MethodTraits}
  \union {Member("constructor", "A()", t) : t \in ConstructorTraits}
  \union {Member("destructor", "~A()", t) : t \in DestructorTraits}
  \union {Member("static_data", "d", t) : t \in StaticDataTraits}
  \union {Member("template", "h()", {})}

(* Alone, and beside a pure virtual function *)
Members ==
  {Class("A", <<member>>) : member \in OneMember}
  \union {Class("A", <<Method("p()", {"virtual", "pure"}), member>>) : member \in OneMember}
  \union {Derived}
  \union {[Class("A", <<Method("p()", {"virtual", "pure"}), Member("constructor", "A()", {})>>)
             EXCEPT !.traits = t] : t \in {{"final"}, {"not_default_initializable"}}}

(* Names that the product or another class of the header already has *)
Named ==
  {<<Among(Plain, {"MockA", "MockFakeA"}), Class("FakeA", <<Method("f()", {})>>)>>,
   <<Class("FakeA", <<Method("f()", {})>>), Among(Plain, {"MockA", "ScopedMockA"})>>,
   <<Namespaced(Plain, <<>>), Plain, Other, Among(Namespaced(Other, <<"n", "m">>), {"MockB"})>>}

Unsupported ==
  <<[Plain EXCEPT !.template = "class_template"], [Other EXCEPT !.kind = "struct"],
    [Class("C", <<>>) EXCEPT !.context = "record"], [Class("D", <<>>) EXCEPT !.context = "anonymous"],
    [Class("E", <<>>) EXCEPT !.kind = "struct", !.context = "record"]>>
-----------------------------------------------------------------------------
(* Translation units *)

NothingSeen == [path \in {} |-> <<>>]
AH == In(<<"A.h">>)
BH == In(<<"a", "B.h">>)

Command(directory, file, line, sees) ==
  [directory |-> directory, file |-> file, line |-> line, sees |-> sees]

Sources(database, given, synthetic) ==
  [database |-> database, commands |-> given, synthetic |-> synthetic]

(* How /r/src was compiled, and a build directory beside it.  UnitZ has a
   precompiled header as CMake gives it: the code takes -Xclang for its path. *)
LineOfX == <<Opt("-I"), Val(<<"..", "in">>), Joined("-isystem", <<"/", "p", "..", "r", "in", "a">>),
             Joined("-std=", <<"c++17">>), Opt("-c"), Opt("-o"), Val(<<"/", "r", "b", "x">>),
             Joined("-D", <<"X">>), Val(<<"/", "r", "src", "x.cpp">>)>>
UnitX(sees) == Command(<<"r", "b">>, <<"/", "r", "src", "x.cpp">>, LineOfX, sees)
UnitY(sees) == Command(<<"p">>, <<"src", "y.cpp">>,
                       <<Opt("-I"), Val(<<"in">>), Opt("-include"), Val(<<"in", "A.h">>),
                         Opt("-D"), Val(<<"Y">>), Joined("--sysroot=", <<"/", "p", "in", "a", "..">>),
                         Opt("-pthread"), Opt("-Wall"), Val(<<"src", "y.cpp">>)>>, sees)
UnitZ(sees) == Command(<<"p", "b">>, <<"..", "src", "z.cpp">>,
                       <<Opt("-I"), Val(<<"none">>), Joined("-I", <<"/", "r", "a">>),
                         Opt("-Xclang"), Opt("-include"), Val(<<"-Xclang">>), Val(<<"in", "A.h">>)>>,
                       sees)

Of(a, b) == (AH :> a) @@ (BH :> b)

NoDatabase == Sources("none", <<>>, Of(<<Plain>>, <<Other>>))
-----------------------------------------------------------------------------
(* Command lines *)

Roots4(input, output, build, project) ==
  << <<"--input-root", input>>, <<"--output-dir", output>>,
     <<"--build-path", build>>, <<"--project-root", project>> >>

Usual == Roots4("/p/in", "/p/out", "/p/b", "/p")

Setup(args, t, s) == [arguments |-> args, tree |-> t, sources |-> s, faults |-> 0]
Failing(setup) == [setup EXCEPT !.faults = 1]

Additions ==
  {<<>>, << <<"--help">> >>, << <<"--help", "x">> >>, << <<"--strict">> >>,
   << <<"--best-effort">> >>, << <<"--">> >>, << <<"stray">> >>, << <<"--verbose">> >>,
   << <<"--jobs">>, <<"2">> >>, << <<"--jobs", "0">> >>,
   << <<"--validation-timeout-ms", "12345678901">> >>,
   << <<"--header-extension">>, <<".hpp">> >>, << <<"--header-extension", ".h">> >>,
   << <<"--header-extension", ".txt">> >>, << <<"--interface-mock", "true">> >>,
   << <<"--interface-mock", "yes">> >>, << <<"--access", "private">> >>,
   << <<"--config", "f">> >>, << <<"--extra-arg">>, <<"--strict">> >>,
   << <<"--extra-arg", "-std=c++20">> >>, << <<"--exclude", "">> >>,
   << <<"--exclude">>, <<"**/B.h">> >>, << <<"--path-map", "/r=/p">> >>,
   << <<"--path-map", "/r">> >>, << <<"--define", "X">> >>,
   << <<"--header-filter", "(">> >>, << <<"--header-filter", "A">> >>,
   << <<"--output-dir", "/p/same">> >>, << <<"--output-dir">> >>,
   << <<"--validate">>, <<"--dry-run">> >>, << <<"--emit-manifest">>, <<"false">> >>}

OddRoots ==
  {Roots4("/p/in", "/p/in", "/p/b", "/p"), Roots4("/p/./in", "/p/same", "/p/b", "/p"),
   Roots4("/p/same", "/p/in", "/p/b", "/p"), Roots4("/p/away", "/p/out", "/p/b", "/p"),
   Roots4("/q", "/p/out", "/p/b", "/p"), Roots4("/p/self", "/p/self", "/p/b", "/p"),
   Roots4("/p/in", "/p/self", "/p/b", "/p"), Roots4("/p/in", "/p", "/p/b", "/p"),
   Roots4("/p/in", "/p/in/a", "/p/b", "/p/in"), Roots4("bad", "/p/out", "/p/b", "/p"),
   Roots4("/p/none", "/p/out", "/p/b", "/p"), Tail(Usual), <<>>}

OptionSetups ==
  {Setup(Usual \o a \o b, LinkedTree, NoDatabase) : a, b \in Additions}
  \union {Setup(roots \o a, LinkedTree, NoDatabase) : roots \in OddRoots, a \in Additions}

TreeSetups ==
  {Failing(Setup(Usual, t, Sources("none", <<>>, NothingSeen))) :
     t \in {Crossing, Inward, Aliases, OutsideLinks, Generated, Reports, Empty, Rootless, RootIsFile}}
  \union {Failing(Setup(Append(Usual, <<"--header-filter", "A">>), t, Sources("none", <<>>, NothingSeen))) :
            t \in {Upward, Aliases}}

Switched(special, data, interface) ==
  Usual \o << <<"--fake-special-members", special>>, <<"--fake-static-data", data>>,
              <<"--interface-mock", interface>> >>

MemberSetups ==
  {Setup(Switched(special, data, interface), PlainTree,
         Sources("none", <<>>, Of(<<class>>, <<>>))) :
     special, data, interface \in {"true", "false"}, class \in Members}

Compiled ==
  Usual \o << <<"--path-map", "/r=/p">>, <<"--path-map", "/r/a=/q">>, <<"--include-dir", "/p/src">>,
              <<"--extra-arg", "-std">>, <<"--extra-arg", "c++20">>, <<"--define", "Z">> >>

(* What the units of two commands, and a header by itself, declare *)
Units(t, x, y, a, b) ==
  {Setup(Compiled, t, Sources("loaded", given, Of(a, b))) :
     given \in {<<UnitX(x), UnitY(y)>>, <<UnitY(y), UnitX(x)>>, <<UnitX(x), UnitZ(y), UnitX(y)>>}}

Named2 == {<<class>> : class \in {Plain, Wider, Moved}} \union {<<>>, <<Plain, Other>>}

UnitSetups ==
  UNION {Units(LinkedTree, Of(x, y), Of(y, <<Other>>), <<Wider>>, x) : x, y \in Named2}
  \union UNION {Units(Aliases, AH :> x, AH :> y, x, y) : x, y \in {<<Plain>>, <<Wider>>}}
  \union {Setup(Append(Usual, <<"--class-filter", "A">>), PlainTree, Sources(d, <<UnitX(Of(u, <<>>))>>, Of(u, u))) :
            d \in {"none", "broken", "loaded"}, u \in Named \union {Unsupported}}
  \union {Setup(Usual, PlainTree, Sources("loaded", <<UnitY(Of(u, <<Other>>))>>, NothingSeen)) :
            u \in Named \union {Unsupported}}

MCSetups == OptionSetups \union TreeSetups \union MemberSetups \union UnitSetups

DestructorSetups ==
  {Setup(Switched("false", "false", "true"), PlainTree,
         Sources("loaded", <<UnitY(AH :> <<Interface>>), UnitY(AH :> <<Destroyed>>)>>, NothingSeen))}
=============================================================================
