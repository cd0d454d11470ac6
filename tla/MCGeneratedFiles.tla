-------------------------- MODULE MCGeneratedFiles --------------------------
(* Instances of GeneratedFiles for TLC. *)
EXTENDS GeneratedFiles

(* The classes, with their namespaces; "other" is a class of the same name
   in another header, "o1" and "o2" are namespaces that are not in ASCII.   *)
Known ==
  [nA |-> <<"n", "A">>, mA |-> <<"m", "A">>, A |-> <<"A">>, B |-> <<"B">>,
   x_nA |-> <<"x", "_n_A">>, y_x_nA |-> <<"y", "_x__n_A">>,
   ab_A |-> <<"a", "b", "A">>, a_bA |-> <<"a_b", "A">>,
   Runtime |-> <<"x", "FakeRuntime">>, other |-> <<"n", "A">>,
   AA |-> <<"A", "A">>, o1A |-> <<"o1", "A">>, o2A |-> <<"o2", "A">>]

MCClasses == DOMAIN Known
MCNamespaces == [c \in MCClasses |-> Front(Known[c])]
MCName == [c \in MCClasses |-> Last(Known[c])]

Words == UNION {ToSet(Known[c]) : c \in MCClasses}
MCSanitized == [w \in Words |-> IF w \in {"o1", "o2"} THEN "__" ELSE w]

None ==
  [ver |-> 1, classes |-> {}, marked |-> {}, unsupported |-> {}, misfit |-> {},
   topLevel |-> FALSE, parse |-> FALSE, ket |-> FALSE, validation |-> FALSE]

Run(found, generation, strict, all_mocks, fragment) ==
  [found |-> found, generation |-> generation, strict |-> strict,
   emit_all_mocks |-> all_mocks, emit_cmake_fragment |-> fragment]

(* Those that are not in the run are of no kind in particular. *)
Of(g, S) == [c \in MCClasses |-> IF c \in S THEN g[c] ELSE "mock-only"]

Fakes == [c \in MCClasses |-> "link-replacement"]

Sets(n) == {S \in SUBSET MCClasses : Cardinality(S) <= n}

(* All sets of up to three classes with fakes, of up to two of any kind; the
   one in which a second pass makes a new collision; every finding for two. *)
Naming ==
  {Run([None EXCEPT !.classes = S], Of(Fakes, S), FALSE, TRUE, TRUE) : S \in Sets(3)}
  \union {Run([None EXCEPT !.classes = S], Of(Fakes, S), FALSE, TRUE, TRUE) :
            S \in {{"nA", "mA", "x_nA", "y_x_nA"}, {"nA", "mA", "A", "B"}}}
  \union UNION {{Run([None EXCEPT !.classes = S], Of(g, S), FALSE, TRUE, TRUE) :
                   g \in [S -> Generations]} : S \in Sets(2)}

Found(S) ==
  {f \in [ver : {1}, classes : {S}, marked : SUBSET S, unsupported : SUBSET S,
          misfit : SUBSET S, topLevel : BOOLEAN, parse : BOOLEAN, ket : BOOLEAN,
          validation : BOOLEAN] : Cardinality(f.marked \union f.misfit) <= 1}

Policies ==
  {Run(f, Of(Fakes, {"nA", "mA"}), strict, all, fragment) :
     f \in Found({"nA", "mA"}), strict \in BOOLEAN, all \in BOOLEAN, fragment \in BOOLEAN}

MCProjects == Naming \union Policies

=============================================================================
