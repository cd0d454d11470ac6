--------------------------- MODULE ClassExtraction ---------------------------
(***************************************************************************)
(* ExtractClassDefinitionsFromAst of src/src/clang/ClassExtractor.cpp: what*)
(* mockfakegen takes over from the declarations of a header.  What Clang   *)
(* says of a declaration is the set of its traits; a refusal is an entry   *)
(* of an ordered list, and the first that applies names the unsupported    *)
(* item.                                                                   *)
(*                                                                         *)
(* A declaration has a name, the namespaces it is in, a kind ("class" or   *)
(* "struct"), a context ("namespace", "record" or "anonymous"), the kind   *)
(* of template it is ("no", "class_template", ...), traits, members, the   *)
(* signatures of the pure functions it inherits and does not override, and *)
(* the other names of the namespace that its translation unit declares.    *)
(* A member has a kind, a signature and traits.  Members are those that    *)
(* the class itself declares: bases are not looked at, so what is inherited*)
(* is there for the properties only.                                       *)
(***************************************************************************)
EXTENDS Naturals, Sequences, FiniteSets, SequencesExt

(* What Clang may say of a declaration: it has members of five kinds, and  *)
(* only a virtual method or destructor is pure; it may inherit anything.   *)
IsDeclaration(declaration) ==
  /\ IsFiniteSet(declaration.neighbours) /\ IsFiniteSet(declaration.inherited)
  /\ declaration.members \in Seq(Range(declaration.members))
  /\ \A m \in Range(declaration.members) :
       /\ m.kind \in {"method", "constructor", "destructor", "static_data", "template"}
       /\ "pure" \in m.traits => "virtual" \in m.traits /\ m.kind \in {"method", "destructor"}
       /\ m.signature \notin declaration.inherited

AreDeclarations(given) ==
  /\ given \in Seq(Range(given))
  /\ \A declaration \in Range(given) : IsDeclaration(declaration)

(* The first refusal of a list that applies, or none *)
Refusal(refusals, traits) ==
  LET applying == {k \in DOMAIN refusals : refusals[k][1] \in traits}
  IN IF applying = {} THEN "none"
     ELSE refusals[CHOOSE k \in applying : \A j \in applying : k <= j][2]

Refuse(kind, traits) == [k \in DOMAIN traits |-> <<traits[k], kind>>]

(* UnsupportedTypeIssueForParameters *)
ParameterRefusals ==
  << <<"attributed_parameter", "attributed_type">>,
     <<"private_parameter", "private_nested_type">>,
     <<"const_move_only_parameter", "const_move_only_by_value_parameter">> >>

(* UnsupportedTypeIssueForMethod *)
TypeRefusals ==
  << <<"auto_return", "auto_return">>, <<"decltype_auto_return", "decltype_auto_return">>,
     <<"function_pointer_return", "function_pointer_return">>,
     <<"attributed_return", "attributed_type">>,
     <<"private_return", "private_nested_type">> >> \o ParameterRefusals

OperatorRefusals ==
  << <<"assignment", "assignment_operator">>, <<"deleted", "deleted_method">>,
     <<"defaulted", "defaulted_method">>, <<"conversion", "conversion_operator">>,
     <<"operator", "overloaded_operator">> >>

EvaluationRefusals ==
  << <<"consteval", "consteval_method">>, <<"constexpr", "constexpr_method">>,
     <<"attributes", "unsupported_attribute">> >>

QualifierRefusals ==
  << <<"conditional_noexcept", "conditional_noexcept">>, <<"volatile", "volatile_method">>,
     <<"explicit_object", "explicit_object_parameter">> >>

LinkMethodRefusals ==
  OperatorRefusals
  \o << <<"pure", "pure_virtual_method">>, <<"nonpublic", "non_public_method">> >>
  \o EvaluationRefusals \o << <<"body", "inline_body">> >> \o QualifierRefusals \o TypeRefusals

InterfaceMethodRefusals ==
  << <<"macro", "macro_origin">> >> \o OperatorRefusals
  \o << <<"nonpublic", "non_public_method">>, <<"static", "interface_construct">>,
        <<"final", "interface_construct">> >>
  \o EvaluationRefusals \o QualifierRefusals \o TypeRefusals

ConstructorRefusals ==
  Refuse("constructor", <<"deleted", "nonpublic", "exception_spec">>)
  \o ParameterRefusals \o << <<"body", "inline_body">> >>

DestructorRefusals ==
  Refuse("destructor", <<"deleted", "nonpublic", "exception_spec">>)
  \o << <<"body", "inline_body">> >>

(* UnsupportedStaticDataReason *)
StaticDataRefusals ==
  Refuse("static_data_member",
         <<"constinit", "thread_local", "initializer", "reference", "array", "nested_type",
           "not_default_constructible">>)
-----------------------------------------------------------------------------
(* What becomes of a member: "silent" if nothing is said of it, "none" if  *)
(* it is taken over, or the kind of the unsupported item.                  *)

RecordStaticWithoutInitializer(member, opts) ==
  IF member.traits \intersect {"inline", "constexpr", "initializer"} # {} THEN "silent"
  ELSE IF opts.fake_static_data THEN Refusal(StaticDataRefusals, member.traits)
  ELSE "static_data_member"

RecordStaticDataMember(member, opts) ==
  CASE member.traits \intersect {"inline", "constexpr"} # {} -> "silent"
    [] ~opts.fake_static_data -> "static_data_member"
    [] OTHER -> Refusal(StaticDataRefusals, member.traits)

(* UnsupportedConstructorReason is about the class: a base or a field that *)
(* cannot be default-constructed.                                          *)
RecordConstructor(member, declaration, opts) ==
  LET refusal == Refusal(ConstructorRefusals, member.traits)
  IN CASE "defaulted" \in member.traits -> "silent"
       [] ~opts.fake_special_members -> "constructor"
       [] refusal # "none" -> refusal
       [] "not_default_initializable" \in declaration.traits -> "constructor"
       [] OTHER -> "none"

RecordDestructor(member, opts) ==
  CASE "defaulted" \in member.traits -> "silent"
    [] ~opts.fake_special_members -> "destructor"
    [] OTHER -> Refusal(DestructorRefusals, member.traits)

LinkOutcome(member, declaration, opts) ==
  CASE member.kind = "template" -> "function_template"
    [] member.kind = "static_data" -> RecordStaticDataMember(member, opts)
    [] "macro" \in member.traits -> "macro_origin"
    [] member.kind = "constructor" -> RecordConstructor(member, declaration, opts)
    [] member.kind = "destructor" -> RecordDestructor(member, opts)
    [] OTHER -> Refusal(LinkMethodRefusals, member.traits)

RecordInterfaceConstructor(member) ==
  IF "default" \in member.traits /\ "nonpublic" \notin member.traits
     /\ member.traits \intersect {"defaulted", "body"} # {}
    THEN "silent" ELSE "interface_construct"

RecordInterfaceDestructor(member) ==
  IF member.traits \intersect {"nonpublic", "pure"} = {} /\ "virtual" \in member.traits
     /\ member.traits \intersect {"defaulted", "body"} # {}
    THEN "none" ELSE "interface_construct"

InterfaceOutcome(member) ==
  CASE member.kind = "template" -> "function_template"
    [] member.kind = "static_data" -> "silent"
    [] member.kind = "constructor" -> RecordInterfaceConstructor(member)
    [] member.kind = "destructor" -> RecordInterfaceDestructor(member)
    [] "virtual" \notin member.traits -> "silent"
    [] OTHER -> Refusal(InterfaceMethodRefusals, member.traits)
-----------------------------------------------------------------------------
(* A class *)

(* The elements of a list that are in a set, in their order *)
Only(list, set) ==
  LET kept[n \in 0 .. Len(list)] ==
        IF n = 0 THEN <<>>
        ELSE IF list[n] \in set THEN Append(kept[n - 1], list[n])
        ELSE kept[n - 1]
  IN kept[Len(list)]

(* outcome has what becomes of each member. *)
Kept(declaration, kind, outcome) ==
  LET kept == Only(declaration.members,
                   {m \in DOMAIN outcome : m.kind = kind /\ outcome[m] = "none"})
  IN [k \in DOMAIN kept |-> kept[k].signature]

Refused(declaration, outcome) ==
  LET refused == Only(declaration.members,
                      {m \in DOMAIN outcome : outcome[m] \notin {"none", "silent"}})
  IN [k \in DOMAIN refused |-> <<outcome[refused[k]], refused[k].signature>>]

NoMembers ==
  [interface_mock |-> FALSE, mock_methods |-> <<>>, fake_methods |-> <<>>,
   fake_constructors |-> <<>>, fake_destructors |-> <<>>, static_data_members |-> <<>>,
   unsupported_items |-> <<>>, mock_destructor_override |-> FALSE]

ExtractMethods(declaration, opts) ==
  LET outcome == [m \in Range(declaration.members) |-> LinkOutcome(m, declaration, opts)]
      methods == Kept(declaration, "method", outcome)
  IN [NoMembers EXCEPT
        !.mock_methods = methods, !.fake_methods = methods,
        !.fake_constructors = Kept(declaration, "constructor", outcome),
        !.fake_destructors = Kept(declaration, "destructor", outcome),
        !.static_data_members = Kept(declaration, "static_data", outcome),
        !.unsupported_items = Refused(declaration, outcome)]

ExtractInterfaceMembers(declaration) ==
  LET outcome == [m \in Range(declaration.members) |-> InterfaceOutcome(m)]
      methods == Kept(declaration, "method", outcome)
      itself == << <<"interface_construct", declaration.name>> >>
  IN IF "final" \in declaration.traits THEN [NoMembers EXCEPT !.unsupported_items = itself]
     ELSE [NoMembers EXCEPT
             !.interface_mock = TRUE,
             !.mock_methods = methods,
             !.unsupported_items = Refused(declaration, outcome)
                                   \o (IF methods = <<>> THEN itself ELSE <<>>),
             !.mock_destructor_override = Kept(declaration, "destructor", outcome) # <<>>]

ShouldUseInterfaceMockMode(declaration, opts) ==
  /\ opts.interface_mock
  /\ \E m \in Range(declaration.members) :
       m.kind \in {"method", "destructor"} /\ "virtual" \in m.traits

(* A name and the numbers that are tried after it are pairs here. *)
FirstFree(name, first, taken) ==
  LET free == {n \in first .. first + Cardinality(taken) : <<name, n>> \notin taken}
  IN <<name, CHOOSE n \in free : \A k \in free : n <= k>>

(* In the namespace, product has the names of the translation unit and     *)
(* reserved those generated before.  0 stands for no number.               *)
FirstAvailableGeneratedName(default_name, fallback_base, product, reserved) ==
  LET default == <<default_name, 0>>
      base == <<fallback_base, 0>>
      taken == product \union reserved
  IN IF default \in product
       THEN IF base \in taken THEN FirstFree(fallback_base, 2, taken) ELSE base
       ELSE IF default \in reserved THEN FirstFree(default_name, 2, taken) ELSE default

Product(declaration) == {<<name, 0>> : name \in declaration.neighbours}

(* The declaration itself is kept for the properties only. *)
ClassModel(declaration, reserved, opts) ==
  LET mock_name ==
        FirstAvailableGeneratedName("Mock" \o declaration.name, "MockFake" \o declaration.name,
                                    Product(declaration), reserved)
      scoped_mock_name ==
        FirstAvailableGeneratedName("ScopedMock" \o declaration.name,
                                    "ScopedMockFake" \o declaration.name,
                                    Product(declaration), reserved \union {mock_name})
  IN [declared |-> declaration,
      name |-> declaration.name, namespaces |-> declaration.namespaces,
      mock_name |-> mock_name, scoped_mock_name |-> scoped_mock_name,
      members |-> IF ShouldUseInterfaceMockMode(declaration, opts)
                    THEN ExtractInterfaceMembers(declaration)
                    ELSE ExtractMethods(declaration, opts)]
-----------------------------------------------------------------------------
(* The declarations of a header *)

ShouldExtract(declaration) ==
  declaration.kind = "class" /\ declaration.template = "no" /\ declaration.context # "record"
  /\ declaration.context # "anonymous"

(* A nested class that is a template is recorded twice. *)
UnsupportedRecords(declaration) ==
  (IF declaration.template = "no" THEN {} ELSE {declaration.template})
  \union
  (CASE declaration.kind = "class" /\ declaration.context = "record" -> {"nested_class"}
     [] declaration.template # "no" -> {}
     [] declaration.kind = "class" /\ declaration.context = "anonymous" -> {"anonymous_namespace"}
     [] declaration.kind = "struct" /\ declaration.context # "record" -> {"struct_record"}
     [] OTHER -> {})

MatchesClassFilter(declaration, opts) ==
  opts.filtering => declaration.name \in opts.class_filter

NothingExtracted == [classes |-> <<>>, unsupported |-> {}, filtered |-> 0, reserved |-> <<>>]

ReservedIn(found, namespaces) ==
  {r[2] : r \in {r \in Range(found.reserved) : r[1] = namespaces}}

VisitRecord(found, declaration, opts) ==
  LET class == ClassModel(declaration, ReservedIn(found, declaration.namespaces), opts)
      noted == [found EXCEPT !.unsupported =
                  @ \union {<<kind, declaration.name>> : kind \in UnsupportedRecords(declaration)}]
  IN CASE ~ShouldExtract(declaration) -> noted
       [] ~MatchesClassFilter(declaration, opts) -> [noted EXCEPT !.filtered = @ + 1]
       [] OTHER -> [noted EXCEPT
            !.classes = Append(@, class),
            !.reserved = @ \o << <<declaration.namespaces, class.mock_name>>,
                                 <<declaration.namespaces, class.scoped_mock_name>> >>]

(* The classes are then sorted by name; here they keep the order of the    *)
(* header, which no later step depends on.                                 *)
ExtractClassDefinitions(declarations, opts) ==
  LET found[n \in 0 .. Len(declarations)] ==
        IF n = 0 THEN NothingExtracted ELSE VisitRecord(found[n - 1], declarations[n], opts)
  IN found[Len(declarations)]
=============================================================================
