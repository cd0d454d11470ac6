--------------------------- MODULE ResolverProofs ----------------------------
(***************************************************************************)
(* Proofs about the resolver of one run of the front end, for any headers, *)
(* databases, declarations and units that fail.  ResolverInv says that the *)
(* observations and the conflicts agree with the classes that the attempts *)
(* found so far (ObservedOk), that the classes kept and their arguments    *)
(* come from the first attempt that found each (KeptOk), and that every    *)
(* header before the next has been read.  Of the classes that the          *)
(* extraction makes of the declarations of a header it says that each has  *)
(* what the generated code needs, and names of its own (ExtractedOk).      *)
(* ArgsInv says that the arguments of each attempt are in their places and *)
(* name only paths of the command lines or of the options (ArgsFit), and   *)
(* that what is missing of a command that was tried has been reported.     *)
(***************************************************************************)
EXTENDS FrontEndProofs

-----------------------------------------------------------------------------
(* Lists *)

LEMMA Together ==
  ASSUME NEW s, IsList(s), NEW t, IsList(t)
  PROVE  LET both == s \o t
         IN /\ IsList(both) /\ Range(both) = Range(s) \union Range(t)
            /\ Len(s) \in Nat /\ Len(both) \in Nat /\ Len(s) <= Len(both)
            /\ DOMAIN s = 1 .. Len(s) /\ DOMAIN both = 1 .. Len(both)
            /\ \A k \in 1 .. Len(s) : both[k] = s[k]
<1>. DEFINE S == Range(s) \union Range(t)
            both == s \o t
<1>1. s \in Seq(S) /\ t \in Seq(S)
  BY DEF IsList
<1>2. /\ both \in Seq(S) /\ Len(both) = Len(s) + Len(t)
      /\ \A k \in 1 .. Len(s) : both[k] = s[k]
      /\ \A k \in Len(s) + 1 .. Len(s) + Len(t) : both[k] = t[k - Len(s)]
  BY <1>1, ConcatProperties
<1>. HIDE DEF both, S
<1>3. /\ Len(s) \in Nat /\ Len(t) \in Nat
      /\ DOMAIN s = 1 .. Len(s) /\ DOMAIN t = 1 .. Len(t) /\ DOMAIN both = 1 .. Len(both)
  BY <1>1, <1>2
<1>4. ASSUME NEW k \in DOMAIN s PROVE k \in DOMAIN both /\ both[k] = s[k]
  BY <1>2, <1>3
<1>5. ASSUME NEW k \in DOMAIN t PROVE Len(s) + k \in DOMAIN both /\ both[Len(s) + k] = t[k]
  <2>1. Len(s) + k \in Len(s) + 1 .. Len(s) + Len(t) /\ (Len(s) + k) - Len(s) = k
    BY <1>3
  <2>. QED
    BY <1>2, <1>3, <2>1
<1>6. \A k \in DOMAIN both : both[k] \in S
  BY <1>2, <1>3
<1>7. Range(both) = S
  <2>1. Range(both) \subseteq S
    BY <1>6 DEF Range
  <2>2. Range(s) \subseteq Range(both)
    BY <1>4 DEF Range
  <2>3. Range(t) \subseteq Range(both)
    BY <1>5 DEF Range
  <2>. QED
    BY <2>1, <2>2, <2>3 DEF S
<1>8. IsList(both)
  BY <1>2, <1>7 DEF IsList
<1>. QED
  BY <1>2, <1>3, <1>7, <1>8 DEF both, S
-----------------------------------------------------------------------------
(* What ClassExtractor.cpp finds *)

LEMMA LeastExists ==
  ASSUME NEW S \in SUBSET Nat, NEW N \in S
  PROVE  \E n \in S : \A m \in S : n <= m
<1>. SUFFICES ASSUME \A n \in S : \E m \in S : m < n
              PROVE  FALSE
  OBVIOUS
<1>. DEFINE A == {n \in 0 .. N : \A m \in S : n < m}
<1>1. 0 \in A
  <2>1. 0 \notin S
    OBVIOUS
  <2>. QED
    BY <2>1
<1>2. ASSUME NEW n \in A, n < N
      PROVE  n + 1 \in A
  <2>1. \A m \in S : n + 1 <= m
    OBVIOUS
  <2>2. n + 1 \notin S
    BY <2>1
  <2>3. \A m \in S : n + 1 < m
    BY <2>1, <2>2
  <2>. QED
    BY <2>3, <1>2
<1>3. N \in A
  <2>. HIDE DEF A
  <2>1. A \in SUBSET (0 .. N)
    BY DEF A
  <2>. QED
    BY <1>1, <1>2, <2>1, Climb
<1>. QED
  BY <1>3

(* No entry of a list of refusals lets a member pass in silence.           *)
Loud(list) == IsList(list) /\ \A r \in Range(list) : r[2] # "silent"

LEMMA LoudTogether ==
  ASSUME NEW s, Loud(s), NEW t, Loud(t)
  PROVE  Loud(s \o t)
<1>1. IsList(s \o t) /\ Range(s \o t) = Range(s) \union Range(t)
  BY Together DEF Loud
<1>. QED
  BY <1>1 DEF Loud

LEMMA RefusalsAreLoud ==
  /\ Loud(LinkMethodRefusals) /\ Loud(InterfaceMethodRefusals) /\ Loud(ConstructorRefusals)
  /\ Loud(DestructorRefusals) /\ Loud(StaticDataRefusals)
<1>1. Loud(ParameterRefusals)
  BY DEF ParameterRefusals, Loud, IsList, Range
<1>2. Loud(TypeRefusals)
  <2>1. Loud(<< <<"auto_return", "auto_return">>, <<"decltype_auto_return", "decltype_auto_return">>,
                <<"function_pointer_return", "function_pointer_return">>,
                <<"attributed_return", "attributed_type">>,
                <<"private_return", "private_nested_type">> >>)
    BY DEF Loud, IsList, Range
  <2>. QED
    BY <1>1, <2>1, LoudTogether DEF TypeRefusals
<1>3. Loud(OperatorRefusals) /\ Loud(EvaluationRefusals) /\ Loud(QualifierRefusals)
  BY DEF OperatorRefusals, EvaluationRefusals, QualifierRefusals, Loud, IsList, Range
<1>4. Loud(<< <<"body", "inline_body">> >>)
  BY DEF Loud, IsList, Range
<1>5. Loud(LinkMethodRefusals)
  <2>1. Loud(<< <<"pure", "pure_virtual_method">>, <<"nonpublic", "non_public_method">> >>)
    BY DEF Loud, IsList, Range
  <2>. QED
    BY <1>2, <1>3, <1>4, <2>1, LoudTogether DEF LinkMethodRefusals
<1>6. Loud(InterfaceMethodRefusals)
  <2>1. Loud(<< <<"macro", "macro_origin">> >>)
    BY DEF Loud, IsList, Range
  <2>2. Loud(<< <<"nonpublic", "non_public_method">>, <<"static", "interface_construct">>,
                <<"final", "interface_construct">> >>)
    BY DEF Loud, IsList, Range
  <2>. QED
    BY <1>2, <1>3, <2>1, <2>2, LoudTogether DEF InterfaceMethodRefusals
<1>7. Loud(Refuse("constructor", <<"deleted", "nonpublic", "exception_spec">>))
  BY DEF Refuse, Loud, IsList, Range
<1>8. Loud(Refuse("destructor", <<"deleted", "nonpublic", "exception_spec">>))
  BY DEF Refuse, Loud, IsList, Range
<1>9. Loud(StaticDataRefusals)
  BY DEF StaticDataRefusals, Refuse, Loud, IsList, Range
<1>10. Loud(ConstructorRefusals) /\ Loud(DestructorRefusals)
  BY <1>1, <1>4, <1>7, <1>8, LoudTogether DEF ConstructorRefusals, DestructorRefusals
<1>. QED
  BY <1>5, <1>6, <1>9, <1>10

LEMMA RefusalIsLoud ==
  ASSUME NEW refusals, Loud(refusals), NEW traits
  PROVE  Refusal(refusals, traits) # "silent"
<1>. DEFINE applying == {k \in DOMAIN refusals : refusals[k][1] \in traits}
            least == CHOOSE k \in applying : \A j \in applying : k <= j
<1>1. CASE applying = {}
  BY <1>1 DEF Refusal
<1>2. CASE applying # {}
  <2>1. applying \in SUBSET Nat
    BY DEF Loud, IsList
  <2>2. PICK n \in applying : TRUE
    BY <1>2
  <2>3. \E k \in applying : \A j \in applying : k <= j
    <3>. HIDE DEF applying
    <3>. QED
      BY <2>1, <2>2, LeastExists
  <2>4. least \in applying
    <3>. HIDE DEF applying
    <3>. QED
      BY <2>3
  <2>5. refusals[least] \in Range(refusals)
    BY <2>4 DEF Range
  <2>6. Refusal(refusals, traits) = refusals[least][2]
    BY <1>2 DEF Refusal
  <2>. HIDE DEF least
  <2>. QED
    BY <2>5, <2>6 DEF Loud
<1>. QED
  BY <1>1, <1>2

(* What is passed over in silence needs no definition, and is not pure.    *)
LEMMA SilentNeedsNothing ==
  ASSUME NEW m, NEW declaration, NEW opts,
         m.kind \in {"method", "constructor", "destructor", "static_data", "template"},
         LinkOutcome(m, declaration, opts) = "silent"
  PROVE  ~NeedsDefinition(m)
<1>1. ASSUME NEW traits
      PROVE  /\ Refusal(LinkMethodRefusals, traits) # "silent"
             /\ Refusal(ConstructorRefusals, traits) # "silent"
             /\ Refusal(DestructorRefusals, traits) # "silent"
             /\ Refusal(StaticDataRefusals, traits) # "silent"
  BY RefusalsAreLoud, RefusalIsLoud
<1>2. CASE m.kind = "template"
  BY <1>2 DEF NeedsDefinition
<1>3. CASE m.kind = "static_data"
  <2>1. RecordStaticDataMember(m, opts) = "silent"
    BY <1>3 DEF LinkOutcome
  <2>2. m.traits \intersect {"inline", "constexpr"} # {}
    BY <1>1, <2>1 DEF RecordStaticDataMember
  <2>. QED
    BY <1>3, <2>2 DEF NeedsDefinition
<1>4. CASE m.kind = "constructor"
  <2>1. RecordConstructor(m, declaration, opts) = "silent"
    BY <1>4 DEF LinkOutcome
  <2>2. "defaulted" \in m.traits
    BY <1>1, <2>1 DEF RecordConstructor
  <2>. QED
    BY <1>4, <2>2 DEF NeedsDefinition
<1>5. CASE m.kind = "destructor"
  <2>1. RecordDestructor(m, opts) = "silent"
    BY <1>5 DEF LinkOutcome
  <2>2. "defaulted" \in m.traits
    BY <1>1, <2>1 DEF RecordDestructor
  <2>. QED
    BY <1>5, <2>2 DEF NeedsDefinition
<1>6. CASE m.kind = "method"
  BY <1>1, <1>6 DEF LinkOutcome
<1>. QED
  BY <1>2, <1>3, <1>4, <1>5, <1>6

LEMMA PureIsMocked ==
  ASSUME NEW m, "pure" \in m.traits, "virtual" \in m.traits, m.kind \in {"method", "destructor"},
         InterfaceOutcome(m) \in {"none", "silent"}
  PROVE  InterfaceOutcome(m) = "none" /\ m.kind = "method"
<1>1. CASE m.kind = "destructor"
  BY <1>1 DEF InterfaceOutcome, RecordInterfaceDestructor
<1>2. CASE m.kind = "method"
  <2>1. Refusal(InterfaceMethodRefusals, m.traits) # "silent"
    BY RefusalsAreLoud, RefusalIsLoud
  <2>. QED
    BY <1>2, <2>1 DEF InterfaceOutcome
<1>. QED
  BY <1>1, <1>2

IsPicking(list, set, m, at) ==
  at = [n \in 0 .. m |-> IF n = 0 THEN <<>>
                         ELSE IF list[n] \in set THEN Append(at[n - 1], list[n])
                         ELSE at[n - 1]]

LEMMA PickingExists ==
  ASSUME NEW list, NEW set, NEW N \in Nat
  PROVE  \E at : IsPicking(list, set, N, at)
<1>. DEFINE A == {m \in 0 .. N : \E at : IsPicking(list, set, m, at)}
            Onto(before, n) == IF list[n] \in set THEN Append(before, list[n]) ELSE before
<1>1. 0 \in A
  <2>. DEFINE at == [n \in 0 .. 0 |-> <<>>]
  <2>1. IsPicking(list, set, 0, at)
    BY DEF IsPicking
  <2>. QED
    BY <2>1
<1>2. ASSUME NEW m \in A, m < N
      PROVE  m + 1 \in A
  <2>. PICK at : IsPicking(list, set, m, at)
    OBVIOUS
  <2>. DEFINE on == [n \in 0 .. m + 1 |-> IF n <= m THEN at[n] ELSE Onto(at[m], n)]
  <2>1. ASSUME NEW n \in 0 .. m + 1
        PROVE  on[n] = IF n = 0 THEN <<>> ELSE Onto(on[n - 1], n)
    <3>1. CASE n = 0
      BY <3>1 DEF IsPicking
    <3>2. CASE n \in 1 .. m
      <4>1. on[n] = at[n] /\ on[n - 1] = at[n - 1]
        BY <3>2
      <4>2. at[n] = Onto(at[n - 1], n)
        <5>1. n \in 0 .. m /\ n # 0
          BY <3>2
        <5>2. \A j \in 0 .. m : at[j] = IF j = 0 THEN <<>> ELSE Onto(at[j - 1], j)
          BY ONLY IsPicking(list, set, m, at) DEF IsPicking
        <5>. HIDE DEF Onto
        <5>. QED
          BY <5>1, <5>2
      <4>. HIDE DEF on, Onto
      <4>. QED
        BY <3>2, <4>1, <4>2
    <3>3. CASE n = m + 1
      <4>1. on[n - 1] = at[m] /\ on[n] = Onto(at[m], n)
        BY <3>3
      <4>. QED
        BY <3>3, <4>1
    <3>. QED
      BY <3>1, <3>2, <3>3
  <2>2. IsPicking(list, set, m + 1, on)
    <3>. HIDE DEF on
    <3>1. on = [n \in 0 .. m + 1 |-> on[n]]
      BY DEF on
    <3>. QED
      BY <2>1, <3>1 DEF IsPicking
  <2>. QED
    BY <2>2, <1>2
<1>. HIDE DEF A
<1>3. N \in A
  BY <1>1, <1>2, Climb DEF A
<1>. QED
  BY <1>3 DEF A

LEMMA OnlyMeans ==
  ASSUME NEW list, IsList(list), NEW set
  PROVE  IsList(Only(list, set)) /\ Range(Only(list, set)) = Range(list) \intersect set
<1>. DEFINE N == Len(list)
            at == CHOOSE at : IsPicking(list, set, N, at)
            Held(n) == {list[k] : k \in 1 .. n} \intersect set
            A == {n \in 0 .. N : IsList(at[n]) /\ Range(at[n]) = Held(n)}
<1>1. N \in Nat /\ DOMAIN list = 1 .. N
  BY DEF IsList
<1>2. IsPicking(list, set, N, at)
  BY <1>1, PickingExists
<1>3. Only(list, set) = at[N]
  BY DEF Only, IsPicking
<1>. HIDE DEF at, N
<1>4. 0 \in A
  <2>1. at[0] = <<>>
    BY <1>1, <1>2 DEF IsPicking
  <2>2. IsList(<<>>) /\ Range(<<>>) = {}
    BY DEF IsList, Range
  <2>3. Held(0) = {}
    OBVIOUS
  <2>. QED
    BY <1>1, <2>1, <2>2, <2>3
<1>5. ASSUME NEW n \in A, n < N
      PROVE  n + 1 \in A
  <2>1. n \in 0 .. N /\ n + 1 \in 1 .. N /\ n + 1 \in 0 .. N /\ n + 1 # 0 /\ (n + 1) - 1 = n
    BY <1>1, <1>5
  <2>2. at[n + 1] = IF list[n + 1] \in set THEN Append(at[n], list[n + 1]) ELSE at[n]
    BY <1>2, <2>1 DEF IsPicking
  <2>3. IsList(at[n]) /\ Range(at[n]) = Held(n)
    OBVIOUS
  <2>4. {list[k] : k \in 1 .. n + 1} = {list[k] : k \in 1 .. n} \union {list[n + 1]}
    <3>1. 1 .. n + 1 = (1 .. n) \union {n + 1}
      BY <2>1
    <3>. QED
      BY <3>1
  <2>. HIDE DEF A
  <2>5. CASE list[n + 1] \in set
    <3>1. at[n + 1] = Append(at[n], list[n + 1])
      BY <2>2, <2>5
    <3>2. IsList(at[n + 1]) /\ Range(at[n + 1]) = Range(at[n]) \union {list[n + 1]}
      BY <2>3, <3>1, Grown
    <3>3. Held(n + 1) = Held(n) \union {list[n + 1]}
      BY <2>4, <2>5
    <3>. QED
      BY <2>1, <2>3, <3>2, <3>3 DEF A
  <2>6. CASE list[n + 1] \notin set
    <3>1. at[n + 1] = at[n]
      BY <2>2, <2>6
    <3>2. Held(n + 1) = Held(n)
      BY <2>4, <2>6
    <3>. QED
      BY <2>1, <2>3, <3>1, <3>2 DEF A
  <2>. QED
    BY <2>5, <2>6
<1>. HIDE DEF A
<1>6. N \in A
  BY <1>1, <1>4, <1>5, Climb DEF A
<1>7. Held(N) = Range(list) \intersect set
  BY <1>1 DEF Range
<1>. QED
  BY <1>3, <1>6, <1>7 DEF A

LEMMA KeptMeans ==
  ASSUME NEW declaration, IsList(declaration.members),
         NEW outcome, DOMAIN outcome = Range(declaration.members),
         NEW m \in Range(declaration.members), outcome[m] = "none"
  PROVE  m.signature \in Range(Kept(declaration, m.kind, outcome))
<1>. DEFINE set == {x \in DOMAIN outcome : x.kind = m.kind /\ outcome[x] = "none"}
            kept == Only(declaration.members, set)
<1>1. m \in Range(kept)
  BY OnlyMeans
<1>2. Kept(declaration, m.kind, outcome) = [k \in DOMAIN kept |-> kept[k].signature]
  BY DEF Kept
<1>. HIDE DEF kept
<1>. QED
  BY <1>1, <1>2 DEF Range

LEMMA RefusedMeans ==
  ASSUME NEW declaration, IsList(declaration.members),
         NEW outcome, DOMAIN outcome = Range(declaration.members)
  PROVE  /\ IsList(Refused(declaration, outcome))
         /\ Refused(declaration, outcome) = <<>> =>
              \A m \in Range(declaration.members) : outcome[m] \in {"none", "silent"}
<1>. DEFINE set == {x \in DOMAIN outcome : outcome[x] \notin {"none", "silent"}}
            refused == Only(declaration.members, set)
            items == Refused(declaration, outcome)
<1>1. IsList(refused) /\ Range(refused) = Range(declaration.members) \intersect set
  BY OnlyMeans
<1>2. items = [k \in DOMAIN refused |-> <<outcome[refused[k]], refused[k].signature>>]
  BY DEF Refused
<1>. HIDE DEF refused, items
<1>3. Len(refused) \in Nat /\ DOMAIN refused = 1 .. Len(refused)
  BY <1>1 DEF IsList
<1>4. IsList(items)
  <2>1. \A k \in 1 .. Len(refused) : items[k] \in Range(items)
    BY <1>2, <1>3 DEF Range
  <2>2. items = [k \in 1 .. Len(refused) |-> items[k]]
    BY <1>2, <1>3
  <2>. QED
    BY <1>3, <2>1, <2>2 DEF IsList
<1>5. ASSUME items = <<>>, NEW m \in Range(declaration.members)
      PROVE  outcome[m] \in {"none", "silent"}
  <2>1. DOMAIN refused = {}
    <3>1. DOMAIN items = {}
      BY <1>5
    <3>. QED
      BY <1>2, <3>1
  <2>2. m \notin set
    BY <1>1, <2>1 DEF Range
  <2>. QED
    BY <2>2
<1>. QED
  BY <1>4, <1>5 DEF items

(* A name with one more number than are taken is free. *)
LEMMA NameLeft ==
  ASSUME NEW name, NEW first \in Nat, NEW taken, IsFiniteSet(taken)
  PROVE  FirstFree(name, first, taken) \notin taken
<1>. DEFINE c == Cardinality(taken)
            numbers == first .. first + c
            free == {n \in numbers : <<name, n>> \notin taken}
            least == CHOOSE n \in free : \A k \in free : n <= k
<1>1. c \in Nat
  BY FS_CardinalityType
<1>2. free # {}
  <2>. SUFFICES ASSUME \A n \in numbers : <<name, n>> \in taken
                PROVE  FALSE
    OBVIOUS
  <2>. DEFINE f == [n \in numbers |-> <<name, n>>]
  <2>1. f \in Injection(numbers, taken)
    <3>1. f \in [numbers -> taken] /\ \A j, k \in numbers : f[j] = f[k] => j = k
      OBVIOUS
    <3>. QED
      BY <3>1 DEF Injection, IsInjective
  <2>2. Cardinality(numbers) <= c
    BY <2>1, FS_Injection
  <2>3. Cardinality(numbers) = c + 1
    <3>1. Cardinality(numbers) = IF first > first + c THEN 0 ELSE first + c - first + 1
      <4>. HIDE DEF c
      <4>. QED
        BY <1>1, FS_Interval
    <3>. QED
      BY <1>1, <3>1
  <2>. HIDE DEF c, numbers
  <2>. QED
    BY <1>1, <2>2, <2>3
<1>3. free \in SUBSET Nat
  BY <1>1
<1>4. least \in free
  <2>. HIDE DEF free
  <2>1. PICK some \in free : TRUE
    BY <1>2
  <2>2. \E n \in free : \A k \in free : n <= k
    BY <1>3, <2>1, LeastExists
  <2>. QED
    BY <2>2
<1>5. FirstFree(name, first, taken) = <<name, least>>
  BY DEF FirstFree
<1>. HIDE DEF least
<1>. QED
  BY <1>4, <1>5

LEMMA GeneratedNameIsFree ==
  ASSUME NEW default_name, NEW fallback_base, NEW product, IsFiniteSet(product),
         NEW reserved, IsFiniteSet(reserved)
  PROVE  FirstAvailableGeneratedName(default_name, fallback_base, product, reserved)
           \notin product \union reserved
<1>1. IsFiniteSet(product \union reserved)
  BY FS_Union
<1>2. /\ FirstFree(default_name, 2, product \union reserved) \notin product \union reserved
      /\ FirstFree(fallback_base, 2, product \union reserved) \notin product \union reserved
  BY <1>1, NameLeft
<1>. QED
  BY <1>2 DEF FirstAvailableGeneratedName

MemberFields ==
  {"interface_mock", "mock_methods", "fake_methods", "fake_constructors", "fake_destructors",
   "static_data_members", "unsupported_items", "mock_destructor_override"}

(* What ReadyClassesBuild says of a class by itself *)
Complete(members, declared) ==
  members.unsupported_items = <<>> =>
    \A member \in Range(declared.members) :
      IF members.interface_mock
        THEN "pure" \in member.traits => member.signature \in Range(members.mock_methods)
        ELSE NeedsDefinition(member) => member.signature \in Faked(members)

NamesOf(class) == {class.mock_name, class.scoped_mock_name}

NamesFree(class) ==
  NamesOf(class) \intersect Product(class.declared) = {} /\ class.mock_name # class.scoped_mock_name

MembersOk(members) ==
  /\ members = [f \in MemberFields |-> members[f]]
  /\ members.fake_methods = IF members.interface_mock THEN <<>> ELSE members.mock_methods

LEMMA LinkMembers ==
  ASSUME NEW declaration, IsDeclaration(declaration), NEW opts
  PROVE  LET members == ExtractMethods(declaration, opts)
         IN MembersOk(members) /\ Complete(members, declaration)
<1>. DEFINE members == ExtractMethods(declaration, opts)
            outcome == [m \in Range(declaration.members) |-> LinkOutcome(m, declaration, opts)]
<1>1. /\ members = [f \in MemberFields |-> members[f]]
      /\ members.interface_mock = FALSE
      /\ members.mock_methods = Kept(declaration, "method", outcome)
      /\ members.fake_methods = Kept(declaration, "method", outcome)
      /\ members.fake_constructors = Kept(declaration, "constructor", outcome)
      /\ members.fake_destructors = Kept(declaration, "destructor", outcome)
      /\ members.static_data_members = Kept(declaration, "static_data", outcome)
      /\ members.unsupported_items = Refused(declaration, outcome)
  BY DEF ExtractMethods, NoMembers, MemberFields
<1>. HIDE DEF members
<1>2. IsList(declaration.members)
  BY DEF IsDeclaration, IsList
<1>3. ASSUME members.unsupported_items = <<>>, NEW m \in Range(declaration.members),
             NeedsDefinition(m)
      PROVE  m.signature \in Faked(members)
  <2>1. m.kind \in {"method", "constructor", "destructor", "static_data", "template"}
    BY DEF IsDeclaration
  <2>2. outcome[m] = LinkOutcome(m, declaration, opts)
    OBVIOUS
  <2>3. DOMAIN outcome = Range(declaration.members)
    OBVIOUS
  <2>. HIDE DEF outcome
  <2>4. outcome[m] \in {"none", "silent"}
    BY <1>1, <1>2, <1>3, <2>3, RefusedMeans
  <2>5. outcome[m] = "none"
    BY <1>3, <2>1, <2>2, <2>4, SilentNeedsNothing
  <2>6. m.signature \in Range(Kept(declaration, m.kind, outcome))
    BY <1>2, <2>3, <2>5, KeptMeans
  <2>7. m.kind # "template"
    BY <1>3 DEF NeedsDefinition
  <2>. QED
    BY <1>1, <2>1, <2>6, <2>7 DEF Faked
<1>4. MembersOk(members) /\ Complete(members, declaration)
  BY <1>1, <1>3 DEF MembersOk, Complete
<1>. QED
  BY <1>4 DEF members

LEMMA InterfaceMembers ==
  ASSUME NEW declaration, IsDeclaration(declaration)
  PROVE  LET members == ExtractInterfaceMembers(declaration)
         IN MembersOk(members) /\ Complete(members, declaration)
<1>. DEFINE members == ExtractInterfaceMembers(declaration)
            outcome == [m \in Range(declaration.members) |-> InterfaceOutcome(m)]
            methods == Kept(declaration, "method", outcome)
            refused == Refused(declaration, outcome)
            itself == << <<"interface_construct", declaration.name>> >>
<1>1. members = [f \in MemberFields |-> members[f]] /\ members.fake_methods = <<>>
  BY DEF ExtractInterfaceMembers, NoMembers, MemberFields
<1>2. CASE "final" \in declaration.traits
  <2>1. /\ members.unsupported_items = itself /\ members.mock_methods = <<>>
        /\ members.interface_mock = FALSE
    BY <1>2 DEF ExtractInterfaceMembers, NoMembers
  <2>. HIDE DEF members
  <2>2. itself # <<>>
    OBVIOUS
  <2>. QED
    BY <1>1, <2>1, <2>2 DEF MembersOk, Complete, members
<1>3. CASE "final" \notin declaration.traits
  <2>1. /\ members.interface_mock = TRUE /\ members.mock_methods = methods
        /\ members.unsupported_items = refused \o (IF methods = <<>> THEN itself ELSE <<>>)
    BY <1>3 DEF ExtractInterfaceMembers, NoMembers
  <2>2. IsList(declaration.members)
    BY DEF IsDeclaration, IsList
  <2>3. DOMAIN outcome = Range(declaration.members)
    OBVIOUS
  <2>. HIDE DEF members
  <2>4. ASSUME members.unsupported_items = <<>>
        PROVE  refused = <<>>
    <3>. DEFINE S == Range(refused) \union {itself[1]}
    <3>1. refused \in Seq(S) /\ itself \in Seq(S) /\ <<>> \in Seq(S)
      <4>1. IsList(refused)
        <5>. HIDE DEF outcome
        <5>. QED
          BY <2>2, <2>3, RefusedMeans
      <4>. QED
        BY <4>1 DEF IsList
    <3>. HIDE DEF S, refused, itself
    <3>. QED
      BY <2>1, <2>4, <3>1
  <2>5. ASSUME members.unsupported_items = <<>>, NEW m \in Range(declaration.members),
               "pure" \in m.traits
        PROVE  m.signature \in Range(members.mock_methods)
    <3>1. "virtual" \in m.traits /\ m.kind \in {"method", "destructor"}
      BY <2>5 DEF IsDeclaration
    <3>2. outcome[m] = InterfaceOutcome(m)
      OBVIOUS
    <3>. HIDE DEF outcome
    <3>3. outcome[m] \in {"none", "silent"}
      BY <2>2, <2>3, <2>4, <2>5, RefusedMeans
    <3>4. outcome[m] = "none" /\ m.kind = "method"
      BY <2>5, <3>1, <3>2, <3>3, PureIsMocked
    <3>. QED
      BY <2>1, <2>2, <2>3, <3>4, KeptMeans
  <2>6. MembersOk(members) /\ Complete(members, declaration)
    BY <1>1, <2>1, <2>5 DEF MembersOk, Complete
  <2>. QED
    BY <2>6 DEF members
<1>. QED
  BY <1>2, <1>3

ClassOk(class) ==
  /\ MembersOk(class.members)
  /\ Complete(class.members, class.declared)
  /\ NamesFree(class)

LEMMA ModelOk ==
  ASSUME NEW declaration, IsDeclaration(declaration), NEW reserved, IsFiniteSet(reserved), NEW opts
  PROVE  LET class == ClassModel(declaration, reserved, opts)
         IN /\ ClassOk(class)
            /\ class.namespaces = declaration.namespaces
            /\ NamesOf(class) \intersect reserved = {}
<1>. DEFINE class == ClassModel(declaration, reserved, opts)
            product == Product(declaration)
            Available(default_name, fallback_base, taken) ==
              FirstAvailableGeneratedName(default_name, fallback_base, product, taken)
            mock_name == Available("Mock" \o declaration.name, "MockFake" \o declaration.name, reserved)
            scoped_mock_name ==
              Available("ScopedMock" \o declaration.name, "ScopedMockFake" \o declaration.name,
                        reserved \union {mock_name})
<1>1. IsFiniteSet(product)
  <2>. DEFINE f == [name \in declaration.neighbours |-> <<name, 0>>]
  <2>1. f \in Surjection(declaration.neighbours, product)
    BY DEF Surjection, Product
  <2>. QED
    BY <2>1, FS_Surjection DEF IsDeclaration
<1>2. IsFiniteSet(reserved \union {mock_name})
  BY FS_AddElement
<1>3. \A default_name, fallback_base, taken :
        IsFiniteSet(taken) => Available(default_name, fallback_base, taken) \notin product \union taken
  BY <1>1, GeneratedNameIsFree
<1>4. mock_name \notin product \union reserved
  <2>. HIDE DEF Available
  <2>. QED
    BY <1>3
<1>5. scoped_mock_name \notin product \union reserved \union {mock_name}
  <2>. HIDE DEF Available, mock_name
  <2>. QED
    BY <1>2, <1>3
<1>6. /\ class.declared = declaration /\ class.namespaces = declaration.namespaces
      /\ class.mock_name = mock_name /\ class.scoped_mock_name = scoped_mock_name
      /\ class.members = IF ShouldUseInterfaceMockMode(declaration, opts)
                         THEN ExtractInterfaceMembers(declaration)
                         ELSE ExtractMethods(declaration, opts)
  BY DEF ClassModel
<1>. HIDE DEF class, mock_name, scoped_mock_name, product
<1>7. MembersOk(class.members) /\ Complete(class.members, declaration)
  BY <1>6, LinkMembers, InterfaceMembers
<1>8. NamesOf(class) \intersect (product \union reserved) = {} /\ class.mock_name # class.scoped_mock_name
  BY <1>4, <1>5, <1>6 DEF NamesOf
<1>9. ClassOk(class)
  BY <1>6, <1>7, <1>8 DEF ClassOk, NamesFree, product
<1>. QED
  BY <1>6, <1>8, <1>9 DEF class

(* No two classes of a list have the names of one another.                 *)
NamesApart(classes) ==
  \A c, d \in Range(classes) :
    c # d /\ c.namespaces = d.namespaces => NamesOf(c) \intersect NamesOf(d) = {}

ExtractedOk(classes) ==
  /\ IsList(classes)
  /\ \A class \in Range(classes) : ClassOk(class)
  /\ NamesApart(classes)

(* reserved has the names of the classes, each with the namespaces. *)
FoundOk(found) ==
  /\ DOMAIN found = {"classes", "unsupported", "filtered", "reserved"}
  /\ ExtractedOk(found.classes)
  /\ IsList(found.reserved)
  /\ \A class \in Range(found.classes) : \A name \in NamesOf(class) :
       <<class.namespaces, name>> \in Range(found.reserved)

LEMMA ReservedIsFinite ==
  ASSUME NEW found, IsList(found.reserved), NEW namespaces
  PROVE  IsFiniteSet(ReservedIn(found, namespaces))
<1>. DEFINE names == [k \in 1 .. Len(found.reserved) |-> found.reserved[k][2]]
<1>1. Len(found.reserved) \in Nat /\ DOMAIN found.reserved = 1 .. Len(found.reserved)
  BY DEF IsList
<1>2. IsFiniteSet(1 .. Len(found.reserved))
  BY <1>1, FS_Interval
<1>3. names \in Surjection(1 .. Len(found.reserved), Range(names))
  BY DEF Surjection, Range
<1>4. IsFiniteSet(Range(names))
  BY <1>2, <1>3, FS_Surjection
<1>5. ReservedIn(found, namespaces) \subseteq Range(names)
  BY <1>1 DEF ReservedIn, Range
<1>. QED
  BY <1>4, <1>5, FS_Subset

LEMMA ClassFound ==
  ASSUME NEW found, FoundOk(found), NEW class, ClassOk(class),
         NamesOf(class) \intersect ReservedIn(found, class.namespaces) = {},
         NEW next, DOMAIN next = DOMAIN found,
         next.classes = Append(found.classes, class),
         next.reserved = found.reserved \o << <<class.namespaces, class.mock_name>>,
                                              <<class.namespaces, class.scoped_mock_name>> >>
  PROVE  FoundOk(next)
<1>. DEFINE mock == <<class.namespaces, class.mock_name>>
            scoped == <<class.namespaces, class.scoped_mock_name>>
<1>1. IsList(next.classes) /\ Range(next.classes) = Range(found.classes) \union {class}
  BY Grown DEF FoundOk, ExtractedOk
<1>2. IsList(next.reserved) /\ Range(next.reserved) = Range(found.reserved) \union {mock, scoped}
  <2>1. IsList(<<mock, scoped>>) /\ Range(<<mock, scoped>>) = {mock, scoped}
    <3>. HIDE DEF mock, scoped
    <3>. QED
      BY DEF IsList, Range
  <2>2. next.reserved = found.reserved \o <<mock, scoped>>
    OBVIOUS
  <2>3. IsList(found.reserved)
    BY DEF FoundOk
  <2>. HIDE DEF mock, scoped
  <2>4. LET both == found.reserved \o <<mock, scoped>>
        IN IsList(both) /\ Range(both) = Range(found.reserved) \union Range(<<mock, scoped>>)
    BY <2>1, <2>3, Together
  <2>. QED
    BY <2>1, <2>2, <2>4
<1>3. ASSUME NEW c \in Range(next.classes), NEW name \in NamesOf(c)
      PROVE  <<c.namespaces, name>> \in Range(next.reserved)
  <2>1. CASE c \in Range(found.classes)
    BY <1>2, <2>1 DEF FoundOk
  <2>2. CASE c = class
    BY <1>2, <2>2 DEF NamesOf
  <2>. QED
    BY <1>1, <2>1, <2>2
<1>4. ASSUME NEW c \in Range(found.classes), c.namespaces = class.namespaces
      PROVE  NamesOf(c) \intersect NamesOf(class) = {}
  <2>1. ASSUME NEW name \in NamesOf(c)
        PROVE  name \in ReservedIn(found, class.namespaces)
    <3>. DEFINE entry == <<c.namespaces, name>>
    <3>1. entry \in Range(found.reserved)
      BY DEF FoundOk
    <3>2. entry[1] = class.namespaces /\ entry[2] = name
      BY <1>4
    <3>. HIDE DEF entry
    <3>. QED
      BY <3>1, <3>2 DEF ReservedIn
  <2>. QED
    BY <2>1
<1>5. NamesApart(next.classes)
  <2>1. NamesApart(found.classes)
    BY DEF FoundOk, ExtractedOk
  <2>. HIDE DEF mock, scoped
  <2>. QED
    BY <1>1, <1>4, <2>1 DEF NamesApart
<1>6. \A c \in Range(next.classes) : ClassOk(c)
  BY <1>1 DEF FoundOk, ExtractedOk
<1>. QED
  BY <1>1, <1>2, <1>3, <1>5, <1>6 DEF FoundOk, ExtractedOk

IsVisiting(ds, opts, m, at) ==
  at = [n \in 0 .. m |-> IF n = 0 THEN NothingExtracted ELSE VisitRecord(at[n - 1], ds[n], opts)]

LEMMA VisitingExists ==
  ASSUME NEW ds, NEW opts, NEW N \in Nat
  PROVE  \E at : IsVisiting(ds, opts, N, at)
<1>. DEFINE A == {m \in 0 .. N : \E at : IsVisiting(ds, opts, m, at)}
<1>1. 0 \in A
  <2>. DEFINE at == [n \in 0 .. 0 |-> NothingExtracted]
  <2>1. IsVisiting(ds, opts, 0, at)
    BY DEF IsVisiting
  <2>. QED
    BY <2>1
<1>2. ASSUME NEW m \in A, m < N
      PROVE  m + 1 \in A
  <2>. PICK at : IsVisiting(ds, opts, m, at)
    OBVIOUS
  <2>. DEFINE on == [n \in 0 .. m + 1 |->
                       IF n <= m THEN at[n] ELSE VisitRecord(at[m], ds[n], opts)]
  <2>1. ASSUME NEW n \in 0 .. m + 1
        PROVE  on[n] = IF n = 0 THEN NothingExtracted ELSE VisitRecord(on[n - 1], ds[n], opts)
    <3>1. CASE n = 0
      BY <3>1 DEF IsVisiting
    <3>2. CASE n \in 1 .. m
      <4>1. on[n] = at[n] /\ on[n - 1] = at[n - 1]
        BY <3>2
      <4>. QED
        BY <3>2, <4>1 DEF IsVisiting
    <3>3. CASE n = m + 1
      <4>1. on[n - 1] = at[m] /\ on[n] = VisitRecord(at[m], ds[n], opts)
        BY <3>3
      <4>. QED
        BY <3>3, <4>1
    <3>. QED
      BY <3>1, <3>2, <3>3
  <2>2. IsVisiting(ds, opts, m + 1, on)
    <3>. HIDE DEF on
    <3>1. on = [n \in 0 .. m + 1 |-> on[n]]
      BY DEF on
    <3>. QED
      BY <2>1, <3>1 DEF IsVisiting
  <2>. QED
    BY <2>2, <1>2
<1>. HIDE DEF A
<1>3. N \in A
  BY <1>1, <1>2, Climb DEF A
<1>. QED
  BY <1>3 DEF A

LEMMA VisitOk ==
  ASSUME NEW found, FoundOk(found), NEW declaration, IsDeclaration(declaration), NEW opts
  PROVE  FoundOk(VisitRecord(found, declaration, opts))
<1>. DEFINE reserved == ReservedIn(found, declaration.namespaces)
            class == ClassModel(declaration, reserved, opts)
            kinds == {<<kind, declaration.name>> : kind \in UnsupportedRecords(declaration)}
            noted == [found EXCEPT !.unsupported = @ \union kinds]
            next == VisitRecord(found, declaration, opts)
            names == << <<declaration.namespaces, class.mock_name>>,
                        <<declaration.namespaces, class.scoped_mock_name>> >>
            again == [noted EXCEPT !.classes = Append(@, class), !.reserved = @ \o names]
            counted == [noted EXCEPT !.filtered = @ + 1]
<1>1. IsFiniteSet(reserved)
  BY ReservedIsFinite DEF FoundOk
<1>2. /\ ClassOk(class) /\ class.namespaces = declaration.namespaces
      /\ NamesOf(class) \intersect reserved = {}
  <2>. HIDE DEF reserved
  <2>. QED
    BY <1>1, ModelOk
<1>3. next \in {noted, counted, again}
  BY DEF VisitRecord
<1>4. /\ DOMAIN noted = DOMAIN found /\ noted.classes = found.classes
      /\ noted.reserved = found.reserved
  BY DEF FoundOk
<1>. HIDE DEF noted, class, next
<1>5. /\ DOMAIN again = DOMAIN found /\ again.classes = Append(found.classes, class)
      /\ again.reserved = found.reserved \o names
      /\ DOMAIN counted = DOMAIN found /\ counted.classes = found.classes
      /\ counted.reserved = found.reserved
  BY <1>4 DEF FoundOk
<1>. HIDE DEF again, counted
<1>6. FoundOk(noted) /\ FoundOk(counted)
  BY <1>4, <1>5 DEF FoundOk
<1>7. FoundOk(again)
  BY <1>2, <1>5, ClassFound
<1>. QED
  BY <1>3, <1>6, <1>7 DEF next

LEMMA ExtractionOk ==
  ASSUME NEW ds, AreDeclarations(ds), NEW opts
  PROVE  ExtractedOk(ExtractClassDefinitions(ds, opts).classes)
<1>. DEFINE at == CHOOSE at : IsVisiting(ds, opts, Len(ds), at)
            A == {n \in 0 .. Len(ds) : FoundOk(at[n])}
<1>1. Len(ds) \in Nat /\ DOMAIN ds = 1 .. Len(ds)
  BY DEF AreDeclarations
<1>2. IsVisiting(ds, opts, Len(ds), at)
  BY <1>1, VisitingExists
<1>3. ExtractClassDefinitions(ds, opts) = at[Len(ds)]
  BY DEF ExtractClassDefinitions, IsVisiting
<1>. HIDE DEF at
<1>4. 0 \in A
  <2>1. at[0] = NothingExtracted
    BY <1>1, <1>2 DEF IsVisiting
  <2>2. IsList(<<>>) /\ Range(<<>>) = {}
    BY DEF Range, IsList
  <2>3. FoundOk(NothingExtracted)
    BY <2>2 DEF NothingExtracted, FoundOk, ExtractedOk, NamesApart
  <2>. QED
    BY <1>1, <2>1, <2>3
<1>5. ASSUME NEW n \in A, n < Len(ds)
      PROVE  n + 1 \in A
  <2>1. n + 1 \in 0 .. Len(ds) /\ n + 1 \in 1 .. Len(ds) /\ n + 1 # 0 /\ (n + 1) - 1 = n
    BY <1>1, <1>5
  <2>2. at[n + 1] = VisitRecord(at[n], ds[n + 1], opts)
    BY <1>2, <2>1 DEF IsVisiting
  <2>3. IsDeclaration(ds[n + 1])
    BY <1>1, <2>1 DEF AreDeclarations, Range
  <2>. QED
    BY <2>1, <2>2, <2>3, VisitOk
<1>. HIDE DEF A
<1>6. Len(ds) \in A
  BY <1>1, <1>4, <1>5, Climb DEF A
<1>. QED
  BY <1>3, <1>6 DEF A, FoundOk

LEMMA SeesDeclarations ==
  ASSUME NEW sees, \A h \in DOMAIN sees : AreDeclarations(sees[h]), NEW header
  PROVE  AreDeclarations(Sees(sees, header))
<1>1. AreDeclarations(<<>>)
  BY DEF AreDeclarations, Range
<1>. QED
  BY <1>1 DEF Sees
-----------------------------------------------------------------------------
(* What is known of a class: the observations and conflicts agree with the *)
(* classes that were seen.                                                  *)

Conflict(key) == <<"Error", "CompileConfigConflict", key>>

ObservedOk(observations, diagnostics, known) ==
  /\ DOMAIN observations = {s[1] : s \in known}
  /\ \A key \in DOMAIN observations :
       /\ \E s \in known : s[1] = key /\ ClassFingerprint(s[2]) = observations[key]
       /\ Conflict(key) \in diagnostics <=>
            \E s \in known : s[1] = key /\ ClassFingerprint(s[2]) # observations[key]
  /\ \A key : Conflict(key) \in diagnostics => key \in DOMAIN observations

LEMMA ObservedNew ==
  ASSUME NEW observations, NEW diagnostics, NEW known, ObservedOk(observations, diagnostics, known),
         NEW key, key \notin DOMAIN observations, NEW class,
         NEW more, DOMAIN more = DOMAIN observations \union {key},
         \A k \in DOMAIN observations : more[k] = observations[k],
         more[key] = ClassFingerprint(class)
  PROVE  ObservedOk(more, diagnostics, known \union {<<key, class>>})
<1>. DEFINE new == <<key, class>>
            grown == known \union {new}
<1>1. new[1] = key /\ new[2] = class
  OBVIOUS
<1>2. \A s \in known : s[1] \in DOMAIN observations /\ s[1] # key
  BY DEF ObservedOk
<1>. HIDE DEF new
<1>3. DOMAIN more = {s[1] : s \in grown}
  BY <1>1 DEF ObservedOk
<1>4. ASSUME NEW k \in DOMAIN observations
      PROVE  /\ \E s \in grown : s[1] = k /\ ClassFingerprint(s[2]) = more[k]
             /\ Conflict(k) \in diagnostics <=>
                  \E s \in grown : s[1] = k /\ ClassFingerprint(s[2]) # more[k]
  BY <1>1, <1>4 DEF ObservedOk
<1>5. \E s \in grown : s[1] = key /\ ClassFingerprint(s[2]) = more[key]
  BY <1>1
<1>6. \A s \in grown : s[1] = key => s = new
  BY <1>2
<1>7. ~ \E s \in grown : s[1] = key /\ ClassFingerprint(s[2]) # more[key]
  BY <1>1, <1>6
<1>8. Conflict(key) \notin diagnostics
  BY DEF ObservedOk
<1>9. \A k : Conflict(k) \in diagnostics => k \in DOMAIN more
  BY DEF ObservedOk
<1>. HIDE DEF grown
<1>. QED
  BY <1>3, <1>4, <1>5, <1>7, <1>8, <1>9 DEF ObservedOk, grown, new

LEMMA ObservedAgain ==
  ASSUME NEW observations, NEW diagnostics, NEW known, ObservedOk(observations, diagnostics, known),
         NEW key \in DOMAIN observations, NEW class, NEW more,
         more = IF observations[key] # ClassFingerprint(class)
                  THEN diagnostics \union {Conflict(key)} ELSE diagnostics
  PROVE  ObservedOk(observations, more, known \union {<<key, class>>})
<1>. DEFINE new == <<key, class>>
            grown == known \union {new}
<1>1. new[1] = key /\ new[2] = class
  OBVIOUS
<1>. HIDE DEF new
<1>2. DOMAIN observations = {s[1] : s \in grown}
  BY <1>1 DEF ObservedOk
<1>3. \A k : Conflict(k) = Conflict(key) => k = key
  BY DEF Conflict
<1>4. ASSUME NEW k \in DOMAIN observations
      PROVE  /\ \E s \in grown : s[1] = k /\ ClassFingerprint(s[2]) = observations[k]
             /\ Conflict(k) \in more <=>
                  \E s \in grown : s[1] = k /\ ClassFingerprint(s[2]) # observations[k]
  <2>1. \E s \in grown : s[1] = k /\ ClassFingerprint(s[2]) = observations[k]
    BY <1>4 DEF ObservedOk
  <2>2. CASE k = key
    <3>1. Conflict(key) \in diagnostics <=>
            \E s \in known : s[1] = key /\ ClassFingerprint(s[2]) # observations[key]
      BY DEF ObservedOk
    <3>2. CASE observations[key] # ClassFingerprint(class)
      BY <1>1, <2>1, <2>2, <3>2
    <3>3. CASE observations[key] = ClassFingerprint(class)
      BY <1>1, <2>1, <2>2, <3>1, <3>3
    <3>. QED
      BY <3>2, <3>3
  <2>3. CASE k # key
    <3>1. Conflict(k) \in more <=> Conflict(k) \in diagnostics
      BY <1>3, <2>3
    <3>2. Conflict(k) \in diagnostics <=>
            \E s \in known : s[1] = k /\ ClassFingerprint(s[2]) # observations[k]
      BY <1>4 DEF ObservedOk
    <3>. QED
      BY <1>1, <2>1, <2>3, <3>1, <3>2
  <2>. QED
    BY <2>2, <2>3
<1>5. \A k : Conflict(k) \in more => k \in DOMAIN observations
  BY <1>3 DEF ObservedOk
<1>. HIDE DEF grown
<1>. QED
  BY <1>2, <1>4, <1>5 DEF ObservedOk, grown, new
-----------------------------------------------------------------------------
(* What is kept of a class: its model and its arguments come from the      *)
(* first attempt that found it.                                            *)

Has(attempt, key) == \E class \in Range(attempt.classes) : Identity(attempt.header, class) = key

IsFirst(attempts, n, key) ==
  /\ n \in DOMAIN attempts /\ Has(attempts[n], key)
  /\ \A j \in 1 .. n - 1 : ~Has(attempts[j], key)

KeyOf(class) == Identity(class.header, class.model)

ArgSet(key, attempt) ==
  [name |-> key[3], namespaces |-> key[2], header |-> attempt.header, args |-> attempt.args]

KeptOk(classes, arg_sets, attempts, known) ==
  /\ IsList(classes) /\ IsList(arg_sets) /\ Len(arg_sets) = Len(classes)
  /\ {s[1] : s \in known} = {KeyOf(classes[k]) : k \in 1 .. Len(classes)}
  /\ \A j, k \in 1 .. Len(classes) : KeyOf(classes[j]) = KeyOf(classes[k]) => j = k
  /\ \A k \in 1 .. Len(classes) : \E n \in 1 .. Len(attempts) :
       /\ IsFirst(attempts, n, KeyOf(classes[k]))
       /\ classes[k].model \in Range(attempts[n].classes)
       /\ arg_sets[k] = ArgSet(KeyOf(classes[k]), attempts[n])

LEMMA KeptNew ==
  ASSUME NEW classes, NEW arg_sets, NEW attempts, NEW known, KeptOk(classes, arg_sets, attempts, known),
         NEW n \in 1 .. Len(attempts), NEW header, NEW class,
         NEW key, key = Identity(header, class), \A s \in known : s[1] # key,
         IsFirst(attempts, n, key), class \in Range(attempts[n].classes),
         NEW args, args = ArgSet(key, attempts[n])
  PROVE  KeptOk(Append(classes, [header |-> header, model |-> class]), Append(arg_sets, args),
                attempts, known \union {<<key, class>>})
<1>. DEFINE new == <<key, class>>
            kept == [header |-> header, model |-> class]
            L == Len(classes)
            more == Append(classes, kept)
            sets == Append(arg_sets, args)
            grown == known \union {new}
<1>1. new[1] = key /\ KeyOf(kept) = key /\ kept.model = class
  BY DEF KeyOf
<1>. HIDE DEF new, kept
<1>2. /\ IsList(more) /\ Len(more) = L + 1 /\ L \in Nat
      /\ \A k \in 1 .. L : more[k] = classes[k]
      /\ more[L + 1] = kept
  BY Grown DEF KeptOk
<1>3. /\ IsList(sets) /\ Len(sets) = L + 1
      /\ \A k \in 1 .. L : sets[k] = arg_sets[k]
      /\ sets[L + 1] = args
  BY Grown DEF KeptOk
<1>. HIDE DEF more, sets, L
<1>4. 1 .. Len(more) = (1 .. L) \union {L + 1} /\ L + 1 \notin 1 .. L
  BY <1>2
<1>5. {s[1] : s \in known} = {KeyOf(classes[k]) : k \in 1 .. L}
  BY DEF KeptOk, L
<1>6. {s[1] : s \in grown} = {KeyOf(more[k]) : k \in 1 .. Len(more)}
  <2>1. {s[1] : s \in grown} = {s[1] : s \in known} \union {key}
    BY <1>1
  <2>2. {KeyOf(more[k]) : k \in 1 .. Len(more)} = {KeyOf(classes[k]) : k \in 1 .. L} \union {key}
    BY <1>1, <1>2, <1>4
  <2>. QED
    BY <2>1, <2>2, <1>5
<1>7. ASSUME NEW k \in 1 .. L PROVE KeyOf(more[k]) # key
  <2>1. KeyOf(classes[k]) \in {s[1] : s \in known}
    BY <1>5
  <2>2. PICK s \in known : s[1] = KeyOf(classes[k])
    BY <2>1
  <2>. QED
    BY <1>2, <2>2
<1>8. \A j, k \in 1 .. Len(more) : KeyOf(more[j]) = KeyOf(more[k]) => j = k
  <2>1. \A j, k \in 1 .. L : KeyOf(more[j]) = KeyOf(more[k]) => j = k
    BY <1>2 DEF KeptOk, L
  <2>2. KeyOf(more[L + 1]) = key
    BY <1>1, <1>2
  <2>. QED
    BY <1>4, <1>7, <2>1, <2>2
<1>9. ASSUME NEW k \in 1 .. Len(more)
      PROVE  \E m \in 1 .. Len(attempts) :
               /\ IsFirst(attempts, m, KeyOf(more[k]))
               /\ more[k].model \in Range(attempts[m].classes)
               /\ sets[k] = ArgSet(KeyOf(more[k]), attempts[m])
  <2>1. CASE k = L + 1
    BY <1>1, <1>2, <1>3, <2>1
  <2>2. CASE k \in 1 .. L
    <3>1. more[k] = classes[k] /\ sets[k] = arg_sets[k]
      BY <1>2, <1>3, <2>2
    <3>2. \E m \in 1 .. Len(attempts) :
               /\ IsFirst(attempts, m, KeyOf(classes[k]))
               /\ classes[k].model \in Range(attempts[m].classes)
               /\ arg_sets[k] = ArgSet(KeyOf(classes[k]), attempts[m])
      BY <2>2 DEF KeptOk, L
    <3>. QED
      BY <3>1, <3>2
  <2>. QED
    BY <1>4, <2>1, <2>2
<1>. HIDE DEF grown
<1>10. KeptOk(more, sets, attempts, grown)
  BY <1>2, <1>3, <1>6, <1>8, <1>9 DEF KeptOk
<1>. QED
  BY <1>10 DEF more, sets, grown, new, kept

(* One that is known already *)
LEMMA KeptAgain ==
  ASSUME NEW classes, NEW arg_sets, NEW attempts, NEW known, KeptOk(classes, arg_sets, attempts, known),
         NEW old \in known, NEW class
  PROVE  KeptOk(classes, arg_sets, attempts, known \union {<<old[1], class>>})
<1>. DEFINE new == <<old[1], class>>
            grown == known \union {new}
<1>1. new[1] = old[1]
  OBVIOUS
<1>. HIDE DEF new
<1>2. {s[1] : s \in grown} = {s[1] : s \in known}
  BY <1>1
<1>. HIDE DEF grown
<1>3. KeptOk(classes, arg_sets, attempts, grown)
  BY <1>2 DEF KeptOk
<1>. QED
  BY <1>3 DEF grown, new

(* A further attempt *)
LEMMA KeptOn ==
  ASSUME NEW classes, NEW arg_sets, NEW attempts, NEW known, KeptOk(classes, arg_sets, attempts, known),
         NEW more, DOMAIN attempts = 1 .. Len(attempts), Len(attempts) \in Nat,
         Len(more) \in Nat, Len(attempts) <= Len(more), DOMAIN more = 1 .. Len(more),
         \A k \in 1 .. Len(attempts) : more[k] = attempts[k]
  PROVE  KeptOk(classes, arg_sets, more, known)
<1>1. ASSUME NEW n \in 1 .. Len(attempts), NEW key, IsFirst(attempts, n, key)
      PROVE  IsFirst(more, n, key)
  <2>1. n \in DOMAIN more /\ more[n] = attempts[n]
    BY <1>1
  <2>2. \A j \in 1 .. n - 1 : j \in 1 .. Len(attempts)
    BY <1>1
  <2>. QED
    BY <1>1, <2>1, <2>2 DEF IsFirst
<1>2. ASSUME NEW k \in 1 .. Len(classes)
      PROVE  \E n \in 1 .. Len(more) :
               /\ IsFirst(more, n, KeyOf(classes[k]))
               /\ classes[k].model \in Range(more[n].classes)
               /\ arg_sets[k] = ArgSet(KeyOf(classes[k]), more[n])
  <2>1. PICK n \in 1 .. Len(attempts) :
               /\ IsFirst(attempts, n, KeyOf(classes[k]))
               /\ classes[k].model \in Range(attempts[n].classes)
               /\ arg_sets[k] = ArgSet(KeyOf(classes[k]), attempts[n])
    BY <1>2 DEF KeptOk
  <2>2. n \in 1 .. Len(more) /\ more[n] = attempts[n]
    BY <2>1
  <2>. QED
    BY <1>1, <2>1, <2>2
<1>. QED
  BY <1>2 DEF KeptOk
-----------------------------------------------------------------------------
(* Merging *)

ResultFields ==
  {"classes", "arg_sets", "observations", "unsupported", "filtered", "attempts", "diagnostics", "real"}

Agrees(r, known) ==
  /\ DOMAIN r = ResultFields
  /\ ObservedOk(r.observations, r.diagnostics, known)
  /\ KeptOk(r.classes, r.arg_sets, r.attempts, known)

OnlyAdds(r, next) ==
  /\ next.attempts = r.attempts /\ next.real = r.real
  /\ r.diagnostics \subseteq next.diagnostics

(* The last attempt is being merged, with those before it as known. *)
Merges(attempts, header, args, classes, known) ==
  /\ Len(attempts) \in Nat \ {0} /\ DOMAIN attempts = 1 .. Len(attempts)
  /\ attempts[Len(attempts)].header = header /\ attempts[Len(attempts)].args = args
  /\ attempts[Len(attempts)].classes = classes
  /\ \A j \in 1 .. Len(attempts) - 1 : \A class \in Range(attempts[j].classes) :
       <<Identity(attempts[j].header, class), class>> \in known

LEMMA MergeStep ==
  ASSUME NEW r, NEW known, Agrees(r, known), NEW header, NEW args, NEW classes,
         Merges(r.attempts, header, args, classes, known),
         NEW class \in Range(classes),
         NEW next, next = MergeClass(r, header, args, class)
  PROVE  /\ Agrees(next, known \union {<<Identity(header, class), class>>})
         /\ OnlyAdds(r, next)
<1>. DEFINE key == ClassKey(header, class)
            kept == [header |-> header, model |-> class]
            set == [name |-> class.name, namespaces |-> class.namespaces,
                    header |-> header, args |-> args]
            noted == [k \in DOMAIN r.observations \union {key} |->
                        IF k = key THEN ClassFingerprint(class) ELSE r.observations[k]]
            new == [r EXCEPT !.observations = noted,
                             !.classes = Append(@, kept),
                             !.arg_sets = Append(@, set)]
            differs == [r EXCEPT !.diagnostics = @ \union {Conflict(key)}]
            grown == known \union {<<key, class>>}
            L == Len(r.attempts)
<1>1. /\ key = Identity(header, class)
      /\ key = <<Rooted(LinkFree(header)), class.namespaces, class.name>>
  BY DEF ClassKey, Identity
<1>2. DOMAIN r = ResultFields /\ DOMAIN r.observations = {s[1] : s \in known}
  BY DEF Agrees, ObservedOk
<1>3. CASE key \notin DOMAIN r.observations
  <2>1. next = new
    BY <1>3 DEF MergeClass
  <2>2. /\ DOMAIN noted = DOMAIN r.observations \union {key}
        /\ \A k \in DOMAIN r.observations : noted[k] = r.observations[k]
        /\ noted[key] = ClassFingerprint(class)
    BY <1>3
  <2>3. set = ArgSet(key, r.attempts[L])
    BY <1>1 DEF ArgSet, Merges
  <2>. HIDE DEF noted, kept, set
  <2>4. /\ DOMAIN new = ResultFields
        /\ new.observations = noted /\ new.classes = Append(r.classes, kept)
        /\ new.arg_sets = Append(r.arg_sets, set)
        /\ new.attempts = r.attempts /\ new.real = r.real /\ new.diagnostics = r.diagnostics
    BY <1>2 DEF ResultFields
  <2>. HIDE DEF new, key
  <2>5. ObservedOk(noted, r.diagnostics, grown)
    BY <1>3, <2>2, ObservedNew DEF Agrees
  <2>6. \A s \in known : s[1] # key
    BY <1>2, <1>3
  <2>7. IsFirst(r.attempts, L, key)
    <3>1. L \in DOMAIN r.attempts
      BY DEF Merges
    <3>2. class \in Range(r.attempts[L].classes) /\ r.attempts[L].header = header
      BY DEF Merges
    <3>. HIDE DEF L
    <3>3. Has(r.attempts[L], key)
      BY <1>1, <3>2 DEF Has
    <3>4. ASSUME NEW j \in 1 .. L - 1, Has(r.attempts[j], key) PROVE FALSE
      <4>1. PICK other \in Range(r.attempts[j].classes) : Identity(r.attempts[j].header, other) = key
        BY <3>4 DEF Has
      <4>2. <<key, other>> \in known
        BY <4>1 DEF Merges, L
      <4>. QED
        BY <2>6, <4>2
    <3>. QED
      BY <3>1, <3>3, <3>4 DEF IsFirst
  <2>8. L \in 1 .. Len(r.attempts) /\ class \in Range(r.attempts[L].classes)
    BY DEF Merges
  <2>9. KeptOk(r.classes, r.arg_sets, r.attempts, known)
    BY DEF Agrees
  <2>. HIDE DEF L
  <2>10. KeptOk(Append(r.classes, kept), Append(r.arg_sets, set), r.attempts, grown)
    BY <1>1, <2>3, <2>6, <2>7, <2>8, <2>9, KeptNew DEF kept
  <2>. QED
    BY <1>1, <2>1, <2>4, <2>5, <2>10 DEF Agrees, OnlyAdds
<1>4. CASE key \in DOMAIN r.observations
  <2>1. next = IF r.observations[key] # ClassFingerprint(class) THEN differs ELSE r
    BY <1>4 DEF MergeClass, Conflict
  <2>. DEFINE more == IF r.observations[key] # ClassFingerprint(class)
                        THEN r.diagnostics \union {Conflict(key)} ELSE r.diagnostics
  <2>. HIDE DEF key
  <2>2. /\ DOMAIN next = ResultFields
        /\ next.observations = r.observations /\ next.classes = r.classes
        /\ next.arg_sets = r.arg_sets
        /\ next.attempts = r.attempts /\ next.real = r.real /\ next.diagnostics = more
    BY <1>2, <2>1 DEF ResultFields
  <2>3. ObservedOk(r.observations, more, grown)
    BY <1>4, ObservedAgain DEF Agrees
  <2>4. PICK old \in known : old[1] = key
    BY <1>2, <1>4
  <2>5. KeptOk(r.classes, r.arg_sets, r.attempts, grown)
    BY <2>4, KeptAgain DEF Agrees
  <2>. QED
    BY <1>1, <2>2, <2>3, <2>5 DEF Agrees, OnlyAdds
<1>. QED
  BY <1>3, <1>4

IsMerging(noted, header, args, classes, m, at) ==
  at = [n \in 0 .. m |-> IF n = 0 THEN noted ELSE MergeClass(at[n - 1], header, args, classes[n])]

LEMMA MergingExists ==
  ASSUME NEW noted, NEW header, NEW args, NEW classes, NEW N \in Nat
  PROVE  \E at : IsMerging(noted, header, args, classes, N, at)
<1>. DEFINE A == {m \in 0 .. N : \E at : IsMerging(noted, header, args, classes, m, at)}
<1>1. 0 \in A
  <2>. DEFINE at == [n \in 0 .. 0 |-> noted]
  <2>1. IsMerging(noted, header, args, classes, 0, at)
    BY DEF IsMerging
  <2>. QED
    BY <2>1
<1>2. ASSUME NEW m \in A, m < N
      PROVE  m + 1 \in A
  <2>. PICK at : IsMerging(noted, header, args, classes, m, at)
    OBVIOUS
  <2>. DEFINE on == [n \in 0 .. m + 1 |->
                       IF n <= m THEN at[n] ELSE MergeClass(at[m], header, args, classes[n])]
  <2>1. ASSUME NEW n \in 0 .. m + 1
        PROVE  on[n] = IF n = 0 THEN noted ELSE MergeClass(on[n - 1], header, args, classes[n])
    <3>1. CASE n = 0
      BY <3>1 DEF IsMerging
    <3>2. CASE n \in 1 .. m
      <4>1. on[n] = at[n] /\ on[n - 1] = at[n - 1]
        BY <3>2
      <4>. QED
        BY <3>2, <4>1 DEF IsMerging
    <3>3. CASE n = m + 1
      <4>1. on[n - 1] = at[m] /\ on[n] = MergeClass(at[m], header, args, classes[n])
        BY <3>3
      <4>. QED
        BY <3>3, <4>1
    <3>. QED
      BY <3>1, <3>2, <3>3
  <2>2. IsMerging(noted, header, args, classes, m + 1, on)
    <3>. HIDE DEF on
    <3>1. on = [n \in 0 .. m + 1 |-> on[n]]
      BY DEF on
    <3>. QED
      BY <2>1, <3>1 DEF IsMerging
  <2>. QED
    BY <2>2, <1>2
<1>. HIDE DEF A
<1>3. N \in A
  BY <1>1, <1>2, Climb DEF A
<1>. QED
  BY <1>3 DEF A

SeenIn(attempts) ==
  UNION {{<<Identity(a.header, class), class>> : class \in Range(a.classes)} : a \in Range(attempts)}

LEMMA SeenGrows ==
  ASSUME NEW before, IsList(before), NEW attempt
  PROVE  SeenIn(Append(before, attempt)) =
           SeenIn(before)
             \union {<<Identity(attempt.header, class), class>> : class \in Range(attempt.classes)}
<1>1. Range(Append(before, attempt)) = Range(before) \union {attempt}
  BY Grown
<1>. QED
  BY <1>1 DEF SeenIn

LEMMA MergedOk ==
  ASSUME NEW r, NEW before, IsList(before), Agrees(r, SeenIn(before)),
         NEW attempt, r.attempts = Append(before, attempt), IsList(attempt.classes),
         NEW extraction, extraction.classes = attempt.classes,
         NEW next, next = MergeExtraction(r, attempt.header, attempt.args, extraction)
  PROVE  Agrees(next, SeenIn(r.attempts)) /\ OnlyAdds(r, next)
<1>. DEFINE header == attempt.header
            args == attempt.args
            classes == attempt.classes
            N == Len(classes)
            noted == [r EXCEPT !.filtered = @ + extraction.filtered,
                               !.unsupported = @ \union ({LinkFree(header)} \X extraction.unsupported)]
            at == CHOOSE at : IsMerging(noted, header, args, classes, N, at)
            Pair(i) == <<Identity(header, classes[i]), classes[i]>>
            Known(n) == SeenIn(before) \union {Pair(i) : i \in 1 .. n}
            A == {n \in 0 .. N : Agrees(at[n], Known(n)) /\ OnlyAdds(r, at[n])}
<1>1. N \in Nat /\ DOMAIN classes = 1 .. N
  BY DEF IsList
<1>2. IsMerging(noted, header, args, classes, N, at)
  BY <1>1, MergingExists
<1>3. next = at[N]
  BY DEF MergeExtraction, IsMerging
<1>. HIDE DEF at
<1>4. Agrees(noted, SeenIn(before)) /\ OnlyAdds(r, noted)
  BY DEF Agrees, OnlyAdds, ResultFields
<1>. HIDE DEF noted
<1>5. 0 \in A
  <2>1. at[0] = noted
    BY <1>1, <1>2 DEF IsMerging
  <2>2. Known(0) = SeenIn(before)
    OBVIOUS
  <2>3. Agrees(at[0], Known(0)) /\ OnlyAdds(r, at[0])
    BY <1>4, <2>1, <2>2
  <2>. HIDE DEF Known, N
  <2>. QED
    BY <1>1, <2>3
<1>6. ASSUME NEW n \in A, n < N
      PROVE  n + 1 \in A
  <2>1. n \in 0 .. N /\ n + 1 \in 1 .. N /\ (n + 1) - 1 = n
    BY <1>1, <1>6
  <2>2. at[n + 1] = MergeClass(at[n], header, args, classes[n + 1])
    BY <1>2, <2>1 DEF IsMerging
  <2>3. classes[n + 1] \in Range(classes)
    BY <1>1, <2>1 DEF Range
  <2>4. Agrees(at[n], Known(n)) /\ OnlyAdds(r, at[n])
    BY <1>6
  <2>5. at[n].attempts = Append(before, attempt)
    BY <2>4 DEF OnlyAdds
  <2>6. Merges(at[n].attempts, header, args, classes, Known(n))
    <3>. DEFINE all == Append(before, attempt)
    <3>1. /\ Len(before) \in Nat /\ Len(all) = Len(before) + 1 /\ DOMAIN all = 1 .. Len(before) + 1
          /\ DOMAIN before = 1 .. Len(before)
          /\ \A k \in 1 .. Len(before) : all[k] = before[k]
          /\ all[Len(before) + 1] = attempt
      BY Grown
    <3>. HIDE DEF all
    <3>2. ASSUME NEW j \in 1 .. Len(all) - 1, NEW class \in Range(all[j].classes)
          PROVE  <<Identity(all[j].header, class), class>> \in SeenIn(before)
      <4>1. all[j] = before[j] /\ before[j] \in Range(before)
        BY <3>1 DEF Range
      <4>. QED
        BY <4>1 DEF SeenIn
    <3>3. Merges(all, header, args, classes, Known(n))
      BY <3>1, <3>2 DEF Merges
    <3>. QED
      BY <2>5, <3>3 DEF all
  <2>7. /\ Agrees(at[n + 1], Known(n) \union {Pair(n + 1)})
        /\ OnlyAdds(at[n], at[n + 1])
    BY <2>2, <2>3, <2>4, <2>6, MergeStep
  <2>8. Known(n + 1) = Known(n) \union {Pair(n + 1)}
    <3>1. 1 .. n + 1 = (1 .. n) \union {n + 1}
      BY <2>1
    <3>. QED
      BY <3>1
  <2>9. OnlyAdds(r, at[n + 1])
    BY <2>4, <2>7 DEF OnlyAdds
  <2>10. n + 1 \in 0 .. N
    BY <2>1
  <2>. HIDE DEF Known, Pair, N
  <2>11. Agrees(at[n + 1], Known(n + 1))
    BY <2>7, <2>8
  <2>. QED
    BY <2>9, <2>10, <2>11
<1>. HIDE DEF A
<1>7. N \in A
  BY <1>1, <1>5, <1>6, Climb DEF A
<1>8. Known(N) = SeenIn(r.attempts)
  <2>1. Range(classes) = {classes[i] : i \in 1 .. N}
    BY <1>1 DEF Range
  <2>2. {<<Identity(header, class), class>> : class \in Range(classes)} = {Pair(i) : i \in 1 .. N}
    BY <2>1
  <2>. QED
    BY <2>2, SeenGrows
<1>. QED
  BY <1>3, <1>7, <1>8 DEF A
-----------------------------------------------------------------------------
(* The result, between two steps *)

AttemptsOk(attempts) ==
  /\ IsList(attempts)
  /\ \A a \in Range(attempts) : ExtractedOk(a.classes)

IsRead(attempts, header) == \E a \in Range(attempts) : a.header = header /\ a.success

ResultOk(r) ==
  /\ AttemptsOk(r.attempts)
  /\ Agrees(r, SeenIn(r.attempts))
  /\ \A k \in r.real : IsRead(r.attempts, headers[k])

(* Nothing is taken back. *)
Grows(r, next) ==
  /\ Range(r.attempts) \subseteq Range(next.attempts)
  /\ r.diagnostics \subseteq next.diagnostics

(* What attempts there are was there, or was made with these arguments. *)
Tries(r, next, args) == \A a \in Range(next.attempts) : a \in Range(r.attempts) \/ a.args = args

LEMMA ObservedKept ==
  ASSUME NEW observations, NEW diagnostics, NEW known, ObservedOk(observations, diagnostics, known),
         NEW extra, \A key : Conflict(key) \notin extra
  PROVE  ObservedOk(observations, diagnostics \union extra, known)
BY DEF ObservedOk

LEMMA EmptyList == IsList(<<>>) /\ Range(<<>>) = {}
BY DEF IsList, Range

LEMMA NothingIsApart == ExtractedOk(<<>>)
BY EmptyList DEF ExtractedOk, NamesApart

LEMMA AttemptKept ==
  ASSUME NEW attempts, NEW classes, NEW arg_sets, NEW known, NEW attempt,
         IsList(attempts), KeptOk(classes, arg_sets, attempts, known)
  PROVE  KeptOk(classes, arg_sets, Append(attempts, attempt), known)
<1>. DEFINE more == Append(attempts, attempt)
<1>1. /\ Len(attempts) \in Nat /\ Len(more) = Len(attempts) + 1
      /\ DOMAIN attempts = 1 .. Len(attempts) /\ DOMAIN more = 1 .. Len(attempts) + 1
      /\ \A k \in 1 .. Len(attempts) : more[k] = attempts[k]
  BY Grown
<1>. HIDE DEF more
<1>2. Len(more) \in Nat /\ Len(attempts) <= Len(more) /\ DOMAIN more = 1 .. Len(more)
  BY <1>1
<1>3. KeptOk(classes, arg_sets, more, known)
  BY <1>1, <1>2, KeptOn
<1>. QED
  BY <1>3 DEF more

(* A successful attempt and what it has found *)
LEMMA AttemptMerged ==
  ASSUME NEW r, ResultOk(r), NEW header, NEW args, NEW mode,
         NEW extraction, ExtractedOk(extraction.classes),
         NEW attempt, attempt = Attempt(header, mode, TRUE, args, extraction.classes),
         NEW noted, DOMAIN noted = ResultFields,
         noted.classes = r.classes, noted.arg_sets = r.arg_sets,
         noted.observations = r.observations, noted.diagnostics = r.diagnostics,
         noted.attempts = Append(r.attempts, attempt),
         \A k \in noted.real : k \in r.real \/ headers[k] = header,
         NEW next, next = MergeExtraction(noted, header, args, extraction)
  PROVE  ResultOk(next) /\ Grows(r, next) /\ Tries(r, next, args) /\ IsRead(next.attempts, header)
<1>1. /\ attempt.header = header /\ attempt.args = args /\ attempt.success
      /\ attempt.classes = extraction.classes
  BY DEF Attempt
<1>2. /\ IsList(r.attempts)
      /\ \A a \in Range(r.attempts) : ExtractedOk(a.classes)
  BY DEF ResultOk, AttemptsOk
<1>3. ExtractedOk(attempt.classes) /\ IsList(attempt.classes)
  BY <1>1 DEF ExtractedOk
<1>4. /\ IsList(noted.attempts)
      /\ Range(noted.attempts) = Range(r.attempts) \union {attempt}
  <2>1. /\ IsList(Append(r.attempts, attempt))
        /\ Range(Append(r.attempts, attempt)) = Range(r.attempts) \union {attempt}
    BY <1>2, Grown
  <2>. QED
    BY <2>1
<1>5. Agrees(noted, SeenIn(r.attempts))
  <2>1. KeptOk(r.classes, r.arg_sets, Append(r.attempts, attempt), SeenIn(r.attempts))
    BY <1>2, AttemptKept DEF ResultOk, Agrees
  <2>. QED
    BY <2>1 DEF ResultOk, Agrees
<1>6. Agrees(next, SeenIn(noted.attempts)) /\ OnlyAdds(noted, next)
  BY <1>1, <1>2, <1>3, <1>5, MergedOk
<1>7. next.attempts = noted.attempts /\ next.real = noted.real
  BY <1>6 DEF OnlyAdds
<1>8. AttemptsOk(next.attempts)
  BY <1>2, <1>3, <1>4, <1>7 DEF AttemptsOk
<1>9. IsRead(next.attempts, header)
  BY <1>1, <1>4, <1>7 DEF IsRead
<1>10. ASSUME NEW k \in next.real PROVE IsRead(next.attempts, headers[k])
  <2>1. CASE k \in r.real
    <3>1. IsRead(r.attempts, headers[k])
      BY <2>1 DEF ResultOk
    <3>. QED
      BY <3>1, <1>4, <1>7 DEF IsRead
  <2>2. CASE headers[k] = header
    BY <1>9, <2>2
  <2>. QED
    BY <1>7, <2>1, <2>2
<1>11. Grows(r, next)
  BY <1>4, <1>6, <1>7 DEF Grows, OnlyAdds
<1>12. Tries(r, next, args)
  BY <1>1, <1>4, <1>7 DEF Tries
<1>. QED
  BY <1>6, <1>7, <1>8, <1>9, <1>10, <1>11, <1>12 DEF ResultOk

(* Attempts that failed *)
LEMMA AttemptFailed ==
  ASSUME NEW r, ResultOk(r), NEW header, NEW args, NEW mode,
         NEW attempt, attempt = Attempt(header, mode, FALSE, args, <<>>),
         NEW next, DOMAIN next = ResultFields,
         next.classes = r.classes, next.arg_sets = r.arg_sets,
         next.observations = r.observations, next.real = r.real,
         next.attempts = Append(r.attempts, attempt),
         NEW extra, next.diagnostics = r.diagnostics \union extra,
         \A key : Conflict(key) \notin extra
  PROVE  ResultOk(next) /\ Grows(r, next) /\ Tries(r, next, args)
<1>1. attempt.classes = <<>> /\ attempt.args = args
  BY DEF Attempt
<1>2. /\ IsList(r.attempts)
      /\ \A a \in Range(r.attempts) : ExtractedOk(a.classes)
  BY DEF ResultOk, AttemptsOk
<1>3. IsList(attempt.classes) /\ Range(attempt.classes) = {}
  BY <1>1, EmptyList
<1>4. /\ IsList(next.attempts)
      /\ Range(next.attempts) = Range(r.attempts) \union {attempt}
  <2>1. /\ IsList(Append(r.attempts, attempt))
        /\ Range(Append(r.attempts, attempt)) = Range(r.attempts) \union {attempt}
    BY <1>2, Grown
  <2>. QED
    BY <2>1
<1>5. SeenIn(next.attempts) = SeenIn(r.attempts)
  <2>1. SeenIn(Append(r.attempts, attempt)) =
          SeenIn(r.attempts)
            \union {<<Identity(attempt.header, class), class>> : class \in Range(attempt.classes)}
    BY ONLY <1>2, SeenGrows
  <2>. QED
    BY <1>3, <2>1
<1>6. KeptOk(r.classes, r.arg_sets, next.attempts, SeenIn(r.attempts))
  BY <1>2, AttemptKept DEF ResultOk, Agrees
<1>7. ObservedOk(r.observations, next.diagnostics, SeenIn(r.attempts))
  <2>1. ObservedOk(r.observations, r.diagnostics, SeenIn(r.attempts))
    BY DEF ResultOk, Agrees
  <2>2. ObservedOk(r.observations, r.diagnostics \union extra, SeenIn(r.attempts))
    BY <2>1, ObservedKept
  <2>. QED
    BY <2>2
<1>8. AttemptsOk(next.attempts)
  <2>1. ExtractedOk(attempt.classes)
    BY <1>1, NothingIsApart
  <2>. QED
    BY <1>2, <1>4, <2>1 DEF AttemptsOk
<1>9. ASSUME NEW k \in next.real PROVE IsRead(next.attempts, headers[k])
  BY <1>4 DEF ResultOk, IsRead
<1>10. Tries(r, next, args)
  BY <1>1, <1>4 DEF Tries
<1>. QED
  BY <1>4, <1>5, <1>6, <1>7, <1>8, <1>9, <1>10 DEF ResultOk, Agrees, Grows

(* Only a diagnostic that is no conflict *)
LEMMA DiagnosticAdded ==
  ASSUME NEW r, ResultOk(r),
         NEW extra, \A key : Conflict(key) \notin extra
  PROVE  LET next == [r EXCEPT !.diagnostics = @ \union extra]
         IN ResultOk(next) /\ Grows(r, next)
<1>. DEFINE next == [r EXCEPT !.diagnostics = @ \union extra]
<1>1. /\ DOMAIN next = ResultFields
      /\ next.classes = r.classes /\ next.arg_sets = r.arg_sets
      /\ next.observations = r.observations /\ next.real = r.real
      /\ next.attempts = r.attempts /\ next.diagnostics = r.diagnostics \union extra
  BY DEF ResultOk, Agrees, ResultFields
<1>. HIDE DEF next
<1>2. ObservedOk(r.observations, next.diagnostics, SeenIn(r.attempts))
  BY <1>1, ObservedKept DEF ResultOk, Agrees
<1>3. ResultOk(next) /\ Grows(r, next)
  BY <1>1, <1>2 DEF ResultOk, Agrees, Grows
<1>. QED
  BY <1>3 DEF next

LEMMA GrowsOn ==
  ASSUME NEW r, NEW s, NEW t, Grows(r, s), Grows(s, t)
  PROVE  Grows(r, t)
BY DEF Grows

LEMMA HeaderMerged ==
  ASSUME NEW r, ResultOk(r), NEW k, NEW command, NEW args,
         \A h \in DOMAIN command.sees : AreDeclarations(command.sees[h])
  PROVE  LET next == MergeHeader(r, k, command, args)
         IN ResultOk(next) /\ Grows(r, next) /\ Tries(r, next, args)
<1>. DEFINE extraction == ExtractClassDefinitions(Sees(command.sees, headers[k]), Options)
            attempt == Attempt(headers[k], "RealTu", TRUE, args, extraction.classes)
            noted == [r EXCEPT !.real = @ \union {k}, !.attempts = Append(@, attempt)]
            next == MergeHeader(r, k, command, args)
            merged == MergeExtraction(noted, headers[k], args, extraction)
<1>1. ExtractedOk(extraction.classes)
  BY SeesDeclarations, ExtractionOk
<1>2. next = r \/ next = merged
  BY DEF MergeHeader
<1>. HIDE DEF extraction
<1>3. /\ DOMAIN noted = ResultFields
      /\ noted.classes = r.classes /\ noted.arg_sets = r.arg_sets
      /\ noted.observations = r.observations /\ noted.diagnostics = r.diagnostics
      /\ noted.attempts = Append(r.attempts, attempt)
      /\ noted.real = r.real \union {k}
  BY DEF ResultOk, Agrees, ResultFields
<1>. HIDE DEF noted, attempt
<1>4. \A j \in noted.real : j \in r.real \/ headers[j] = headers[k]
  BY <1>3
<1>5. ResultOk(merged) /\ Grows(r, merged) /\ Tries(r, merged, args)
  BY <1>1, <1>3, <1>4, AttemptMerged DEF attempt
<1>6. Grows(r, r) /\ Tries(r, r, args)
  BY DEF Grows, Tries
<1>. HIDE DEF next, merged
<1>7. ResultOk(next) /\ Grows(r, next) /\ Tries(r, next, args)
  BY <1>2, <1>5, <1>6
<1>. QED
  BY <1>7 DEF next

IsReading(first, command, args, m, at) ==
  at = [n \in 0 .. m |-> IF n = 0 THEN first ELSE MergeHeader(at[n - 1], n, command, args)]

LEMMA ReadingExists ==
  ASSUME NEW first, NEW command, NEW args, NEW N \in Nat
  PROVE  \E at : IsReading(first, command, args, N, at)
<1>. DEFINE A == {m \in 0 .. N : \E at : IsReading(first, command, args, m, at)}
<1>1. 0 \in A
  <2>. DEFINE at == [n \in 0 .. 0 |-> first]
  <2>1. IsReading(first, command, args, 0, at)
    BY DEF IsReading
  <2>. QED
    BY <2>1
<1>2. ASSUME NEW m \in A, m < N
      PROVE  m + 1 \in A
  <2>. PICK at : IsReading(first, command, args, m, at)
    OBVIOUS
  <2>. DEFINE on == [n \in 0 .. m + 1 |->
                       IF n <= m THEN at[n] ELSE MergeHeader(at[m], n, command, args)]
  <2>1. ASSUME NEW n \in 0 .. m + 1
        PROVE  on[n] = IF n = 0 THEN first ELSE MergeHeader(on[n - 1], n, command, args)
    <3>1. CASE n = 0
      BY <3>1 DEF IsReading
    <3>2. CASE n \in 1 .. m
      <4>1. on[n] = at[n] /\ on[n - 1] = at[n - 1]
        BY <3>2
      <4>. QED
        BY <3>2, <4>1 DEF IsReading
    <3>3. CASE n = m + 1
      <4>1. on[n - 1] = at[m] /\ on[n] = MergeHeader(at[m], n, command, args)
        BY <3>3
      <4>. QED
        BY <3>3, <4>1
    <3>. QED
      BY <3>1, <3>2, <3>3
  <2>2. IsReading(first, command, args, m + 1, on)
    <3>. HIDE DEF on
    <3>1. on = [n \in 0 .. m + 1 |-> on[n]]
      BY DEF on
    <3>. QED
      BY <2>1, <3>1 DEF IsReading
  <2>. QED
    BY <2>2, <1>2
<1>. HIDE DEF A
<1>3. N \in A
  BY <1>1, <1>2, Climb DEF A
<1>. QED
  BY <1>3 DEF A

LEMMA UnitRead ==
  ASSUME NEW first, ResultOk(first), NEW command, NEW args, Len(headers) \in Nat,
         \A h \in DOMAIN command.sees : AreDeclarations(command.sees[h]),
         NEW at, IsReading(first, command, args, Len(headers), at)
  PROVE  LET next == at[Len(headers)]
         IN ResultOk(next) /\ Grows(first, next) /\ Tries(first, next, args)
<1>. DEFINE N == Len(headers)
            A == {n \in 0 .. N : ResultOk(at[n]) /\ Grows(first, at[n]) /\ Tries(first, at[n], args)}
<1>1. 0 \in A
  <2>1. at[0] = first
    BY DEF IsReading
  <2>2. Grows(first, first) /\ Tries(first, first, args)
    BY DEF Grows, Tries
  <2>. QED
    BY <2>1, <2>2
<1>2. ASSUME NEW n \in A, n < N
      PROVE  n + 1 \in A
  <2>1. n + 1 \in 0 .. N /\ n + 1 # 0 /\ (n + 1) - 1 = n
    BY <1>2
  <2>2. at[n + 1] = MergeHeader(at[n], n + 1, command, args)
    BY <2>1 DEF IsReading
  <2>3. ResultOk(at[n]) /\ Grows(first, at[n]) /\ Tries(first, at[n], args)
    BY <1>2
  <2>4. ResultOk(at[n + 1]) /\ Grows(at[n], at[n + 1]) /\ Tries(at[n], at[n + 1], args)
    BY <2>2, <2>3, HeaderMerged
  <2>5. Grows(first, at[n + 1]) /\ Tries(first, at[n + 1], args)
    BY <2>3, <2>4, GrowsOn DEF Tries
  <2>. QED
    BY <2>1, <2>4, <2>5
<1>. HIDE DEF A
<1>3. N \in A
  BY <1>1, <1>2, Climb DEF A
<1>. QED
  BY <1>3 DEF A

LEMMA AttemptsFailed ==
  ASSUME NEW r, ResultOk(r), NEW failed, IsList(failed),
         \A a \in Range(failed) : a.classes = <<>>,
         NEW next, DOMAIN next = ResultFields,
         next.classes = r.classes, next.arg_sets = r.arg_sets,
         next.observations = r.observations, next.real = r.real,
         next.attempts = r.attempts \o failed,
         NEW extra, next.diagnostics = r.diagnostics \union extra,
         \A key : Conflict(key) \notin extra
  PROVE  /\ ResultOk(next) /\ Grows(r, next)
         /\ Range(next.attempts) = Range(r.attempts) \union Range(failed)
<1>. DEFINE all == r.attempts \o failed
<1>1. /\ IsList(r.attempts)
      /\ \A a \in Range(r.attempts) : ExtractedOk(a.classes)
  BY DEF ResultOk, AttemptsOk
<1>2. \A a \in Range(failed) : IsList(a.classes) /\ Range(a.classes) = {}
  BY EmptyList
<1>3. /\ IsList(all) /\ Range(all) = Range(r.attempts) \union Range(failed)
      /\ Len(r.attempts) \in Nat /\ Len(all) \in Nat /\ Len(r.attempts) <= Len(all)
      /\ DOMAIN r.attempts = 1 .. Len(r.attempts) /\ DOMAIN all = 1 .. Len(all)
      /\ \A k \in 1 .. Len(r.attempts) : all[k] = r.attempts[k]
  BY ONLY <1>1, Together, IsList(failed)
<1>. HIDE DEF all
<1>4. next.attempts = all
  BY DEF all
<1>5. SeenIn(all) = SeenIn(r.attempts)
  <2>. DEFINE Seen(a) == {<<Identity(a.header, class), class>> : class \in Range(a.classes)}
  <2>1. \A a \in Range(failed) : Seen(a) = {}
    BY <1>2
  <2>. HIDE DEF Seen
  <2>2. UNION {Seen(a) : a \in Range(all)} = UNION {Seen(a) : a \in Range(r.attempts)}
    BY <1>3, <2>1
  <2>. QED
    BY <2>2 DEF Seen, SeenIn
<1>6. KeptOk(r.classes, r.arg_sets, all, SeenIn(r.attempts))
  <2>1. KeptOk(r.classes, r.arg_sets, r.attempts, SeenIn(r.attempts))
    BY DEF ResultOk, Agrees
  <2>. QED
    BY ONLY <1>3, <2>1, KeptOn
<1>7. ObservedOk(r.observations, next.diagnostics, SeenIn(r.attempts))
  <2>1. ObservedOk(r.observations, r.diagnostics, SeenIn(r.attempts))
    BY DEF ResultOk, Agrees
  <2>2. ObservedOk(r.observations, r.diagnostics \union extra, SeenIn(r.attempts))
    BY <2>1, ObservedKept
  <2>. QED
    BY <2>2
<1>8. AttemptsOk(all)
  <2>1. \A a \in Range(failed) : ExtractedOk(a.classes)
    BY NothingIsApart
  <2>. QED
    BY <1>1, <1>3, <2>1 DEF AttemptsOk
<1>9. ASSUME NEW k \in next.real PROVE IsRead(all, headers[k])
  BY <1>3 DEF ResultOk, IsRead
<1>. QED
  BY <1>3, <1>4, <1>5, <1>6, <1>7, <1>8, <1>9 DEF ResultOk, Agrees, Grows
-----------------------------------------------------------------------------
(* The steps of the resolver *)

ReadFailure(header) == <<"Error", "SyntheticTuParseFailure", Rooted(header)>>

ReadBy(r, header) == IsRead(r.attempts, header) \/ ReadFailure(header) \in r.diagnostics

CommandsOk(given) ==
  /\ Len(given) \in Nat
  /\ \A k \in 1 .. Len(given) : given[k] \in Range(sources.commands)

ResolverInv ==
  /\ AreSources(sources)
  /\ resolve \in {"no", "commands", "headers", "done"}
  /\ unit \in Nat \ {0}
  /\ CommandsOk(commands)
  /\ resolve = "no" => result = NoResult
  /\ ResultOk(result)
  /\ resolve = "headers" => \A k \in 1 .. Len(headers) : k < unit => ReadBy(result, headers[k])
  /\ resolve = "done" => \A k \in 1 .. Len(headers) : ReadBy(result, headers[k])
  /\ stage \in {"options", "scan"} => resolve = "no"

LEMMA ReadOn ==
  ASSUME NEW r, NEW next, Grows(r, next), NEW header, ReadBy(r, header)
  PROVE  ReadBy(next, header)
BY DEF ReadBy, Grows, IsRead

LEMMA SameResult ==
  ASSUME UNCHANGED <<tree, headers>>
  PROVE  ResultOk(result)' <=> ResultOk(result')
<1>1. \A h, class : Identity(h, class)' = Identity(h, class)
  BY DEF Identity, LinkFree
<1>2. SeenIn(result.attempts)' = SeenIn(result'.attempts)
  BY <1>1 DEF SeenIn
<1>3. \A attempts, n, key : IsFirst(attempts, n, key)' <=> IsFirst(attempts, n, key)
  <2>1. \A attempt, key : Has(attempt, key)' <=> Has(attempt, key)
    BY <1>1 DEF Has
  <2>. QED
    BY <2>1 DEF IsFirst
<1>4. \A class : KeyOf(class)' = KeyOf(class)
  BY <1>1 DEF KeyOf
<1>5. \A known : KeptOk(result.classes, result.arg_sets, result.attempts, known)'
                   <=> KeptOk(result'.classes, result'.arg_sets, result'.attempts, known)
  <2>1. \A key, attempt : ArgSet(key, attempt)' = ArgSet(key, attempt)
    BY DEF ArgSet
  <2>2. \A list : IsList(list)' <=> IsList(list)
    BY DEF IsList
  <2>. SUFFICES ASSUME NEW known
                PROVE  KeptOk(result.classes, result.arg_sets, result.attempts, known)'
                         <=> KeptOk(result'.classes, result'.arg_sets, result'.attempts, known)
    OBVIOUS
  <2>. DEFINE keys == {s[1] : s \in known}
              places == 1 .. Len(result.classes)
              From(k, n) == /\ IsFirst(result.attempts, n, KeyOf(result.classes[k]))
                            /\ result.classes[k].model \in Range(result.attempts[n].classes)
                            /\ result.arg_sets[k] = ArgSet(KeyOf(result.classes[k]), result.attempts[n])
              FromNext(k, n) ==
                /\ IsFirst(result'.attempts, n, KeyOf(result'.classes[k]))
                /\ result'.classes[k].model \in Range(result'.attempts[n].classes)
                /\ result'.arg_sets[k] = ArgSet(KeyOf(result'.classes[k]), result'.attempts[n])
  <2>3. \A k, n : From(k, n)' <=> FromNext(k, n)
    BY <1>3, <1>4, <2>1
  <2>4. (keys = {KeyOf(result.classes[k]) : k \in places})'
          <=> keys = {KeyOf(result'.classes[k]) : k \in 1 .. Len(result'.classes)}
    BY <1>4
  <2>5. (\A j, k \in places : KeyOf(result.classes[j]) = KeyOf(result.classes[k]) => j = k)'
          <=> \A j, k \in 1 .. Len(result'.classes) :
                KeyOf(result'.classes[j]) = KeyOf(result'.classes[k]) => j = k
    BY <1>4
  <2>6. (\A k \in places : \E n \in 1 .. Len(result.attempts) : From(k, n))'
          <=> \A k \in 1 .. Len(result'.classes) :
                \E n \in 1 .. Len(result'.attempts) : FromNext(k, n)
    <3>. HIDE DEF From, FromNext
    <3>. QED
      BY <2>3
  <2>. QED
    BY <2>2, <2>4, <2>5, <2>6 DEF KeptOk
<1>. QED
  BY <1>2, <1>5 DEF ResultOk, Agrees

LEMMA NoConflict ==
  ASSUME NEW set, \A d \in set : d[2] # "CompileConfigConflict", NEW key
  PROVE  Conflict(key) \notin set
BY DEF Conflict

LEMMA PathsNoConflict ==
  ASSUME NEW command, NEW d \in AddCompileCommandPathDiagnostics(command)
  PROVE  d[2] # "CompileConfigConflict"
BY DEF AddCompileCommandPathDiagnostics

LEMMA PreflightedOk ==
  ASSUME ResultOk(result)
  PROVE  /\ ResultOk(Preflighted(result)) /\ Grows(result, Preflighted(result))
         /\ Preflighted(result).attempts = result.attempts
         /\ AddCompileCommandPathDiagnostics(commands[unit]) \subseteq Preflighted(result).diagnostics
<1>. DEFINE extra == AddCompileCommandPathDiagnostics(commands[unit])
<1>1. \A key : Conflict(key) \notin extra
  BY NoConflict, PathsNoConflict
<1>2. Preflighted(result) = [result EXCEPT !.diagnostics = @ \union extra]
  BY DEF Preflighted
<1>. HIDE DEF extra
<1>3. /\ Preflighted(result).attempts = result.attempts
      /\ extra \subseteq Preflighted(result).diagnostics
  BY <1>2 DEF ResultOk, Agrees, ResultFields
<1>. QED
  BY <1>1, <1>2, <1>3, DiagnosticAdded DEF extra

LEMMA UnitFails ==
  ASSUME ResolverInv, FrontInv, RealTuFails
  PROVE  /\ ResultOk(result') /\ Grows(result, result')
         /\ Tries(result, result', CompileArgs(commands[unit]))
         /\ AddCompileCommandPathDiagnostics(commands[unit]) \subseteq result'.diagnostics
<1>. DEFINE r == Preflighted(result)
            args == CompileArgs(commands[unit])
            missing == AddCompileCommandPathDiagnostics(commands[unit])
            source == SourcePath(commands[unit])
            code == IF IsRegularFile(tree, source) THEN "RealTuParseFailure"
                    ELSE "TranslationUnitReadFailure"
            failed == [k \in DOMAIN headers |->
                         Attempt(headers[k], "RealTu", FALSE, args, <<>>)]
            extra == {<<"Warning", code, Rooted(source)>>}
<1>1. ResultOk(r) /\ Grows(result, r) /\ r.attempts = result.attempts /\ missing \subseteq r.diagnostics
  BY PreflightedOk DEF ResolverInv
<1>2. result' = [r EXCEPT !.attempts = @ \o failed, !.diagnostics = @ \union extra]
  BY DEF RealTuFails
<1>. HIDE DEF r, args, missing
<1>3. IsList(failed) /\ \A a \in Range(failed) : a.classes = <<>> /\ a.args = args
  <2>1. Len(headers) \in Nat /\ DOMAIN headers = 1 .. Len(headers)
    BY DEF FrontInv, ScanInv, HeadersOk
  <2>2. failed \in Seq(Range(failed))
    <3>1. failed = [k \in 1 .. Len(headers) |-> failed[k]]
      BY <2>1
    <3>. HIDE DEF failed
    <3>2. failed \in [1 .. Len(headers) -> Range(failed)]
      BY <3>1 DEF Range
    <3>. QED
      BY <2>1, <3>2
  <2>3. \A a \in Range(failed) : a.classes = <<>> /\ a.args = args
    BY DEF Range, Attempt
  <2>. QED
    BY <2>2, <2>3 DEF IsList
<1>4. code # "CompileConfigConflict"
  OBVIOUS
<1>. HIDE DEF code, failed
<1>5. \A key : Conflict(key) \notin extra
  <2>1. \A d \in extra : d[2] = code
    OBVIOUS
  <2>. HIDE DEF extra
  <2>. QED
    BY <1>4, <2>1, NoConflict
<1>. HIDE DEF extra
<1>6. DOMAIN r = ResultFields
  BY <1>1 DEF ResultOk, Agrees
<1>7. /\ DOMAIN result' = ResultFields
      /\ result'.classes = r.classes /\ result'.arg_sets = r.arg_sets
      /\ result'.observations = r.observations /\ result'.real = r.real
      /\ result'.attempts = r.attempts \o failed
      /\ result'.diagnostics = r.diagnostics \union extra
  BY <1>2, <1>6 DEF ResultFields
<1>8. /\ ResultOk(result') /\ Grows(r, result')
      /\ Range(result'.attempts) = Range(r.attempts) \union Range(failed)
  BY ONLY <1>1, <1>3, <1>5, <1>7, AttemptsFailed
<1>9. Tries(result, result', args)
  BY <1>1, <1>3, <1>8 DEF Tries
<1>10. missing \subseteq result'.diagnostics
  BY <1>1, <1>8 DEF Grows
<1>. QED
  BY <1>1, <1>8, <1>9, <1>10, GrowsOn DEF args, missing

LEMMA UnitParsed ==
  ASSUME ResolverInv, FrontInv, RealTuParsed
  PROVE  /\ ResultOk(result') /\ Grows(result, result')
         /\ Tries(result, result', CompileArgs(commands[unit]))
         /\ AddCompileCommandPathDiagnostics(commands[unit]) \subseteq result'.diagnostics
<1>. DEFINE r == Preflighted(result)
            command == commands[unit]
            args == CompileArgs(command)
            missing == AddCompileCommandPathDiagnostics(command)
            at == CHOOSE at : IsReading(r, command, args, Len(headers), at)
<1>1. ResultOk(r) /\ Grows(result, r) /\ r.attempts = result.attempts /\ missing \subseteq r.diagnostics
  BY PreflightedOk DEF ResolverInv
<1>2. Len(headers) \in Nat
  BY DEF FrontInv, ScanInv, HeadersOk
<1>3. IsReading(r, command, args, Len(headers), at)
  BY <1>2, ReadingExists
<1>4. result' = at[Len(headers)]
  BY DEF RealTuParsed, IsReading
<1>5. \A h \in DOMAIN command.sees : AreDeclarations(command.sees[h])
  <2>1. command \in Range(sources.commands)
    BY DEF RealTuParsed, AtCommand, ResolverInv, CommandsOk
  <2>. QED
    BY <2>1 DEF ResolverInv, AreSources
<1>. HIDE DEF at, r, command, args, missing
<1>6. ResultOk(result') /\ Grows(r, result') /\ Tries(r, result', args)
  BY <1>1, <1>2, <1>3, <1>4, <1>5, UnitRead
<1>7. Tries(result, result', args)
  BY <1>1, <1>6 DEF Tries
<1>8. missing \subseteq result'.diagnostics
  BY <1>1, <1>6 DEF Grows
<1>. QED
  BY <1>1, <1>6, <1>7, <1>8, GrowsOn DEF args, missing, command

LEMMA HeaderFails ==
  ASSUME ResolverInv, FrontInv, SyntheticTuFails
  PROVE  /\ ResultOk(result') /\ Grows(result, result')
         /\ Tries(result, result', NearestCompileArgs(headers[unit]))
         /\ ReadBy(result', headers[unit])
<1>. DEFINE header == headers[unit]
            args == NearestCompileArgs(header)
            attempt == Attempt(header, "SyntheticTu", FALSE, args, <<>>)
            extra == {ReadFailure(header)}
<1>1. ResultOk(result) /\ DOMAIN result = ResultFields
  BY DEF ResolverInv, ResultOk, Agrees
<1>2. result' = [result EXCEPT !.attempts = Append(@, attempt), !.diagnostics = @ \union extra]
  BY DEF SyntheticTuFails, ReadFailure
<1>3. \A key : Conflict(key) \notin extra
  <2>1. \A d \in extra : d[2] = "SyntheticTuParseFailure"
    BY DEF ReadFailure
  <2>. HIDE DEF extra
  <2>. QED
    BY <2>1, NoConflict
<1>. HIDE DEF attempt, args
<1>4. /\ DOMAIN result' = ResultFields
      /\ result'.classes = result.classes /\ result'.arg_sets = result.arg_sets
      /\ result'.observations = result.observations /\ result'.real = result.real
      /\ result'.attempts = Append(result.attempts, attempt)
      /\ result'.diagnostics = result.diagnostics \union extra
  BY <1>1, <1>2 DEF ResultFields
<1>5. attempt = Attempt(header, "SyntheticTu", FALSE, args, <<>>)
  BY DEF attempt
<1>6. ReadBy(result', header)
  BY <1>4 DEF ReadBy
<1>. HIDE DEF extra, header
<1>7. ResultOk(result') /\ Grows(result, result') /\ Tries(result, result', args)
  BY ONLY <1>1, <1>3, <1>4, <1>5, AttemptFailed
<1>. QED
  BY <1>6, <1>7 DEF header, args

LEMMA HeaderParsed ==
  ASSUME ResolverInv, FrontInv, SyntheticTuParsed
  PROVE  /\ ResultOk(result') /\ Grows(result, result')
         /\ Tries(result, result', NearestCompileArgs(headers[unit]))
         /\ ReadBy(result', headers[unit])
<1>. DEFINE header == headers[unit]
            args == NearestCompileArgs(header)
            extraction == ExtractClassDefinitions(Sees(sources.synthetic, header), Options)
            attempt == Attempt(header, "SyntheticTu", TRUE, args, extraction.classes)
            noted == [result EXCEPT !.attempts = Append(@, attempt)]
<1>1. ResultOk(result) /\ DOMAIN result = ResultFields
  BY DEF ResolverInv, ResultOk, Agrees
<1>2. result' = MergeExtraction(noted, header, args, extraction)
  BY DEF SyntheticTuParsed
<1>3. ExtractedOk(extraction.classes)
  BY SeesDeclarations, ExtractionOk DEF ResolverInv, AreSources
<1>. HIDE DEF extraction, args, header
<1>4. attempt = Attempt(header, "SyntheticTu", TRUE, args, extraction.classes)
  OBVIOUS
<1>. HIDE DEF attempt
<1>5. /\ DOMAIN noted = ResultFields
      /\ noted.classes = result.classes /\ noted.arg_sets = result.arg_sets
      /\ noted.observations = result.observations /\ noted.diagnostics = result.diagnostics
      /\ noted.attempts = Append(result.attempts, attempt)
      /\ noted.real = result.real
  BY <1>1 DEF ResultFields
<1>. HIDE DEF noted
<1>6. /\ ResultOk(result') /\ Grows(result, result') /\ Tries(result, result', args)
      /\ IsRead(result'.attempts, header)
  BY <1>1, <1>2, <1>3, <1>4, <1>5, AttemptMerged
<1>. QED
  BY <1>6 DEF ReadBy, header, args

LEMMA NothingYetResolved == ResultOk(NoResult)
<1>1. IsList(<<>>) /\ Range(<<>>) = {} /\ Len(<<>>) = 0 /\ DOMAIN <<>> = {}
  BY EmptyList
<1>2. SeenIn(<<>>) = {}
  BY <1>1 DEF SeenIn
<1>3. ObservedOk(<<>>, {}, {})
  BY <1>1 DEF ObservedOk
<1>4. KeptOk(<<>>, <<>>, <<>>, {})
  BY <1>1 DEF KeptOk
<1>5. AttemptsOk(<<>>)
  BY <1>1 DEF AttemptsOk
<1>6. /\ DOMAIN NoResult = ResultFields
      /\ NoResult.classes = <<>> /\ NoResult.arg_sets = <<>> /\ NoResult.observations = <<>>
      /\ NoResult.attempts = <<>> /\ NoResult.diagnostics = {} /\ NoResult.real = {}
  BY DEF NoResult, ResultFields
<1>. QED
  BY <1>2, <1>3, <1>4, <1>5, <1>6 DEF ResultOk, Agrees

LEMMA CommandsLoaded ==
  ASSUME ResolverInv, LoadCompileCommands, UNCHANGED sources
  PROVE  /\ ResultOk(result') /\ CommandsOk(commands)'
         /\ unit' = 1 /\ resolve' = "commands"
<1>1. result = NoResult
  BY DEF ResolverInv, LoadCompileCommands
<1>2. ResultOk(result')
  <2>. DEFINE extra == CASE sources.database = "none" -> {<<"Warning", "CompileDatabaseNotFound", <<>>>>}
                         [] sources.database = "broken" ->
                              {<<"Warning", "CompileDatabaseLoadFailure", <<>>>>}
                         [] OTHER -> {}
  <2>1. result' = [result EXCEPT !.diagnostics = extra]
    BY DEF LoadCompileCommands
  <2>2. \A d \in extra : d[2] # "CompileConfigConflict"
    OBVIOUS
  <2>. HIDE DEF extra
  <2>3. \A key : Conflict(key) \notin extra
    BY <2>2, NoConflict
  <2>4. result' = [result EXCEPT !.diagnostics = @ \union extra]
    <3>1. result.diagnostics \union extra = extra
      BY <1>1 DEF NoResult
    <3>. QED
      BY <2>1, <3>1
  <2>5. ResultOk(result)
    BY DEF ResolverInv
  <2>. QED
    BY <2>3, <2>4, <2>5, DiagnosticAdded
<1>3. CommandsOk(commands)'
  <2>1. CASE commands' = <<>>
    BY <2>1 DEF CommandsOk
  <2>2. CASE commands' # <<>>
    <3>. DEFINE given == sources.commands
    <3>1. Len(given) \in Nat /\ DOMAIN given = 1 .. Len(given)
      BY DEF ResolverInv, AreSources
    <3>2. PICK order : SortsCommands(order)
                       /\ commands' = [k \in DOMAIN given |-> given[order[k]]]
      BY <2>2 DEF LoadCompileCommands
    <3>3. order \in [DOMAIN given -> DOMAIN given]
      BY <3>2 DEF SortsCommands, IsPermutation
    <3>4. \A k \in 1 .. Len(given) : commands'[k] \in Range(given)
      BY <3>1, <3>2, <3>3 DEF Range
    <3>5. Len(commands') = Len(given)
      BY <3>1, <3>2, <3>3
    <3>. QED
      BY <3>1, <3>4, <3>5 DEF CommandsOk
  <2>. QED
    BY <2>1, <2>2
<1>. QED
  BY <1>2, <1>3 DEF LoadCompileCommands

LEMMA ResolverBegins == Init => ResolverInv
<1>. SUFFICES ASSUME Init PROVE ResolverInv
  OBVIOUS
<1>1. AreSources(sources)
  BY SourcesGiven DEF Init
<1>2. resolve = "no" /\ commands = <<>> /\ unit = 1 /\ result = NoResult
  BY DEF Init, ResolverInit
<1>3. CommandsOk(commands)
  BY <1>2 DEF CommandsOk
<1>. QED
  BY <1>1, <1>2, <1>3, NothingYetResolved DEF ResolverInv

(* Any step that leaves the resolver alone *)
LEMMA ResolverKept ==
  ASSUME ResolverInv, FrontInv, UNCHANGED <<tree, sources, resolverVars>>,
         headers' = headers \/ resolve = "no",
         stage' \in {"options", "scan"} => stage \in {"options", "scan"}
  PROVE  ResolverInv'
<1>1. UNCHANGED <<resolve, commands, unit, result>>
  BY DEF resolverVars
<1>2. AreSources(sources)' /\ CommandsOk(commands)'
  BY <1>1 DEF ResolverInv, AreSources, CommandsOk
<1>3. CASE resolve = "no"
  <2>1. ResultOk(result)'
    <3>1. IsList(<<>>) /\ Range(<<>>) = {} /\ Len(<<>>) = 0 /\ DOMAIN <<>> = {}
      BY EmptyList
    <3>2. SeenIn(<<>>)' = {}
      BY <3>1 DEF SeenIn
    <3>3. ObservedOk(<<>>, {}, {})
      BY <3>1 DEF ObservedOk
    <3>4. KeptOk(<<>>, <<>>, <<>>, {})'
      BY <3>1 DEF KeptOk
    <3>5. AttemptsOk(<<>>)
      BY <3>1 DEF AttemptsOk
    <3>6. result' = NoResult
      BY <1>1, <1>3 DEF ResolverInv
    <3>7. /\ DOMAIN result' = ResultFields
          /\ result'.classes = <<>> /\ result'.arg_sets = <<>> /\ result'.observations = <<>>
          /\ result'.attempts = <<>> /\ result'.diagnostics = {} /\ result'.real = {}
      BY <3>6 DEF NoResult, ResultFields
    <3>. QED
      BY <3>2, <3>3, <3>4, <3>5, <3>7 DEF ResultOk, Agrees
  <2>. QED
    BY <1>1, <1>2, <1>3, <2>1 DEF ResolverInv
<1>4. CASE headers' = headers
  <2>1. ResultOk(result')
    BY <1>1 DEF ResolverInv
  <2>2. ResultOk(result)'
    BY <1>4, <2>1, SameResult
  <2>3. \A h : ReadBy(result, h)' <=> ReadBy(result, h)
    BY <1>1 DEF ReadBy, IsRead, ReadFailure
  <2>. QED
    BY <1>1, <1>2, <1>4, <2>2, <2>3 DEF ResolverInv
<1>. QED
  BY <1>3, <1>4

LEMMA ResolverMoves ==
  ASSUME ResolverInv, FrontInv, ResolveClasses
  PROVE  ResolverInv'
<1>1. UNCHANGED <<stage, tree, config, headers, sources>> /\ stage = "resolve"
  BY DEF ResolveClasses, ResolveCompilation, configVars, scanVars
<1>2. AreSources(sources)'
  BY <1>1 DEF ResolverInv, AreSources
<1>3. \A r, h : ReadBy(r, h)' <=> ReadBy(r, h)
  BY DEF ReadBy, IsRead, ReadFailure
<1>4. commands' = commands => CommandsOk(commands)'
  BY <1>1 DEF ResolverInv, CommandsOk
<1>5. ResultOk(result') => ResultOk(result)'
  BY <1>1, SameResult
<1>6. unit \in Nat \ {0} /\ Len(headers) \in Nat
  BY DEF ResolverInv, FrontInv, ScanInv, HeadersOk
<1>7. CASE LoadCompileCommands
  <2>1. ResultOk(result') /\ CommandsOk(commands)' /\ unit' = 1 /\ resolve' = "commands"
    BY <1>1, <1>7, CommandsLoaded
  <2>. QED
    BY <1>1, <1>2, <1>5, <2>1 DEF ResolverInv
<1>8. CASE RealTuFails \/ RealTuParsed
  <2>1. ResultOk(result')
    BY <1>8, UnitFails, UnitParsed
  <2>2. commands' = commands /\ unit' = unit + 1 /\ resolve' = "commands"
    BY <1>8 DEF RealTuFails, RealTuParsed, AtCommand
  <2>. QED
    BY <1>1, <1>2, <1>4, <1>5, <1>6, <2>1, <2>2 DEF ResolverInv
<1>9. CASE FinishCommands
  <2>1. /\ commands' = commands /\ result' = result /\ unit' = 1 /\ resolve' = "headers"
    BY <1>9 DEF FinishCommands
  <2>2. \A k \in 1 .. Len(headers) : ~(k < unit')
    BY <1>6, <2>1
  <2>. QED
    BY <1>1, <1>2, <1>4, <1>5, <2>1, <2>2 DEF ResolverInv
<1>10. CASE SkipParsedHeader \/ SyntheticTuFails \/ SyntheticTuParsed
  <2>1. /\ ResultOk(result') /\ Grows(result, result')
        /\ ReadBy(result', headers[unit])
    <3>1. CASE SkipParsedHeader
      <4>1. result' = result /\ unit \in result.real
        BY <3>1 DEF SkipParsedHeader
      <4>2. IsRead(result.attempts, headers[unit])
        BY <4>1 DEF ResolverInv, ResultOk
      <4>. QED
        BY <4>1, <4>2 DEF ResolverInv, ReadBy, Grows
    <3>. QED
      BY <1>10, <3>1, HeaderFails, HeaderParsed
  <2>2. commands' = commands /\ unit' = unit + 1 /\ resolve' = "headers" /\ resolve = "headers"
    BY <1>10 DEF SkipParsedHeader, SyntheticTuFails, SyntheticTuParsed, AtHeader
  <2>3. ASSUME NEW k \in 1 .. Len(headers), k < unit'
        PROVE  ReadBy(result', headers[k])
    <3>1. k = unit \/ k < unit
      BY <1>6, <2>2, <2>3
    <3>2. CASE k < unit
      <4>1. ReadBy(result, headers[k])
        BY <2>2, <3>2 DEF ResolverInv
      <4>. QED
        BY <2>1, <4>1, ReadOn
    <3>. QED
      BY <2>1, <3>1, <3>2
  <2>4. \A k \in 1 .. Len(headers') : k < unit' => ReadBy(result, headers[k])'
    BY <1>1, <2>3 DEF ReadBy, IsRead, ReadFailure
  <2>. QED
    BY <1>1, <1>2, <1>4, <1>5, <1>6, <2>1, <2>2, <2>4 DEF ResolverInv
<1>11. CASE FinishResolve
  <2>1. /\ UNCHANGED <<commands, unit, result>> /\ resolve' = "done"
        /\ resolve = "headers" /\ unit > Len(headers)
    BY <1>11 DEF FinishResolve
  <2>2. \A k \in 1 .. Len(headers) : ReadBy(result, headers[k])
    BY <1>6, <2>1 DEF ResolverInv
  <2>3. \A k \in 1 .. Len(headers') : ReadBy(result, headers[k])'
    BY <1>1, <2>1, <2>2 DEF ReadBy, IsRead, ReadFailure
  <2>. QED
    BY <1>1, <1>2, <1>4, <1>5, <2>1, <2>3 DEF ResolverInv
<1>. QED
  BY <1>7, <1>8, <1>9, <1>10, <1>11 DEF ResolveClasses, ResolveCompilation

LEMMA ResolverStep ==
  ASSUME ResolverInv, FrontInv, [Next]_vars
  PROVE  ResolverInv'
<1>1. CASE ResolveClasses
  BY <1>1, ResolverMoves
<1>2. CASE ~ResolveClasses
  <2>1. /\ UNCHANGED <<tree, sources, resolverVars>>
        /\ stage' \in {"options", "scan"} => stage \in {"options", "scan"}
    BY <1>2 DEF Next, vars, ReadOptions, ExitAfterOptions, BeginScan, SearchHeaders,
                ExitAfterScan, BeginResolve, EndResolve, Terminated, ParseConfig, ScanHeaders
  <2>2. headers' = headers \/ stage = "scan"
    BY <1>2 DEF Next, vars, ReadOptions, ExitAfterOptions, BeginScan, SearchHeaders,
                ExitAfterScan, BeginResolve, EndResolve, Terminated, scanVars
  <2>3. headers' = headers \/ resolve = "no"
    BY <2>2 DEF ResolverInv
  <2>. QED
    BY <2>1, <2>3, ResolverKept
<1>. QED
  BY <1>1, <1>2

(* What the resolver has of observations, conflicts, classes, arguments    *)
(* and attempts agrees at each state of a run, between two units as at the *)
(* end.                                                                    *)
THEOREM ResolverInvariance == Spec => []ResolverInv
<1>1. FrontInv /\ FrontInv' /\ ResolverInv /\ [Next]_vars => ResolverInv'
  BY ResolverStep
<1>. QED
  BY ResolverBegins, FrontInvariance, <1>1, PTL DEF Spec
-----------------------------------------------------------------------------
(* The properties *)

LEMMA AllRead ==
  ASSUME ResolverInv, FrontInv
  PROVE  NoHeaderUnread
<1>. SUFFICES ASSUME Resolved, NEW h \in Range(headers)
              PROVE  \/ \E a \in Range(result.attempts) : a.header = h /\ a.success
                     \/ <<"Error", "SyntheticTuParseFailure", Rooted(h)>> \in result.diagnostics
  BY DEF NoHeaderUnread
<1>1. DOMAIN headers = 1 .. Len(headers)
  BY DEF FrontInv, ScanInv, HeadersOk
<1>2. PICK k \in 1 .. Len(headers) : h = headers[k]
  BY <1>1 DEF Range
<1>3. ReadBy(result, h)
  BY <1>2 DEF ResolverInv, Resolved
<1>. QED
  BY <1>3 DEF ReadBy, IsRead, ReadFailure

(* The fingerprint of a class tells all that is generated from it, the     *)
(* destructor of a mock apart.                                             *)
LEMMA FingerprintTells ==
  ASSUME NEW c, ClassOk(c), NEW d, ClassOk(d), c.namespaces = d.namespaces, c.name = d.name
  PROVE  Defined(c.members) = Defined(d.members) <=> ClassFingerprint(c) = ClassFingerprint(d)
<1>. DEFINE Told == MemberFields \ {"fake_methods", "mock_destructor_override"}
            m == c.members
            n == d.members
<1>1. /\ m = [f \in MemberFields |-> m[f]] /\ n = [f \in MemberFields |-> n[f]]
      /\ m.fake_methods = IF m.interface_mock THEN <<>> ELSE m.mock_methods
      /\ n.fake_methods = IF n.interface_mock THEN <<>> ELSE n.mock_methods
  BY DEF ClassOk, MembersOk
<1>2. ClassFingerprint(c) = ClassFingerprint(d) <=> \A f \in Told : m[f] = n[f]
  BY DEF ClassFingerprint, MemberFields
<1>. HIDE DEF m, n
<1>3. /\ Defined(m) = [f \in MemberFields |-> IF f = "mock_destructor_override" THEN FALSE ELSE m[f]]
      /\ Defined(n) = [f \in MemberFields |-> IF f = "mock_destructor_override" THEN FALSE ELSE n[f]]
  BY <1>1 DEF Defined
<1>4. Defined(m) = Defined(n) <=> \A f \in MemberFields \ {"mock_destructor_override"} : m[f] = n[f]
  <2>. DEFINE D == MemberFields \ {"mock_destructor_override"}
  <2>1. ASSUME Defined(m) = Defined(n), NEW f \in D PROVE m[f] = n[f]
    <3>1. Defined(m)[f] = m[f] /\ Defined(n)[f] = n[f]
      BY <1>3
    <3>. QED
      BY <2>1, <3>1
  <2>2. ASSUME \A f \in D : m[f] = n[f] PROVE Defined(m) = Defined(n)
    BY <1>3, <2>2
  <2>. QED
    BY <2>1, <2>2
<1>5. (\A f \in MemberFields \ {"mock_destructor_override"} : m[f] = n[f])
        <=> \A f \in Told : m[f] = n[f]
  <2>1. ASSUME \A f \in Told : m[f] = n[f] PROVE m.fake_methods = n.fake_methods
    <3>1. m.interface_mock = n.interface_mock /\ m.mock_methods = n.mock_methods
      BY <2>1 DEF MemberFields
    <3>. QED
      BY <1>1, <3>1
  <2>. QED
    BY <2>1
<1>. QED
  BY <1>2, <1>4, <1>5 DEF m, n

LEMMA ConflictsAreFound ==
  ASSUME ResolverInv
  PROVE  ConflictsFound
<1>. DEFINE known == SeenIn(result.attempts)
<1>1. SeenClasses = known
  BY DEF SeenClasses, SeenIn
<1>2. ObservedOk(result.observations, result.diagnostics, known)
  BY DEF ResolverInv, ResultOk, Agrees
<1>3. ASSUME NEW s \in known
      PROVE  s[1][2] = s[2].namespaces /\ s[1][3] = s[2].name /\ ClassOk(s[2])
  <2>1. PICK a \in Range(result.attempts) :
          \E class \in Range(a.classes) : s = <<Identity(a.header, class), class>>
    BY DEF SeenIn
  <2>3. PICK class \in Range(a.classes) : s = <<Identity(a.header, class), class>>
    BY <2>1
  <2>2. ClassOk(class)
    BY DEF ResolverInv, ResultOk, AttemptsOk, ExtractedOk
  <2>. QED
    BY <2>3, <2>2 DEF Identity
<1>4. ASSUME NEW key \in {s[1] : s \in known}
      PROVE  ConflictReported(key) <=>
               \E s, t \in {u \in known : u[1] = key} : Defined(s[2].members) # Defined(t[2].members)
  <2>. DEFINE its == {u \in known : u[1] = key}
              noted == result.observations[key]
  <2>1. \A s, t \in its : Defined(s[2].members) = Defined(t[2].members)
                           <=> ClassFingerprint(s[2]) = ClassFingerprint(t[2])
    BY <1>3, FingerprintTells
  <2>2. key \in DOMAIN result.observations
    BY <1>2, <1>4 DEF ObservedOk
  <2>3. PICK f \in known : f[1] = key /\ ClassFingerprint(f[2]) = noted
    BY <1>2, <2>2 DEF ObservedOk
  <2>4. Conflict(key) \in result.diagnostics <=>
          \E s \in known : s[1] = key /\ ClassFingerprint(s[2]) # noted
    BY <1>2, <2>2 DEF ObservedOk
  <2>5. f \in its
    BY <2>3
  <2>6. (\E s \in its : ClassFingerprint(s[2]) # noted)
          <=> \E s, t \in its : ClassFingerprint(s[2]) # ClassFingerprint(t[2])
    BY <2>3, <2>5
  <2>7. ConflictReported(key) <=> \E s \in its : ClassFingerprint(s[2]) # noted
    BY <2>4 DEF ConflictReported, Conflict
  <2>. QED
    BY <2>1, <2>6, <2>7
<1>. HIDE DEF known
<1>. QED
  BY <1>1, <1>4 DEF ConflictsFound

(* Two attempts cannot both be the first to have found a class.            *)
LEMMA FirstIsOne ==
  ASSUME NEW attempts, DOMAIN attempts = 1 .. Len(attempts), Len(attempts) \in Nat, NEW key,
         NEW n, NEW m, IsFirst(attempts, n, key), IsFirst(attempts, m, key)
  PROVE  n = m
<1>1. n \in 1 .. Len(attempts) /\ m \in 1 .. Len(attempts)
  BY DEF IsFirst
<1>2. n \notin 1 .. m - 1 /\ m \notin 1 .. n - 1
  BY DEF IsFirst
<1>. QED
  BY ONLY <1>1, <1>2, Len(attempts) \in Nat

(* A list in which nothing is twice has as many elements as places.        *)
LEMMA AllCounted ==
  ASSUME NEW N \in Nat, NEW f, f = [k \in 1 .. N |-> f[k]],
         \A j, k \in 1 .. N : f[j] = f[k] => j = k
  PROVE  Cardinality(Range(f)) = N
<1>1. DOMAIN f = 1 .. N
  OBVIOUS
<1>2. f \in [1 .. N -> Range(f)] /\ \A t \in Range(f) : \E k \in 1 .. N : f[k] = t
  BY <1>1 DEF Range
<1>3. f \in Bijection(1 .. N, Range(f))
  BY <1>2 DEF Bijection, Injection, Surjection, IsInjective
<1>4. IsFiniteSet(1 .. N) /\ Cardinality(1 .. N) = N
  <2>1. /\ IsFiniteSet(1 .. N)
        /\ Cardinality(1 .. N) = IF 1 > N THEN 0 ELSE N - 1 + 1
    BY ONLY N \in Nat, FS_Interval
  <2>2. (IF 1 > N THEN 0 ELSE N - 1 + 1) = N
    OBVIOUS
  <2>. QED
    BY <2>1, <2>2
<1>. QED
  BY <1>3, <1>4, FS_Bijection DEF ExistsBijection

LEMMA ClassesAreApart ==
  ASSUME ResolverInv
  PROVE  ClassesKeptApart
<1>. DEFINE classes == result.classes
            attempts == result.attempts
            N == Len(classes)
            key(k) == Identity(classes[k].header, classes[k].model)
            has(a, k) == \E class \in Range(a.classes) : Identity(a.header, class) = key(k)
            first(k) == CHOOSE n \in DOMAIN attempts :
                          /\ has(attempts[n], k)
                          /\ \A j \in 1 .. n - 1 : ~has(attempts[j], k)
            known == SeenIn(attempts)
<1>1. SeenClasses = known
  BY DEF SeenClasses, SeenIn
<1>2. KeptOk(classes, result.arg_sets, attempts, known)
  BY DEF ResolverInv, ResultOk, Agrees
<1>3. \A k : key(k) = KeyOf(classes[k])
  BY DEF KeyOf
<1>4. /\ N \in Nat /\ DOMAIN classes = 1 .. N /\ DOMAIN result.arg_sets = 1 .. N
      /\ Len(attempts) \in Nat /\ DOMAIN attempts = 1 .. Len(attempts)
  BY <1>2 DEF KeptOk, IsList, ResolverInv, ResultOk, AttemptsOk
<1>5. {s[1] : s \in known} = {key(k) : k \in 1 .. N}
  <2>1. {s[1] : s \in known} = {KeyOf(classes[k]) : k \in 1 .. N}
    BY <1>2 DEF KeptOk
  <2>. HIDE DEF key, known, N
  <2>. QED
    BY <1>3, <2>1
<1>6. \A j, k \in 1 .. N : key(j) = key(k) => j = k
  BY <1>2, <1>3 DEF KeptOk
<1>7. Cardinality({key(k) : k \in 1 .. N}) = N
  <2>. DEFINE keys == [k \in 1 .. N |-> key(k)]
  <2>. HIDE DEF key, N
  <2>1. Range(keys) = {key(k) : k \in 1 .. N}
    BY DEF Range
  <2>2. Cardinality(Range(keys)) = N
    BY <1>4, <1>6, AllCounted
  <2>. QED
    BY <2>1, <2>2
<1>8. ASSUME NEW k \in 1 .. N
      PROVE  LET origin == attempts[first(k)]
             IN /\ classes[k].model \in Range(origin.classes)
                /\ result.arg_sets[k] = [name |-> key(k)[3], namespaces |-> key(k)[2],
                                         header |-> origin.header, args |-> origin.args]
  <2>1. PICK n \in 1 .. Len(attempts) :
          /\ IsFirst(attempts, n, KeyOf(classes[k]))
          /\ classes[k].model \in Range(attempts[n].classes)
          /\ result.arg_sets[k] = ArgSet(KeyOf(classes[k]), attempts[n])
    BY <1>2 DEF KeptOk
  <2>2. \A a : has(a, k) <=> Has(a, KeyOf(classes[k]))
    BY <1>3 DEF Has
  <2>3. \A m : IsFirst(attempts, m, KeyOf(classes[k])) <=>
                 /\ m \in DOMAIN attempts /\ has(attempts[m], k)
                 /\ \A j \in 1 .. m - 1 : ~has(attempts[j], k)
    <3>. HIDE DEF has
    <3>. QED
      BY <2>2 DEF IsFirst
  <2>4. IsFirst(attempts, first(k), KeyOf(classes[k]))
    <3>. HIDE DEF has
    <3>. QED
      BY <2>1, <2>3
  <2>5. first(k) = n
    <3>. HIDE DEF first, attempts
    <3>. QED
      BY ONLY <1>4, <2>1, <2>4, FirstIsOne
  <2>. QED
    BY <1>3, <2>1, <2>5 DEF ArgSet
<1>. QED
  BY <1>1, <1>4, <1>5, <1>7, <1>8 DEF ClassesKeptApart

LEMMA ClassesAreReady ==
  ASSUME ResolverInv
  PROVE  ReadyClassesBuild
<1>1. ASSUME NEW a \in Range(result.attempts), NEW class \in Range(a.classes)
      PROVE  ClassOk(class) /\ NamesApart(a.classes)
  BY DEF ResolverInv, ResultOk, AttemptsOk, ExtractedOk
<1>2. ASSUME NEW class \in {s[2] : s \in SeenClasses}
      PROVE  ClassOk(class)
  <2>1. PICK a \in Range(result.attempts) : class \in Range(a.classes)
    BY DEF SeenClasses
  <2>. QED
    BY <1>1, <2>1
<1>3. ASSUME NEW a \in Range(result.attempts), NEW class \in Range(a.classes),
             NEW other \in Range(a.classes) \ {class}, other.namespaces = class.namespaces
      PROVE  {other.mock_name, other.scoped_mock_name}
               \intersect {class.mock_name, class.scoped_mock_name} = {}
  BY <1>1, <1>3 DEF NamesApart, NamesOf
<1>4. ASSUME NEW class, ClassOk(class)
      PROVE  /\ class.members.unsupported_items = <<>> =>
                  \A member \in Range(class.declared.members) :
                    IF class.members.interface_mock
                      THEN "pure" \in member.traits =>
                             member.signature \in Range(class.members.mock_methods)
                      ELSE NeedsDefinition(member) => member.signature \in Faked(class.members)
             /\ {class.mock_name, class.scoped_mock_name} \intersect Product(class.declared) = {}
             /\ class.mock_name # class.scoped_mock_name
  BY <1>4 DEF ClassOk, Complete, NamesFree, NamesOf
<1>5. ASSUME NEW class, ClassOk(class), class.members.unsupported_items = <<>>
      PROVE  IF class.members.interface_mock
               THEN LeftPure(class) \subseteq class.declared.inherited
               ELSE \A member \in Range(class.declared.members) :
                      NeedsDefinition(member) => member.signature \in Faked(class.members)
  BY <1>4, <1>5 DEF LeftPure
<1>. QED
  BY <1>2, <1>3, <1>4, <1>5 DEF ReadyClassesBuild
-----------------------------------------------------------------------------
(* No header is passed over: when the resolver is done, for any database,  *)
(* units that parse or fail and headers, each header was parsed with       *)
(* success or an error names it.                                           *)
THEOREM EveryHeaderIsRead == Spec => []NoHeaderUnread
<1>1. ResolverInv /\ FrontInv => NoHeaderUnread
  BY AllRead
<1>. QED
  BY ResolverInvariance, FrontInvariance, <1>1, PTL

(* A conflict is reported for a class if and only if two parses found      *)
(* different members of it to define or to mock, in whatever order they    *)
(* came: comparing each only with the first misses none.                   *)
THEOREM ConflictsAreReported == Spec => []ConflictsFound
<1>1. ResolverInv => ConflictsFound
  BY ConflictsAreFound
<1>. QED
  BY ResolverInvariance, <1>1, PTL

(* Each class that was found is generated once, from the first parse that  *)
(* found it and with the arguments of just that parse.                     *)
THEOREM ClassesStayApart == Spec => []ClassesKeptApart
<1>1. ResolverInv => ClassesKeptApart
  BY ClassesAreApart
<1>. QED
  BY ResolverInvariance, <1>1, PTL

(* Whatever members classes declare, whatever they inherit, and for any    *)
(* options: of a class of which nothing is reported as unsupported, each   *)
(* member that it declares gets a definition if it needs one, or its mock  *)
(* leaves pure at most what it inherits, which the code passes over; the   *)
(* names generated for it are not taken, nor those of another class of its *)
(* parse.                                                                  *)
THEOREM ReadyMeansComplete == Spec => []ReadyClassesBuild
<1>1. ResolverInv => ReadyClassesBuild
  BY ClassesAreReady
<1>. QED
  BY ResolverInvariance, <1>1, PTL
-----------------------------------------------------------------------------
(* Arguments and paths *)

LEMMA BestExists ==
  ASSUME NEW N \in Nat, NEW M \in SUBSET (1 .. N), M # {}, NEW size \in [M -> Nat]
  PROVE  \E k \in M : \A j \in M : size[j] < size[k] \/ (size[j] = size[k] /\ k <= j)
<1>. DEFINE IsBest(n, k) == /\ k \in M /\ k <= n
                            /\ \A j \in M : j <= n =>
                                 size[j] < size[k] \/ (size[j] = size[k] /\ k <= j)
            A == {n \in 0 .. N : (\A j \in M : ~(j <= n)) \/ \E k : IsBest(n, k)}
<1>1. 0 \in A
  OBVIOUS
<1>2. ASSUME NEW n \in A, n < N
      PROVE  n + 1 \in A
  <2>1. n \in Nat /\ n + 1 \in 0 .. N
    BY <1>2
  <2>2. \A j \in M : j \in Nat /\ size[j] \in Nat /\ (j <= n + 1 <=> j <= n \/ j = n + 1)
    BY <2>1
  <2>3. CASE n + 1 \notin M
    <3>1. \A j \in M : j <= n + 1 <=> j <= n
      BY <2>2, <2>3
    <3>. QED
      BY <1>2, <2>1, <3>1
  <2>4. CASE n + 1 \in M /\ \A j \in M : ~(j <= n)
    <3>1. IsBest(n + 1, n + 1)
      BY <2>1, <2>2, <2>4
    <3>. QED
      BY <2>1, <3>1
  <2>5. ASSUME n + 1 \in M, NEW k, IsBest(n, k)
        PROVE  n + 1 \in A
    <3>1. CASE size[n + 1] <= size[k]
      <4>1. IsBest(n + 1, k)
        BY <2>1, <2>2, <2>5, <3>1
      <4>. QED
        BY <2>1, <4>1
    <3>2. CASE size[k] < size[n + 1]
      <4>1. IsBest(n + 1, n + 1)
        BY <2>1, <2>2, <2>5, <3>2
      <4>. QED
        BY <2>1, <4>1
    <3>. QED
      BY <2>2, <2>5, <3>1, <3>2
  <2>. QED
    BY <1>2, <2>3, <2>4, <2>5
<1>3. N \in A
  <2>. HIDE DEF A
  <2>1. A \in SUBSET (0 .. N)
    BY DEF A
  <2>. QED
    BY <1>1, <1>2, <2>1, Climb
<1>4. \A j \in M : j <= N
  OBVIOUS
<1>. QED
  BY <1>3, <1>4

MapsOk == IsList(path_maps) /\ \A m \in Range(path_maps) : IsNormal(m[1]) /\ IsNormal(m[2])

LEMMA LexicalIsNormal ==
  ASSUME NEW p \in Seq(STRING)
  PROVE  IsNormal(LexicallyNormal(p))
<1>. DEFINE bare == [dirs |-> {<<>>}, files |-> {}, links |-> <<>>]
<1>1. IsTree(bare)
  <2>1. DOMAIN <<>> = {} /\ IsNormal(<<>>)
    BY DEF IsNormal
  <2>2. bare.dirs = {<<>>} /\ bare.files = {} /\ bare.links = <<>>
    OBVIOUS
  <2>. HIDE DEF bare
  <2>. QED
    BY <2>1, <2>2 DEF IsTree, Followed
<1>. HIDE DEF bare
<1>2. IsLinkFree(bare, Physical(bare, p))
  BY <1>1, PhysicalIsLinkFree
<1>. QED
  BY <1>2 DEF bare, LexicallyNormal, IsLinkFree

(* A path that no map is for is only written in its normal form, and one   *)
(* that a map is for comes to lie below where that map leads.              *)
Replaced(path, to) ==
  LET candidate == LexicallyNormal(path)
  IN \/ to = candidate /\ \A m \in Range(path_maps) : ~IsUnder(candidate, m[1])
     \/ \E m \in Range(path_maps) : IsUnder(to, m[2])

LEMMA MapsReplace ==
  ASSUME IsTree(tree), MapsOk, NEW path \in Seq(STRING)
  PROVE  \E to : IsNormal(to) /\ Replaced(path, to) /\ ApplyPathMaps(path) = LinkFree(to)
<1>. DEFINE candidate == LexicallyNormal(path)
            matching == {k \in DOMAIN path_maps : IsUnder(candidate, path_maps[k][1])}
<1>1. IsNormal(candidate)
  BY LexicalIsNormal
<1>2. /\ Len(path_maps) \in Nat /\ DOMAIN path_maps = 1 .. Len(path_maps)
      /\ \A k \in DOMAIN path_maps : path_maps[k] \in Range(path_maps)
  BY DEF MapsOk, IsList, Range
<1>3. CASE \A k \in DOMAIN path_maps : ~IsUnder(candidate, path_maps[k][1])
  <2>1. ApplyPathMaps(path) = LinkFree(candidate)
    BY <1>3 DEF ApplyPathMaps
  <2>2. \A m \in Range(path_maps) : ~IsUnder(candidate, m[1])
    BY <1>3 DEF Range
  <2>3. Replaced(path, candidate)
    BY <2>2 DEF Replaced
  <2>. QED
    BY <1>1, <2>1, <2>3
<1>4. CASE ~ \A k \in DOMAIN path_maps : ~IsUnder(candidate, path_maps[k][1])
  <2>. DEFINE size == [k \in matching |-> Len(path_maps[k][1])]
  <2>1. matching # {} /\ matching \in SUBSET (1 .. Len(path_maps))
    BY <1>2, <1>4
  <2>2. size \in [matching -> Nat]
    <3>1. \A k \in matching : path_maps[k][1] \in Seq(STRING)
      BY <1>2 DEF MapsOk, IsNormal
    <3>2. \A k \in matching : Len(path_maps[k][1]) \in Nat
      BY <3>1, LenProperties
    <3>. HIDE DEF matching
    <3>. QED
      BY <3>2
  <2>3. \E k \in matching : \A j \in matching :
          Len(path_maps[j][1]) < Len(path_maps[k][1])
          \/ (Len(path_maps[j][1]) = Len(path_maps[k][1]) /\ k <= j)
    <3>. HIDE DEF matching, size
    <3>1. \E k \in matching : \A j \in matching : size[j] < size[k] \/ (size[j] = size[k] /\ k <= j)
      BY <1>2, <2>1, <2>2, BestExists
    <3>2. \A k \in matching : size[k] = Len(path_maps[k][1])
      BY DEF size
    <3>. QED
      BY <3>1, <3>2
  <2>4. BestMatch(candidate) \in matching
    <3>. DEFINE IsBest(k) == \A j \in matching :
          Len(path_maps[j][1]) < Len(path_maps[k][1])
          \/ (Len(path_maps[j][1]) = Len(path_maps[k][1]) /\ k <= j)
    <3>1. (CHOOSE k \in matching : IsBest(k)) \in matching
      <4>. HIDE DEF matching
      <4>. QED
        BY <2>3
    <3>. QED
      BY <3>1 DEF BestMatch
  <2>. DEFINE map == path_maps[BestMatch(candidate)]
              to == map[2] \o RelativeTo(map[1], candidate)
  <2>5. map \in Range(path_maps)
    BY <1>2, <2>4
  <2>6. ApplyPathMaps(path) = LinkFree(to)
    BY <1>4 DEF ApplyPathMaps
  <2>7. IsNormal(to) /\ IsUnder(to, map[2])
    <3>. HIDE DEF map, candidate
    <3>. DEFINE rest == RelativeTo(map[1], candidate)
    <3>1. map[1] \in Seq(STRING) /\ IsNormal(map[2]) /\ candidate \in Seq(STRING)
      BY <1>1, <2>5 DEF MapsOk, IsNormal
    <3>2. Len(map[1]) + 1 \in 1 .. Len(candidate) + 1
      <4>1. IsUnder(candidate, map[1])
        BY <2>4 DEF map
      <4>2. Len(map[1]) <= Len(candidate) /\ Len(map[1]) \in Nat /\ Len(candidate) \in Nat
        BY <3>1, <4>1, PrefixMeans, LenProperties
      <4>. QED
        BY <4>2
    <3>3. /\ rest \in Seq(STRING)
          /\ \A k \in DOMAIN rest : \E j \in DOMAIN candidate : rest[k] = candidate[j]
      <4>. DEFINE m == Len(map[1]) + 1
                  n == Len(candidate)
      <4>1. m \in 1 .. n + 1 /\ n \in Nat /\ DOMAIN candidate = 1 .. n
        BY <3>1, <3>2
      <4>. HIDE DEF m, n
      <4>2. SubSeq(candidate, m, n) \in Seq(STRING) /\ DOMAIN SubSeq(candidate, m, n) = 1 .. n - m + 1
        BY <3>1, <4>1
      <4>3. \A k \in 1 .. n - m + 1 : SubSeq(candidate, m, n)[k] = candidate[m + k - 1]
                                     /\ m + k - 1 \in 1 .. n
        BY <3>1, <4>1
      <4>. QED
        BY <4>1, <4>2, <4>3 DEF m, n, RelativeTo
    <3>4. \A k \in DOMAIN rest : rest[k] \notin {".", ".."}
      BY <1>1, <3>3 DEF IsNormal
    <3>. HIDE DEF rest
    <3>5. to = map[2] \o rest
      BY DEF rest
    <3>6. IsNormal(map[2] \o rest) /\ IsUnder(map[2] \o rest, map[2])
      <4>1. map[2] \in Seq(STRING) /\ rest \in Seq(STRING)
        BY <3>1, <3>3 DEF IsNormal
      <4>2. /\ map[2] \o rest \in Seq(STRING) /\ Len(map[2] \o rest) = Len(map[2]) + Len(rest)
            /\ \A k \in 1 .. Len(map[2]) : (map[2] \o rest)[k] = map[2][k]
            /\ \A k \in Len(map[2]) + 1 .. Len(map[2]) + Len(rest) :
                 (map[2] \o rest)[k] = rest[k - Len(map[2])]
        BY <4>1, ConcatProperties
      <4>3. Len(map[2]) \in Nat /\ Len(rest) \in Nat /\ DOMAIN rest = 1 .. Len(rest)
            /\ DOMAIN map[2] = 1 .. Len(map[2])
        BY <4>1
      <4>. DEFINE both == map[2] \o rest
      <4>. HIDE DEF both
      <4>4. DOMAIN both = 1 .. Len(map[2]) + Len(rest)
        BY <4>2, <4>3 DEF both
      <4>5. ASSUME NEW k \in DOMAIN both PROVE both[k] \notin {".", ".."}
        <5>1. CASE k \in 1 .. Len(map[2])
          <6>1. both[k] = map[2][k] /\ k \in DOMAIN map[2]
            BY <4>2, <4>3, <5>1 DEF both
          <6>. QED
            BY <3>1, <6>1 DEF IsNormal
        <5>2. CASE k \notin 1 .. Len(map[2])
          <6>1. k \in Len(map[2]) + 1 .. Len(map[2]) + Len(rest) /\ k - Len(map[2]) \in 1 .. Len(rest)
            BY <4>3, <4>4, <5>2
          <6>2. both[k] = rest[k - Len(map[2])]
            BY <4>2, <6>1 DEF both
          <6>. QED
            BY <3>4, <4>3, <6>1, <6>2
        <5>. QED
          BY <5>1, <5>2
      <4>6. IsUnder(both, map[2])
        <5>1. both \in Seq(STRING) /\ Len(map[2]) <= Len(both) /\ \A k \in 1 .. Len(map[2]) : map[2][k] = both[k]
          BY <4>2, <4>3 DEF both
        <5>. QED
          BY <4>1, <5>1, PrefixMeans
      <4>. QED
        BY <4>2, <4>5, <4>6 DEF both, IsNormal
    <3>. QED
      BY <3>5, <3>6
  <2>8. Replaced(path, to)
    BY <2>5, <2>7 DEF Replaced
  <2>. QED
    BY <2>6, <2>7, <2>8
<1>. QED
  BY <1>3, <1>4

LEMMA MappedIsLinkFree ==
  ASSUME IsTree(tree), MapsOk, NEW path \in Seq(STRING)
  PROVE  IsLinkFree(tree, ApplyPathMaps(path)) /\ ApplyPathMaps(path) \in Seq(STRING)
<1>1. PICK to : IsNormal(to) /\ ApplyPathMaps(path) = LinkFree(to)
  BY MapsReplace
<1>2. IsLinkFree(tree, ApplyPathMaps(path))
  BY <1>1, PhysicalIsLinkFree DEF IsNormal, LinkFree
<1>. QED
  BY <1>2 DEF IsLinkFree, IsNormal

LEMMA CommandPathIsPath ==
  ASSUME IsTree(tree), MapsOk, NEW command, command.directory \in Seq(STRING),
         NEW value \in Seq(STRING)
  PROVE  CommandRelativePath(command, value) \in Seq(STRING)
<1>1. CASE IsAbsolute(value)
  <2>1. Tail(value) \in Seq(STRING)
    BY <1>1 DEF IsAbsolute
  <2>. QED
    BY <1>1, <2>1, MappedIsLinkFree DEF CommandRelativePath
<1>2. CASE ~IsAbsolute(value)
  <2>1. CommandDirectory(command) \in Seq(STRING)
    BY MappedIsLinkFree DEF CommandDirectory
  <2>2. CommandDirectory(command) \o value \in Seq(STRING)
    BY <2>1, ConcatProperties
  <2>3. IsLinkFree(tree, LinkFree(CommandDirectory(command) \o value))
    BY <2>2, PhysicalIsLinkFree DEF LinkFree
  <2>. QED
    BY <1>2, <2>3 DEF CommandRelativePath, IsLinkFree, IsNormal
<1>. QED
  BY <1>1, <1>2

LEMMA RootedIsAbsolute ==
  ASSUME NEW p \in Seq(STRING)
  PROVE  IsAbsolute(Rooted(p)) /\ Tail(Rooted(p)) = p
<1>. DEFINE root == <<"/">>
            S == STRING \union {"/"}
            r == root \o p
<1>1. root \in Seq(S) /\ Len(root) = 1 /\ root[1] = "/"
  OBVIOUS
<1>2. p \in Seq(S) /\ Len(p) \in Nat
  OBVIOUS
<1>. HIDE DEF root, S
<1>. USE <1>1, <1>2
<1>3. /\ r \in Seq(S) /\ Len(r) = 1 + Len(p) /\ r[1] = "/"
      /\ \A k \in 1 .. Len(p) : r[k + 1] = p[k]
  <2>1. /\ r \in Seq(S) /\ Len(r) = Len(root) + Len(p)
        /\ \A k \in 1 .. Len(root) : r[k] = root[k]
        /\ \A k \in Len(root) + 1 .. Len(root) + Len(p) : r[k] = p[k - Len(root)]
    BY ONLY root \in Seq(S), p \in Seq(S), ConcatProperties
  <2>. HIDE DEF r
  <2>2. \A k \in 1 .. Len(p) : k + 1 \in 2 .. 1 + Len(p) /\ (k + 1) - 1 = k
    BY <1>2
  <2>. QED
    BY <1>1, <1>2, <2>1, <2>2
<1>. HIDE DEF r
<1>4. r # <<>> /\ Head(r) = "/"
  BY <1>2, <1>3
<1>5. Tail(r) = p
  <2>1. /\ Tail(r) \in Seq(S) /\ Len(Tail(r)) = Len(p)
        /\ \A k \in 1 .. Len(p) : Tail(r)[k] = p[k]
    BY <1>2, <1>3
  <2>. QED
    BY <1>2, <2>1, SeqEqual
<1>. QED
  BY <1>4, <1>5 DEF IsAbsolute, Rooted, r, root

(* Lists of arguments.  A list is shaped if its options and values are in  *)
(* their places, and each of its paths is in the set given.                *)
Asks(token) == token.val = <<>> /\ token.opt \in IsSeparateValidationPathOption

HoldsPath(token) == token.val # <<>> /\ token.opt \in RewriteJoinedValidationPathOption

Never == OutputOptions \union {"-c", "-std", "--std"}

FitsAt(list, k, paths) ==
  /\ list[k].opt \notin Never
  /\ IsPathToken(list, k) => list[k].val \in paths
  /\ list[k].opt = NoOption => IsPathToken(list, k) \/ ~IsAbsolute(list[k].val)

Shaped(list, paths) ==
  /\ IsList(list)
  /\ \A k \in 1 .. Len(list) : FitsAt(list, k, paths)
  /\ \A k \in 1 .. Len(list) : Asks(list[k]) => k < Len(list) /\ list[k + 1].opt = NoOption

LEMMA PathTokens ==
  ASSUME NEW list, NEW k
  PROVE  IsPathToken(list, k) <=> HoldsPath(list[k]) \/ (k > 1 /\ Asks(list[k - 1]))
BY DEF IsPathToken, HoldsPath, Asks

LEMMA Joins ==
  ASSUME NEW s, IsList(s), NEW t, IsList(t)
  PROVE  LET both == s \o t
         IN /\ IsList(both) /\ Len(s) \in Nat /\ Len(t) \in Nat /\ Len(both) = Len(s) + Len(t)
            /\ Range(both) = Range(s) \union Range(t)
            /\ \A k \in 1 .. Len(s) : both[k] = s[k]
            /\ \A k \in 1 .. Len(t) : both[Len(s) + k] = t[k]
<1>. DEFINE S == Range(s) \union Range(t)
            both == s \o t
<1>1. s \in Seq(S) /\ t \in Seq(S)
  BY DEF IsList
<1>2. /\ Len(both) = Len(s) + Len(t)
      /\ \A k \in Len(s) + 1 .. Len(s) + Len(t) : both[k] = t[k - Len(s)]
  BY <1>1, ConcatProperties
<1>3. /\ IsList(both) /\ Range(both) = S /\ \A k \in 1 .. Len(s) : both[k] = s[k]
  BY Together
<1>. HIDE DEF both, S
<1>4. Len(s) \in Nat /\ Len(t) \in Nat
  BY <1>1
<1>5. ASSUME NEW k \in 1 .. Len(t) PROVE both[Len(s) + k] = t[k]
  <2>1. Len(s) + k \in Len(s) + 1 .. Len(s) + Len(t) /\ (Len(s) + k) - Len(s) = k
    BY <1>4
  <2>. QED
    BY <1>2, <2>1
<1>. QED
  BY <1>2, <1>3, <1>4, <1>5 DEF both, S

LEMMA ShapedTogether ==
  ASSUME NEW G, NEW s, Shaped(s, G), NEW t, Shaped(t, G)
  PROVE  Shaped(s \o t, G)
<1>. DEFINE both == s \o t
<1>1. /\ IsList(both) /\ Len(s) \in Nat /\ Len(t) \in Nat /\ Len(both) = Len(s) + Len(t)
      /\ \A k \in 1 .. Len(s) : both[k] = s[k]
      /\ \A k \in 1 .. Len(t) : both[Len(s) + k] = t[k]
  <2>1. IsList(s) /\ IsList(t)
    BY DEF Shaped
  <2>. QED
    BY ONLY <2>1, Joins
<1>. HIDE DEF both
<1>a. Len(s) \in Nat /\ Len(t) \in Nat /\ Len(both) = Len(s) + Len(t)
  BY <1>1
<1>b. \A k \in 1 .. Len(s) : /\ FitsAt(s, k, G)
                             /\ Asks(s[k]) => k < Len(s) /\ s[k + 1].opt = NoOption
  BY DEF Shaped
<1>c. \A k \in 1 .. Len(t) : /\ FitsAt(t, k, G)
                             /\ Asks(t[k]) => k < Len(t) /\ t[k + 1].opt = NoOption
  BY DEF Shaped
<1>2. ASSUME NEW k \in 1 .. Len(s)
      PROVE  /\ FitsAt(both, k, G)
             /\ Asks(both[k]) => k < Len(both) /\ both[k + 1].opt = NoOption
  <2>1. both[k] = s[k] /\ (k > 1 => both[k - 1] = s[k - 1])
    BY <1>1
  <2>2. IsPathToken(both, k) <=> IsPathToken(s, k)
    BY <2>1, PathTokens
  <2>3. FitsAt(both, k, G)
    BY <1>b, <2>1, <2>2 DEF FitsAt
  <2>4. ASSUME Asks(both[k]) PROVE k < Len(both) /\ both[k + 1].opt = NoOption
    <3>1. k < Len(s) /\ s[k + 1].opt = NoOption
      BY <1>b, <2>1, <2>4
    <3>2. k + 1 \in 1 .. Len(s) /\ k < Len(both)
      BY ONLY <1>a, <3>1, k \in 1 .. Len(s)
    <3>3. both[k + 1] = s[k + 1]
      BY <1>1, <3>2
    <3>. QED
      BY <3>1, <3>2, <3>3
  <2>. QED
    BY <2>3, <2>4
<1>3. ASSUME NEW j \in 1 .. Len(t)
      PROVE  LET k == Len(s) + j
             IN /\ FitsAt(both, k, G)
                /\ Asks(both[k]) => k < Len(both) /\ both[k + 1].opt = NoOption
  <2>. DEFINE k == Len(s) + j
  <2>1. both[k] = t[j]
    BY <1>1
  <2>2. k > 1 => Asks(both[k - 1]) <=> j > 1 /\ Asks(t[j - 1])
    <3>1. CASE j > 1
      <4>1. j - 1 \in 1 .. Len(t) /\ k - 1 = Len(s) + (j - 1) /\ k > 1
        BY <1>1, <3>1
      <4>2. both[k - 1] = t[j - 1]
        BY <1>1, <4>1
      <4>. QED
        BY <3>1, <4>1, <4>2
    <3>2. CASE j = 1 /\ k > 1
      <4>1. k - 1 = Len(s) /\ Len(s) \in 1 .. Len(s)
        BY <1>1, <3>2
      <4>2. ~Asks(s[Len(s)])
        BY <1>b, <4>1
      <4>. QED
        BY <1>1, <3>2, <4>1, <4>2
    <3>. QED
      BY <1>1, <3>1, <3>2
  <2>3. IsPathToken(both, k) <=> IsPathToken(t, j)
    <3>1. ~(k > 1) => j = 1
      BY <1>1
    <3>. HIDE DEF k
    <3>. QED
      BY <2>1, <2>2, <3>1, PathTokens
  <2>4. FitsAt(both, k, G)
    <3>1. FitsAt(t, j, G)
      BY <1>c
    <3>. HIDE DEF k
    <3>. QED
      BY <2>1, <2>3, <3>1 DEF FitsAt
  <2>5. ASSUME Asks(both[k]) PROVE k < Len(both) /\ both[k + 1].opt = NoOption
    <3>1. j < Len(t) /\ t[j + 1].opt = NoOption
      BY <1>c, <2>1, <2>5
    <3>2. j + 1 \in 1 .. Len(t) /\ k + 1 = Len(s) + (j + 1) /\ k < Len(both)
      BY ONLY <1>a, <3>1, j \in 1 .. Len(t)
    <3>3. both[k + 1] = t[j + 1]
      BY <1>1, <3>2
    <3>. QED
      BY <3>1, <3>2, <3>3
  <2>. QED
    BY <2>4, <2>5
<1>4. ASSUME NEW k \in 1 .. Len(both), k \notin 1 .. Len(s)
      PROVE  k - Len(s) \in 1 .. Len(t) /\ k = Len(s) + (k - Len(s))
  BY <1>1, <1>4
<1>5. ASSUME NEW k \in 1 .. Len(both)
      PROVE  /\ FitsAt(both, k, G)
             /\ Asks(both[k]) => k < Len(both) /\ both[k + 1].opt = NoOption
  <2>1. CASE k \in 1 .. Len(s)
    BY <1>2, <2>1
  <2>2. CASE k \notin 1 .. Len(s)
    <3>1. PICK j \in 1 .. Len(t) : k = Len(s) + j
      BY <1>4, <2>2
    <3>. QED
      BY <1>3, <3>1
  <2>. QED
    BY <2>1, <2>2
<1>. QED
  BY <1>1, <1>5 DEF Shaped, both

LEMMA ShapedMore ==
  ASSUME NEW G, NEW H, G \subseteq H, NEW list, Shaped(list, G)
  PROVE  Shaped(list, H)
BY DEF Shaped, FitsAt

LEMMA OneIsList ==
  ASSUME NEW x
  PROVE  IsList(<<x>>) /\ Len(<<x>>) = 1 /\ <<x>>[1] = x /\ Range(<<x>>) = {x}
<1>1. Range(<<x>>) = {x}
  BY DEF Range
<1>. QED
  BY <1>1 DEF IsList

LEMMA TwoAreList ==
  ASSUME NEW x, NEW y
  PROVE  IsList(<<x, y>>) /\ Len(<<x, y>>) = 2 /\ <<x, y>>[1] = x /\ <<x, y>>[2] = y
<1>1. Range(<<x, y>>) = {x, y}
  BY DEF Range
<1>. QED
  BY <1>1 DEF IsList

LEMMA ShapedNone ==
  ASSUME NEW G
  PROVE  Shaped(<<>>, G)
<1>1. IsList(<<>>) /\ Len(<<>>) = 0
  BY EmptyList
<1>. QED
  BY <1>1 DEF Shaped

LEMMA ShapedOne ==
  ASSUME NEW G, NEW token, token.opt \notin Never, ~Asks(token),
         HoldsPath(token) => token.val \in G,
         token.opt = NoOption => ~IsAbsolute(token.val)
  PROVE  Shaped(<<token>>, G)
<1>. DEFINE list == <<token>>
<1>1. IsList(list) /\ Len(list) = 1 /\ list[1] = token
  BY OneIsList
<1>. HIDE DEF list
<1>2. IsPathToken(list, 1) => HoldsPath(token)
  BY <1>1 DEF IsPathToken, HoldsPath
<1>3. FitsAt(list, 1, G)
  BY <1>1, <1>2 DEF FitsAt
<1>4. 1 .. Len(list) = {1}
  BY <1>1
<1>5. Shaped(list, G)
  BY <1>1, <1>3, <1>4 DEF Shaped
<1>. QED
  BY <1>5 DEF list

LEMMA ShapedPair ==
  ASSUME NEW G, NEW token, token.opt = NoOption,
         NEW option \in IsSeparateValidationPathOption \union IsSeparateValidationValueOption,
         option \in IsSeparateValidationPathOption => token.val \in G,
         option \in IsSeparateValidationValueOption => ~IsAbsolute(token.val)
  PROVE  Shaped(<<Opt(option), token>>, G)
<1>. DEFINE list == <<Opt(option), token>>
<1>1. IsList(list) /\ Len(list) = 2 /\ list[1] = Opt(option) /\ list[2] = token
  BY TwoAreList
<1>. HIDE DEF list
<1>2. list[1].opt = option /\ list[1].val = <<>>
  <2>1. Opt(option).opt = option /\ Opt(option).val = <<>>
    BY DEF Opt
  <2>. QED
    BY <1>1, <2>1
<1>3. /\ option \notin Never /\ option # NoOption /\ NoOption \notin Never
      /\ NoOption \notin IsSeparateValidationPathOption /\ NoOption \notin RewriteJoinedValidationPathOption
  BY DEF Never, OutputOptions, IsSeparateValidationPathOption, IsSeparateValidationValueOption,
         RewriteJoinedValidationPathOption, NoOption
<1>4. ~IsPathToken(list, 1)
  BY <1>2 DEF IsPathToken
<1>5. IsPathToken(list, 2) <=> option \in IsSeparateValidationPathOption
  <2>1. ~HoldsPath(list[2])
    BY <1>1, <1>3 DEF HoldsPath
  <2>2. Asks(list[1]) <=> option \in IsSeparateValidationPathOption
    BY <1>2 DEF Asks
  <2>3. 2 > 1 /\ 2 - 1 = 1
    OBVIOUS
  <2>. QED
    BY ONLY <2>1, <2>2, <2>3, PathTokens
<1>6. FitsAt(list, 1, G)
  BY <1>2, <1>3, <1>4 DEF FitsAt
<1>7. FitsAt(list, 2, G)
  BY <1>1, <1>3, <1>5 DEF FitsAt
<1>8. ~Asks(list[2])
  BY <1>1, <1>3 DEF Asks
<1>9. 1 .. Len(list) = {1, 2} /\ 1 < Len(list) /\ 1 + 1 = 2
  BY <1>1
<1>10. Shaped(list, G)
  BY <1>1, <1>6, <1>7, <1>8, <1>9 DEF Shaped
<1>. QED
  BY <1>10 DEF list
-----------------------------------------------------------------------------
(* Walks over a command line *)

Start == [option |-> NoOption, list |-> <<>>]

TurnOf(walk, command, at, token) ==
  CASE walk = "sanitize" -> Sanitized(command, at, token)
    [] walk = "observe" -> Observed(command, at, token)
    [] walk = "normalize" -> Normalized(at, token)

IsTurning(walk, command, line, m, at) ==
  at = [n \in 0 .. m |-> IF n = 0 THEN Start ELSE TurnOf(walk, command, at[n - 1], line[n])]

LEMMA TurningExists ==
  ASSUME NEW walk, NEW command, NEW line, NEW N \in Nat
  PROVE  \E at : IsTurning(walk, command, line, N, at)
<1>. DEFINE A == {m \in 0 .. N : \E at : IsTurning(walk, command, line, m, at)}
<1>1. 0 \in A
  <2>. DEFINE at == [n \in 0 .. 0 |-> Start]
  <2>1. IsTurning(walk, command, line, 0, at)
    BY DEF IsTurning
  <2>. QED
    BY <2>1
<1>2. ASSUME NEW m \in A, m < N
      PROVE  m + 1 \in A
  <2>. PICK at : IsTurning(walk, command, line, m, at)
    OBVIOUS
  <2>. DEFINE on == [n \in 0 .. m + 1 |->
                       IF n <= m THEN at[n] ELSE TurnOf(walk, command, at[m], line[n])]
  <2>1. ASSUME NEW n \in 0 .. m + 1
        PROVE  on[n] = IF n = 0 THEN Start ELSE TurnOf(walk, command, on[n - 1], line[n])
    <3>1. CASE n = 0
      BY <3>1 DEF IsTurning
    <3>2. CASE n \in 1 .. m
      <4>1. on[n] = at[n] /\ on[n - 1] = at[n - 1]
        BY <3>2
      <4>. QED
        BY <3>2, <4>1 DEF IsTurning
    <3>3. CASE n = m + 1
      <4>1. on[n - 1] = at[m] /\ on[n] = TurnOf(walk, command, at[m], line[n])
        BY <3>3
      <4>. QED
        BY <3>3, <4>1
    <3>. QED
      BY <3>1, <3>2, <3>3
  <2>2. IsTurning(walk, command, line, m + 1, on)
    <3>. HIDE DEF on
    <3>1. on = [n \in 0 .. m + 1 |-> on[n]]
      BY DEF on
    <3>. QED
      BY <2>1, <3>1 DEF IsTurning
  <2>. QED
    BY <2>2, <1>2
<1>. HIDE DEF A
<1>3. N \in A
  BY <1>1, <1>2, Climb DEF A
<1>. QED
  BY <1>3 DEF A

Turns(walk, command, line, at) ==
  /\ at[0] = Start
  /\ \A n \in 1 .. Len(line) : at[n] = TurnOf(walk, command, at[n - 1], line[n])

LEMMA TurningTurns ==
  ASSUME NEW walk, NEW command, NEW line, Len(line) \in Nat
  PROVE  LET at == CHOOSE at : IsTurning(walk, command, line, Len(line), at)
         IN Turns(walk, command, line, at)
<1>. DEFINE at == CHOOSE f : IsTurning(walk, command, line, Len(line), f)
<1>1. IsTurning(walk, command, line, Len(line), at)
  BY TurningExists
<1>. HIDE DEF at
<1>2. Turns(walk, command, line, at)
  BY <1>1 DEF IsTurning, Turns
<1>. QED
  BY <1>2 DEF at

LEMMA SanitizeWalks ==
  ASSUME NEW command, Len(command.line) \in Nat
  PROVE  \E at : /\ Turns("sanitize", command, command.line, at)
                 /\ SanitizeValidationCompileCommandArgs(command) = at[Len(command.line)].list
<1>. DEFINE at == CHOOSE f : IsTurning("sanitize", command, command.line, Len(command.line), f)
<1>1. SanitizeValidationCompileCommandArgs(command) = at[Len(command.line)].list
  BY DEF SanitizeValidationCompileCommandArgs, Walk, IsTurning, TurnOf, Start
<1>2. Turns("sanitize", command, command.line, at)
  BY TurningTurns
<1>. QED
  BY <1>1, <1>2

LEMMA ObserveWalks ==
  ASSUME NEW command, Len(command.line) \in Nat
  PROVE  \E at : /\ Turns("observe", command, command.line, at)
                 /\ ObserveCompileCommandPaths(command) =
                      << <<"directory", CommandDirectory(command)>>, <<"file", SourcePath(command)>> >>
                      \o at[Len(command.line)].list
<1>. DEFINE at == CHOOSE f : IsTurning("observe", command, command.line, Len(command.line), f)
<1>1. ObserveCompileCommandPaths(command) =
         << <<"directory", CommandDirectory(command)>>, <<"file", SourcePath(command)>> >>
         \o at[Len(command.line)].list
  BY DEF ObserveCompileCommandPaths, Walk, IsTurning, TurnOf, Start
<1>2. Turns("observe", command, command.line, at)
  BY TurningTurns
<1>. QED
  BY <1>1, <1>2

LEMMA NormalizeWalks ==
  ASSUME NEW args, Len(args) \in Nat
  PROVE  \E at : /\ Turns("normalize", {}, args, at)
                 /\ NormalizeCxx23StandardArgs(args) =
                      Append(at[Len(args)].list, Joined("-std=", <<"c++23">>))
<1>. DEFINE at == CHOOSE f : IsTurning("normalize", {}, args, Len(args), f)
<1>1. NormalizeCxx23StandardArgs(args) = Append(at[Len(args)].list, Joined("-std=", <<"c++23">>))
  BY DEF NormalizeCxx23StandardArgs, Walk, IsTurning, TurnOf, Start
<1>2. Turns("normalize", {}, args, at)
  BY TurningTurns
<1>. QED
  BY <1>1, <1>2

IsAt(at) == at = [option |-> at.option, list |-> at.list]

(* The option that awaits a value after the first n tokens *)
Pending(options, line, n) ==
  IF n > 0 /\ line[n].val = <<>> /\ line[n].opt \in options THEN line[n].opt ELSE NoOption

SanitizeOptions == IsSeparateValidationPathOption \union IsSeparateValidationValueOption

ObserveOptions == OutputOptions \union IsSeparatePathOption

LEMMA OptionFacts ==
  /\ NoOption \notin SanitizeOptions /\ NoOption \notin ObserveOptions
  /\ NoOption \notin RewriteJoinedValidationPathOption /\ NoOption \notin JoinedPathOptions
  /\ NoOption \notin IsJoinedValidationValueOption /\ NoOption # "-c" /\ NoOption \notin Never
  /\ "-c" \notin SanitizeOptions /\ "-c" \notin ObserveOptions
  /\ "-c" \notin JoinedPathOptions /\ "-c" \notin IsJoinedValidationValueOption
  /\ IsSeparateValidationPathOption \subseteq IsSeparatePathOption
  /\ RewriteJoinedValidationPathOption \subseteq JoinedPathOptions
  /\ \A o \in IsSeparateValidationPathOption : o \notin IsSeparateValidationValueOption
  /\ \A o \in IsSeparatePathOption : o \notin OutputOptions
  /\ \A o \in SanitizeOptions \union RewriteJoinedValidationPathOption
                \union IsJoinedValidationValueOption \union {"-pthread"} : o \notin Never
  /\ \A o \in IsSeparateValidationPathOption \union RewriteJoinedValidationPathOption :
       o # "-fmodules-cache-path="
  /\ \A o \in IsJoinedValidationValueOption \union {"-pthread"} :
       o \notin IsSeparateValidationPathOption /\ o \notin RewriteJoinedValidationPathOption
  /\ "-pthread" \notin SanitizeOptions
BY DEF NoOption, SanitizeOptions, ObserveOptions, IsSeparateValidationPathOption,
       IsSeparateValidationValueOption, IsSeparatePathOption, OutputOptions, JoinedPathOptions,
       RewriteJoinedValidationPathOption, IsJoinedValidationValueOption, Never

(* The values that a command line has for paths *)
LinePaths(command) ==
  {ResolveCommandPathArgument(command, command.line[k].val) :
     k \in {j \in DOMAIN command.line : IsPathToken(command.line, j)}}

LEMMA NextToken ==
  ASSUME NEW command, IsCompilerCommand(command), NEW n \in Nat, n < Len(command.line)
  PROVE  /\ n + 1 \in DOMAIN command.line /\ n + 1 > 0
         /\ n > 0 /\ Awaits(command.line[n]) =>
              /\ command.line[n + 1].opt = NoOption
              /\ command.line[n].opt \in IsSeparateValidationValueOption =>
                   ~IsAbsolute(command.line[n + 1].val)
<1>1. Len(command.line) \in Nat /\ DOMAIN command.line = 1 .. Len(command.line)
  BY DEF IsCompilerCommand
<1>2. n + 1 \in DOMAIN command.line /\ (n + 1) - 1 = n /\ (n > 0 => n + 1 > 1) /\ n + 1 > 0
  BY <1>1
<1>. QED
  BY <1>2 DEF IsCompilerCommand

LEMMA PathGiven ==
  ASSUME NEW command, NEW k \in DOMAIN command.line, IsPathToken(command.line, k)
  PROVE  ResolveCommandPathArgument(command, command.line[k].val) \in LinePaths(command)
BY DEF LinePaths

LEMMA Added ==
  ASSUME NEW G, NEW at, Shaped(at.list, G), NEW tokens, Shaped(tokens, G)
  PROVE  LET next == Adding(at, tokens)
         IN IsAt(next) /\ Shaped(next.list, G) /\ next.option = NoOption
<1>1. Shaped(at.list \o tokens, G)
  BY ShapedTogether
<1>. QED
  BY <1>1 DEF Adding, IsAt

LEMMA SanitizedStep ==
  ASSUME NEW command, IsCompilerCommand(command), NEW n \in Nat, n < Len(command.line),
         NEW at, IsAt(at), Shaped(at.list, LinePaths(command)),
         at.option = Pending(SanitizeOptions, command.line, n),
         NEW next, next = Sanitized(command, at, command.line[n + 1])
  PROVE  /\ IsAt(next) /\ Shaped(next.list, LinePaths(command))
         /\ next.option = Pending(SanitizeOptions, command.line, n + 1)
<1>. DEFINE G == LinePaths(command)
            line == command.line
            token == line[n + 1]
            resolved == ResolveCommandPathArgument(command, token.val)
<1>1. /\ n + 1 \in DOMAIN line /\ n + 1 > 0 /\ (n + 1) - 1 = n /\ (n > 0 => n + 1 > 1)
      /\ n > 0 /\ Awaits(line[n]) =>
           /\ token.opt = NoOption
           /\ line[n].opt \in IsSeparateValidationValueOption => ~IsAbsolute(token.val)
  BY NextToken
<1>2. IsPathToken(line, n + 1) => resolved \in G
  BY <1>1, PathGiven
<1>. HIDE DEF G, line, resolved
<1>3. Pending(SanitizeOptions, line, n + 1) =
        IF token.val = <<>> /\ token.opt \in SanitizeOptions THEN token.opt ELSE NoOption
  BY <1>1 DEF Pending
<1>. HIDE DEF token
<1>4. CASE at.option \in SanitizeOptions
  <2>1. n > 0 /\ line[n].val = <<>> /\ line[n].opt = at.option
    BY <1>4, OptionFacts DEF Pending, line
  <2>2. Awaits(line[n])
    BY <2>1, <1>4 DEF Awaits, SanitizeOptions, IsSeparatePathOption
  <2>3. token.opt = NoOption /\ Pending(SanitizeOptions, line, n + 1) = NoOption
    BY <1>1, <1>3, <2>1, <2>2, OptionFacts
  <2>4. CASE at.option \in IsSeparateValidationPathOption
    <3>1. IsPathToken(line, n + 1)
      <4>1. Asks(line[n])
        BY <2>1, <2>4 DEF Asks
      <4>. QED
        BY <1>1, <2>1, <4>1, PathTokens
    <3>2. Shaped(<<Opt(at.option), Val(resolved)>>, G)
      <4>1. Val(resolved).opt = NoOption /\ Val(resolved).val = resolved
        BY DEF Val
      <4>2. at.option \notin IsSeparateValidationValueOption
        BY <2>4, OptionFacts
      <4>. QED
        BY <1>2, <2>4, <3>1, <4>1, <4>2, ShapedPair
    <3>3. next = Adding(at, <<Opt(at.option), Val(resolved)>>)
      BY <2>4 DEF Sanitized, token, resolved, line
    <3>. QED
      BY <2>3, <3>2, <3>3, Added DEF G, line
  <2>5. CASE at.option \in IsSeparateValidationValueOption
    <3>1. at.option \notin IsSeparateValidationPathOption
      BY <2>5, OptionFacts
    <3>2. Shaped(<<Opt(at.option), token>>, G)
      <4>1. ~IsAbsolute(token.val)
        BY <1>1, <2>1, <2>2, <2>5
      <4>. QED
        BY <2>3, <2>5, <3>1, <4>1, ShapedPair
    <3>3. next = Adding(at, <<Opt(at.option), token>>)
      BY <2>5, <3>1 DEF Sanitized, token, line
    <3>. QED
      BY <2>3, <3>2, <3>3, Added DEF G, line
  <2>. QED
    BY <1>4, <2>4, <2>5 DEF SanitizeOptions
<1>5. CASE at.option \notin SanitizeOptions
  <2>0. at.option = NoOption
    BY <1>5, OptionFacts DEF Pending
  <2>. DEFINE passed == token.opt = "-c" \/ IsSourcePathArgument(command, token)
              awaiting == token.val = <<>> /\ token.opt \in SanitizeOptions
              joined == HoldsPath(token)
              valued == \/ token.val # <<>> /\ token.opt \in IsJoinedValidationValueOption
                        \/ token = Opt("-pthread")
  <2>1. /\ passed => ~awaiting /\ ~joined /\ ~valued
        /\ awaiting => ~joined /\ ~valued
        /\ joined => ~valued
    <3>1. IsSourcePathArgument(command, token) => token.opt = NoOption /\ token.val # <<>>
      BY DEF IsSourcePathArgument
    <3>2. passed => token.opt = "-c" \/ token.opt = NoOption
      BY <3>1
    <3>3. token = Opt("-pthread") => token.opt = "-pthread" /\ token.val = <<>>
      BY DEF Opt
    <3>4. "-pthread" # "-c" /\ "-pthread" # NoOption
      BY DEF NoOption
    <3>. HIDE DEF passed
    <3>. QED
      BY <3>2, <3>3, <3>4, OptionFacts DEF HoldsPath
  <2>2. next = CASE passed -> at
                 [] awaiting -> [at EXCEPT !.option = token.opt]
                 [] joined -> Adding(at, <<Joined(token.opt, resolved)>>)
                 [] valued -> Adding(at, <<token>>)
                 [] OTHER -> at
    BY <1>5 DEF Sanitized, SanitizeOptions, HoldsPath, token, resolved, line
  <2>. HIDE DEF passed, awaiting, joined, valued
  <2>3. ~awaiting => Pending(SanitizeOptions, line, n + 1) = NoOption
    BY <1>3 DEF awaiting
  <2>4. CASE passed
    <3>1. next = at /\ ~awaiting
      BY <2>1, <2>2, <2>4
    <3>. QED
      BY <2>0, <2>3, <3>1 DEF line
  <2>5. CASE awaiting
    <3>1. next = [at EXCEPT !.option = token.opt]
      BY <2>1, <2>2, <2>5
    <3>2. IsAt(next) /\ next.list = at.list /\ next.option = token.opt
      BY <3>1 DEF IsAt
    <3>3. Pending(SanitizeOptions, line, n + 1) = token.opt
      BY <1>3, <2>5 DEF awaiting
    <3>. QED
      BY <3>2, <3>3 DEF line
  <2>6. CASE joined
    <3>1. next = Adding(at, <<Joined(token.opt, resolved)>>) /\ ~awaiting
      BY <2>1, <2>2, <2>6
    <3>2. IsPathToken(line, n + 1)
      BY <2>6, PathTokens DEF joined, token
    <3>3. Shaped(<<Joined(token.opt, resolved)>>, G)
      <4>. DEFINE one == Joined(token.opt, resolved)
      <4>1. one.opt = token.opt /\ one.val = resolved
        BY DEF Joined
      <4>2. token.opt \in RewriteJoinedValidationPathOption
        BY <2>6 DEF joined, HoldsPath
      <4>3. resolved # <<>>
        BY DEF resolved, ResolveCommandPathArgument, Rooted
      <4>. HIDE DEF one
      <4>4. one.opt \notin Never /\ one.opt # NoOption /\ ~Asks(one)
        BY <4>1, <4>2, <4>3, OptionFacts DEF Asks
      <4>5. Shaped(<<one>>, G)
        BY <1>2, <3>2, <4>1, <4>4, ShapedOne
      <4>. QED
        BY <4>5 DEF one
    <3>. QED
      BY <2>3, <3>1, <3>3, Added DEF G, line
  <2>7. CASE valued
    <3>1. next = Adding(at, <<token>>) /\ ~awaiting
      BY <2>1, <2>2, <2>7
    <3>2. token.opt \in IsJoinedValidationValueOption \union {"-pthread"}
      BY <2>7 DEF valued, Opt
    <3>3. token.opt \notin Never /\ ~Asks(token) /\ ~HoldsPath(token) /\ token.opt # NoOption
      BY <3>2, OptionFacts DEF Asks, HoldsPath, NoOption
    <3>4. Shaped(<<token>>, G)
      BY <3>3, ShapedOne
    <3>. QED
      BY <2>3, <3>1, <3>4, Added DEF G, line
  <2>8. CASE ~passed /\ ~awaiting /\ ~joined /\ ~valued
    <3>1. next = at
      BY <2>2, <2>8
    <3>. QED
      BY <2>0, <2>3, <2>8, <3>1 DEF line
  <2>. QED
    BY <2>4, <2>5, <2>6, <2>7, <2>8
<1>. QED
  BY <1>4, <1>5

LEMMA SanitizedShaped ==
  ASSUME NEW command, IsCompilerCommand(command)
  PROVE  Shaped(SanitizeValidationCompileCommandArgs(command), LinePaths(command))
<1>. DEFINE G == LinePaths(command)
            line == command.line
            N == Len(line)
<1>1. N \in Nat
  BY DEF IsCompilerCommand
<1>2. PICK at : /\ Turns("sanitize", command, line, at)
                /\ SanitizeValidationCompileCommandArgs(command) = at[N].list
  BY <1>1, SanitizeWalks
<1>. DEFINE A == {n \in 0 .. N : /\ IsAt(at[n]) /\ Shaped(at[n].list, G)
                                 /\ at[n].option = Pending(SanitizeOptions, line, n)}
<1>3. 0 \in A
  <2>1. at[0] = Start
    BY <1>2 DEF Turns
  <2>2. IsAt(Start) /\ Start.list = <<>> /\ Start.option = NoOption
    BY DEF IsAt, Start
  <2>3. Pending(SanitizeOptions, line, 0) = NoOption
    BY DEF Pending
  <2>. HIDE DEF G, line
  <2>4. 0 \in 0 .. N
    BY <1>1
  <2>. QED
    BY <2>1, <2>2, <2>3, <2>4, ShapedNone
<1>4. ASSUME NEW n \in A, n < N
      PROVE  n + 1 \in A
  <2>1. n \in Nat /\ n + 1 \in 1 .. N /\ n + 1 \in 0 .. N /\ (n + 1) - 1 = n
    BY <1>1, <1>4
  <2>2. at[n + 1] = Sanitized(command, at[n], line[n + 1])
    BY <1>2, <2>1 DEF Turns, TurnOf
  <2>3. /\ IsAt(at[n]) /\ Shaped(at[n].list, G)
        /\ at[n].option = Pending(SanitizeOptions, line, n)
    BY <1>4
  <2>4. /\ IsAt(at[n + 1]) /\ Shaped(at[n + 1].list, G)
        /\ at[n + 1].option = Pending(SanitizeOptions, line, n + 1)
    BY ONLY <1>4, <2>1, <2>2, <2>3, IsCompilerCommand(command), SanitizedStep
  <2>. QED
    BY <2>1, <2>4
<1>. HIDE DEF A
<1>5. N \in A
  BY <1>1, <1>3, <1>4, Climb DEF A
<1>. QED
  BY <1>2, <1>5 DEF A

(* A token for a path that has been seen to be there *)
Looked(command, list, token) ==
  \E o \in Range(list) : /\ o[2] = CommandRelativePath(command, token.val)
                         /\ o[1] # "-fmodules-cache-path="

LEMMA ObservedStep ==
  ASSUME NEW command, IsCompilerCommand(command), NEW n \in Nat, n < Len(command.line),
         NEW at, IsAt(at), IsList(at.list),
         at.option = Pending(ObserveOptions, command.line, n),
         NEW next, next = Observed(command, at, command.line[n + 1])
  PROVE  /\ IsAt(next) /\ IsList(next.list) /\ Range(at.list) \subseteq Range(next.list)
         /\ next.option = Pending(ObserveOptions, command.line, n + 1)
         /\ IsPathToken(command.line, n + 1) => Looked(command, next.list, command.line[n + 1])
<1>. DEFINE line == command.line
            token == line[n + 1]
            path == CommandRelativePath(command, token.val)
            IsPath == IsPathToken(line, n + 1)
            Good == /\ IsAt(next) /\ IsList(next.list) /\ Range(at.list) \subseteq Range(next.list)
                    /\ next.option = Pending(ObserveOptions, line, n + 1)
                    /\ IsPath => Looked(command, next.list, token)
<1>1. /\ n + 1 > 0 /\ (n + 1) - 1 = n /\ (n > 0 <=> n + 1 > 1)
      /\ n > 0 /\ Awaits(line[n]) => token.opt = NoOption
  BY NextToken
<1>2. Pending(ObserveOptions, line, n + 1) =
        IF token.val = <<>> /\ token.opt \in ObserveOptions THEN token.opt ELSE NoOption
  BY <1>1 DEF Pending
<1>3. IsPath <=> HoldsPath(token) \/ (n > 0 /\ Asks(line[n]))
  BY <1>1, PathTokens
<1>4. n > 0 /\ Asks(line[n]) <=> at.option \in IsSeparateValidationPathOption
  <2>1. n > 0 /\ Asks(line[n]) => at.option = line[n].opt
    BY OptionFacts DEF Asks, Pending, ObserveOptions, line
  <2>2. at.option # NoOption => n > 0 /\ line[n].val = <<>> /\ line[n].opt = at.option
    BY DEF Pending, line
  <2>3. NoOption \notin IsSeparateValidationPathOption
    BY OptionFacts DEF SanitizeOptions
  <2>. QED
    BY <2>1, <2>2, <2>3 DEF Asks
<1>. SUFFICES Good
  OBVIOUS
<1>. HIDE DEF IsPath
<1>5. ASSUME NEW option, next = Adding(at, << <<option, path>> >>),
             IsPath => option # "-fmodules-cache-path=",
             Pending(ObserveOptions, line, n + 1) = NoOption
      PROVE  Good
  <2>. DEFINE pair == <<option, path>>
              one == <<pair>>
              old == at.list
              more == old \o one
  <2>1. pair[1] = option /\ pair[2] = path
    OBVIOUS
  <2>. HIDE DEF pair
  <2>2. IsList(one) /\ Range(one) = {pair}
    BY OneIsList
  <2>. HIDE DEF one, old
  <2>3. IsList(more) /\ Range(more) = Range(old) \union {pair}
    <3>1. IsList(old)
      BY DEF old
    <3>. QED
      BY ONLY <2>2, <3>1, Together
  <2>. HIDE DEF more
  <2>4. next = [option |-> NoOption, list |-> more]
    BY <1>5 DEF Adding, pair, one, old, more
  <2>5. IsAt(next) /\ next.list = more /\ next.option = NoOption
    BY <2>4 DEF IsAt
  <2>6. IsPath => Looked(command, more, token)
    BY <1>5, <2>1, <2>3 DEF Looked
  <2>. QED
    BY <1>5, <2>3, <2>5, <2>6 DEF old
<1>. HIDE DEF line, path
<1>6. ASSUME next = at, at.option = NoOption, ~IsPath, Pending(ObserveOptions, line, n + 1) = NoOption
      PROVE  Good
  BY <1>6
<1>7. CASE at.option # NoOption
  <2>1. n > 0 /\ line[n].val = <<>> /\ line[n].opt = at.option /\ at.option \in ObserveOptions
    BY <1>7 DEF Pending, line
  <2>2. Awaits(line[n])
    BY <2>1 DEF Awaits, ObserveOptions
  <2>3. token.opt = NoOption /\ Pending(ObserveOptions, line, n + 1) = NoOption
    BY <1>1, <1>2, <2>1, <2>2, OptionFacts
  <2>4. ~HoldsPath(token)
    BY <2>3, OptionFacts DEF HoldsPath
  <2>5. CASE at.option \in OutputOptions
    <3>1. next = [at EXCEPT !.option = NoOption]
      BY <2>5 DEF Observed, token, line
    <3>2. IsAt(next) /\ next.list = at.list /\ next.option = NoOption
      BY <3>1 DEF IsAt
    <3>3. at.option \notin IsSeparateValidationPathOption
      BY <2>5, OptionFacts
    <3>. QED
      BY <1>3, <1>4, <2>3, <2>4, <3>2, <3>3
  <2>6. CASE at.option \notin OutputOptions
    <3>1. next = Adding(at, << <<at.option, path>> >>)
      BY <1>7, <2>6 DEF Observed, token, line, path
    <3>2. IsPath => at.option # "-fmodules-cache-path="
      BY <1>3, <1>4, <2>4, OptionFacts
    <3>. QED
      BY <1>5, <2>3, <3>1, <3>2
  <2>. QED
    BY <2>5, <2>6
<1>8. CASE at.option = NoOption
  <2>. DEFINE passed == token.opt = "-c" \/ IsSourcePathArgument(command, token)
              awaiting == token.val = <<>> /\ token.opt \in ObserveOptions
              joined == token.val # <<>> /\ token.opt \in JoinedPathOptions
  <2>1. /\ passed => ~awaiting /\ ~joined
        /\ awaiting => ~joined
    <3>1. passed => token.opt = "-c" \/ token.opt = NoOption
      BY DEF IsSourcePathArgument
    <3>. HIDE DEF passed
    <3>. QED
      BY <3>1, OptionFacts
  <2>2. next = CASE passed -> at
                 [] awaiting -> [at EXCEPT !.option = token.opt]
                 [] joined -> Adding(at, << <<token.opt, path>> >>)
                 [] OTHER -> at
    <3>1. NoOption \notin OutputOptions
      BY OptionFacts DEF ObserveOptions
    <3>. QED
      BY <1>8, <3>1 DEF Observed, ObserveOptions, token, path, line
  <2>3. IsPath => joined /\ token.opt # "-fmodules-cache-path="
    <3>1. at.option \notin IsSeparateValidationPathOption
      BY <1>8, OptionFacts DEF SanitizeOptions
    <3>. QED
      BY <1>3, <1>4, <3>1, OptionFacts DEF HoldsPath
  <2>. HIDE DEF passed, awaiting, joined
  <2>4. ~awaiting => Pending(ObserveOptions, line, n + 1) = NoOption
    BY <1>2 DEF awaiting
  <2>5. CASE passed
    BY <1>6, <1>8, <2>1, <2>2, <2>3, <2>4, <2>5
  <2>6. CASE awaiting
    <3>1. next = [at EXCEPT !.option = token.opt]
      BY <2>1, <2>2, <2>6
    <3>2. IsAt(next) /\ next.list = at.list /\ next.option = token.opt
      BY <3>1 DEF IsAt
    <3>3. Pending(ObserveOptions, line, n + 1) = token.opt
      BY <1>2, <2>6 DEF awaiting
    <3>. QED
      BY <2>1, <2>3, <2>6, <3>2, <3>3
  <2>7. CASE joined
    <3>1. next = Adding(at, << <<token.opt, path>> >>)
      BY <2>1, <2>2, <2>7
    <3>. QED
      BY <1>5, <2>1, <2>3, <2>4, <2>7, <3>1
  <2>8. CASE ~passed /\ ~awaiting /\ ~joined
    BY <1>6, <1>8, <2>2, <2>3, <2>4, <2>8
  <2>. QED
    BY <2>5, <2>6, <2>7, <2>8
<1>. QED
  BY <1>7, <1>8

LEMMA AllObserved ==
  ASSUME NEW command, IsCompilerCommand(command)
  PROVE  /\ IsList(ObserveCompileCommandPaths(command))
         /\ \A k \in DOMAIN command.line : IsPathToken(command.line, k) =>
              Looked(command, ObserveCompileCommandPaths(command), command.line[k])
<1>. DEFINE line == command.line
            N == Len(line)
<1>1. N \in Nat /\ DOMAIN line = 1 .. N
  BY DEF IsCompilerCommand
<1>2. PICK at : /\ Turns("observe", command, line, at)
                /\ ObserveCompileCommandPaths(command) =
                     << <<"directory", CommandDirectory(command)>>, <<"file", SourcePath(command)>> >>
                     \o at[N].list
  BY <1>1, ObserveWalks
<1>. DEFINE A == {n \in 0 .. N : /\ IsAt(at[n]) /\ IsList(at[n].list)
                                 /\ at[n].option = Pending(ObserveOptions, line, n)
                                 /\ \A k \in 1 .. N : k <= n /\ IsPathToken(line, k) =>
                                      Looked(command, at[n].list, line[k])}
<1>3. 0 \in A
  <2>1. at[0] = Start
    BY <1>2 DEF Turns
  <2>2. IsAt(Start) /\ Start.list = <<>> /\ Start.option = NoOption
    BY DEF IsAt, Start
  <2>3. Pending(ObserveOptions, line, 0) = NoOption
    BY DEF Pending
  <2>. HIDE DEF line
  <2>4. 0 \in 0 .. N /\ \A k \in 1 .. N : ~(k <= 0)
    BY <1>1
  <2>. QED
    BY <2>1, <2>2, <2>3, <2>4, EmptyList
<1>4. ASSUME NEW n \in A, n < N
      PROVE  n + 1 \in A
  <2>1. n \in Nat /\ n + 1 \in 1 .. N /\ n + 1 \in 0 .. N /\ (n + 1) - 1 = n
    BY <1>1, <1>4
  <2>2. at[n + 1] = Observed(command, at[n], line[n + 1])
    BY <1>2, <2>1 DEF Turns, TurnOf
  <2>3. /\ IsAt(at[n]) /\ IsList(at[n].list)
        /\ at[n].option = Pending(ObserveOptions, line, n)
        /\ \A k \in 1 .. N : k <= n /\ IsPathToken(line, k) => Looked(command, at[n].list, line[k])
    BY <1>4
  <2>a. IsAt(at[n]) /\ IsList(at[n].list) /\ at[n].option = Pending(ObserveOptions, line, n)
    BY <2>3
  <2>4. /\ IsAt(at[n + 1]) /\ IsList(at[n + 1].list)
        /\ Range(at[n].list) \subseteq Range(at[n + 1].list)
        /\ at[n + 1].option = Pending(ObserveOptions, line, n + 1)
        /\ IsPathToken(line, n + 1) => Looked(command, at[n + 1].list, line[n + 1])
    BY ONLY <1>4, <2>1, <2>2, <2>a, IsCompilerCommand(command), ObservedStep
  <2>5. ASSUME NEW k \in 1 .. N, k <= n + 1, IsPathToken(line, k)
        PROVE  Looked(command, at[n + 1].list, line[k])
    <3>1. k = n + 1 \/ k <= n
      BY <1>1, <2>1, <2>5
    <3>2. CASE k <= n
      <4>1. Looked(command, at[n].list, line[k])
        BY <2>3, <2>5, <3>2
      <4>. QED
        BY <2>4, <4>1 DEF Looked
    <3>. QED
      BY <2>4, <2>5, <3>1, <3>2
  <2>. QED
    BY <2>1, <2>4, <2>5
<1>. HIDE DEF A
<1>5. N \in A
  BY <1>1, <1>3, <1>4, Climb DEF A
<1>6. /\ IsList(at[N].list)
      /\ \A k \in 1 .. N : IsPathToken(line, k) => Looked(command, at[N].list, line[k])
  <2>1. \A k \in 1 .. N : k <= N
    BY <1>1
  <2>. QED
    BY <1>5, <2>1 DEF A
<1>. DEFINE first == <<"directory", CommandDirectory(command)>>
            second == <<"file", SourcePath(command)>>
            begin == <<first, second>>
            rest == at[N].list
            all == begin \o rest
<1>7. ObserveCompileCommandPaths(command) = all
  BY <1>2
<1>. HIDE DEF first, second
<1>8. IsList(begin)
  BY TwoAreList
<1>9. IsList(rest)
  BY <1>6
<1>10. \A k \in 1 .. N : IsPathToken(line, k) => Looked(command, rest, line[k])
  BY <1>6
<1>. HIDE DEF begin, rest
<1>11. IsList(all) /\ Range(all) = Range(begin) \union Range(rest)
  BY ONLY <1>8, <1>9, Together
<1>. HIDE DEF all
<1>12. \A k \in 1 .. N : IsPathToken(line, k) => Looked(command, all, line[k])
  BY <1>10, <1>11 DEF Looked
<1>. QED
  BY <1>1, <1>7, <1>11, <1>12

LEMMA PathsExist ==
  ASSUME IsTree(tree), MapsOk, NEW command, IsCompilerCommand(command),
         NEW path \in LinePaths(command)
  PROVE  /\ IsAbsolute(path)
         /\ AddCompileCommandPathDiagnostics(command) = {} => PathExists(tree, Tail(path))
<1>1. PICK k \in DOMAIN command.line :
        /\ IsPathToken(command.line, k)
        /\ path = ResolveCommandPathArgument(command, command.line[k].val)
  BY DEF LinePaths
<1>. DEFINE found == CommandRelativePath(command, command.line[k].val)
<1>2. command.line[k].val \in Seq(STRING)
  <2>. DEFINE Token == [opt : STRING, val : Seq(STRING)]
              line == command.line
  <2>1. line \in Seq(Token) /\ k \in DOMAIN line
    BY DEF IsCompilerCommand
  <2>. HIDE DEF Token, line
  <2>2. line[k] \in Token
    BY <2>1
  <2>. QED
    BY <2>2 DEF Token, line
<1>3. found \in Seq(STRING)
  BY <1>2, CommandPathIsPath DEF IsCompilerCommand
<1>4. path = Rooted(found)
  BY <1>1 DEF ResolveCommandPathArgument
<1>5. PICK o \in Range(ObserveCompileCommandPaths(command)) :
        o[2] = found /\ o[1] # "-fmodules-cache-path="
  BY <1>1, AllObserved DEF Looked
<1>. HIDE DEF found
<1>6. IsAbsolute(path) /\ Tail(path) = found
  BY <1>3, <1>4, RootedIsAbsolute
<1>7. ASSUME AddCompileCommandPathDiagnostics(command) = {}
      PROVE  PathExists(tree, found)
  <2>1. ~IsMissing(o[1], o[2])
    BY <1>7 DEF AddCompileCommandPathDiagnostics
  <2>. QED
    BY <1>5, <2>1 DEF IsMissing, ShouldExpectDirectory, PathExists
<1>. QED
  BY <1>6, <1>7
-----------------------------------------------------------------------------
(* The one standard *)

(* What has been kept of a list, until the one standard is appended *)
Standards == {"-std=", "--std=", "-std", "--std"}

LastAsks(list) == Len(list) > 0 /\ Asks(list[Len(list)])

KeptSoFar(list, paths) ==
  /\ IsList(list)
  /\ \A k \in 1 .. Len(list) : FitsAt(list, k, paths) /\ list[k].opt \notin Standards
  /\ \A k \in 1 .. Len(list) : Asks(list[k]) /\ k < Len(list) => list[k + 1].opt = NoOption

LEMMA KeptOne ==
  ASSUME NEW G, NEW list, KeptSoFar(list, G),
         NEW token, token.opt \notin Never \union Standards,
         HoldsPath(token) \/ LastAsks(list) => token.val \in G,
         token.opt = NoOption => LastAsks(list) \/ ~IsAbsolute(token.val),
         LastAsks(list) => token.opt = NoOption
  PROVE  LET more == Append(list, token)
         IN KeptSoFar(more, G) /\ (LastAsks(more) <=> Asks(token))
<1>. DEFINE more == Append(list, token)
            N == Len(list)
<1>1. /\ N \in Nat /\ Len(more) = N + 1 /\ more[N + 1] = token
      /\ \A k \in 1 .. N : more[k] = list[k]
      /\ IsList(more)
  BY Grown DEF KeptSoFar
<1>. HIDE DEF more, N
<1>2. \A k \in 1 .. N : /\ FitsAt(list, k, G) /\ list[k].opt \notin Standards
                        /\ Asks(list[k]) /\ k < N => list[k + 1].opt = NoOption
  BY DEF KeptSoFar, N
<1>3. LastAsks(list) <=> N > 0 /\ Asks(list[N])
  BY DEF LastAsks, N
<1>4. LastAsks(more) <=> Asks(token)
  BY <1>1 DEF LastAsks
<1>5. ASSUME NEW k \in 1 .. N
      PROVE  /\ FitsAt(more, k, G) /\ more[k].opt \notin Standards
             /\ Asks(more[k]) => more[k + 1].opt = NoOption
  <2>1. more[k] = list[k] /\ (k > 1 => more[k - 1] = list[k - 1])
    BY <1>1
  <2>2. IsPathToken(more, k) <=> IsPathToken(list, k)
    BY <2>1, PathTokens
  <2>3. FitsAt(more, k, G)
    BY <1>2, <2>1, <2>2 DEF FitsAt
  <2>4. ASSUME Asks(more[k]) PROVE more[k + 1].opt = NoOption
    <3>1. CASE k < N
      <4>1. k + 1 \in 1 .. N
        BY <1>1, <3>1
      <4>2. list[k + 1].opt = NoOption
        BY <1>2, <2>1, <2>4, <3>1
      <4>. QED
        BY <1>1, <4>1, <4>2
    <3>2. CASE k = N
      <4>1. LastAsks(list)
        BY <1>1, <1>3, <2>1, <2>4, <3>2
      <4>. QED
        BY <1>1, <3>2, <4>1
    <3>. QED
      BY <1>1, <3>1, <3>2
  <2>. QED
    BY <1>2, <2>1, <2>3, <2>4
<1>6. FitsAt(more, N + 1, G)
  <2>1. IsPathToken(more, N + 1) <=> HoldsPath(token) \/ LastAsks(list)
    <3>1. (N + 1) - 1 = N /\ (N + 1 > 1 <=> N > 0) /\ (N > 0 => N \in 1 .. N)
      BY <1>1
    <3>2. N > 0 => more[N] = list[N]
      BY <1>1, <3>1
    <3>. QED
      BY <1>1, <1>3, <3>1, <3>2, PathTokens
  <2>. QED
    BY <1>1, <2>1 DEF FitsAt
<1>7. ASSUME NEW k \in 1 .. N + 1
      PROVE  /\ FitsAt(more, k, G) /\ more[k].opt \notin Standards
             /\ Asks(more[k]) /\ k < N + 1 => more[k + 1].opt = NoOption
  <2>1. CASE k \in 1 .. N
    BY <1>5, <2>1
  <2>2. CASE k = N + 1
    <3>1. ~(k < N + 1)
      BY <1>1, <2>2
    <3>. QED
      BY <1>1, <1>6, <2>2, <3>1
  <2>. QED
    BY <1>1, <2>1, <2>2
<1>8. KeptSoFar(more, G)
  BY <1>1, <1>7 DEF KeptSoFar
<1>. QED
  BY <1>4, <1>8 DEF more

(* The arguments before they are normalized: the first ones are shaped,    *)
(* and with those after them nothing is added that is a path.              *)
Composed(args, m, paths) ==
  /\ IsList(args) /\ m \in 0 .. Len(args)
  /\ \A k \in 1 .. m : /\ FitsAt(args, k, paths)
                       /\ Asks(args[k]) => k < m /\ args[k + 1].opt = NoOption
  /\ \A k \in m + 1 .. Len(args) : AddsNoPath(args[k])

NormalizedSoFar(args, m, paths, n, at) ==
  /\ IsAt(at) /\ KeptSoFar(at.list, paths)
  /\ n <= m => at.option = NoOption
  /\ LastAsks(at.list) <=> n > 0 /\ Asks(args[n])

LEMMA NormalizedStep ==
  ASSUME NEW G, NEW args, NEW m, Composed(args, m, G),
         NEW n \in Nat, n < Len(args),
         NEW at, NormalizedSoFar(args, m, G, n, at),
         NEW next, next = Normalized(at, args[n + 1])
  PROVE  NormalizedSoFar(args, m, G, n + 1, next)
<1>. DEFINE token == args[n + 1]
            Good == NormalizedSoFar(args, m, G, n + 1, next)
<1>1. /\ Len(args) \in Nat /\ m \in Nat
      /\ n + 1 > 0 /\ (n + 1) - 1 = n /\ (n > 0 <=> n + 1 > 1) /\ (n > 0 => n \in 1 .. Len(args))
      /\ n + 1 <= m => n + 1 \in 1 .. m /\ n <= m
      /\ ~(n + 1 <= m) => n + 1 \in m + 1 .. Len(args)
  BY DEF Composed, IsList
<1>2. IsAt(at) /\ KeptSoFar(at.list, G)
      /\ (n <= m => at.option = NoOption) /\ (LastAsks(at.list) <=> n > 0 /\ Asks(args[n]))
  BY DEF NormalizedSoFar
<1>3. LastAsks(at.list) => n + 1 <= m /\ token.opt = NoOption
  <2>1. ASSUME LastAsks(at.list) PROVE n + 1 <= m /\ token.opt = NoOption
    <3>1. n > 0 /\ Asks(args[n])
      BY <1>2, <2>1
    <3>2. n \in 1 .. m
      <4>1. CASE n > m
        <5>1. n \in m + 1 .. Len(args)
          BY <1>1, <4>1
        <5>2. AddsNoPath(args[n])
          BY <5>1 DEF Composed
        <5>. QED
          BY <3>1, <5>2 DEF AddsNoPath, Asks
      <4>. QED
        BY <1>1, <3>1, <4>1
    <3>3. n < m /\ token.opt = NoOption
      BY <3>1, <3>2 DEF Composed
    <3>. QED
      BY <1>1, <3>3
  <2>. QED
    BY <2>1
<1>4. IsPathToken(args, n + 1) <=> HoldsPath(token) \/ LastAsks(at.list)
  BY <1>1, <1>2, PathTokens
<1>5. ASSUME n + 1 <= m
      PROVE  /\ FitsAt(args, n + 1, G) /\ at.option = NoOption
             /\ token.opt \notin Never
             /\ HoldsPath(token) \/ LastAsks(at.list) => token.val \in G
             /\ token.opt = NoOption => LastAsks(at.list) \/ ~IsAbsolute(token.val)
  <2>1. FitsAt(args, n + 1, G)
    BY <1>1, <1>5 DEF Composed
  <2>2. token.opt = NoOption => ~HoldsPath(token)
    BY OptionFacts DEF HoldsPath
  <2>. HIDE DEF token
  <2>3. /\ token.opt \notin Never
        /\ IsPathToken(args, n + 1) => token.val \in G
        /\ token.opt = NoOption => IsPathToken(args, n + 1) \/ ~IsAbsolute(token.val)
    BY <2>1 DEF FitsAt, token
  <2>. QED
    BY <1>1, <1>2, <1>4, <1>5, <2>1, <2>2, <2>3
<1>6. ASSUME ~(n + 1 <= m)
      PROVE  /\ AddsNoPath(token) /\ ~Asks(token) /\ ~HoldsPath(token) /\ ~LastAsks(at.list)
  <2>1. AddsNoPath(token)
    BY <1>1, <1>6 DEF Composed
  <2>. QED
    BY <1>3, <1>6, <2>1 DEF AddsNoPath, Asks, HoldsPath
<1>7. ASSUME NEW option, next = [at EXCEPT !.option = option], ~(n + 1 <= m)
      PROVE  Good
  <2>1. IsAt(next) /\ next.list = at.list
    BY <1>2, <1>7 DEF IsAt
  <2>2. ~LastAsks(at.list) /\ ~Asks(args[n + 1])
    BY <1>6, <1>7
  <2>. QED
    BY <1>2, <1>7, <2>1, <2>2 DEF NormalizedSoFar
<1>8. CASE at.option # NoOption
  <2>1. next = [at EXCEPT !.option = NoOption]
    BY <1>8 DEF Normalized
  <2>2. ~(n + 1 <= m)
    BY <1>1, <1>2, <1>8
  <2>. QED
    BY <1>7, <2>1, <2>2
<1>9. CASE at.option = NoOption
  <2>. DEFINE separate == token.val = <<>> /\ token.opt \in {"-std", "--std"}
              joined == token.opt \in {"-std=", "--std="}
  <2>0. separate => ~joined
    OBVIOUS
  <2>1. next = CASE separate -> [at EXCEPT !.option = token.opt]
                 [] joined -> at
                 [] OTHER -> Adding(at, <<token>>)
    BY <1>9 DEF Normalized
  <2>2. CASE separate
    <3>1. next = [at EXCEPT !.option = token.opt]
      BY <2>0, <2>1, <2>2
    <3>2. ~(n + 1 <= m)
      BY <1>5, <2>2 DEF Never
    <3>. QED
      BY <1>7, <3>1, <3>2
  <2>3. CASE joined
    <3>1. next = at
      BY <2>0, <2>1, <2>3
    <3>2. token.opt # NoOption /\ ~Asks(token)
      BY <2>3 DEF NoOption, Asks, IsSeparateValidationPathOption
    <3>3. ~LastAsks(at.list) /\ ~Asks(args[n + 1])
      BY <1>3, <3>2
    <3>. QED
      BY <1>2, <1>9, <3>1, <3>3 DEF NormalizedSoFar
  <2>4. CASE ~separate /\ ~joined
    <3>. DEFINE list == at.list
                more == Append(list, token)
    <3>1. next = Adding(at, <<token>>)
      BY <2>1, <2>4
    <3>2. next.list = list \o <<token>> /\ next.option = NoOption /\ IsAt(next)
      BY <3>1 DEF Adding, IsAt
    <3>3. list \o <<token>> = more
      <4>1. IsList(list)
        BY <1>2 DEF KeptSoFar
      <4>. HIDE DEF list, token
      <4>. QED
        BY <4>1 DEF IsList
    <3>4. token.opt \notin Never \union Standards
      <4>1. CASE n + 1 <= m
        BY <1>5, <2>4, <4>1 DEF Standards, Never
      <4>2. CASE ~(n + 1 <= m)
        BY <1>6, <2>4, <4>2 DEF AddsNoPath, Standards, Never
      <4>. QED
        BY <4>1, <4>2
    <3>5. /\ HoldsPath(token) \/ LastAsks(list) => token.val \in G
          /\ token.opt = NoOption => LastAsks(list) \/ ~IsAbsolute(token.val)
          /\ LastAsks(list) => token.opt = NoOption
      <4>1. CASE n + 1 <= m
        BY <1>3, <1>5, <4>1
      <4>2. CASE ~(n + 1 <= m)
        BY <1>6, <4>2 DEF AddsNoPath
      <4>. QED
        BY <4>1, <4>2
    <3>6. KeptSoFar(list, G)
      BY <1>2
    <3>. HIDE DEF list, token
    <3>7. KeptSoFar(more, G) /\ (LastAsks(more) <=> Asks(token))
      BY ONLY <3>4, <3>5, <3>6, KeptOne
    <3>. QED
      BY <1>1, <3>2, <3>3, <3>7 DEF NormalizedSoFar, token
  <2>. QED
    BY <2>2, <2>3, <2>4
<1>. QED
  BY <1>8, <1>9

ArgsFit(args, paths) == Shaped(args, paths) /\ StandardIn(args) = {Len(args)}

LEMMA FitsMore ==
  ASSUME NEW G, NEW H, G \subseteq H, NEW list, ArgsFit(list, G)
  PROVE  ArgsFit(list, H)
BY ShapedMore DEF ArgsFit

LEMMA NormalizedFits ==
  ASSUME NEW G, NEW args, NEW m, Composed(args, m, G)
  PROVE  ArgsFit(NormalizeCxx23StandardArgs(args), G)
<1>. DEFINE N == Len(args)
            token == Joined("-std=", <<"c++23">>)
<1>1. N \in Nat /\ m \in 0 .. N
  BY DEF Composed, IsList
<1>2. PICK at : /\ Turns("normalize", {}, args, at)
                /\ NormalizeCxx23StandardArgs(args) = Append(at[N].list, token)
  BY <1>1, NormalizeWalks
<1>. HIDE DEF token
<1>. DEFINE A == {n \in 0 .. N : NormalizedSoFar(args, m, G, n, at[n])}
<1>3. 0 \in A
  <2>1. at[0] = Start
    BY <1>2 DEF Turns
  <2>2. IsAt(Start) /\ Start.list = <<>> /\ Start.option = NoOption
    BY DEF IsAt, Start
  <2>3. IsList(<<>>) /\ Len(<<>>) = 0
    BY EmptyList
  <2>4. KeptSoFar(<<>>, G) /\ ~LastAsks(<<>>)
    BY <2>3 DEF KeptSoFar, LastAsks
  <2>5. 0 \in 0 .. N /\ ~(0 > 0)
    BY <1>1
  <2>. QED
    BY <2>1, <2>2, <2>4, <2>5 DEF NormalizedSoFar
<1>4. ASSUME NEW n \in A, n < N
      PROVE  n + 1 \in A
  <2>1. n \in Nat /\ n + 1 \in 1 .. N /\ n + 1 \in 0 .. N /\ (n + 1) - 1 = n
    BY <1>1, <1>4
  <2>2. at[n + 1] = Normalized(at[n], args[n + 1])
    BY <1>2, <2>1 DEF Turns, TurnOf
  <2>3. NormalizedSoFar(args, m, G, n, at[n])
    BY <1>4
  <2>4. NormalizedSoFar(args, m, G, n + 1, at[n + 1])
    BY ONLY <1>4, <2>1, <2>2, <2>3, Composed(args, m, G), NormalizedStep
  <2>. QED
    BY <2>1, <2>4
<1>. HIDE DEF A
<1>5. N \in A
  BY <1>1, <1>3, <1>4, Climb DEF A
<1>. DEFINE list == at[N].list
<1>6. KeptSoFar(list, G) /\ (LastAsks(list) <=> N > 0 /\ Asks(args[N]))
  BY <1>5 DEF A, NormalizedSoFar
<1>7. ~LastAsks(list)
  <2>1. SUFFICES ASSUME N > 0, Asks(args[N]) PROVE FALSE
    BY <1>6
  <2>2. CASE N \in 1 .. m
    <3>1. N < m
      BY <2>1, <2>2 DEF Composed
    <3>. QED
      BY <1>1, <3>1
  <2>3. CASE N \notin 1 .. m
    <3>1. N \in m + 1 .. N
      BY <1>1, <2>1, <2>3
    <3>2. AddsNoPath(args[N])
      BY <3>1 DEF Composed
    <3>. QED
      BY <2>1, <3>2 DEF AddsNoPath, Asks
  <2>. QED
    BY <2>2, <2>3
<1>. DEFINE all == Append(list, token)
<1>. HIDE DEF list
<1>8. IsList(list) /\ Len(list) \in Nat
  BY <1>6 DEF KeptSoFar, IsList
<1>9. Shaped(list, G)
  <2>1. ASSUME NEW k \in 1 .. Len(list), Asks(list[k])
        PROVE  k < Len(list) /\ list[k + 1].opt = NoOption
    <3>1. k # Len(list)
      BY <1>7, <1>8, <2>1 DEF LastAsks
    <3>2. k < Len(list)
      BY <1>8, <3>1
    <3>. QED
      BY <1>6, <2>1, <3>2 DEF KeptSoFar
  <2>. QED
    BY <1>6, <2>1 DEF KeptSoFar, Shaped
<1>10. token.opt = "-std="
  BY DEF token, Joined
<1>11. Shaped(<<token>>, G)
  <2>1. /\ token.opt \notin Never /\ ~Asks(token) /\ ~HoldsPath(token) /\ token.opt # NoOption
    BY <1>10 DEF Never, OutputOptions, Asks, HoldsPath, IsSeparateValidationPathOption,
                 RewriteJoinedValidationPathOption, NoOption
  <2>. QED
    BY <2>1, ShapedOne
<1>12. Shaped(all, G)
  <2>1. list \o <<token>> = all
    BY <1>8 DEF IsList
  <2>2. Shaped(list \o <<token>>, G)
    BY ONLY <1>9, <1>11, ShapedTogether
  <2>. QED
    BY <2>1, <2>2
<1>13. /\ Len(all) = Len(list) + 1 /\ all[Len(list) + 1] = token /\ DOMAIN all = 1 .. Len(list) + 1
       /\ \A k \in 1 .. Len(list) : all[k] = list[k]
  BY <1>8, Grown
<1>. HIDE DEF all
<1>14. StandardIn(all) = {Len(all)}
  <2>1. ASSUME NEW k \in DOMAIN all
        PROVE  all[k].opt \in Standards <=> k = Len(list) + 1
    <3>1. CASE k \in 1 .. Len(list)
      <4>1. list[k].opt \notin Standards
        BY <1>6, <3>1 DEF KeptSoFar
      <4>. QED
        BY <1>8, <1>13, <3>1, <4>1
    <3>2. CASE k = Len(list) + 1
      BY <1>10, <1>13, <3>2 DEF Standards
    <3>. QED
      BY <1>8, <1>13, <3>1, <3>2
  <2>2. Len(list) + 1 \in DOMAIN all
    BY <1>8, <1>13
  <2>. QED
    BY <1>13, <2>1, <2>2 DEF StandardIn, Standards
<1>. QED
  BY <1>2, <1>12, <1>14 DEF ArgsFit, all, list

LEMMA Composes ==
  ASSUME NEW G, NEW s, Shaped(s, G), NEW t, IsList(t), \A token \in Range(t) : AddsNoPath(token)
  PROVE  Composed(s \o t, Len(s), G)
<1>. DEFINE both == s \o t
            M == Len(s)
<1>1. /\ IsList(both) /\ M \in Nat /\ Len(t) \in Nat /\ Len(both) = M + Len(t)
      /\ \A k \in 1 .. M : both[k] = s[k]
      /\ \A k \in 1 .. Len(t) : both[M + k] = t[k]
  <2>1. IsList(s)
    BY DEF Shaped
  <2>. QED
    BY ONLY <2>1, IsList(t), Joins
<1>2. \A k \in 1 .. M : FitsAt(s, k, G) /\ (Asks(s[k]) => k < M /\ s[k + 1].opt = NoOption)
  BY DEF Shaped
<1>. HIDE DEF both, M
<1>3. ASSUME NEW k \in 1 .. M
      PROVE  FitsAt(both, k, G) /\ (Asks(both[k]) => k < M /\ both[k + 1].opt = NoOption)
  <2>1. both[k] = s[k] /\ (k > 1 => both[k - 1] = s[k - 1])
    BY <1>1
  <2>2. IsPathToken(both, k) <=> IsPathToken(s, k)
    BY <2>1, PathTokens
  <2>3. FitsAt(both, k, G)
    BY <1>2, <2>1, <2>2 DEF FitsAt
  <2>4. ASSUME Asks(both[k]) PROVE k < M /\ both[k + 1].opt = NoOption
    <3>1. k < M /\ s[k + 1].opt = NoOption
      BY <1>2, <2>1, <2>4
    <3>2. k + 1 \in 1 .. M
      BY <1>1, <3>1
    <3>. QED
      BY <1>1, <3>1, <3>2
  <2>. QED
    BY <2>3, <2>4
<1>4. ASSUME NEW k \in M + 1 .. Len(both)
      PROVE  AddsNoPath(both[k])
  <2>1. PICK j \in 1 .. Len(t) : k = M + j
    <3>1. k - M \in 1 .. Len(t) /\ k = M + (k - M)
      BY <1>1
    <3>. QED
      BY <3>1
  <2>2. t[j] \in Range(t)
    BY DEF IsList, Range
  <2>. QED
    BY <1>1, <2>1, <2>2
<1>5. M \in 0 .. Len(both)
  BY <1>1
<1>6. Composed(both, M, G)
  BY <1>1, <1>3, <1>4, <1>5 DEF Composed
<1>. QED
  BY <1>6 DEF both, M

(* Tokens that are made from the values of an option *)
LEMMA MadeFrom ==
  ASSUME NEW values, IsList(values), NEW list, list = [k \in DOMAIN values |-> list[k]]
  PROVE  IsList(list) /\ \A token \in Range(list) : \E k \in DOMAIN values : token = list[k]
<1>1. Len(values) \in Nat /\ DOMAIN values = 1 .. Len(values)
  BY DEF IsList
<1>2. DOMAIN list = 1 .. Len(values)
  BY <1>1
<1>3. \A k \in 1 .. Len(values) : list[k] \in Range(list)
  BY <1>2 DEF Range
<1>4. list \in [1 .. Len(values) -> Range(list)]
  BY <1>1, <1>3
<1>5. list \in Seq(Range(list))
  BY <1>1, <1>4
<1>. QED
  BY <1>5 DEF IsList, Range

ListsOk ==
  /\ \A o \in {"--include-dir", "--define", "--extra-arg"} : IsList(config[o])
  /\ MapsOk

AddedPaths ==
  {Rooted(LinkFree(d)) : d \in Range(config["--include-dir"])} \union {Rooted(project_root)}

LEMMA IncludesShaped ==
  ASSUME ListsOk
  PROVE  Shaped(ExtraIncludeArgs, AddedPaths)
<1>. DEFINE directories == config["--include-dir"]
            L == Len(directories)
            list == ExtraIncludeArgs
            Place(k) == IF k % 2 = 1 THEN Opt("-I") ELSE Val(Rooted(LinkFree(directories[k \div 2])))
<1>1. L \in Nat /\ DOMAIN directories = 1 .. L /\ 2 * L \in Nat
  BY DEF ListsOk, IsList
<1>2. list = [k \in 1 .. 2 * L |-> Place(k)]
  BY DEF ExtraIncludeArgs
<1>. HIDE DEF list, Place
<1>3. DOMAIN list = 1 .. 2 * L /\ \A k \in 1 .. 2 * L : list[k] = Place(k)
  BY <1>2
<1>. HIDE DEF L
<1>4. IsList(list) /\ Len(list) = 2 * L
  <2>1. \A k \in 1 .. 2 * L : list[k] \in Range(list)
    BY <1>3 DEF Range
  <2>2. list \in [1 .. 2 * L -> Range(list)]
    BY <1>2, <2>1
  <2>3. list \in Seq(Range(list)) /\ Len(list) = 2 * L
    BY <1>1, <2>2
  <2>. QED
    BY <2>3 DEF IsList
<1>5. Opt("-I").opt = "-I" /\ Opt("-I").val = <<>>
  BY DEF Opt
<1>6. /\ "-I" \in IsSeparateValidationPathOption /\ "-I" \notin Never /\ "-I" # NoOption
      /\ NoOption \notin IsSeparateValidationPathOption /\ NoOption \notin Never
  BY DEF IsSeparateValidationPathOption, Never, OutputOptions, NoOption
<1>7. ASSUME NEW k \in 1 .. 2 * L, k % 2 = 1
      PROVE  /\ list[k].opt = "-I" /\ list[k].val = <<>>
             /\ k < 2 * L /\ k + 1 \in 1 .. 2 * L /\ (k + 1) % 2 # 1
             /\ k > 1 => k - 1 \in 1 .. 2 * L /\ (k - 1) % 2 # 1
  <2>1. list[k] = Opt("-I")
    BY <1>3, <1>7 DEF Place
  <2>2. k < 2 * L
    BY ONLY <1>1, <1>7
  <2>3. (k + 1) % 2 # 1 /\ (k > 1 => (k - 1) % 2 # 1)
    BY ONLY <1>1, <1>7
  <2>. QED
    BY <1>1, <1>5, <2>1, <2>2, <2>3
<1>8. ASSUME NEW k \in 1 .. 2 * L, k % 2 # 1
      PROVE  /\ list[k].opt = NoOption /\ list[k].val \in AddedPaths
             /\ k > 1 /\ k - 1 \in 1 .. 2 * L /\ (k - 1) % 2 = 1
  <2>1. k \div 2 \in 1 .. L
    BY ONLY <1>1, <1>8
  <2>2. list[k] = Val(Rooted(LinkFree(directories[k \div 2])))
    BY <1>3, <1>8 DEF Place
  <2>3. directories[k \div 2] \in Range(directories)
    BY <1>1, <2>1 DEF Range
  <2>4. k > 1 /\ k - 1 \in 1 .. 2 * L /\ (k - 1) % 2 = 1
    BY ONLY <1>1, <1>8
  <2>5. list[k].opt = NoOption /\ list[k].val = Rooted(LinkFree(directories[k \div 2]))
    BY <2>2 DEF Val
  <2>. QED
    BY <2>3, <2>4, <2>5 DEF AddedPaths
<1>9. ASSUME NEW k \in 1 .. 2 * L
      PROVE  /\ FitsAt(list, k, AddedPaths)
             /\ Asks(list[k]) => k < 2 * L /\ list[k + 1].opt = NoOption
  <2>1. CASE k % 2 = 1
    <3>1. ~IsPathToken(list, k)
      <4>1. ~HoldsPath(list[k])
        BY <1>7, <2>1 DEF HoldsPath
      <4>2. k > 1 => ~Asks(list[k - 1])
        BY <1>6, <1>7, <1>8, <2>1 DEF Asks
      <4>. QED
        BY <4>1, <4>2, PathTokens
    <3>2. FitsAt(list, k, AddedPaths)
      BY <1>6, <1>7, <2>1, <3>1 DEF FitsAt
    <3>3. k < 2 * L /\ list[k + 1].opt = NoOption
      BY <1>7, <1>8, <2>1
    <3>. QED
      BY <3>2, <3>3
  <2>2. CASE k % 2 # 1
    <3>1. IsPathToken(list, k)
      <4>1. Asks(list[k - 1])
        BY <1>6, <1>7, <1>8, <2>2 DEF Asks
      <4>. QED
        BY <1>8, <2>2, <4>1, PathTokens
    <3>2. FitsAt(list, k, AddedPaths)
      BY <1>6, <1>8, <2>2, <3>1 DEF FitsAt
    <3>3. ~Asks(list[k])
      BY <1>6, <1>8, <2>2 DEF Asks
    <3>. QED
      BY <3>2, <3>3
  <2>. QED
    BY <2>1, <2>2
<1>10. Shaped(list, AddedPaths)
  BY <1>4, <1>9 DEF Shaped
<1>. QED
  BY <1>10 DEF list
-----------------------------------------------------------------------------
(* The arguments of an attempt *)

LEMMA ConfigAddsNoPath ==
  ASSUME ListsOk, OnlyCommandsNamePaths
  PROVE  IsList(ConfigCompilerArgs) /\ \A token \in Range(ConfigCompilerArgs) : AddsNoPath(token)
<1>. DEFINE defines == config["--define"]
            extra == config["--extra-arg"]
            s == [k \in DOMAIN defines |-> Joined("-D", <<defines[k]>>)]
            t == [k \in DOMAIN extra |-> TokenNamed[extra[k]]]
<1>1. IsList(defines) /\ IsList(extra)
  BY DEF ListsOk
<1>2. \A x : AddsNoPath(Joined("-D", x))
  <2>1. \A x : Joined("-D", x).opt = "-D"
    BY DEF Joined
  <2>. QED
    BY <2>1 DEF AddsNoPath, OutputOptions, IsSeparateValidationPathOption,
                RewriteJoinedValidationPathOption, NoOption
<1>3. IsList(s) /\ \A token \in Range(s) : \E k \in DOMAIN defines : token = s[k]
  <2>1. s = [k \in DOMAIN defines |-> s[k]]
    OBVIOUS
  <2>. HIDE DEF s
  <2>. QED
    BY <1>1, <2>1, MadeFrom
<1>4. IsList(t) /\ \A token \in Range(t) : \E k \in DOMAIN extra : token = t[k]
  <2>1. t = [k \in DOMAIN extra |-> t[k]]
    OBVIOUS
  <2>. HIDE DEF t
  <2>. QED
    BY <1>1, <2>1, MadeFrom
<1>5. ASSUME NEW token \in Range(s) PROVE AddsNoPath(token)
  BY <1>2, <1>3
<1>6. ASSUME NEW token \in Range(t) PROVE AddsNoPath(token)
  <2>1. PICK k \in DOMAIN extra : token = t[k]
    BY <1>4
  <2>2. extra[k] \in Range(extra)
    BY DEF Range
  <2>. QED
    BY <2>1, <2>2 DEF OnlyCommandsNamePaths
<1>7. ConfigCompilerArgs = s \o t
  BY DEF ConfigCompilerArgs
<1>. HIDE DEF s, t
<1>8. IsList(s \o t) /\ Range(s \o t) = Range(s) \union Range(t)
  BY <1>3, <1>4, Together
<1>. QED
  BY <1>5, <1>6, <1>7, <1>8

LEMMA ConfiguredFit ==
  ASSUME ListsOk, OnlyCommandsNamePaths, NEW G, AddedPaths \subseteq G,
         NEW args, Shaped(args, G)
  PROVE  ArgsFit(NormalizeCxx23StandardArgs(AppendExtraCompilerArgs(args)), G)
<1>. DEFINE pre == args \o ExtraIncludeArgs
            all == pre \o ConfigCompilerArgs
<1>1. Shaped(pre, G)
  <2>1. Shaped(ExtraIncludeArgs, G)
    BY IncludesShaped, ShapedMore
  <2>. QED
    BY <2>1, ShapedTogether
<1>. HIDE DEF pre
<1>2. Composed(all, Len(pre), G)
  BY <1>1, ConfigAddsNoPath, Composes
<1>3. AppendExtraCompilerArgs(args) = all
  BY DEF AppendExtraCompilerArgs, all, pre
<1>. QED
  BY <1>2, <1>3, NormalizedFits

LEMMA CommandArgsFit ==
  ASSUME ListsOk, OnlyCommandsNamePaths, NEW command, IsCompilerCommand(command)
  PROVE  ArgsFit(CompileArgs(command), LinePaths(command) \union AddedPaths)
<1>1. Shaped(SanitizeValidationCompileCommandArgs(command), LinePaths(command) \union AddedPaths)
  BY SanitizedShaped, ShapedMore
<1>. QED
  BY <1>1, ConfiguredFit DEF CompileArgs

LEMMA RootShaped ==
  ASSUME NEW G, AddedPaths \subseteq G
  PROVE  Shaped(<<Joined("-I", Rooted(project_root))>>, G)
<1>. DEFINE token == Joined("-I", Rooted(project_root))
<1>1. token.opt = "-I" /\ token.val = Rooted(project_root)
  BY DEF Joined
<1>. HIDE DEF token
<1>2. Rooted(project_root) # <<>>
  BY DEF Rooted
<1>3. token.opt \notin Never /\ token.opt # NoOption
  BY <1>1 DEF Never, OutputOptions, NoOption
<1>4. token.val \in G /\ ~Asks(token)
  BY <1>1, <1>2 DEF AddedPaths, Asks
<1>5. Shaped(<<token>>, G)
  BY <1>3, <1>4, ShapedOne
<1>. QED
  BY <1>5 DEF token

LEMMA FallbackShaped ==
  ASSUME NEW G, AddedPaths \subseteq G
  PROVE  Shaped(BuildSyntheticTuFallbackArgs, G)
<1>. DEFINE token == Joined("-std=", <<"c++23">>)
            root == Joined("-I", Rooted(project_root))
<1>1. token.opt = "-std="
  BY DEF Joined
<1>. HIDE DEF token, root
<1>2. /\ token.opt \notin Never /\ ~Asks(token) /\ ~HoldsPath(token) /\ token.opt # NoOption
  BY <1>1 DEF Never, OutputOptions, Asks, HoldsPath, IsSeparateValidationPathOption,
              RewriteJoinedValidationPathOption, NoOption
<1>3. Shaped(<<token>>, G)
  BY <1>2, ShapedOne
<1>4. Shaped(<<root>>, G)
  BY RootShaped DEF root
<1>5. Shaped(<<token>> \o <<root>>, G)
  BY ONLY <1>3, <1>4, ShapedTogether
<1>6. <<token>> \o <<root>> = <<token, root>>
  <2>. DEFINE s == <<token>>
              t == <<root>>
              both == s \o t
              pair == <<token, root>>
  <2>1. IsList(s) /\ IsList(t) /\ Len(s) = 1 /\ Len(t) = 1 /\ s[1] = token /\ t[1] = root
    BY OneIsList
  <2>2. pair \in Seq({token, root}) /\ Len(pair) = 2 /\ pair[1] = token /\ pair[2] = root
    OBVIOUS
  <2>3. s \in Seq({token, root}) /\ t \in Seq({token, root})
    OBVIOUS
  <2>. HIDE DEF s, t, pair
  <2>4. /\ Len(both) = 2 /\ both[1] = token /\ both[2] = root
    <3>1. /\ Len(both) = Len(s) + Len(t)
          /\ \A k \in 1 .. Len(s) : both[k] = s[k]
          /\ \A k \in Len(s) + 1 .. Len(s) + Len(t) : both[k] = t[k - Len(s)]
      BY ONLY <2>3, ConcatProperties
    <3>. HIDE DEF both
    <3>. QED
      BY <2>1, <3>1
  <2>5. both \in Seq({token, root})
    BY <2>3, ConcatProperties
  <2>. HIDE DEF both
  <2>6. \A k \in 1 .. Len(both) : both[k] = pair[k]
    BY <2>2, <2>4
  <2>7. both = pair
    BY ONLY <2>2, <2>4, <2>5, <2>6, SeqEqual
  <2>. QED
    BY <2>7 DEF both, pair, s, t
<1>. QED
  BY <1>5, <1>6 DEF BuildSyntheticTuFallbackArgs, token, root

LEMMA WithRootShaped ==
  ASSUME NEW G, AddedPaths \subseteq G, NEW args, Shaped(args, G)
  PROVE  Shaped(AppendProjectRootInclude(args), G)
<1>. DEFINE root == Joined("-I", Rooted(project_root))
<1>1. CASE AppendProjectRootInclude(args) = args
  BY <1>1
<1>2. CASE AppendProjectRootInclude(args) = Append(args, root)
  <2>1. IsList(args)
    BY DEF Shaped
  <2>2. Shaped(<<root>>, G)
    BY RootShaped
  <2>. HIDE DEF root
  <2>3. Append(args, root) = args \o <<root>>
    BY <2>1 DEF IsList
  <2>. QED
    BY <1>2, <2>2, <2>3, ShapedTogether
<1>. QED
  BY <1>1, <1>2 DEF AppendProjectRootInclude

LEMMA NearestIsOne ==
  ASSUME commands # <<>>, IsList(commands), IsTree(tree), NEW header \in Seq(STRING)
  PROVE  Nearest(header) \in Range(commands)
<1>. DEFINE N == Len(commands)
            p == Parent(LinkFree(header))
            score(k) == CommonNames(p, Parent(SourcePath(commands[k])))
            IsBest(k) == \A j \in DOMAIN commands :
                           score(j) < score(k) \/ (score(j) = score(k) /\ k <= j)
<1>1. N \in Nat /\ DOMAIN commands = 1 .. N /\ 1 .. N # {}
  <2>1. commands \in Seq(Range(commands))
    BY DEF IsList
  <2>2. N # 0
    BY <2>1, EmptySeq
  <2>3. N \in Nat /\ DOMAIN commands = 1 .. N
    BY ONLY <2>1, LenProperties DEF N
  <2>. HIDE DEF N
  <2>4. 1 \in 1 .. N
    BY ONLY <2>2, <2>3
  <2>. QED
    BY ONLY <2>3, <2>4
<1>2. Len(p) \in Nat
  <2>1. IsLinkFree(tree, LinkFree(header))
    BY PhysicalIsLinkFree DEF LinkFree
  <2>2. IsLinkFree(tree, p)
    BY <2>1, ParentIsLinkFree
  <2>. QED
    BY <2>2 DEF IsLinkFree, IsNormal
<1>. HIDE DEF p
<1>3. \A k \in 1 .. N : score(k) \in Nat
  <2>. TAKE k \in 1 .. N
  <2>. DEFINE q == Parent(SourcePath(commands[k]))
              common == {n \in 1 .. Len(p) : n <= Len(q) /\ SubSeq(p, 1, n) = SubSeq(q, 1, n)}
  <2>. HIDE DEF q
  <2>1. IsFiniteSet(1 .. Len(p)) /\ common \subseteq 1 .. Len(p)
    BY <1>2, FS_Interval
  <2>. HIDE DEF common
  <2>2. Cardinality(common) \in Nat
    BY <2>1, FS_Subset, FS_CardinalityType
  <2>. QED
    BY <2>2 DEF CommonNames, common, q
<1>. DEFINE size == [k \in 1 .. N |-> score(k)]
<1>. HIDE DEF score
<1>4. size \in [1 .. N -> Nat]
  BY <1>3
<1>. HIDE DEF N
<1>5. \E k \in 1 .. N : \A j \in 1 .. N : size[j] < size[k] \/ (size[j] = size[k] /\ k <= j)
  <2>. HIDE DEF size
  <2>. QED
    BY <1>1, <1>4, BestExists
<1>6. \E k \in DOMAIN commands : IsBest(k)
  BY <1>1, <1>5
<1>7. (CHOOSE k \in DOMAIN commands : IsBest(k)) \in DOMAIN commands
  <2>. HIDE DEF IsBest
  <2>. QED
    BY <1>6
<1>. QED
  BY <1>7 DEF Nearest, Range, score, p

(* The paths that may be in the arguments *)
AllPaths == (UNION {LinePaths(command) : command \in Range(commands)}) \union AddedPaths

LEMMA HeaderArgsFit ==
  ASSUME ListsOk, OnlyCommandsNamePaths, IsTree(tree), IsList(commands),
         NEW header \in Seq(STRING),
         \A command \in Range(commands) : IsCompilerCommand(command)
  PROVE  ArgsFit(NearestCompileArgs(header), AllPaths)
<1>. DEFINE G == AllPaths
            args == IF commands = <<>> THEN BuildSyntheticTuFallbackArgs
                    ELSE AppendProjectRootInclude(SanitizeValidationCompileCommandArgs(Nearest(header)))
<1>0. \A command \in Range(commands) : LinePaths(command) \subseteq G
  BY DEF AllPaths
<1>1. AddedPaths \subseteq G
  BY DEF AllPaths
<1>2. ASSUME commands = <<>> PROVE Shaped(args, G)
  <2>. HIDE DEF G
  <2>. QED
    BY <1>1, <1>2, FallbackShaped
<1>3. ASSUME commands # <<>> PROVE Shaped(args, G)
  <2>1. Nearest(header) \in Range(commands)
    BY <1>3, NearestIsOne
  <2>2. LinePaths(Nearest(header)) \subseteq G
    BY <1>0, <2>1
  <2>. HIDE DEF G
  <2>3. Shaped(SanitizeValidationCompileCommandArgs(Nearest(header)), G)
    BY <2>1, <2>2, SanitizedShaped, ShapedMore
  <2>. QED
    BY <1>1, <1>3, <2>3, WithRootShaped
<1>4. Shaped(args, G)
  BY <1>2, <1>3
<1>. HIDE DEF G
<1>5. ArgsFit(NormalizeCxx23StandardArgs(AppendExtraCompilerArgs(args)), G)
  <2>. HIDE DEF args
  <2>. QED
    BY <1>1, <1>4, ConfiguredFit
<1>6. NearestCompileArgs(header) = NormalizeCxx23StandardArgs(AppendExtraCompilerArgs(args))
  BY DEF NearestCompileArgs
<1>. HIDE DEF args
<1>. QED
  BY <1>5, <1>6 DEF G
-----------------------------------------------------------------------------
(* The lists of the options *)

ListOptions == {"--include-dir", "--define", "--extra-arg", "--path-map"}

ListsInv ==
  /\ \A o \in ListOptions : o \in DOMAIN config /\ IsList(config[o])
  /\ \A m \in Range(config["--path-map"]) : IsNormal(m[1]) /\ IsNormal(m[2])

LEMMA ListFacts ==
  ASSUME NEW o \in ListOptions
  PROVE  /\ o \in IsKnownOption \ {"--config", "--help"}
         /\ o \in IsRepeatableOption \ {"--header-extension"} /\ o # "--header-extension"
         /\ o \notin IsPresenceFlagOption
         /\ o \notin SinglePaths
BY DEF ListOptions, IsKnownOption, IsRepeatableOption, IsPresenceFlagOption, SinglePaths, Roots

LEMMA PathMapFacts ==
  LET o == "--path-map"
  IN /\ o \notin SinglePaths \union {"--include-dir"} /\ o \notin Switches
     /\ o \notin DOMAIN LegalWords
     /\ o \notin {"--header-filter", "--class-filter"}
     /\ o \notin {"--jobs", "--validation-timeout-ms"}
     /\ o \notin {"--exclude", "--define", "--extra-arg"}
<1>1. "--path-map" \notin DOMAIN LegalWords
  BY DEF LegalWords
<1>. QED
  BY <1>1 DEF SinglePaths, Roots, Switches

LEMMA ListsBegin == Init => ListsInv
<1>. SUFFICES ASSUME Init PROVE ListsInv
  OBVIOUS
<1>1. config = DefaultConfig
  BY DEF Init, ConfigInit
<1>2. ASSUME NEW o \in ListOptions
      PROVE  o \in DOMAIN DefaultConfig /\ DefaultConfig[o] = <<>>
  <2>1. o \in IsKnownOption \ {"--config", "--help"} /\ o # "--header-extension"
        /\ o \in IsRepeatableOption \ {"--header-extension"}
    BY ListFacts
  <2>2. o \in DOMAIN DefaultConfig
    BY <2>1 DEF DefaultConfig
  <2>3. /\ o \notin SinglePaths \union {"--header-filter", "--class-filter"}
        /\ o \notin {"--emit-all-mocks", "--emit-manifest", "--emit-cmake-fragment",
                     "--best-effort"}
        /\ o \notin {"--dry-run", "--overwrite", "--strict", "--validation-keep-artifacts",
                     "--fake-special-members", "--fake-static-data", "--interface-mock"}
        /\ o # "--std" /\ o # "--access" /\ o # "--include-struct" /\ o # "--registry-mode"
        /\ o # "--fallback-policy" /\ o # "--mock-namespace-mode"
        /\ o # "--collision-policy" /\ o # "--format-style" /\ o # "--validate"
        /\ o # "--validation-timeout-ms" /\ o # "--jobs"
    BY DEF ListOptions, SinglePaths, Roots
  <2>4. DefaultConfig[o] = <<>>
    BY ONLY <2>1, <2>3 DEF DefaultConfig
  <2>. QED
    BY <2>2, <2>4
<1>3. "--path-map" \in ListOptions
  BY DEF ListOptions
<1>. QED
  BY <1>1, <1>2, <1>3, EmptyList DEF ListsInv

LEMMA ListsStep ==
  ASSUME ListsInv, [Next]_vars
  PROVE  ListsInv'
<1>1. ASSUME \A o \in ListOptions : o \in DOMAIN config' /\ config'[o] = config[o]
      PROVE  ListsInv'
  <2>1. "--path-map" \in ListOptions
    BY DEF ListOptions
  <2>. QED
    BY <1>1, <2>1 DEF ListsInv, IsList
<1>2. ASSUME config' = config
      PROVE  ListsInv'
  BY <1>1, <1>2 DEF ListsInv
<1>3. ASSUME ReadOptions, Flag
      PROVE  ListsInv'
  <2>1. Option \in IsPresenceFlagOption
    BY <1>3 DEF Flag, ReadingFlag
  <2>2. ASSUME NEW o \in ListOptions
        PROVE  o \in DOMAIN config' /\ config'[o] = config[o]
    <3>1. o # Option /\ o # "--strict" /\ o # "--best-effort" /\ o \in DOMAIN config
      BY <2>1, ListFacts DEF ListOptions, ListsInv
    <3>2. \/ config' = config
          \/ config' = [config EXCEPT !["--strict"] = TRUE, !["--best-effort"] = FALSE]
          \/ config' = [config EXCEPT !["--best-effort"] = TRUE, !["--strict"] = FALSE]
          \/ config' = [config EXCEPT ![Option] = TRUE]
      BY <1>3 DEF Flag
    <3>. QED
      BY <3>1, <3>2
  <2>. QED
    BY <1>1, <2>2
<1>4. ASSUME ReadOptions, TakeValue
      PROVE  ListsInv'
  <2>1. config' = [config EXCEPT ![Option] = Applied(Option, Value)] /\ IsLegal(Option, Value)
    BY <1>4 DEF TakeValue
  <2>2. CASE Option \notin ListOptions
    <3>1. \A o \in ListOptions : o \in DOMAIN config' /\ config'[o] = config[o]
      BY <2>1, <2>2 DEF ListsInv
    <3>. QED
      BY <1>1, <3>1
  <2>3. CASE Option \in ListOptions
    <3>. DEFINE old == config[Option]
                more == Append(old, Meaning(Option, Value))
    <3>1. Applied(Option, Value) = more
      BY <2>3, ListFacts DEF Applied
    <3>2. /\ Option \in DOMAIN config' /\ config'[Option] = more
          /\ \A o \in ListOptions : o \in DOMAIN config' /\ (o # Option => config'[o] = config[o])
      BY <2>1, <2>3, <3>1 DEF ListsInv
    <3>3. IsList(old)
      BY <2>3 DEF ListsInv
    <3>. HIDE DEF old
    <3>4. IsList(more) /\ Range(more) = Range(old) \union {Meaning(Option, Value)}
      BY <3>3, Grown
    <3>5. ASSUME Option = "--path-map", NEW m \in Range(more)
          PROVE  IsNormal(m[1]) /\ IsNormal(m[2])
      <4>1. Value \in DOMAIN MapNamed
        BY <2>1, <3>5, PathMapFacts, Zenon DEF IsLegal
      <4>2. Meaning(Option, Value) = MapNamed[Value]
        BY <3>5, PathMapFacts, Zenon DEF Meaning
      <4>3. CASE m \in Range(old)
        BY <3>5, <4>3 DEF ListsInv, old
      <4>4. CASE m = Meaning(Option, Value)
        BY <4>1, <4>2, <4>4, MapsGiven
      <4>. QED
        BY <3>4, <3>5, <4>3, <4>4
    <3>. HIDE DEF more
    <3>6. ASSUME NEW o \in ListOptions
          PROVE  o \in DOMAIN config' /\ IsList(config'[o])
      <4>1. CASE o = Option
        BY <3>2, <3>4, <4>1
      <4>2. CASE o # Option
        BY <3>2, <4>2 DEF ListsInv
      <4>. QED
        BY <4>1, <4>2
    <3>7. ASSUME NEW m \in Range(config'["--path-map"])
          PROVE  IsNormal(m[1]) /\ IsNormal(m[2])
      <4>1. CASE Option = "--path-map"
        BY <3>2, <3>5, <3>7, <4>1
      <4>2. CASE Option # "--path-map"
        <5>1. config'["--path-map"] = config["--path-map"]
          BY <3>2, <4>2 DEF ListOptions
        <5>. QED
          BY <3>7, <5>1 DEF ListsInv
      <4>. QED
        BY <4>1, <4>2
    <3>8. \A o \in ListOptions : IsList(config[o])' <=> IsList(config'[o])
      BY DEF IsList
    <3>. QED
      BY <3>6, <3>7, <3>8 DEF ListsInv
  <2>. QED
    BY <2>2, <2>3
<1>5. CASE ReadOptions
  <2>1. CASE \/ Separator \/ UnexpectedArgument \/ UnknownOption
             \/ FlagWithValue \/ DuplicateFlag \/ FinishOptions
             \/ MissingValue \/ DuplicateValue \/ DeferredValue \/ InvalidValue
    <3>1. config' = config
      BY <2>1 DEF Separator, UnexpectedArgument, UnknownOption, FlagWithValue, DuplicateFlag,
                  MissingValue, DuplicateValue, DeferredValue, InvalidValue, FinishOptions
    <3>. QED
      BY <1>2, <3>1
  <2>. QED
    BY <1>3, <1>4, <1>5, <2>1 DEF ReadOptions, ParseConfig
<1>6. CASE ~ReadOptions
  <2>1. config' = config
    BY <1>6 DEF Next, vars, ExitAfterOptions, BeginScan, SearchHeaders,
                ExitAfterScan, BeginResolve, ResolveClasses, EndResolve, Terminated, configVars
  <2>. QED
    BY <1>2, <2>1
<1>. QED
  BY <1>5, <1>6

LEMMA ListsAreOk ==
  ASSUME ListsInv
  PROVE  ListsOk
BY DEF ListsInv, ListOptions, ListsOk, MapsOk, path_maps
-----------------------------------------------------------------------------
(* The arguments of a run *)

(* A command of which nothing is missing, or it has been said *)
Reported(diagnostics, command) ==
  \A path \in LinePaths(command) :
    PathExists(tree, Tail(path)) \/ \E d \in diagnostics : d[1] = "Error"

CommandsGiven ==
  /\ IsList(commands) /\ Range(commands) \subseteq Range(sources.commands)
  /\ \A command \in Range(sources.commands) : IsCompilerCommand(command)

ArgsInv ==
  /\ CommandsGiven
  /\ OnlyCommandsNamePaths => \A a \in Range(result.attempts) : ArgsFit(a.args, AllPaths)
  /\ \A k \in DOMAIN commands :
       (resolve = "commands" /\ k < unit) \/ resolve \in {"headers", "done"} =>
         Reported(result.diagnostics, commands[k])

LEMMA SamePaths ==
  ASSUME UNCHANGED <<tree, config>>
  PROVE  /\ \A command : LinePaths(command)' = LinePaths(command)
         /\ AddedPaths' = AddedPaths
         /\ \A diagnostics, command :
              Reported(diagnostics, command)' <=> Reported(diagnostics, command)
         /\ OnlyCommandsNamePaths' <=> OnlyCommandsNamePaths
<1>1. \A path : LinkFree(path)' = LinkFree(path)
  BY DEF LinkFree
<1>2. path_maps' = path_maps
  BY DEF path_maps
<1>3. \A path : BestMatch(path)' = BestMatch(path)
  BY <1>2 DEF BestMatch
<1>4. \A path : ApplyPathMaps(path)' = ApplyPathMaps(path)
  BY <1>1, <1>2, <1>3 DEF ApplyPathMaps
<1>5. \A command, value : CommandRelativePath(command, value)' = CommandRelativePath(command, value)
  BY <1>1, <1>4 DEF CommandRelativePath, CommandDirectory
<1>6. \A command, value : ResolveCommandPathArgument(command, value)' =
                            ResolveCommandPathArgument(command, value)
  BY <1>5 DEF ResolveCommandPathArgument
<1>7. \A command : LinePaths(command)' = LinePaths(command)
  BY <1>6 DEF LinePaths
<1>8. AddedPaths' = AddedPaths
  BY <1>1 DEF AddedPaths, project_root
<1>9. \A diagnostics, command : Reported(diagnostics, command)' <=> Reported(diagnostics, command)
  BY <1>7 DEF Reported
<1>10. OnlyCommandsNamePaths' <=> OnlyCommandsNamePaths
  BY DEF OnlyCommandsNamePaths
<1>. QED
  BY <1>7, <1>8, <1>9, <1>10

LEMMA SameAllPaths ==
  ASSUME UNCHANGED <<tree, config, commands>>
  PROVE  AllPaths' = AllPaths
BY SamePaths DEF AllPaths

LEMMA ReportedOn ==
  ASSUME NEW before, NEW after, before \subseteq after, NEW command, Reported(before, command)
  PROVE  Reported(after, command)
BY DEF Reported

LEMMA MissingReported ==
  ASSUME IsTree(tree), MapsOk, NEW command, IsCompilerCommand(command), NEW diagnostics,
         AddCompileCommandPathDiagnostics(command) \subseteq diagnostics
  PROVE  Reported(diagnostics, command)
<1>1. CASE AddCompileCommandPathDiagnostics(command) = {}
  BY <1>1, PathsExist DEF Reported
<1>2. CASE AddCompileCommandPathDiagnostics(command) # {}
  <2>1. \A d \in AddCompileCommandPathDiagnostics(command) : d[1] = "Error"
    BY DEF AddCompileCommandPathDiagnostics
  <2>. QED
    BY <1>2, <2>1 DEF Reported
<1>. QED
  BY <1>1, <1>2

LEMMA ArgsBegin == Init => ArgsInv
<1>. SUFFICES ASSUME Init PROVE ArgsInv
  OBVIOUS
<1>1. resolve = "no" /\ commands = <<>> /\ result = NoResult
  BY DEF Init, ResolverInit
<1>2. NoResult.attempts = <<>>
  BY DEF NoResult
<1>3. CommandsGiven
  <2>1. \A command \in Range(sources.commands) : IsCompilerCommand(command)
    BY LinesGiven DEF Init
  <2>. QED
    BY <1>1, <2>1, EmptyList DEF CommandsGiven
<1>. QED
  BY <1>1, <1>2, <1>3, EmptyList DEF ArgsInv

(* Any step that leaves the resolver alone *)
LEMMA ArgsKept ==
  ASSUME ArgsInv, ResolverInv, UNCHANGED <<tree, sources, resolverVars>>,
         config' = config \/ resolve = "no"
  PROVE  ArgsInv'
<1>1. UNCHANGED <<resolve, commands, unit, result>>
  BY DEF resolverVars
<1>2. CommandsGiven'
  BY <1>1 DEF ArgsInv, CommandsGiven, IsList
<1>3. CASE resolve = "no"
  <2>1. result' = NoResult
    BY <1>1, <1>3 DEF ResolverInv
  <2>2. Range(result'.attempts) = {}
    BY <2>1, EmptyList DEF NoResult
  <2>. QED
    BY <1>1, <1>2, <1>3, <2>2 DEF ArgsInv
<1>4. CASE config' = config
  <2>1. AllPaths' = AllPaths
    BY <1>1, <1>4, SameAllPaths
  <2>2. OnlyCommandsNamePaths' <=> OnlyCommandsNamePaths
    BY <1>4, SamePaths
  <2>3. \A diagnostics, command : Reported(diagnostics, command)' <=> Reported(diagnostics, command)
    BY <1>4, SamePaths
  <2>. QED
    BY <1>1, <1>2, <2>1, <2>2, <2>3 DEF ArgsInv
<1>. QED
  BY <1>3, <1>4

(* The step of one unit: what it tries, and what it reports *)
LEMMA ArgsTried ==
  ASSUME ArgsInv, UNCHANGED <<tree, config, sources, commands>>,
         Grows(result, result'), NEW args, Tries(result, result', args),
         OnlyCommandsNamePaths => ArgsFit(args, AllPaths),
         \A k \in DOMAIN commands :
           (resolve' = "commands" /\ k < unit') \/ resolve' \in {"headers", "done"} =>
             \/ (resolve = "commands" /\ k < unit) \/ resolve \in {"headers", "done"}
             \/ Reported(result'.diagnostics, commands[k])
  PROVE  ArgsInv'
<1>1. CommandsGiven'
  BY DEF ArgsInv, CommandsGiven, IsList
<1>2. AllPaths' = AllPaths
  BY SameAllPaths
<1>3. /\ OnlyCommandsNamePaths' <=> OnlyCommandsNamePaths
      /\ \A diagnostics, command : Reported(diagnostics, command)' <=> Reported(diagnostics, command)
  BY SamePaths
<1>4. OnlyCommandsNamePaths => \A a \in Range(result'.attempts) : ArgsFit(a.args, AllPaths)
  BY DEF Tries, ArgsInv
<1>5. ASSUME NEW k \in DOMAIN commands,
             (resolve' = "commands" /\ k < unit') \/ resolve' \in {"headers", "done"}
      PROVE  Reported(result'.diagnostics, commands[k])
  <2>1. CASE (resolve = "commands" /\ k < unit) \/ resolve \in {"headers", "done"}
    <3>1. Reported(result.diagnostics, commands[k])
      BY <2>1 DEF ArgsInv
    <3>. QED
      BY <3>1, ReportedOn DEF Grows
  <2>. QED
    BY <1>5, <2>1
<1>. QED
  BY <1>1, <1>2, <1>3, <1>4, <1>5 DEF ArgsInv

LEMMA CommandsTaken ==
  ASSUME CommandsGiven, ResolverInv, LoadCompileCommands, UNCHANGED sources
  PROVE  CommandsGiven'
<1>. DEFINE given == sources.commands
<1>1. \A command \in Range(given) : IsCompilerCommand(command)
  BY DEF CommandsGiven
<1>2. CASE commands' = <<>>
  <2>1. IsList(commands') /\ Range(commands') = {}
    BY <1>2, EmptyList
  <2>2. IsList(commands)' <=> IsList(commands')
    BY DEF IsList
  <2>. QED
    BY <1>1, <2>1, <2>2 DEF CommandsGiven
<1>3. CASE commands' # <<>>
  <2>1. Len(given) \in Nat /\ DOMAIN given = 1 .. Len(given)
    BY DEF ResolverInv, AreSources
  <2>2. PICK order : SortsCommands(order)
                     /\ commands' = [k \in DOMAIN given |-> given[order[k]]]
    BY <1>3 DEF LoadCompileCommands
  <2>3. order \in [DOMAIN given -> DOMAIN given]
    BY <2>2 DEF SortsCommands, IsPermutation
  <2>4. \A k \in DOMAIN given : given[order[k]] \in Range(given)
    BY <2>3 DEF Range
  <2>. DEFINE list == [k \in DOMAIN given |-> given[order[k]]]
  <2>5. list = [k \in 1 .. Len(given) |-> list[k]] /\ \A k \in 1 .. Len(given) : list[k] \in Range(given)
    BY <2>1, <2>4
  <2>6. commands' = list
    BY <2>2
  <2>. HIDE DEF list, given
  <2>7. list \in [1 .. Len(given) -> Range(given)]
    BY ONLY <2>5
  <2>8. list \in Seq(Range(given))
    BY ONLY <2>1, <2>7
  <2>9. IsList(list) /\ Range(list) \subseteq Range(given)
    BY ONLY <2>8 DEF IsList, Range
  <2>10. IsList(commands)' <=> IsList(commands')
    BY DEF IsList
  <2>. QED
    BY <1>1, <2>6, <2>9, <2>10 DEF CommandsGiven, given
<1>. QED
  BY <1>2, <1>3

LEMMA ArgsMoves ==
  ASSUME ArgsInv, ResolverInv, FrontInv, ListsInv, ResolveClasses
  PROVE  ArgsInv'
<1>1. UNCHANGED <<stage, tree, config, headers, sources>> /\ stage = "resolve"
  BY DEF ResolveClasses, ResolveCompilation, configVars, scanVars
<1>2. ListsOk /\ MapsOk /\ IsTree(tree) /\ CommandsGiven
  BY ListsAreOk DEF ListsOk, FrontInv, OptionsInv, ArgsInv
<1>3. unit \in Nat \ {0} /\ Len(headers) \in Nat /\ IsList(commands) /\ headers \in Seq(Seq(STRING))
  BY <1>2 DEF ResolverInv, FrontInv, ScanInv, HeadersOk, CommandsGiven
<1>4. \A command \in Range(commands) : IsCompilerCommand(command)
  BY <1>2 DEF CommandsGiven
<1>5. CASE LoadCompileCommands
  <2>1. CommandsGiven'
    BY <1>1, <1>2, <1>5, CommandsTaken
  <2>2. unit' = 1 /\ resolve' = "commands"
    BY <1>5 DEF LoadCompileCommands
  <2>3. result'.attempts = <<>>
    <3>1. result = NoResult
      BY <1>5 DEF LoadCompileCommands, ResolverInv
    <3>2. PICK extra : result' = [NoResult EXCEPT !.diagnostics = extra]
      BY <1>5, <3>1 DEF LoadCompileCommands
    <3>. QED
      BY <3>2 DEF NoResult
  <2>4. \A a \in Range(result'.attempts) : FALSE
    BY <2>3, EmptyList
  <2>5. \A k \in DOMAIN commands' : ~(k < unit')
    <3>1. DOMAIN commands' = 1 .. Len(commands') /\ Len(commands') \in Nat
      BY <2>1 DEF CommandsGiven, IsList
    <3>. QED
      BY <2>2, <3>1
  <2>. QED
    BY <2>1, <2>2, <2>4, <2>5 DEF ArgsInv
<1>6. CASE RealTuFails \/ RealTuParsed
  <2>. DEFINE command == commands[unit]
              args == CompileArgs(command)
  <2>1. /\ commands' = commands /\ unit' = unit + 1 /\ resolve' = "commands"
        /\ resolve = "commands" /\ unit \in 1 .. Len(commands)
    BY <1>3, <1>6 DEF RealTuFails, RealTuParsed, AtCommand, IsList
  <2>2. /\ Grows(result, result') /\ Tries(result, result', args)
        /\ AddCompileCommandPathDiagnostics(command) \subseteq result'.diagnostics
    BY <1>6, UnitFails, UnitParsed
  <2>3. command \in Range(commands) /\ IsCompilerCommand(command)
    <3>1. DOMAIN commands = 1 .. Len(commands)
      BY <1>3 DEF IsList
    <3>2. command \in Range(commands)
      BY <2>1, <3>1 DEF Range
    <3>. QED
      BY <1>4, <3>2
  <2>4. Reported(result'.diagnostics, command)
    BY <1>2, <2>2, <2>3, MissingReported
  <2>5. OnlyCommandsNamePaths => ArgsFit(args, AllPaths)
    <3>1. LinePaths(command) \union AddedPaths \subseteq AllPaths
      BY <2>3 DEF AllPaths
    <3>. HIDE DEF command
    <3>2. OnlyCommandsNamePaths => ArgsFit(args, LinePaths(command) \union AddedPaths)
      BY <1>2, <2>3, CommandArgsFit
    <3>. HIDE DEF args
    <3>. QED
      BY <3>1, <3>2, FitsMore
  <2>6. ASSUME NEW k \in DOMAIN commands, k < unit'
        PROVE  k < unit \/ Reported(result'.diagnostics, commands[k])
    <3>1. k \in 1 .. Len(commands)
      BY <1>3 DEF IsList
    <3>2. k < unit \/ k = unit
      BY <1>3, <2>1, <2>6, <3>1
    <3>. QED
      BY <2>4, <3>2
  <2>. HIDE DEF args, command
  <2>. QED
    BY <1>1, <2>1, <2>2, <2>5, <2>6, ArgsTried
<1>7. CASE FinishCommands \/ SkipParsedHeader \/ FinishResolve
  <2>1. commands' = commands /\ result' = result
    BY <1>7 DEF FinishCommands, SkipParsedHeader, FinishResolve
  <2>2. Grows(result, result') /\ \A args : Tries(result, result', args)
    BY <2>1 DEF Grows, Tries
  <2>3. ASSUME NEW k \in DOMAIN commands
        PROVE  \/ (resolve = "commands" /\ k < unit)
               \/ resolve \in {"headers", "done"}
    <3>1. k \in 1 .. Len(commands) /\ Len(commands) \in Nat
      BY <1>3 DEF IsList
    <3>. QED
      BY <1>3, <1>7, <3>1 DEF FinishCommands, SkipParsedHeader, FinishResolve, AtHeader
  <2>4. CommandsGiven'
    BY <1>1, <1>2, <2>1 DEF CommandsGiven, IsList
  <2>5. AllPaths' = AllPaths
    BY <1>1, <2>1, SameAllPaths
  <2>6. /\ OnlyCommandsNamePaths' <=> OnlyCommandsNamePaths
        /\ \A diagnostics, command : Reported(diagnostics, command)' <=> Reported(diagnostics, command)
    BY <1>1, SamePaths
  <2>7. \A k \in DOMAIN commands : Reported(result.diagnostics, commands[k])
    BY <2>3 DEF ArgsInv
  <2>. QED
    BY <2>1, <2>4, <2>5, <2>6, <2>7 DEF ArgsInv
<1>8. CASE SyntheticTuFails \/ SyntheticTuParsed
  <2>. DEFINE header == headers[unit]
              args == NearestCompileArgs(header)
  <2>1. /\ commands' = commands /\ resolve' = "headers" /\ resolve = "headers"
        /\ unit \in 1 .. Len(headers)
    BY <1>3, <1>8 DEF SyntheticTuFails, SyntheticTuParsed, AtHeader
  <2>2. Grows(result, result') /\ Tries(result, result', args)
    BY <1>8, HeaderFails, HeaderParsed
  <2>3. header \in Seq(STRING)
    BY <1>3, <2>1
  <2>. HIDE DEF header
  <2>4. OnlyCommandsNamePaths => ArgsFit(args, AllPaths)
    BY <1>2, <1>3, <1>4, <2>3, HeaderArgsFit
  <2>. HIDE DEF args
  <2>. QED
    BY <1>1, <2>1, <2>2, <2>4, ArgsTried
<1>. QED
  BY <1>5, <1>6, <1>7, <1>8 DEF ResolveClasses, ResolveCompilation

LEMMA ArgsStep ==
  ASSUME ArgsInv, ResolverInv, FrontInv, ListsInv, [Next]_vars
  PROVE  ArgsInv'
<1>1. CASE ResolveClasses
  BY <1>1, ArgsMoves
<1>2. CASE ~ResolveClasses
  <2>1. UNCHANGED <<tree, sources, resolverVars>>
    BY <1>2 DEF Next, vars, ReadOptions, ExitAfterOptions, BeginScan, SearchHeaders,
                ExitAfterScan, BeginResolve, EndResolve, Terminated, ParseConfig, ScanHeaders
  <2>2. config' = config \/ stage = "options"
    BY <1>2 DEF Next, vars, ReadOptions, ExitAfterOptions, BeginScan, SearchHeaders,
                ExitAfterScan, BeginResolve, EndResolve, Terminated, configVars
  <2>3. config' = config \/ resolve = "no"
    BY <2>2 DEF ResolverInv
  <2>. QED
    BY <2>1, <2>3, ArgsKept
<1>. QED
  BY <1>1, <1>2

(* The arguments of the attempts, and what was reported of the commands,   *)
(* fit together at each state of a run: what the three rewritings of a     *)
(* command line, for the parse, the validation and the check of its paths, *)
(* do is seen token by token, with the option that awaits a value.         *)
THEOREM ArgsInvariance == Spec => [](ListsInv /\ ArgsInv)
<1>1. Init => ListsInv /\ ArgsInv
  BY ListsBegin, ArgsBegin
<1>2. FrontInv /\ ResolverInv /\ ListsInv /\ ArgsInv /\ [Next]_vars => (ListsInv /\ ArgsInv)'
  BY ListsStep, ArgsStep
<1>. QED
  BY <1>1, <1>2, FrontInvariance, ResolverInvariance, PTL DEF Spec
-----------------------------------------------------------------------------
(* The arguments stand alone *)

LEMMA GivenPath ==
  ASSUME ArgsInv, OnlyCommandsNamePaths, NEW a \in Range(result.attempts),
         NEW path \in CommandPaths(a.args)
  PROVE  \E k \in DOMAIN commands : path \in LinePaths(commands[k])
<1>1. ArgsFit(a.args, AllPaths)
  BY DEF ArgsInv
<1>2. PICK k \in DOMAIN a.args : IsPathToken(a.args, k) /\ path = a.args[k].val
  BY DEF CommandPaths
<1>3. FitsAt(a.args, k, AllPaths)
  BY <1>1, <1>2 DEF ArgsFit, Shaped, IsList
<1>4. path \in AllPaths \ AddedPaths
  BY <1>2, <1>3 DEF FitsAt, CommandPaths, AddedPaths
<1>5. PICK command \in Range(commands) : path \in LinePaths(command)
  BY <1>4 DEF AllPaths
<1>. QED
  BY <1>5 DEF Range

LEMMA ArgsAreFit ==
  ASSUME ArgsInv, ResolverInv, FrontInv, ListsInv
  PROVE  ArgsStandAlone
<1>1. ListsOk /\ MapsOk /\ IsTree(tree) /\ CommandsGiven
  BY ListsAreOk DEF ListsOk, FrontInv, OptionsInv, ArgsInv
<1>2. \A command \in Range(commands) : IsCompilerCommand(command)
  BY <1>1 DEF CommandsGiven
<1>. SUFFICES ASSUME Resolved, OnlyCommandsNamePaths, NEW a \in Range(result.attempts)
              PROVE  /\ StandardIn(a.args) = {Len(a.args)}
                     /\ \A token \in Range(a.args) : token.opt \notin OutputOptions \union {"-c"}
                     /\ \A path \in CommandPaths(a.args) :
                          IsAbsolute(path) /\ (ok => PathExists(tree, Tail(path)))
                     /\ \A command \in Range(commands) : \A k \in DOMAIN a.args :
                          a.args[k] = Val(Rooted(SourcePath(command))) => IsPathToken(a.args, k)
  BY DEF ArgsStandAlone
<1>3. ArgsFit(a.args, AllPaths)
  BY DEF ArgsInv
<1>4. DOMAIN a.args = 1 .. Len(a.args) /\ \A k \in DOMAIN a.args : FitsAt(a.args, k, AllPaths)
  BY <1>3 DEF ArgsFit, Shaped, IsList
<1>5. ASSUME NEW token \in Range(a.args)
      PROVE  token.opt \notin OutputOptions \union {"-c"}
  <2>1. PICK k \in DOMAIN a.args : token = a.args[k]
    BY <1>4 DEF Range
  <2>. QED
    BY <1>4, <2>1 DEF FitsAt, Never
<1>6. ASSUME NEW path \in CommandPaths(a.args)
      PROVE  IsAbsolute(path) /\ (ok => PathExists(tree, Tail(path)))
  <2>1. PICK k \in DOMAIN commands : path \in LinePaths(commands[k])
    BY GivenPath
  <2>2. IsCompilerCommand(commands[k])
    BY <1>2 DEF Range
  <2>3. IsAbsolute(path)
    BY <1>1, <2>1, <2>2, PathsExist
  <2>4. Reported(result.diagnostics, commands[k])
    BY DEF ArgsInv, Resolved
  <2>5. ok => PathExists(tree, Tail(path))
    BY <2>1, <2>4 DEF Reported, ok
  <2>. QED
    BY <2>3, <2>5
<1>7. ASSUME NEW command \in Range(commands), NEW k \in DOMAIN a.args,
             a.args[k] = Val(Rooted(SourcePath(command)))
      PROVE  IsPathToken(a.args, k)
  <2>. DEFINE source == SourcePath(command)
  <2>1. source \in Seq(STRING)
    <3>1. command.directory \in Seq(STRING) /\ command.file \in Seq(STRING)
      BY <1>2 DEF IsCompilerCommand
    <3>. QED
      BY <1>1, <3>1, CommandPathIsPath DEF SourcePath
  <2>. HIDE DEF source
  <2>2. IsAbsolute(Rooted(source))
    BY <2>1, RootedIsAbsolute
  <2>3. a.args[k].opt = NoOption /\ a.args[k].val = Rooted(source)
    BY <1>7 DEF Val, source
  <2>. QED
    BY <1>4, <2>2, <2>3 DEF FitsAt
<1>. QED
  BY <1>3, <1>5, <1>6, <1>7 DEF ArgsFit

(* For any command lines that LinesGiven allows, maps and options: each path*)
(* in the arguments of a class is absolute and, unless an error is         *)
(* reported, exists; no source and no output is left, and the last of the  *)
(* arguments is the only standard.                                         *)
THEOREM ArgumentsStandAlone == Spec => []ArgsStandAlone
<1>1. FrontInv /\ ResolverInv /\ ListsInv /\ ArgsInv => ArgsStandAlone
  BY ArgsAreFit
<1>. QED
  BY <1>1, FrontInvariance, ResolverInvariance, ArgsInvariance, PTL
-----------------------------------------------------------------------------
(* Paths that maps replace *)

(* Two paths above one path lie one above the other. *)
LEMMA Comparable ==
  ASSUME NEW p \in Seq(STRING), NEW r \in Seq(STRING), NEW q \in Seq(STRING),
         IsUnder(q, p), IsUnder(q, r)
  PROVE  IsUnder(p, r) \/ IsUnder(r, p)
<1>1. Len(p) \in Nat /\ Len(r) \in Nat
  BY LenProperties
<1>2. /\ \A k \in 1 .. Len(p) : p[k] = q[k]
      /\ \A k \in 1 .. Len(r) : r[k] = q[k]
  BY PrefixMeans
<1>3. CASE Len(p) <= Len(r)
  <2>1. \A k \in 1 .. Len(p) : p[k] = r[k]
    BY <1>1, <1>2, <1>3
  <2>. QED
    BY <1>3, <2>1, PrefixMeans
<1>4. CASE Len(r) <= Len(p)
  <2>1. \A k \in 1 .. Len(r) : r[k] = p[k]
    BY <1>1, <1>2, <1>4
  <2>. QED
    BY <1>4, <2>1, PrefixMeans
<1>. QED
  BY <1>1, <1>3, <1>4

LEMMA Below ==
  ASSUME NEW p \in Seq(STRING), NEW r \in Seq(STRING), NEW q \in Seq(STRING),
         IsUnder(p, r), IsUnder(q, p)
  PROVE  IsUnder(q, r)
<1>1. Len(p) \in Nat /\ Len(r) \in Nat /\ Len(q) \in Nat
  BY LenProperties
<1>2. /\ Len(r) <= Len(p) /\ \A k \in 1 .. Len(r) : r[k] = p[k]
      /\ Len(p) <= Len(q) /\ \A k \in 1 .. Len(p) : p[k] = q[k]
  BY PrefixMeans
<1>3. Len(r) <= Len(q) /\ \A k \in 1 .. Len(r) : r[k] = q[k]
  BY <1>1, <1>2
<1>. QED
  BY <1>3, PrefixMeans

(* What is apart from a directory, stays so however far one goes down. *)
LEMMA ApartBelow ==
  ASSUME NEW p \in Seq(STRING), NEW d \in Seq(STRING), NEW q \in Seq(STRING),
         Apart(p, d), IsUnder(q, p)
  PROVE  Apart(q, d)
<1>1. ~IsUnder(q, d)
  BY Comparable DEF Apart
<1>2. ~IsUnder(d, q)
  BY Below DEF Apart
<1>. QED
  BY <1>1, <1>2 DEF Apart

LEMMA AppendIsBelow ==
  ASSUME NEW p \in Seq(STRING), NEW name \in STRING
  PROVE  Append(p, name) \in Seq(STRING) /\ IsUnder(Append(p, name), p)
<1>. DEFINE q == Append(p, name)
<1>1. /\ q \in Seq(STRING) /\ Len(q) = Len(p) + 1 /\ Len(p) \in Nat
      /\ \A k \in 1 .. Len(p) : q[k] = p[k]
  BY Appended
<1>. HIDE DEF q
<1>2. IsUnder(q, p)
  BY <1>1, PrefixMeans
<1>. QED
  BY <1>1, <1>2 DEF q

(* No link leads into a directory or above it: only a path that names it *)
(* gets there.                                                           *)
LEMMA LedAway ==
  ASSUME NEW t, IsTree(t), NEW p, IsNormal(p), NEW d \in Seq(STRING), ~IsUnder(p, d),
         \A l \in Followed(t) : Apart(t.links[l], d)
  PROVE  ~IsUnder(Physical(t, p), d)
<1>. DEFINE Place(n) == Physical(t, SubSeq(p, 1, n))
            A == {n \in 0 .. Len(p) : Place(n) = SubSeq(p, 1, n) \/ Apart(Place(n), d)}
<1>1. p \in Seq(STRING) /\ Len(p) \in Nat
  BY DEF IsNormal
<1>2. 0 \in A
  <2>1. SubSeq(p, 1, 0) = <<>>
    BY <1>1, SubSeqEmpty
  <2>2. Place(0) = SubSeq(p, 1, 0)
    BY <2>1, PhysicalEmpty
  <2>. QED
    BY <1>1, <2>2
<1>3. ASSUME NEW n \in A, n < Len(p)
      PROVE  n + 1 \in A
  <2>. DEFINE b == SubSeq(p, 1, n)
              c == SubSeq(p, 1, n + 1)
              at == Physical(t, b)
              name == p[n + 1]
              next == Append(at, name)
  <2>1. c = Append(b, name) /\ name \in STRING
    BY <1>1, <1>3, NextBeginning
  <2>2. b \in Seq(STRING)
    BY <1>1, Beginning
  <2>3. at \in Seq(STRING)
    <3>. HIDE DEF b
    <3>1. IsLinkFree(t, at)
      BY <2>2, PhysicalIsLinkFree
    <3>. QED
      BY <3>1 DEF IsLinkFree, IsNormal
  <2>4. Physical(t, c) = Onward(t, at, name)
    <3>. HIDE DEF b, c, name
    <3>. QED
      BY ONLY <2>1, <2>2, PhysicalAppend DEF at
  <2>5. n + 1 \in 0 .. Len(p) /\ n + 1 \in DOMAIN p
    BY <1>1, <1>3
  <2>6. name \notin {".", ".."}
    BY <2>5 DEF IsNormal
  <2>7. at = b \/ Apart(at, d)
    BY <1>3
  <2>8. Physical(t, c) = IF next \in Followed(t) THEN t.links[next] ELSE next
    BY <2>4, <2>6 DEF Onward
  <2>9. CASE next \in Followed(t)
    <3>1. Apart(Place(n + 1), d)
      BY <2>8, <2>9
    <3>. QED
      BY <2>5, <3>1
  <2>10. CASE next \notin Followed(t) /\ at = b
    <3>1. Place(n + 1) = c
      BY <2>1, <2>8, <2>10
    <3>. QED
      BY <2>5, <3>1
  <2>11. CASE next \notin Followed(t) /\ Apart(at, d)
    <3>1. Apart(next, d)
      <4>. HIDE DEF at, name
      <4>. QED
        BY <2>1, <2>3, <2>11, AppendIsBelow, ApartBelow
    <3>2. Apart(Place(n + 1), d)
      BY <2>8, <2>11, <3>1
    <3>. QED
      BY <2>5, <3>2
  <2>. QED
    BY <2>7, <2>9, <2>10, <2>11
<1>. HIDE DEF A
<1>4. Len(p) \in A
  BY <1>1, <1>2, <1>3, Climb DEF A
<1>5. SubSeq(p, 1, Len(p)) = p
  BY <1>1, Beginning
<1>6. Physical(t, p) = p \/ Apart(Physical(t, p), d)
  BY <1>4, <1>5 DEF A
<1>. QED
  BY <1>6 DEF Apart

LEMMA ReplacedLeavesAll ==
  ASSUME MapsOk, MapsLeadAway, NEW path, NEW to, IsNormal(to), Replaced(path, to),
         NEW m \in Range(path_maps)
  PROVE  ~IsUnder(to, m[1])
<1>1. CASE to = LexicallyNormal(path) /\ \A k \in Range(path_maps) : ~IsUnder(LexicallyNormal(path), k[1])
  BY <1>1
<1>2. ASSUME NEW other \in Range(path_maps), IsUnder(to, other[2])
      PROVE  ~IsUnder(to, m[1])
  <2>1. /\ m[1] \in Seq(STRING) /\ other[2] \in Seq(STRING) /\ to \in Seq(STRING)
        /\ Apart(other[2], m[1])
    BY DEF MapsOk, IsNormal, MapsLeadAway
  <2>2. Apart(to, m[1])
    BY <1>2, <2>1, ApartBelow
  <2>. QED
    BY <2>2 DEF Apart
<1>. QED
  BY <1>1, <1>2 DEF Replaced

LEMMA NamesBelowRoot ==
  ASSUME NEW path \in Seq(STRING), IsAbsolute(path)
  PROVE  Tail(path) \in Seq(STRING)
BY DEF IsAbsolute

LEMMA PathsAreReplaced ==
  ASSUME ArgsInv, ResolverInv, FrontInv, ListsInv
  PROVE  ForeignPathsReplaced
<1>1. ListsOk /\ MapsOk /\ IsTree(tree) /\ CommandsGiven
  BY ListsAreOk DEF ListsOk, FrontInv, OptionsInv, ArgsInv
<1>. SUFFICES ASSUME Resolved, OnlyCommandsNamePaths, MapsLeadAway,
                     NEW a \in Range(result.attempts), NEW path \in CommandPaths(a.args)
              PROVE  \/ \A m \in Range(path_maps) : ~IsUnder(Tail(path), m[1])
                     \/ \E command \in Range(commands) : \E token \in Range(command.line) :
                          /\ ~IsAbsolute(token.val)
                          /\ path = Rooted(LinkFree(CommandDirectory(command) \o token.val))
  BY DEF ForeignPathsReplaced
<1>2. PICK c \in DOMAIN commands : path \in LinePaths(commands[c])
  BY GivenPath
<1>. DEFINE command == commands[c]
<1>3. command \in Range(commands) /\ IsCompilerCommand(command)
  BY <1>1 DEF CommandsGiven, Range
<1>. HIDE DEF command
<1>4. PICK k \in DOMAIN command.line : path = ResolveCommandPathArgument(command, command.line[k].val)
  BY <1>2 DEF LinePaths, command
<1>. DEFINE token == command.line[k]
<1>5. token \in Range(command.line)
  BY DEF Range
<1>6. token.val \in Seq(STRING)
  <2>. DEFINE Token == [opt : STRING, val : Seq(STRING)]
              line == command.line
  <2>1. line \in Seq(Token) /\ k \in DOMAIN line
    BY <1>3 DEF IsCompilerCommand
  <2>. HIDE DEF Token, line
  <2>2. line[k] \in Token
    BY <2>1
  <2>. QED
    BY <2>2 DEF Token, line
<1>7. path = Rooted(CommandRelativePath(command, token.val))
  BY <1>4 DEF ResolveCommandPathArgument
<1>. HIDE DEF token
<1>8. CASE ~IsAbsolute(token.val)
  <2>1. path = Rooted(LinkFree(CommandDirectory(command) \o token.val))
    BY <1>7, <1>8 DEF CommandRelativePath
  <2>. QED
    BY <1>3, <1>5, <1>8, <2>1
<1>9. CASE IsAbsolute(token.val)
  <2>. DEFINE given == Tail(token.val)
  <2>1. given \in Seq(STRING)
    BY <1>6, <1>9, NamesBelowRoot
  <2>. HIDE DEF given
  <2>2. path = Rooted(ApplyPathMaps(given))
    BY <1>7, <1>9 DEF CommandRelativePath, given
  <2>3. PICK to : IsNormal(to) /\ Replaced(given, to) /\ ApplyPathMaps(given) = LinkFree(to)
    BY <1>1, <2>1, MapsReplace
  <2>4. LinkFree(to) \in Seq(STRING)
    BY <1>1, <2>1, <2>3, MappedIsLinkFree
  <2>5. Tail(path) = Physical(tree, to)
    BY <2>2, <2>3, <2>4, RootedIsAbsolute DEF LinkFree
  <2>6. ASSUME NEW m \in Range(path_maps)
        PROVE  ~IsUnder(Tail(path), m[1])
    <3>1. m[1] \in Seq(STRING) /\ \A l \in Followed(tree) : Apart(tree.links[l], m[1])
      BY <1>1 DEF MapsOk, IsNormal, MapsLeadAway
    <3>2. ~IsUnder(to, m[1])
      BY <1>1, <2>3, ReplacedLeavesAll
    <3>. QED
      BY <1>1, <2>3, <2>5, <3>1, <3>2, LedAway
  <2>. QED
    BY <2>6
<1>. QED
  BY <1>8, <1>9

(* For any such lines, trees and path maps that do not lead back: no       *)
(* path that was absolute in a command line is left in a directory that is *)
(* to be replaced, neither as it is written nor through a link.            *)
THEOREM MapsReplaceForeignPaths == Spec => []ForeignPathsReplaced
<1>1. FrontInv /\ ResolverInv /\ ListsInv /\ ArgsInv => ForeignPathsReplaced
  BY PathsAreReplaced
<1>. QED
  BY <1>1, FrontInvariance, ResolverInvariance, ArgsInvariance, PTL
=============================================================================
