---------------------- MODULE CompileValidationProofs ----------------------
(***************************************************************************)
(* Proofs about the compile validation, for any sets of generated files,   *)
(* arguments and numbers of calls and deaths.  KeepInv relates the tree to *)
(* what the diagnostics say of it, StagedInv the files accepted so far to  *)
(* the input, TreeInv the contents of the tree to the files accepted, and  *)
(* CommandsInv the commands and objects so far to the jobs.                *)
(*                                                                         *)
(* A job is identified by the place of its file (Order), so that one file  *)
(* is one job whatever its source, object or arguments have in common with *)
(* those of another; ObjectsApart says that objects have little in common. *)
(***************************************************************************)
EXTENDS CompileValidation, FiniteSetTheorems, SequenceTheorems, TLAPS

-----------------------------------------------------------------------------
(* Places of a sequence *)

(* Nth counts through a finite set of numbers: it hits each once. *)
LEMMA NthFacts ==
  ASSUME NEW P \in SUBSET Nat, IsFiniteSet(P)
  PROVE  /\ Cardinality(P) \in Nat
         /\ \A n \in 1 .. Cardinality(P) : Nth(P, n) \in P
         /\ \A k \in P : \E n \in 1 .. Cardinality(P) : Nth(P, n) = k
         /\ \A m, n \in 1 .. Cardinality(P) : Nth(P, m) = Nth(P, n) => m = n
<1>. DEFINE UpTo(k) == {j \in P : j <= k}
            Place == [k \in P |-> Cardinality(UpTo(k))]
            N == Cardinality(P)
<1>1. N \in Nat
  BY FS_CardinalityType
<1>2. ASSUME NEW k \in P
      PROVE  /\ IsFiniteSet(UpTo(k))
             /\ Cardinality(UpTo(k)) \in 1 .. N
  <2>1. UpTo(k) \in SUBSET P /\ k \in UpTo(k)
    OBVIOUS
  <2>2. IsFiniteSet(UpTo(k)) /\ Cardinality(UpTo(k)) <= N
    BY <2>1, FS_Subset
  <2>3. Cardinality(UpTo(k)) \in Nat /\ Cardinality(UpTo(k)) # 0
    BY <2>1, <2>2, FS_CardinalityType, FS_EmptySet
  <2>. QED
    BY <1>1, <2>2, <2>3
<1>3. ASSUME NEW j \in P, NEW k \in P, j < k
      PROVE  Cardinality(UpTo(j)) # Cardinality(UpTo(k))
  <2>1. UpTo(j) \in SUBSET UpTo(k) /\ UpTo(j) # UpTo(k)
    <3>1. k \in UpTo(k) /\ k \notin UpTo(j)
      BY <1>3
    <3>2. \A x \in UpTo(j) : x \in UpTo(k)
      BY <1>3
    <3>. QED
      BY <3>1, <3>2
  <2>. QED
    BY <1>2, <2>1, FS_Subset
<1>4. Place \in Injection(P, 1 .. N)
  <2>1. Place \in [P -> 1 .. N]
    BY <1>2
  <2>2. ASSUME NEW j \in P, NEW k \in P, Place[j] = Place[k] PROVE j = k
    <3>1. ~(j < k) /\ ~(k < j)
      BY <1>3, <2>2
    <3>. QED
      BY <3>1
  <2>. QED
    BY <2>1, <2>2 DEF Injection, IsInjective
<1>5. Place \in Surjection(P, 1 .. N)
  <2>1. IsFiniteSet(1 .. N) /\ Cardinality(1 .. N) = N
    BY <1>1, FS_Interval
  <2>. QED
    BY <1>4, <2>1, FS_Injection
<1>6. \A n \in 1 .. N : \E k \in P : Cardinality(UpTo(k)) = n
  BY <1>5 DEF Surjection
<1>7. \A n \in 1 .. N : Nth(P, n) \in P /\ Cardinality(UpTo(Nth(P, n))) = n
  BY <1>6 DEF Nth
<1>8. \A j, k \in P : Cardinality(UpTo(j)) = Cardinality(UpTo(k)) => j = k
  BY <1>4 DEF Injection, IsInjective
<1>. HIDE DEF UpTo, Place
<1>9. ASSUME NEW k \in P PROVE \E n \in 1 .. N : Nth(P, n) = k
  <2>1. Cardinality(UpTo(k)) \in 1 .. N
    BY <1>2
  <2>. QED
    BY <1>7, <1>8, <2>1
<1>. QED
  BY <1>1, <1>7, <1>9

(* The members at some places are members. *)
LEMMA AtFacts ==
  ASSUME NEW S, NEW s \in Seq(S), NEW P \in SUBSET DOMAIN s
  PROVE  /\ IsFiniteSet(P) /\ P \subseteq Nat \ {0}
         /\ At(s, P) \in Seq(S)
         /\ Len(At(s, P)) = Cardinality(P)
         /\ \A n \in 1 .. Cardinality(P) : At(s, P)[n] = s[Nth(P, n)]
<1>1. Len(s) \in Nat /\ DOMAIN s = 1 .. Len(s) /\ \A n \in 1 .. Len(s) : s[n] \in S
  BY LenProperties, ElementOfSeq
<1>2. IsFiniteSet(P) /\ P \in SUBSET Nat /\ P \subseteq Nat \ {0}
  <2>1. P \in SUBSET (1 .. Len(s)) /\ IsFiniteSet(1 .. Len(s))
    BY <1>1, FS_Interval
  <2>2. IsFiniteSet(P)
    BY <2>1, FS_Subset
  <2>. QED
    BY <1>1, <2>1, <2>2
<1>3. Cardinality(P) \in Nat /\ \A n \in 1 .. Cardinality(P) : Nth(P, n) \in P
  BY <1>2, NthFacts
<1>4. At(s, P) \in [1 .. Cardinality(P) -> S]
  BY <1>1, <1>3 DEF At
<1>5. At(s, P) \in Seq(S) /\ Len(At(s, P)) = Cardinality(P)
  BY <1>3, <1>4
<1>. QED
  BY <1>2, <1>5 DEF At

(* A sequence of whatever values. *)
IsList(s) == s \in Seq(Range(s))

LEMMA AppendFacts ==
  ASSUME NEW s, IsList(s), NEW x
  PROVE  /\ IsList(Append(s, x))
         /\ Len(s) \in Nat /\ DOMAIN s = 1 .. Len(s)
         /\ Len(Append(s, x)) = Len(s) + 1
         /\ \A n \in 1 .. Len(s) : Append(s, x)[n] = s[n]
         /\ Append(s, x)[Len(s) + 1] = x
         /\ Range(Append(s, x)) = Range(s) \union {x}
         /\ Append(s, x) # <<>>
<1>. DEFINE S == Range(s) \union {x}
            t == Append(s, x)
<1>1. s \in Seq(S)
  BY SeqMonotonic DEF IsList
<1>2. Len(s) \in Nat /\ DOMAIN s = 1 .. Len(s) /\ s \in [1 .. Len(s) -> S]
  BY <1>1, LenProperties
<1>3. /\ t \in Seq(S) /\ t # <<>> /\ Len(t) = Len(s) + 1
      /\ \A n \in 1 .. Len(s) : t[n] = s[n]
      /\ t[Len(s) + 1] = x
  BY <1>1, AppendProperties
<1>4. DOMAIN t = 1 .. Len(s) + 1
  BY <1>3, LenProperties
<1>. HIDE DEF t
<1>5. Range(t) = S
  <2>1. \A n \in 1 .. Len(s) + 1 : n \in 1 .. Len(s) \/ n = Len(s) + 1
    BY <1>2
  <2>2. 1 .. Len(s) \subseteq 1 .. Len(s) + 1 /\ Len(s) + 1 \in 1 .. Len(s) + 1
    BY <1>2
  <2>3. \A n \in 1 .. Len(s) + 1 : t[n] \in S
    BY <1>2, <1>3, <2>1
  <2>4. \A y \in S : \E n \in 1 .. Len(s) + 1 : t[n] = y
    BY <1>2, <1>3, <2>2 DEF Range
  <2>. QED
    BY <1>4, <2>3, <2>4 DEF Range
<1>. QED
  BY <1>2, <1>3, <1>5 DEF IsList, t

LEMMA EmptyList == IsList(<<>>) /\ Range(<<>>) = {} /\ Len(<<>>) = 0
BY EmptySeq DEF IsList, Range

LEMMA ListFacts ==
  ASSUME NEW s, IsList(s)
  PROVE  /\ Len(s) \in Nat /\ DOMAIN s = 1 .. Len(s)
         /\ s = <<>> <=> Range(s) = {}
         /\ s = <<>> <=> Len(s) = 0
<1>1. s \in Seq(Range(s))
  BY DEF IsList
<1>2. Len(s) \in Nat /\ DOMAIN s = 1 .. Len(s)
  BY <1>1, LenProperties
<1>3. s = <<>> <=> Len(s) = 0
  BY <1>1, EmptySeq
<1>4. Range(s) = {} <=> Len(s) = 0
  <2>1. Len(s) = 0 => DOMAIN s = {}
    BY <1>2
  <2>2. Len(s) # 0 => 1 \in DOMAIN s
    BY <1>2
  <2>. QED
    BY <2>1, <2>2 DEF Range
<1>. QED
  BY <1>2, <1>3, <1>4
-----------------------------------------------------------------------------
(* The tree and the artifacts that diagnostics name *)

Working == {"stage", "write", "source", "compile", "finish"}

(* Every diagnostic promises what the option says. *)
Promised == \A d \in Range(diagnostics) : d.artifact = opt.keep_failed_artifacts

(* No tree came to be, and nothing is promised. *)
Treeless == ~keep /\ \A d \in Range(diagnostics) : ~d.artifact /\ d.about = "tree"

KeepInv ==
  /\ input \in Inputs /\ exists \in BOOLEAN /\ keep \in BOOLEAN
  /\ pc \in Working \union {"clear", "destroy"} \union Ended
  /\ IsList(diagnostics)
  /\ pc = "clear" => diagnostics = <<>> /\ ~keep
  /\ pc \in Working => exists /\ ~keep /\ Promised
  /\ pc = "destroy" =>
       Treeless \/ (exists /\ Promised /\ (keep <=> opt.keep_failed_artifacts /\ diagnostics # <<>>))
  /\ ArtifactsKeptAsSaid

LEMMA KeepInit == Init => KeepInv
BY EmptyList DEF Init, KeepInv, ArtifactsKeptAsSaid, Returned, Ended, Working

LEMMA KeepNext == KeepInv /\ [Next]_vars => KeepInv'
<1>. SUFFICES ASSUME KeepInv, [Next]_vars PROVE KeepInv'
  OBVIOUS
<1>. USE DEF KeepInv
<1>0. opt.keep_failed_artifacts \in BOOLEAN
  BY InputsGiven DEF opt
(* A diagnostic that keeps the promise *)
<1>a. ASSUME NEW about, Say(about, opt.keep_failed_artifacts), Promised, input' = input
      PROVE  IsList(diagnostics)' /\ Promised' /\ diagnostics' # <<>>
  BY <1>a, AppendFacts DEF Say, Promised, opt
<1>b. ASSUME NEW about, GiveUp(about), pc \in Working, input' = input, exists' = exists
      PROVE  KeepInv'
  <2>1. IsList(diagnostics)' /\ Promised' /\ diagnostics' # <<>>
    BY <1>a, <1>b DEF GiveUp
  <2>. QED
    BY <1>0, <1>b, <2>1 DEF GiveUp, Working, Ended, opt, ArtifactsKeptAsSaid, Returned
(* A step from one phase to the next, which says nothing *)
<1>c. ASSUME pc \in Working \union {"clear"}, pc' \in Working, input' = input, exists',
             UNCHANGED <<keep, diagnostics>>
      PROVE  KeepInv'
  BY <1>c, EmptyList DEF Promised, Working, Ended, opt, ArtifactsKeptAsSaid, Returned
<1>d. ASSUME NEW about, Say(about, opt.keep_failed_artifacts), pc \in Working,
             pc' \in Working, UNCHANGED <<input, exists, keep>>
      PROVE  KeepInv'
  <2>1. IsList(diagnostics)' /\ Promised'
    BY <1>a, <1>d
  <2>. QED
    BY <1>d, <2>1 DEF Working, Ended, ArtifactsKeptAsSaid, Returned
<1>1. CASE Begin
  BY <1>1, EmptyList
  DEF Begin, Ended, Working, ArtifactsKeptAsSaid, Returned, opt
<1>2. CASE ClearTree
  BY <1>2, <1>c DEF ClearTree, Goto, result, Working
<1>3. CASE ClearTreeFails
  <2>. DEFINE d == [about |-> "tree", artifact |-> FALSE]
  <2>1. diagnostics' = Append(diagnostics, d) /\ ~keep' /\ Range(diagnostics) = {}
    BY <1>3, EmptyList DEF ClearTreeFails, Say
  <2>a. IsList(Append(diagnostics, d)) /\ Range(Append(diagnostics, d)) = {d}
    <3>. HIDE DEF d
    <3>. QED
      BY <2>1, AppendFacts
  <2>2. IsList(diagnostics)' /\ Treeless'
    BY <2>1, <2>a DEF Treeless
  <2>3. exists' \in BOOLEAN
    BY <1>3 DEF ClearTreeFails
  <2>. QED
    BY <1>3, <2>2, <2>3 DEF ClearTreeFails, Working, Ended, ArtifactsKeptAsSaid, Returned
<1>4. CASE StageFile
  <2>1. CASE GiveUp("path")
    BY <1>4, <2>1, <1>b DEF StageFile, Working
  <2>2. CASE UNCHANGED <<pc, diagnostics, keep>>
    BY <1>4, <2>2, <1>c DEF StageFile, Working
  <2>. QED
    BY <1>4, <2>1, <2>2 DEF StageFile
<1>5. CASE StageDone
  BY <1>5, <1>c DEF StageDone, Goto, result, Working
<1>6. CASE WriteFile
  <2>1. CASE GiveUp("write")
    BY <1>6, <2>1, <1>b DEF WriteFile, Working
  <2>2. CASE UNCHANGED <<pc, diagnostics, keep>>
    BY <1>6, <2>2, <1>c DEF WriteFile, Working
  <2>. QED
    BY <1>6, <2>1, <2>2 DEF WriteFile
<1>7. CASE CheckFakeObjects
  <2>1. CASE GiveUp("object")
    BY <1>7, <2>1, <1>b DEF CheckFakeObjects, Working
  <2>2. CASE Goto("source") /\ UNCHANGED <<diagnostics, keep>>
    BY <1>7, <2>2, <1>c DEF CheckFakeObjects, Goto, Working
  <2>. QED
    BY <1>7, <2>1, <2>2 DEF CheckFakeObjects
<1>8. CASE WriteSmokeSource
  <2>1. CASE GiveUp("smoke")
    BY <1>8, <2>1, <1>b DEF WriteSmokeSource, Working
  <2>2. CASE pc' = "compile" /\ UNCHANGED <<diagnostics, keep>>
    BY <1>8, <2>2, <1>c DEF WriteSmokeSource, Working
  <2>. QED
    BY <1>8, <2>1, <2>2 DEF WriteSmokeSource
<1>9. CASE Compile
  <2>1. CASE Say("compile", opt.keep_failed_artifacts)
    BY <1>9, <2>1, <1>d DEF Compile, Advance, Working
  <2>2. CASE UNCHANGED diagnostics
    BY <1>9, <2>2, <1>c DEF Compile, Advance, Working
  <2>. QED
    BY <1>9, <2>1, <2>2 DEF Compile
<1>10. CASE ObjectDirectoryFails
  BY <1>10, <1>d DEF ObjectDirectoryFails, Advance, Working
<1>11. CASE Link
  <2>1. CASE Say("link", opt.keep_failed_artifacts)
    BY <1>11, <2>1, <1>d DEF Link, CompiledAll, Goto, Working
  <2>2. CASE UNCHANGED diagnostics
    BY <1>11, <2>2, <1>c DEF Link, CompiledAll, Goto, Working
  <2>. QED
    BY <1>11, <2>1, <2>2 DEF Link
<1>12. CASE Finish
  <2>1. /\ pc \in Working /\ pc' = "destroy" /\ UNCHANGED <<input, exists, diagnostics>>
        /\ keep' = (opt.keep_failed_artifacts /\ diagnostics # <<>>)
    BY <1>12 DEF Finish, CompiledAll, Goto, result, Working
  <2>. QED
    BY <2>1, <1>0 DEF Promised, Working, Ended, opt, ArtifactsKeptAsSaid, Returned
<1>13. CASE DestroyTree
  <2>1. /\ pc = "destroy" /\ pc' = "returned" /\ UNCHANGED <<input, diagnostics, keep>>
        /\ IF keep THEN UNCHANGED exists ELSE exists' = FALSE
    BY <1>13 DEF DestroyTree, result
  <2>2. diagnostics # <<>> => Range(diagnostics) # {}
    BY ListFacts
  <2>3. ArtifactsKeptAsSaid'
    <3>1. CASE Treeless
      BY <2>1, <3>1 DEF Treeless, ArtifactsKeptAsSaid, opt
    <3>2. CASE ~Treeless
      <4>1. exists /\ Promised /\ (keep <=> opt.keep_failed_artifacts /\ diagnostics # <<>>)
        BY <2>1, <3>2
      <4>2. CASE keep
        <5>1. PICK d \in Range(diagnostics) : d.artifact
          BY <1>0, <2>2, <4>1, <4>2 DEF Promised
        <5>. QED
          BY <2>1, <4>1, <4>2, <5>1 DEF Promised, ArtifactsKeptAsSaid, opt
      <4>3. CASE ~keep
        <5>1. ~\E d \in Range(diagnostics) : d.artifact
          BY <4>1, <4>3, EmptyList DEF Promised
        <5>2. ~opt.keep_failed_artifacts \/ Range(diagnostics) = {}
          BY <4>1, <4>3, EmptyList
        <5>. QED
          BY <2>1, <4>3, <5>1, <5>2 DEF ArtifactsKeptAsSaid, opt
      <4>. QED
        BY <4>2, <4>3
    <3>. QED
      BY <3>1, <3>2
  <2>. QED
    BY <2>1, <2>3 DEF Working, Ended
<1>14. CASE DestroyTreeFails
  <2>1. /\ pc = "destroy" /\ pc' = "littered" /\ UNCHANGED <<input, diagnostics, keep, exists>>
        /\ ~keep
    BY <1>14 DEF DestroyTreeFails, result
  <2>2. diagnostics # <<>> \/ Range(diagnostics) = {}
    BY ListFacts
  <2>3. ArtifactsKeptAsSaid'
    BY <1>0, <2>1, <2>2 DEF Treeless, Promised, ArtifactsKeptAsSaid, opt, Working, Ended
  <2>. QED
    BY <2>1, <2>3 DEF Working, Ended
<1>15. CASE Crash
  BY <1>15 DEF Crash, result, Working, Ended, ArtifactsKeptAsSaid, Returned
<1>16. CASE UNCHANGED vars
  BY <1>16 DEF vars, result, Promised, Treeless, ArtifactsKeptAsSaid, Returned, opt
<1>. QED
  BY <1>1, <1>2, <1>3, <1>4, <1>5, <1>6, <1>7, <1>8, <1>9, <1>10, <1>11, <1>12, <1>13,
     <1>14, <1>15, <1>16 DEF Next

(* What is said of the tree at the end of a call is so: a diagnostic names the
   tree exactly if it is still there. *)
THEOREM ArtifactsAsSaid == Spec => []ArtifactsKeptAsSaid
<1>1. KeepInv => ArtifactsKeptAsSaid
  BY DEF KeepInv
<1>. QED
  BY KeepInit, KeepNext, <1>1, PTL DEF Spec
-----------------------------------------------------------------------------
(* Paths and files *)

LEMMA JoinFacts ==
  ASSUME NEW s, IsList(s), NEW t, IsList(t)
  PROVE  /\ IsList(s \o t)
         /\ Len(s) \in Nat /\ Len(t) \in Nat /\ Len(s \o t) = Len(s) + Len(t)
         /\ \A n \in 1 .. Len(s) : (s \o t)[n] = s[n]
         /\ \A n \in 1 .. Len(t) : (s \o t)[Len(s) + n] = t[n]
         /\ Range(s \o t) = Range(s) \union Range(t)
<1>. DEFINE S == Range(s) \union Range(t)
<1>1. s \in Seq(S) /\ t \in Seq(S)
  BY SeqMonotonic DEF IsList
<1>2. Len(s) \in Nat /\ Len(t) \in Nat
  BY <1>1, LenProperties
<1>3. /\ s \o t \in Seq(S) /\ Len(s \o t) = Len(s) + Len(t)
      /\ \A n \in 1 .. Len(s) + Len(t) :
           (s \o t)[n] = IF n <= Len(s) THEN s[n] ELSE t[n - Len(s)]
  BY <1>1, ConcatProperties
<1>4. Range(s \o t) = S
  BY <1>1, RangeConcatenation
<1>5. \A n \in 1 .. Len(s) : (s \o t)[n] = s[n]
  BY <1>2, <1>3
<1>6. \A n \in 1 .. Len(t) : (s \o t)[Len(s) + n] = t[n]
  BY <1>2, <1>3
<1>. QED
  BY <1>2, <1>3, <1>4, <1>5, <1>6 DEF IsList

LEMMA NormalFacts ==
  ASSUME NEW p \in Paths
  PROVE  Normal(p) \in Paths
<1>. DEFINE P == {k \in DOMAIN p.parts : p.parts[k] # "."}
<1>1. p.parts \in Seq(STRING) /\ P \in SUBSET DOMAIN p.parts
  BY DEF Paths
<1>2. At(p.parts, P) \in Seq(STRING)
  BY <1>1, AtFacts
<1>. QED
  BY <1>2 DEF Normal, Paths

(* The components of paths; the provers do not know that a literal is a STRING. *)
Text == STRING \union {"generated", "objects", "mock_header_smoke", "all_mocks_header_smoke",
                       "mock_headers", "all_mocks_header", "link_main_smoke", ".o", ".cpp"}

LEMMA PairFacts ==
  ASSUME NEW S, NEW a \in S, NEW b \in S
  PROVE  /\ <<a>> \in Seq(S) /\ Len(<<a>>) = 1 /\ <<a>>[1] = a
         /\ <<a, b>> \in Seq(S) /\ Len(<<a, b>>) = 2
         /\ <<a, b>>[1] = a /\ <<a, b>>[2] = b
OBVIOUS

Between(d, s, e) == d \o s \o <<e>>

LEMMA HeadOfJoin ==
  ASSUME NEW S, NEW d \in Seq(S), Len(d) >= 1, NEW s \in Seq(S), NEW e \in S
  PROVE  Head(Between(d, s, e)) = d[1]
<1>. DEFINE t == d \o s
            u == Append(t, e)
<1>1. Len(d) \in Nat /\ Len(s) \in Nat
  BY LenProperties
<1>2. t \in Seq(S) /\ Len(t) \in Nat /\ Len(t) >= 1 /\ t[1] = d[1]
  BY <1>1, ConcatProperties
<1>3. Between(d, s, e) = u
  <2>1. u = t \o <<e>>
    BY <1>2, AppendIsConcat
  <2>. QED
    BY <2>1 DEF Between
<1>. HIDE DEF t
<1>4. u \in Seq(S) /\ Len(u) = Len(t) + 1 /\ u[1] = t[1]
  BY <1>2, AppendProperties
<1>. HIDE DEF u
<1>5. Head(u) = u[1]
  BY <1>2, <1>4
<1>. QED
  BY <1>2, <1>3, <1>4, <1>5

LEMMA HeadFacts1 ==
  ASSUME NEW p \in Paths, NEW a \in Text, NEW b \in Text, NEW e \in Text
  PROVE  Head(Below(<<a>>, p, e)) = a /\ Head(Below(<<a, b>>, p, e)) = a
<1>1. p.parts \in Seq(Text)
  BY SeqMonotonic DEF Paths, Text
<1>. DEFINE c == <<a>>
            d == <<a, b>>
<1>2. c \in Seq(Text) /\ Len(c) >= 1 /\ c[1] = a /\ d \in Seq(Text) /\ Len(d) >= 1 /\ d[1] = a
  BY PairFacts
<1>. HIDE DEF c, d
<1>3. Head(Between(c, p.parts, e)) = a /\ Head(Between(d, p.parts, e)) = a
  BY ONLY <1>1, <1>2, e \in Text, HeadOfJoin, Zenon
<1>. QED
  BY <1>3 DEF Below, Between, c, d

LEMMA SameLast ==
  ASSUME NEW S, NEW a \in Seq(S), NEW b \in Seq(S), NEW e \in S, NEW f \in S,
         Append(a, e) = Append(b, f)
  PROVE  a = b /\ e = f
<1>. DEFINE u == Append(a, e)
            v == Append(b, f)
<1>1. /\ Len(u) = Len(a) + 1 /\ Len(v) = Len(b) + 1
      /\ \A n \in 1 .. Len(a) : u[n] = a[n]
      /\ \A n \in 1 .. Len(b) : v[n] = b[n]
      /\ u[Len(a) + 1] = e /\ v[Len(b) + 1] = f
  BY AppendProperties
<1>2. u = v /\ Len(a) \in Nat /\ Len(b) \in Nat
  BY LenProperties
<1>. HIDE DEF u, v
<1>3. Len(a) = Len(b)
  BY <1>1, <1>2
<1>5. e = f
  BY <1>1, <1>2, <1>3
<1>4. \A n \in 1 .. Len(a) : a[n] = b[n]
  BY <1>1, <1>2, <1>3
<1>. QED
  BY <1>3, <1>4, <1>5, SeqEqual

LEMMA SameMiddle ==
  ASSUME NEW S, NEW d \in Seq(S), NEW s \in Seq(S), NEW t \in Seq(S), NEW e \in S, NEW f \in S,
         Between(d, s, e) = Between(d, t, f)
  PROVE  s = t /\ e = f
<1>1. d \o s \in Seq(S) /\ d \o t \in Seq(S)
  BY ConcatProperties
<1>2. Append(d \o s, e) = d \o s \o <<e>> /\ Append(d \o t, f) = d \o t \o <<f>>
  BY <1>1, AppendIsConcat
<1>. DEFINE a == d \o s
            b == d \o t
<1>3. a \in Seq(S) /\ b \in Seq(S) /\ Append(a, e) = Append(b, f)
  BY <1>1, <1>2 DEF Between
<1>. HIDE DEF a, b
<1>4. a = b /\ e = f
  BY <1>3, SameLast
<1>5. \A v, w \in Seq(S) : d \o v = d \o w => v = w
  BY ConcatSimplifications
<1>. QED
  BY <1>4, <1>5 DEF a, b

(* Two paths below one directory are the same only if all of it is. *)
LEMMA BelowInjective ==
  ASSUME NEW d \in Seq(Text), NEW p \in Paths, NEW q \in Paths,
         NEW e \in Text, NEW f \in Text, Below(d, p, e) = Below(d, q, f)
  PROVE  p.parts = q.parts /\ e = f
<1>1. /\ d \in Seq(Text) /\ p.parts \in Seq(Text) /\ q.parts \in Seq(Text)
      /\ e \in Text /\ f \in Text
      /\ Between(d, p.parts, e) = Between(d, q.parts, f)
  BY SeqMonotonic DEF Below, Paths, Between, Text
<1>. QED
  BY <1>1, SameMiddle

LEMMA CxxFacts ==
  ASSUME input \in Inputs
  PROVE  /\ CxxFiles \in Seq(Files)
         /\ \A n \in 1 .. Len(CxxFiles) :
              CxxFiles[n] \in input.files /\ IsCxxValidationInput(CxxFiles[n])
<1>. DEFINE cxx == {f \in input.files : IsCxxValidationInput(f)}
            ranks == {f.rank : f \in cxx}
            N == Cardinality(ranks)
<1>1. input.files \subseteq Files /\ IsFiniteSet(cxx)
  BY InputsGiven, FS_Subset
<1>2. ranks \in SUBSET Nat
  BY <1>1 DEF Files
<1>3. IsFiniteSet(ranks)
  <2>1. [f \in cxx |-> f.rank] \in Surjection(cxx, ranks)
    BY DEF Surjection
  <2>. QED
    BY <1>1, <2>1, FS_Surjection
<1>4. N \in Nat /\ \A n \in 1 .. N : Nth(ranks, n) \in ranks
  BY <1>2, <1>3, NthFacts
<1>5. CxxFiles = [n \in 1 .. N |-> CHOOSE f \in cxx : f.rank = Nth(ranks, n)]
  BY DEF CxxFiles
<1>6. \A n \in 1 .. N : CxxFiles[n] \in cxx
  BY <1>4, <1>5
<1>. HIDE DEF N
<1>7. CxxFiles \in [1 .. N -> Files]
  BY <1>1, <1>5, <1>6
<1>8. CxxFiles \in Seq(Files) /\ Len(CxxFiles) = N
  BY <1>4, <1>7
<1>. QED
  BY <1>6, <1>8
-----------------------------------------------------------------------------
(* The jobs, by the place of the file each is about; that of main is 0. *)

SourceAt(k) == IF k = 0 THEN MainSmoke ELSE SourceOf(staged[k])

ObjectOf(f) == IF f.kind = "fake_source" THEN FakeObjectPath(f.path) ELSE SmokeObjectPath(f)

ObjectAt(k) == IF k = 0 THEN MainSmokeObject ELSE ObjectOf(staged[k])

Does(job, k) ==
  /\ job.source = SourceAt(k) /\ job.object = ObjectAt(k)
  /\ job.smoke => k = 0 \/ staged[k].kind # "fake_source"
  /\ k # 0 /\ staged[k].kind # "all_mocks_header" =>
       job.args = BaseCompileArguments(ValidationArgsForFile(staged[k]))

Matches(jobs, places) ==
  /\ IsList(jobs) /\ IsList(places) /\ Len(jobs) = Len(places)
  /\ \A n \in 1 .. Len(places) : Does(jobs[n], places[n])

NoRepeat(s) == \A m, n \in 1 .. Len(s) : s[m] = s[n] => m = n

Turns(kind) == [n \in 1 .. Cardinality(PlacesOf(kind)) |-> Nth(PlacesOf(kind), n)]

TurnOfMain == IF LinkNeedsMain THEN <<0>> ELSE <<>>

Order ==
  Turns("mock_header") \o Turns("all_mocks_header") \o TurnOfMain \o Turns("fake_source")

LEMMA ListOfFunction ==
  ASSUME NEW N \in Nat, NEW f, f = [n \in 1 .. N |-> f[n]]
  PROVE  IsList(f) /\ Len(f) = N
<1>1. DOMAIN f = 1 .. N /\ f \in [1 .. N -> Range(f)]
  BY DEF Range
<1>. QED
  BY <1>1 DEF IsList

LEMMA TurnsFacts ==
  ASSUME staged \in Seq(Files), NEW kind
  PROVE  /\ IsList(Turns(kind)) /\ Len(Turns(kind)) = Cardinality(PlacesOf(kind))
         /\ NoRepeat(Turns(kind)) /\ Range(Turns(kind)) = PlacesOf(kind)
         /\ 0 \notin PlacesOf(kind) /\ Cardinality(PlacesOf(kind)) \in Nat
<1>. DEFINE P == PlacesOf(kind)
            N == Cardinality(P)
            f == Turns(kind)
<1>1. P \in SUBSET DOMAIN staged
  BY DEF PlacesOf
<1>2. IsFiniteSet(P) /\ P \in SUBSET Nat /\ 0 \notin P
  BY <1>1, AtFacts
<1>. HIDE DEF P
<1>3. /\ N \in Nat
      /\ \A n \in 1 .. N : Nth(P, n) \in P
      /\ \A k \in P : \E n \in 1 .. N : Nth(P, n) = k
      /\ \A m, n \in 1 .. N : Nth(P, m) = Nth(P, n) => m = n
  BY <1>2, NthFacts
<1>4. f = [n \in 1 .. N |-> Nth(P, n)]
  BY DEF Turns, P
<1>. HIDE DEF f, N
<1>5. DOMAIN f = 1 .. N /\ \A n \in 1 .. N : f[n] = Nth(P, n)
  BY <1>4
<1>6. IsList(f) /\ Len(f) = N
  BY <1>3, <1>4, <1>5, ListOfFunction
<1>7. Range(f) = P
  BY <1>3, <1>5 DEF Range
<1>. QED
  <2>1. NoRepeat(f)
    BY <1>3, <1>5, <1>6 DEF NoRepeat
  <2>. QED
    BY <1>2, <1>3, <1>6, <1>7, <2>1 DEF P, N, f

(* No member in common. *)
Apart(s, t) == Range(s) \cap Range(t) = {}

(* Lists of jobs that match are put together as their places are. *)
LEMMA MatchesJoin ==
  ASSUME NEW j, NEW p, Matches(j, p), NoRepeat(p),
         NEW k, NEW q, Matches(k, q), NoRepeat(q), Apart(p, q)
  PROVE  Matches(j \o k, p \o q) /\ NoRepeat(p \o q)
<1>. DEFINE J == j \o k
            P == p \o q
            M == Len(p)
            N == Len(q)
<1>a. Range(p) \cap Range(q) = {}
  BY DEF Apart
<1>1. /\ M \in Nat /\ N \in Nat /\ Len(j) = M /\ Len(k) = N
      /\ DOMAIN p = 1 .. M /\ DOMAIN q = 1 .. N
  BY ListFacts DEF Matches
<1>2. /\ IsList(P) /\ Len(P) = M + N /\ Range(P) = Range(p) \union Range(q)
      /\ \A n \in 1 .. M : P[n] = p[n]
      /\ \A n \in 1 .. N : P[M + n] = q[n]
  <2>1. IsList(p) /\ IsList(q)
    BY DEF Matches
  <2>. QED
    BY ONLY <2>1, JoinFacts
<1>3. /\ IsList(J) /\ Len(J) = M + N
      /\ \A n \in 1 .. M : J[n] = j[n]
      /\ \A n \in 1 .. N : J[M + n] = k[n]
  <2>1. /\ IsList(J) /\ Len(J) = Len(j) + Len(k)
        /\ \A n \in 1 .. Len(j) : J[n] = j[n]
        /\ \A n \in 1 .. Len(k) : J[Len(j) + n] = k[n]
    <3>1. IsList(j) /\ IsList(k)
      BY DEF Matches
    <3>. QED
      BY ONLY <3>1, JoinFacts
  <2>. HIDE DEF J, M, N
  <2>. QED
    BY <1>1, <2>1
<1>. HIDE DEF J, P, M, N
<1>4. \A n \in 1 .. M + N : n \in 1 .. M \/ (n - M \in 1 .. N /\ n = M + (n - M))
  BY <1>1
<1>5. \A n \in 1 .. M : Does(j[n], p[n])
  BY DEF Matches, M
<1>6. \A n \in 1 .. N : Does(k[n], q[n])
  BY DEF Matches, N
<1>7. ASSUME NEW n \in 1 .. M + N PROVE Does(J[n], P[n])
  <2>1. CASE n \in 1 .. M
    BY <1>2, <1>3, <1>5, <2>1
  <2>2. CASE n - M \in 1 .. N /\ n = M + (n - M)
    BY <1>2, <1>3, <1>6, <2>2
  <2>. QED
    BY <1>4, <2>1, <2>2
<1>8. ASSUME NEW m \in 1 .. M + N, NEW n \in 1 .. M + N, P[m] = P[n] PROVE m = n
  <2>1. \A x \in 1 .. M : p[x] \in Range(p)
    BY <1>1 DEF Range
  <2>2. \A x \in 1 .. N : q[x] \in Range(q)
    BY <1>1 DEF Range
  <2>3. CASE m \in 1 .. M /\ n \in 1 .. M
    BY <1>2, <1>8, <2>3 DEF NoRepeat, M
  <2>4. CASE m \notin 1 .. M /\ n \notin 1 .. M
    <3>1. m - M \in 1 .. N /\ n - M \in 1 .. N /\ m = M + (m - M) /\ n = M + (n - M)
      BY <1>4, <2>4
    <3>2. q[m - M] = q[n - M]
      BY <1>2, <1>8, <3>1
    <3>3. m - M = n - M
      BY <3>1, <3>2 DEF NoRepeat, N
    <3>. QED
      BY <1>1, <3>3
  <2>5. CASE m \in 1 .. M /\ n \notin 1 .. M
    <3>1. n - M \in 1 .. N /\ n = M + (n - M)
      BY <1>4, <2>5
    <3>2. P[m] \in Range(p) /\ P[n] \in Range(q)
      BY <1>2, <2>1, <2>2, <2>5, <3>1
    <3>. QED
      BY <1>a, <1>8, <3>2
  <2>6. CASE m \notin 1 .. M /\ n \in 1 .. M
    <3>1. m - M \in 1 .. N /\ m = M + (m - M)
      BY <1>4, <2>6
    <3>2. P[n] \in Range(p) /\ P[m] \in Range(q)
      BY <1>2, <2>1, <2>2, <2>6, <3>1
    <3>. QED
      BY <1>a, <1>8, <3>2
  <2>. QED
    BY <2>3, <2>4, <2>5, <2>6
<1>9. Matches(J, P) /\ NoRepeat(P)
  BY <1>2, <1>3, <1>7, <1>8 DEF Matches, NoRepeat
<1>. QED
  BY <1>2, <1>9 DEF J, P

(* Every job is about a place of its own, and every file that is to be compiled
   has its job. *)
LEMMA JobsFacts ==
  ASSUME staged \in Seq(Files)
  PROVE  /\ Matches(Jobs, Order) /\ NoRepeat(Order)
         /\ \A k \in Range(Order) :
              k = 0 \/ (k \in DOMAIN staged
                         /\ staged[k].kind \in {"mock_header", "all_mocks_header", "fake_source"})
         /\ \A k \in DOMAIN staged :
              staged[k].kind \in {"mock_header", "all_mocks_header", "fake_source"} =>
                k \in Range(Order)
<1>. DEFINE mocks == JobsFor("mock_header",
              LAMBDA f : Job(SmokeSourcePath(f), TRUE, SmokeObjectPath(f), ValidationArgsForFile(f)))
            all == JobsFor("all_mocks_header",
              LAMBDA f : Job(SmokeSourcePath(f), TRUE, SmokeObjectPath(f), AllMocksValidationArgs))
            main == IF LinkNeedsMain THEN <<Job(MainSmoke, TRUE, MainSmokeObject, opt.extra_args)>>
                    ELSE <<>>
            fakes == JobsFor("fake_source",
              LAMBDA f : Job(OutputPath(f.path), FALSE, FakeObjectPath(f.path),
                             ValidationArgsForFile(f)))
<1>1. Jobs = ((mocks \o all) \o main) \o fakes
  BY DEF Jobs
<1>2. Matches(mocks, Turns("mock_header"))
  <2>. DEFINE P == PlacesOf("mock_header")
              N == Cardinality(P)
  <2>1. mocks = [n \in 1 .. N |-> Job(SmokeSourcePath(staged[Nth(P, n)]), TRUE,
                    SmokeObjectPath(staged[Nth(P, n)]), ValidationArgsForFile(staged[Nth(P, n)]))]
    BY DEF JobsFor
  <2>2. /\ N \in Nat /\ 0 \notin P
        /\ IsList(Turns("mock_header")) /\ Len(Turns("mock_header")) = N
        /\ \A n \in 1 .. N : Nth(P, n) \in P /\ Turns("mock_header")[n] = Nth(P, n)
    <3>1. \A n \in 1 .. N : Turns("mock_header")[n] = Nth(P, n)
      BY DEF Turns
    <3>. QED
      BY <3>1, TurnsFacts, ListFacts DEF Range
  <2>3. \A k \in P : staged[k].kind = "mock_header"
    BY DEF PlacesOf
  <2>. HIDE DEF P, N, mocks
  <2>4. IsList(mocks) /\ Len(mocks) = N
    BY <2>1, <2>2, ListOfFunction
  <2>5. ASSUME NEW n \in 1 .. N PROVE Does(mocks[n], Nth(P, n))
    <3>1. staged[Nth(P, n)].kind = "mock_header" /\ Nth(P, n) # 0
      BY <2>2, <2>3
    <3>. QED
      BY <2>1, <3>1 DEF Does, SourceAt, SourceOf, ObjectAt, ObjectOf, Job
  <2>. QED
    BY <2>2, <2>4, <2>5 DEF Matches
<1>3. Matches(all, Turns("all_mocks_header"))
  <2>. DEFINE P == PlacesOf("all_mocks_header")
              N == Cardinality(P)
  <2>1. all = [n \in 1 .. N |-> Job(SmokeSourcePath(staged[Nth(P, n)]), TRUE,
                    SmokeObjectPath(staged[Nth(P, n)]), AllMocksValidationArgs)]
    BY DEF JobsFor
  <2>2. /\ N \in Nat /\ 0 \notin P
        /\ IsList(Turns("all_mocks_header")) /\ Len(Turns("all_mocks_header")) = N
        /\ \A n \in 1 .. N : Nth(P, n) \in P /\ Turns("all_mocks_header")[n] = Nth(P, n)
    <3>1. \A n \in 1 .. N : Turns("all_mocks_header")[n] = Nth(P, n)
      BY DEF Turns
    <3>. QED
      BY <3>1, TurnsFacts, ListFacts DEF Range
  <2>3. \A k \in P : staged[k].kind = "all_mocks_header"
    BY DEF PlacesOf
  <2>. HIDE DEF P, N, all
  <2>4. IsList(all) /\ Len(all) = N
    BY <2>1, <2>2, ListOfFunction
  <2>5. ASSUME NEW n \in 1 .. N PROVE Does(all[n], Nth(P, n))
    <3>1. staged[Nth(P, n)].kind = "all_mocks_header" /\ Nth(P, n) # 0
      BY <2>2, <2>3
    <3>. QED
      BY <2>1, <3>1 DEF Does, SourceAt, SourceOf, ObjectAt, ObjectOf, Job
  <2>. QED
    BY <2>2, <2>4, <2>5 DEF Matches
<1>4. Matches(fakes, Turns("fake_source"))
  <2>. DEFINE P == PlacesOf("fake_source")
              N == Cardinality(P)
  <2>1. fakes = [n \in 1 .. N |-> Job(OutputPath(staged[Nth(P, n)].path), FALSE,
                    FakeObjectPath(staged[Nth(P, n)].path), ValidationArgsForFile(staged[Nth(P, n)]))]
    BY DEF JobsFor
  <2>2. /\ N \in Nat /\ 0 \notin P
        /\ IsList(Turns("fake_source")) /\ Len(Turns("fake_source")) = N
        /\ \A n \in 1 .. N : Nth(P, n) \in P /\ Turns("fake_source")[n] = Nth(P, n)
    <3>1. \A n \in 1 .. N : Turns("fake_source")[n] = Nth(P, n)
      BY DEF Turns
    <3>. QED
      BY <3>1, TurnsFacts, ListFacts DEF Range
  <2>3. \A k \in P : staged[k].kind = "fake_source"
    BY DEF PlacesOf
  <2>. HIDE DEF P, N, fakes
  <2>4. IsList(fakes) /\ Len(fakes) = N
    BY <2>1, <2>2, ListOfFunction
  <2>5. ASSUME NEW n \in 1 .. N PROVE Does(fakes[n], Nth(P, n))
    <3>1. staged[Nth(P, n)].kind = "fake_source" /\ Nth(P, n) # 0
      BY <2>2, <2>3
    <3>. QED
      BY <2>1, <3>1 DEF Does, SourceAt, SourceOf, ObjectAt, ObjectOf, Job
  <2>. QED
    BY <2>2, <2>4, <2>5 DEF Matches
<1>5. /\ Matches(main, TurnOfMain) /\ NoRepeat(TurnOfMain)
      /\ Range(TurnOfMain) = (IF LinkNeedsMain THEN {0} ELSE {})
  <2>1. CASE LinkNeedsMain
    <3>. DEFINE job == Job(MainSmoke, TRUE, MainSmokeObject, opt.extra_args)
    <3>1. main = <<job>> /\ TurnOfMain = <<0>>
      BY <2>1 DEF TurnOfMain
    <3>2. Does(job, 0)
      BY DEF Does, SourceAt, ObjectAt, Job
    <3>. HIDE DEF job, main
    <3>3. \A x : IsList(<<x>>) /\ Len(<<x>>) = 1 /\ <<x>>[1] = x /\ Range(<<x>>) = {x}
      BY DEF IsList, Range
    <3>. QED
      BY <2>1, <3>1, <3>2, <3>3 DEF Matches, NoRepeat
  <2>2. CASE ~LinkNeedsMain
    <3>1. main = <<>> /\ TurnOfMain = <<>>
      BY <2>2 DEF TurnOfMain
    <3>. HIDE DEF main
    <3>. QED
      BY <2>2, <3>1, EmptyList DEF Matches, NoRepeat
  <2>. QED
    BY <2>1, <2>2
<1>. DEFINE M == Turns("mock_header")
            A == Turns("all_mocks_header")
            F == Turns("fake_source")
<1>. HIDE DEF mocks, all, main, fakes
<1>6. /\ NoRepeat(M) /\ Range(M) = PlacesOf("mock_header")
      /\ NoRepeat(A) /\ Range(A) = PlacesOf("all_mocks_header")
      /\ NoRepeat(F) /\ Range(F) = PlacesOf("fake_source")
      /\ \A kind : 0 \notin PlacesOf(kind)
  BY TurnsFacts
<1>7. \A kind, other : kind # other => PlacesOf(kind) \cap PlacesOf(other) = {}
  BY DEF PlacesOf
<1>8. Order = ((M \o A) \o TurnOfMain) \o F
  BY DEF Order
<1>. HIDE DEF M, A, F
<1>9. /\ Matches(mocks \o all, M \o A) /\ NoRepeat(M \o A)
      /\ Range(M \o A) = PlacesOf("mock_header") \union PlacesOf("all_mocks_header")
  <2>1. Apart(M, A)
    BY <1>6, <1>7 DEF Apart
  <2>. QED
    <3>1. Matches(mocks, M) /\ Matches(all, A) /\ NoRepeat(M) /\ NoRepeat(A)
      BY <1>2, <1>3, <1>6 DEF M, A
    <3>2. Matches(mocks \o all, M \o A) /\ NoRepeat(M \o A)
      BY ONLY <3>1, <2>1, MatchesJoin
    <3>3. Range(M \o A) = Range(M) \union Range(A)
      BY ONLY <3>1, JoinFacts DEF Matches
    <3>. QED
      BY <1>6, <3>2, <3>3
<1>10. /\ Matches((mocks \o all) \o main, (M \o A) \o TurnOfMain)
       /\ NoRepeat((M \o A) \o TurnOfMain)
       /\ Range((M \o A) \o TurnOfMain) = Range(M \o A) \union Range(TurnOfMain)
  <2>1. Range(M \o A) \cap Range(TurnOfMain) = {}
    BY <1>5, <1>6, <1>9
  <2>. DEFINE p == M \o A
              j == mocks \o all
  <2>2. Matches(j, p) /\ NoRepeat(p) /\ Apart(p, TurnOfMain)
    BY <1>9, <2>1 DEF Apart
  <2>. HIDE DEF p, j
  <2>3. /\ Matches(j \o main, p \o TurnOfMain) /\ NoRepeat(p \o TurnOfMain)
        /\ Range(p \o TurnOfMain) = Range(p) \union Range(TurnOfMain)
    <3>1. Matches(j \o main, p \o TurnOfMain) /\ NoRepeat(p \o TurnOfMain)
      BY ONLY <1>5, <2>2, MatchesJoin
    <3>2. Range(p \o TurnOfMain) = Range(p) \union Range(TurnOfMain)
      BY ONLY <1>5, <2>2, JoinFacts DEF Matches
    <3>. QED
      BY <3>1, <3>2
  <2>. QED
    BY <2>3 DEF p, j
<1>11. /\ Matches(Jobs, Order) /\ NoRepeat(Order)
       /\ Range(Order) = Range((M \o A) \o TurnOfMain) \union Range(F)
  <2>. DEFINE p == (M \o A) \o TurnOfMain
              j == (mocks \o all) \o main
  <2>1. Matches(j, p) /\ NoRepeat(p) /\ Apart(p, F)
    BY <1>5, <1>6, <1>7, <1>9, <1>10 DEF Apart
  <2>. HIDE DEF p, j
  <2>2. /\ Matches(j \o fakes, p \o F) /\ NoRepeat(p \o F)
        /\ Range(p \o F) = Range(p) \union Range(F)
    <3>1. Matches(fakes, F) /\ NoRepeat(F)
      BY <1>4, <1>6 DEF F
    <3>2. Matches(j \o fakes, p \o F) /\ NoRepeat(p \o F)
      BY ONLY <2>1, <3>1, MatchesJoin
    <3>3. Range(p \o F) = Range(p) \union Range(F)
      BY ONLY <2>1, <3>1, JoinFacts DEF Matches
    <3>. QED
      BY <3>2, <3>3
  <2>. QED
    BY <1>1, <1>8, <2>2 DEF p, j
<1>12. Range(Order) = PlacesOf("mock_header") \union PlacesOf("all_mocks_header")
                      \union (IF LinkNeedsMain THEN {0} ELSE {}) \union PlacesOf("fake_source")
  BY <1>5, <1>6, <1>9, <1>10, <1>11
<1>. QED
  BY <1>11, <1>12 DEF PlacesOf

(* As long as a call lasts, its files stay what they are. *)
LEMMA CxxFrame == input' = input => CxxFiles' = CxxFiles
BY DEF CxxFiles

LEMMA OrderFrame == input' = input /\ staged' = staged => Order' = Order
BY DEF Order, Turns, TurnOfMain, PlacesOf, LinkNeedsMain, opt

(* What a command compiles or makes lies beside the generated files. *)
LEMMA HeadFacts ==
  ASSUME staged \in Seq(Files), NEW k \in Range(Order)
  PROVE  /\ k = 0 \/ staged[k].kind # "fake_source" => Head(SourceAt(k)) # "generated"
         /\ k # 0 /\ staged[k].kind = "fake_source" => Head(SourceAt(k)) = "generated"
         /\ Head(SourceAt(k)) # "objects" /\ Head(ObjectAt(k)) = "objects"
<1>1. CASE k = 0
  BY <1>1 DEF SourceAt, ObjectAt, MainSmoke, MainSmokeObject
<1>2. CASE k # 0
  <2>1. k \in DOMAIN staged /\ staged[k] \in Files
    BY <1>2, JobsFacts, ElementOfSeq, LenProperties
  <2>2. staged[k].path \in Paths /\ staged[k].path.ext \in STRING
    BY <2>1 DEF Files, Paths
  <2>. DEFINE f == staged[k]
              p == f.path
  <2>3. SourceAt(k) = SourceOf(f) /\ ObjectAt(k) = ObjectOf(f)
    BY <1>2 DEF SourceAt, ObjectAt
  <2>. HIDE DEF p
  <2>4. /\ SmokeDirectory(f.kind) \in {"mock_header_smoke", "all_mocks_header_smoke"}
        /\ SmokeObjectDirectory(f.kind) \in {"mock_headers", "all_mocks_header"}
    BY DEF SmokeDirectory, SmokeObjectDirectory
  <2>5. \A a, b, e \in Text : Head(Below(<<a>>, p, e)) = a /\ Head(Below(<<a, b>>, p, e)) = a
    BY <2>2, HeadFacts1 DEF p
  <2>6. /\ "generated" \in Text /\ "objects" \in Text /\ ".o" \in Text /\ ".cpp" \in Text
        /\ "mock_header_smoke" \in Text /\ "all_mocks_header_smoke" \in Text
        /\ "mock_headers" \in Text /\ "all_mocks_header" \in Text
    BY DEF Text
  <2>7. p.ext \in Text
    BY <2>2 DEF Text, p
  <2>9. Head(OutputPath(p)) = "generated" /\ Head(FakeObjectPath(p)) = "objects"
    BY <2>5, <2>6, <2>7 DEF OutputPath, FakeObjectPath
  <2>10. Head(SmokeSourcePath(f)) \notin {"generated", "objects"}
    <3>1. SmokeDirectory(f.kind) \in Text
      BY <2>4, <2>6
    <3>2. Head(SmokeSourcePath(f)) = SmokeDirectory(f.kind)
      BY <2>5, <2>6, <3>1 DEF SmokeSourcePath, p
    <3>. QED
      BY <2>4, <3>2
  <2>11. Head(SmokeObjectPath(f)) = "objects"
    <3>1. SmokeObjectDirectory(f.kind) \in Text
      BY <2>4, <2>6
    <3>. QED
      BY <2>5, <2>6, <3>1 DEF SmokeObjectPath, p
  <2>. QED
    BY <1>2, <2>3, <2>9, <2>10, <2>11 DEF SourceOf, ObjectOf, p
<1>. QED
  BY <1>1, <1>2
-----------------------------------------------------------------------------
(* What is in the tree *)

(* What becomes of the file at one place of the input when it is accepted. *)
Accepted(k) == [CxxFiles[k] EXCEPT !.path = Normal(@)]

(* The loop over the input has ended without a refusal. *)
PastStaging ==
  \/ pc \in {"write", "source", "compile", "finish"}
  \/ pc = "destroy" /\ diagnostics = <<>>
  \/ Returned /\ diagnostics = <<>>

StagedInv ==
  /\ staged \in Seq(Files) /\ Len(staged) <= Len(CxxFiles)
  /\ \A k \in DOMAIN staged : staged[k] = Accepted(k)
  /\ \A j, k \in DOMAIN staged : OutputPath(staged[j].path) = OutputPath(staged[k].path) => j = k
  /\ pc = "clear" => staged = <<>>
  /\ pc = "stage" => i \in Nat /\ Len(staged) = i - 1
  /\ PastStaging => Len(staged) = Len(CxxFiles)

OutputAt(k) == OutputPath(staged[k].path)

(* The outputs of the first n files. *)
Written(n) == {Made(OutputAt(k), OutputAt(k)) : k \in 1 .. n}

TreeInv ==
  /\ pc = "stage" => store = {}
  /\ pc = "write" => i \in 1 .. Len(staged) + 1 /\ store = Written(i - 1)
  /\ pc \in {"source", "compile"} =>
       /\ i \in Nat \ {0} /\ Outputs = Written(Len(staged))
       /\ pc = "compile" => i <= Len(Order)
  /\ IsList(commands)

LEMMA CxxType == input \in Inputs => CxxFiles \in Seq(Files) /\ Len(CxxFiles) \in Nat
BY CxxFacts, LenProperties

LEMMA StagedInit == Init => StagedInv
BY CxxType, EmptySeq DEF Init, StagedInv, PastStaging, Returned

(* A file that is accepted comes to lie where the loop has got to. *)
LEMMA AcceptFile ==
  ASSUME KeepInv, StagedInv, StageFile, ~GiveUp("path")
  PROVE  StagedInv'
<1>. DEFINE f == CxxFiles[i]
            g == [f EXCEPT !.path = Normal(@)]
            n == Len(staged)
<1>1. /\ pc = "stage" /\ i <= Len(CxxFiles) /\ ~Taken(f) /\ staged' = Append(staged, g)
      /\ i' = i + 1 /\ pc' = pc /\ input' = input
  BY DEF StageFile
<1>2. /\ i \in Nat /\ n = i - 1 /\ n \in Nat /\ i = n + 1 /\ CxxFiles \in Seq(Files)
      /\ Len(CxxFiles) \in Nat
  BY <1>1, CxxType, LenProperties DEF StagedInv, KeepInv
<1>3. f \in Files /\ g \in Files /\ g.path = Normal(f.path) /\ g = Accepted(i)
  <2>1. f \in Files
    BY <1>1, <1>2, ElementOfSeq
  <2>2. Normal(f.path) \in Paths
    BY <2>1, NormalFacts DEF Files
  <2>. QED
    BY <2>1, <2>2 DEF Files, Accepted
<1>4. CxxFiles' = CxxFiles /\ \A k : Accepted(k)' = Accepted(k)
  BY <1>1, CxxFrame DEF Accepted
<1>5. \A k \in DOMAIN staged : OutputPath(staged[k].path) # OutputPath(g.path)
  BY <1>1, <1>3 DEF Taken
<1>. HIDE DEF f, g, n
<1>6. /\ staged' \in Seq(Files) /\ Len(staged') = n + 1 /\ DOMAIN staged' = 1 .. n + 1
      /\ DOMAIN staged = 1 .. n
      /\ \A k \in 1 .. n : staged'[k] = staged[k]
      /\ staged'[n + 1] = g
  BY <1>1, <1>3, AppendProperties, LenProperties DEF StagedInv, n
<1>7. \A k \in 1 .. n + 1 : k \in 1 .. n \/ k = n + 1
  BY <1>2
<1>8. \A k \in 1 .. n + 1 : staged'[k] = Accepted(k)'
  BY <1>2, <1>3, <1>4, <1>6, <1>7 DEF StagedInv
<1>9. \A j, k \in 1 .. n + 1 :
        OutputPath(staged'[j].path) = OutputPath(staged'[k].path) => j = k
  BY <1>5, <1>6, <1>7 DEF StagedInv
<1>. QED
  BY <1>1, <1>2, <1>4, <1>6, <1>8, <1>9 DEF StagedInv, PastStaging, Returned

LEMMA StagedNext == KeepInv /\ StagedInv /\ [Next]_vars => StagedInv'
<1>. SUFFICES ASSUME KeepInv, StagedInv, [Next]_vars PROVE StagedInv'
  OBVIOUS
<1>1. CASE Begin
  <2>1. /\ pc' \in {"returned", "clear"} /\ input' \in Inputs
        /\ pc' = "returned" => opt'.mode = "none"
        /\ staged' = <<>>
    BY <1>1 DEF Begin, opt
  <2>2. (input \in Inputs => CxxFiles \in Seq(Files) /\ Len(CxxFiles) \in Nat)'
    BY CxxType, PTL
  <2>. QED
    BY <2>1, <2>2, EmptySeq DEF StagedInv, PastStaging, Returned
<1>2. CASE ~Begin /\ ~StageFile
  <2>1. staged' = staged /\ input' = input
    BY <1>2 DEF Next, vars, result, ClearTree, ClearTreeFails, StageDone, WriteFile,
         CheckFakeObjects, WriteSmokeSource, Compile, ObjectDirectoryFails, Link, Finish,
         DestroyTree, DestroyTreeFails, Crash
  <2>2. CxxFiles' = CxxFiles /\ \A k : Accepted(k)' = Accepted(k)
    BY <2>1, CxxFrame DEF Accepted
  <2>3. pc' = "clear" => pc = "clear"
    BY <1>2 DEF Next, vars, ClearTree, ClearTreeFails, StageDone, WriteFile, GiveUp, Goto, Advance,
         CheckFakeObjects, WriteSmokeSource, Compile, ObjectDirectoryFails, Link, Finish,
         DestroyTree, DestroyTreeFails, Crash
  <2>4. pc' = "stage" => (pc = "stage" /\ i' = i) \/ (pc = "clear" /\ i' = 1)
    BY <1>2 DEF Next, vars, ClearTree, ClearTreeFails, StageDone, WriteFile, GiveUp, Goto, Advance,
         CheckFakeObjects, WriteSmokeSource, Compile, ObjectDirectoryFails, Link, Finish,
         DestroyTree, DestroyTreeFails, Crash
  <2>5. \A about, artifact : Say(about, artifact) => diagnostics' # <<>>
    BY AppendFacts DEF Say, KeepInv
  <2>6. PastStaging' => StageDone \/ PastStaging
    BY <1>2, <2>5 DEF Next, vars, result, ClearTree, ClearTreeFails, StageDone, WriteFile, GiveUp,
         Goto, Advance, CheckFakeObjects, WriteSmokeSource, Compile, ObjectDirectoryFails, Link,
         Finish, CompiledAll, DestroyTree, DestroyTreeFails, Crash, PastStaging, Returned, opt
  <2>7. StageDone => Len(staged) = Len(CxxFiles)
    BY CxxType, LenProperties DEF StageDone, StagedInv, KeepInv
  <2>8. pc' = "stage" => i' \in Nat /\ Len(staged) = i' - 1
    BY <2>4, EmptyList DEF StagedInv
  <2>. QED
    BY <2>1, <2>2, <2>3, <2>6, <2>7, <2>8 DEF StagedInv
<1>3. CASE StageFile
  <2>1. CASE GiveUp("path")
    <3>1. staged' = staged /\ input' = input /\ pc' = "destroy" /\ diagnostics' # <<>>
      BY <1>3, <2>1, AppendFacts DEF StageFile, GiveUp, Say, KeepInv
    <3>2. CxxFiles' = CxxFiles /\ \A k : Accepted(k)' = Accepted(k)
      BY <3>1, CxxFrame DEF Accepted
    <3>. QED
      BY <3>1, <3>2 DEF StagedInv, PastStaging, Returned
  <2>. QED
    BY <1>3, <2>1, AcceptFile
<1>. QED
  BY <1>1, <1>2, <1>3

LEMMA TreeInit == Init => TreeInv
BY EmptyList DEF Init, TreeInv

(* A file written elsewhere leaves the outputs alone. *)
LEMMA OutputsFrame ==
  ASSUME NEW path, NEW source, Head(path) # "generated",
         store' = store \/ store' = With(path, source)
  PROVE  Outputs' = Outputs
BY DEF Outputs, With, Made

LEMMA WrittenFrame ==
  ASSUME staged' = staged, runs' = runs
  PROVE  \A n : Written(n)' = Written(n)
BY DEF Written, OutputAt, Made

(* The next output joins those of the files before it. *)
LEMMA WriteOutput ==
  ASSUME staged \in Seq(Files), i \in 1 .. Len(staged), store = Written(i - 1),
         \A j, k \in DOMAIN staged : OutputAt(j) = OutputAt(k) => j = k
  PROVE  With(OutputAt(i), OutputAt(i)) = Written(i)
<1>1. Len(staged) \in Nat /\ DOMAIN staged = 1 .. Len(staged)
  BY LenProperties
<1>2. \A k \in 1 .. i - 1 : k \in DOMAIN staged /\ k # i
  BY <1>1
<1>3. \A f \in store : f.path # OutputAt(i)
  BY <1>1, <1>2 DEF Written, Made
<1>4. \A k \in 1 .. i : k \in 1 .. i - 1 \/ k = i
  BY <1>1
<1>5. 1 .. i - 1 \subseteq 1 .. i /\ i \in 1 .. i
  BY <1>1
<1>. QED
  BY <1>3, <1>4, <1>5 DEF With, Written

LEMMA WrittenAreOutputs ==
  ASSUME staged \in Seq(Files), NEW n \in Nat, n <= Len(staged)
  PROVE  \A f \in Written(n) : Head(f.path) = "generated"
<1>1. \A k \in 1 .. n : staged[k] \in Files
  BY LenProperties, ElementOfSeq
<1>2. \A k \in 1 .. n : Head(OutputAt(k)) = "generated"
  <2>1. \A p \in Paths : Head(OutputPath(p)) = "generated"
    <3>1. "generated" \in Text /\ \A p \in Paths : p.ext \in Text
      BY DEF Text, Paths
    <3>. QED
      BY <3>1, HeadFacts1 DEF OutputPath
  <2>. QED
    BY <1>1, <2>1 DEF OutputAt, Files
<1>. QED
  BY <1>2 DEF Written, Made

(* The job whose turn it is, of which file it is and where it writes. *)
LEMMA JobHeads ==
  ASSUME staged \in Seq(Files), i \in Nat \ {0}, i <= Len(Jobs)
  PROVE  /\ i <= Len(Order) /\ Order[i] \in Range(Order) /\ Does(Jobs[i], Order[i])
         /\ Jobs[i].smoke => Head(Jobs[i].source) # "generated"
         /\ Head(Jobs[i].source) # "objects" /\ Head(Jobs[i].object) = "objects"
<1>1. /\ Len(Jobs) = Len(Order) /\ IsList(Order)
      /\ \A n \in 1 .. Len(Order) : Does(Jobs[n], Order[n])
  BY JobsFacts DEF Matches
<1>2. Len(Order) \in Nat /\ DOMAIN Order = 1 .. Len(Order)
  BY <1>1, ListFacts
<1>3. i \in 1 .. Len(Order) /\ Order[i] \in Range(Order) /\ Does(Jobs[i], Order[i])
  BY <1>1, <1>2 DEF Range
<1>. QED
  BY <1>3, <1>2, HeadFacts DEF Does

LEMMA TreeNext == KeepInv /\ StagedInv /\ TreeInv /\ [Next]_vars => TreeInv'
<1>. SUFFICES ASSUME KeepInv, StagedInv, TreeInv, [Next]_vars PROVE TreeInv'
  OBVIOUS
<1>0. /\ staged \in Seq(Files) /\ Len(staged) \in Nat /\ DOMAIN staged = 1 .. Len(staged)
      /\ \A j, k \in DOMAIN staged : OutputAt(j) = OutputAt(k) => j = k
      /\ Len(Jobs) = Len(Order) /\ Len(Order) \in Nat
  <2>1. staged \in Seq(Files)
    BY DEF StagedInv
  <2>2. Len(Jobs) = Len(Order) /\ Len(Order) \in Nat
    BY <2>1, JobsFacts, ListFacts DEF Matches
  <2>. QED
    BY <2>1, <2>2, LenProperties DEF StagedInv, OutputAt
(* A step out of the phases that the invariant is about *)
<1>a. ASSUME pc' \in {"clear", "finish", "destroy"} \union Ended, commands' = commands
      PROVE  TreeInv'
  BY <1>a DEF TreeInv, Ended
<1>1. CASE Begin
  BY <1>1, EmptyList DEF Begin, TreeInv
<1>2. CASE ClearTree
  BY <1>2 DEF ClearTree, TreeInv, Goto, result
<1>3. CASE ClearTreeFails
  BY <1>3, <1>a DEF ClearTreeFails
<1>4. CASE StageFile
  <2>1. CASE GiveUp("path")
    BY <1>4, <2>1, <1>a DEF StageFile, GiveUp
  <2>2. CASE UNCHANGED <<pc, diagnostics, keep>>
    BY <1>4, <2>2 DEF StageFile, TreeInv
  <2>. QED
    BY <1>4, <2>1, <2>2 DEF StageFile
<1>5. CASE StageDone
  <2>1. /\ pc' = "write" /\ i' = 1 /\ store' = {} /\ commands' = commands /\ staged' = staged
        /\ runs' = runs
    BY <1>5 DEF StageDone, Goto, TreeInv, result
  <2>2. Written(0)' = {}
    BY DEF Written
  <2>3. i' - 1 = 0 /\ i' \in 1 .. Len(staged) + 1
    BY <1>0, <2>1
  <2>. QED
    BY <2>1, <2>2, <2>3 DEF TreeInv
<1>6. CASE WriteFile
  <2>1. CASE GiveUp("write")
    BY <1>6, <2>1, <1>a DEF WriteFile, GiveUp
  <2>2. CASE ~GiveUp("write")
    <3>1. /\ store' = With(OutputAt(i), OutputAt(i)) /\ i' = i + 1 /\ pc' = "write" /\ pc = "write"
          /\ i <= Len(staged) /\ staged' = staged /\ runs' = runs /\ commands' = commands
      BY <1>6, <2>2 DEF WriteFile, OutputAt
    <3>2. i \in 1 .. Len(staged) /\ store = Written(i - 1)
      BY <1>0, <3>1 DEF TreeInv
    <3>3. store' = Written(i)
      BY <1>0, <3>1, <3>2, WriteOutput
    <3>4. i' \in 1 .. Len(staged) + 1 /\ i' - 1 = i
      BY <1>0, <3>1, <3>2
    <3>. QED
      BY <3>1, <3>3, <3>4, WrittenFrame DEF TreeInv
  <2>. QED
    BY <2>1, <2>2
<1>7. CASE CheckFakeObjects
  <2>1. CASE GiveUp("object")
    BY <1>7, <2>1, <1>a DEF CheckFakeObjects, GiveUp
  <2>2. CASE ~GiveUp("object")
    <3>1. /\ pc' = "source" /\ i' = 1 /\ UNCHANGED <<store, staged, runs, commands>>
          /\ pc = "write" /\ i > Len(staged)
      BY <1>7, <2>2 DEF CheckFakeObjects, Goto
    <3>2. store = Written(Len(staged))
      <4>1. i - 1 = Len(staged)
        BY <1>0, <3>1 DEF TreeInv
      <4>. QED
        BY <3>1, <4>1 DEF TreeInv
    <3>3. Outputs' = store
      BY <1>0, <3>1, <3>2, WrittenAreOutputs DEF Outputs
    <3>. QED
      BY <3>1, <3>2, <3>3, WrittenFrame DEF TreeInv
  <2>. QED
    BY <2>1, <2>2
<1>8. CASE WriteSmokeSource
  <2>1. CASE GiveUp("smoke")
    BY <1>8, <2>1, <1>a DEF WriteSmokeSource, GiveUp
  <2>2. CASE ~GiveUp("smoke")
    <3>1. /\ pc = "source" /\ i <= Len(Jobs) /\ pc' = "compile"
          /\ store' = IF Jobs[i].smoke THEN With(Jobs[i].source, Jobs[i].source) ELSE store
          /\ UNCHANGED <<input, i, staged, runs, commands>>
      BY <1>8, <2>2 DEF WriteSmokeSource
    <3>2. i \in Nat \ {0} /\ Outputs = Written(Len(staged))
      BY <3>1 DEF TreeInv
    <3>3. Outputs' = Outputs
      <4>1. CASE Jobs[i].smoke
        <5>1. Head(Jobs[i].source) # "generated"
          BY <1>0, <3>1, <3>2, <4>1, JobHeads
        <5>. QED
          BY <3>1, <4>1, <5>1, OutputsFrame
      <4>2. CASE ~Jobs[i].smoke
        BY <3>1, <4>2 DEF Outputs
      <4>. QED
        BY <4>1, <4>2
    <3>. QED
      BY <1>0, <3>1, <3>2, <3>3, WrittenFrame, OrderFrame DEF TreeInv
  <2>. QED
    BY <2>1, <2>2
<1>9. CASE Compile
  <2>1. /\ pc = "compile" /\ pc' = "source" /\ i' = i + 1
        /\ store' = store \/ store' = With(Jobs[i].object, Jobs[i].source)
        /\ UNCHANGED <<input, staged, runs>>
        /\ \E x : commands' = Append(commands, x)
    BY <1>9 DEF Compile, Advance, Compiled
  <2>2. i \in Nat \ {0} /\ i <= Len(Jobs) /\ Outputs = Written(Len(staged)) /\ IsList(commands)
    BY <1>0, <2>1 DEF TreeInv
  <2>3. Head(Jobs[i].object) # "generated"
    BY <1>0, <2>2, JobHeads
  <2>4. Outputs' = Outputs
    BY <2>1, <2>3, OutputsFrame
  <2>5. IsList(commands')
    BY <2>1, <2>2, AppendFacts
  <2>. QED
    BY <2>1, <2>2, <2>4, <2>5, WrittenFrame DEF TreeInv
<1>10. CASE ObjectDirectoryFails
  <2>1. /\ pc = "compile" /\ pc' = "source" /\ i' = i + 1
        /\ UNCHANGED <<input, staged, runs, store, commands>>
    BY <1>10 DEF ObjectDirectoryFails, Advance
  <2>2. Outputs' = Outputs
    BY <2>1 DEF Outputs
  <2>. QED
    BY <2>1, <2>2, WrittenFrame DEF TreeInv
<1>11. CASE Link
  <2>1. pc' = "finish" /\ \E x : commands' = Append(commands, x)
    BY <1>11 DEF Link, Goto
  <2>2. IsList(commands')
    BY <2>1, AppendFacts DEF TreeInv
  <2>. QED
    BY <2>1, <2>2 DEF TreeInv
<1>12. CASE Finish \/ DestroyTree \/ DestroyTreeFails \/ Crash
  BY <1>12, <1>a DEF Finish, DestroyTree, DestroyTreeFails, Crash, Goto, result, Ended
<1>13. CASE UNCHANGED vars
  <2>1. UNCHANGED <<pc, i, input, staged, store, runs, commands>>
    BY <1>13 DEF vars, result
  <2>2. Outputs' = Outputs
    BY <2>1 DEF Outputs
  <2>. QED
    BY <2>1, <2>2, WrittenFrame, OrderFrame DEF TreeInv
<1>. QED
  BY <1>1, <1>2, <1>3, <1>4, <1>5, <1>6, <1>7, <1>8, <1>9, <1>10, <1>11, <1>12, <1>13
  DEF Next

Inv == KeepInv /\ StagedInv /\ TreeInv

(* What is kept, what is accepted and what is in the tree agree at any point of
   any call, also after calls that failed or died. *)
THEOREM Invariance == Spec => []Inv
<1>1. Init => Inv
  BY KeepInit, StagedInit, TreeInit DEF Inv
<1>2. Inv /\ [Next]_vars => Inv'
  BY KeepNext, StagedNext, TreeNext DEF Inv
<1>. QED
  BY <1>1, <1>2, PTL DEF Spec

CommandStep ==
  Len(commands') > Len(commands) =>
    Outputs = {Made(OutputPath(Normal(f.path)), OutputPath(Normal(f.path))) :
                 f \in Range(CxxFiles)}

LEMMA CommandSees == Inv /\ [Next]_vars => [CommandStep]_vars
<1>. SUFFICES ASSUME Inv, Next, Len(commands') > Len(commands)
              PROVE  Outputs = {Made(OutputPath(Normal(f.path)), OutputPath(Normal(f.path))) :
                                  f \in Range(CxxFiles)}
  BY DEF CommandStep, vars
<1>. USE DEF Inv
<1>1. Len(commands) \in Nat /\ Len(<<>>) = 0
  BY ListFacts, EmptyList DEF TreeInv
<1>2. Compile \/ Link
  <2>1. commands' # commands /\ commands' # <<>>
    BY <1>1
  <2>. QED
    BY <2>1 DEF Next, Begin, ClearTree, ClearTreeFails, StageFile, StageDone, WriteFile,
       CheckFakeObjects, WriteSmokeSource, ObjectDirectoryFails, Finish, DestroyTree,
       DestroyTreeFails, Crash, result
<1>3. pc \in {"source", "compile"}
  BY <1>2 DEF Compile, Link, CompiledAll
<1>4. Outputs = Written(Len(staged)) /\ Len(staged) = Len(CxxFiles)
  BY <1>3 DEF TreeInv, StagedInv, PastStaging
<1>5. /\ CxxFiles \in Seq(Files) /\ DOMAIN CxxFiles = 1 .. Len(CxxFiles)
      /\ DOMAIN staged = 1 .. Len(staged)
  BY CxxType, LenProperties DEF KeepInv, StagedInv
<1>6. \A k \in 1 .. Len(CxxFiles) : OutputAt(k) = OutputPath(Normal(CxxFiles[k].path))
  <2>1. \A k \in 1 .. Len(CxxFiles) : CxxFiles[k] \in Files
    BY <1>5, ElementOfSeq
  <2>2. \A k \in 1 .. Len(CxxFiles) : Accepted(k).path = Normal(CxxFiles[k].path)
    BY <2>1 DEF Accepted, Files
  <2>. QED
    BY <1>4, <1>5, <2>2 DEF StagedInv, OutputAt
<1>. QED
  BY <1>4, <1>5, <1>6 DEF Written, Range

(* Every command of every call sees the outputs of this call, all of them and
   nothing that an earlier call has left. *)
THEOREM CommandsSeeTheCall == Spec => CommandsSeeOnlyTheseFiles
<1>1. Spec => [][CommandStep]_vars
  BY CommandSees, Invariance, PTL DEF Spec
<1>. QED
  BY <1>1, PTL DEF CommandsSeeOnlyTheseFiles, CommandStep
-----------------------------------------------------------------------------
(* Objects *)

(* The part of an object's path between the directory and the extension. *)
Middle(k) ==
  IF k = 0 THEN <<"link_main_smoke">>
  ELSE IF staged[k].kind = "fake_source" THEN staged[k].path.parts
  ELSE <<SmokeObjectDirectory(staged[k].kind)>> \o staged[k].path.parts

(* The words that paths are made of are texts. *)
LEMMA TextFacts ==
  /\ "generated" \in Text /\ "objects" \in Text /\ ".o" \in Text
  /\ "mock_headers" \in Text /\ "all_mocks_header" \in Text /\ "link_main_smoke" \in Text
  /\ \A p \in Paths : p.parts \in Seq(Text) /\ p.ext \in Text
<1>1. \A p \in Paths : p.parts \in Seq(Text)
  BY SeqMonotonic DEF Paths, Text
<1>. QED
  BY <1>1 DEF Paths, Text

LEMMA JoinThree ==
  ASSUME NEW S, NEW a \in S, NEW b \in S, NEW s \in Seq(S)
  PROVE  /\ <<a, b>> \o s = <<a>> \o (<<b>> \o s)
         /\ <<b>> \o s \in Seq(S) /\ Len(<<b>> \o s) >= 1 /\ (<<b>> \o s)[1] = b
<1>. DEFINE c == <<a>>
            d == <<b>>
<1>1. c \in Seq(S) /\ d \in Seq(S) /\ Len(d) = 1 /\ d[1] = b /\ Len(s) \in Nat
  BY PairFacts, LenProperties
<1>2. <<a, b>> = c \o d
  <2>. DEFINE t == Append(c, b)
              u == <<a, b>>
  <2>1. /\ u \in Seq(S) /\ Len(u) = 2 /\ u[1] = a /\ u[2] = b
        /\ Len(c) = 1 /\ c[1] = a
    BY PairFacts
  <2>. HIDE DEF c, u
  <2>2. t = c \o <<b>> /\ t \in Seq(S) /\ Len(t) = 2 /\ t[1] = c[1] /\ t[2] = b
    <3>1. /\ t \in Seq(S) /\ Len(t) = Len(c) + 1 /\ t[Len(c) + 1] = b
          /\ \A n \in 1 .. Len(c) : t[n] = c[n]
      BY <1>1, AppendProperties
    <3>2. t = c \o <<b>>
      BY <1>1, AppendIsConcat
    <3>3. Len(c) + 1 = 2 /\ 1 \in 1 .. Len(c)
      BY <2>1
    <3>. HIDE DEF t
    <3>. QED
      BY <3>1, <3>2, <3>3
  <2>. HIDE DEF t
  <2>3. \A n \in 1 .. 2 : n = 1 \/ n = 2
    OBVIOUS
  <2>4. u = t
    BY <2>1, <2>2, <2>3, SeqEqual
  <2>. QED
    BY <2>2, <2>4 DEF u
<1>. HIDE DEF c, d
<1>3. (c \o d) \o s = c \o (d \o s)
  BY <1>1, ConcatAssociative
<1>4. d \o s \in Seq(S) /\ Len(d \o s) >= 1 /\ (d \o s)[1] = b
  BY <1>1, ConcatProperties
<1>. QED
  BY <1>2, <1>3, <1>4 DEF c, d

LEMMA ObjectByMiddle ==
  ASSUME staged \in Seq(Files), NEW k \in Range(Order)
  PROVE  Middle(k) \in Seq(Text) /\ ObjectAt(k) = Between(<<"objects">>, Middle(k), ".o")
<1>1. CASE k = 0
  <2>1. <<"link_main_smoke">> \in Seq(Text)
    BY TextFacts, PairFacts
  <2>2. MainSmokeObject = Between(<<"objects">>, <<"link_main_smoke">>, ".o")
    BY DEF MainSmokeObject, Between
  <2>. QED
    BY <1>1, <2>1, <2>2 DEF Middle, ObjectAt
<1>2. CASE k # 0
  <2>1. k \in DOMAIN staged /\ staged[k] \in Files
    BY <1>2, JobsFacts, ElementOfSeq, LenProperties
  <2>. DEFINE parts == staged[k].path.parts
              b == SmokeObjectDirectory(staged[k].kind)
  <2>2. parts \in Seq(Text) /\ b \in Text
    BY <2>1, TextFacts DEF Files, SmokeObjectDirectory
  <2>3. /\ <<"objects", b>> \o parts = <<"objects">> \o (<<b>> \o parts)
        /\ <<b>> \o parts \in Seq(Text)
    <3>. DEFINE o == "objects"
    <3>1. o \in Text
      BY TextFacts
    <3>. HIDE DEF b, parts, o
    <3>2. <<o, b>> \o parts = <<o>> \o (<<b>> \o parts) /\ <<b>> \o parts \in Seq(Text)
      BY ONLY <2>2, <3>1, JoinThree
    <3>. QED
      BY <3>2 DEF o
  <2>4. CASE staged[k].kind = "fake_source"
    BY <1>2, <2>2, <2>4 DEF Middle, ObjectAt, ObjectOf, FakeObjectPath, Below, Between
  <2>5. CASE staged[k].kind # "fake_source"
    BY <1>2, <2>3, <2>5 DEF Middle, ObjectAt, ObjectOf, SmokeObjectPath, Below, Between
  <2>. QED
    BY <2>4, <2>5
<1>. QED
  BY <1>1, <1>2

(* What acceptance leaves of a file of the input. *)
LEMMA AcceptedFacts ==
  ASSUME input \in Inputs, StagedInv, NEW k \in DOMAIN staged
  PROVE  /\ staged[k] \in Files /\ CxxFiles[k] \in input.files
         /\ staged[k].kind = CxxFiles[k].kind /\ IsCxxValidationInput(staged[k])
         /\ staged[k].path.ext = CxxFiles[k].path.ext
         /\ Range(staged[k].path.parts) \subseteq Range(CxxFiles[k].path.parts)
<1>. DEFINE f == CxxFiles[k]
            P == {n \in DOMAIN f.path.parts : f.path.parts[n] # "."}
<1>1. /\ f \in Files /\ f \in input.files /\ IsCxxValidationInput(f) /\ staged[k] = Accepted(k)
      /\ staged[k] \in Files
  <2>1. k \in 1 .. Len(CxxFiles)
    BY CxxType, LenProperties DEF StagedInv
  <2>. QED
    BY <2>1, CxxFacts, ElementOfSeq, LenProperties DEF StagedInv
<1>2. staged[k].kind = f.kind /\ staged[k].path = Normal(f.path)
  BY <1>1 DEF Accepted, Files
<1>3. f.path.parts \in Seq(STRING) /\ P \in SUBSET DOMAIN f.path.parts
  BY <1>1 DEF Files, Paths
<1>4. /\ staged[k].path.ext = f.path.ext /\ staged[k].path.parts = At(f.path.parts, P)
  BY <1>1, <1>2 DEF Normal, Files, Paths
<1>. DEFINE s == f.path.parts
<1>5. Range(At(s, P)) \subseteq Range(s)
  <2>1. s \in Seq(STRING) /\ P \in SUBSET DOMAIN s
    BY <1>3
  <2>. HIDE DEF s, P
  <2>2. IsFiniteSet(P) /\ P \in SUBSET Nat
    BY <2>1, AtFacts
  <2>3. \A n \in 1 .. Cardinality(P) : Nth(P, n) \in DOMAIN s
    BY <2>1, <2>2, NthFacts
  <2>. QED
    BY <2>3 DEF At, Range
<1>. QED
  BY <1>1, <1>2, <1>4, <1>5 DEF IsCxxValidationInput

(* The paths in the tree are paths. *)
LEMMA StagedPaths ==
  ASSUME staged \in Seq(Files), NEW n \in DOMAIN staged
  PROVE  staged[n].path \in Paths /\ staged[n].path.parts \in Seq(STRING)
<1>1. staged[n] \in Files
  BY LenProperties, ElementOfSeq
<1>. QED
  BY <1>1 DEF Files, Paths

(* Two accepted files differ in their paths. *)
LEMMA OutputsApart ==
  ASSUME StagedInv, NEW j \in DOMAIN staged, NEW k \in DOMAIN staged,
         staged[j].path.parts = staged[k].path.parts, staged[j].path.ext = staged[k].path.ext
  PROVE  j = k
<1>1. OutputPath(staged[j].path) = OutputPath(staged[k].path)
  BY DEF OutputPath, Below
<1>. QED
  BY <1>1 DEF StagedInv

(* No two jobs have one object: two fakes because the call has looked, two
   headers because their outputs differ, and the others by their directories. *)
LEMMA ObjectsApart ==
  ASSUME input \in Inputs, StagedInv, ~ObjectsCollide,
         NEW j \in Range(Order), NEW k \in Range(Order), ObjectAt(j) = ObjectAt(k)
  PROVE  j = k
<1>. DEFINE Kind(n) == IF n = 0 THEN "main" ELSE staged[n].kind
            Parts(n) == staged[n].path.parts
            FirstOf(kind) == IF kind = "main" THEN "link_main_smoke" ELSE SmokeObjectDirectory(kind)
            Own == {"mock_headers", "all_mocks_header", "link_main_smoke"}
<1>1. staged \in Seq(Files)
  BY DEF StagedInv
<1>2. Middle(j) = Middle(k)
  <2>. DEFINE d == <<"objects">>
  <2>1. /\ Middle(j) \in Seq(Text) /\ Middle(k) \in Seq(Text)
        /\ ObjectAt(j) = Between(d, Middle(j), ".o")
        /\ ObjectAt(k) = Between(d, Middle(k), ".o")
        /\ d \in Seq(Text) /\ ".o" \in Text
    BY <1>1, ObjectByMiddle, TextFacts, PairFacts
  <2>. HIDE DEF d
  <2>2. Between(d, Middle(j), ".o") = Between(d, Middle(k), ".o")
    BY <2>1
  <2>. QED
    BY ONLY <2>1, <2>2, SameMiddle
<1>3. \A n \in Range(Order) :
        \/ n = 0
        \/ /\ n \in DOMAIN staged /\ n # 0
           /\ staged[n].kind \in {"mock_header", "all_mocks_header", "fake_source"}
  BY <1>1, JobsFacts, LenProperties
(* What the objects of headers and of main begin with, those of fakes do not *)
<1>4. ASSUME NEW n \in Range(Order), Kind(n) # "fake_source"
      PROVE  /\ Middle(n) # <<>> /\ Head(Middle(n)) = FirstOf(Kind(n))
             /\ Head(Middle(n)) \in Own
  <2>1. CASE n = 0
    BY <2>1 DEF Middle
  <2>2. CASE n # 0
    <3>. DEFINE b == SmokeObjectDirectory(staged[n].kind)
                t == <<b>> \o Parts(n)
    <3>1. /\ n \in DOMAIN staged /\ staged[n].path \in Paths
          /\ staged[n].kind \in {"mock_header", "all_mocks_header"}
      <4>1. /\ n \in DOMAIN staged
            /\ staged[n].kind \in {"mock_header", "all_mocks_header", "fake_source"}
        BY <1>3, <2>2
      <4>. QED
        BY <1>1, <1>4, <2>2, <4>1, StagedPaths
    <3>2. Middle(n) = t /\ FirstOf(Kind(n)) = b /\ b \in Own
      BY <2>2, <3>1 DEF Middle, SmokeObjectDirectory
    <3>3. t \in Seq(Text) /\ Len(t) >= 1 /\ t[1] = b
      <4>1. Parts(n) \in Seq(Text) /\ b \in Text
        BY <3>1, <3>2, TextFacts
      <4>. HIDE DEF b
      <4>. QED
        BY <4>1, JoinThree
    <3>. HIDE DEF t
    <3>4. t # <<>> /\ Head(t) = t[1]
      BY <3>3, EmptyList
    <3>. QED
      BY <3>2, <3>3, <3>4
  <2>. QED
    BY <2>1, <2>2
<1>5. ASSUME NEW n \in Range(Order), Kind(n) = "fake_source", Middle(n) # <<>>
      PROVE  Head(Middle(n)) \notin Own
  <2>1. n # 0 /\ n \in DOMAIN staged /\ staged[n].kind = "fake_source" /\ Middle(n) = Parts(n)
    BY <1>3, <1>5 DEF Middle
  <2>2. /\ CxxFiles[n] \in input.files /\ CxxFiles[n].kind = "fake_source"
        /\ Range(Parts(n)) \subseteq Range(CxxFiles[n].path.parts)
    BY <2>1, AcceptedFacts
  <2>3. Own \cap Range(CxxFiles[n].path.parts) = {}
    BY <2>2, NamesGiven
  <2>4. Parts(n) \in Seq(STRING)
    BY <1>1, <2>1, StagedPaths
  <2>5. Head(Parts(n)) \in Range(Parts(n))
    <3>1. 1 \in DOMAIN Parts(n) /\ Head(Parts(n)) = Parts(n)[1]
      BY <1>5, <2>1, <2>4, EmptySeq, LenProperties
    <3>. QED
      BY <3>1 DEF Range
  <2>. QED
    BY <2>1, <2>2, <2>3, <2>5
<1>6. CASE Kind(j) = "fake_source" /\ Kind(k) = "fake_source"
  <2>1. /\ j \in DOMAIN staged /\ k \in DOMAIN staged
        /\ staged[j].kind = "fake_source" /\ staged[k].kind = "fake_source"
        /\ ObjectAt(j) = FakeObjectPath(staged[j].path)
        /\ ObjectAt(k) = FakeObjectPath(staged[k].path)
    BY <1>3, <1>6 DEF ObjectAt, ObjectOf
  <2>. QED
    BY <2>1 DEF ObjectsCollide
<1>7. CASE Kind(j) # "fake_source" /\ Kind(k) # "fake_source"
  <2>1. FirstOf(Kind(j)) = FirstOf(Kind(k))
    BY <1>2, <1>4, <1>7
  <2>2. Kind(j) = Kind(k)
    BY <1>3, <1>7, <2>1 DEF SmokeObjectDirectory
  <2>3. CASE j = 0 \/ k = 0
    BY <1>3, <2>2, <2>3
  <2>4. CASE j # 0 /\ k # 0
    <3>1. /\ j \in DOMAIN staged /\ k \in DOMAIN staged
          /\ staged[j].kind = staged[k].kind
          /\ staged[j].kind \in {"mock_header", "all_mocks_header"}
      BY <1>3, <1>7, <2>2, <2>4
    <3>2. staged[j].path.ext = staged[k].path.ext
      <4>1. /\ CxxFiles[j] \in input.files /\ CxxFiles[k] \in input.files
            /\ CxxFiles[j].kind = staged[j].kind /\ CxxFiles[k].kind = staged[k].kind
            /\ staged[j].path.ext = CxxFiles[j].path.ext
            /\ staged[k].path.ext = CxxFiles[k].path.ext
        BY <3>1, AcceptedFacts
      <4>. QED
        BY <3>1, <4>1, NamesGiven
    <3>3. Parts(j) = Parts(k)
      <4>. DEFINE c == <<SmokeObjectDirectory(staged[j].kind)>>
      <4>1. c \o Parts(j) = c \o Parts(k)
        BY <1>2, <2>4, <3>1 DEF Middle
      <4>2. c \in Seq(Text) /\ Parts(j) \in Seq(Text) /\ Parts(k) \in Seq(Text)
        <5>1. SmokeObjectDirectory(staged[j].kind) \in Text
          BY TextFacts DEF SmokeObjectDirectory
        <5>2. staged[j].path \in Paths /\ staged[k].path \in Paths
          BY <1>1, <3>1, StagedPaths
        <5>. QED
          BY <5>1, <5>2, TextFacts, PairFacts
      <4>. HIDE DEF c, Parts
      <4>3. \A v, w \in Seq(Text) : c \o v = c \o w => v = w
        BY <4>2, ConcatSimplifications
      <4>. QED
        BY <4>1, <4>2, <4>3
    <3>. QED
      BY <3>1, <3>2, <3>3, OutputsApart
  <2>. QED
    BY <2>3, <2>4
<1>8. CASE (Kind(j) = "fake_source") # (Kind(k) = "fake_source")
  BY <1>2, <1>4, <1>5, <1>8
<1>. QED
  BY <1>6, <1>7, <1>8

(* A file is compiled under the arguments of its own class. *)
LEMMA ArgumentsAreOwn ==
  ASSUME input \in Inputs, NEW f
  PROVE  ValidationArgsForFile(f) \in OwnArguments(f)
<1>. DEFINE args == opt.source_args
            own == {k \in DOMAIN args : args[k].class = f.class /\ args[k].header = f.header}
            mine == {s.args : s \in {t \in Range(args) : t.class = f.class /\ t.header = f.header}}
<1>1. OwnArguments(f) = IF mine = {} THEN {opt.extra_args} ELSE mine
  BY DEF OwnArguments
<1>2. ValidationArgsForFile(f) = IF own = {} THEN opt.extra_args ELSE args[Nth(own, 1)].args
  BY DEF ValidationArgsForFile
<1>3. CASE own = {}
  <2>1. mine = {}
    BY <1>3 DEF Range
  <2>. QED
    BY <1>1, <1>2, <1>3, <2>1
<1>4. CASE own # {}
  <2>1. args \in Seq(SourceArgs) /\ own \in SUBSET DOMAIN args
    BY InputsGiven DEF opt
  <2>. HIDE DEF own
  <2>2. IsFiniteSet(own) /\ own \in SUBSET Nat
    BY <2>1, AtFacts
  <2>3. 1 \in 1 .. Cardinality(own)
    BY <1>4, <2>2, NthFacts, FS_EmptySet
  <2>4. Nth(own, 1) \in own
    BY <2>2, <2>3, NthFacts
  <2>5. args[Nth(own, 1)].args \in mine
    BY <2>4 DEF own, Range
  <2>. QED
    BY <1>1, <1>2, <1>4, <2>5
<1>. QED
  BY <1>3, <1>4
-----------------------------------------------------------------------------
(* What success says *)

AllAccepted == Cardinality({OutputPath(f.path) : f \in Range(staged)}) = Len(CxxFiles)

(* The command compiled the file with success, under arguments of its own. *)
Compiles(c, f) ==
  /\ c.source = SourceOf(f) /\ c.exit = 0
  /\ f.kind # "all_mocks_header" =>
       \E own \in OwnArguments(f) : c.args = BaseCompileArguments(own)

AllCompiled(cs) == \A f \in ToCompile : \E c \in Range(cs) : Compiles(c, f)

AllLinked(cs) ==
  LET link == Last(cs)
  IN /\ link.exit = 0
     /\ {SourceOf(f) : f \in ToCompile} \subseteq {o.source : o \in link.linked}
     /\ \A o \in link.linked : o.run = runs
     /\ Cardinality(link.linked) = Len(cs) - 1

Covered == AllAccepted /\ AllCompiled(commands) /\ (opt.mode = "link" => AllLinked(commands))

Objects == {f \in store : Head(f.path) = "objects"}

ObjectMade(n) == Made(ObjectAt(Order[n]), SourceAt(Order[n]))

(* The command did the job of the file at that place, or that of main, with success. *)
Ran(c, k) ==
  /\ c.source = SourceAt(k) /\ c.exit = 0
  /\ k # 0 /\ staged[k].kind # "all_mocks_header" =>
       c.args = BaseCompileArguments(ValidationArgsForFile(staged[k]))

(* While nothing has failed, there is a command for each job so far, and outside
   of syntax mode an object. *)
CommandsInv ==
  /\ pc \in {"clear", "stage", "write"} =>
       commands = <<>> /\ object_paths = <<>>
  /\ pc \in {"source", "compile"} /\ diagnostics = <<>> =>
       /\ i \in 1 .. Len(Order) + 1 /\ Len(commands) = i - 1
       /\ \A n \in 1 .. i - 1 : Ran(commands[n], Order[n])
  /\ pc \in {"source", "compile"} /\ diagnostics = <<>> /\ opt.mode # "syntax" =>
       /\ ~ObjectsCollide
       /\ IsList(object_paths) /\ Len(object_paths) = i - 1
       /\ \A n \in 1 .. i - 1 : object_paths[n] = ObjectAt(Order[n])
       /\ Objects = {ObjectMade(n) : n \in 1 .. i - 1}
  /\ (pc \in {"finish", "destroy"} \/ Returned) /\ diagnostics = <<>> => Covered

LEMMA CommandsInit == Init => CommandsInv
BY DEF Init, CommandsInv, Returned

(* What a step that leaves the files and the call alone does not change. *)
LEMMA ArgumentsFrame ==
  ASSUME input' = input
  PROVE  /\ \A x : BaseCompileArguments(x)' = BaseCompileArguments(x)
         /\ \A f : ValidationArgsForFile(f)' = ValidationArgsForFile(f)
         /\ \A f : OwnArguments(f)' = OwnArguments(f)
BY DEF BaseCompileArguments, ValidationArgsForFile, OwnArguments, opt

LEMMA PlacesFrame ==
  ASSUME input' = input, staged' = staged, runs' = runs
  PROVE  /\ \A k : SourceAt(k)' = SourceAt(k) /\ ObjectAt(k)' = ObjectAt(k)
         /\ \A n : ObjectMade(n)' = ObjectMade(n)
         /\ \A c, k : Ran(c, k)' <=> Ran(c, k)
         /\ ObjectsCollide' <=> ObjectsCollide
<1>1. \A k : SourceAt(k)' = SourceAt(k) /\ ObjectAt(k)' = ObjectAt(k)
  BY DEF SourceAt, ObjectAt
<1>2. \A n : ObjectMade(n)' = ObjectMade(n)
  BY <1>1, OrderFrame DEF ObjectMade, Made
<1>3. \A c, k : Ran(c, k)' <=> Ran(c, k)
  BY <1>1, ArgumentsFrame DEF Ran
<1>4. ObjectsCollide' <=> ObjectsCollide
  BY DEF ObjectsCollide
<1>. QED
  BY <1>1, <1>2, <1>3, <1>4

LEMMA CoveredFrame ==
  ASSUME input' = input, staged' = staged, runs' = runs
  PROVE  /\ AllAccepted' <=> AllAccepted
         /\ \A cs : AllCompiled(cs)' <=> AllCompiled(cs)
         /\ \A cs : AllLinked(cs)' <=> AllLinked(cs)
         /\ opt' = opt
<1>1. AllAccepted' <=> AllAccepted
  BY CxxFrame DEF AllAccepted
<1>2. ToCompile' = ToCompile
  BY DEF ToCompile
<1>3. \A c, f : Compiles(c, f)' <=> Compiles(c, f)
  BY ArgumentsFrame DEF Compiles
<1>4. \A cs : AllCompiled(cs)' <=> AllCompiled(cs)
  BY <1>2, <1>3 DEF AllCompiled
<1>5. \A cs : AllLinked(cs)' <=> AllLinked(cs)
  BY <1>2 DEF AllLinked
<1>. QED
  BY <1>1, <1>4, <1>5 DEF opt

(* An interval has as many members as its end says. *)
LEMMA UpToFacts ==
  ASSUME NEW n \in Nat
  PROVE  IsFiniteSet(1 .. n) /\ Cardinality(1 .. n) = n
BY FS_Interval

(* As many files were accepted as there were. *)
LEMMA AcceptedAll ==
  ASSUME input \in Inputs, StagedInv, Len(staged) = Len(CxxFiles)
  PROVE  AllAccepted
<1>. DEFINE N == Len(staged)
            T == {OutputPath(f.path) : f \in Range(staged)}
            f == [k \in 1 .. N |-> OutputPath(staged[k].path)]
<1>1. N \in Nat /\ DOMAIN staged = 1 .. N
  BY LenProperties DEF StagedInv
<1>2. f \in Surjection(1 .. N, T)
  BY <1>1 DEF Surjection, Range
<1>3. f \in Injection(1 .. N, T)
  BY <1>1, <1>2 DEF Surjection, Injection, IsInjective, StagedInv
<1>. HIDE DEF N, T, f
<1>4. IsFiniteSet(1 .. N) /\ Cardinality(1 .. N) = N
  BY <1>1, UpToFacts
<1>5. Cardinality(T) = Cardinality(1 .. N)
  BY <1>2, <1>3, <1>4, FS_Surjection
<1>. QED
  BY <1>4, <1>5 DEF AllAccepted, T, N

(* A successful command for each job is one for each file. *)
LEMMA CompiledAllFiles ==
  ASSUME input \in Inputs, StagedInv, NEW cs,
         \A n \in 1 .. Len(Order) : \E c \in Range(cs) : Ran(c, Order[n])
  PROVE  AllCompiled(cs)
<1>. SUFFICES ASSUME NEW f \in ToCompile
              PROVE  \E c \in Range(cs) : Compiles(c, f)
  BY DEF AllCompiled
<1>1. PICK k \in DOMAIN staged : f = staged[k] /\ f.kind # "runtime_header"
  BY DEF ToCompile, Range
<1>2. k # 0 /\ f.kind \in {"mock_header", "all_mocks_header", "fake_source"}
  BY <1>1, AcceptedFacts, LenProperties DEF IsCxxValidationInput, StagedInv
<1>3. k \in Range(Order) /\ IsList(Order)
  BY <1>1, <1>2, JobsFacts DEF StagedInv, Matches
<1>4. PICK n \in 1 .. Len(Order) : Order[n] = k
  BY <1>3, ListFacts DEF Range
<1>5. PICK c \in Range(cs) : Ran(c, k)
  BY <1>4
<1>6. ValidationArgsForFile(f) \in OwnArguments(f)
  BY ArgumentsAreOwn
<1>7. Compiles(c, f)
  BY <1>1, <1>2, <1>5, <1>6 DEF Ran, Compiles, SourceAt
<1>. QED
  BY <1>7

(* Before the first job: nothing is in the tree but outputs. *)
LEMMA NoObjectsYet ==
  ASSUME staged \in Seq(Files), store = Written(Len(staged))
  PROVE  Objects = {}
<1>1. Len(staged) \in Nat
  BY LenProperties
<1>2. \A f \in store : Head(f.path) = "generated"
  BY <1>1, WrittenAreOutputs
<1>. QED
  BY <1>2 DEF Objects

(* An object joins those that were made before it. *)
LEMMA AddsObject ==
  ASSUME KeepInv, StagedInv, CommandsInv, TreeInv, pc = "compile", diagnostics = <<>>,
         opt.mode # "syntax",
         store' = With(Jobs[i].object, Jobs[i].source)
  PROVE  {f \in store' : Head(f.path) = "objects"} = {ObjectMade(n) : n \in 1 .. i}
<1>1. /\ i \in Nat \ {0} /\ i <= Len(Order) /\ i <= Len(Jobs) /\ staged \in Seq(Files)
      /\ input \in Inputs /\ Len(Order) \in Nat /\ NoRepeat(Order)
  <2>1. staged \in Seq(Files)
    BY DEF StagedInv
  <2>2. Len(Jobs) = Len(Order) /\ Len(Order) \in Nat /\ NoRepeat(Order)
    BY <2>1, JobsFacts, ListFacts DEF Matches
  <2>. QED
    BY <2>1, <2>2 DEF TreeInv, KeepInv
<1>2. /\ Jobs[i].object = ObjectAt(Order[i]) /\ Jobs[i].source = SourceAt(Order[i])
      /\ Head(ObjectAt(Order[i])) = "objects"
  BY <1>1, JobHeads DEF Does
<1>3. store' = {f \in store : f.path # ObjectAt(Order[i])} \union {ObjectMade(i)}
  BY <1>2 DEF With, ObjectMade
<1>4. \A n \in 1 .. i - 1 : ObjectAt(Order[n]) # ObjectAt(Order[i])
  <2>1. \A n \in 1 .. Len(Order) : Order[n] \in Range(Order)
    BY <1>1, JobsFacts, ListFacts DEF Range, Matches
  <2>2. ASSUME NEW n \in 1 .. i - 1, ObjectAt(Order[n]) = ObjectAt(Order[i]) PROVE FALSE
    <3>1. n \in 1 .. Len(Order) /\ i \in 1 .. Len(Order) /\ n # i
      BY <1>1
    <3>2. Order[n] = Order[i]
      BY <1>1, <2>1, <2>2, <3>1, ObjectsApart DEF CommandsInv
    <3>. QED
      BY <1>1, <3>1, <3>2 DEF NoRepeat
  <2>. QED
    BY <2>2
<1>5. Objects = {ObjectMade(n) : n \in 1 .. i - 1}
  BY DEF CommandsInv
<1>6. \A n : ObjectMade(n).path = ObjectAt(Order[n])
  BY DEF ObjectMade, Made
<1>7. \A n \in 1 .. i : n \in 1 .. i - 1 \/ n = i
  BY <1>1
<1>8. 1 .. i - 1 \subseteq 1 .. i /\ i \in 1 .. i
  BY <1>1
<1>9. \A f \in store' : Head(f.path) = "objects" => \E n \in 1 .. i : f = ObjectMade(n)
  BY <1>3, <1>5, <1>8 DEF Objects
<1>10. \A n \in 1 .. i : ObjectMade(n) \in store' /\ Head(ObjectMade(n).path) = "objects"
  <2>1. ASSUME NEW n \in 1 .. i - 1
        PROVE  ObjectMade(n) \in store' /\ Head(ObjectMade(n).path) = "objects"
    <3>1. ObjectMade(n) \in store /\ Head(ObjectMade(n).path) = "objects"
      BY <1>5 DEF Objects
    <3>. QED
      BY <1>3, <1>4, <1>6, <3>1
  <2>2. ObjectMade(i) \in store' /\ Head(ObjectMade(i).path) = "objects"
    BY <1>2, <1>3, <1>6
  <2>. QED
    BY <1>7, <2>1, <2>2
<1>. QED
  BY <1>9, <1>10

(* A link after all jobs takes one object of each. *)
LEMMA LinksAll ==
  ASSUME KeepInv, StagedInv, TreeInv, CommandsInv, pc = "source", diagnostics = <<>>,
         opt.mode = "link", i = Len(Order) + 1,
         NEW link, link.exit = 0, link.linked = {f \in store : f.path \in Range(object_paths)}
  PROVE  AllLinked(Append(commands, link))
<1>. DEFINE L == link.linked
            N == Len(Order)
            f == [n \in 1 .. N |-> ObjectMade(n)]
<1>1. /\ staged \in Seq(Files) /\ input \in Inputs
      /\ IsList(Order) /\ N \in Nat /\ NoRepeat(Order) /\ DOMAIN Order = 1 .. N
  <2>1. staged \in Seq(Files)
    BY DEF StagedInv
  <2>. QED
    BY <2>1, JobsFacts, ListFacts DEF Matches, KeepInv
<1>2. /\ ~ObjectsCollide /\ IsList(object_paths) /\ Len(object_paths) = N
      /\ \A n \in 1 .. N : object_paths[n] = ObjectAt(Order[n])
      /\ Objects = {ObjectMade(n) : n \in 1 .. N}
      /\ Len(commands) = N
  <2>1. i - 1 = N
    BY <1>1
  <2>. QED
    BY <2>1 DEF CommandsInv
<1>3. \A n \in 1 .. N : Order[n] \in Range(Order)
  BY <1>1 DEF Range
<1>4. \A n \in 1 .. N : Head(ObjectAt(Order[n])) = "objects"
  BY <1>1, <1>3, HeadFacts
<1>5. \A n : /\ ObjectMade(n).path = ObjectAt(Order[n]) /\ ObjectMade(n).source = SourceAt(Order[n])
             /\ ObjectMade(n).run = runs
  BY DEF ObjectMade, Made
<1>6. Range(object_paths) = {ObjectAt(Order[n]) : n \in 1 .. N}
  BY <1>2, ListFacts DEF Range
<1>7. L = {ObjectMade(n) : n \in 1 .. N}
  <2>1. \A o \in L : o \in Objects
    BY <1>4, <1>6 DEF Objects
  <2>2. \A n \in 1 .. N : ObjectMade(n) \in L
    BY <1>2, <1>5, <1>6 DEF Objects
  <2>. QED
    BY <1>2, <2>1, <2>2
<1>8. Cardinality(L) = N
  <2>1. f \in Surjection(1 .. N, L)
    BY <1>7 DEF Surjection
  <2>2. f \in Injection(1 .. N, L)
    <3>1. ASSUME NEW m \in 1 .. N, NEW n \in 1 .. N, ObjectMade(m) = ObjectMade(n) PROVE m = n
      <4>1. ObjectAt(Order[m]) = ObjectAt(Order[n])
        BY <1>5, <3>1
      <4>2. Order[m] = Order[n]
        BY <1>1, <1>2, <1>3, <4>1, ObjectsApart
      <4>. QED
        BY <4>2, <1>1 DEF NoRepeat
    <3>. QED
      BY <2>1, <3>1 DEF Surjection, Injection, IsInjective
  <2>. HIDE DEF f, L, N
  <2>3. IsFiniteSet(1 .. N) /\ Cardinality(1 .. N) = N
    BY <1>1, UpToFacts
  <2>. QED
    BY <2>1, <2>2, <2>3, FS_Surjection
<1>9. {SourceOf(g) : g \in ToCompile} \subseteq {o.source : o \in L}
  <2>1. ASSUME NEW g \in ToCompile PROVE \E o \in L : o.source = SourceOf(g)
    <3>1. PICK k \in DOMAIN staged : g = staged[k] /\ g.kind # "runtime_header"
      BY DEF ToCompile, Range
    <3>2. k # 0 /\ g.kind \in {"mock_header", "all_mocks_header", "fake_source"}
      BY <1>1, <3>1, AcceptedFacts, LenProperties DEF IsCxxValidationInput
    <3>3. k \in Range(Order)
      BY <1>1, <3>1, <3>2, JobsFacts
    <3>4. PICK n \in 1 .. N : Order[n] = k
      BY <1>1, <3>3 DEF Range
    <3>5. ObjectMade(n).source = SourceOf(g)
      BY <1>5, <3>1, <3>2, <3>4 DEF SourceAt
    <3>. QED
      BY <1>7, <3>5
  <2>. QED
    BY <2>1
<1>10. \A o \in L : o.run = runs
  BY <1>5, <1>7
<1>. QED
  <2>. DEFINE cs == Append(commands, link)
  <2>1. Len(cs) = N + 1 /\ cs[N + 1] = link
    <3>1. IsList(commands)
      BY DEF TreeInv
    <3>. QED
      BY <1>2, <3>1, AppendFacts
  <2>2. Last(cs) = link /\ Len(cs) - 1 = N
    BY <1>1, <2>1 DEF Last
  <2>. HIDE DEF cs
  <2>3. AllLinked(cs)
    BY <1>8, <1>9, <1>10, <2>2 DEF AllLinked
  <2>. QED
    BY <2>3 DEF cs

(* The next command did the next job, if it succeeded. *)
LEMMA RunsNext ==
  ASSUME KeepInv, StagedInv, TreeInv, CommandsInv, Compile, diagnostics' = <<>>
  PROVE  CommandsInv'
<1>1. /\ pc = "compile" /\ pc' = "source" /\ i' = i + 1
      /\ UNCHANGED <<input, staged, runs>>
      /\ commands' = Compiled(Jobs[i], 0)
      /\ store' = IF opt.mode = "syntax" THEN store ELSE With(Jobs[i].object, Jobs[i].source)
      /\ diagnostics = <<>>
      /\ AddObject(Jobs[i])
  <2>1. ~Say("compile", opt.keep_failed_artifacts)
    BY AppendFacts DEF Say, KeepInv
  <2>. QED
    BY <2>1 DEF Compile, Advance
<1>2. /\ staged \in Seq(Files) /\ i \in Nat \ {0} /\ i <= Len(Order) /\ Len(Order) \in Nat
      /\ Len(Jobs) = Len(Order) /\ IsList(commands)
  <2>1. staged \in Seq(Files)
    BY DEF StagedInv
  <2>2. Len(Jobs) = Len(Order) /\ Len(Order) \in Nat
    BY <2>1, JobsFacts, ListFacts DEF Matches
  <2>. QED
    BY <1>1, <2>1, <2>2 DEF TreeInv
<1>3. Does(Jobs[i], Order[i])
  BY <1>2, JobHeads
<1>4. /\ Len(commands) = i - 1 /\ \A n \in 1 .. i - 1 : Ran(commands[n], Order[n])
  BY <1>1 DEF CommandsInv
<1>5. Order' = Order /\ opt' = opt
  BY <1>1, OrderFrame DEF opt
<1>6. \A n \in 1 .. i : n \in 1 .. i - 1 \/ n = i
  BY <1>2
<1>7. i - 1 + 1 = i /\ i' - 1 = i /\ i' \in 1 .. Len(Order) + 1
  BY <1>1, <1>2
<1>8. Len(commands') = i /\ \A n \in 1 .. i : Ran(commands'[n], Order[n])
  <2>. DEFINE c == [source |-> Jobs[i].source, args |-> Jobs[i].args, exit |-> 0, linked |-> {}]
  <2>1. Ran(c, Order[i])
    BY <1>3 DEF Does, Ran
  <2>2. commands' = Append(commands, c)
    BY <1>1 DEF Compiled
  <2>. HIDE DEF c
  <2>3. /\ Len(commands') = Len(commands) + 1
        /\ \A n \in 1 .. Len(commands) : commands'[n] = commands[n]
        /\ commands'[Len(commands) + 1] = c
    BY <1>2, <2>2, AppendFacts
  <2>. QED
    BY <1>4, <1>6, <1>7, <2>1, <2>3
<1>9. ASSUME opt.mode # "syntax"
      PROVE  /\ ~ObjectsCollide
             /\ IsList(object_paths') /\ Len(object_paths') = i
             /\ \A n \in 1 .. i : object_paths'[n] = ObjectAt(Order[n])
             /\ {f \in store' : Head(f.path) = "objects"} = {ObjectMade(n) : n \in 1 .. i}
  <2>1. /\ ~ObjectsCollide /\ IsList(object_paths) /\ Len(object_paths) = i - 1
        /\ \A n \in 1 .. i - 1 : object_paths[n] = ObjectAt(Order[n])
    BY <1>1, <1>9 DEF CommandsInv
  <2>. DEFINE o == Jobs[i].object
  <2>2. object_paths' = Append(object_paths, o) /\ o = ObjectAt(Order[i])
    BY <1>1, <1>3, <1>9 DEF AddObject, Does
  <2>. HIDE DEF o
  <2>3. /\ IsList(object_paths') /\ Len(object_paths') = Len(object_paths) + 1
        /\ \A n \in 1 .. Len(object_paths) : object_paths'[n] = object_paths[n]
        /\ object_paths'[Len(object_paths) + 1] = o
    BY <2>1, <2>2, AppendFacts
  <2>4. {f \in store' : Head(f.path) = "objects"} = {ObjectMade(n) : n \in 1 .. i}
    BY <1>1, <1>9, AddsObject
  <2>. QED
    BY <1>6, <1>7, <2>1, <2>2, <2>3, <2>4
<1>10. Objects' = {f \in store' : Head(f.path) = "objects"}
  BY DEF Objects
<1>11. /\ \A k : ObjectAt(k)' = ObjectAt(k)
       /\ \A n : ObjectMade(n)' = ObjectMade(n)
       /\ \A c, k : Ran(c, k)' <=> Ran(c, k)
       /\ ObjectsCollide' <=> ObjectsCollide
  BY <1>1, PlacesFrame
<1>12. ~Returned' /\ pc' = "source"
  BY <1>1 DEF Returned
<1>13. /\ i' \in 1 .. Len(Order') + 1 /\ Len(commands') = i' - 1
       /\ \A n \in 1 .. i' - 1 : Ran(commands[n], Order[n])'
  BY <1>5, <1>7, <1>8, <1>11
<1>14. ASSUME opt'.mode # "syntax"
       PROVE  /\ ~ObjectsCollide'
              /\ IsList(object_paths') /\ Len(object_paths') = i' - 1
              /\ \A n \in 1 .. i' - 1 : (object_paths[n] = ObjectAt(Order[n]))'
              /\ (Objects = {ObjectMade(n) : n \in 1 .. i - 1})'
  BY <1>5, <1>7, <1>9, <1>10, <1>11, <1>14
<1>. QED
  BY <1>12, <1>13, <1>14 DEF CommandsInv

(* After the last job without a failure, every file has been compiled. *)
LEMMA AllHaveRun ==
  ASSUME KeepInv, StagedInv, TreeInv, CommandsInv, CompiledAll, diagnostics = <<>>
  PROVE  /\ i = Len(Order) + 1 /\ AllAccepted
         /\ \A n \in 1 .. Len(Order) : \E c \in Range(commands) : Ran(c, Order[n])
<1>1. /\ staged \in Seq(Files) /\ Len(staged) = Len(CxxFiles) /\ input \in Inputs
  BY DEF StagedInv, PastStaging, CompiledAll, KeepInv
<1>2. Len(Jobs) = Len(Order) /\ Len(Order) \in Nat
  BY <1>1, JobsFacts, ListFacts DEF Matches
<1>3. /\ i \in 1 .. Len(Order) + 1 /\ i > Len(Order) /\ Len(commands) = i - 1
      /\ \A n \in 1 .. i - 1 : Ran(commands[n], Order[n])
  BY <1>2 DEF CommandsInv, CompiledAll
<1>4. i = Len(Order) + 1 /\ i - 1 = Len(Order)
  BY <1>2, <1>3
<1>5. DOMAIN commands = 1 .. Len(commands)
  BY ListFacts DEF TreeInv
<1>6. \A n \in 1 .. Len(Order) : commands[n] \in Range(commands)
  BY <1>3, <1>4, <1>5 DEF Range
<1>. QED
  BY <1>1, <1>3, <1>4, <1>6, AcceptedAll

LEMMA CommandsNext ==
  KeepInv /\ StagedInv /\ TreeInv /\ CommandsInv /\ [Next]_vars => CommandsInv'
<1>. SUFFICES ASSUME KeepInv, StagedInv, TreeInv, CommandsInv, [Next]_vars PROVE CommandsInv'
  OBVIOUS
<1>0. \A about, artifact : Say(about, artifact) => diagnostics' # <<>>
  BY AppendFacts DEF Say, KeepInv
(* A failure ends all promises *)
<1>a. ASSUME diagnostics' # <<>>, pc' \notin {"clear", "stage", "write"}
      PROVE  CommandsInv'
  BY <1>a DEF CommandsInv
<1>b. ASSUME NEW about, GiveUp(about) PROVE CommandsInv'
  BY <1>0, <1>a, <1>b DEF GiveUp
(* A step before the first command *)
<1>c. ASSUME pc \in {"clear", "stage", "write"}, pc' \in {"clear", "stage", "write"},
             UNCHANGED <<commands, object_paths>>
      PROVE  CommandsInv'
  BY <1>c DEF CommandsInv, Returned
(* A step that keeps what has been covered *)
<1>d. ASSUME pc' \in {"finish", "destroy", "returned", "littered"}, diagnostics = <<>> => Covered,
             UNCHANGED <<input, staged, runs, commands, diagnostics>>
      PROVE  CommandsInv'
  <2>1. Covered' <=> Covered
    BY <1>d, CoveredFrame DEF Covered
  <2>. QED
    BY <1>d, <2>1 DEF CommandsInv
<1>1. CASE Begin
  <2>1. /\ commands' = <<>> /\ object_paths' = <<>>
        /\ pc' = "clear" \/ (pc' = "returned" /\ opt'.mode = "none")
    BY <1>1 DEF Begin, opt
  <2>. QED
    BY <2>1 DEF CommandsInv, Returned
<1>2. CASE ClearTree
  BY <1>2, <1>c DEF ClearTree, Goto, result
<1>3. CASE ClearTreeFails
  BY <1>3, <1>0, <1>a DEF ClearTreeFails
<1>4. CASE StageFile
  BY <1>4, <1>b, <1>c DEF StageFile
<1>5. CASE StageDone
  BY <1>5, <1>c DEF StageDone, Goto, result
<1>6. CASE WriteFile
  BY <1>6, <1>b, <1>c DEF WriteFile
<1>7. CASE CheckFakeObjects
  <2>1. CASE GiveUp("object")
    BY <2>1, <1>b
  <2>2. CASE ~GiveUp("object")
    <3>1. /\ pc = "write" /\ pc' = "source" /\ i' = 1 /\ i > Len(staged)
          /\ UNCHANGED <<input, staged, store, commands, object_paths, runs>>
          /\ opt.mode # "syntax" => ~ObjectsCollide
      BY <1>7, <2>2 DEF CheckFakeObjects, Goto
    <3>2. staged \in Seq(Files) /\ store = Written(Len(staged)) /\ Len(Order) \in Nat
      <4>1. staged \in Seq(Files) /\ Len(staged) \in Nat
        BY LenProperties DEF StagedInv
      <4>2. i - 1 = Len(staged)
        BY <3>1, <4>1 DEF TreeInv
      <4>3. Len(Order) \in Nat
        BY <4>1, JobsFacts, ListFacts DEF Matches
      <4>. QED
        BY <3>1, <4>1, <4>2, <4>3 DEF TreeInv
    <3>3. Objects' = {}
      <4>1. Objects = {}
        BY <3>2, NoObjectsYet
      <4>. QED
        BY <3>1, <4>1 DEF Objects
    <3>4. /\ commands' = <<>> /\ object_paths' = <<>>
          /\ Len(commands') = 0 /\ Len(object_paths') = 0 /\ IsList(object_paths')
      BY <3>1, EmptyList DEF CommandsInv
    <3>5. i' - 1 = 0 /\ i' \in 1 .. Len(Order) + 1 /\ 1 .. 0 = {}
      BY <3>1, <3>2
    <3>6. Order' = Order /\ opt' = opt /\ (ObjectsCollide' <=> ObjectsCollide)
      BY <3>1, OrderFrame, PlacesFrame DEF opt
    <3>7. ~Returned'
      BY <3>1 DEF Returned
    <3>. QED
      BY <3>1, <3>3, <3>4, <3>5, <3>6, <3>7 DEF CommandsInv
  <2>. QED
    BY <2>1, <2>2
<1>8. CASE WriteSmokeSource
  <2>1. CASE GiveUp("smoke")
    BY <2>1, <1>b
  <2>2. CASE ~GiveUp("smoke")
    <3>1. /\ pc = "source" /\ i <= Len(Jobs) /\ pc' = "compile"
          /\ store' = IF Jobs[i].smoke THEN With(Jobs[i].source, Jobs[i].source) ELSE store
          /\ UNCHANGED <<input, i, staged, runs, commands, object_paths, diagnostics>>
      BY <1>8, <2>2 DEF WriteSmokeSource
    <3>2. Head(Jobs[i].source) # "objects"
      BY <3>1, JobHeads DEF TreeInv, StagedInv
    <3>3. Objects' = Objects
      <4>1. store' = store \/ store' = With(Jobs[i].source, Jobs[i].source)
        BY <3>1
      <4>. QED
        BY <3>2, <4>1 DEF Objects, With, Made
    <3>. QED
      <4>1. Order' = Order /\ opt' = opt /\ ~Returned'
        BY <3>1, OrderFrame DEF opt, Returned
      <4>. QED
        BY <3>1, <3>3, <4>1, PlacesFrame DEF CommandsInv
  <2>. QED
    BY <2>1, <2>2
<1>9. CASE Compile
  <2>1. pc' = "source"
    BY <1>9 DEF Compile, Advance
  <2>. QED
    BY <1>9, <2>1, <1>a, RunsNext
<1>10. CASE ObjectDirectoryFails
  BY <1>10, <1>0, <1>a DEF ObjectDirectoryFails, Advance
<1>11. CASE Link
  <2>1. pc' = "finish" /\ UNCHANGED <<input, staged, runs>>
    BY <1>11 DEF Link, Goto
  <2>2. CASE diagnostics' # <<>>
    BY <2>1, <2>2, <1>a
  <2>3. CASE diagnostics' = <<>>
    <3>1. PICK link :
            /\ CompiledAll /\ opt.mode = "link" /\ diagnostics = <<>>
            /\ commands' = Append(commands, link)
            /\ link.exit = 0 /\ link.linked = {f \in store : f.path \in Range(object_paths)}
      BY <1>11, <1>0, <2>3 DEF Link, ReadyToLink
    <3>2. /\ i = Len(Order) + 1 /\ AllAccepted /\ pc = "source"
          /\ \A n \in 1 .. Len(Order) : \E c \in Range(commands) : Ran(c, Order[n])
      BY <3>1, AllHaveRun DEF CompiledAll
    <3>3. AllCompiled(commands')
      <4>1. Range(commands) \subseteq Range(commands')
        BY <3>1, AppendFacts DEF TreeInv
      <4>2. \A n \in 1 .. Len(Order) : \E c \in Range(commands') : Ran(c, Order[n])
        BY <3>2, <4>1
      <4>. QED
        BY <4>2, CompiledAllFiles DEF KeepInv
    <3>4. AllLinked(commands')
      BY <3>1, <3>2, LinksAll
    <3>5. Covered'
      BY <2>1, <3>2, <3>3, <3>4, CoveredFrame DEF Covered
    <3>. QED
      BY <2>1, <3>5 DEF CommandsInv
  <2>. QED
    BY <2>2, <2>3
<1>12. CASE Finish
  <2>1. /\ pc' = "destroy" /\ UNCHANGED <<input, staged, runs, commands, diagnostics>>
        /\ pc = "finish" \/ (CompiledAll /\ ~ReadyToLink)
    BY <1>12 DEF Finish, Goto, result
  <2>2. CASE pc = "finish"
    BY <2>1, <2>2, <1>d DEF CommandsInv
  <2>3. CASE CompiledAll /\ ~ReadyToLink /\ diagnostics = <<>>
    <3>1. /\ AllAccepted
          /\ \A n \in 1 .. Len(Order) : \E c \in Range(commands) : Ran(c, Order[n])
      BY <2>3, AllHaveRun
    <3>2. AllCompiled(commands)
      BY <3>1, CompiledAllFiles DEF KeepInv
    <3>. QED
      BY <2>1, <2>3, <3>1, <3>2, <1>d DEF Covered, ReadyToLink
  <2>. QED
    BY <2>1, <2>2, <2>3, <1>d
<1>13. CASE DestroyTree \/ DestroyTreeFails
  <2>1. /\ pc = "destroy" /\ pc' \in {"returned", "littered"}
        /\ UNCHANGED <<input, staged, runs, commands, diagnostics>>
    BY <1>13 DEF DestroyTree, DestroyTreeFails, result
  <2>. QED
    BY <2>1, <1>d DEF CommandsInv
<1>14. CASE Crash
  BY <1>14 DEF Crash, CommandsInv, Returned
<1>15. CASE UNCHANGED vars
  <2>1. UNCHANGED <<pc, i, input, staged, store, runs, commands, diagnostics, object_paths>>
    BY <1>15 DEF vars, result
  <2>2. /\ Order' = Order /\ opt' = opt /\ (Returned' <=> Returned) /\ Objects' = Objects
        /\ (Covered' <=> Covered)
    BY <2>1, OrderFrame, CoveredFrame DEF opt, Returned, Objects, Covered
  <2>. QED
    BY <2>1, <2>2, PlacesFrame DEF CommandsInv
<1>. QED
  BY <1>1, <1>2, <1>3, <1>4, <1>5, <1>6, <1>7, <1>8, <1>9, <1>10, <1>11, <1>12, <1>13,
     <1>14, <1>15 DEF Next

(* A call that ends without a diagnostic has accepted, compiled and, in link mode,
   linked every C++ file of its input, each under its own arguments. *)
THEOREM SuccessCovers == Spec => []SuccessCoversEveryFile
<1>1. Init => Inv /\ CommandsInv
  BY KeepInit, StagedInit, TreeInit, CommandsInit DEF Inv
<1>2. Inv /\ CommandsInv /\ [Next]_vars => (Inv /\ CommandsInv)'
  BY KeepNext, StagedNext, TreeNext, CommandsNext DEF Inv
<1>3. CommandsInv => SuccessCoversEveryFile
  BY DEF CommandsInv, Covered, AllAccepted, AllCompiled, Compiles, AllLinked,
     SuccessCoversEveryFile
<1>. QED
  BY <1>1, <1>2, <1>3, PTL DEF Spec

=============================================================================
