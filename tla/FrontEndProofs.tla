---------------------------- MODULE FrontEndProofs ---------------------------
(***************************************************************************)
(* Proofs about the options and the search for headers, for any command    *)
(* lines, file trees with whatever links, orders of the entries of a       *)
(* directory and failing calls.  OptionsInv says what the configuration is *)
(* while the command line is read and once it is accepted, WordsInv how it *)
(* agrees with the words read so far, StageInv what holds before and after *)
(* the search, and ScanInv what each header found and each open directory  *)
(* has to do with the tree, and that every header wanted is found or still *)
(* ahead.                                                                  *)
(***************************************************************************)
EXTENDS FrontEnd, FiniteSetTheorems, SequenceTheorems, TLAPS

-----------------------------------------------------------------------------
(* Induction up to a number, with a set in the place of a predicate: if a  *)
(* set lacked that number, adding one would map it into a smaller one.     *)
LEMMA Climb ==
  ASSUME NEW N \in Nat, NEW A \in SUBSET (0 .. N), 0 \in A,
         \A n \in A : n < N => n + 1 \in A
  PROVE  N \in A
<1>. SUFFICES ASSUME N \notin A PROVE FALSE
  OBVIOUS
<1>. DEFINE B == A \ {0}
            f == [n \in A |-> n + 1]
<1>1. \A n \in A : n < N /\ n + 1 \in B
  <2>1. ASSUME NEW n \in A PROVE n < N /\ n + 1 \in B
    <3>1. n \in 0 .. N /\ n # N
      OBVIOUS
    <3>2. n < N /\ n + 1 # 0
      BY <3>1
    <3>. QED
      BY <3>2
  <2>. QED
    BY <2>1
<1>2. f \in Injection(A, B)
  BY <1>1 DEF Injection, IsInjective
<1>3. IsFiniteSet(A) /\ Cardinality(A) \in Nat
  <2>1. IsFiniteSet(0 .. N)
    BY FS_Interval
  <2>2. IsFiniteSet(A)
    BY <2>1, FS_Subset
  <2>. QED
    BY <2>2, FS_CardinalityType
<1>4. IsFiniteSet(B) /\ Cardinality(B) = Cardinality(A) - 1
  BY <1>3, FS_RemoveElement
<1>. HIDE DEF f, B
<1>5. Cardinality(A) <= Cardinality(B)
  BY <1>2, <1>4, <1>3, FS_Injection
<1>. QED
  BY <1>3, <1>4, <1>5

AreSteps(N, S, step) == step \in [1 .. N -> [S -> S]]

Follows(N, S, start, step, at) ==
  /\ at \in [0 .. N -> S] /\ at[0] = start
  /\ \A n \in 1 .. N : at[n] = step[n][at[n - 1]]

(* A walk that takes one step after the other exists. *)
LEMMA StepsExist ==
  ASSUME NEW N \in Nat, NEW S, NEW start \in S, NEW step, AreSteps(N, S, step)
  PROVE  \E at : Follows(N, S, start, step, at)
<1>. USE DEF AreSteps
<1>. DEFINE Walks(m, at) == /\ at \in [0 .. m -> S] /\ at[0] = start
                            /\ \A n \in 1 .. m : at[n] = step[n][at[n - 1]]
            A == {m \in 0 .. N : \E at : Walks(m, at)}
<1>1. 0 \in A
  <2>. DEFINE at == [n \in 0 .. 0 |-> start]
  <2>1. at \in [0 .. 0 -> S] /\ at[0] = start /\ 1 .. 0 = {}
    OBVIOUS
  <2>. HIDE DEF at
  <2>2. Walks(0, at)
    BY <2>1
  <2>. HIDE DEF Walks
  <2>. QED
    BY <2>2
<1>2. ASSUME NEW m \in A, m < N
      PROVE  m + 1 \in A
  <2>1. /\ m \in 0 .. N /\ m + 1 \in 1 .. N /\ m + 1 \in 0 .. N /\ 0 \in 0 .. m
        /\ 0 .. m + 1 = (0 .. m) \union {m + 1}
    BY <1>2
  <2>2. PICK at : Walks(m, at)
    OBVIOUS
  <2>. DEFINE on == [n \in 0 .. m + 1 |-> IF n <= m THEN at[n] ELSE step[m + 1][at[m]]]
  <2>3. /\ \A n \in 0 .. m : on[n] = at[n] /\ at[n] \in S
        /\ on[m + 1] = step[m + 1][at[m]] /\ on[m + 1] \in S
        /\ DOMAIN on = 0 .. m + 1 /\ on = [n \in 0 .. m + 1 |-> on[n]]
    BY <2>1, <2>2
  <2>. HIDE DEF on
  <2>4. on \in [0 .. m + 1 -> S]
    <3>1. \A n \in 0 .. m + 1 : on[n] \in S
      BY <2>1, <2>3
    <3>. QED
      BY <2>3, <3>1
  <2>5. on[0] = start
    BY <2>1, <2>2, <2>3
  <2>6. ASSUME NEW n \in 1 .. m + 1 PROVE on[n] = step[n][on[n - 1]]
    <3>1. CASE n \in 1 .. m
      <4>1. n \in 0 .. m /\ n - 1 \in 0 .. m
        BY <2>1, <3>1
      <4>2. on[n] = at[n] /\ on[n - 1] = at[n - 1]
        BY <2>3, <4>1
      <4>3. at[n] = step[n][at[n - 1]]
        BY <2>2, <3>1
      <4>. QED
        BY ONLY <4>2, <4>3
    <3>2. CASE n = m + 1
      <4>1. n - 1 = m /\ m \in 0 .. m
        BY <2>1, <3>2
      <4>2. on[n] = step[n][at[m]] /\ on[n - 1] = at[m]
        BY <2>3, <3>2, <4>1
      <4>. QED
        BY ONLY <4>1, <4>2, <2>1
    <3>. QED
      BY <2>1, <3>1, <3>2
  <2>7. Walks(m + 1, on)
    BY <2>4, <2>5, <2>6
  <2>. HIDE DEF Walks
  <2>. QED
    BY <2>1, <2>7
<1>. HIDE DEF A, Walks
<1>3. N \in A
  BY <1>1, <1>2, Climb DEF A
<1>4. PICK at : Walks(N, at)
  BY <1>3 DEF A
<1>5. Follows(N, S, start, step, at)
  BY <1>4 DEF Walks, Follows
<1>. QED
  BY <1>5

(* Lists *)
IsList(s) == s \in Seq(Range(s))

LEMMA Grown ==
  ASSUME NEW s, IsList(s), NEW x
  PROVE  LET more == Append(s, x)
         IN /\ IsList(more)
            /\ Len(s) \in Nat /\ Len(more) = Len(s) + 1
            /\ DOMAIN s = 1 .. Len(s) /\ DOMAIN more = 1 .. Len(s) + 1
            /\ \A k \in 1 .. Len(s) : more[k] = s[k]
            /\ more[Len(s) + 1] = x
            /\ Range(more) = Range(s) \union {x}
<1>. DEFINE more == Append(s, x)
            S == Range(s) \union {x}
<1>1. s \in Seq(S) /\ x \in S
  BY DEF IsList
<1>2. /\ more \in Seq(S) /\ Len(more) = Len(s) + 1
      /\ \A k \in 1 .. Len(s) : more[k] = s[k]
      /\ more[Len(s) + 1] = x
  BY <1>1, AppendProperties
<1>3. Len(s) \in Nat /\ DOMAIN s = 1 .. Len(s) /\ DOMAIN more = 1 .. Len(s) + 1
  <2>. HIDE DEF more, S
  <2>. QED
    BY <1>1, <1>2
<1>. HIDE DEF more, S
<1>4. Range(more) = S
  <2>1. ASSUME NEW k \in DOMAIN more PROVE more[k] \in S
    BY <1>2, <1>3, <2>1
  <2>2. ASSUME NEW k \in DOMAIN s PROVE k \in DOMAIN more /\ more[k] = s[k]
    BY <1>2, <1>3, <2>2
  <2>3. Len(s) + 1 \in DOMAIN more
    BY <1>3
  <2>. QED
    BY <1>2, <2>1, <2>2, <2>3 DEF Range, S
<1>5. IsList(more)
  <2>1. more \in Seq(Range(more))
    BY <1>2, <1>4
  <2>. QED
    BY <2>1 DEF IsList
<1>. QED
  BY <1>2, <1>3, <1>4, <1>5 DEF more, S

LEMMA Appended ==
  ASSUME NEW p \in Seq(STRING), NEW name \in STRING
  PROVE  /\ Append(p, name) \in Seq(STRING)
         /\ Len(Append(p, name)) = Len(p) + 1 /\ Len(p) \in Nat
         /\ \A k \in 1 .. Len(p) : Append(p, name)[k] = p[k]
         /\ Append(p, name)[Len(Append(p, name))] = name
<1>. DEFINE q == Append(p, name)
<1>1. q \in Seq(STRING) /\ Len(q) = Len(p) + 1
  BY AppendProperties
<1>2. \A k \in 1 .. Len(p) : q[k] = p[k]
  BY AppendProperties
<1>3. q[Len(p) + 1] = name
  BY AppendProperties
<1>. HIDE DEF q
<1>4. q[Len(q)] = name /\ Len(p) \in Nat
  BY ONLY <1>1, <1>3, p \in Seq(STRING)
<1>5. /\ q \in Seq(STRING) /\ Len(q) = Len(p) + 1 /\ Len(p) \in Nat
      /\ \A k \in 1 .. Len(p) : q[k] = p[k]
      /\ q[Len(q)] = name
  BY ONLY <1>1, <1>2, <1>4
<1>. QED
  BY ONLY <1>5 DEF q

LEMMA PrefixMeans ==
  ASSUME NEW p \in Seq(STRING), NEW q \in Seq(STRING)
  PROVE  IsUnder(q, p) <=> Len(p) <= Len(q) /\ \A k \in 1 .. Len(p) : p[k] = q[k]
<1>1. CASE Len(p) <= Len(q)
  <2>1. Len(SubSeq(p, 1, Len(p))) = Len(p) /\ Len(SubSeq(q, 1, Len(p))) = Len(p)
    BY <1>1
  <2>2. \A k \in 1 .. Len(p) : SubSeq(p, 1, Len(p))[k] = p[k] /\ SubSeq(q, 1, Len(p))[k] = q[k]
    BY <1>1
  <2>3. SubSeq(p, 1, Len(p)) \in Seq(STRING) /\ SubSeq(q, 1, Len(p)) \in Seq(STRING)
    BY <1>1
  <2>4. SubSeq(p, 1, Len(p)) = SubSeq(q, 1, Len(p))
          <=> \A k \in 1 .. Len(p) : p[k] = q[k]
    BY <2>1, <2>2, <2>3
  <2>. QED
    BY <1>1, <2>4 DEF IsUnder, IsPrefix
<1>. QED
  BY <1>1 DEF IsUnder, IsPrefix

-----------------------------------------------------------------------------
(* Physical *)

IsWalk(t, p, m, at) ==
  at = [n \in 0 .. m |-> IF n = 0 THEN <<>> ELSE Onward(t, at[n - 1], p[n])]

LEMMA WalkExists ==
  ASSUME NEW t, NEW p, NEW N \in Nat
  PROVE  \E at : IsWalk(t, p, N, at)
<1>. DEFINE A == {m \in 0 .. N : \E at : IsWalk(t, p, m, at)}
<1>1. 0 \in A
  <2>. DEFINE at == [n \in 0 .. 0 |-> <<>>]
  <2>1. IsWalk(t, p, 0, at)
    BY DEF IsWalk
  <2>. QED
    BY <2>1
<1>2. ASSUME NEW m \in A, m < N
      PROVE  m + 1 \in A
  <2>. PICK at : IsWalk(t, p, m, at)
    OBVIOUS
  <2>. DEFINE on == [n \in 0 .. m + 1 |-> IF n <= m THEN at[n] ELSE Onward(t, at[m], p[n])]
  <2>1. ASSUME NEW n \in 0 .. m + 1
        PROVE  on[n] = IF n = 0 THEN <<>> ELSE Onward(t, on[n - 1], p[n])
    <3>1. CASE n = 0
      BY <3>1 DEF IsWalk
    <3>2. CASE n \in 1 .. m
      <4>1. on[n] = at[n] /\ on[n - 1] = at[n - 1]
        BY <3>2
      <4>. QED
        BY <3>2, <4>1 DEF IsWalk
    <3>3. CASE n = m + 1
      <4>1. on[n - 1] = at[m] /\ on[n] = Onward(t, at[m], p[n])
        BY <3>3
      <4>. QED
        BY <3>3, <4>1
    <3>. QED
      BY <3>1, <3>2, <3>3
  <2>2. IsWalk(t, p, m + 1, on)
    <3>. HIDE DEF on
    <3>1. on = [n \in 0 .. m + 1 |-> on[n]]
      BY DEF on
    <3>. QED
      BY <2>1, <3>1 DEF IsWalk
  <2>. QED
    BY <2>2, <1>2
<1>. HIDE DEF A
<1>3. N \in A
  BY <1>1, <1>2, Climb DEF A
<1>. QED
  BY <1>3 DEF A

(* Along two paths that begin alike *)
LEMMA WalksAgree ==
  ASSUME NEW t, NEW p, NEW q, NEW M \in Nat, NEW N \in Nat, M <= N,
         NEW f, NEW g, IsWalk(t, p, M, f), IsWalk(t, q, N, g),
         \A k \in 1 .. M : p[k] = q[k]
  PROVE  f[M] = g[M]
<1>. DEFINE A == {n \in 0 .. M : f[n] = g[n]}
<1>1. 0 \in A
  BY DEF IsWalk
<1>2. ASSUME NEW m \in A, m < M
      PROVE  m + 1 \in A
  BY <1>2 DEF IsWalk
<1>. HIDE DEF A
<1>3. M \in A
  BY <1>1, <1>2, Climb DEF A
<1>. QED
  BY <1>3 DEF A

LEMMA PhysicalWalks ==
  ASSUME NEW t, NEW p \in Seq(STRING)
  PROVE  \E at : IsWalk(t, p, Len(p), at) /\ Physical(t, p) = at[Len(p)]
<1>. DEFINE at == CHOOSE at : IsWalk(t, p, Len(p), at)
<1>1. IsWalk(t, p, Len(p), at)
  BY WalkExists
<1>2. Physical(t, p) = at[Len(p)]
  BY DEF Physical, IsWalk
<1>. QED
  BY <1>1, <1>2

LEMMA PhysicalEmpty ==
  ASSUME NEW t
  PROVE  Physical(t, <<>>) = <<>>
<1>. DEFINE none == <<>>
<1>0. none \in Seq(STRING) /\ Len(none) = 0
  OBVIOUS
<1>. HIDE DEF none
<1>1. PICK at : IsWalk(t, none, Len(none), at) /\ Physical(t, none) = at[Len(none)]
  BY <1>0, PhysicalWalks
<1>2. at[Len(none)] = <<>>
  BY <1>0, <1>1 DEF IsWalk
<1>. QED
  BY <1>1, <1>2 DEF none

LEMMA PhysicalAppend ==
  ASSUME NEW t, NEW p \in Seq(STRING), NEW name \in STRING
  PROVE  Physical(t, Append(p, name)) = Onward(t, Physical(t, p), name)
<1>. DEFINE q == Append(p, name)
<1>1. /\ q \in Seq(STRING)
      /\ Len(q) = Len(p) + 1 /\ Len(p) \in Nat
      /\ \A k \in 1 .. Len(p) : q[k] = p[k]
      /\ q[Len(q)] = name
  BY Appended
<1>. HIDE DEF q
<1>2. PICK f : IsWalk(t, p, Len(p), f) /\ Physical(t, p) = f[Len(p)]
  BY PhysicalWalks
<1>3. PICK g : IsWalk(t, q, Len(q), g) /\ Physical(t, q) = g[Len(q)]
  BY <1>1, PhysicalWalks
<1>4. f[Len(p)] = g[Len(p)]
  BY <1>1, <1>2, <1>3, WalksAgree
<1>5. Len(q) \in 0 .. Len(q) /\ Len(q) # 0 /\ Len(q) - 1 = Len(p)
  BY <1>1
<1>6. g[Len(q)] = Onward(t, g[Len(q) - 1], q[Len(q)])
  BY <1>5, <1>3 DEF IsWalk
<1>. QED
  BY <1>1, <1>2, <1>3, <1>4, <1>5, <1>6 DEF q
-----------------------------------------------------------------------------
(* Paths without links *)

LEMMA Beginning ==
  ASSUME NEW p \in Seq(STRING), NEW n \in 0 .. Len(p), NEW b, b = SubSeq(p, 1, n)
  PROVE  /\ b \in Seq(STRING)
         /\ Len(b) = n
         /\ \A k \in 1 .. n : b[k] = p[k]
         /\ n = Len(p) => b = p
<1>1. b \in Seq(STRING) /\ Len(b) = n
  BY SubSeqProperties
<1>2. \A k \in 1 .. n : b[k] = p[k]
  BY SubSeqProperties
<1>3. n = Len(p) => b = p
  BY ONLY <1>1, <1>2, p \in Seq(STRING), SeqEqual
<1>. QED
  BY ONLY <1>1, <1>2, <1>3

LEMMA NextBeginning ==
  ASSUME NEW p \in Seq(STRING), NEW n \in 0 .. Len(p), n < Len(p)
  PROVE  SubSeq(p, 1, n + 1) = Append(SubSeq(p, 1, n), p[n + 1]) /\ p[n + 1] \in STRING
<1>. DEFINE b == SubSeq(p, 1, n)
            c == SubSeq(p, 1, n + 1)
<1>1. n + 1 \in 0 .. Len(p) /\ p[n + 1] \in STRING
  BY ElementOfSeq
<1>2. b \in Seq(STRING) /\ Len(b) = n /\ \A k \in 1 .. n : b[k] = p[k]
  BY Beginning
<1>3. c \in Seq(STRING) /\ Len(c) = n + 1 /\ \A k \in 1 .. n + 1 : c[k] = p[k]
  BY <1>1, Beginning
<1>. HIDE DEF b, c
<1>. DEFINE a == Append(b, p[n + 1])
<1>4. /\ a \in Seq(STRING) /\ Len(a) = n + 1
      /\ \A k \in 1 .. n : a[k] = b[k]
      /\ a[Len(a)] = p[n + 1]
  BY <1>1, <1>2, Appended
<1>. HIDE DEF a
<1>5. \A k \in 1 .. n + 1 : a[k] = c[k]
  BY ONLY <1>2, <1>3, <1>4, n \in 0 .. Len(p)
<1>6. a = c
  BY ONLY <1>3, <1>4, <1>5, SeqEqual
<1>. QED
  BY <1>1, <1>6 DEF a, b, c

LEMMA FrontAndLast ==
  ASSUME NEW p \in Seq(STRING), p # <<>>
  PROVE  /\ Front(p) \in Seq(STRING) /\ Last(p) \in STRING
         /\ p = Append(Front(p), Last(p))
         /\ Len(p) \in Nat \ {0} /\ Front(p) = SubSeq(p, 1, Len(p) - 1)
         /\ Len(Front(p)) = Len(p) - 1 /\ Last(p) = p[Len(p)]
         /\ \A k \in 1 .. Len(p) - 1 : Front(p)[k] = p[k]
<1>1. Len(p) \in Nat \ {0}
  BY EmptySeq, LenProperties
<1>. DEFINE n == Len(p) - 1
<1>2. n \in 0 .. Len(p) /\ n < Len(p) /\ n + 1 = Len(p)
  BY <1>1
<1>. HIDE DEF n
<1>3. SubSeq(p, 1, n + 1) = Append(SubSeq(p, 1, n), p[n + 1]) /\ p[n + 1] \in STRING
  BY <1>2, NextBeginning
<1>4. SubSeq(p, 1, n + 1) = p
  BY <1>1, <1>2, Beginning
<1>5. /\ SubSeq(p, 1, n) \in Seq(STRING) /\ Len(SubSeq(p, 1, n)) = n
      /\ \A k \in 1 .. n : SubSeq(p, 1, n)[k] = p[k]
  BY <1>2, Beginning
<1>6. Front(p) = SubSeq(p, 1, n) /\ Last(p) = p[n + 1]
  BY <1>2 DEF Front, Last, n
<1>7. Len(p) - 1 = n
  BY DEF n
<1>. QED
  BY ONLY <1>1, <1>2, <1>3, <1>4, <1>5, <1>6, <1>7

LEMMA PrefixIsBeginning ==
  ASSUME NEW p \in Seq(STRING), NEW q \in Seq(STRING), IsUnder(q, p)
  PROVE  Len(p) \in 0 .. Len(q) /\ p = SubSeq(q, 1, Len(p))
<1>1. Len(p) <= Len(q) /\ \A k \in 1 .. Len(p) : p[k] = q[k]
  BY PrefixMeans
<1>2. Len(p) \in 0 .. Len(q)
  BY <1>1
<1>. DEFINE b == SubSeq(q, 1, Len(p))
<1>3. b \in Seq(STRING) /\ Len(b) = Len(p) /\ \A k \in 1 .. Len(p) : b[k] = q[k]
  BY <1>2, Beginning
<1>. HIDE DEF b
<1>4. p = b
  BY ONLY <1>1, <1>3, p \in Seq(STRING), SeqEqual
<1>. QED
  BY <1>2, <1>4 DEF b

(* The directories above anything in a tree are in the tree. *)
LEMMA AboveAreDirectories ==
  ASSUME NEW t, IsTree(t), NEW d \in t.dirs \union t.files \union DOMAIN t.links,
         NEW n \in 0 .. Len(d), n < Len(d)
  PROVE  SubSeq(d, 1, n) \in t.dirs
<1>1. d \in Seq(STRING)
  BY DEF IsTree, IsNormal
<1>. DEFINE N == Len(d) - 1 - n
            A == {m \in 0 .. N : SubSeq(d, 1, Len(d) - 1 - m) \in t.dirs}
<1>2. Len(d) \in Nat \ {0} /\ N \in Nat /\ d # <<>>
  BY <1>1, LenProperties, EmptySeq
<1>3. 0 \in A
  <2>1. Front(d) = SubSeq(d, 1, Len(d) - 1)
    BY DEF Front
  <2>2. Front(d) \in t.dirs
    BY <1>2 DEF IsTree
  <2>3. Len(d) - 1 - 0 = Len(d) - 1
    BY <1>2
  <2>. QED
    BY <1>2, <2>1, <2>2, <2>3
<1>4. ASSUME NEW m \in A, m < N
      PROVE  m + 1 \in A
  <2>. DEFINE k == Len(d) - 1 - m
              e == SubSeq(d, 1, k)
  <2>1. k \in 1 .. Len(d) /\ k - 1 = Len(d) - 1 - (m + 1) /\ k - 1 \in 0 .. Len(d) /\ k - 1 < Len(d)
    BY <1>2, <1>4
  <2>2. e \in t.dirs
    OBVIOUS
  <2>3. e \in Seq(STRING) /\ Len(e) = k /\ (\A j \in 1 .. k : e[j] = d[j])
    BY <1>1, <2>1, Beginning
  <2>. HIDE DEF k, e
  <2>4. e # <<>>
    BY <2>1, <2>3, EmptySeq
  <2>5. /\ Front(e) \in Seq(STRING) /\ Len(Front(e)) = k - 1
        /\ \A j \in 1 .. k - 1 : Front(e)[j] = e[j]
    BY <2>3, <2>4, FrontAndLast
  <2>6. /\ SubSeq(d, 1, k - 1) \in Seq(STRING) /\ Len(SubSeq(d, 1, k - 1)) = k - 1
        /\ \A j \in 1 .. k - 1 : SubSeq(d, 1, k - 1)[j] = d[j]
    BY <1>1, <2>1, Beginning
  <2>. DEFINE g == SubSeq(d, 1, k - 1)
              h == Front(e)
  <2>7. \A j \in 1 .. k - 1 : g[j] = h[j]
    BY <2>1, <2>3, <2>5, <2>6
  <2>8. g = h
    <3>. HIDE DEF g, h
    <3>1. g \in Seq(STRING) /\ Len(g) = k - 1 /\ h \in Seq(STRING) /\ Len(h) = k - 1
      BY <2>5, <2>6 DEF g, h
    <3>. QED
      BY ONLY <3>1, <2>7, SeqEqual
  <2>9. Front(e) \in t.dirs
    BY <2>2, <2>4 DEF IsTree
  <2>10. m + 1 \in 0 .. N
    BY <1>2, <1>4
  <2>. QED
    BY <2>1, <2>8, <2>9, <2>10
<1>. HIDE DEF A
<1>5. N \in A
  BY <1>2, <1>3, <1>4, Climb DEF A
<1>6. Len(d) - 1 - N = n
  BY <1>2
<1>. QED
  BY <1>5, <1>6 DEF A

LEMMA TreeIsLinkFree ==
  ASSUME NEW t, IsTree(t), NEW d \in t.dirs \union t.files
  PROVE  IsLinkFree(t, d)
<1>1. IsNormal(d) /\ d \in Seq(STRING)
  BY DEF IsTree, IsNormal
<1>2. ASSUME NEW p \in Followed(t), IsUnder(d, p)
      PROVE  FALSE
  <2>1. p \in DOMAIN t.links /\ p \in Seq(STRING)
    BY DEF Followed, IsTree, IsNormal
  <2>2. Len(p) \in 0 .. Len(d) /\ p = SubSeq(d, 1, Len(p))
    BY <1>1, <1>2, <2>1, PrefixIsBeginning
  <2>3. CASE Len(p) < Len(d)
    <3>1. p \in t.dirs
      BY <2>2, <2>3, AboveAreDirectories
    <3>. QED
      BY <2>1, <3>1 DEF IsTree
  <2>4. CASE Len(p) = Len(d)
    <3>1. p = d
      BY <1>1, <2>2, <2>4, Beginning
    <3>. QED
      BY <2>1, <3>1 DEF IsTree
  <2>. QED
    BY <1>1, <2>1, <2>2, <2>3, <2>4
<1>. QED
  BY <1>1, <1>2 DEF IsLinkFree

LEMMA BeginningIsLinkFree ==
  ASSUME NEW t, IsTree(t), NEW p, IsLinkFree(t, p), NEW n \in 0 .. Len(p)
  PROVE  IsLinkFree(t, SubSeq(p, 1, n))
<1>. DEFINE b == SubSeq(p, 1, n)
<1>1. p \in Seq(STRING) /\ IsNormal(p)
  BY DEF IsLinkFree, IsNormal
<1>2. b \in Seq(STRING) /\ Len(b) = n /\ \A k \in 1 .. n : b[k] = p[k]
  BY <1>1, Beginning
<1>. HIDE DEF b
<1>3. IsNormal(b)
  <2>1. \A k \in DOMAIN b : k \in 1 .. n /\ k \in DOMAIN p
    BY <1>1, <1>2
  <2>. QED
    BY <1>1, <1>2, <2>1 DEF IsNormal
<1>4. ASSUME NEW q \in Followed(t), IsUnder(b, q)
      PROVE  FALSE
  <2>1. q \in Seq(STRING)
    BY DEF Followed, IsTree, IsNormal
  <2>2. Len(q) <= n /\ \A k \in 1 .. Len(q) : q[k] = b[k]
    BY <1>2, <1>4, <2>1, PrefixMeans
  <2>3. Len(q) <= Len(p) /\ \A k \in 1 .. Len(q) : q[k] = p[k]
    BY <1>1, <1>2, <2>1, <2>2
  <2>. QED
    BY <1>1, <2>1, <2>3, PrefixMeans DEF IsLinkFree
<1>. QED
  BY <1>3, <1>4 DEF IsLinkFree, b

LEMMA ParentIsLinkFree ==
  ASSUME NEW t, IsTree(t), NEW p, IsLinkFree(t, p)
  PROVE  IsLinkFree(t, Parent(p))
<1>1. p \in Seq(STRING)
  BY DEF IsLinkFree, IsNormal
<1>2. CASE p = <<>>
  BY <1>2 DEF Parent
<1>3. CASE p # <<>>
  <2>1. Len(p) - 1 \in 0 .. Len(p) /\ Front(p) = SubSeq(p, 1, Len(p) - 1)
    BY <1>1, <1>3, FrontAndLast
  <2>2. IsLinkFree(t, Front(p))
    BY <2>1, BeginningIsLinkFree
  <2>. QED
    BY <1>3, <2>2 DEF Parent
<1>. QED
  BY <1>2, <1>3

LEMMA AppendedIsLinkFree ==
  ASSUME NEW t, IsTree(t), NEW p, IsLinkFree(t, p), NEW name \in STRING \ {".", ".."},
         Append(p, name) \notin Followed(t)
  PROVE  IsLinkFree(t, Append(p, name))
<1>. DEFINE q == Append(p, name)
<1>1. p \in Seq(STRING) /\ IsNormal(p) /\ \A l \in Followed(t) : ~IsUnder(p, l)
  BY DEF IsLinkFree, IsNormal
<1>2. /\ q \in Seq(STRING) /\ Len(q) = Len(p) + 1 /\ Len(p) \in Nat
      /\ \A k \in 1 .. Len(p) : q[k] = p[k]
      /\ q[Len(q)] = name
  BY <1>1, Appended
<1>3. q \notin Followed(t)
  OBVIOUS
<1>. HIDE DEF q
<1>4. IsNormal(q)
  <2>1. ASSUME NEW k \in DOMAIN q
        PROVE  q[k] \notin {".", ".."}
    <3>1. k \in DOMAIN p \/ k = Len(q)
      BY <1>1, <1>2
    <3>2. CASE k \in DOMAIN p
      <4>1. q[k] = p[k]
        BY <1>1, <1>2, <3>2
      <4>. QED
        BY <1>1, <3>2, <4>1 DEF IsNormal
    <3>3. CASE k = Len(q)
      BY <1>2, <3>3
    <3>. QED
      BY <3>1, <3>2, <3>3
  <2>. QED
    BY <1>2, <2>1 DEF IsNormal
<1>5. ASSUME NEW l \in Followed(t), IsUnder(q, l)
      PROVE  FALSE
  <2>1. l \in Seq(STRING)
    BY DEF Followed, IsTree, IsNormal
  <2>2. Len(l) <= Len(q) /\ \A k \in 1 .. Len(l) : l[k] = q[k]
    BY <1>2, <1>5, <2>1, PrefixMeans
  <2>3. CASE Len(l) <= Len(p)
    <3>1. \A k \in 1 .. Len(l) : l[k] = p[k]
      BY <1>2, <2>1, <2>2, <2>3
    <3>. QED
      BY <1>1, <2>1, <2>3, <3>1, PrefixMeans
  <2>4. CASE Len(l) = Len(q)
    <3>1. l = q
      BY ONLY <1>2, <2>1, <2>2, <2>4, SeqEqual
    <3>. QED
      BY <1>3, <3>1
  <2>5. Len(l) \in Nat
    BY <2>1
  <2>. QED
    BY <1>2, <2>2, <2>3, <2>4, <2>5
<1>. QED
  BY <1>4, <1>5 DEF IsLinkFree, q

LEMMA OnwardIsLinkFree ==
  ASSUME NEW t, IsTree(t), NEW at, IsLinkFree(t, at), NEW name \in STRING
  PROVE  IsLinkFree(t, Onward(t, at, name))
<1>1. CASE name = "."
  BY <1>1 DEF Onward
<1>2. CASE name = ".."
  BY <1>2, ParentIsLinkFree DEF Onward
<1>3. CASE name \notin {".", ".."} /\ Append(at, name) \in Followed(t)
  <2>1. t.links[Append(at, name)] \in t.dirs \union t.files
    BY <1>3 DEF IsTree
  <2>2. IsLinkFree(t, t.links[Append(at, name)])
    BY <2>1, TreeIsLinkFree
  <2>. QED
    BY <1>3, <2>2 DEF Onward
<1>4. CASE name \notin {".", ".."} /\ Append(at, name) \notin Followed(t)
  <2>1. IsLinkFree(t, Append(at, name))
    BY <1>4, AppendedIsLinkFree
  <2>. QED
    BY <1>4, <2>1 DEF Onward
<1>. QED
  BY <1>1, <1>2, <1>3, <1>4

(* A path that all links are replaced in has no links. *)
LEMMA PhysicalIsLinkFree ==
  ASSUME NEW t, IsTree(t), NEW p \in Seq(STRING)
  PROVE  IsLinkFree(t, Physical(t, p))
<1>. DEFINE A == {n \in 0 .. Len(p) : IsLinkFree(t, Physical(t, SubSeq(p, 1, n)))}
<1>1. Len(p) \in Nat
  OBVIOUS
<1>2. 0 \in A
  <2>1. SubSeq(p, 1, 0) = <<>>
    BY SubSeqEmpty
  <2>2. IsLinkFree(t, <<>>)
    BY TreeIsLinkFree DEF IsTree
  <2>3. IsLinkFree(t, Physical(t, SubSeq(p, 1, 0)))
    BY <2>1, <2>2, PhysicalEmpty
  <2>. QED
    BY <1>1, <2>3
<1>3. ASSUME NEW n \in A, n < Len(p)
      PROVE  n + 1 \in A
  <2>1. SubSeq(p, 1, n + 1) = Append(SubSeq(p, 1, n), p[n + 1]) /\ p[n + 1] \in STRING
    BY <1>3, NextBeginning
  <2>2. SubSeq(p, 1, n) \in Seq(STRING)
    BY Beginning
  <2>3. Physical(t, SubSeq(p, 1, n + 1)) = Onward(t, Physical(t, SubSeq(p, 1, n)), p[n + 1])
    BY <2>1, <2>2, PhysicalAppend
  <2>4. IsLinkFree(t, Physical(t, SubSeq(p, 1, n + 1)))
    BY <2>1, <2>3, OnwardIsLinkFree
  <2>5. n + 1 \in 0 .. Len(p)
    BY <1>1, <1>3
  <2>. QED
    BY <2>4, <2>5
<1>. HIDE DEF A
<1>4. Len(p) \in A
  BY <1>1, <1>2, <1>3, Climb DEF A
<1>5. SubSeq(p, 1, Len(p)) = p
  BY <1>1, Beginning
<1>. QED
  BY <1>4, <1>5 DEF A

(* A path without links stays what it is. *)
LEMMA PhysicalOfLinkFree ==
  ASSUME NEW t, IsTree(t), NEW p, IsLinkFree(t, p)
  PROVE  Physical(t, p) = p
<1>. DEFINE A == {n \in 0 .. Len(p) : Physical(t, SubSeq(p, 1, n)) = SubSeq(p, 1, n)}
<1>1. p \in Seq(STRING) /\ Len(p) \in Nat
  BY DEF IsLinkFree, IsNormal
<1>2. 0 \in A
  <2>1. SubSeq(p, 1, 0) = <<>>
    BY <1>1, SubSeqEmpty
  <2>2. Physical(t, SubSeq(p, 1, 0)) = SubSeq(p, 1, 0)
    BY <2>1, PhysicalEmpty
  <2>. QED
    BY <1>1, <2>2
<1>3. ASSUME NEW n \in A, n < Len(p)
      PROVE  n + 1 \in A
  <2>. DEFINE b == SubSeq(p, 1, n)
              c == SubSeq(p, 1, n + 1)
  <2>1. c = Append(b, p[n + 1]) /\ p[n + 1] \in STRING
    BY <1>1, <1>3, NextBeginning
  <2>2. b \in Seq(STRING)
    BY <1>1, Beginning
  <2>3. Physical(t, c) = Onward(t, b, p[n + 1])
    <3>1. Physical(t, b) = b
      OBVIOUS
    <3>. HIDE DEF b, c
    <3>. QED
      BY ONLY <2>1, <2>2, <3>1, PhysicalAppend
  <2>4. n + 1 \in 0 .. Len(p) /\ n + 1 \in DOMAIN p
    BY <1>1, <1>3
  <2>5. IsLinkFree(t, c)
    BY <2>4, BeginningIsLinkFree
  <2>6. c \in Seq(STRING)
    BY <2>5 DEF IsLinkFree, IsNormal
  <2>7. p[n + 1] \notin {".", ".."}
    BY <2>4 DEF IsLinkFree, IsNormal
  <2>8. c \notin Followed(t)
    <3>1. Len(c) <= Len(c)
      BY <2>6, LenProperties
    <3>2. IsUnder(c, c)
      BY <3>1 DEF IsUnder, IsPrefix
    <3>. QED
      BY <2>5, <3>2 DEF IsLinkFree
  <2>9. Onward(t, b, p[n + 1]) = c
    BY <2>1, <2>7, <2>8 DEF Onward
  <2>. QED
    BY <2>3, <2>4, <2>9
<1>. HIDE DEF A
<1>4. Len(p) \in A
  BY <1>1, <1>2, <1>3, Climb DEF A
<1>5. SubSeq(p, 1, Len(p)) = p
  BY <1>1, Beginning
<1>. QED
  BY <1>4, <1>5 DEF A
-----------------------------------------------------------------------------
(* Links that lead to themselves *)

IsLoop(t, l) == l \in DOMAIN t.links /\ t.links[l] = Looping

LEMMA NothingBelowALink ==
  ASSUME NEW t, IsTree(t), NEW l \in DOMAIN t.links,
         NEW d \in t.dirs \union t.files \union DOMAIN t.links, d # l
  PROVE  ~IsUnder(d, l)
<1>. SUFFICES ASSUME IsUnder(d, l) PROVE FALSE
  OBVIOUS
<1>1. l \in Seq(STRING) /\ d \in Seq(STRING)
  BY DEF IsTree, IsNormal
<1>2. Len(l) \in 0 .. Len(d) /\ l = SubSeq(d, 1, Len(l))
  BY <1>1, PrefixIsBeginning
<1>3. Len(l) # Len(d)
  BY <1>1, <1>2, Beginning
<1>4. Len(l) < Len(d)
  BY <1>1, <1>2, <1>3
<1>5. l \in t.dirs
  BY <1>2, <1>4, AboveAreDirectories
<1>. QED
  BY <1>5 DEF IsTree

LEMMA LoopIsKept ==
  ASSUME NEW t, IsTree(t), NEW p, IsNormal(p), NEW l, IsLoop(t, l),
         NEW n \in 0 .. Len(p), Physical(t, SubSeq(p, 1, n)) = l
  PROVE  IsUnder(Physical(t, p), l)
<1>. DEFINE N == Len(p) - n
            A == {m \in 0 .. N : IsUnder(Physical(t, SubSeq(p, 1, n + m)), l)}
<1>1. p \in Seq(STRING) /\ Len(p) \in Nat /\ N \in Nat /\ l \in DOMAIN t.links
  BY LenProperties DEF IsNormal, IsLoop
<1>2. l \in Seq(STRING) /\ Len(l) <= Len(l)
  BY <1>1, LenProperties DEF IsTree, IsNormal
<1>3. 0 \in A
  <2>1. IsUnder(l, l)
    BY <1>2 DEF IsUnder, IsPrefix
  <2>2. n + 0 = n
    OBVIOUS
  <2>. QED
    BY <1>1, <2>1, <2>2
<1>4. ASSUME NEW m \in A, m < N
      PROVE  m + 1 \in A
  <2>. DEFINE k == n + m
              at == Physical(t, SubSeq(p, 1, k))
              name == p[k + 1]
              next == Append(at, name)
  <2>1. k \in 0 .. Len(p) /\ k < Len(p) /\ k + 1 \in DOMAIN p /\ m + 1 \in 0 .. N
        /\ n + (m + 1) = k + 1
    BY <1>1, <1>4
  <2>2. SubSeq(p, 1, k + 1) = Append(SubSeq(p, 1, k), name) /\ name \in STRING
    BY <1>1, <2>1, NextBeginning
  <2>3. SubSeq(p, 1, k) \in Seq(STRING)
    BY <1>1, <2>1, Beginning
  <2>4. Physical(t, SubSeq(p, 1, k + 1)) = Onward(t, at, name)
    BY <2>2, <2>3, PhysicalAppend
  <2>5. IsUnder(at, l)
    OBVIOUS
  <2>6. at \in Seq(STRING)
    BY <2>3, PhysicalIsLinkFree DEF IsLinkFree, IsNormal
  <2>7. name \notin {".", ".."}
    BY <2>1 DEF IsNormal
  <2>8. /\ next \in Seq(STRING) /\ Len(next) = Len(at) + 1 /\ Len(at) \in Nat
        /\ \A j \in 1 .. Len(at) : next[j] = at[j]
    BY <2>2, <2>6, Appended
  <2>. HIDE DEF at, name, k, next
  <2>9. Len(l) <= Len(at) /\ \A j \in 1 .. Len(l) : l[j] = at[j]
    BY <1>2, <2>5, <2>6, PrefixMeans
  <2>10. Len(l) <= Len(next) /\ (\A j \in 1 .. Len(l) : l[j] = next[j]) /\ next # l
    BY <1>2, <2>8, <2>9
  <2>11. IsUnder(next, l)
    BY <1>2, <2>8, <2>10, PrefixMeans
  <2>12. next \notin Followed(t)
    <3>1. next \notin DOMAIN t.links
      BY <1>1, <2>10, <2>11, NothingBelowALink
    <3>. QED
      BY <3>1 DEF Followed
  <2>13. Onward(t, at, name) = next
    BY <2>7, <2>12 DEF Onward, next
  <2>. QED
    BY <2>1, <2>4, <2>11, <2>13
<1>. HIDE DEF A
<1>5. N \in A
  BY <1>1, <1>3, <1>4, Climb DEF A
<1>6. n + N = Len(p)
  BY <1>1
<1>7. SubSeq(p, 1, Len(p)) = p
  BY <1>1, Beginning
<1>. QED
  BY <1>5, <1>6, <1>7 DEF A

LEMMA LoopIsPassed ==
  ASSUME NEW t, IsTree(t), NEW p, IsNormal(p), NEW l, IsLoop(t, l),
         IsUnder(Physical(t, p), l)
  PROVE  \E n \in 0 .. Len(p) : Physical(t, SubSeq(p, 1, n)) = l
<1>. SUFFICES ASSUME \A n \in 0 .. Len(p) : Physical(t, SubSeq(p, 1, n)) # l
              PROVE  FALSE
  OBVIOUS
<1>. DEFINE A == {m \in 0 .. Len(p) : ~IsUnder(Physical(t, SubSeq(p, 1, m)), l)}
<1>1. p \in Seq(STRING) /\ Len(p) \in Nat /\ l \in DOMAIN t.links
  BY LenProperties DEF IsNormal, IsLoop
<1>2. l \in Seq(STRING) /\ l # <<>>
  BY <1>1 DEF IsTree, IsNormal
<1>3. 0 \in A
  <2>1. SubSeq(p, 1, 0) = <<>>
    BY <1>1, SubSeqEmpty
  <2>2. ~IsUnder(<<>>, l)
    <3>1. <<>> \in t.dirs /\ <<>> # l
      BY <1>1 DEF IsTree
    <3>. QED
      BY <1>1, <3>1, NothingBelowALink
  <2>3. ~IsUnder(Physical(t, SubSeq(p, 1, 0)), l)
    BY <2>1, <2>2, PhysicalEmpty
  <2>. QED
    BY <1>1, <2>3
<1>4. ASSUME NEW m \in A, m < Len(p)
      PROVE  m + 1 \in A
  <2>. DEFINE at == Physical(t, SubSeq(p, 1, m))
              name == p[m + 1]
              next == Append(at, name)
  <2>1. m \in 0 .. Len(p) /\ m + 1 \in DOMAIN p /\ m + 1 \in 0 .. Len(p) /\ ~IsUnder(at, l)
    BY <1>1, <1>4
  <2>2. SubSeq(p, 1, m + 1) = Append(SubSeq(p, 1, m), name) /\ name \in STRING
    BY <1>1, <1>4, <2>1, NextBeginning
  <2>3. SubSeq(p, 1, m) \in Seq(STRING)
    BY <1>1, <2>1, Beginning
  <2>4. Physical(t, SubSeq(p, 1, m + 1)) = Onward(t, at, name)
    BY <2>2, <2>3, PhysicalAppend
  <2>5. Onward(t, at, name) # l
    BY <2>1, <2>4
  <2>6. at \in Seq(STRING)
    BY <2>3, PhysicalIsLinkFree DEF IsLinkFree, IsNormal
  <2>7. name \notin {".", ".."}
    BY <2>1 DEF IsNormal
  <2>8. /\ next \in Seq(STRING) /\ Len(next) = Len(at) + 1 /\ Len(at) \in Nat
        /\ \A j \in 1 .. Len(at) : next[j] = at[j]
    BY <2>2, <2>6, Appended
  <2>. HIDE DEF at, name
  <2>9. CASE next \in Followed(t)
    <3>1. t.links[next] \in t.dirs \union t.files
      BY <2>9 DEF IsTree
    <3>2. t.links[next] # l
      BY <1>1, <3>1 DEF IsTree
    <3>3. ~IsUnder(t.links[next], l)
      BY <1>1, <3>1, <3>2, NothingBelowALink
    <3>4. Onward(t, at, name) = t.links[next]
      BY <2>7, <2>9 DEF Onward
    <3>. QED
      BY <2>1, <2>4, <3>3, <3>4
  <2>10. CASE next \notin Followed(t)
    <3>1. Onward(t, at, name) = next
      BY <2>7, <2>10 DEF Onward
    <3>2. ASSUME IsUnder(next, l) PROVE FALSE
      <4>. HIDE DEF next
      <4>1. Len(l) <= Len(next) /\ \A j \in 1 .. Len(l) : l[j] = next[j]
        BY <1>2, <2>8, <3>2, PrefixMeans
      <4>2. CASE Len(l) = Len(next)
        <5>1. l = next
          BY ONLY <1>2, <2>8, <4>1, <4>2, SeqEqual
        <5>. QED
          BY <2>5, <3>1, <5>1
      <4>3. CASE Len(l) <= Len(at)
        <5>1. \A j \in 1 .. Len(l) : l[j] = at[j]
          BY <1>2, <2>8, <4>1, <4>3
        <5>. QED
          BY <1>2, <2>1, <2>6, <4>3, <5>1, PrefixMeans
      <4>4. Len(l) \in Nat
        BY <1>2
      <4>. QED
        BY <2>8, <4>1, <4>2, <4>3, <4>4
    <3>. QED
      BY <2>1, <2>4, <3>1, <3>2
  <2>. QED
    BY <2>9, <2>10
<1>. HIDE DEF A
<1>5. Len(p) \in A
  BY <1>1, <1>3, <1>4, Climb DEF A
<1>6. SubSeq(p, 1, Len(p)) = p
  BY <1>1, Beginning
<1>. QED
  BY <1>5, <1>6 DEF A

(* Of two paths to the same place either both run into a loop or none does. *)
LEMMA ResolvableTogether ==
  ASSUME NEW t, IsTree(t), NEW p, IsNormal(p), NEW q, IsNormal(q),
         Physical(t, p) = Physical(t, q), ~Resolvable(t, p)
  PROVE  ~Resolvable(t, q)
<1>1. PICK n \in 0 .. Len(p) : IsLoop(t, Physical(t, SubSeq(p, 1, n)))
  BY DEF Resolvable, Prefixes, IsLoop
<1>. DEFINE l == Physical(t, SubSeq(p, 1, n))
<1>2. IsUnder(Physical(t, q), l)
  BY <1>1, LoopIsKept
<1>3. PICK m \in 0 .. Len(q) : Physical(t, SubSeq(q, 1, m)) = l
  BY <1>1, <1>2, LoopIsPassed
<1>4. SubSeq(q, 1, m) \in Prefixes(q)
  BY DEF Prefixes
<1>. QED
  BY <1>1, <1>3, <1>4 DEF Resolvable, IsLoop
-----------------------------------------------------------------------------
(* The options *)

RootsRead == \A o \in Roots : o \in DOMAIN config /\ (Given(o) => IsNormal(config[o]))

Verdict == MissingRoots \union InputOutsideProject \union OutputIsInput

OptionsInv ==
  /\ IsTree(tree)
  /\ RootsRead
  /\ parsed => Verdict \subseteq errors

LEMMA RootOptions ==
  ASSUME NEW o \in Roots
  PROVE  /\ o \in IsKnownOption \ {"--config", "--help"}
         /\ o \in SinglePaths /\ o # "--header-extension"
         /\ o \notin IsRepeatableOption /\ o \notin IsPresenceFlagOption
         /\ o \notin Switches /\ o \notin DOMAIN LegalWords
         /\ o \notin {"--path-map", "--include-dir", "--header-filter", "--class-filter", "--jobs",
                    "--validation-timeout-ms", "--exclude", "--define", "--extra-arg"}
         /\ o \notin {"--emit-all-mocks", "--emit-manifest", "--emit-cmake-fragment",
                    "--best-effort", "--dry-run", "--overwrite", "--strict",
                    "--validation-keep-artifacts", "--fake-special-members",
                    "--fake-static-data", "--interface-mock"}
         /\ o \notin {"--std", "--access", "--include-struct", "--registry-mode", "--fallback-policy",
                    "--mock-namespace-mode", "--collision-policy", "--format-style", "--validate"}
<1>1. /\ o \in SinglePaths /\ o # "--header-extension"
      /\ o \notin IsRepeatableOption /\ o \notin IsPresenceFlagOption
      /\ o \notin Switches
  BY DEF Roots, SinglePaths, IsRepeatableOption, IsPresenceFlagOption, Switches
<1>2. o \in IsKnownOption \ {"--config", "--help"}
  BY <1>1 DEF Roots, IsKnownOption
<1>3. o \notin DOMAIN LegalWords
  BY DEF Roots, LegalWords
<1>. QED
  BY <1>1, <1>2, <1>3 DEF Roots

LEMMA OptionsInit == Init => OptionsInv
<1>. SUFFICES ASSUME Init PROVE OptionsInv
  OBVIOUS
<1>1. IsTree(tree)
  BY TreesGiven DEF Init
<1>2. RootsRead
  <2>1. config = DefaultConfig
    BY DEF Init, ConfigInit
  <2>2. ASSUME NEW o \in Roots
        PROVE  o \in DOMAIN DefaultConfig /\ DefaultConfig[o] = None
    <3>1. /\ o \in IsKnownOption \ {"--config", "--help"}
          /\ o # "--header-extension" /\ o \notin IsRepeatableOption \ {"--header-extension"}
          /\ o \in SinglePaths \union {"--header-filter", "--class-filter"}
          /\ o \notin {"--emit-all-mocks", "--emit-manifest", "--emit-cmake-fragment",
                     "--best-effort"}
          /\ o \notin {"--dry-run", "--overwrite", "--strict", "--validation-keep-artifacts",
                     "--fake-special-members", "--fake-static-data", "--interface-mock"}
          /\ o # "--std" /\ o # "--access" /\ o # "--include-struct" /\ o # "--registry-mode"
          /\ o # "--fallback-policy" /\ o # "--mock-namespace-mode"
          /\ o # "--collision-policy" /\ o # "--format-style" /\ o # "--validate"
          /\ o # "--validation-timeout-ms" /\ o # "--jobs"
      BY RootOptions
    <3>2. o \in DOMAIN DefaultConfig
      BY <3>1 DEF DefaultConfig
    <3>3. DefaultConfig[o] = None
      BY ONLY <3>1 DEF DefaultConfig
    <3>. QED
      BY <3>2, <3>3
  <2>. QED
    BY <2>1, <2>2 DEF RootsRead, Given
<1>3. ~parsed
  BY DEF Init, ConfigInit
<1>. QED
  BY <1>1, <1>2, <1>3 DEF OptionsInv

LEMMA OptionsStep ==
  ASSUME OptionsInv, [Next]_vars
  PROVE  OptionsInv'
<1>. USE DEF OptionsInv
<1>0. tree' = tree
  BY DEF Next, vars, ReadOptions, ParseConfig, ExitAfterOptions, BeginScan, SearchHeaders,
         ExitAfterScan, BeginResolve, ResolveClasses, EndResolve, Terminated
<1>1. IsTree(tree')
  BY <1>0
<1>2. ASSUME UNCHANGED configVars
      PROVE  OptionsInv'
  <2>. USE <1>2 DEF configVars
  <2>1. RootsRead'
    BY DEF RootsRead, Given
  <2>2. Verdict' = Verdict
    BY <1>0 DEF Verdict, MissingRoots, InputOutsideProject, OutputIsInput, Unresolved, Given
  <2>. QED
    BY <1>1, <2>1, <2>2
<1>3. ASSUME ReadOptions, FinishOptions
      PROVE  OptionsInv'
  <2>. USE <1>3 DEF FinishOptions
  <2>1. RootsRead'
    BY DEF RootsRead, Given
  <2>2. Verdict' = Verdict
    BY <1>0 DEF Verdict, MissingRoots, InputOutsideProject, OutputIsInput, Unresolved, Given
  <2>3. Verdict \subseteq errors'
    BY DEF Verdict
  <2>. QED
    BY <1>1, <2>1, <2>2, <2>3
<1>4. ASSUME ~parsed', config' = config
      PROVE  OptionsInv'
  BY <1>1, <1>4 DEF RootsRead, Given
<1>5. ASSUME ReadOptions, Flag
      PROVE  OptionsInv'
  <2>1. ~parsed' /\ Option \in IsPresenceFlagOption
    BY <1>5 DEF Flag, ReadingFlag, ReadingOption, Reading
  <2>2. ASSUME NEW o \in Roots
        PROVE  o \in DOMAIN config' /\ config'[o] = config[o]
    <3>1. o # Option /\ o # "--strict" /\ o # "--best-effort" /\ o \in DOMAIN config
      BY <2>1, RootOptions DEF Roots, RootsRead
    <3>2. \/ config' = config
          \/ config' = [config EXCEPT !["--strict"] = TRUE, !["--best-effort"] = FALSE]
          \/ config' = [config EXCEPT !["--best-effort"] = TRUE, !["--strict"] = FALSE]
          \/ config' = [config EXCEPT ![Option] = TRUE]
      BY <1>5 DEF Flag
    <3>. QED
      BY <3>1, <3>2
  <2>. QED
    BY <1>1, <2>1, <2>2 DEF RootsRead, Given
<1>6. ASSUME ReadOptions, TakeValue
      PROVE  OptionsInv'
  <2>1. ~parsed' /\ config' = [config EXCEPT ![Option] = Applied(Option, Value)]
        /\ IsLegal(Option, Value)
    BY <1>6 DEF TakeValue, ReadingValue, ReadingValueOption, ReadingOption, Reading
  <2>2. ASSUME NEW o \in Roots
        PROVE  o \in DOMAIN config' /\ ((config'[o] # None) => IsNormal(config'[o]))
    <3>1. o \in DOMAIN config /\ (config[o] # None => IsNormal(config[o]))
      BY DEF RootsRead, Given
    <3>2. CASE o # Option
      BY <2>1, <3>1, <3>2
    <3>3. CASE o = Option
      <4>3. Value \in DOMAIN PathNamed
        BY <2>1, <3>3, RootOptions DEF IsLegal
      <4>4. Applied(o, Value) = PathNamed[Value]
        <5>1. Applied(o, Value) = Meaning(o, Value)
          BY RootOptions DEF Applied
        <5>2. Meaning(o, Value) = PathNamed[Value]
          BY RootOptions DEF Meaning
        <5>. QED
          BY <5>1, <5>2
      <4>5. IsNormal(Applied(o, Value))
        BY <4>3, <4>4, PathsGiven
      <4>6. config'[o] = Applied(o, Value) /\ o \in DOMAIN config'
        BY <2>1, <3>1, <3>3
      <4>. QED
        BY <4>5, <4>6
    <3>. QED
      BY <3>2, <3>3
  <2>. QED
    BY <1>1, <2>1, <2>2 DEF RootsRead, Given
<1>7. ASSUME ReadOptions
      PROVE  OptionsInv'
  <2>1. CASE \/ Separator \/ UnexpectedArgument \/ UnknownOption
             \/ FlagWithValue \/ DuplicateFlag
             \/ MissingValue \/ DuplicateValue \/ DeferredValue \/ InvalidValue
    <3>1. ~parsed' /\ config' = config
      BY <2>1 DEF Separator, UnexpectedArgument, UnknownOption, FlagWithValue, DuplicateFlag,
                  MissingValue, DuplicateValue, DeferredValue, InvalidValue, Reading,
                  ReadingOption, ReadingFlag, ReadingValueOption, ReadingValue
    <3>. QED
      BY <1>4, <3>1
  <2>. QED
    BY <1>3, <1>5, <1>6, <1>7, <2>1 DEF ReadOptions, ParseConfig
<1>8. ASSUME ~ReadOptions
      PROVE  OptionsInv'
  <2>1. UNCHANGED configVars
    BY <1>8 DEF Next, vars, ExitAfterOptions, BeginScan, SearchHeaders,
                ExitAfterScan, BeginResolve, ResolveClasses, EndResolve, Terminated
  <2>. QED
    BY <1>2, <2>1
<1>. QED
  BY <1>7, <1>8

(* The configuration that goes on from ParseConfig has the roots that the  *)
(* command line names, which passed the checks made of them there.         *)
THEOREM OptionsInvariance == Spec => []OptionsInv
<1>1. OptionsInv /\ [Next]_vars => OptionsInv'
  BY OptionsStep
<1>. QED
  BY OptionsInit, <1>1, PTL DEF Spec

LEMMA AcceptedRoots ==
  ASSUME OptionsInv, HasConfig, errors = {}
  PROVE  /\ \A o \in Roots : IsNormal(config[o])
         /\ InputOutsideProject = {}
         /\ IsUnder(Physical(tree, config["--input-root"]), Physical(tree, config["--project-root"]))
<1>1. \A o \in Roots : Given(o) /\ IsNormal(config[o])
  BY DEF OptionsInv, RootsRead, HasConfig
<1>2. InputOutsideProject = {}
  BY DEF OptionsInv, Verdict, HasConfig
<1>3. Given("--input-root") /\ Given("--project-root")
  BY <1>1 DEF Roots
<1>. QED
  BY <1>1, <1>2, <1>3 DEF InputOutsideProject

LEMMA ArtifactsElsewhere ==
  ASSUME OptionsInv
  PROVE  ArtifactsNeverInInputRoot
<1>. DEFINE input == config["--input-root"]
            output == config["--output-dir"]
<1>1. ASSUME parsed, CanWriteConfigErrorArtifacts \/ (HasConfig /\ errors = {}),
             Physical(tree, output) = Physical(tree, input)
      PROVE  FALSE
  <2>1. Given("--input-root") /\ Given("--output-dir") /\ IsNormal(input) /\ IsNormal(output)
    BY <1>1 DEF OptionsInv, RootsRead, CanWriteConfigErrorArtifacts, HasConfig, Roots
  <2>2. Invalid("--output-dir") \notin errors
    BY <1>1 DEF CanWriteConfigErrorArtifacts, Invalid
  <2>3. Invalid("--output-dir") \notin OutputIsInput
    BY <1>1, <2>2 DEF OptionsInv, Verdict
  <2>. DEFINE unresolved == Unresolved({"--input-root", "--output-dir"})
  <2>4. CASE ~Resolvable(tree, input) \/ ~Resolvable(tree, output)
    <3>1. ~Resolvable(tree, output)
      BY <1>1, <2>1, <2>4, ResolvableTogether DEF OptionsInv
    <3>2. Invalid("--output-dir") \in unresolved
      BY <3>1 DEF Unresolved
    <3>. HIDE DEF unresolved
    <3>. QED
      BY <2>1, <2>3, <3>2 DEF OutputIsInput, unresolved
  <2>5. CASE Resolvable(tree, input) /\ Resolvable(tree, output)
    <3>1. unresolved = {}
      BY <2>5 DEF Unresolved
    <3>. HIDE DEF unresolved
    <3>. QED
      BY <1>1, <2>1, <2>3, <3>1 DEF OutputIsInput, unresolved
  <2>. QED
    BY <2>4, <2>5
<1>2. HasConfig /\ errors = {} => IsUnder(Physical(tree, input), Physical(tree, config["--project-root"]))
  BY AcceptedRoots
<1>. QED
  BY <1>1, <1>2 DEF ArtifactsNeverInInputRoot

(* ArtifactsNeverInInputRoot: ParseConfig lets no run, and no report of a  *)
(* bad command line, write into the directory of the product's headers,    *)
(* through whatever links the two were given.                              *)
THEOREM WritesElsewhere == Spec => []ArtifactsNeverInInputRoot
<1>1. OptionsInv => ArtifactsNeverInInputRoot
  BY ArtifactsElsewhere
<1>. QED
  BY OptionsInvariance, <1>1, PTL
-----------------------------------------------------------------------------
(* The words of the command line *)

IsMarking(given, values) ==
  values = [n \in 0 .. Len(given) |->
              IF n < 2 THEN {}
              ELSE IF n - 1 \notin values[n - 1] /\ AsksForValue(given[n - 1])
                     THEN values[n - 1] \union {n}
                     ELSE values[n - 1]]

LEMMA MarkingExists ==
  ASSUME NEW given, Len(given) \in Nat
  PROVE  \E values : IsMarking(given, values)
<1>. DEFINE N == Len(given)
            S == SUBSET (1 .. N)
            Next1(n, marked) ==
              IF n < 2 THEN {}
              ELSE IF n - 1 \notin marked /\ AsksForValue(given[n - 1]) THEN marked \union {n}
              ELSE marked
            step == [n \in 1 .. N |-> [marked \in S |-> Next1(n, marked)]]
<1>0. N \in Nat
  OBVIOUS
<1>1. AreSteps(N, S, step)
  <2>1. \A n \in 1 .. N, marked \in S : Next1(n, marked) \in S
    OBVIOUS
  <2>. HIDE DEF Next1, S
  <2>. QED
    BY <2>1 DEF AreSteps
<1>2. PICK at : Follows(N, S, {}, step, at)
  <2>1. {} \in S
    OBVIOUS
  <2>. HIDE DEF step, S, N
  <2>. QED
    BY ONLY <1>0, <1>1, <2>1, StepsExist
<1>3. \A n \in 1 .. N : at[n] = Next1(n, at[n - 1])
  <2>1. \A n \in 1 .. N : n - 1 \in 0 .. N
    OBVIOUS
  <2>. HIDE DEF Next1, S, N
  <2>. QED
    BY <1>2, <2>1 DEF Follows
<1>4. \A n \in 0 .. N : at[n] = Next1(n, at[n - 1])
  <2>1. Next1(0, at[0 - 1]) = {}
    OBVIOUS
  <2>2. \A n \in 0 .. N : n = 0 \/ n \in 1 .. N
    OBVIOUS
  <2>. HIDE DEF Next1
  <2>. QED
    BY <1>2, <1>3, <2>1, <2>2 DEF Follows
<1>5. at = [n \in 0 .. N |-> at[n]]
  BY <1>2 DEF Follows
<1>6. IsMarking(given, at)
  BY <1>4, <1>5 DEF IsMarking
<1>. QED
  BY <1>6

LEMMA ValuesMean ==
  ASSUME NEW given, IsCommandLine(given)
  PROVE  /\ ValuesOf(given) \subseteq 1 .. Len(given)
         /\ \A k \in 1 .. Len(given) :
              k \in ValuesOf(given) <=>
                k > 1 /\ k - 1 \notin ValuesOf(given) /\ AsksForValue(given[k - 1])
<1>. DEFINE N == Len(given)
            at == CHOOSE values : IsMarking(given, values)
            Marks(n) == /\ at[n] \subseteq 1 .. n
                        /\ \A k \in 1 .. n :
                             k \in at[n] <=>
                               k > 1 /\ k - 1 \notin at[n] /\ AsksForValue(given[k - 1])
            A == {n \in 0 .. N : Marks(n)}
<1>1. N \in Nat
  BY DEF IsCommandLine
<1>2. IsMarking(given, at)
  BY <1>1, MarkingExists
<1>3. ValuesOf(given) = at[N]
  BY DEF ValuesOf, IsMarking
<1>. HIDE DEF at, N
<1>4. 0 \in A
  BY <1>1, <1>2 DEF IsMarking, N
<1>5. ASSUME NEW n \in A, n < N
      PROVE  n + 1 \in A
  <2>1. n \in 0 .. N /\ n + 1 \in 0 .. N /\ n \in Nat /\ (n + 1) - 1 = n
    BY <1>1, <1>5
  <2>2. at[n + 1] = IF n + 1 < 2 THEN {}
                    ELSE IF n \notin at[n] /\ AsksForValue(given[n]) THEN at[n] \union {n + 1}
                    ELSE at[n]
    BY <1>2, <2>1 DEF IsMarking, N
  <2>3. Marks(n)
    OBVIOUS
  <2>. HIDE DEF A
  <2>4. at[n] \subseteq 1 .. n /\ n + 1 \notin at[n]
    BY <2>1, <2>3
  <2>5. \A k \in 1 .. n : (k \in at[n + 1] <=> k \in at[n])
    BY <2>1, <2>2, <2>4
  <2>6. n + 1 \in at[n + 1] <=> n + 1 > 1 /\ n \notin at[n] /\ AsksForValue(given[n])
    BY <2>1, <2>2, <2>4
  <2>7. n \in at[n + 1] <=> n \in at[n]
    BY <2>1, <2>2, <2>4
  <2>8. \A k \in 1 .. n : k > 1 => k - 1 \in 1 .. n
    BY <2>1
  <2>9. Marks(n + 1)
    <3>1. at[n + 1] \subseteq 1 .. n + 1
      BY <2>1, <2>2, <2>4
    <3>2. ASSUME NEW k \in 1 .. n + 1
          PROVE  k \in at[n + 1] <=>
                   k > 1 /\ k - 1 \notin at[n + 1] /\ AsksForValue(given[k - 1])
      <4>1. CASE k = n + 1
        BY <2>1, <2>6, <2>7, <4>1
      <4>2. CASE k \in 1 .. n
        BY <2>3, <2>5, <2>8, <4>2
      <4>. QED
        BY <2>1, <4>1, <4>2
    <3>. QED
      BY <3>1, <3>2
  <2>. QED
    BY <2>1, <2>9 DEF A
<1>. HIDE DEF A, Marks
<1>6. N \in A
  BY <1>1, <1>4, <1>5, Climb DEF A
<1>. QED
  BY <1>3, <1>6 DEF A, Marks, N

IsListing(given, o, places, list) ==
  list = [n \in 0 .. Len(given) |->
            IF n = 0 THEN <<>>
            ELSE IF n \in places THEN Append(list[n - 1], Meaning(o, TextAt(given, n)))
            ELSE list[n - 1]]

LEMMA ListingExists ==
  ASSUME NEW given, Len(given) \in Nat, NEW o, NEW places
  PROVE  \E list : IsListing(given, o, places, list)
<1>. DEFINE N == Len(given)
            Means(n) == Meaning(o, TextAt(given, n))
            M == {Means(n) : n \in 1 .. N}
            S == Seq(M)
            Next1(n, list) == IF n \in places THEN Append(list, Means(n)) ELSE list
            step == [n \in 1 .. N |-> [list \in S |-> Next1(n, list)]]
<1>0. N \in Nat
  OBVIOUS
<1>1. AreSteps(N, S, step)
  <2>1. \A n \in 1 .. N, list \in S : Next1(n, list) \in S
    <3>1. \A n \in 1 .. N : Means(n) \in M
      OBVIOUS
    <3>. HIDE DEF Means, M
    <3>. QED
      BY <3>1
  <2>. HIDE DEF Next1, S
  <2>. QED
    BY <2>1 DEF AreSteps
<1>2. PICK at : Follows(N, S, <<>>, step, at)
  <2>1. <<>> \in S
    OBVIOUS
  <2>. HIDE DEF step, S, N
  <2>. QED
    BY ONLY <1>0, <1>1, <2>1, StepsExist
<1>3. \A n \in 1 .. N : at[n] = Next1(n, at[n - 1])
  <2>1. \A n \in 1 .. N : n - 1 \in 0 .. N
    OBVIOUS
  <2>. HIDE DEF Next1, S, N
  <2>. QED
    BY <1>2, <2>1 DEF Follows
<1>4. \A n \in 0 .. N : at[n] = IF n = 0 THEN <<>> ELSE Next1(n, at[n - 1])
  <2>2. \A n \in 0 .. N : n = 0 \/ n \in 1 .. N
    OBVIOUS
  <2>. HIDE DEF Next1
  <2>. QED
    BY <1>2, <1>3, <2>2 DEF Follows
<1>5. at = [n \in 0 .. N |-> at[n]]
  BY <1>2 DEF Follows
<1>6. IsListing(given, o, places, at)
  BY <1>4, <1>5 DEF IsListing
<1>. QED
  BY <1>6

LEMMA MeaningsMean ==
  ASSUME NEW given, Len(given) \in Nat, NEW o, NEW places
  PROVE  LET list == Meanings(given, o, places)
         IN /\ list[0] = <<>>
            /\ \A n \in 1 .. Len(given) :
                 list[n] = IF n \in places THEN Append(list[n - 1], Meaning(o, TextAt(given, n)))
                           ELSE list[n - 1]
<1>. DEFINE list == CHOOSE list : IsListing(given, o, places, list)
<1>1. IsListing(given, o, places, list)
  BY ListingExists
<1>2. Meanings(given, o, places) = list
  BY DEF Meanings, IsListing
<1>. HIDE DEF list
<1>3. \A n \in 0 .. Len(given) :
        list[n] = IF n = 0 THEN <<>>
                  ELSE IF n \in places THEN Append(list[n - 1], Meaning(o, TextAt(given, n)))
                  ELSE list[n - 1]
  BY <1>1 DEF IsListing
<1>. QED
  BY <1>2, <1>3

(* The argument at i, not a value, is read, and with it its value if it    *)
(* has one: next is where the reader goes on.                              *)
Passes(given, i, next) ==
  /\ IsCommandLine(given)
  /\ i \in 1 .. Len(given) /\ i \notin ValuesOf(given)
  /\ \/ next = i + 1
     \/ next = i + 2 /\ i + 1 \in 1 .. Len(given) /\ AsksForValue(given[i])

Before(given, o, next) == {k \in PlacesOf(given, o) : k < next}

LEMMA PlacesPassed ==
  ASSUME NEW given, NEW i, NEW next, Passes(given, i, next), NEW o
  PROVE  /\ i \in PlacesOf(given, o) <=> given[i][1] = o
         /\ i \notin Before(given, o, i)
         /\ Before(given, o, next) =
              Before(given, o, i) \union {k \in {i} : given[i][1] = o}
<1>1. /\ Len(given) \in Nat /\ DOMAIN given = 1 .. Len(given)
      /\ i \in 1 .. Len(given) /\ i \notin ValuesOf(given)
  BY DEF Passes, IsCommandLine
<1>2. PlacesOf(given, o) \subseteq 1 .. Len(given)
  BY <1>1 DEF PlacesOf
<1>3. i \in PlacesOf(given, o) <=> given[i][1] = o
  BY <1>1 DEF PlacesOf
<1>4. next = i + 1 \/ (next = i + 2 /\ i + 1 \notin PlacesOf(given, o))
  <2>1. CASE next = i + 1
    BY <2>1
  <2>2. CASE next = i + 2 /\ i + 1 \in 1 .. Len(given) /\ AsksForValue(given[i])
    <3>1. i + 1 \in ValuesOf(given)
      <4>1. i + 1 > 1 /\ (i + 1) - 1 = i
        BY <1>1
      <4>. QED
        BY <1>1, <2>2, <4>1, ValuesMean DEF Passes
    <3>. QED
      BY <2>2, <3>1 DEF PlacesOf
  <2>. QED
    BY <2>1, <2>2 DEF Passes
<1>5. \A k \in PlacesOf(given, o) : k < next <=> k < i \/ k = i
  <2>. SUFFICES ASSUME NEW k \in PlacesOf(given, o)
                PROVE  k < next <=> k < i \/ k = i
    OBVIOUS
  <2>1. k \in Nat /\ i \in Nat
    BY <1>1, <1>2
  <2>2. next = i + 2 => k # i + 1
    BY <1>1, <1>4
  <2>. QED
    BY <1>4, <2>1, <2>2
<1>6. i \notin Before(given, o, i)
  BY <1>1 DEF Before
<1>7. Before(given, o, next) = Before(given, o, i) \union {k \in {i} : given[i][1] = o}
  BY <1>3, <1>5 DEF Before
<1>. QED
  BY <1>3, <1>6, <1>7

LEMMA MeaningsPassed ==
  ASSUME NEW given, NEW i, NEW next, Passes(given, i, next), NEW o,
         NEW places, places \subseteq PlacesOf(given, o)
  PROVE  LET list == Meanings(given, o, places)
         IN list[next - 1] = IF i \in places THEN Append(list[i - 1], Meaning(o, TextAt(given, i)))
                             ELSE list[i - 1]
<1>. DEFINE list == Meanings(given, o, places)
<1>1. Len(given) \in Nat /\ i \in 1 .. Len(given) /\ i \notin ValuesOf(given)
  BY DEF Passes, IsCommandLine
<1>2. \A n \in 1 .. Len(given) :
        list[n] = IF n \in places THEN Append(list[n - 1], Meaning(o, TextAt(given, n)))
                  ELSE list[n - 1]
  BY <1>1, MeaningsMean
<1>. HIDE DEF list
<1>3. CASE next = i + 1
  <2>1. next - 1 = i
    BY <1>1, <1>3
  <2>. QED
    BY <1>1, <1>2, <2>1 DEF list
<1>4. CASE next = i + 2 /\ i + 1 \in 1 .. Len(given) /\ AsksForValue(given[i])
  <2>1. next - 1 = i + 1 /\ i + 1 > 1 /\ (i + 1) - 1 = i
    BY <1>1, <1>4
  <2>2. i + 1 \in ValuesOf(given)
    BY <1>1, <1>4, <2>1, ValuesMean DEF Passes
  <2>3. i + 1 \notin places
    BY <2>2 DEF PlacesOf
  <2>4. list[i + 1] = list[i]
    BY <1>2, <1>4, <2>1, <2>3
  <2>. QED
    BY <1>1, <1>2, <2>1, <2>4 DEF list
<1>. QED
  BY <1>3, <1>4 DEF Passes

(* What is said of an option at places, with the values that differ and    *)
(* with all values                                                         *)
Says(given, o, places, differing, all) ==
  CASE o = "--header-extension" -> IF places = {} THEN DefaultHeaderExtensions ELSE differing
    [] o \in IsRepeatableOption \ {"--header-extension"} -> all
    [] o \in IsPresenceFlagOption -> places # {}
    [] OTHER -> IF places = {} THEN DefaultConfig[o]
                ELSE Meaning(o, TextAt(given, CHOOSE k \in places : TRUE))

LEMMA WrittenSays ==
  ASSUME NEW given, IsCommandLine(given), NEW o, NEW next \in Nat
  PROVE  AsWritten(given, o, next - 1) =
           Says(given, o, Before(given, o, next),
                Meanings(given, o, FirstsOf(given, o))[next - 1],
                Meanings(given, o, PlacesOf(given, o))[next - 1])
<1>1. {k \in PlacesOf(given, o) : k <= next - 1} = Before(given, o, next)
  <2>1. PlacesOf(given, o) \subseteq Nat
    BY DEF PlacesOf, IsCommandLine
  <2>2. \A k \in Nat : k <= next - 1 <=> k < next
    OBVIOUS
  <2>. QED
    BY <2>1, <2>2 DEF Before
<1>. DEFINE n == next - 1
<1>. HIDE DEF n
<1>2. {k \in PlacesOf(given, o) : k <= n} = Before(given, o, next)
  BY <1>1 DEF n
<1>3. AsWritten(given, o, n) = Says(given, o, {k \in PlacesOf(given, o) : k <= n},
                                    Meanings(given, o, FirstsOf(given, o))[n],
                                    Meanings(given, o, PlacesOf(given, o))[n])
  BY DEF AsWritten, Says
<1>. QED
  BY <1>2, <1>3 DEF n

(* An option that the argument does not name means what it did. *)
LEMMA OthersPassed ==
  ASSUME NEW given, NEW i, NEW next, Passes(given, i, next), NEW o, given[i][1] # o
  PROVE  /\ Before(given, o, next) = Before(given, o, i)
         /\ AsWritten(given, o, next - 1) = AsWritten(given, o, i - 1)
         /\ Meanings(given, o, FirstsOf(given, o))[next - 1] =
              Meanings(given, o, FirstsOf(given, o))[i - 1]
<1>1. Before(given, o, next) = Before(given, o, i) /\ i \notin PlacesOf(given, o)
  BY PlacesPassed
<1>2. FirstsOf(given, o) \subseteq PlacesOf(given, o)
  BY DEF FirstsOf
<1>3. /\ Meanings(given, o, FirstsOf(given, o))[next - 1] = Meanings(given, o, FirstsOf(given, o))[i - 1]
      /\ Meanings(given, o, PlacesOf(given, o))[next - 1] = Meanings(given, o, PlacesOf(given, o))[i - 1]
  BY <1>1, <1>2, MeaningsPassed
<1>4. IsCommandLine(given) /\ i \in Nat /\ next \in Nat
  BY DEF Passes, IsCommandLine
<1>5. AsWritten(given, o, next - 1) = AsWritten(given, o, i - 1)
  BY <1>1, <1>3, <1>4, WrittenSays
<1>. QED
  BY <1>1, <1>3, <1>5

-----------------------------------------------------------------------------
(* seen and places of an option that is given at most once *)
SeenOk(given, i, marked, o) ==
  /\ o \in marked <=> Before(given, o, i) # {}
  /\ \A j, k \in Before(given, o, i) : j = k

LEMMA SeenOn ==
  ASSUME NEW given, NEW i, NEW next, Passes(given, i, next), NEW o, NEW marked, NEW more,
         SeenOk(given, i, marked, o), o \in more <=> o \in marked \/ given[i][1] = o,
         given[i][1] = o => o \notin marked
  PROVE  SeenOk(given, next, more, o)
<1>1. Before(given, o, next) = Before(given, o, i) \union {k \in {i} : given[i][1] = o}
  BY PlacesPassed
<1>2. CASE given[i][1] = o
  BY <1>1, <1>2 DEF SeenOk
<1>3. CASE given[i][1] # o
  BY <1>1, <1>3 DEF SeenOk
<1>. QED
  BY <1>2, <1>3

(* What Says makes of each kind of option *)
LEMMA SaysExtensions ==
  ASSUME NEW given, NEW o, o = "--header-extension", NEW places, NEW differing, NEW all
  PROVE  Says(given, o, places, differing, all) =
           IF places = {} THEN DefaultHeaderExtensions ELSE differing
<1>. DEFINE flag == places # {}
            value == IF places = {} THEN DefaultConfig[o]
                     ELSE Meaning(o, TextAt(given, CHOOSE k \in places : TRUE))
            extensions == IF places = {} THEN DefaultHeaderExtensions ELSE differing
<1>1. Says(given, o, places, differing, all) =
        CASE o = "--header-extension" -> extensions
          [] o \in IsRepeatableOption \ {"--header-extension"} -> all
          [] o \in IsPresenceFlagOption -> flag
          [] OTHER -> value
  BY ONLY TRUE DEF Says
<1>. HIDE DEF flag, value, extensions
<1>2. o \notin IsRepeatableOption \ {"--header-extension"} /\ o \notin IsPresenceFlagOption
  BY DEF IsPresenceFlagOption
<1>3. Says(given, o, places, differing, all) = extensions
  BY ONLY <1>1, <1>2, o = "--header-extension"
<1>. QED
  BY <1>3 DEF extensions

LEMMA SaysList ==
  ASSUME NEW given, NEW o, o # "--header-extension", o \in IsRepeatableOption,
         NEW places, NEW differing, NEW all
  PROVE  Says(given, o, places, differing, all) = all
<1>1. o \in IsRepeatableOption \ {"--header-extension"} /\ o \notin IsPresenceFlagOption
  BY DEF IsRepeatableOption, IsPresenceFlagOption
<1>. QED
  BY ONLY <1>1, o # "--header-extension" DEF Says

LEMMA SaysFlag ==
  ASSUME NEW given, NEW o, o # "--header-extension", o \notin IsRepeatableOption,
         o \in IsPresenceFlagOption, NEW places, NEW differing, NEW all
  PROVE  Says(given, o, places, differing, all) = (places # {})
<1>. DEFINE flag == places # {}
            value == IF places = {} THEN DefaultConfig[o]
                     ELSE Meaning(o, TextAt(given, CHOOSE k \in places : TRUE))
            extensions == IF places = {} THEN DefaultHeaderExtensions ELSE differing
<1>1. Says(given, o, places, differing, all) =
        CASE o = "--header-extension" -> extensions
          [] o \in IsRepeatableOption \ {"--header-extension"} -> all
          [] o \in IsPresenceFlagOption -> flag
          [] OTHER -> value
  BY ONLY TRUE DEF Says
<1>. HIDE DEF flag, value, extensions
<1>2. o \notin IsRepeatableOption \ {"--header-extension"}
  OBVIOUS
<1>3. Says(given, o, places, differing, all) = flag
  BY ONLY <1>1, <1>2, o # "--header-extension", o \in IsPresenceFlagOption
<1>. QED
  BY <1>3 DEF flag

LEMMA SaysValue ==
  ASSUME NEW given, NEW o, o # "--header-extension", o \notin IsRepeatableOption,
         o \notin IsPresenceFlagOption, NEW places, NEW differing, NEW all
  PROVE  Says(given, o, places, differing, all) =
           IF places = {} THEN DefaultConfig[o]
           ELSE Meaning(o, TextAt(given, CHOOSE k \in places : TRUE))
<1>1. o \notin IsRepeatableOption \ {"--header-extension"}
  OBVIOUS
<1>. QED
  BY ONLY <1>1, o # "--header-extension", o \notin IsPresenceFlagOption DEF Says

(* What an option means once it is read *)
LEMMA ListRead ==
  ASSUME NEW given, NEW i, NEW next, Passes(given, i, next), NEW o, given[i][1] = o,
         o \in IsRepeatableOption, o # "--header-extension"
  PROVE  AsWritten(given, o, next - 1) =
           Append(AsWritten(given, o, i - 1), Meaning(o, TextAt(given, i)))
<1>1. i \in PlacesOf(given, o)
  BY PlacesPassed
<1>2. IsCommandLine(given) /\ i \in Nat /\ next \in Nat
  BY DEF Passes, IsCommandLine
<1>3. \A n \in Nat : AsWritten(given, o, n - 1) = Meanings(given, o, PlacesOf(given, o))[n - 1]
  BY <1>2, WrittenSays, SaysList
<1>4. Meanings(given, o, PlacesOf(given, o))[next - 1] =
        Append(Meanings(given, o, PlacesOf(given, o))[i - 1], Meaning(o, TextAt(given, i)))
  <2>. DEFINE places == PlacesOf(given, o)
              before == Meanings(given, o, places)[i - 1]
              after == Meanings(given, o, places)[next - 1]
              value == Meaning(o, TextAt(given, i))
  <2>1. places \subseteq PlacesOf(given, o)
    OBVIOUS
  <2>2. after = IF i \in places THEN Append(before, value) ELSE before
    <3>. HIDE DEF places
    <3>. QED
      BY ONLY <2>1, Passes(given, i, next), MeaningsPassed
  <2>. HIDE DEF before, after, value
  <2>3. after = Append(before, value)
    BY <1>1, <2>2
  <2>. QED
    BY <2>3 DEF before, after, value
<1>. QED
  BY <1>2, <1>3, <1>4

LEMMA FlagRead ==
  ASSUME NEW given, NEW i, NEW next, Passes(given, i, next), NEW o, given[i][1] = o,
         o \in IsPresenceFlagOption
  PROVE  AsWritten(given, o, next - 1) = TRUE
<1>1. Before(given, o, next) # {}
  BY PlacesPassed
<1>2. IsCommandLine(given) /\ next \in Nat
  BY DEF Passes, IsCommandLine
<1>3. o # "--header-extension" /\ o \notin IsRepeatableOption
  BY DEF IsPresenceFlagOption, IsRepeatableOption
<1>4. AsWritten(given, o, next - 1) = (Before(given, o, next) # {})
  BY <1>2, <1>3, WrittenSays, SaysFlag
<1>. QED
  BY <1>1, <1>4

LEMMA ValueRead ==
  ASSUME NEW given, NEW i, NEW next, Passes(given, i, next), NEW o, given[i][1] = o,
         o # "--header-extension", o \notin IsRepeatableOption, o \notin IsPresenceFlagOption,
         Before(given, o, i) = {}
  PROVE  AsWritten(given, o, next - 1) = Meaning(o, TextAt(given, i))
<1>1. Before(given, o, next) = {i}
  BY PlacesPassed
<1>2. IsCommandLine(given) /\ next \in Nat
  BY DEF Passes, IsCommandLine
<1>3. (CHOOSE k \in {i} : TRUE) = i
  OBVIOUS
<1>4. \A differing, all : Says(given, o, {i}, differing, all) = Meaning(o, TextAt(given, i))
  BY <1>3, SaysValue
<1>. QED
  BY <1>1, <1>2, <1>4, WrittenSays

(* The header extensions: list has each that the words name, once and in   *)
(* their order, and the defaults if they name none.                        *)
NamedSoFar(changed, list) == IF changed THEN list ELSE <<>>

ExtensionsOk(given, i, changed, list) ==
  LET o == "--header-extension"
      named == NamedSoFar(changed, list)
  IN /\ Meanings(given, o, FirstsOf(given, o))[i - 1] = named
     /\ IsList(named)
     /\ Range(named) = {TextAt(given, k) : k \in Before(given, o, i)}
     /\ changed <=> Before(given, o, i) # {}
     /\ ~changed => list = DefaultHeaderExtensions

LEMMA ExtensionRead ==
  ASSUME NEW given, NEW i, NEW next, Passes(given, i, next),
         given[i][1] = "--header-extension",
         NEW changed, NEW list, ExtensionsOk(given, i, changed, list),
         NEW more, more = AppendUniqueHeaderExtension(NamedSoFar(changed, list), TextAt(given, i))
  PROVE  ExtensionsOk(given, next, TRUE, more)
<1>. DEFINE o == "--header-extension"
            text == TextAt(given, i)
            named == NamedSoFar(changed, list)
            firsts == FirstsOf(given, o)
            before == Before(given, o, i)
            texts == {TextAt(given, k) : k \in before}
<1>1. /\ i \in PlacesOf(given, o) /\ i \notin before
      /\ Before(given, o, next) = before \union {i}
  BY PlacesPassed
<1>2. i \in firsts <=> text \notin texts
  BY <1>1 DEF FirstsOf, Before
<1>3. firsts \subseteq PlacesOf(given, o)
  BY DEF FirstsOf
<1>4. Meaning(o, text) = text
  BY DEF Meaning, SinglePaths, Roots, Switches
<1>5. /\ Meanings(given, o, firsts)[i - 1] = named /\ IsList(named) /\ Range(named) = texts
  BY DEF ExtensionsOk
<1>6. {TextAt(given, k) : k \in Before(given, o, next)} = texts \union {text}
  BY <1>1
<1>. HIDE DEF text, named, firsts, texts, before
<1>7. Meanings(given, o, firsts)[next - 1] = IF i \in firsts THEN Append(named, text) ELSE named
  BY <1>3, <1>4, <1>5, MeaningsPassed DEF text
<1>8. more = IF text \in texts THEN named ELSE Append(named, text)
  BY <1>5 DEF AppendUniqueHeaderExtension, named, text
<1>9. Meanings(given, o, firsts)[next - 1] = more
  BY <1>2, <1>7, <1>8
<1>10. IsList(more) /\ Range(more) = texts \union {text}
  <2>1. IsList(Append(named, text)) /\ Range(Append(named, text)) = texts \union {text}
    BY <1>5, Grown
  <2>. QED
    BY <1>5, <1>8, <2>1
<1>11. Before(given, o, next) # {}
  BY <1>1
<1>. QED
  BY <1>6, <1>9, <1>10, <1>11 DEF ExtensionsOk, NamedSoFar, firsts

LEMMA ExtensionsOn ==
  ASSUME NEW given, NEW i, NEW next, Passes(given, i, next),
         given[i][1] # "--header-extension",
         NEW changed, NEW list, ExtensionsOk(given, i, changed, list)
  PROVE  ExtensionsOk(given, next, changed, list)
BY OthersPassed DEF ExtensionsOk

LEMMA ExtensionsSaid ==
  ASSUME NEW given, IsCommandLine(given), NEW i \in Nat,
         NEW changed, NEW list, ExtensionsOk(given, i, changed, list)
  PROVE  list = AsWritten(given, "--header-extension", i - 1)
<1>. DEFINE o == "--header-extension"
            differing == Meanings(given, o, FirstsOf(given, o))[i - 1]
            all == Meanings(given, o, PlacesOf(given, o))[i - 1]
<1>1. AsWritten(given, o, i - 1) = Says(given, o, Before(given, o, i), differing, all)
  BY WrittenSays
<1>2. list = IF Before(given, o, i) = {} THEN DefaultHeaderExtensions ELSE differing
  BY DEF ExtensionsOk, NamedSoFar
<1>. HIDE DEF differing, all
<1>. QED
  BY <1>1, <1>2, SaysExtensions

LEMMA NextIsNoValue ==
  ASSUME NEW given, NEW i, NEW next, Passes(given, i, next),
         next = i + 1 => ~AsksForValue(given[i])
  PROVE  next \notin ValuesOf(given) /\ next \in 1 .. Len(given) + 1
<1>. DEFINE values == ValuesOf(given)
<1>1. /\ values \subseteq 1 .. Len(given) /\ i \notin values /\ i \in 1 .. Len(given)
      /\ Len(given) \in Nat
      /\ \A k \in 1 .. Len(given) :
           k \in values <=> k > 1 /\ k - 1 \notin values /\ AsksForValue(given[k - 1])
  BY ValuesMean DEF Passes, IsCommandLine
<1>2. /\ next = i + 1 \/ (next = i + 2 /\ i + 1 \in 1 .. Len(given))
      /\ next = i + 2 => AsksForValue(given[i])
  BY DEF Passes
<1>. HIDE DEF values
<1>3. CASE next = i + 1
  <2>1. (i + 1) - 1 = i
    BY <1>1
  <2>. QED
    BY <1>1, <1>3, <2>1 DEF values
<1>4. CASE next = i + 2 /\ i + 1 \in 1 .. Len(given)
  <2>1. i + 1 > 1 /\ (i + 1) - 1 = i /\ (i + 2) - 1 = i + 1
    BY <1>1
  <2>2. i + 1 \in values
    BY <1>1, <1>2, <1>4, <2>1
  <2>3. i + 2 \notin values
    BY <1>1, <2>1, <2>2
  <2>4. i + 2 \in 1 .. Len(given) + 1
    BY <1>1, <1>4
  <2>. QED
    BY <1>4, <2>3, <2>4 DEF values
<1>. QED
  BY <1>2, <1>3, <1>4

ConfigOptions == IsKnownOption \ {"--config", "--help"}

Policies == {"--strict", "--best-effort"}

(* What holds as long as there is no error and no help is asked for *)
ReadSoFar ==
  /\ index \notin ValuesOf(arguments)
  /\ \A o \in ConfigOptions \ IsRepeatableOption : SeenOk(arguments, index, seen, o)
  /\ \A o \in ConfigOptions \ (Policies \union {"--header-extension"}) :
       config[o] = AsWritten(arguments, o, index - 1)
  /\ ExtensionsOk(arguments, index, overridden, config["--header-extension"])
  /\ \/ Policies \subseteq seen
     \/ /\ config["--strict"] = ("--strict" \in seen)
        /\ config["--best-effort"] = ("--strict" \notin seen)

WordsInv ==
  /\ IsCommandLine(arguments)
  /\ index \in 1 .. Len(arguments) + 1
  /\ DOMAIN config = ConfigOptions
  /\ errors = {} /\ ~help => ReadSoFar
  /\ parsed => index = Len(arguments) + 1 /\ (errors = {} => ~(Policies \subseteq seen))

(* The argument that the reader has come to *)
LEMMA ArgumentGiven ==
  ASSUME WordsInv, Reading
  PROVE  /\ Argument = arguments[index] /\ Len(Argument) \in {1, 2}
         /\ index \in 1 .. Len(arguments) /\ Len(arguments) \in Nat
BY DEF WordsInv, Reading, Argument, IsCommandLine, Range

LEMMA SeparatorRead ==
  ASSUME WordsInv, Separator, UNCHANGED arguments
  PROVE  WordsInv'
<1>1. /\ Argument = arguments[index] /\ index \in 1 .. Len(arguments) /\ Len(arguments) \in Nat
  BY ArgumentGiven DEF Separator
<1>2. /\ Argument = <<"--">> /\ index' = index + 1 /\ arguments' = arguments
      /\ UNCHANGED <<config, seen, overridden, errors, help, parsed>>
  BY DEF Separator, IsSeparator
<1>3. ~parsed'
  BY DEF Separator, Reading
<1>4. "--" \notin IsKnownOption
  BY DEF IsKnownOption, IsPresenceFlagOption, SinglePaths, Roots, Switches, IsRepeatableOption,
         LegalWords
<1>5. arguments[index][1] = "--"
  BY <1>1, <1>2
<1>6. ASSUME errors' = {}, ~help'
      PROVE  ReadSoFar'
  <2>1. ReadSoFar
    BY <1>2, <1>6 DEF WordsInv
  <2>2. Passes(arguments, index, index')
    BY <1>1, <1>2, <2>1 DEF Passes, WordsInv, ReadSoFar
  <2>3. index' \notin ValuesOf(arguments)
    BY <1>4, <1>5, <2>2, NextIsNoValue DEF AsksForValue
  <2>4. \A o \in ConfigOptions : arguments[index][1] # o
    BY <1>4, <1>5 DEF ConfigOptions
  <2>5. "--header-extension" \in ConfigOptions
    BY DEF ConfigOptions, IsKnownOption, IsRepeatableOption
  <2>6. \A o \in ConfigOptions : /\ Before(arguments, o, index') = Before(arguments, o, index)
                           /\ AsWritten(arguments, o, index' - 1) = AsWritten(arguments, o, index - 1)
    BY <2>2, <2>4, OthersPassed
  <2>7. ExtensionsOk(arguments, index', overridden, config["--header-extension"])
    BY <2>1, <2>2, <2>4, <2>5, ExtensionsOn DEF ReadSoFar
  <2>8. \A o \in ConfigOptions \ IsRepeatableOption : SeenOk(arguments, index', seen, o)
    BY <2>1, <2>6 DEF ReadSoFar, SeenOk
  <2>. QED
    BY <1>2, <2>1, <2>3, <2>6, <2>7, <2>8 DEF ReadSoFar
<1>. QED
  BY <1>1, <1>2, <1>3, <1>6 DEF WordsInv

LEMMA FlagOptions ==
  ASSUME NEW o \in IsPresenceFlagOption
  PROVE  /\ o \in IsKnownOption /\ o \notin IsRepeatableOption /\ o # "--header-extension"
         /\ o # "--config" /\ o # "--std"
BY DEF IsPresenceFlagOption, IsKnownOption, IsRepeatableOption

LEMMA FlagTaken ==
  ASSUME WordsInv, Flag, UNCHANGED arguments
  PROVE  WordsInv'
<1>. DEFINE option == arguments[index][1]
<1>1. /\ Argument = arguments[index] /\ Len(Argument) \in {1, 2}
      /\ index \in 1 .. Len(arguments) /\ Len(arguments) \in Nat
  BY ArgumentGiven DEF Flag, ReadingFlag, ReadingOption
<1>2. /\ index' = index + 1 /\ arguments' = arguments
      /\ UNCHANGED <<scanning, overridden, errors, parsed>>
      /\ Option = option /\ option \in IsPresenceFlagOption /\ option \notin seen
      /\ Len(arguments[index]) # 2
      /\ seen' = seen \union ({option} \ IsRepeatableOption)
      /\ help' = (help \/ option = "--help")
  BY <1>1 DEF Flag, ReadingFlag, Option, IsDuplicate, MarkOptionSeen, InlineValue
<1>3. ~parsed'
  BY DEF Flag, ReadingFlag, ReadingOption, Reading
<1>4. config' = CASE option = "--help" -> config
                  [] option = "--strict" ->
                       [config EXCEPT !["--strict"] = TRUE, !["--best-effort"] = FALSE]
                  [] option = "--best-effort" ->
                       [config EXCEPT !["--best-effort"] = TRUE, !["--strict"] = FALSE]
                  [] OTHER -> [config EXCEPT ![option] = TRUE]
  BY <1>2 DEF Flag
<1>. HIDE DEF option
<1>5. /\ option = "--help" => config' = config
      /\ option = "--strict" =>
           config' = [config EXCEPT !["--strict"] = TRUE, !["--best-effort"] = FALSE]
      /\ option = "--best-effort" =>
           config' = [config EXCEPT !["--best-effort"] = TRUE, !["--strict"] = FALSE]
      /\ option \notin Policies \union {"--help"} => config' = [config EXCEPT ![option] = TRUE]
  BY <1>4 DEF Policies
<1>6. DOMAIN config' = ConfigOptions
  <2>1. \/ option = "--help" \/ option = "--strict" \/ option = "--best-effort"
        \/ option \notin Policies \union {"--help"}
    BY DEF Policies
  <2>. QED
    BY <1>5, <2>1 DEF WordsInv
<1>7. ASSUME errors' = {}, ~help'
      PROVE  ReadSoFar'
  <2>1. ReadSoFar /\ option # "--help"
    BY <1>2, <1>7 DEF WordsInv
  <2>2. Passes(arguments, index, index')
    BY <1>1, <1>2, <2>1 DEF Passes, WordsInv, ReadSoFar
  <2>3. index' \notin ValuesOf(arguments)
    BY <1>2, <2>2, NextIsNoValue DEF AsksForValue, option
  <2>4. option \notin IsRepeatableOption /\ option # "--header-extension" /\ option \in ConfigOptions
    BY <1>2, <2>1, FlagOptions DEF ConfigOptions
  <2>5. \A o \in ConfigOptions \ IsRepeatableOption : SeenOk(arguments, index', seen', o)
    <3>1. \A o : o \in seen' <=> o \in seen \/ option = o
      BY <1>2, <2>4
    <3>. QED
      BY <1>2, <2>1, <2>2, <3>1, SeenOn DEF ReadSoFar, option
  <2>6. ASSUME NEW o \in ConfigOptions \ (Policies \union {"--header-extension"})
        PROVE  config'[o] = AsWritten(arguments, o, index' - 1)
    <3>1. CASE o = option
      <4>1. config'[o] = TRUE
        BY <1>5, <2>1, <2>6, <3>1 DEF WordsInv
      <4>2. AsWritten(arguments, o, index' - 1) = TRUE
        BY <1>2, <2>2, <3>1, FlagRead DEF option
      <4>. QED
        BY <4>1, <4>2
    <3>2. CASE o # option
      <4>1. config'[o] = config[o]
        BY <1>5, <2>1, <2>6, <3>2 DEF Policies, WordsInv
      <4>2. AsWritten(arguments, o, index' - 1) = AsWritten(arguments, o, index - 1)
        BY <2>2, <3>2, OthersPassed DEF option
      <4>. QED
        BY <2>1, <4>1, <4>2 DEF ReadSoFar
    <3>. QED
      BY <3>1, <3>2
  <2>7. ExtensionsOk(arguments, index', overridden', config'["--header-extension"])
    <3>1. config'["--header-extension"] = config["--header-extension"]
      <4>1. "--header-extension" \in ConfigOptions
        BY DEF ConfigOptions, IsKnownOption, IsRepeatableOption
      <4>. QED
        BY <1>5, <2>1, <2>4, <4>1 DEF Policies, WordsInv
    <3>. QED
      BY <1>2, <2>1, <2>2, <2>4, <3>1, ExtensionsOn DEF ReadSoFar, option
  <2>8. \/ Policies \subseteq seen'
        \/ /\ config'["--strict"] = ("--strict" \in seen')
           /\ config'["--best-effort"] = ("--strict" \notin seen')
    <3>1. seen' = seen \union {option}
      BY <1>2, <2>4
    <3>2. "--strict" \in DOMAIN config /\ "--best-effort" \in DOMAIN config
      BY DEF WordsInv, ConfigOptions, IsKnownOption, IsPresenceFlagOption
    <3>3. CASE option = "--strict"
      <4>1. config'["--strict"] = TRUE /\ config'["--best-effort"] = FALSE /\ "--strict" \in seen'
        BY <1>5, <3>1, <3>2, <3>3
      <4>. QED
        BY <4>1
    <3>4. CASE option = "--best-effort" /\ "--strict" \notin seen
      <4>1. config'["--strict"] = FALSE /\ config'["--best-effort"] = TRUE /\ "--strict" \notin seen'
        BY <1>5, <3>1, <3>2, <3>4
      <4>2. ("--strict" \in seen') = FALSE /\ ("--strict" \notin seen') = TRUE
        BY <4>1
      <4>. QED
        BY <4>1, <4>2
    <3>5. CASE option = "--best-effort" /\ "--strict" \in seen
      <4>1. Policies \subseteq seen'
        BY <3>1, <3>5 DEF Policies
      <4>. QED
        BY <4>1
    <3>6. CASE option \notin Policies
      <4>1. config'["--strict"] = config["--strict"] /\ config'["--best-effort"] = config["--best-effort"]
        <5>1. option # "--strict" /\ option # "--best-effort" /\ option \notin Policies \union {"--help"}
          BY <2>1, <3>6 DEF Policies
        <5>2. config' = [config EXCEPT ![option] = TRUE]
          BY <1>5, <5>1
        <5>. QED
          BY <3>2, <5>1, <5>2
      <4>2. ("--strict" \in seen' <=> "--strict" \in seen) /\ seen \subseteq seen'
        BY <3>1, <3>6 DEF Policies
      <4>3. CASE Policies \subseteq seen
        BY <4>2, <4>3
      <4>4. CASE /\ config["--strict"] = ("--strict" \in seen)
                 /\ config["--best-effort"] = ("--strict" \notin seen)
        BY <4>1, <4>2, <4>4
      <4>. QED
        BY <2>1, <4>3, <4>4 DEF ReadSoFar
    <3>. QED
      BY <3>3, <3>4, <3>5, <3>6 DEF Policies
  <2>. QED
    BY <1>2, <2>3, <2>5, <2>6, <2>7, <2>8 DEF ReadSoFar
<1>. QED
  BY <1>1, <1>2, <1>3, <1>6, <1>7 DEF WordsInv

LEMMA ValueTaken ==
  ASSUME WordsInv, TakeValue, UNCHANGED arguments
  PROVE  WordsInv'
<1>. DEFINE option == arguments[index][1]
            text == TextAt(arguments, index)
<1>1. /\ Argument = arguments[index] /\ Len(Argument) \in {1, 2}
      /\ index \in 1 .. Len(arguments) /\ Len(arguments) \in Nat
  BY ArgumentGiven DEF TakeValue, ReadingValue, ReadingValueOption, ReadingOption
<1>2. Value = text
  BY <1>1 DEF Value, TextAt, InlineValue
<1>3. /\ index' = AfterValue /\ arguments' = arguments
      /\ UNCHANGED <<scanning, errors, help, parsed>>
      /\ Option = option /\ option \in IsKnownOption \ IsPresenceFlagOption /\ option \notin seen
      /\ ~Deferred(option, text)
      /\ seen' = seen \union ({option} \ IsRepeatableOption)
      /\ config' = [config EXCEPT ![option] = Applied(option, text)]
      /\ overridden' = (overridden \/ option = "--header-extension")
      /\ HasValue /\ ~parsed
  BY <1>1, <1>2 DEF TakeValue, ReadingValue, ReadingValueOption, ReadingOption, Reading, Option,
                    IsDuplicate, MarkOptionSeen
<1>4. \/ index' = index + 1 /\ Len(arguments[index]) = 2
      \/ index' = index + 2 /\ Len(arguments[index]) = 1 /\ index + 1 \in 1 .. Len(arguments)
  BY <1>1, <1>3 DEF AfterValue, HasValue, InlineValue
<1>. HIDE DEF option, text
<1>5. option \in ConfigOptions /\ option \notin IsPresenceFlagOption /\ option \notin Policies
  BY <1>3 DEF ConfigOptions, Deferred, Policies, IsPresenceFlagOption
<1>6. DOMAIN config' = ConfigOptions
  BY <1>3 DEF WordsInv
<1>7. index' \in 1 .. Len(arguments) + 1
  BY <1>1, <1>4
<1>8. ASSUME errors' = {}, ~help'
      PROVE  ReadSoFar'
  <2>1. ReadSoFar
    BY <1>3, <1>8 DEF WordsInv
  <2>2. Passes(arguments, index, index')
    <3>1. index' = index + 2 => AsksForValue(arguments[index])
      BY <1>1, <1>3, <1>4 DEF AsksForValue, option
    <3>. QED
      BY <1>1, <1>4, <2>1, <3>1 DEF Passes, WordsInv, ReadSoFar
  <2>3. index' \notin ValuesOf(arguments)
    <3>1. index' = index + 1 => ~AsksForValue(arguments[index])
      <4>1. index' = index + 1 => Len(arguments[index]) = 2
        BY <1>1, <1>4
      <4>. QED
        BY <4>1 DEF AsksForValue
    <3>. QED
      BY <2>2, <3>1, NextIsNoValue
  <2>4. ASSUME NEW o \in ConfigOptions \ IsRepeatableOption
        PROVE  SeenOk(arguments, index', seen', o)
    <3>1. o \in seen' <=> o \in seen \/ option = o
      BY <1>3, <2>4
    <3>. QED
      BY <1>3, <2>1, <2>2, <3>1, SeenOn DEF ReadSoFar, option
  <2>5. ASSUME NEW o \in ConfigOptions \ (Policies \union {"--header-extension"})
        PROVE  config'[o] = AsWritten(arguments, o, index' - 1)
    <3>0. config[o] = AsWritten(arguments, o, index - 1) /\ o \in DOMAIN config
      BY <2>1 DEF ReadSoFar, WordsInv
    <3>1. CASE o # option
      <4>1. config'[o] = config[o]
        BY <1>3, <3>0, <3>1
      <4>2. AsWritten(arguments, o, index' - 1) = AsWritten(arguments, o, index - 1)
        BY <2>2, <3>1, OthersPassed DEF option
      <4>. QED
        BY <3>0, <4>1, <4>2
    <3>2. CASE o = option /\ o \in IsRepeatableOption
      <4>1. config'[o] = Applied(o, text)
        BY <1>3, <3>0, <3>2
      <4>2. o \in IsRepeatableOption \ {"--header-extension"} /\ o # "--header-extension"
        BY <2>5, <3>2
      <4>3. Applied(o, text) = Append(config[o], Meaning(o, text))
        BY <4>2 DEF Applied
      <4>4. AsWritten(arguments, o, index' - 1) =
              Append(AsWritten(arguments, o, index - 1), Meaning(o, text))
        BY <2>2, <3>2, <4>2, ListRead DEF option, text
      <4>. QED
        BY <3>0, <4>1, <4>3, <4>4
    <3>3. CASE o = option /\ o \notin IsRepeatableOption
      <4>1. config'[o] = Applied(o, text)
        BY <1>3, <3>0, <3>3
      <4>2. o \notin IsRepeatableOption \ {"--header-extension"} /\ o # "--header-extension"
        BY <2>5, <3>3
      <4>3. Applied(o, text) = Meaning(o, text)
        BY <4>2 DEF Applied
      <4>4. Before(arguments, o, index) = {}
        BY <1>3, <2>1, <3>3 DEF ReadSoFar, SeenOk
      <4>5. AsWritten(arguments, o, index' - 1) = Meaning(o, text)
        BY <1>5, <2>2, <3>3, <4>2, <4>4, ValueRead DEF option, text
      <4>. QED
        BY <4>1, <4>3, <4>5
    <3>. QED
      BY <3>1, <3>2, <3>3
  <2>6. ExtensionsOk(arguments, index', overridden', config'["--header-extension"])
    <3>1. "--header-extension" \in DOMAIN config
      BY DEF WordsInv, ConfigOptions, IsKnownOption, IsRepeatableOption
    <3>2. ExtensionsOk(arguments, index, overridden, config["--header-extension"])
      BY <2>1 DEF ReadSoFar
    <3>3. CASE option = "--header-extension"
      <4>. DEFINE named == IF overridden THEN config["--header-extension"] ELSE <<>>
                  more == AppendUniqueHeaderExtension(named, text)
      <4>1. Applied("--header-extension", text) = more
        BY DEF Applied
      <4>2. config'["--header-extension"] = more
        <5>. HIDE DEF more
        <5>. QED
          BY <1>3, <3>1, <3>3, <4>1
      <4>3. ExtensionsOk(arguments, index', TRUE, more)
        <5>1. more = AppendUniqueHeaderExtension(
                       NamedSoFar(overridden, config["--header-extension"]), TextAt(arguments, index))
          BY DEF text, NamedSoFar
        <5>2. arguments[index][1] = "--header-extension"
          BY <3>3 DEF option
        <5>. HIDE DEF more
        <5>. QED
          BY ONLY <2>2, <3>2, <5>1, <5>2, ExtensionRead
      <4>4. overridden' = TRUE
        BY <1>3, <3>3
      <4>. HIDE DEF more
      <4>. QED
        BY <4>2, <4>3, <4>4
    <3>4. CASE option # "--header-extension"
      <4>1. config'["--header-extension"] = config["--header-extension"]
        BY <1>3, <3>1, <3>4
      <4>2. ExtensionsOk(arguments, index', overridden, config["--header-extension"])
        BY <2>2, <3>2, <3>4, ExtensionsOn DEF option
      <4>3. overridden' <=> overridden
        BY <1>3, <3>4
      <4>. QED
        BY <4>1, <4>2, <4>3 DEF ExtensionsOk
    <3>. QED
      BY <3>3, <3>4
  <2>7. \/ Policies \subseteq seen'
        \/ /\ config'["--strict"] = ("--strict" \in seen')
           /\ config'["--best-effort"] = ("--strict" \notin seen')
    <3>1. option # "--strict" /\ option # "--best-effort"
      BY <1>5 DEF Policies
    <3>2. "--strict" \in DOMAIN config /\ "--best-effort" \in DOMAIN config
      BY DEF WordsInv, ConfigOptions, IsKnownOption, IsPresenceFlagOption
    <3>3. config'["--strict"] = config["--strict"] /\ config'["--best-effort"] = config["--best-effort"]
      BY <1>3, <3>1, <3>2
    <3>4. ("--strict" \in seen' <=> "--strict" \in seen) /\ seen \subseteq seen'
      BY <1>3, <3>1
    <3>5. CASE Policies \subseteq seen
      BY <3>4, <3>5
    <3>6. CASE /\ config["--strict"] = ("--strict" \in seen)
               /\ config["--best-effort"] = ("--strict" \notin seen)
      BY <3>3, <3>4, <3>6
    <3>. QED
      BY <2>1, <3>5, <3>6 DEF ReadSoFar
  <2>. QED
    BY <1>3, <2>3, <2>4, <2>5, <2>6, <2>7 DEF ReadSoFar
<1>. QED
  BY <1>1, <1>3, <1>6, <1>7, <1>8 DEF WordsInv

(* An error, or a request for help, ends what is known of the words. *)
LEMMA WordRefused ==
  ASSUME WordsInv, UNCHANGED arguments,
         \/ UnexpectedArgument \/ UnknownOption \/ FlagWithValue \/ DuplicateFlag
         \/ MissingValue \/ DuplicateValue \/ DeferredValue \/ InvalidValue
  PROVE  WordsInv'
<1>1. Reading
  BY DEF UnexpectedArgument, UnknownOption, FlagWithValue, DuplicateFlag, MissingValue,
         DuplicateValue, DeferredValue, InvalidValue, ReadingOption, ReadingFlag,
         ReadingValueOption, ReadingValue
<1>2. index \in 1 .. Len(arguments) /\ Len(arguments) \in Nat
  BY <1>1, ArgumentGiven
<1>3. ~parsed' /\ config' = config /\ arguments' = arguments
  BY <1>1 DEF UnexpectedArgument, UnknownOption, FlagWithValue, DuplicateFlag, MissingValue,
         DuplicateValue, DeferredValue, InvalidValue, Reading
<1>6. errors' # {}
  <2>1. (\E code, o : AddError(code, o)) \/ MissingValue
    BY DEF UnexpectedArgument, UnknownOption, FlagWithValue, DuplicateFlag,
           DuplicateValue, DeferredValue, InvalidValue
  <2>2. (\E error : error \in errors') \/ MissingValue
    BY <2>1 DEF AddError
  <2>3. MissingValue => <<"MissingOptionValue", Option>> \in errors'
    BY DEF MissingValue
  <2>. QED
    BY <2>2, <2>3
<1>4. index' = index + 1 \/ (index' = AfterValue /\ HasValue)
  BY DEF UnexpectedArgument, UnknownOption, FlagWithValue, DuplicateFlag, MissingValue,
         DuplicateValue, DeferredValue, InvalidValue, ReadingValue
<1>5. index' \in 1 .. Len(arguments) + 1
  BY <1>2, <1>4 DEF AfterValue, HasValue
<1>. QED
  BY <1>3, <1>5, <1>6 DEF WordsInv

LEMMA OptionsFinished ==
  ASSUME WordsInv, FinishOptions, UNCHANGED arguments
  PROVE  WordsInv'
<1>1. /\ UNCHANGED <<index, config, seen, overridden, help>> /\ arguments' = arguments
      /\ index > Len(arguments)
      /\ errors' = {} => errors = {}
      /\ errors' = {} => ~(Policies \subseteq seen)
  BY DEF FinishOptions, Conflicts, Policies
<1>2. index' = Len(arguments) + 1
  BY <1>1 DEF WordsInv, IsCommandLine
<1>3. errors' = {} /\ ~help' => ReadSoFar'
  BY <1>1 DEF WordsInv, ReadSoFar
<1>. QED
  BY <1>1, <1>2, <1>3 DEF WordsInv

LEMMA NothingRead ==
  ASSUME NEW given, IsCommandLine(given), NEW o
  PROVE  /\ Before(given, o, 1) = {} /\ 1 \notin ValuesOf(given)
         /\ \A places : Meanings(given, o, places)[0] = <<>>
<1>1. Len(given) \in Nat /\ DOMAIN given = 1 .. Len(given)
  BY DEF IsCommandLine
<1>2. Before(given, o, 1) = {}
  BY <1>1 DEF Before, PlacesOf
<1>3. 1 \notin ValuesOf(given)
  BY <1>1, ValuesMean
<1>. QED
  BY <1>1, <1>2, <1>3, MeaningsMean

LEMMA Defaults ==
  ASSUME NEW o \in ConfigOptions \ (Policies \union {"--header-extension"})
  PROVE  /\ o \in IsRepeatableOption => DefaultConfig[o] = <<>>
         /\ o \in IsPresenceFlagOption => DefaultConfig[o] = FALSE
<1>1. ASSUME o \in IsRepeatableOption
      PROVE  DefaultConfig[o] = <<>>
  <2>1. /\ o \in IsRepeatableOption \ {"--header-extension"} /\ o # "--header-extension"
        /\ o \in IsKnownOption \ {"--config", "--help"}
    BY <1>1 DEF ConfigOptions
  <2>2. /\ o \notin SinglePaths \union {"--header-filter", "--class-filter"}
        /\ o \notin {"--emit-all-mocks", "--emit-manifest", "--emit-cmake-fragment", "--best-effort"}
        /\ o \notin {"--dry-run", "--overwrite", "--strict", "--validation-keep-artifacts",
                   "--fake-special-members", "--fake-static-data", "--interface-mock"}
        /\ o # "--std" /\ o # "--access" /\ o # "--include-struct" /\ o # "--registry-mode"
        /\ o # "--fallback-policy" /\ o # "--mock-namespace-mode"
        /\ o # "--collision-policy" /\ o # "--format-style" /\ o # "--validate"
        /\ o # "--validation-timeout-ms" /\ o # "--jobs"
    BY <1>1 DEF IsRepeatableOption, SinglePaths, Roots
  <2>. QED
    BY ONLY <2>1, <2>2 DEF DefaultConfig
<1>2. ASSUME o \in IsPresenceFlagOption
      PROVE  DefaultConfig[o] = FALSE
  <2>1. /\ o \in IsKnownOption \ {"--config", "--help"}
        /\ o \in {"--dry-run", "--overwrite", "--strict", "--validation-keep-artifacts",
                "--fake-special-members", "--fake-static-data", "--interface-mock"}
    BY <1>2 DEF ConfigOptions, Policies, IsPresenceFlagOption
  <2>2. /\ o \notin SinglePaths \union {"--header-filter", "--class-filter"}
        /\ o \notin IsRepeatableOption \ {"--header-extension"} /\ o # "--header-extension"
        /\ o \notin {"--emit-all-mocks", "--emit-manifest", "--emit-cmake-fragment", "--best-effort"}
        /\ o # "--std" /\ o # "--access" /\ o # "--include-struct" /\ o # "--registry-mode"
        /\ o # "--fallback-policy" /\ o # "--mock-namespace-mode"
        /\ o # "--collision-policy" /\ o # "--format-style" /\ o # "--validate"
        /\ o # "--validation-timeout-ms" /\ o # "--jobs"
    BY <2>1 DEF IsRepeatableOption, SinglePaths, Roots
  <2>. QED
    BY ONLY <2>1, <2>2 DEF DefaultConfig
<1>. QED
  BY <1>1, <1>2

LEMMA PolicyDefaults ==
  /\ DefaultConfig["--strict"] = FALSE /\ DefaultConfig["--best-effort"] = TRUE
  /\ DefaultConfig["--header-extension"] = DefaultHeaderExtensions
  /\ DOMAIN DefaultConfig = ConfigOptions
<1>1. {"--strict", "--best-effort", "--header-extension"} \subseteq IsKnownOption \ {"--config", "--help"}
  BY DEF IsKnownOption, IsPresenceFlagOption, IsRepeatableOption
<1>2. \A o \in {"--strict", "--best-effort"} :
        /\ o \notin SinglePaths \union {"--header-filter", "--class-filter"}
        /\ o \notin IsRepeatableOption \ {"--header-extension"}
  BY DEF IsRepeatableOption, SinglePaths, Roots
<1>3. "--header-extension" \notin SinglePaths \union {"--header-filter", "--class-filter"}
  BY DEF SinglePaths, Roots
<1>4. DefaultConfig["--strict"] = FALSE /\ DefaultConfig["--best-effort"] = TRUE
  BY ONLY <1>1, <1>2 DEF DefaultConfig
<1>5. DefaultConfig["--header-extension"] = DefaultHeaderExtensions
  BY ONLY <1>1, <1>3 DEF DefaultConfig
<1>6. DOMAIN DefaultConfig = ConfigOptions
  BY DEF DefaultConfig, ConfigOptions
<1>. QED
  BY <1>4, <1>5, <1>6

LEMMA WordsBegin == Init => WordsInv
<1>. SUFFICES ASSUME Init PROVE WordsInv
  OBVIOUS
<1>1. IsCommandLine(arguments) /\ Len(arguments) \in Nat
  BY ArgumentsGiven DEF Init, IsCommandLine
<1>2. /\ index = 1 /\ config = DefaultConfig /\ seen = {} /\ overridden = FALSE
      /\ parsed = FALSE
  BY DEF Init, ConfigInit
<1>3. \A o : /\ Before(arguments, o, 1) = {}
             /\ \A places : Meanings(arguments, o, places)[0] = <<>>
  BY <1>1, NothingRead
<1>4. ASSUME NEW o \in ConfigOptions \ (Policies \union {"--header-extension"})
      PROVE  DefaultConfig[o] = AsWritten(arguments, o, 1 - 1)
  <2>. DEFINE differing == Meanings(arguments, o, FirstsOf(arguments, o))[1 - 1]
              all == Meanings(arguments, o, PlacesOf(arguments, o))[1 - 1]
  <2>1. AsWritten(arguments, o, 1 - 1) = Says(arguments, o, {}, differing, all)
    BY <1>1, <1>3, WrittenSays
  <2>2. all = <<>>
    BY <1>3
  <2>. HIDE DEF differing, all
  <2>3. CASE o \in IsRepeatableOption
    <3>1. Says(arguments, o, {}, differing, all) = all
      BY <2>3, SaysList
    <3>2. DefaultConfig[o] = <<>>
      BY <2>3, Defaults
    <3>. QED
      BY <2>1, <2>2, <3>1, <3>2
  <2>4. CASE o \in IsPresenceFlagOption
    <3>1. o \notin IsRepeatableOption
      BY <2>4 DEF IsRepeatableOption, IsPresenceFlagOption
    <3>2. Says(arguments, o, {}, differing, all) = ({} # {})
      BY <2>4, <3>1, SaysFlag
    <3>3. DefaultConfig[o] = FALSE
      BY <2>4, Defaults
    <3>. QED
      BY <2>1, <3>2, <3>3
  <2>5. CASE o \notin IsRepeatableOption /\ o \notin IsPresenceFlagOption
    BY <2>1, <2>5, SaysValue
  <2>. QED
    BY <2>3, <2>4, <2>5
<1>5. ExtensionsOk(arguments, 1, FALSE, DefaultHeaderExtensions)
  <2>1. IsList(<<>>) /\ Range(<<>>) = {}
    BY DEF IsList, Range
  <2>. QED
    BY <1>3, <2>1 DEF ExtensionsOk, NamedSoFar
<1>6. ReadSoFar
  <2>1. 1 \notin ValuesOf(arguments)
    BY <1>1, NothingRead
  <2>2. \A o : SeenOk(arguments, 1, {}, o)
    BY <1>3 DEF SeenOk
  <2>3. /\ config["--strict"] = ("--strict" \in seen)
        /\ config["--best-effort"] = ("--strict" \notin seen)
    <3>1. ("--strict" \in seen) = FALSE /\ ("--strict" \notin seen) = TRUE
      BY <1>2
    <3>. QED
      BY <1>2, <3>1, PolicyDefaults
  <2>. QED
    BY <1>2, <1>4, <1>5, <2>1, <2>2, <2>3, PolicyDefaults DEF ReadSoFar
<1>. QED
  BY <1>1, <1>2, <1>6, PolicyDefaults DEF WordsInv

LEMMA WordsStep ==
  ASSUME WordsInv, [Next]_vars
  PROVE  WordsInv'
<1>0. arguments' = arguments
  BY DEF Next, vars, ReadOptions, ParseConfig, ExitAfterOptions, BeginScan, SearchHeaders,
         ExitAfterScan, BeginResolve, ResolveClasses, EndResolve, Terminated
<1>1. CASE ReadOptions
  BY <1>0, <1>1, SeparatorRead, FlagTaken, ValueTaken, WordRefused, OptionsFinished
     DEF ReadOptions, ParseConfig
<1>2. CASE UNCHANGED configVars
  BY <1>0, <1>2 DEF configVars, WordsInv, ReadSoFar
<1>. QED
  BY <1>1, <1>2 DEF Next, vars, ExitAfterOptions, BeginScan, SearchHeaders,
                    ExitAfterScan, BeginResolve, ResolveClasses, EndResolve, Terminated

LEMMA WordsUnderstood ==
  ASSUME WordsInv
  PROVE  AcceptedMeansAsWritten
<1>. SUFFICES ASSUME parsed, errors = {}, ~help
              PROVE  /\ \A o \in DOMAIN config \ IsRepeatableOption :
                          \A j, k \in PlacesOf(arguments, o) : j = k
                     /\ \A o \in DOMAIN config \ {"--best-effort"} :
                          config[o] = AsWritten(arguments, o, Len(arguments))
                     /\ config["--best-effort"] = (PlacesOf(arguments, "--strict") = {})
  BY DEF AcceptedMeansAsWritten
<1>1. /\ ReadSoFar /\ index = Len(arguments) + 1 /\ ~(Policies \subseteq seen)
      /\ DOMAIN config = ConfigOptions
      /\ IsCommandLine(arguments) /\ Len(arguments) \in Nat /\ index \in Nat
  BY DEF WordsInv, IsCommandLine
<1>2. \A o : Before(arguments, o, index) = PlacesOf(arguments, o)
  <2>1. \A o : PlacesOf(arguments, o) \subseteq 1 .. Len(arguments)
    BY <1>1 DEF PlacesOf, IsCommandLine
  <2>. QED
    BY <1>1, <2>1 DEF Before
<1>3. index - 1 = Len(arguments)
  BY <1>1
<1>4. \A o \in ConfigOptions \ IsRepeatableOption :
        /\ o \in seen <=> PlacesOf(arguments, o) # {}
        /\ \A j, k \in PlacesOf(arguments, o) : j = k
  BY <1>1, <1>2 DEF ReadSoFar, SeenOk
<1>5. /\ config["--strict"] = ("--strict" \in seen)
      /\ config["--best-effort"] = ("--strict" \notin seen)
  BY <1>1 DEF ReadSoFar
<1>6. "--strict" \in ConfigOptions \ IsRepeatableOption
  BY DEF ConfigOptions, IsKnownOption, IsPresenceFlagOption, IsRepeatableOption
<1>7. config["--best-effort"] = (PlacesOf(arguments, "--strict") = {})
  <2>1. "--strict" \notin seen <=> PlacesOf(arguments, "--strict") = {}
    BY <1>4, <1>6
  <2>. QED
    BY <1>5, <2>1
<1>8. ASSUME NEW o \in ConfigOptions \ {"--best-effort"}
      PROVE  config[o] = AsWritten(arguments, o, Len(arguments))
  <2>1. CASE o = "--header-extension"
    BY <1>1, <1>3, <2>1, ExtensionsSaid DEF ReadSoFar
  <2>2. CASE o = "--strict"
    <3>. DEFINE differing == Meanings(arguments, o, FirstsOf(arguments, o))[index - 1]
                all == Meanings(arguments, o, PlacesOf(arguments, o))[index - 1]
    <3>1. AsWritten(arguments, o, index - 1) = Says(arguments, o, PlacesOf(arguments, o), differing, all)
      BY <1>1, <1>2, WrittenSays
    <3>. HIDE DEF differing, all
    <3>2. o # "--header-extension" /\ o \notin IsRepeatableOption /\ o \in IsPresenceFlagOption
      BY <1>6, <2>2 DEF IsPresenceFlagOption
    <3>3. AsWritten(arguments, o, index - 1) = (PlacesOf(arguments, o) # {})
      BY <3>1, <3>2, SaysFlag
    <3>4. "--strict" \in seen <=> PlacesOf(arguments, o) # {}
      BY <1>4, <1>6, <2>2
    <3>5. config[o] = (PlacesOf(arguments, o) # {})
      BY <1>5, <2>2, <3>4
    <3>. QED
      BY <1>3, <3>3, <3>5
  <2>3. CASE o \notin {"--header-extension", "--strict"}
    BY <1>1, <1>3, <2>3 DEF ReadSoFar, Policies
  <2>. QED
    BY <2>1, <2>2, <2>3
<1>. QED
  BY <1>1, <1>4, <1>7, <1>8

(* Whatever the command line: if it is accepted, it was understood as a    *)
(* whole, and what the configuration says is what the words say.           *)
THEOREM AcceptedIsUnderstood == Spec => []AcceptedMeansAsWritten
<1>1. WordsInv /\ [Next]_vars => WordsInv'
  BY WordsStep
<1>2. WordsInv => AcceptedMeansAsWritten
  BY WordsUnderstood
<1>. QED
  BY WordsBegin, <1>1, <1>2, PTL DEF Spec
-----------------------------------------------------------------------------
(* The iterator *)

FrameSet == [at : Seq(STRING), left : SUBSET STRING]

LEMMA FrameWithLeft ==
  ASSUME NEW f \in FrameSet, NEW left
  PROVE  [f EXCEPT !.left = left] = [at |-> f.at, left |-> left]
<1>1. f = [at |-> f.at, left |-> f.left]
  BY DEF FrameSet
<1>. QED
  BY <1>1

LEMMA PoppedMeans ==
  ASSUME NEW fs \in Seq(FrameSet)
  PROVE  \E n \in 0 .. Len(fs) :
           /\ Popped(fs) = SubSeq(fs, 1, n)
           /\ \A k \in n + 1 .. Len(fs) : fs[k].left = {}
<1>. DEFINE N == Len(fs)
            Fits(n) == /\ n > 0 => fs[n].left # {}
                       /\ \A k \in n + 1 .. N : fs[k].left = {}
            n0 == CHOOSE n \in 0 .. N : Fits(n)
<1>0. N \in Nat
  OBVIOUS
<1>1. \E n \in 0 .. N : Fits(n)
  <2>. SUFFICES ASSUME \A n \in 0 .. N : ~Fits(n) PROVE FALSE
    OBVIOUS
  <2>. HIDE DEF N
  <2>. DEFINE A == {m \in 0 .. N : \A k \in N - m + 1 .. N : fs[k].left = {}}
  <2>1. 0 \in A
    BY <1>0
  <2>2. ASSUME NEW m \in A, m < N
        PROVE  m + 1 \in A
    <3>1. N - m \in 0 .. N /\ N - m > 0
      BY <1>0, <2>2
    <3>2. fs[N - m].left = {}
      BY <3>1
    <3>3. \A k \in N - (m + 1) + 1 .. N : k = N - m \/ k \in N - m + 1 .. N
      BY <1>0, <2>2
    <3>. QED
      BY <1>0, <2>2, <3>2, <3>3
  <2>. HIDE DEF A
  <2>3. N \in A
    BY <1>0, <2>1, <2>2, Climb DEF A
  <2>4. Fits(0)
    BY <1>0, <2>3 DEF A
  <2>. QED
    BY <1>0, <2>4
<1>2. n0 \in 0 .. N /\ Fits(n0)
  <2>. HIDE DEF Fits
  <2>. QED
    BY <1>1
<1>3. Popped(fs) = SubSeq(fs, 1, n0)
  BY DEF Popped
<1>. HIDE DEF n0
<1>. QED
  BY <1>2, <1>3

(* What Advance makes of the frames: name is taken out of the last one,    *)
(* and if the iterator goes deeper there is one more.  Frames at the end   *)
(* with nothing left are gone.                                             *)
Moved(old, new, name, deeper) ==
  LET L == Len(old)
      path == Append(old[L].at, name)
  IN /\ new \in Seq(FrameSet)
     /\ Len(new) <= L + 1
     /\ \A k \in 1 .. Len(new) :
          /\ k < L => new[k] = old[k]
          /\ k = L => new[k].at = old[L].at /\ new[k].left = old[L].left \ {name}
          /\ k = L + 1 => deeper /\ new[k] = Frame(path)
     /\ \A k \in 1 .. L : k > Len(new) =>
          /\ k < L => old[k].left = {}
          /\ k = L => old[L].left \subseteq {name}
     /\ deeper /\ Len(new) < L + 1 => Frame(path).left = {}

LEMMA FrameIsFrame ==
  ASSUME IsTree(tree), NEW path \in Seq(STRING)
  PROVE  /\ Frame(path) \in FrameSet
         /\ \A name \in Frame(path).left : name \notin {".", ".."}
<1>1. ASSUME NEW name \in Children(tree, LinkFree(path))
      PROVE  name \in STRING \ {".", ".."}
  <2>1. PICK q \in tree.dirs \union tree.files \union DOMAIN tree.links :
          q # <<>> /\ Last(q) = name
    BY DEF Children
  <2>2. IsNormal(q)
    BY DEF IsTree
  <2>3. Len(q) \in Nat \ {0} /\ Last(q) = q[Len(q)] /\ Last(q) \in STRING /\ q \in Seq(STRING)
    BY <2>1, <2>2, FrontAndLast DEF IsNormal
  <2>. QED
    BY <2>1, <2>2, <2>3 DEF IsNormal
<1>. QED
  BY <1>1 DEF Frame, FrameSet

LEMMA AdvanceMoves ==
  ASSUME IsTree(tree), frames \in Seq(FrameSet), frames # <<>>,
         NEW name \in Last(frames).left, NEW recursion \in BOOLEAN
  PROVE  Moved(frames, Advance(name, recursion), name,
               recursion /\ IsDirectory(tree, Append(Last(frames).at, name)))
<1>. DEFINE L == Len(frames)
            path == Append(Last(frames).at, name)
            deeper == recursion /\ IsDirectory(tree, path)
            shorter == [at |-> frames[L].at, left |-> frames[L].left \ {name}]
            rest == [frames EXCEPT ![Len(frames)].left = @ \ {name}]
            fs == IF deeper THEN Append(rest, Frame(path)) ELSE rest
<1>1. L \in Nat \ {0} /\ Last(frames) = frames[L] /\ frames[L] \in FrameSet
  <2>1. L \in Nat \ {0}
    BY EmptySeq, LenProperties
  <2>. QED
    BY <2>1, ElementOfSeq DEF Last
<1>2. path \in Seq(STRING) /\ name \in STRING
  <2>1. name \in STRING /\ Last(frames).at \in Seq(STRING)
    BY <1>1 DEF FrameSet
  <2>. QED
    BY <2>1, AppendProperties
<1>3. Frame(path) \in FrameSet
  BY <1>2, FrameIsFrame
<1>4. shorter \in FrameSet
  BY <1>1 DEF FrameSet
<1>5. /\ rest \in Seq(FrameSet) /\ Len(rest) = L
      /\ \A k \in 1 .. L : k < L => rest[k] = frames[k]
      /\ rest[L] = shorter
  <2>1. rest = [frames EXCEPT ![L] = [frames[L] EXCEPT !.left = @ \ {name}]]
    OBVIOUS
  <2>2. [frames[L] EXCEPT !.left = @ \ {name}] = shorter
    BY <1>1, FrameWithLeft
  <2>3. rest = [frames EXCEPT ![L] = shorter]
    BY <2>1, <2>2
  <2>. HIDE DEF rest, shorter
  <2>. QED
    BY <1>1, <1>4, <2>3, ExceptSeq
<1>. HIDE DEF rest
<1>6. /\ fs \in Seq(FrameSet) /\ Len(fs) = (IF deeper THEN L + 1 ELSE L)
      /\ \A k \in 1 .. L : k < L => fs[k] = frames[k]
      /\ fs[L] = shorter
      /\ deeper => fs[L + 1] = Frame(path)
  <2>1. CASE deeper
    <3>. DEFINE more == Append(rest, Frame(path))
    <3>1. /\ more \in Seq(FrameSet) /\ Len(more) = Len(rest) + 1
          /\ \A k \in 1 .. Len(rest) : more[k] = rest[k]
          /\ more[Len(rest) + 1] = Frame(path)
      BY <1>3, <1>5, AppendProperties
    <3>2. fs = more
      BY <2>1
    <3>. HIDE DEF more, fs, shorter
    <3>. QED
      BY <1>1, <1>5, <2>1, <3>1, <3>2
  <2>2. CASE ~deeper
    <3>1. fs = rest
      BY <2>2
    <3>. HIDE DEF fs, shorter
    <3>. QED
      BY <1>5, <2>2, <3>1
  <2>. QED
    BY <2>1, <2>2
<1>7. Advance(name, recursion) = Popped(fs)
  BY DEF Advance, rest
<1>. HIDE DEF fs
<1>8. PICK n \in 0 .. Len(fs) :
        /\ Popped(fs) = SubSeq(fs, 1, n)
        /\ \A k \in n + 1 .. Len(fs) : fs[k].left = {}
  BY <1>6, PoppedMeans
<1>. DEFINE new == Popped(fs)
<1>9. new \in Seq(FrameSet) /\ Len(new) = n /\ \A k \in 1 .. n : new[k] = fs[k]
  BY <1>6, <1>8, SubSeqProperties
<1>. HIDE DEF new, deeper, path
<1>10. /\ Len(new) <= L + 1
       /\ \A k \in 1 .. Len(new) :
            /\ k < L => new[k] = frames[k]
            /\ k = L => new[k] = shorter
            /\ k = L + 1 => deeper /\ new[k] = Frame(path)
  BY <1>1, <1>6, <1>9
<1>11. /\ \A k \in 1 .. L : k > Len(new) =>
            /\ k < L => frames[k].left = {}
            /\ k = L => shorter.left = {}
       /\ deeper /\ Len(new) < L + 1 => Frame(path).left = {}
  <2>1. \A k \in 1 .. Len(fs) : k > Len(new) => fs[k].left = {}
    BY <1>6, <1>8, <1>9
  <2>. HIDE DEF shorter
  <2>. QED
    BY <1>1, <1>6, <1>9, <2>1
<1>12. Moved(frames, new, name, deeper)
  BY <1>1, <1>9, <1>10, <1>11 DEF Moved, path
<1>. QED
  BY <1>7, <1>12 DEF new, deeper, path
-----------------------------------------------------------------------------
(* The open directories *)

LEMMA UnderItself ==
  ASSUME NEW p \in Seq(STRING)
  PROVE  IsUnder(p, p)
<1>1. Len(p) <= Len(p)
  BY LenProperties
<1>. QED
  BY <1>1 DEF IsUnder, IsPrefix

LEMMA UnderUnder ==
  ASSUME NEW p \in Seq(STRING), NEW q \in Seq(STRING), NEW r \in Seq(STRING),
         IsUnder(p, q), IsUnder(q, r)
  PROVE  IsUnder(p, r)
<1>1. Len(q) <= Len(p) /\ \A k \in 1 .. Len(q) : q[k] = p[k]
  BY PrefixMeans
<1>2. Len(r) <= Len(q) /\ \A k \in 1 .. Len(r) : r[k] = q[k]
  BY PrefixMeans
<1>3. Len(p) \in Nat /\ Len(q) \in Nat /\ Len(r) \in Nat
  BY LenProperties
<1>4. Len(r) <= Len(p) /\ \A k \in 1 .. Len(r) : r[k] = p[k]
  BY <1>1, <1>2, <1>3
<1>. QED
  BY <1>4, PrefixMeans

LEMMA AppendedIsUnder ==
  ASSUME NEW p \in Seq(STRING), NEW name \in STRING
  PROVE  IsUnder(Append(p, name), p) /\ Append(p, name) \in Seq(STRING)
<1>. DEFINE q == Append(p, name)
<1>1. /\ q \in Seq(STRING) /\ Len(q) = Len(p) + 1 /\ Len(p) \in Nat
      /\ \A k \in 1 .. Len(p) : q[k] = p[k]
  BY Appended
<1>. HIDE DEF q
<1>2. Len(p) <= Len(q) /\ \A k \in 1 .. Len(p) : p[k] = q[k]
  BY <1>1
<1>. QED
  BY <1>1, <1>2, PrefixMeans DEF q

(* A path lies below at most one entry of a directory. *)
LEMMA OneEntryAbove ==
  ASSUME NEW p \in Seq(STRING), NEW d \in Seq(STRING), NEW m \in STRING, NEW n \in STRING,
         IsUnder(p, Append(d, m)), IsUnder(p, Append(d, n))
  PROVE  m = n
<1>. DEFINE a == Append(d, m)
            b == Append(d, n)
<1>1. a \in Seq(STRING) /\ Len(a) = Len(d) + 1 /\ Len(d) \in Nat /\ a[Len(a)] = m
  BY Appended
<1>2. b \in Seq(STRING) /\ Len(b) = Len(d) + 1 /\ b[Len(b)] = n
  BY Appended
<1>3. IsUnder(p, a) /\ IsUnder(p, b)
  OBVIOUS
<1>. HIDE DEF a, b
<1>4. \A k \in 1 .. Len(a) : a[k] = p[k]
  BY <1>1, <1>3, PrefixMeans
<1>5. \A k \in 1 .. Len(b) : b[k] = p[k]
  BY <1>2, <1>3, PrefixMeans
<1>6. Len(a) \in 1 .. Len(a) /\ Len(b) = Len(a)
  BY <1>1, <1>2
<1>7. a[Len(a)] = p[Len(a)] /\ b[Len(a)] = p[Len(a)]
  BY <1>4, <1>5, <1>6
<1>. QED
  BY <1>1, <1>2, <1>6, <1>7

LEMMA FrontOfAppended ==
  ASSUME NEW p \in Seq(STRING), NEW name \in STRING
  PROVE  Front(Append(p, name)) = p /\ Last(Append(p, name)) = name
<1>. DEFINE q == Append(p, name)
<1>1. /\ q \in Seq(STRING) /\ Len(q) = Len(p) + 1 /\ Len(p) \in Nat
      /\ \A k \in 1 .. Len(p) : q[k] = p[k]
      /\ q[Len(q)] = name
  BY Appended
<1>2. q # <<>>
  BY AppendProperties
<1>. HIDE DEF q
<1>3. /\ Front(q) \in Seq(STRING) /\ Len(Front(q)) = Len(q) - 1 /\ Last(q) = q[Len(q)]
      /\ \A k \in 1 .. Len(q) - 1 : Front(q)[k] = q[k]
  BY <1>1, <1>2, FrontAndLast
<1>4. Len(Front(q)) = Len(p) /\ \A k \in 1 .. Len(p) : Front(q)[k] = p[k]
  BY <1>1, <1>3
<1>5. Front(q) = p
  BY ONLY <1>3, <1>4, p \in Seq(STRING), SeqEqual
<1>. QED
  BY <1>1, <1>3, <1>5 DEF q

(* Each open directory lies below an entry of every one before it that has *)
(* been passed.                                                            *)
FramesOk(fs) ==
  /\ fs \in Seq(FrameSet)
  /\ \A k \in 1 .. Len(fs) :
       /\ IsUnder(fs[k].at, input_root)
       /\ \A n \in fs[k].left : n \notin {".", ".."}
       /\ \A j \in 1 .. Len(fs) : j < k =>
            \E m \in STRING : m \notin fs[j].left /\ IsUnder(fs[k].at, Append(fs[j].at, m))

LEMMA FrameFacts ==
  ASSUME NEW fs, FramesOk(fs), fs # <<>>, NEW name \in fs[Len(fs)].left
  PROVE  /\ Len(fs) \in Nat \ {0}
         /\ \A k \in 1 .. Len(fs) : fs[k].at \in Seq(STRING) /\ fs[k].left \subseteq STRING
         /\ name \in STRING \ {".", ".."}
         /\ Append(fs[Len(fs)].at, name) \in Seq(STRING)
         /\ IsUnder(Append(fs[Len(fs)].at, name), fs[Len(fs)].at)
<1>1. Len(fs) \in Nat \ {0}
  BY EmptySeq, LenProperties DEF FramesOk
<1>2. \A k \in 1 .. Len(fs) : fs[k] \in FrameSet
  BY ElementOfSeq DEF FramesOk
<1>3. \A k \in 1 .. Len(fs) : fs[k].at \in Seq(STRING) /\ fs[k].left \subseteq STRING
  BY <1>2 DEF FrameSet
<1>4. name \in STRING \ {".", ".."} /\ fs[Len(fs)].at \in Seq(STRING)
  BY <1>1, <1>3 DEF FramesOk
<1>. QED
  BY <1>1, <1>3, <1>4, AppendedIsUnder

LEMMA FramesMove ==
  ASSUME IsTree(tree), input_root \in Seq(STRING),
         NEW fs, FramesOk(fs), fs # <<>>, NEW name \in fs[Len(fs)].left,
         NEW new, NEW deeper, Moved(fs, new, name, deeper)
  PROVE  FramesOk(new)
<1>. DEFINE L == Len(fs)
            path == Append(fs[L].at, name)
<1>1. /\ L \in Nat \ {0}
      /\ \A k \in 1 .. L : fs[k].at \in Seq(STRING) /\ fs[k].left \subseteq STRING
      /\ name \in STRING /\ path \in Seq(STRING) /\ IsUnder(path, fs[L].at)
  BY FrameFacts
<1>2. /\ new \in Seq(FrameSet)
      /\ Len(new) <= L + 1
      /\ \A k \in 1 .. Len(new) :
          /\ k < L => new[k] = fs[k]
          /\ k = L => new[k].at = fs[L].at /\ new[k].left = fs[L].left \ {name}
          /\ k = L + 1 => deeper /\ new[k] = Frame(path)
  BY DEF Moved
<1>3. /\ Frame(path).at = path
      /\ \A n \in Frame(path).left : n \notin {".", ".."}
  BY <1>1, FrameIsFrame DEF Frame
<1>4. Len(new) \in Nat
  BY <1>2, LenProperties
<1>5. \A k \in 1 .. L : /\ IsUnder(fs[k].at, input_root)
                        /\ \A n \in fs[k].left : n \notin {".", ".."}
  BY DEF FramesOk
<1>6. \A k \in 1 .. Len(new) : k < L \/ k = L \/ k = L + 1
  BY <1>1, <1>2, <1>4
<1>7. \A k \in 1 .. Len(new) : k <= L => new[k].at = fs[k].at /\ new[k].left \subseteq fs[k].left
  BY <1>1, <1>2, <1>6
<1>. HIDE DEF path, L
<1>8. ASSUME NEW k \in 1 .. Len(new)
      PROVE  /\ IsUnder(new[k].at, input_root)
             /\ \A n \in new[k].left : n \notin {".", ".."}
  <2>1. CASE k <= L
    BY <1>5, <1>7, <2>1
  <2>2. CASE k = L + 1
    <3>1. IsUnder(fs[L].at, input_root) /\ fs[L].at \in Seq(STRING)
      BY <1>1, <1>5
    <3>2. IsUnder(path, input_root)
      BY <1>1, <3>1, UnderUnder
    <3>. QED
      BY <1>2, <1>3, <2>2, <3>2
  <2>. QED
    BY <1>1, <1>6, <2>1, <2>2
<1>9. ASSUME NEW k \in 1 .. Len(new), NEW j \in 1 .. Len(new), j < k
      PROVE  \E m \in STRING : m \notin new[j].left /\ IsUnder(new[k].at, Append(new[j].at, m))
  <2>1. CASE k <= L
    <3>1. k \in 1 .. L /\ j \in 1 .. L
      BY <1>1, <1>4, <1>9, <2>1
    <3>2. PICK m \in STRING : m \notin fs[j].left /\ IsUnder(fs[k].at, Append(fs[j].at, m))
      BY <1>9, <3>1 DEF FramesOk, L
    <3>3. new[k].at = fs[k].at /\ new[j].at = fs[j].at /\ new[j].left \subseteq fs[j].left
      BY <1>7, <3>1
    <3>. QED
      BY <3>2, <3>3
  <2>2. CASE k = L + 1 /\ j < L
    <3>1. L \in 1 .. L /\ j \in 1 .. L /\ j <= L
      BY <1>1, <1>4, <2>2
    <3>2. PICK m \in STRING : m \notin fs[j].left /\ IsUnder(fs[L].at, Append(fs[j].at, m))
      BY <2>2, <3>1 DEF FramesOk, L
    <3>3. new[k].at = path /\ new[j].at = fs[j].at /\ new[j].left \subseteq fs[j].left
      BY <1>2, <1>3, <1>7, <2>2, <3>1
    <3>4. fs[j].at \in Seq(STRING) /\ fs[L].at \in Seq(STRING)
      BY <1>1, <3>1
    <3>5. Append(fs[j].at, m) \in Seq(STRING)
      BY <3>4, AppendedIsUnder
    <3>6. IsUnder(path, Append(fs[j].at, m))
      BY <1>1, <3>2, <3>4, <3>5, UnderUnder
    <3>. QED
      BY <3>2, <3>3, <3>6
  <2>3. CASE k = L + 1 /\ j = L
    <3>1. new[k].at = path /\ new[j].at = fs[L].at /\ new[j].left = fs[L].left \ {name}
      BY <1>2, <1>3, <2>3
    <3>2. IsUnder(path, Append(fs[L].at, name))
      BY <1>1, UnderItself DEF path
    <3>. QED
      BY <1>1, <3>1, <3>2
  <2>. QED
    BY <1>1, <1>4, <1>6, <1>9, <2>1, <2>2, <2>3
<1>. QED
  BY <1>2, <1>8, <1>9 DEF FramesOk

LEMMA PrefixesOfAppended ==
  ASSUME NEW p \in Seq(STRING), NEW name \in STRING, NEW d \in Prefixes(Append(p, name))
  PROVE  d \in Prefixes(p) \/ d = Append(p, name)
<1>. DEFINE q == Append(p, name)
<1>1. /\ q \in Seq(STRING) /\ Len(q) = Len(p) + 1 /\ Len(p) \in Nat
      /\ \A k \in 1 .. Len(p) : q[k] = p[k]
  BY Appended
<1>2. PICK l \in 0 .. Len(q) : d = SubSeq(q, 1, l)
  BY DEF Prefixes
<1>. HIDE DEF q
<1>3. CASE l = Len(q)
  <2>1. d = q
    BY <1>1, <1>2, <1>3, Beginning
  <2>. QED
    BY <2>1 DEF q
<1>4. CASE l \in 0 .. Len(p)
  <2>. DEFINE e == SubSeq(p, 1, l)
  <2>1. e \in Seq(STRING) /\ Len(e) = l /\ \A k \in 1 .. l : e[k] = p[k]
    BY <1>4, Beginning
  <2>2. d \in Seq(STRING) /\ Len(d) = l /\ \A k \in 1 .. l : d[k] = q[k]
    BY <1>1, <1>2, Beginning
  <2>3. e \in Prefixes(p)
    BY <1>4 DEF Prefixes
  <2>. HIDE DEF e
  <2>4. \A k \in 1 .. l : d[k] = e[k]
    BY <1>1, <1>4, <2>1, <2>2
  <2>5. d = e
    BY ONLY <2>1, <2>2, <2>4, SeqEqual
  <2>. QED
    BY <2>3, <2>5
<1>5. l = Len(q) \/ l \in 0 .. Len(p)
  BY <1>1
<1>. QED
  BY <1>3, <1>4, <1>5

(* While no error was reported: the open directories are in the project,   *)
(* none above them is one that is left out, and the links among them lead  *)
(* to different directories that were noted.                               *)
PathsOk(fs, seen_directories) ==
  /\ \A k \in 1 .. Len(fs) :
       /\ IsUnder(LinkFree(fs[k].at), project_root)
       /\ \A d \in Prefixes(fs[k].at) :
            IsUnder(d, input_root) /\ d # input_root => ~SkippedDirectory(d)
       /\ k > 1 /\ IsSymlink(fs[k].at) => LinkFree(fs[k].at) \in seen_directories
  /\ \A j, k \in 1 .. Len(fs) :
       /\ j > 1 /\ IsSymlink(fs[j].at)
       /\ k > 1 /\ IsSymlink(fs[k].at)
       /\ LinkFree(fs[j].at) = LinkFree(fs[k].at)
       => j = k

(* What makes it right that the iterator goes into a directory *)
MayEnter(path, noted, noting) ==
  /\ ~SkippedDirectory(path)
  /\ IsUnder(LinkFree(path), project_root)
  /\ IsSymlink(path) => LinkFree(path) \notin noted /\ LinkFree(path) \in noting

LEMMA PathsMove ==
  ASSUME IsTree(tree), input_root \in Seq(STRING),
         NEW fs, FramesOk(fs), fs # <<>>, NEW name \in fs[Len(fs)].left,
         NEW new, NEW deeper, Moved(fs, new, name, deeper),
         NEW vis, PathsOk(fs, vis), NEW more, vis \subseteq more,
         NEW path, path = Append(fs[Len(fs)].at, name),
         deeper => MayEnter(path, vis, more)
  PROVE  PathsOk(new, more)
<1>. DEFINE L == Len(fs)
<1>0. deeper => /\ ~SkippedDirectory(path)
                /\ IsUnder(LinkFree(path), project_root)
                /\ IsSymlink(path) => LinkFree(path) \notin vis /\ LinkFree(path) \in more
  BY DEF MayEnter
<1>1. /\ L \in Nat \ {0}
      /\ \A k \in 1 .. L : fs[k].at \in Seq(STRING)
      /\ name \in STRING
  BY FrameFacts
<1>2. /\ Len(new) <= L + 1 /\ Len(new) \in Nat
      /\ \A k \in 1 .. Len(new) :
          /\ k < L => new[k] = fs[k]
          /\ k = L => new[k].at = fs[L].at
          /\ k = L + 1 => deeper /\ new[k] = Frame(path)
  BY LenProperties DEF Moved
<1>3. \A k \in 1 .. Len(new) : (k \in 1 .. L /\ new[k].at = fs[k].at) \/ (k = L + 1 /\ deeper /\ new[k].at = path)
  <2>1. Frame(path).at = path
    BY DEF Frame
  <2>. SUFFICES ASSUME NEW k \in 1 .. Len(new)
                PROVE  \/ k \in 1 .. L /\ new[k].at = fs[k].at
                       \/ k = L + 1 /\ deeper /\ new[k].at = path
    OBVIOUS
  <2>2. CASE k < L
    BY <1>1, <1>2, <2>2
  <2>3. CASE k = L
    BY <1>1, <1>2, <2>3
  <2>4. CASE k = L + 1
    BY <1>2, <2>1, <2>4
  <2>. QED
    BY <1>1, <1>2, <2>2, <2>3, <2>4
<1>4. /\ \A k \in 1 .. L :
           /\ IsUnder(LinkFree(fs[k].at), project_root)
           /\ \A d \in Prefixes(fs[k].at) :
                IsUnder(d, input_root) /\ d # input_root => ~SkippedDirectory(d)
           /\ k > 1 /\ IsSymlink(fs[k].at) => LinkFree(fs[k].at) \in vis
      /\ \A j, k \in 1 .. L :
           /\ j > 1 /\ IsSymlink(fs[j].at)
           /\ k > 1 /\ IsSymlink(fs[k].at)
           /\ LinkFree(fs[j].at) = LinkFree(fs[k].at)
           => j = k
  BY DEF PathsOk
<1>5. \A d \in Prefixes(path) : d \in Prefixes(fs[L].at) \/ d = path
  <2>1. fs[L].at \in Seq(STRING)
    BY <1>1
  <2>. QED
    BY <1>1, <2>1, PrefixesOfAppended
<1>6. L \in 1 .. L
  BY <1>1
<1>. HIDE DEF L
<1>7. ASSUME NEW k \in 1 .. Len(new)
      PROVE  /\ IsUnder(LinkFree(new[k].at), project_root)
             /\ \A d \in Prefixes(new[k].at) :
                  IsUnder(d, input_root) /\ d # input_root => ~SkippedDirectory(d)
             /\ k > 1 /\ IsSymlink(new[k].at) => LinkFree(new[k].at) \in more
  <2>1. CASE k \in 1 .. L /\ new[k].at = fs[k].at
    BY <1>4, <2>1
  <2>2. CASE deeper /\ new[k].at = path
    <3>1. \A d \in Prefixes(path) : IsUnder(d, input_root) /\ d # input_root => ~SkippedDirectory(d)
      BY <1>0, <1>4, <1>5, <1>6, <2>2
    <3>. QED
      BY <1>0, <2>2, <3>1
  <2>. QED
    BY <1>3, <2>1, <2>2
<1>8. ASSUME NEW j \in 1 .. Len(new), NEW k \in 1 .. Len(new),
             j > 1, IsSymlink(new[j].at), k > 1, IsSymlink(new[k].at),
             LinkFree(new[j].at) = LinkFree(new[k].at)
      PROVE  j = k
  <2>1. CASE j \in 1 .. L /\ new[j].at = fs[j].at /\ k \in 1 .. L /\ new[k].at = fs[k].at
    BY <1>4, <1>8, <2>1
  <2>2. CASE j = L + 1 /\ k = L + 1
    BY <2>2
  <2>3. CASE j \in 1 .. L /\ new[j].at = fs[j].at /\ deeper /\ new[k].at = path
    BY <1>0, <1>4, <1>8, <2>3
  <2>4. CASE k \in 1 .. L /\ new[k].at = fs[k].at /\ deeper /\ new[j].at = path
    BY <1>0, <1>4, <1>8, <2>4
  <2>. QED
    BY <1>3, <2>1, <2>2, <2>3, <2>4
<1>. QED
  BY <1>7, <1>8 DEF PathsOk

-----------------------------------------------------------------------------
(* The headers *)

HeadersOk(hs, fs) ==
  /\ hs \in Seq(Seq(STRING))
  /\ \A i \in 1 .. Len(hs) :
       /\ IsUnder(hs[i], input_root) /\ IsCandidate(hs[i])
       /\ \A k \in 1 .. Len(fs) : \A n \in fs[k].left : ~IsUnder(hs[i], Append(fs[k].at, n))
  /\ \A i, j \in 1 .. Len(hs) : hs[i] = hs[j] => i = j

LEMMA HeadersMove ==
  ASSUME IsTree(tree), input_root \in Seq(STRING),
         NEW fs, FramesOk(fs), fs # <<>>, NEW name \in fs[Len(fs)].left,
         NEW new, NEW deeper, Moved(fs, new, name, deeper),
         NEW hs, HeadersOk(hs, fs)
  PROVE  HeadersOk(hs, new)
<1>. DEFINE L == Len(fs)
            path == Append(fs[L].at, name)
<1>1. /\ L \in Nat \ {0}
      /\ \A k \in 1 .. L : fs[k].at \in Seq(STRING) /\ fs[k].left \subseteq STRING
      /\ name \in STRING /\ path \in Seq(STRING)
  BY FrameFacts
<1>2. /\ Len(new) <= L + 1 /\ Len(new) \in Nat
      /\ \A k \in 1 .. Len(new) :
          /\ k < L => new[k] = fs[k]
          /\ k = L => new[k].at = fs[L].at /\ new[k].left = fs[L].left \ {name}
          /\ k = L + 1 => deeper /\ new[k] = Frame(path)
  BY LenProperties DEF Moved
<1>3. Frame(path).at = path /\ Frame(path).left \subseteq STRING
  BY <1>1, FrameIsFrame DEF Frame, FrameSet
<1>4. \A k \in 1 .. Len(new) :
        \/ k \in 1 .. L /\ new[k].at = fs[k].at /\ new[k].left \subseteq fs[k].left
        \/ k = L + 1 /\ new[k].at = path /\ new[k].left \subseteq STRING
  <2>. SUFFICES ASSUME NEW k \in 1 .. Len(new)
                PROVE  \/ k \in 1 .. L /\ new[k].at = fs[k].at /\ new[k].left \subseteq fs[k].left
                       \/ k = L + 1 /\ new[k].at = path /\ new[k].left \subseteq STRING
    OBVIOUS
  <2>. HIDE DEF L, path
  <2>1. CASE k < L
    BY <1>1, <1>2, <2>1
  <2>2. CASE k = L
    BY <1>1, <1>2, <2>2 DEF L
  <2>3. CASE k = L + 1
    BY <1>2, <1>3, <2>3
  <2>. QED
    BY <1>1, <1>2, <2>1, <2>2, <2>3
<1>5. L \in 1 .. L
  BY <1>1
<1>6. ASSUME NEW i \in 1 .. Len(hs), NEW k \in 1 .. Len(new), NEW n \in new[k].left,
             IsUnder(hs[i], Append(new[k].at, n))
      PROVE  FALSE
  <2>0. hs[i] \in Seq(STRING)
    BY DEF HeadersOk
  <2>1. CASE k \in 1 .. L /\ new[k].at = fs[k].at /\ new[k].left \subseteq fs[k].left
    BY <1>6, <2>1 DEF HeadersOk
  <2>2. CASE k = L + 1 /\ new[k].at = path /\ new[k].left \subseteq STRING
    <3>1. ~IsUnder(hs[i], path)
      BY <1>5 DEF HeadersOk
    <3>. HIDE DEF path
    <3>2. n \in STRING /\ Append(path, n) \in Seq(STRING) /\ IsUnder(Append(path, n), path)
      BY <1>1, <2>2, AppendedIsUnder
    <3>3. IsUnder(hs[i], path)
      BY <1>1, <1>6, <2>0, <2>2, <3>2, UnderUnder
    <3>. QED
      BY <3>1, <3>3
  <2>. QED
    BY <1>4, <2>1, <2>2
<1>. QED
  BY <1>6 DEF HeadersOk

LEMMA HeadersGrow ==
  ASSUME IsTree(tree), input_root \in Seq(STRING),
         NEW fs, FramesOk(fs), fs # <<>>, NEW name \in fs[Len(fs)].left,
         NEW new, Moved(fs, new, name, FALSE),
         NEW hs, HeadersOk(hs, fs),
         NEW path, path = Append(fs[Len(fs)].at, name), IsCandidate(path)
  PROVE  HeadersOk(Append(hs, path), new)
<1>. DEFINE L == Len(fs)
            more == Append(hs, path)
<1>1. /\ L \in Nat \ {0}
      /\ \A k \in 1 .. L : fs[k].at \in Seq(STRING) /\ fs[k].left \subseteq STRING
      /\ name \in STRING /\ path \in Seq(STRING) /\ IsUnder(path, fs[L].at)
  BY FrameFacts
<1>2. /\ Len(new) <= L + 1 /\ Len(new) \in Nat
      /\ \A k \in 1 .. Len(new) :
          /\ k < L => new[k] = fs[k]
          /\ k = L => new[k].at = fs[L].at /\ new[k].left = fs[L].left \ {name}
          /\ k # L + 1
  BY LenProperties DEF Moved
<1>3. HeadersOk(hs, new)
  BY HeadersMove
<1>4. /\ more \in Seq(Seq(STRING)) /\ Len(more) = Len(hs) + 1 /\ Len(hs) \in Nat
      /\ \A i \in 1 .. Len(hs) : more[i] = hs[i]
      /\ more[Len(hs) + 1] = path
  BY <1>1, <1>3, AppendProperties, LenProperties DEF HeadersOk
<1>5. L \in 1 .. L
  BY <1>1
<1>6. IsUnder(path, input_root)
  <2>1. IsUnder(fs[L].at, input_root) /\ fs[L].at \in Seq(STRING)
    BY <1>1, <1>5 DEF FramesOk
  <2>. QED
    BY <1>1, <2>1, UnderUnder
<1>7. \A i \in 1 .. Len(hs) : hs[i] # path
  <2>1. IsUnder(path, path)
    BY <1>1, UnderItself
  <2>2. \A i \in 1 .. Len(hs) : ~IsUnder(hs[i], path)
    BY <1>5 DEF HeadersOk
  <2>. QED
    BY <2>1, <2>2
<1>8. ASSUME NEW k \in 1 .. Len(new), NEW n \in new[k].left, IsUnder(path, Append(new[k].at, n))
      PROVE  FALSE
  <2>1. CASE k < L
    <3>1. k \in 1 .. L /\ new[k] = fs[k] /\ n \in STRING /\ fs[k].at \in Seq(STRING)
      BY <1>1, <1>2, <2>1
    <3>2. PICK m \in STRING : m \notin fs[k].left /\ IsUnder(fs[L].at, Append(fs[k].at, m))
      BY <1>5, <2>1, <3>1 DEF FramesOk
    <3>3. Append(fs[k].at, m) \in Seq(STRING) /\ fs[L].at \in Seq(STRING)
      BY <1>1, <1>5, <3>1, AppendedIsUnder
    <3>4. IsUnder(path, Append(fs[k].at, m))
      BY <1>1, <3>2, <3>3, UnderUnder
    <3>5. m = n
      BY <1>1, <1>8, <3>1, <3>4, OneEntryAbove
    <3>. QED
      BY <1>8, <3>1, <3>2, <3>5
  <2>2. CASE k = L
    <3>1. new[k].at = fs[L].at /\ n \in STRING /\ n # name /\ fs[L].at \in Seq(STRING)
      BY <1>1, <1>2, <1>5, <2>2
    <3>2. IsUnder(path, Append(fs[L].at, name))
      BY <1>1, UnderItself
    <3>3. n = name
      BY <1>1, <1>8, <3>1, <3>2, OneEntryAbove
    <3>. QED
      BY <3>1, <3>3
  <2>. QED
    BY <1>1, <1>2, <2>1, <2>2
<1>. HIDE DEF more, L
<1>9. \A i \in 1 .. Len(more) :
        \/ i \in 1 .. Len(hs) /\ more[i] = hs[i]
        \/ i = Len(hs) + 1 /\ more[i] = path
  BY ONLY <1>4
<1>10. \A i, j \in 1 .. Len(more) : more[i] = more[j] => i = j
  BY <1>3, <1>7, <1>9 DEF HeadersOk
<1>11. ASSUME NEW i \in 1 .. Len(more)
       PROVE  /\ IsUnder(more[i], input_root) /\ IsCandidate(more[i])
              /\ \A k \in 1 .. Len(new) : \A n \in new[k].left :
                   ~IsUnder(more[i], Append(new[k].at, n))
  <2>1. CASE i \in 1 .. Len(hs) /\ more[i] = hs[i]
    BY <1>3, <2>1 DEF HeadersOk
  <2>2. CASE more[i] = path
    BY <1>6, <1>8, <2>2
  <2>. QED
    BY <1>9, <2>1, <2>2
<1>12. HeadersOk(more, new)
  BY <1>4, <1>10, <1>11 DEF HeadersOk
<1>. QED
  BY <1>12 DEF more

(* A path that was found while no error was reported *)
GroundsOk(hs) ==
  \A i \in 1 .. Len(hs) :
    /\ IsUnder(LinkFree(hs[i]), project_root)
    /\ \A d \in DirectoriesAbove(hs[i]) : ~SkippedDirectory(d)

LEMMA GroundsGrow ==
  ASSUME IsTree(tree), input_root \in Seq(STRING),
         NEW fs, FramesOk(fs), fs # <<>>, NEW name \in fs[Len(fs)].left,
         NEW vis, PathsOk(fs, vis),
         NEW hs \in Seq(Seq(STRING)), GroundsOk(hs),
         NEW path, path = Append(fs[Len(fs)].at, name), IsUnder(LinkFree(path), project_root)
  PROVE  GroundsOk(Append(hs, path))
<1>. DEFINE more == Append(hs, path)
            dir == fs[Len(fs)].at
<1>1. /\ Len(fs) \in 1 .. Len(fs) /\ dir \in Seq(STRING)
      /\ name \in STRING /\ path \in Seq(STRING)
  BY FrameFacts
<1>2. /\ Len(more) = Len(hs) + 1 /\ Len(hs) \in Nat
      /\ \A i \in 1 .. Len(hs) : more[i] = hs[i]
      /\ more[Len(hs) + 1] = path
  BY <1>1, AppendProperties, LenProperties
<1>. HIDE DEF more
<1>3. Front(path) = dir
  BY <1>1, FrontOfAppended
<1>4. \A d \in DirectoriesAbove(path) : ~SkippedDirectory(d)
  BY <1>1, <1>3 DEF DirectoriesAbove, PathsOk
<1>5. ASSUME NEW i \in 1 .. Len(more)
      PROVE  /\ IsUnder(LinkFree(more[i]), project_root)
             /\ \A d \in DirectoriesAbove(more[i]) : ~SkippedDirectory(d)
  <2>1. i \in 1 .. Len(hs) \/ i = Len(hs) + 1
    BY <1>2
  <2>2. CASE i \in 1 .. Len(hs)
    BY <1>2, <2>2 DEF GroundsOk
  <2>3. CASE i = Len(hs) + 1
    BY <1>2, <1>4, <2>3
  <2>. QED
    BY <2>1, <2>2, <2>3
<1>. QED
  BY <1>5 DEF GroundsOk, more

(* A candidate of the tree's own is in the list or still ahead. *)
Wanted(f) ==
  f \in tree.files /\ IsUnder(f, input_root) /\ Reached(f) /\ IsCandidate(f)

Ahead(f, fs) ==
  \E k \in 1 .. Len(fs) : \E n \in fs[k].left : IsUnder(f, Append(fs[k].at, n))

LEMMA AheadMoves ==
  ASSUME IsTree(tree), input_root \in Seq(STRING),
         NEW fs, FramesOk(fs), fs # <<>>, NEW name \in fs[Len(fs)].left,
         NEW new, NEW deeper, Moved(fs, new, name, deeper),
         NEW f, Ahead(f, fs)
  PROVE  Ahead(f, new) \/ IsUnder(f, Append(fs[Len(fs)].at, name))
<1>. DEFINE L == Len(fs)
<1>1. L \in Nat \ {0}
  BY FrameFacts
<1>2. /\ Len(new) <= L + 1 /\ Len(new) \in Nat
      /\ \A k \in 1 .. Len(new) :
          /\ k < L => new[k] = fs[k]
          /\ k = L => new[k].at = fs[L].at /\ new[k].left = fs[L].left \ {name}
      /\ \A k \in 1 .. L : k > Len(new) =>
          /\ k < L => fs[k].left = {}
          /\ k = L => fs[L].left \subseteq {name}
  BY LenProperties DEF Moved
<1>3. PICK k \in 1 .. L : \E n \in fs[k].left : IsUnder(f, Append(fs[k].at, n))
  BY DEF Ahead
<1>4. PICK n \in fs[k].left : IsUnder(f, Append(fs[k].at, n))
  BY <1>3
<1>. HIDE DEF L
<1>5. CASE k < L
  <2>1. k \in 1 .. Len(new) /\ new[k] = fs[k]
    BY <1>1, <1>2, <1>4, <1>5
  <2>. QED
    BY <1>4, <2>1 DEF Ahead
<1>6. CASE k = L /\ n # name
  <2>1. k \in 1 .. Len(new) /\ new[k].at = fs[k].at /\ n \in new[k].left
    BY <1>1, <1>2, <1>4, <1>6
  <2>. QED
    BY <1>4, <2>1 DEF Ahead
<1>7. CASE k = L /\ n = name
  BY <1>4, <1>7 DEF L
<1>. QED
  BY <1>1, <1>4, <1>5, <1>6, <1>7

(* Where the way to a file of the tree leads on *)
LEMMA WayOn ==
  ASSUME IsTree(tree), NEW f \in tree.files, NEW e \in Seq(STRING), IsUnder(f, e)
  PROVE  /\ IsLinkFree(tree, e) /\ LinkFree(e) = e
         /\ e \in tree.dirs \union tree.files
         /\ ~IsSymlink(e) \/ e = <<>>
         /\ IsRegularFile(tree, e) <=> e = f
         /\ IsDirectory(tree, e) <=> e # f
         /\ e # f => e \in Prefixes(Front(f))
         /\ e # f => \E n \in Children(tree, e) : IsUnder(f, Append(e, n))
<1>1. f \in Seq(STRING) /\ IsLinkFree(tree, f)
  BY TreeIsLinkFree DEF IsTree, IsNormal
<1>2. Len(e) \in 0 .. Len(f) /\ e = SubSeq(f, 1, Len(e)) /\ Len(f) \in Nat
  BY <1>1, PrefixIsBeginning, LenProperties
<1>3. IsLinkFree(tree, e) /\ LinkFree(e) = e
  <2>1. IsLinkFree(tree, e)
    BY <1>1, <1>2, BeginningIsLinkFree
  <2>. QED
    BY <2>1, PhysicalOfLinkFree DEF LinkFree
<1>4. ASSUME e # f
      PROVE  Len(e) < Len(f) /\ e \in tree.dirs
  <2>1. Len(e) # Len(f)
    BY <1>1, <1>2, <1>4, Beginning
  <2>2. Len(e) < Len(f)
    BY <1>2, <2>1
  <2>. QED
    BY <1>2, <2>2, AboveAreDirectories
<1>5. e \in tree.dirs \union tree.files /\ e \notin DOMAIN tree.links
  BY <1>4 DEF IsTree
<1>6. ~IsSymlink(e) \/ e = <<>>
  <2>. SUFFICES ASSUME e # <<>> PROVE ~IsSymlink(e)
    OBVIOUS
  <2>1. /\ e = Append(Front(e), Last(e)) /\ Front(e) = SubSeq(e, 1, Len(e) - 1)
        /\ Len(e) \in Nat \ {0}
    BY FrontAndLast
  <2>2. Len(e) - 1 \in 0 .. Len(e)
    BY <2>1
  <2>3. IsLinkFree(tree, Front(e))
    BY <1>3, <2>1, <2>2, BeginningIsLinkFree
  <2>4. LinkFree(Front(e)) = Front(e)
    BY <2>3, PhysicalOfLinkFree DEF LinkFree
  <2>. QED
    BY <1>5, <2>1, <2>4 DEF IsSymlink
<1>7. (IsRegularFile(tree, e) <=> e = f) /\ (IsDirectory(tree, e) <=> e # f)
  BY <1>3, <1>4 DEF IsRegularFile, IsDirectory, LinkFree, IsTree
<1>8. ASSUME e # f
      PROVE  e \in Prefixes(Front(f))
  <2>1. f # <<>>
    BY <1>2, <1>4, <1>8, EmptySeq
  <2>2. /\ Front(f) \in Seq(STRING) /\ Len(Front(f)) = Len(f) - 1
        /\ \A k \in 1 .. Len(f) - 1 : Front(f)[k] = f[k]
    BY <1>1, <2>1, FrontAndLast
  <2>3. Len(e) \in 0 .. Len(Front(f))
    BY <1>2, <1>4, <1>8, <2>2
  <2>. DEFINE b == SubSeq(Front(f), 1, Len(e))
  <2>4. b \in Seq(STRING) /\ Len(b) = Len(e) /\ \A k \in 1 .. Len(e) : b[k] = Front(f)[k]
    BY <2>2, <2>3, Beginning
  <2>5. \A k \in 1 .. Len(e) : e[k] = f[k]
    BY <1>1, PrefixMeans
  <2>6. b \in Prefixes(Front(f))
    BY <2>3 DEF Prefixes
  <2>. HIDE DEF b
  <2>7. \A k \in 1 .. Len(e) : b[k] = e[k]
    BY <2>2, <2>3, <2>4, <2>5
  <2>8. b = e
    BY ONLY <2>4, <2>7, e \in Seq(STRING), SeqEqual
  <2>. QED
    BY <2>6, <2>8
<1>9. ASSUME e # f
      PROVE  \E n \in Children(tree, e) : IsUnder(f, Append(e, n))
  <2>. DEFINE m == Len(e)
              q == SubSeq(f, 1, m + 1)
  <2>1. m \in 0 .. Len(f) /\ m < Len(f) /\ m + 1 \in 0 .. Len(f)
    BY <1>2, <1>4, <1>9
  <2>2. q = Append(e, f[m + 1]) /\ f[m + 1] \in STRING
    BY <1>1, <1>2, <2>1, NextBeginning
  <2>3. q \in Seq(STRING) /\ Len(q) = m + 1 /\ (\A k \in 1 .. m + 1 : q[k] = f[k])
        /\ (m + 1 = Len(f) => q = f)
    BY <1>1, <2>1, Beginning
  <2>4. q \in tree.dirs \union tree.files
    <3>1. CASE m + 1 = Len(f)
      BY <2>3, <3>1
    <3>2. CASE m + 1 < Len(f)
      BY <2>1, <3>2, AboveAreDirectories
    <3>. QED
      BY <2>1, <3>1, <3>2
  <2>. HIDE DEF q
  <2>5. Front(q) = e /\ Last(q) = f[m + 1] /\ q # <<>>
    BY <2>2, FrontOfAppended, AppendProperties
  <2>6. f[m + 1] \in Children(tree, e)
    BY <2>4, <2>5 DEF Children
  <2>7. IsUnder(f, q)
    BY <1>1, <1>2, <2>1, <2>3, PrefixMeans
  <2>. QED
    BY <2>2, <2>6, <2>7
<1>. QED
  BY <1>3, <1>4, <1>5, <1>6, <1>7, <1>8, <1>9
-----------------------------------------------------------------------------
(* The scan *)

NoneMissed(hs, fs) == \A f : Wanted(f) => f \in Range(hs) \/ Ahead(f, fs)

ScanInv ==
  /\ scan \in {"no", "on", "done"}
  /\ FramesOk(frames) /\ HeadersOk(headers, frames)
  /\ scan = "no" => frames = <<>> /\ headers = <<>>
  /\ scan = "done" => frames = <<>>
  /\ scan_errors = {} =>
       /\ PathsOk(frames, visited) /\ GroundsOk(headers)
       /\ scan # "no" => NoneMissed(headers, frames)

(* What the options and the file system guarantee the scan *)
Ground ==
  /\ IsTree(tree)
  /\ input_root \in Seq(STRING) /\ project_root \in Seq(STRING)
  /\ LinkFree(input_root) = input_root
  /\ IsUnder(input_root, project_root)

LEMMA SameQuestions ==
  ASSUME UNCHANGED <<tree, config>>, NEW x
  PROVE  /\ input_root' = input_root /\ project_root' = project_root
         /\ LinkFree(x)' = LinkFree(x)
         /\ IsSymlink(x)' <=> IsSymlink(x)
         /\ IsCandidate(x)' <=> IsCandidate(x)
         /\ SkippedDirectory(x)' <=> SkippedDirectory(x)
         /\ DirectoriesAbove(x)' = DirectoriesAbove(x)
<1>1. input_root' = input_root /\ project_root' = project_root /\ output_dir' = output_dir
  BY DEF input_root, project_root, output_dir
<1>2. \A p : LinkFree(p)' = LinkFree(p)
  BY DEF LinkFree
<1>3. IsSymlink(x)' <=> IsSymlink(x)
  BY DEF IsSymlink, LinkFree
<1>4. /\ InOutputDir(x)' <=> InOutputDir(x)
      /\ SkippedAsExcluded(x)' <=> SkippedAsExcluded(x)
      /\ DirectoryLooksLikeGeneratedOutput(x)' <=> DirectoryLooksLikeGeneratedOutput(x)
  BY <1>1 DEF InOutputDir, LinkFree, SkippedAsExcluded, HasBuiltinExcludedComponent,
              MatchesConfiguredExclude, DirectoryLooksLikeGeneratedOutput, HasChild
<1>5. IsCandidate(x)' <=> IsCandidate(x)
  BY <1>1, <1>4 DEF IsCandidate, IsHeaderFile, IsGeneratedHeaderFile, LinkFree,
                    MatchesHeaderFilter, Given
<1>6. SkippedDirectory(x)' <=> SkippedDirectory(x)
  BY <1>1, <1>4 DEF SkippedDirectory, SkippedAsOutput
<1>7. DirectoriesAbove(x)' = DirectoriesAbove(x)
  BY <1>1 DEF DirectoriesAbove
<1>. QED
  BY <1>1, <1>2, <1>3, <1>5, <1>6, <1>7

LEMMA SameAnswers ==
  ASSUME UNCHANGED <<tree, config>>
  PROVE  /\ FramesOk(frames)' <=> FramesOk(frames')
         /\ HeadersOk(headers, frames)' <=> HeadersOk(headers', frames')
         /\ PathsOk(frames, visited)' <=> PathsOk(frames', visited')
         /\ GroundsOk(headers)' <=> GroundsOk(headers')
         /\ NoneMissed(headers, frames)' <=> NoneMissed(headers', frames')
         /\ Ground' <=> Ground
<1>0. input_root' = input_root /\ project_root' = project_root
  BY SameQuestions
<1>1. \A x : /\ LinkFree(x)' = LinkFree(x)
             /\ IsSymlink(x)' <=> IsSymlink(x)
             /\ IsCandidate(x)' <=> IsCandidate(x)
             /\ SkippedDirectory(x)' <=> SkippedDirectory(x)
             /\ DirectoriesAbove(x)' = DirectoriesAbove(x)
  BY SameQuestions
<1>2. FramesOk(frames)' <=> FramesOk(frames')
  BY <1>0 DEF FramesOk
<1>3. HeadersOk(headers, frames)' <=> HeadersOk(headers', frames')
  BY <1>0, <1>1 DEF HeadersOk
<1>4. PathsOk(frames, visited)' <=> PathsOk(frames', visited')
  BY <1>0, <1>1 DEF PathsOk
<1>5. GroundsOk(headers)' <=> GroundsOk(headers')
  BY <1>0, <1>1 DEF GroundsOk
<1>6. \A f : Wanted(f)' <=> Wanted(f)
  BY <1>0, <1>1 DEF Wanted, Reached
<1>7. NoneMissed(headers, frames)' <=> NoneMissed(headers', frames')
  BY <1>6 DEF NoneMissed, Ahead
<1>8. Ground' <=> Ground
  BY <1>0, <1>1 DEF Ground
<1>. QED
  BY <1>2, <1>3, <1>4, <1>5, <1>7, <1>8

LEMMA NoFrames ==
  /\ FramesOk(<<>>)
  /\ \A hs, fs : HeadersOk(hs, fs) => HeadersOk(hs, <<>>)
  /\ \A seen_directories : PathsOk(<<>>, seen_directories)
  /\ \A f : ~Ahead(f, <<>>)
<1>. DEFINE none == <<>>
<1>1. none \in Seq(FrameSet) /\ Len(none) = 0
  OBVIOUS
<1>. HIDE DEF none
<1>2. \A k \in 1 .. Len(none) : FALSE
  BY <1>1
<1>3. FramesOk(none)
  BY <1>1, <1>2 DEF FramesOk
<1>4. \A hs, fs : HeadersOk(hs, fs) => HeadersOk(hs, none)
  BY <1>2 DEF HeadersOk
<1>5. \A seen_directories : PathsOk(none, seen_directories)
  BY <1>2 DEF PathsOk
<1>6. \A f : ~Ahead(f, none)
  BY <1>2 DEF Ahead
<1>. QED
  BY <1>3, <1>4, <1>5, <1>6 DEF none

LEMMA NoHeaders == \A fs : HeadersOk(<<>>, fs) /\ GroundsOk(<<>>)
<1>. DEFINE none == <<>>
<1>1. none \in Seq(Seq(STRING)) /\ Len(none) = 0
  OBVIOUS
<1>. HIDE DEF none
<1>2. \A k \in 1 .. Len(none) : FALSE
  BY <1>1
<1>3. \A fs : HeadersOk(none, fs) /\ GroundsOk(none)
  BY <1>1, <1>2 DEF HeadersOk, GroundsOk
<1>. QED
  BY <1>3 DEF none

(* The first directory *)
LEMMA TraversalStarts ==
  ASSUME Ground, IsDirectory(tree, input_root), NEW vis,
         NEW new, new = Popped(<<Frame(input_root)>>)
  PROVE  FramesOk(new) /\ PathsOk(new, vis) /\ NoneMissed(<<>>, new)
<1>. DEFINE frame == Frame(input_root)
            fs == <<frame>>
<1>1. frame \in FrameSet /\ frame.at = input_root /\ frame.left = Children(tree, input_root)
      /\ \A n \in frame.left : n \notin {".", ".."}
  BY FrameIsFrame DEF Ground, Frame
<1>. HIDE DEF frame
<1>2. fs \in Seq(FrameSet) /\ Len(fs) = 1 /\ fs[1] = frame
  BY <1>1
<1>. HIDE DEF fs
<1>3. PICK n \in 0 .. Len(fs) : /\ Popped(fs) = SubSeq(fs, 1, n)
                                /\ \A k \in n + 1 .. Len(fs) : fs[k].left = {}
  BY <1>2, PoppedMeans
<1>4. new = SubSeq(fs, 1, n)
  BY <1>3 DEF fs, frame
<1>5. /\ new \in Seq(FrameSet) /\ Len(new) = n
      /\ \A k \in 1 .. n : new[k] = fs[k]
  <2>1. fs \in Seq(FrameSet) /\ n \in 0 .. Len(fs)
    BY <1>2
  <2>2. /\ SubSeq(fs, 1, n) \in Seq(FrameSet) /\ Len(SubSeq(fs, 1, n)) = n
        /\ \A k \in 1 .. n : SubSeq(fs, 1, n)[k] = fs[k]
    BY ONLY <2>1, SubSeqProperties
  <2>. QED
    BY <1>4, <2>2
<1>6. \A k \in 1 .. Len(new) : k = 1 /\ new[k] = frame
  BY <1>2, <1>5
<1>7. FramesOk(new)
  <2>1. IsUnder(input_root, input_root)
    BY UnderItself DEF Ground
  <2>2. \A k, j \in 1 .. Len(new) : ~(j < k)
    BY <1>6
  <2>. QED
    BY <1>1, <1>5, <1>6, <2>1, <2>2 DEF FramesOk
<1>8. PathsOk(new, vis)
  <2>1. ASSUME NEW d \in Prefixes(input_root), IsUnder(d, input_root)
        PROVE  d = input_root
    <3>1. PICK l \in 0 .. Len(input_root) : d = SubSeq(input_root, 1, l)
      BY DEF Prefixes
    <3>2. d \in Seq(STRING) /\ Len(d) = l /\ (l = Len(input_root) => d = input_root)
      BY <3>1, Beginning DEF Ground
    <3>3. Len(input_root) <= Len(d) /\ Len(input_root) \in Nat
      BY <2>1, <3>2, PrefixMeans DEF Ground
    <3>. QED
      BY <3>1, <3>2, <3>3
  <2>2. \A k \in 1 .. Len(new) : new[k].at = input_root /\ ~(k > 1)
    BY <1>1, <1>6
  <2>3. IsUnder(LinkFree(input_root), project_root)
    BY DEF Ground
  <2>. QED
    BY <2>1, <2>2, <2>3 DEF PathsOk
<1>9. ASSUME NEW f, Wanted(f)
      PROVE  Ahead(f, new)
  <2>1. f # input_root /\ f \in tree.files
    BY <1>9 DEF Wanted, IsDirectory, Ground, LinkFree, IsTree
  <2>2. PICK m \in Children(tree, input_root) : IsUnder(f, Append(input_root, m))
    BY <1>9, <2>1, WayOn DEF Wanted, Ground
  <2>3. n = 1
    BY <1>1, <1>2, <1>3, <2>2
  <2>4. 1 \in 1 .. Len(new) /\ new[1] = frame
    BY <1>5, <1>6, <2>3
  <2>. QED
    BY <1>1, <2>2, <2>4 DEF Ahead
<1>. QED
  BY <1>7, <1>8, <1>9 DEF NoneMissed

(* The entry that the iterator is at *)
LEMMA EntryFacts ==
  ASSUME Ground, ScanInv, NEW name, AtEntry(name)
  PROVE  /\ frames # <<>> /\ name \in frames[Len(frames)].left
         /\ frames \in Seq(FrameSet)
         /\ Last(frames) = frames[Len(frames)]
         /\ Entry(name) = Append(frames[Len(frames)].at, name)
         /\ Entry(name) \in Seq(STRING) /\ Entry(name) # <<>>
         /\ Target(name) = LinkFree(Entry(name))
         /\ IsUnder(Entry(name), input_root) /\ Entry(name) # input_root
<1>1. frames # <<>> /\ name \in frames[Len(frames)].left /\ Last(frames) = frames[Len(frames)]
  BY DEF AtEntry, Last
<1>2. /\ Len(frames) \in 1 .. Len(frames)
      /\ name \in STRING
      /\ frames[Len(frames)].at \in Seq(STRING)
  BY <1>1, FrameFacts DEF ScanInv
<1>. DEFINE dir == frames[Len(frames)].at
            path == Append(dir, name)
<1>3. Entry(name) = path
  BY <1>1 DEF Entry
<1>4. IsUnder(dir, input_root)
  BY <1>2 DEF ScanInv, FramesOk
<1>. HIDE DEF dir
<1>5. /\ path \in Seq(STRING) /\ path # <<>> /\ IsUnder(path, dir)
      /\ Len(path) = Len(dir) + 1 /\ dir \in Seq(STRING)
  BY <1>2, AppendedIsUnder, Appended, AppendProperties DEF dir
<1>. HIDE DEF path
<1>6. IsUnder(path, input_root)
  BY <1>4, <1>5, UnderUnder DEF Ground
<1>7. path # input_root
  <2>1. Len(input_root) <= Len(dir) /\ Len(dir) \in Nat /\ Len(input_root) \in Nat
    BY <1>4, <1>5, PrefixMeans, LenProperties DEF Ground
  <2>. QED
    BY <1>5, <2>1
<1>. QED
  BY <1>1, <1>3, <1>5, <1>6, <1>7 DEF path, dir, Target, ScanInv, FramesOk

LEMMA EntryPassed ==
  ASSUME Ground, ScanInv, NEW name, AtEntry(name),
         NEW recursion \in BOOLEAN, NEW new, new = Advance(name, recursion)
  PROVE  /\ Moved(frames, new, name, recursion /\ IsDirectory(tree, Entry(name)))
         /\ FramesOk(new)
         /\ HeadersOk(headers, new)
<1>1. /\ frames # <<>> /\ name \in frames[Len(frames)].left
      /\ frames \in Seq(FrameSet) /\ Last(frames) = frames[Len(frames)]
      /\ Entry(name) = Append(Last(frames).at, name)
  BY EntryFacts
<1>. DEFINE deeper == recursion /\ IsDirectory(tree, Entry(name))
<1>2. Moved(frames, new, name, deeper)
  BY <1>1, AdvanceMoves DEF Ground
<1>. HIDE DEF deeper
<1>3. FramesOk(new)
  BY <1>1, <1>2, FramesMove DEF Ground, ScanInv
<1>4. HeadersOk(headers, new)
  BY <1>1, <1>2, HeadersMove DEF Ground, ScanInv
<1>. QED
  BY <1>2, <1>3, <1>4 DEF deeper

(* Where an entry that is not a link, or a link that is followed, leads *)
LEMMA ExaminedStaysInside ==
  ASSUME Ground, ScanInv, scan_errors = {}, NEW name, AtEntry(name), Examined(name)
  PROVE  IsUnder(LinkFree(Entry(name)), project_root)
<1>1. /\ frames # <<>> /\ name \in frames[Len(frames)].left
      /\ Entry(name) = Append(frames[Len(frames)].at, name)
      /\ Target(name) = LinkFree(Entry(name))
  BY EntryFacts
<1>. DEFINE dir == frames[Len(frames)].at
            path == Entry(name)
<1>2. Len(frames) \in 1 .. Len(frames) /\ name \in STRING \ {".", ".."} /\ dir \in Seq(STRING)
  BY <1>1, FrameFacts DEF ScanInv
<1>3. CASE ~IsSymlink(path)
  <2>1. Front(path) = dir /\ Last(path) = name
    BY <1>1, <1>2, FrontOfAppended
  <2>2. Append(LinkFree(dir), name) \notin DOMAIN tree.links
    BY <1>3, <2>1 DEF IsSymlink
  <2>3. LinkFree(path) = Onward(tree, LinkFree(dir), name)
    BY <1>1, <1>2, PhysicalAppend DEF LinkFree
  <2>4. LinkFree(path) = Append(LinkFree(dir), name)
    BY <1>2, <2>2, <2>3 DEF Onward, Followed
  <2>5. IsUnder(LinkFree(dir), project_root)
    BY <1>2 DEF ScanInv, PathsOk
  <2>6. LinkFree(dir) \in Seq(STRING)
    BY <1>2, PhysicalIsLinkFree DEF LinkFree, IsLinkFree, IsNormal, Ground
  <2>7. IsUnder(Append(LinkFree(dir), name), LinkFree(dir))
        /\ Append(LinkFree(dir), name) \in Seq(STRING)
    BY <1>2, <2>6, AppendedIsUnder
  <2>. QED
    BY <2>4, <2>5, <2>6, <2>7, UnderUnder DEF Ground
<1>4. CASE IsSymlink(path)
  BY <1>1, <1>4 DEF Examined, LeadsIntoProject
<1>. QED
  BY <1>3, <1>4

(* If a wanted file is passed over, it is by this entry. *)
LEMMA MissedOnlyHere ==
  ASSUME Ground, ScanInv, scan_errors = {}, NEW name, AtEntry(name),
         NEW recursion \in BOOLEAN, NEW new, new = Advance(name, recursion),
         NEW f, Wanted(f), f \notin Range(headers), ~Ahead(f, new)
  PROVE  /\ ~IsSymlink(Entry(name))
         /\ IsRegularFile(tree, Entry(name)) => Entry(name) = f
         /\ IsDirectory(tree, Entry(name)) => ~recursion /\ ~SkippedDirectory(Entry(name))
<1>. DEFINE e == Entry(name)
            deeper == recursion /\ IsDirectory(tree, e)
<1>1. /\ frames # <<>> /\ name \in frames[Len(frames)].left
      /\ e = Append(frames[Len(frames)].at, name)
      /\ e \in Seq(STRING) /\ e # <<>>
      /\ IsUnder(e, input_root) /\ e # input_root
  BY EntryFacts
<1>2. Moved(frames, new, name, deeper)
  BY EntryPassed
<1>3. IsTree(tree) /\ input_root \in Seq(STRING) /\ FramesOk(frames)
  BY DEF Ground, ScanInv
<1>4. Ahead(f, frames)
  <2>1. scan # "no"
    BY DEF AtEntry
  <2>. QED
    BY <2>1 DEF ScanInv, NoneMissed
<1>. HIDE DEF e, deeper
<1>5. IsUnder(f, e)
  BY <1>1, <1>2, <1>3, <1>4, AheadMoves
<1>6. f \in tree.files /\ Reached(f)
  BY DEF Wanted
<1>7. /\ LinkFree(e) = e
      /\ ~IsSymlink(e) \/ e = <<>>
      /\ IsRegularFile(tree, e) <=> e = f
      /\ IsDirectory(tree, e) <=> e # f
      /\ e # f => e \in Prefixes(Front(f))
      /\ e # f => \E n \in Children(tree, e) : IsUnder(f, Append(e, n))
  <2>1. /\ IsTree(tree) /\ f \in tree.files /\ e \in Seq(STRING) /\ IsUnder(f, e)
    BY <1>1, <1>3, <1>5, <1>6
  <2>. QED
    BY ONLY <2>1, WayOn
<1>8. ASSUME IsDirectory(tree, e)
      PROVE  ~SkippedDirectory(e)
  <2>1. e \in DirectoriesAbove(f)
    BY <1>1, <1>7, <1>8 DEF DirectoriesAbove
  <2>. QED
    BY <1>6, <2>1 DEF Reached
<1>9. ASSUME IsDirectory(tree, e), recursion
      PROVE  FALSE
  <2>1. PICK n \in Children(tree, e) : IsUnder(f, Append(e, n))
    BY <1>7, <1>9
  <2>2. Frame(e).left = Children(tree, e) /\ Frame(e).at = e
    BY <1>7 DEF Frame
  <2>3. /\ Len(frames) \in Nat /\ Len(new) \in Nat
        /\ Len(new) <= Len(frames) + 1
        /\ Len(frames) + 1 \in 1 .. Len(new) => new[Len(frames) + 1] = Frame(e)
        /\ deeper /\ Len(new) < Len(frames) + 1 => Frame(e).left = {}
    BY <1>1, <1>2, <1>3, LenProperties DEF Moved, FramesOk
  <2>4. Len(frames) + 1 \in 1 .. Len(new)
    <3>1. Frame(e).left # {} /\ deeper
      BY <1>9, <2>1, <2>2 DEF deeper
    <3>2. ~(Len(new) < Len(frames) + 1)
      BY <2>3, <3>1
    <3>. QED
      BY ONLY <2>3, <3>2
  <2>5. Ahead(f, new)
    BY <2>1, <2>2, <2>3, <2>4 DEF Ahead
  <2>. QED
    BY <2>5
<1>. QED
  BY <1>1, <1>7, <1>8, <1>9 DEF e

(* An entry that is passed without an error *)
LEMMA EntryDone ==
  ASSUME Ground, ScanInv, scan_errors = {}, NEW name, AtEntry(name),
         NEW recursion \in BOOLEAN, NEW new, new = Advance(name, recursion),
         NEW more, visited \subseteq more,
         recursion /\ IsDirectory(tree, Entry(name)) =>
           /\ Examined(name) /\ ~SkippedDirectory(Entry(name))
           /\ IsSymlink(Entry(name)) => Target(name) \in more
  PROVE  PathsOk(new, more)
<1>. DEFINE path == Entry(name)
            deeper == recursion /\ IsDirectory(tree, path)
<1>1. /\ frames # <<>> /\ name \in frames[Len(frames)].left
      /\ path = Append(frames[Len(frames)].at, name)
      /\ Target(name) = LinkFree(path)
  BY EntryFacts
<1>2. Moved(frames, new, name, deeper)
  BY EntryPassed
<1>3. deeper => IsUnder(LinkFree(path), project_root)
  BY ExaminedStaysInside
<1>4. deeper /\ IsSymlink(path) => LinkFree(path) \notin visited
  BY <1>1 DEF Examined, AlreadyVisited
<1>5. /\ IsTree(tree) /\ input_root \in Seq(STRING)
      /\ FramesOk(frames) /\ PathsOk(frames, visited)
  BY DEF Ground, ScanInv
<1>6. deeper => MayEnter(path, visited, more)
  BY <1>1, <1>3, <1>4 DEF MayEnter
<1>. HIDE DEF path, deeper
<1>7. visited \subseteq more
  OBVIOUS
<1>8. CASE deeper
  <2>1. Moved(frames, new, name, TRUE)
    BY <1>2, <1>8 DEF Moved
  <2>2. MayEnter(path, visited, more)
    BY <1>6, <1>8
  <2>. QED
    BY ONLY <1>1, <2>1, <1>5, <2>2, <1>7, PathsMove, ZenonT(30)
<1>9. CASE ~deeper
  <2>1. Moved(frames, new, name, FALSE)
    BY <1>2, <1>9 DEF Moved
  <2>. QED
    BY ONLY <1>1, <2>1, <1>5, <1>7, PathsMove, ZenonT(30)
<1>. QED
  BY <1>8, <1>9

SomeFault(name) ==
  \/ SymlinkStatusFails(name) \/ TypeFails(name)
  \/ TargetTypeFails(name) \/ FileStatusFails(name)

LEMMA FaultyEntry ==
  ASSUME Ground, ScanInv, UNCHANGED <<tree, config>>, NEW name, SomeFault(name)
  PROVE  ScanInv'
<1>1. AtEntry(name) /\ (\E code : ScanError(code)) /\ scan' = scan /\ headers' = headers
  BY DEF SomeFault, SymlinkStatusFails, TypeFails, TargetTypeFails, FileStatusFails
<1>2. \E recursion \in BOOLEAN : frames' = Advance(name, recursion)
  BY DEF SomeFault, SymlinkStatusFails, TypeFails, TargetTypeFails, FileStatusFails
<1>3. FramesOk(frames') /\ HeadersOk(headers', frames')
  BY <1>1, <1>2, EntryPassed
<1>4. scan' = "on" /\ scan_errors' # {}
  BY <1>1 DEF AtEntry, ScanError
<1>. QED
  BY <1>3, <1>4, SameAnswers DEF ScanInv

LEMMA SkippedEntry ==
  ASSUME Ground, ScanInv, UNCHANGED <<tree, config>>, NEW name,
         SkipUnusableLink(name) \/ SkipVisitedLink(name)
  PROVE  ScanInv'
<1>1. /\ AtEntry(name) /\ IsSymlink(Entry(name))
      /\ frames' = Advance(name, FALSE)
      /\ UNCHANGED <<scan, visited, headers, scan_errors>>
  BY DEF SkipUnusableLink, SkipVisitedLink
<1>2. FramesOk(frames') /\ HeadersOk(headers', frames')
  BY <1>1, EntryPassed
<1>3. ASSUME scan_errors = {}
      PROVE  PathsOk(frames', visited') /\ GroundsOk(headers') /\ NoneMissed(headers', frames')
  <2>1. PathsOk(frames', visited)
    BY <1>1, <1>3, EntryDone
  <2>2. NoneMissed(headers, frames')
    BY <1>1, <1>3, MissedOnlyHere DEF NoneMissed
  <2>. QED
    BY <1>1, <1>3, <2>1, <2>2 DEF ScanInv
<1>4. scan' = "on"
  BY <1>1 DEF AtEntry
<1>. QED
  BY <1>1, <1>2, <1>3, <1>4, SameAnswers DEF ScanInv

LEMMA DirectoryEntry ==
  ASSUME Ground, ScanInv, UNCHANGED <<tree, config>>, NEW name, ExamineDirectory(name)
  PROVE  ScanInv'
<1>. DEFINE recursion == ~SkippedDirectory(Entry(name))
<1>1. /\ AtEntry(name) /\ IsDirectory(tree, Entry(name)) /\ Examined(name)
      /\ frames' = Advance(name, recursion)
      /\ visited \subseteq visited'
      /\ IsSymlink(Entry(name)) => Target(name) \in visited'
      /\ UNCHANGED <<scan, headers, scan_errors>>
  BY DEF ExamineDirectory
<1>2. recursion \in BOOLEAN /\ (recursion => ~SkippedDirectory(Entry(name)))
      /\ (~recursion => SkippedDirectory(Entry(name)))
  OBVIOUS
<1>. HIDE DEF recursion
<1>3. FramesOk(frames') /\ HeadersOk(headers', frames')
  BY <1>1, <1>2, EntryPassed
<1>4. ASSUME scan_errors = {}
      PROVE  PathsOk(frames', visited') /\ GroundsOk(headers') /\ NoneMissed(headers', frames')
  <2>1. PathsOk(frames', visited')
    BY <1>1, <1>2, <1>4, EntryDone
  <2>2. NoneMissed(headers, frames')
    BY <1>1, <1>2, <1>4, MissedOnlyHere DEF NoneMissed
  <2>. QED
    BY <1>1, <1>4, <2>1, <2>2 DEF ScanInv
<1>5. scan' = "on"
  BY <1>1 DEF AtEntry
<1>. QED
  BY <1>1, <1>3, <1>4, <1>5, SameAnswers DEF ScanInv

LEMMA FileEntry ==
  ASSUME Ground, ScanInv, UNCHANGED <<tree, config>>, NEW name, ExamineFile(name)
  PROVE  ScanInv'
<1>. DEFINE path == Entry(name)
<1>1. /\ AtEntry(name) /\ IsRegularFile(tree, path) /\ Examined(name)
      /\ frames' = Advance(name, FALSE)
      /\ headers' = IF IsCandidate(path) THEN Append(headers, path) ELSE headers
      /\ UNCHANGED <<scan, visited, scan_errors>>
  BY DEF ExamineFile
<1>2. /\ frames # <<>> /\ name \in frames[Len(frames)].left
      /\ path = Append(frames[Len(frames)].at, name) /\ path \in Seq(STRING)
  BY <1>1, EntryFacts
<1>3. FramesOk(frames') /\ HeadersOk(headers, frames') /\ Moved(frames, frames', name, FALSE)
  <2>1. Moved(frames, frames', name, FALSE /\ IsDirectory(tree, Entry(name)))
        /\ FramesOk(frames') /\ HeadersOk(headers, frames')
    BY <1>1, EntryPassed
  <2>. QED
    BY <2>1
<1>4. HeadersOk(headers', frames')
  <2>1. IsCandidate(path) => HeadersOk(Append(headers, path), frames')
    BY <1>2, <1>3, HeadersGrow DEF Ground, ScanInv
  <2>. QED
    BY <1>1, <1>3, <2>1
<1>5. ASSUME scan_errors = {}
      PROVE  PathsOk(frames', visited') /\ GroundsOk(headers') /\ NoneMissed(headers', frames')
  <2>1. PathsOk(frames', visited)
    BY <1>1, <1>5, EntryDone
  <2>2. IsUnder(LinkFree(path), project_root)
    BY <1>1, <1>5, ExaminedStaysInside
  <2>3. headers \in Seq(Seq(STRING)) /\ FramesOk(frames) /\ IsTree(tree) /\ input_root \in Seq(STRING)
        /\ PathsOk(frames, visited) /\ GroundsOk(headers)
    BY <1>5 DEF ScanInv, HeadersOk, Ground
  <2>4. GroundsOk(Append(headers, path))
    BY <1>2, <2>2, <2>3, GroundsGrow
  <2>5. GroundsOk(headers')
    BY <1>1, <2>3, <2>4
  <2>6. /\ Range(headers) \subseteq Range(headers')
        /\ IsCandidate(path) => path \in Range(headers')
    <3>. DEFINE more == Append(headers, path)
    <3>1. /\ Len(more) = Len(headers) + 1 /\ Len(headers) \in Nat /\ more \in Seq(Seq(STRING))
          /\ \A i \in 1 .. Len(headers) : more[i] = headers[i]
          /\ more[Len(headers) + 1] = path
      BY <1>2, <2>3, AppendProperties, LenProperties
    <3>. HIDE DEF more
    <3>2. DOMAIN more = 1 .. Len(headers) + 1 /\ DOMAIN headers = 1 .. Len(headers)
      BY <2>3, <3>1
    <3>3. Range(headers) \subseteq Range(more) /\ path \in Range(more)
      BY <3>1, <3>2 DEF Range
    <3>. QED
      BY <1>1, <3>3 DEF more
  <2>7. ASSUME NEW f, Wanted(f), f \notin Range(headers'), ~Ahead(f, frames')
        PROVE  FALSE
    <3>1. path = f
      BY <1>1, <1>5, <2>6, <2>7, MissedOnlyHere
    <3>2. IsCandidate(path)
      BY <2>7, <3>1 DEF Wanted
    <3>. QED
      BY <2>6, <2>7, <3>1, <3>2
  <2>. QED
    BY <1>1, <2>1, <2>5, <2>7 DEF NoneMissed
<1>6. scan' = "on"
  BY <1>1 DEF AtEntry
<1>. QED
  BY <1>1, <1>3, <1>4, <1>5, <1>6, SameAnswers DEF ScanInv

(* The last step only puts the headers in order. *)
LEMMA HeadersSorted ==
  ASSUME Ground, ScanInv, UNCHANGED <<tree, config>>, FinishScan
  PROVE  ScanInv'
<1>. DEFINE D == DOMAIN headers
<1>1. PICK order : IsPermutation(order, D) /\ headers' = [k \in D |-> headers[order[k]]]
  BY DEF FinishScan
<1>2. /\ scan = "on" /\ frames = <<>> /\ scan' = "done"
      /\ UNCHANGED <<frames, visited, scan_errors>>
  BY DEF FinishScan
<1>3. headers \in Seq(Seq(STRING)) /\ HeadersOk(headers, frames)
  BY DEF ScanInv, HeadersOk
<1>4. D = 1 .. Len(headers) /\ Len(headers) \in Nat
  BY <1>3
<1>5. order \in [D -> D] /\ \A k \in D : \E j \in D : order[j] = k
  BY <1>1 DEF IsPermutation
<1>6. \A i, j \in D : order[i] = order[j] => i = j
  <2>1. IsFiniteSet(D)
    BY <1>4, FS_Interval
  <2>2. order \in Surjection(D, D)
    BY <1>5 DEF Surjection
  <2>3. order \in Injection(D, D)
    BY <2>1, <2>2, FS_SurjSameCardinalityImpliesInj
  <2>. QED
    BY <2>3 DEF Injection, IsInjective
<1>7. headers' \in Seq(Seq(STRING)) /\ Len(headers') = Len(headers) /\ DOMAIN headers' = D
  <2>1. headers' \in [1 .. Len(headers) -> Seq(STRING)]
    <3>. HIDE DEF D
    <3>1. \A i \in 1 .. Len(headers) : headers[i] \in Seq(STRING)
      BY <1>3, ElementOfSeq
    <3>2. \A k \in D : order[k] \in D
      BY ONLY <1>5
    <3>3. \A k \in D : headers[order[k]] \in Seq(STRING)
      BY ONLY <1>4, <3>1, <3>2
    <3>. QED
      BY ONLY <1>1, <1>4, <3>3
  <2>. QED
    BY <1>4, <2>1
<1>8. \A k \in D : order[k] \in D /\ headers'[k] = headers[order[k]]
  BY <1>1, <1>5
<1>9. HeadersOk(headers', frames')
  <2>1. ASSUME NEW i \in 1 .. Len(headers'), NEW j \in 1 .. Len(headers'),
               headers'[i] = headers'[j]
        PROVE  i = j
    <3>1. i \in D /\ j \in D
      BY <1>4, <1>7
    <3>2. headers[order[i]] = headers[order[j]] /\ order[i] \in D /\ order[j] \in D
      BY <1>8, <2>1, <3>1
    <3>3. order[i] = order[j]
      BY <1>3, <1>4, <3>2 DEF HeadersOk
    <3>. QED
      BY <1>6, <3>1, <3>3
  <2>2. ASSUME NEW i \in 1 .. Len(headers')
        PROVE  /\ IsUnder(headers'[i], input_root) /\ IsCandidate(headers'[i])
               /\ \A k \in 1 .. Len(frames') : \A n \in frames'[k].left :
                    ~IsUnder(headers'[i], Append(frames'[k].at, n))
    <3>1. order[i] \in 1 .. Len(headers) /\ headers'[i] = headers[order[i]]
      BY <1>4, <1>7, <1>8
    <3>. QED
      BY <1>2, <1>3, <3>1 DEF HeadersOk
  <2>. QED
    BY <1>7, <2>1, <2>2 DEF HeadersOk
<1>10. FramesOk(frames')
  BY <1>2 DEF ScanInv
<1>11. Range(headers') = Range(headers)
  <2>1. \A k \in D : \E j \in D : headers'[j] = headers[k]
    BY <1>5, <1>8
  <2>2. Range(headers') = {headers'[k] : k \in D} /\ Range(headers) = {headers[k] : k \in D}
    BY <1>7 DEF Range
  <2>. HIDE DEF D
  <2>. QED
    BY ONLY <1>8, <2>1, <2>2
<1>12. ASSUME scan_errors = {}
       PROVE  PathsOk(frames', visited') /\ GroundsOk(headers') /\ NoneMissed(headers', frames')
  <2>1. PathsOk(frames, visited) /\ GroundsOk(headers) /\ NoneMissed(headers, frames)
    BY <1>2, <1>12 DEF ScanInv
  <2>2. GroundsOk(headers')
    <3>1. \A i \in 1 .. Len(headers') : order[i] \in 1 .. Len(headers) /\ headers'[i] = headers[order[i]]
      BY <1>4, <1>7, <1>8
    <3>. QED
      BY <2>1, <3>1 DEF GroundsOk
  <2>. QED
    BY <1>2, <1>11, <2>1, <2>2 DEF NoneMissed
<1>. QED
  BY <1>2, <1>9, <1>10, <1>12, SameAnswers DEF ScanInv

LEMMA ScanStep ==
  ASSUME Ground, ScanInv, UNCHANGED <<tree, config>>, ScanHeaders
  PROVE  ScanInv'
<1>1. CASE RefuseInputRoot \/ TraversalStartFails
  <2>1. /\ scan = "no" /\ scan' = "done" /\ scan_errors' # {}
        /\ UNCHANGED <<frames, headers>>
    BY <1>1 DEF RefuseInputRoot, TraversalStartFails, ScanError
  <2>. QED
    BY <2>1, SameAnswers DEF ScanInv
<1>2. CASE StartTraversal
  <2>1. /\ scan = "no" /\ scan' = "on" /\ IsDirectory(tree, input_root)
        /\ frames' = Popped(<<Frame(input_root)>>)
        /\ UNCHANGED <<headers, scan_errors>>
    BY <1>2 DEF StartTraversal
  <2>2. headers' = <<>>
    BY <2>1 DEF ScanInv
  <2>3. FramesOk(frames') /\ PathsOk(frames', visited') /\ NoneMissed(<<>>, frames')
    BY <2>1, TraversalStarts
  <2>4. HeadersOk(headers', frames') /\ GroundsOk(headers')
    BY <2>2, NoHeaders
  <2>. QED
    BY <2>1, <2>2, <2>3, <2>4, SameAnswers DEF ScanInv
<1>3. ASSUME NEW name, ScanEntry(name)
      PROVE  ScanInv'
  BY <1>3, FaultyEntry, SkippedEntry, DirectoryEntry, FileEntry DEF ScanEntry, SomeFault
<1>4. CASE IncrementFails
  <2>1. /\ scan = "on" /\ scan' = "on" /\ scan_errors' # {}
        /\ frames' = <<>> /\ UNCHANGED headers
    BY <1>4 DEF IncrementFails, ScanError
  <2>2. FramesOk(frames') /\ HeadersOk(headers', frames')
    BY <2>1, NoFrames DEF ScanInv
  <2>. QED
    BY <2>1, <2>2, SameAnswers DEF ScanInv
<1>. QED
  BY <1>1, <1>2, <1>3, <1>4, HeadersSorted DEF ScanHeaders

LEMMA ScanKept ==
  ASSUME ScanInv, UNCHANGED <<tree, config>>, UNCHANGED scanVars
  PROVE  ScanInv'
BY SameAnswers DEF ScanInv, scanVars
-----------------------------------------------------------------------------
(* The front end *)

StageInv ==
  /\ stage = "options" => scan = "no"
  /\ stage \in {"scan", "resolve", "end"} => parsed /\ ~help /\ errors = {}
  /\ stage \in {"resolve", "end"} => ScanSucceeded

FrontInv == OptionsInv /\ StageInv /\ ScanInv

LEMMA NothingYet ==
  ASSUME frames' = <<>>, headers' = <<>>
  PROVE  /\ FramesOk(frames)' /\ HeadersOk(headers, frames)'
         /\ PathsOk(frames, visited)' /\ GroundsOk(headers)'
<1>1. frames' \in Seq(FrameSet) /\ \A k \in 1 .. Len(frames') : FALSE
  OBVIOUS
<1>2. headers' \in Seq(Seq(STRING)) /\ \A k \in 1 .. Len(headers') : FALSE
  OBVIOUS
<1>. QED
  BY <1>1, <1>2 DEF FramesOk, HeadersOk, PathsOk, GroundsOk

LEMMA OptionsGiveGround ==
  ASSUME OptionsInv, parsed, ~help, errors = {}
  PROVE  HasConfig /\ Ground
<1>1. \A o \in Roots : Given(o)
  <2>1. MissingRoots \subseteq errors
    BY DEF OptionsInv, Verdict
  <2>. QED
    BY <2>1 DEF MissingRoots
<1>2. HasConfig
  BY <1>1 DEF HasConfig
<1>3. /\ IsNormal(config["--input-root"]) /\ IsNormal(config["--project-root"])
      /\ IsUnder(input_root, project_root)
  BY <1>2, AcceptedRoots DEF Roots, input_root, project_root
<1>4. IsTree(tree)
  BY DEF OptionsInv
<1>5. IsLinkFree(tree, input_root) /\ IsLinkFree(tree, project_root)
  BY <1>3, <1>4, PhysicalIsLinkFree DEF input_root, project_root, IsNormal
<1>6. LinkFree(input_root) = input_root
  BY <1>4, <1>5, PhysicalOfLinkFree DEF LinkFree
<1>. QED
  BY <1>2, <1>3, <1>4, <1>5, <1>6 DEF Ground, IsLinkFree, IsNormal

LEMMA FrontInit == Init => FrontInv
<1>. SUFFICES ASSUME Init PROVE FrontInv
  OBVIOUS
<1>1. stage = "options" /\ scan = "no" /\ frames = <<>> /\ headers = <<>> /\ scan_errors = {}
  BY DEF Init, ScanInit
<1>2. FramesOk(frames) /\ HeadersOk(headers, frames) /\ PathsOk(frames, visited) /\ GroundsOk(headers)
  BY <1>1, NoFrames, NoHeaders
<1>3. StageInv
  BY <1>1 DEF StageInv
<1>. QED
  BY <1>1, <1>2, <1>3, OptionsInit DEF FrontInv, ScanInv

LEMMA FrontStep ==
  ASSUME FrontInv, [Next]_vars
  PROVE  FrontInv'
<1>1. OptionsInv'
  BY OptionsStep DEF FrontInv
<1>2. CASE ReadOptions
  <2>1. stage = "options" /\ scan = "no" /\ UNCHANGED <<stage, scanVars>>
    BY <1>2 DEF ReadOptions, FrontInv, StageInv
  <2>2. StageInv'
    BY <2>1 DEF StageInv, scanVars
  <2>3. ScanInv'
    <3>1. frames' = <<>> /\ headers' = <<>> /\ scan' = "no"
      BY <2>1 DEF FrontInv, ScanInv, scanVars
    <3>. QED
      BY <3>1, NothingYet DEF ScanInv
  <2>. QED
    BY <1>1, <2>2, <2>3 DEF FrontInv
<1>3. CASE SearchHeaders
  <2>1. /\ UNCHANGED <<stage, tree, config, parsed, help, errors>>
        /\ stage = "scan" /\ ScanHeaders
    BY <1>3 DEF SearchHeaders, configVars
  <2>2. Ground
    BY <2>1, OptionsGiveGround DEF FrontInv, StageInv
  <2>3. ScanInv'
    BY <2>1, <2>2, ScanStep DEF FrontInv
  <2>4. StageInv'
    BY <2>1 DEF FrontInv, StageInv
  <2>. QED
    BY <1>1, <2>3, <2>4 DEF FrontInv
<1>4. CASE ~ReadOptions /\ ~SearchHeaders
  <2>1. UNCHANGED <<tree, config, parsed, help, errors, scanVars>>
    BY <1>4 DEF Next, vars, ExitAfterOptions, BeginScan, ExitAfterScan, BeginResolve,
                ResolveClasses, EndResolve, Terminated, configVars
  <2>2. ScanInv'
    BY <2>1, ScanKept DEF FrontInv
  <2>3. StageInv'
    BY <1>4, <2>1 DEF FrontInv, StageInv, Next, vars, ExitAfterOptions, BeginScan, ExitAfterScan,
                      BeginResolve, ResolveClasses, EndResolve, Terminated, scanVars, ScanSucceeded
  <2>. QED
    BY <1>1, <2>2, <2>3 DEF FrontInv
<1>. QED
  BY <1>2, <1>3, <1>4

(* RunCli goes from one stage to the next only with what the one before it *)
(* has made, and ScanHeaders keeps its list and its iterator as ScanInv    *)
(* says, at every entry.                                                   *)
THEOREM FrontInvariance == Spec => []FrontInv
<1>1. FrontInv /\ [Next]_vars => FrontInv'
  BY FrontStep
<1>. QED
  BY FrontInit, <1>1, PTL DEF Spec

LEMMA OnlyInputs ==
  ASSUME FrontInv
  PROVE  CandidatesAreInputs
<1>. SUFFICES ASSUME ScanSucceeded, NEW h \in Range(headers)
              PROVE  /\ LinkFree(h) \in tree.files \ tree.marked
                     /\ IsUnder(LinkFree(h), project_root)
                     /\ ~IsUnder(LinkFree(h), output_dir)
                     /\ \A d \in DirectoriesAbove(h) : ~DirectoryLooksLikeGeneratedOutput(d)
  BY DEF CandidatesAreInputs
<1>1. HeadersOk(headers, frames) /\ GroundsOk(headers)
  BY DEF FrontInv, ScanInv, ScanSucceeded
<1>2. PICK i \in 1 .. Len(headers) : h = headers[i]
  <2>1. DOMAIN headers = 1 .. Len(headers)
    BY <1>1 DEF HeadersOk
  <2>. QED
    BY <2>1 DEF Range
<1>3. IsCandidate(h)
  BY <1>1, <1>2 DEF HeadersOk
<1>4. /\ IsUnder(LinkFree(h), project_root)
      /\ \A d \in DirectoriesAbove(h) : ~SkippedDirectory(d)
  BY <1>1, <1>2 DEF GroundsOk
<1>5. LinkFree(h) \in tree.files \ tree.marked /\ ~IsUnder(LinkFree(h), output_dir)
  BY <1>3 DEF IsCandidate, IsHeaderFile, IsGeneratedHeaderFile, IsRegularFile, LinkFree, InOutputDir
<1>6. \A d \in DirectoriesAbove(h) : ~DirectoryLooksLikeGeneratedOutput(d)
  BY <1>4 DEF SkippedDirectory, SkippedAsOutput
<1>. QED
  BY <1>4, <1>5, <1>6

LEMMA EachFoundOnce ==
  ASSUME FrontInv
  PROVE  OwnHeadersFoundOnce
<1>. SUFFICES ASSUME ScanSucceeded
              PROVE  /\ \A f : Wanted(f) => f \in Range(headers)
                     /\ Cardinality(Range(headers)) = Len(headers)
  BY DEF OwnHeadersFoundOnce, Wanted
<1>1. HeadersOk(headers, frames) /\ NoneMissed(headers, frames) /\ frames = <<>>
  BY DEF FrontInv, ScanInv, ScanSucceeded
<1>2. \A f : Wanted(f) => f \in Range(headers)
  BY <1>1, NoFrames DEF NoneMissed
<1>3. /\ headers \in Seq(Seq(STRING)) /\ Len(headers) \in Nat
      /\ DOMAIN headers = 1 .. Len(headers)
      /\ \A i, j \in 1 .. Len(headers) : headers[i] = headers[j] => i = j
  BY <1>1 DEF HeadersOk
<1>4. headers \in Bijection(1 .. Len(headers), Range(headers))
  <2>1. Range(headers) = {headers[i] : i \in 1 .. Len(headers)}
    BY <1>3 DEF Range
  <2>2. headers \in [1 .. Len(headers) -> Range(headers)]
    BY <1>3, <2>1
  <2>. QED
    BY <1>3, <2>1, <2>2 DEF Bijection, Injection, IsInjective, Surjection
<1>5. Cardinality(Range(headers)) = Len(headers)
  BY <1>3, <1>4, FS_CountingElements DEF ExistsBijection
<1>. QED
  BY <1>2, <1>5

LEMMA DescentEnds ==
  ASSUME FrontInv
  PROVE  NoEndlessDescent
<1>. SUFFICES ASSUME scan_errors = {}, NEW j \in Led, NEW k \in Led,
                     LinkFree(frames[j].at) = LinkFree(frames[k].at)
              PROVE  j = k
  BY DEF NoEndlessDescent
<1>1. PathsOk(frames, visited) /\ frames \in Seq(FrameSet)
  BY DEF FrontInv, ScanInv, FramesOk
<1>2. /\ j \in 1 .. Len(frames) /\ j > 1 /\ IsSymlink(frames[j].at)
      /\ k \in 1 .. Len(frames) /\ k > 1 /\ IsSymlink(frames[k].at)
  BY <1>1 DEF Led
<1>. QED
  BY <1>1, <1>2 DEF PathsOk

(* CandidatesAreInputs: whatever links there are and whatever becomes of   *)
(* the calls of the file system, a scan that ends without an error takes   *)
(* no header from outside the project, from the output directory or from   *)
(* what mockfakegen generated.                                             *)
THEOREM OnlyInputsAreTaken == Spec => []CandidatesAreInputs
<1>1. FrontInv => CandidatesAreInputs
  BY OnlyInputs
<1>. QED
  BY FrontInvariance, <1>1, PTL

(* OwnHeadersFoundOnce: such a scan has missed no header of the tree, and  *)
(* has none twice.                                                         *)
THEOREM OwnHeadersAreFound == Spec => []OwnHeadersFoundOnce
<1>1. FrontInv => OwnHeadersFoundOnce
  BY EachFoundOnce
<1>. QED
  BY FrontInvariance, <1>1, PTL

(* NoEndlessDescent: the directories that links led the iterator to are    *)
(* all different.                                                          *)
THEOREM DescentIsBounded == Spec => []NoEndlessDescent
<1>1. FrontInv => NoEndlessDescent
  BY DescentEnds
<1>. QED
  BY FrontInvariance, <1>1, PTL
=============================================================================
