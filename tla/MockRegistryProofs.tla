------------------------- MODULE MockRegistryProofs -------------------------
(***************************************************************************)
(* Proofs about the registry, for any threads, scopes and mocks and for    *)
(* test programs in each of the three modes.  LockInv and SeenInv are the  *)
(* mutual exclusion of the registry's operations, OwnInv says whose a      *)
(* scope is, StackInv what is on the stacks, OrderInv in which order in    *)
(* thread-local mode, and LifeInv what keeps a mock alive in the modes     *)
(* that do not own it.                                                     *)
(***************************************************************************)
EXTENDS MockRegistry, FiniteSetTheorems, SequenceTheorems, TLAPS

ThreadLocal == setup.mode = "thread-local"

(* In the middle of an operation of the registry, which the mutex guards.  *)
Inside(t) == op[t] \in {"pushing", "popping", "looking"}

Distinct(s) == \A m, n \in DOMAIN s : s[m] = s[n] => m = n

LockInv ==
  IF ThreadLocal THEN lock = Nobody ELSE \A t \in Threads : Inside(t) <=> lock = t

SeenInv == \A t \in Threads : Inside(t) => seen[t] = stack[Key(t)]

Ending(t, s) == op[t] \in {"popping", "leaving"} /\ arg[t] = s

OwnInv ==
  /\ \A t \in Threads : Distinct(nest[t])
  /\ \A t, u \in Threads : \A s \in Entries(nest[t]) : s \in Entries(nest[u]) => t = u
  /\ \A t, u \in Threads : \A s \in Scopes : Ending(t, s) /\ Ending(u, s) => t = u
  /\ \A t \in Threads : \A s \in Entries(nest[t]) : scope[s] = "open"
  /\ \A t \in Threads : op[t] = "pushing" => arg[t] \in Entries(nest[t])
  /\ \A t \in Threads : op[t] = "popping" =>
       /\ arg[t] \in Scopes /\ scope[arg[t]] = "open"
       /\ \A u \in Threads : arg[t] \notin Entries(nest[u])
  /\ \A t \in Threads : op[t] = "leaving" => arg[t] \in Scopes /\ scope[arg[t]] = "popped"

Registered(t, s) == InRegistry(t, s) \/ (op[t] = "popping" /\ arg[t] = s)

StackInv ==
  \A k \in Keys :
    /\ Distinct(stack[k])
    /\ \A s \in Scopes : s \in Entries(stack[k]) <=>
                           \E t \in Threads : Key(t) = k /\ Registered(t, s)

(* How the scopes a thread has are ordered on its own stack. *)
Ordered(t) ==
  CASE op[t] = "pushing" -> nest[t] = Append(stack[t], arg[t])
    [] op[t] = "popping" ->
         /\ setup.lifo => arg[t] \in Tops(stack[t])
         /\ arg[t] \in Tops(stack[t]) => stack[t] = Append(nest[t], arg[t])
    [] OTHER -> nest[t] = stack[t]

OrderInv ==
  ThreadLocal =>
    /\ \A t \in Threads : Ordered(t)
    /\ InnermostOwnMock
    /\ LifoNeverAborts

(* The mock a fake runs on is that of a scope whose destructor has not begun. *)
LifeInv ==
  /\ \A t \in Threads : op[t] = "running" => target[t] \in Mocks
  /\ ~Shared =>
       /\ \A t \in Threads : op[t] = "running" =>
            \E u \in Threads : \E s \in Entries(nest[u]) :
              target[t] = mockOf[s] /\ (ThreadLocal => u = t)
       /\ \A m \in destroyed : \A s \in Scopes : mockOf[s] = m => scope[s] = "gone"

Inv == TypeOK /\ LockInv /\ SeenInv /\ OwnInv /\ StackInv /\ OrderInv
-----------------------------------------------------------------------------
(* Sequences without repetition: appending, leaving out the last, leaving out *)
(* one.                                                                    *)

LEMMA AppendFacts ==
  ASSUME NEW S, NEW s \in Seq(S), NEW x \in S
  PROVE  /\ Append(s, x) \in Seq(S)
         /\ Append(s, x) # <<>>
         /\ Top(Append(s, x)) = x
         /\ Entries(Append(s, x)) = Entries(s) \union {x}
         /\ Distinct(s) /\ x \notin Entries(s) => Distinct(Append(s, x))
<1>1. /\ Append(s, x) \in Seq(S) /\ Len(s) \in Nat /\ Len(Append(s, x)) = Len(s) + 1
      /\ \A n \in 1 .. Len(s) : Append(s, x)[n] = s[n]
      /\ Append(s, x)[Len(s) + 1] = x
      /\ DOMAIN s = 1 .. Len(s) /\ DOMAIN Append(s, x) = 1 .. Len(s) + 1
  OBVIOUS
<1>. QED
  BY <1>1 DEF Top, Entries, Distinct

LEMMA TopFacts ==
  ASSUME NEW S, NEW s \in Seq(S), s # <<>>
  PROVE  Top(s) \in S /\ Top(s) \in Entries(s) /\ Tops(s) = {Top(s)}
<1>1. Len(s) \in 1 .. Len(s) /\ DOMAIN s = 1 .. Len(s) /\ s[Len(s)] \in S
  OBVIOUS
<1>. QED
  BY <1>1 DEF Top, Entries, Tops

LEMMA FrontFacts ==
  ASSUME NEW S, NEW s \in Seq(S), s # <<>>, Distinct(s)
  PROVE  LET f == SubSeq(s, 1, Len(s) - 1)
         IN /\ f \in Seq(S)
            /\ Entries(f) = Entries(s) \ {Top(s)}
            /\ Distinct(f)
            /\ Top(s) \in Entries(s)
<1>. DEFINE f == SubSeq(s, 1, Len(s) - 1)
<1>1. /\ f \in Seq(S) /\ Len(s) \in Nat /\ Len(s) >= 1 /\ Len(f) = Len(s) - 1
      /\ \A n \in 1 .. Len(s) - 1 : f[n] = s[n]
      /\ DOMAIN s = 1 .. Len(s) /\ DOMAIN f = 1 .. Len(s) - 1
  OBVIOUS
<1>. HIDE DEF f
<1>. QED
  <2>1. Entries(f) = Entries(s) \ {s[Len(s)]}
    <3>1. \A n \in 1 .. Len(s) - 1 : f[n] = s[n] /\ n \in 1 .. Len(s) /\ s[n] # s[Len(s)]
      BY <1>1 DEF Distinct
    <3>2. \A n \in 1 .. Len(s) : n = Len(s) \/ n \in 1 .. Len(s) - 1
      BY <1>1
    <3>. QED
      BY <1>1, <3>1, <3>2 DEF Entries
  <2>2. Distinct(f)
    BY <1>1 DEF Distinct
  <2>3. s[Len(s)] \in Entries(s)
    BY <1>1 DEF Entries
  <2>. QED
    BY <1>1, <2>1, <2>2, <2>3 DEF Top, f

LEMMA FrontOfAppend ==
  ASSUME NEW S, NEW s \in Seq(S), NEW x \in S
  PROVE  SubSeq(Append(s, x), 1, Len(Append(s, x)) - 1) = s
OBVIOUS

LEMMA WithoutFacts ==
  ASSUME NEW S, NEW s \in Seq(S), Distinct(s), NEW x \in Entries(s)
  PROVE  /\ Without(s, x) \in Seq(S)
         /\ Entries(Without(s, x)) = Entries(s) \ {x}
         /\ Distinct(Without(s, x))
         /\ x = Top(s) => s = Append(Without(s, x), x)
<1>. DEFINE p == PlaceOf(s, x)
            w == Without(s, x)
<1>1. Len(s) \in Nat /\ DOMAIN s = 1 .. Len(s) /\ \A n \in 1 .. Len(s) : s[n] \in S
  OBVIOUS
<1>2. p \in 1 .. Len(s) /\ s[p] = x
  BY <1>1 DEF Entries, PlaceOf
<1>. HIDE DEF p
<1>3. w = [n \in 1 .. Len(s) - 1 |-> IF n < p THEN s[n] ELSE s[n + 1]]
  BY DEF Without, p
<1>. HIDE DEF w
<1>4. /\ DOMAIN w = 1 .. Len(s) - 1
      /\ \A n \in 1 .. Len(s) - 1 : w[n] = IF n < p THEN s[n] ELSE s[n + 1]
  BY <1>3
<1>5. w \in Seq(S) /\ Len(w) = Len(s) - 1
  <2>1. \A n \in 1 .. Len(s) - 1 : n \in 1 .. Len(s) /\ n + 1 \in 1 .. Len(s)
    BY <1>1
  <2>2. w \in [1 .. Len(s) - 1 -> S] /\ Len(s) - 1 \in Nat
    BY <1>1, <1>2, <1>3, <2>1
  <2>. QED
    BY <2>2
<1>6. Distinct(w)
  <2>. DEFINE from(n) == IF n < p THEN n ELSE n + 1
  <2>1. \A n \in 1 .. Len(s) - 1 : from(n) \in 1 .. Len(s) /\ w[n] = s[from(n)]
    BY <1>1, <1>2, <1>4
  <2>2. \A m, n \in 1 .. Len(s) - 1 : m # n => from(m) # from(n)
    BY <1>1, <1>2
  <2>3. \A m, n \in 1 .. Len(s) : m # n => s[m] # s[n]
    BY <1>1 DEF Distinct
  <2>. HIDE DEF from
  <2>4. \A m, n \in 1 .. Len(s) - 1 : m # n => w[m] # w[n]
    BY <2>1, <2>2, <2>3
  <2>. QED
    BY <1>4, <2>4 DEF Distinct
<1>7. Entries(w) = Entries(s) \ {x}
  <2>1. \A n \in 1 .. Len(s) - 1 : w[n] \in Entries(s) \ {x}
    BY <1>1, <1>2, <1>4 DEF Entries, Distinct
  <2>2. ASSUME NEW n \in 1 .. Len(s), n # p PROVE s[n] \in Entries(w)
    <3>1. CASE n < p
      BY <1>1, <1>2, <1>4, <3>1 DEF Entries
    <3>2. CASE n > p
      <4>1. n - 1 \in 1 .. Len(s) - 1 /\ w[n - 1] = s[n]
        BY <1>1, <1>2, <1>4, <3>2
      <4>. QED
        BY <1>4, <4>1 DEF Entries
    <3>. QED
      BY <1>1, <1>2, <2>2, <3>1, <3>2
  <2>. QED
    BY <1>1, <1>2, <1>4, <2>1, <2>2 DEF Entries
<1>8. ASSUME x = Top(s) PROVE s = Append(w, x)
  <2>1. p = Len(s)
    <3>1. Len(s) \in 1 .. Len(s) /\ s[Len(s)] = s[p]
      BY <1>1, <1>2, <1>8 DEF Top
    <3>. QED
      BY <1>1, <1>2, <3>1 DEF Distinct
  <2>2. /\ Append(w, x) \in Seq(S) /\ Len(Append(w, x)) = Len(s)
        /\ \A n \in 1 .. Len(s) : Append(w, x)[n] = s[n]
    <3>1. x \in S
      BY <1>1, <1>2
    <3>2. /\ Append(w, x) \in Seq(S) /\ Len(Append(w, x)) = Len(w) + 1
          /\ \A n \in 1 .. Len(w) : Append(w, x)[n] = w[n]
          /\ Append(w, x)[Len(w) + 1] = x
      BY <1>5, <3>1, AppendProperties
    <3>. QED
      BY <1>1, <1>2, <1>4, <1>5, <2>1, <3>2
  <2>. QED
    BY <1>1, <2>2, SeqEqual
<1>. QED
  BY <1>5, <1>6, <1>7, <1>8 DEF w
-----------------------------------------------------------------------------
LEMMA SetupFrame ==
  ASSUME UNCHANGED setup
  PROVE  /\ Keys' = Keys
         /\ \A t : Key(t)' = Key(t)
         /\ ThreadLocal' = ThreadLocal
         /\ Shared' = Shared
BY DEF Keys, Key, ThreadLocal, Shared

LEMMA KeyFacts ==
  /\ \A t \in Threads : Key(t) \in Keys
  /\ ThreadLocal => Keys = Threads /\ \A t : Key(t) = t
  /\ ~ThreadLocal => Keys \subseteq {Nobody} /\ \A t : Key(t) = Nobody
BY DEF Keys, Key, ThreadLocal

LEMMA TypeFacts ==
  ASSUME TypeOK
  PROVE  /\ setup.threads \subseteq Threads /\ setup.scopers \subseteq Threads
         /\ setup.mode \in Modes /\ setup.lifo \in BOOLEAN /\ setup.join \in BOOLEAN
         /\ ~ThreadLocal /\ ~Shared => setup.mode = "global-mutex"
         /\ \A t \in Threads : nest[t] \in Seq(Scopes) /\ Entries(nest[t]) \subseteq Scopes
         /\ \A t \in Threads : seen[t] \in Seq(Scopes) /\ Entries(seen[t]) \subseteq Scopes
         /\ \A t \in Threads : stack[Key(t)] \in Seq(Scopes)
         /\ \A k \in Keys : Entries(stack[k]) \subseteq Scopes
<1>1. setup \in Setup /\ setup.scopers \subseteq setup.threads
  BY SetupsGiven DEF TypeOK
<1>2. \A s \in Seq(Scopes) : Entries(s) \subseteq Scopes
  BY DEF Entries
<1>3. /\ setup.threads \subseteq Threads /\ setup.mode \in Modes
      /\ setup.lifo \in BOOLEAN /\ setup.join \in BOOLEAN
  BY <1>1 DEF Setup
<1>4. ~ThreadLocal /\ ~Shared => setup.mode = "global-mutex"
  BY <1>3 DEF Modes, ThreadLocal, Shared
<1>5. /\ \A t \in Threads : nest[t] \in Seq(Scopes) /\ seen[t] \in Seq(Scopes)
      /\ \A k \in Keys : stack[k] \in Seq(Scopes)
  BY DEF TypeOK
<1>6. \A t \in Threads : Key(t) \in Keys
  BY KeyFacts
<1>. QED
  BY <1>1, <1>2, <1>3, <1>4, <1>5, <1>6

(* What the mutex and the read at the start of an operation leave behind.  *)
LEMMA EnterFacts ==
  ASSUME TypeOK, NEW t \in Threads, NEW what \in Ops, Enter(t, what)
  PROVE  /\ op[t] = "idle" /\ Running
         /\ op' \in [Threads -> Ops] /\ op' = [op EXCEPT ![t] = what]
         /\ seen' \in [Threads -> Seq(Scopes)] /\ seen' = [seen EXCEPT ![t] = stack[Key(t)]]
         /\ lock' \in Threads \union {Nobody}
         /\ ThreadLocal => lock' = lock
         /\ ~ThreadLocal => lock = Nobody /\ lock' = t
<1>1. stack[Key(t)] \in Seq(Scopes)
  BY TypeFacts
<1>2. op' = [op EXCEPT ![t] = what] /\ seen' = [seen EXCEPT ![t] = stack[Key(t)]]
  BY DEF Enter
<1>3. /\ lock' \in Threads \union {Nobody}
      /\ ThreadLocal => lock' = lock
      /\ ~ThreadLocal => lock = Nobody /\ lock' = t
  BY DEF Enter, TypeOK, ThreadLocal
<1>4. op' \in [Threads -> Ops] /\ seen' \in [Threads -> Seq(Scopes)]
  BY <1>1, <1>2 DEF TypeOK
<1>. QED
  BY <1>2, <1>3, <1>4 DEF Enter

LEMMA LeaveFacts ==
  ASSUME TypeOK, NEW t \in Threads, NEW next \in Ops, Leave(t, next)
  PROVE  /\ op' \in [Threads -> Ops] /\ op' = [op EXCEPT ![t] = next]
         /\ lock' \in Threads \union {Nobody}
         /\ lock' = IF ThreadLocal THEN lock ELSE Nobody
BY DEF Leave, TypeOK, ThreadLocal

LEMMA TypeStep == TypeOK /\ OwnInv /\ [Next]_vars => TypeOK'
<1>. SUFFICES ASSUME TypeOK, OwnInv, [Next]_vars PROVE TypeOK'
  OBVIOUS
<1>0. /\ setup.threads \subseteq Threads
      /\ \A t \in Threads : nest[t] \in Seq(Scopes) /\ Entries(nest[t]) \subseteq Scopes
      /\ \A t \in Threads : stack[Key(t)] \in Seq(Scopes)
  BY TypeFacts
<1>1. UNCHANGED setup => Keys' = Keys
  BY SetupFrame
<1>2. {"idle", "pushing", "popping", "leaving", "looking", "running"} = Ops
  BY DEF Ops
<1>3. ASSUME NEW t \in Threads, NEW s \in Scopes, NEW m \in Mocks, Construct(t, s, m),
             UNCHANGED setup
      PROVE  TypeOK'
  <2>1. Append(nest[t], s) \in Seq(Scopes) /\ Enter(t, "pushing")
    BY <1>0, <1>3 DEF Construct
  <2>2. /\ op' \in [Threads -> Ops] /\ seen' \in [Threads -> Seq(Scopes)]
        /\ lock' \in Threads \union {Nobody}
    BY <1>2, <2>1, EnterFacts
  <2>3. /\ nest' \in [Threads -> Seq(Scopes)]
        /\ arg' \in [Threads -> Scopes \union {Nobody}]
    BY <1>3, <2>1 DEF Construct, TypeOK
  <2>4. /\ scope' \in [Scopes -> ScopeStates] /\ mockOf' \in [Scopes -> Mocks \union {NoMock}]
        /\ \A x \in Scopes : scope'[x] # "unused" => mockOf'[x] \in Mocks
    BY <1>3 DEF Construct, TypeOK, ScopeStates
  <2>. QED
    BY <1>1, <1>3, <2>2, <2>3, <2>4 DEF Construct, TypeOK
<1>4. ASSUME NEW t \in Threads, Push(t), UNCHANGED setup
      PROVE  TypeOK'
  <2>1. arg[t] \in Scopes /\ seen[t] \in Seq(Scopes)
    BY <1>0, <1>4 DEF Push, OwnInv, TypeOK
  <2>2. Append(seen[t], arg[t]) \in Seq(Scopes)
    BY <2>1
  <2>3. stack' \in [Keys -> Seq(Scopes)]
    BY <1>4, <2>2 DEF Push, TypeOK
  <2>. QED
    BY <1>1, <1>2, <1>4, <2>3, LeaveFacts DEF Push, TypeOK, clientVars
<1>5. ASSUME NEW t \in Threads, NEW s \in Scopes, Destruct(t, s), UNCHANGED setup
      PROVE  TypeOK'
  <2>1. Without(nest[t], s) \in Seq(Scopes)
    BY <1>0, <1>5, WithoutFacts DEF OwnInv, Destruct
  <2>2. /\ nest' \in [Threads -> Seq(Scopes)]
        /\ arg' \in [Threads -> Scopes \union {Nobody}]
    BY <1>5, <2>1 DEF Destruct, TypeOK
  <2>. QED
    BY <1>1, <1>2, <1>5, <2>2, EnterFacts DEF Destruct, TypeOK
<1>6. ASSUME NEW t \in Threads, Pop(t), UNCHANGED setup
      PROVE  TypeOK'
  <2>1. CASE Abort("order mismatch")
    BY <1>1, <1>6, <2>1 DEF Abort, TypeOK, clientVars
  <2>2. CASE /\ \E s \in Tops(seen[t]) : SameToken(s, arg[t])
             /\ stack' = [stack EXCEPT ![Key(t)] = SubSeq(seen[t], 1, Len(seen[t]) - 1)]
             /\ scope' = [scope EXCEPT ![arg[t]] = "popped"]
             /\ Leave(t, "leaving")
             /\ UNCHANGED <<arg, seen, target, mockOf, clientVars, aborted>>
    <3>1. seen[t] # <<>> /\ seen[t] \in Seq(Scopes)
      BY <2>2 DEF Tops, TypeOK
    <3>2. SubSeq(seen[t], 1, Len(seen[t]) - 1) \in Seq(Scopes)
      BY <3>1
    <3>3. stack' \in [Keys -> Seq(Scopes)]
      BY <2>2, <3>2 DEF TypeOK
    <3>4. arg[t] \in Scopes /\ scope[arg[t]] = "open"
      BY <1>6 DEF Pop, OwnInv
    <3>5. /\ scope' \in [Scopes -> ScopeStates]
          /\ \A x \in Scopes : scope'[x] # "unused" => scope[x] # "unused"
      BY <2>2, <3>4 DEF TypeOK, ScopeStates
    <3>. QED
      BY <1>1, <1>2, <1>6, <2>2, <3>3, <3>5, LeaveFacts DEF TypeOK, clientVars
  <2>. QED
    BY <1>6, <2>1, <2>2 DEF Pop
<1>7. ASSUME NEW t \in Threads, DestroyMembers(t), UNCHANGED setup
      PROVE  TypeOK'
  <2>1. arg[t] \in Scopes /\ scope[arg[t]] = "popped"
    BY <1>7 DEF DestroyMembers, OwnInv
  <2>2. /\ scope' \in [Scopes -> ScopeStates]
        /\ \A x \in Scopes : scope'[x] # "unused" => scope[x] # "unused"
        /\ op' \in [Threads -> Ops]
    BY <1>7, <2>1 DEF DestroyMembers, TypeOK, ScopeStates, Ops
  <2>. QED
    BY <1>1, <1>7, <2>2 DEF DestroyMembers, TypeOK, clientVars
<1>8. ASSUME NEW t \in Threads, Call(t), UNCHANGED setup
      PROVE  TypeOK'
  BY <1>1, <1>2, <1>8, EnterFacts DEF Call, TypeOK, clientVars
<1>9. ASSUME NEW t \in Threads, Deliver(t), UNCHANGED setup
      PROVE  TypeOK'
  <2>1. Top(seen[t]) \in Scopes
    BY <1>9, TopFacts DEF Deliver, TypeOK
  <2>2. target' \in [Threads -> Mocks \union {NoMock}]
    BY <1>9, <2>1 DEF Deliver, TypeOK
  <2>. QED
    BY <1>1, <1>2, <1>9, <2>2, LeaveFacts DEF Deliver, TypeOK, clientVars
<1>10. ASSUME NEW t \in Threads, Miss(t) \/ ConstructNull(t), UNCHANGED setup
       PROVE  TypeOK'
  <2>1. CASE Abort("missing mock") \/ Abort("nullptr")
    BY <1>1, <1>10, <2>1 DEF Abort, TypeOK, clientVars
  <2>2. CASE /\ Leave(t, "idle")
             /\ UNCHANGED <<arg, seen, target, stack, scope, mockOf, clientVars, aborted>>
    BY <1>1, <1>2, <1>10, <2>2, LeaveFacts DEF TypeOK, clientVars
  <2>. QED
    BY <1>10, <2>1, <2>2 DEF Miss, ConstructNull
<1>11. ASSUME NEW t \in Threads, Return(t), UNCHANGED setup
       PROVE  TypeOK'
  <2>1. op' \in [Threads -> Ops] /\ target' \in [Threads -> Mocks \union {NoMock}]
    BY <1>11 DEF Return, TypeOK, Ops
  <2>. QED
    BY <1>1, <1>11, <2>1 DEF Return, TypeOK, clientVars
<1>12. ASSUME NEW m \in Mocks, DropTestReference(m) \/ EndMockLifetime(m), UNCHANGED setup
       PROVE  TypeOK'
  BY <1>1, <1>12 DEF DropTestReference, EndMockLifetime, TypeOK
<1>13. CASE UNCHANGED vars
  BY <1>1, <1>13 DEF vars, clientVars, TypeOK
<1>. QED
  BY <1>0, <1>3, <1>4, <1>5, <1>6, <1>7, <1>8, <1>9, <1>10, <1>11, <1>12, <1>13 DEF Next, Step
-----------------------------------------------------------------------------
(* A step of a thread leaves the other threads alone, and the other stacks. *)
LEMMA OthersFrame ==
  ASSUME TypeOK, OwnInv, NEW t \in Threads, Step(t)
  PROVE  /\ \A u \in Threads \ {t} : /\ op'[u] = op[u] /\ arg'[u] = arg[u]
                                     /\ seen'[u] = seen[u] /\ nest'[u] = nest[u]
                                     /\ target'[u] = target[u]
         /\ \A k \in Keys \ {Key(t)} : stack'[k] = stack[k]
<1>. USE DEF clientVars
<1>1. CASE \E s \in Scopes, m \in Mocks : Construct(t, s, m)
  BY <1>1 DEF Construct, Enter, TypeOK
<1>2. CASE \E s \in Scopes : Destruct(t, s)
  BY <1>2 DEF Destruct, Enter, TypeOK
<1>3. CASE Push(t) \/ DestroyMembers(t) \/ Call(t) \/ Deliver(t) \/ Return(t)
  BY <1>3 DEF Push, DestroyMembers, Call, Deliver, Return, Enter, Leave, TypeOK
<1>4. CASE Pop(t) \/ Miss(t) \/ ConstructNull(t)
  BY <1>4 DEF Pop, Miss, ConstructNull, Abort, Leave, TypeOK
<1>. QED
  BY <1>1, <1>2, <1>3, <1>4 DEF Step
-----------------------------------------------------------------------------
(* Mutual exclusion: whoever is inside an operation still finds the stack  *)
(* as it was at its start.                                                 *)
LEMMA LockStep ==
  TypeOK /\ LockInv /\ SeenInv /\ [Next]_vars => LockInv' /\ SeenInv'
<1>. SUFFICES ASSUME TypeOK, LockInv, SeenInv, [Next]_vars PROVE LockInv' /\ SeenInv'
  OBVIOUS
<1>. USE DEF clientVars
<1>0. /\ setup.threads \subseteq Threads /\ op \in [Threads -> Ops] /\ Nobody \notin Threads
      /\ seen \in [Threads -> Seq(Scopes)] /\ stack \in [Keys -> Seq(Scopes)]
      /\ {"idle", "pushing", "popping", "leaving", "looking", "running"} = Ops
  BY TypeFacts, NamesGiven DEF TypeOK, Ops
<1>1. UNCHANGED setup => (\A t : Key(t)' = Key(t)) /\ ThreadLocal' = ThreadLocal
  BY SetupFrame
<1>2. ASSUME NEW t \in Threads, NEW what \in {"pushing", "popping", "looking"},
             Enter(t, what), UNCHANGED <<setup, stack>>
      PROVE  LockInv' /\ SeenInv'
  <2>1. /\ op' = [op EXCEPT ![t] = what] /\ seen' = [seen EXCEPT ![t] = stack[Key(t)]]
        /\ ThreadLocal => lock' = lock
        /\ ~ThreadLocal => lock = Nobody /\ lock' = t
    BY <1>0, <1>2, EnterFacts
  <2>2. LockInv'
    BY <1>0, <1>1, <1>2, <2>1 DEF LockInv, Inside
  <2>3. SeenInv'
    BY <1>0, <1>1, <1>2, <2>1 DEF SeenInv, Inside
  <2>. QED
    BY <2>2, <2>3
<1>3. ASSUME NEW t \in Threads, NEW next \in {"idle", "leaving", "running"},
             Inside(t), Leave(t, next), UNCHANGED <<setup, seen>>,
             \A k \in Keys \ {Key(t)} : stack'[k] = stack[k]
      PROVE  LockInv' /\ SeenInv'
  <2>1. /\ op' = [op EXCEPT ![t] = next] /\ lock' = IF ThreadLocal THEN lock ELSE Nobody
    BY <1>0, <1>3, LeaveFacts
  <2>2. LockInv'
    BY <1>0, <1>1, <1>3, <2>1 DEF LockInv, Inside
  <2>3. ASSUME NEW u \in Threads, Inside(u)'
        PROVE  seen'[u] = stack'[Key(u)]
    <3>1. u # t /\ Inside(u)
      BY <1>0, <1>3, <2>1, <2>3 DEF Inside
    <3>2. ThreadLocal
      BY <1>3, <3>1 DEF LockInv
    <3>3. Key(u) \in Keys \ {Key(t)}
      BY <3>1, <3>2, KeyFacts
    <3>. QED
      BY <1>3, <3>1, <3>3 DEF SeenInv
  <2>4. SeenInv'
    BY <1>1, <1>3, <2>3 DEF SeenInv
  <2>. QED
    BY <2>2, <2>4
<1>4. ASSUME UNCHANGED <<setup, lock, seen, stack>>, \A u \in Threads : Inside(u)' = Inside(u)
      PROVE  LockInv' /\ SeenInv'
  BY <1>1, <1>4 DEF LockInv, SeenInv
<1>5. ASSUME NEW t \in Threads, NEW s \in Scopes, NEW m \in Mocks, Construct(t, s, m),
             UNCHANGED setup
      PROVE  LockInv' /\ SeenInv'
  BY <1>2, <1>5 DEF Construct
<1>6. ASSUME NEW t \in Threads, Push(t), UNCHANGED setup
      PROVE  LockInv' /\ SeenInv'
  BY <1>0, <1>3, <1>6 DEF Push, Inside
<1>7. ASSUME NEW t \in Threads, NEW s \in Scopes, Destruct(t, s), UNCHANGED setup
      PROVE  LockInv' /\ SeenInv'
  BY <1>2, <1>7 DEF Destruct
<1>8. ASSUME NEW t \in Threads, Pop(t), UNCHANGED setup
      PROVE  LockInv' /\ SeenInv'
  <2>1. CASE Abort("order mismatch")
    BY <1>4, <1>8, <2>1 DEF Abort, Inside
  <2>2. CASE ~Abort("order mismatch")
    BY <1>0, <1>3, <1>8, <2>2 DEF Pop, Inside
  <2>. QED
    BY <2>1, <2>2
<1>9. ASSUME NEW t \in Threads, DestroyMembers(t) \/ Return(t), UNCHANGED setup
      PROVE  LockInv' /\ SeenInv'
  BY <1>0, <1>4, <1>9 DEF DestroyMembers, Return, Inside
<1>10. ASSUME NEW t \in Threads, Call(t), UNCHANGED setup
       PROVE  LockInv' /\ SeenInv'
  BY <1>2, <1>10 DEF Call
<1>11. ASSUME NEW t \in Threads, Deliver(t), UNCHANGED setup
       PROVE  LockInv' /\ SeenInv'
  BY <1>3, <1>11 DEF Deliver, Inside
<1>12. ASSUME NEW t \in Threads, Miss(t) \/ ConstructNull(t), UNCHANGED setup
       PROVE  LockInv' /\ SeenInv'
  <2>1. CASE Abort("missing mock") \/ Abort("nullptr")
    BY <1>4, <1>12, <2>1 DEF Abort, Inside
  <2>2. CASE Inside(t) /\ Leave(t, "idle") /\ UNCHANGED <<seen, stack>>
    BY <1>3, <1>12, <2>2
  <2>. QED
    BY <1>12, <2>1, <2>2 DEF Miss, ConstructNull, Inside
<1>13. CASE \/ \E m \in Mocks : DropTestReference(m) \/ EndMockLifetime(m)
            \/ UNCHANGED vars
  BY <1>4, <1>13 DEF DropTestReference, EndMockLifetime, Next, vars, Inside
<1>. QED
  BY <1>0, <1>5, <1>6, <1>7, <1>8, <1>9, <1>10, <1>11, <1>12, <1>13 DEF Next, Step
-----------------------------------------------------------------------------
(* Each scope object is in the hands of one thread.                        *)
LEMMA OwnStep == TypeOK /\ OwnInv /\ [Next]_vars => OwnInv'
<1>. SUFFICES ASSUME TypeOK, OwnInv, [Next]_vars PROVE OwnInv'
  OBVIOUS
<1>. USE DEF clientVars
<1>0. /\ setup.threads \subseteq Threads /\ op \in [Threads -> Ops]
      /\ \A t \in Threads : nest[t] \in Seq(Scopes) /\ Entries(nest[t]) \subseteq Scopes
      /\ {"idle", "pushing", "popping", "leaving", "looking", "running"} = Ops
      /\ arg \in [Threads -> Scopes \union {Nobody}] /\ scope \in [Scopes -> ScopeStates]
      /\ nest \in [Threads -> Seq(Scopes)]
  BY TypeFacts DEF TypeOK, Ops
(* A step that takes no scope up and lets none go. *)
<1>1. ASSUME UNCHANGED <<scope, nest, arg>>,
             \A u \in Threads : op'[u] \in {"pushing", "popping", "leaving"} => op'[u] = op[u]
      PROVE  OwnInv'
  BY <1>1 DEF OwnInv, Ending
<1>2. ASSUME NEW t \in Threads, NEW s \in Scopes, NEW m \in Mocks, Construct(t, s, m)
      PROVE  OwnInv'
  <2>1. /\ op[t] = "idle" /\ op' = [op EXCEPT ![t] = "pushing"]
        /\ scope[s] = "unused" /\ scope' = [scope EXCEPT ![s] = "open"]
        /\ arg' = [arg EXCEPT ![t] = s] /\ nest' = [nest EXCEPT ![t] = Append(@, s)]
    BY <1>2 DEF Construct, Enter
  <2>2. \A u \in Threads : s \notin Entries(nest[u]) /\ ~Ending(u, s)
    BY <2>1 DEF OwnInv, Ending
  <2>3. /\ Entries(nest'[t]) = Entries(nest[t]) \union {s} /\ Distinct(nest'[t])
        /\ \A u \in Threads : u # t => nest'[u] = nest[u]
    BY <1>0, <2>1, <2>2, AppendFacts DEF OwnInv
  <2>4. \A u \in Threads : \A x \in Scopes : Ending(u, x)' <=> Ending(u, x) /\ u # t
    BY <1>0, <2>1 DEF Ending
  <2>5. \A u \in Threads : ~Ending(t, arg[u])
    BY <2>1 DEF Ending
  <2>6. ASSUME NEW u \in Threads, NEW x \in Entries(nest'[u])
        PROVE  scope'[x] = "open"
    <3>1. x = s \/ x \in Entries(nest[u])
      BY <2>3
    <3>2. x \in Entries(nest[u]) => x \in Scopes /\ scope[x] = "open"
      BY <1>0 DEF OwnInv
    <3>. QED
      BY <1>0, <2>1, <3>1, <3>2
  <2>7. ASSUME NEW u \in Threads, NEW v \in Threads, NEW x \in Entries(nest'[u]),
               x \in Entries(nest'[v])
        PROVE  u = v
    <3>1. CASE x = s
      BY <2>2, <2>3, <2>7, <3>1
    <3>2. CASE x # s
      BY <2>3, <2>7, <3>2 DEF OwnInv
    <3>. QED
      BY <3>1, <3>2
  <2>8. \A u \in Threads : op'[u] = "popping" =>
          /\ u # t /\ op[u] = "popping" /\ arg'[u] = arg[u] /\ arg[u] # s
    BY <1>0, <2>1, <2>2 DEF Ending
  <2>9. \A u \in Threads : op'[u] = "popping" =>
          /\ arg'[u] \in Scopes /\ scope'[arg'[u]] = "open"
          /\ \A v \in Threads : arg'[u] \notin Entries(nest'[v])
    BY <1>0, <2>1, <2>3, <2>8 DEF OwnInv
  <2>10. \A u \in Threads : op'[u] = "leaving" => arg'[u] \in Scopes /\ scope'[arg'[u]] = "popped"
    <3>1. ASSUME NEW u \in Threads, op'[u] = "leaving"
          PROVE  arg'[u] = arg[u] /\ op[u] = "leaving" /\ arg[u] # s
      BY <1>0, <2>1, <2>2, <3>1 DEF Ending
    <3>. QED
      BY <1>0, <2>1, <3>1 DEF OwnInv
  <2>11. \A u \in Threads : op'[u] = "pushing" => arg'[u] \in Entries(nest'[u])
    BY <1>0, <2>1, <2>3 DEF OwnInv
  <2>12. \A u \in Threads : Distinct(nest'[u])
    BY <2>3 DEF OwnInv
  <2>13. \A u, v \in Threads : \A x \in Scopes : Ending(u, x)' /\ Ending(v, x)' => u = v
    BY <2>4 DEF OwnInv
  <2>. QED
    BY <2>6, <2>7, <2>9, <2>10, <2>11, <2>12, <2>13 DEF OwnInv
<1>3. ASSUME NEW t \in Threads, NEW s \in Scopes, Destruct(t, s)
      PROVE  OwnInv'
  <2>1. /\ op[t] = "idle" /\ op' = [op EXCEPT ![t] = "popping"]
        /\ s \in Entries(nest[t]) /\ scope' = scope
        /\ arg' = [arg EXCEPT ![t] = s] /\ nest' = [nest EXCEPT ![t] = Without(@, s)]
    BY <1>3 DEF Destruct, Enter
  <2>2. /\ Entries(nest'[t]) = Entries(nest[t]) \ {s} /\ Distinct(nest'[t])
        /\ \A u \in Threads : u # t => nest'[u] = nest[u]
    BY <1>0, <2>1, WithoutFacts DEF OwnInv
  <2>3. \A u \in Threads : s \notin Entries(nest'[u]) /\ Entries(nest'[u]) \subseteq Entries(nest[u])
    BY <2>1, <2>2 DEF OwnInv
  <2>4. \A u \in Threads : ~Ending(u, s)
    BY <2>1 DEF OwnInv, Ending
  <2>5. \A u \in Threads : u # t => op'[u] = op[u] /\ arg'[u] = arg[u]
    BY <1>0, <2>1
  <2>6. op'[t] = "popping" /\ arg'[t] = s /\ scope[s] = "open"
    BY <1>0, <2>1 DEF OwnInv
  <2>7. \A u, v \in Threads : \A x \in Scopes : Ending(u, x)' /\ Ending(v, x)' => u = v
    BY <2>4, <2>5, <2>6 DEF OwnInv, Ending
  <2>8. \A u \in Threads : op'[u] = "popping" =>
          /\ arg'[u] \in Scopes /\ scope'[arg'[u]] = "open"
          /\ \A v \in Threads : arg'[u] \notin Entries(nest'[v])
    BY <2>1, <2>3, <2>5, <2>6 DEF OwnInv
  <2>9. \A u \in Threads : op'[u] = "leaving" => arg'[u] \in Scopes /\ scope'[arg'[u]] = "popped"
    BY <2>1, <2>5, <2>6 DEF OwnInv
  <2>10. \A u \in Threads : op'[u] = "pushing" => arg'[u] \in Entries(nest'[u])
    BY <2>2, <2>5, <2>6 DEF OwnInv
  <2>11. /\ \A u \in Threads : Distinct(nest'[u])
         /\ \A u, v \in Threads : \A x \in Entries(nest'[u]) : x \in Entries(nest'[v]) => u = v
         /\ \A u \in Threads : \A x \in Entries(nest'[u]) : scope'[x] = "open"
    BY <2>1, <2>2, <2>3 DEF OwnInv
  <2>. QED
    BY <2>7, <2>8, <2>9, <2>10, <2>11 DEF OwnInv
(* The steps of a destructor take its scope from open to gone. *)
<1>4. ASSUME NEW t \in Threads, NEW from \in {"popping", "leaving"}, op[t] = from,
             NEW to \in {"leaving", "idle"}, op' = [op EXCEPT ![t] = to],
             UNCHANGED <<arg, nest>>,
             scope' = [scope EXCEPT ![arg[t]] = IF to = "leaving" THEN "popped" ELSE "gone"],
             from = "popping" <=> to = "leaving"
      PROVE  OwnInv'
  <2>1. \A u \in Threads : u # t => op'[u] = op[u]
    BY <1>0, <1>4
  <2>2. op'[t] = to /\ arg[t] \in Scopes /\ \A u \in Threads : arg[t] \notin Entries(nest[u])
    BY <1>0, <1>4 DEF OwnInv
  <2>3. \A x \in Scopes : x # arg[t] => scope'[x] = scope[x]
    BY <1>0, <1>4
  <2>4. \A u \in Threads : u # t /\ op'[u] \in {"popping", "leaving"} =>
          arg[u] \in Scopes /\ arg[u] # arg[t]
    BY <1>4, <2>1, <2>2 DEF OwnInv, Ending
  <2>5. to = "leaving" => scope'[arg[t]] = "popped"
    BY <1>0, <1>4, <2>2
  <2>6. \A u, v \in Threads : \A x \in Scopes : Ending(u, x)' /\ Ending(v, x)' => u = v
    BY <1>4, <2>1, <2>2 DEF OwnInv, Ending
  <2>7. \A u \in Threads : op'[u] = "popping" =>
          /\ arg'[u] \in Scopes /\ scope'[arg'[u]] = "open"
          /\ \A v \in Threads : arg'[u] \notin Entries(nest'[v])
    BY <1>4, <2>1, <2>2, <2>3, <2>4 DEF OwnInv
  <2>8. \A u \in Threads : op'[u] = "leaving" => arg'[u] \in Scopes /\ scope'[arg'[u]] = "popped"
    BY <1>4, <2>1, <2>2, <2>3, <2>4, <2>5 DEF OwnInv
  <2>9. \A u \in Threads : op'[u] = "pushing" => arg'[u] \in Entries(nest'[u])
    BY <1>4, <2>1, <2>2 DEF OwnInv
  <2>10. \A u \in Threads : \A x \in Entries(nest'[u]) : scope'[x] = "open"
    BY <1>0, <1>4, <2>2, <2>3 DEF OwnInv
  <2>. QED
    BY <1>4, <2>6, <2>7, <2>8, <2>9, <2>10 DEF OwnInv
<1>5. ASSUME NEW t \in Threads, Pop(t) PROVE OwnInv'
  <2>1. CASE Abort("order mismatch")
    BY <1>1, <2>1 DEF Abort
  <2>2. CASE ~Abort("order mismatch")
    BY <1>4, <1>5, <2>2 DEF Pop, Leave
  <2>. QED
    BY <2>1, <2>2
<1>6. ASSUME NEW t \in Threads, DestroyMembers(t) PROVE OwnInv'
  BY <1>4, <1>6 DEF DestroyMembers
<1>7. ASSUME NEW t \in Threads,
             Push(t) \/ Call(t) \/ Deliver(t) \/ Miss(t) \/ Return(t) \/ ConstructNull(t)
      PROVE  OwnInv'
  BY <1>0, <1>1, <1>7 DEF Push, Call, Deliver, Miss, Return, ConstructNull, Enter, Leave, Abort
<1>8. CASE \/ \E m \in Mocks : DropTestReference(m) \/ EndMockLifetime(m)
           \/ UNCHANGED vars
  BY <1>1, <1>8 DEF DropTestReference, EndMockLifetime, vars
<1>. QED
  BY <1>0, <1>2, <1>3, <1>5, <1>6, <1>7, <1>8 DEF Next, Step
-----------------------------------------------------------------------------
(* The stacks hold the scopes there are, each once.                        *)
LEMMA StackStep ==
  TypeOK /\ SeenInv /\ OwnInv /\ StackInv /\ [Next]_vars => StackInv'
<1>. SUFFICES ASSUME TypeOK, SeenInv, OwnInv, StackInv, [Next]_vars PROVE StackInv'
  OBVIOUS
<1>. USE DEF clientVars
<1>0. /\ setup.threads \subseteq Threads /\ op \in [Threads -> Ops]
      /\ \A t \in Threads : nest[t] \in Seq(Scopes) /\ Entries(nest[t]) \subseteq Scopes
      /\ {"idle", "pushing", "popping", "leaving", "looking", "running"} = Ops
      /\ arg \in [Threads -> Scopes \union {Nobody}]
      /\ nest \in [Threads -> Seq(Scopes)] /\ stack \in [Keys -> Seq(Scopes)]
      /\ \A t \in Threads : Key(t) \in Keys
  BY TypeFacts, KeyFacts DEF TypeOK, Ops
<1>1. UNCHANGED setup => Keys' = Keys /\ \A t : Key(t)' = Key(t)
  BY SetupFrame
(* A step that changes no stack and nothing that is registered. *)
<1>2. ASSUME UNCHANGED <<setup, stack>>,
             \A u \in Threads : \A x \in Scopes : Registered(u, x)' <=> Registered(u, x)
      PROVE  StackInv'
  BY <1>1, <1>2 DEF StackInv
<1>3. ASSUME UNCHANGED <<setup, stack, nest, arg>>,
             \A u \in Threads : op'[u] # op[u] => /\ op[u] \notin {"pushing", "popping"}
                                                /\ op'[u] \notin {"pushing", "popping"}
      PROVE  StackInv'
  BY <1>2, <1>3 DEF Registered, InRegistry
<1>4. ASSUME NEW t \in Threads, NEW s \in Scopes, NEW m \in Mocks, Construct(t, s, m),
             UNCHANGED setup
      PROVE  StackInv'
  <2>1. /\ op[t] = "idle" /\ op' = [op EXCEPT ![t] = "pushing"] /\ scope[s] = "unused"
        /\ arg' = [arg EXCEPT ![t] = s] /\ nest' = [nest EXCEPT ![t] = Append(@, s)]
        /\ stack' = stack
    BY <1>4 DEF Construct, Enter
  <2>2. s \notin Entries(nest[t])
    BY <2>1 DEF OwnInv
  <2>3. Entries(nest'[t]) = Entries(nest[t]) \union {s}
    BY <1>0, <2>1, AppendFacts
  <2>4. \A x : Registered(t, x)' <=> Registered(t, x)
    BY <1>0, <2>1, <2>2, <2>3 DEF Registered, InRegistry
  <2>5. \A u \in Threads \ {t} : \A x : Registered(u, x)' <=> Registered(u, x)
    BY <1>0, <2>1 DEF Registered, InRegistry
  <2>. QED
    BY <1>2, <1>4, <2>1, <2>4, <2>5
<1>5. ASSUME NEW t \in Threads, NEW s \in Scopes, Destruct(t, s), UNCHANGED setup
      PROVE  StackInv'
  <2>1. /\ op[t] = "idle" /\ op' = [op EXCEPT ![t] = "popping"] /\ s \in Entries(nest[t])
        /\ arg' = [arg EXCEPT ![t] = s] /\ nest' = [nest EXCEPT ![t] = Without(@, s)]
        /\ stack' = stack
    BY <1>5 DEF Destruct, Enter
  <2>2. Entries(nest'[t]) = Entries(nest[t]) \ {s}
    BY <1>0, <2>1, WithoutFacts DEF OwnInv
  <2>3. \A x : Registered(t, x)' <=> Registered(t, x)
    BY <1>0, <2>1, <2>2 DEF Registered, InRegistry
  <2>4. \A u \in Threads \ {t} : \A x : Registered(u, x)' <=> Registered(u, x)
    BY <1>0, <2>1 DEF Registered, InRegistry
  <2>. QED
    BY <1>2, <1>5, <2>1, <2>3, <2>4
<1>6. ASSUME NEW t \in Threads, Push(t), UNCHANGED setup
      PROVE  StackInv'
  <2>1. /\ op[t] = "pushing" /\ op' = [op EXCEPT ![t] = "idle"]
        /\ UNCHANGED <<arg, nest>>
        /\ stack' = [stack EXCEPT ![Key(t)] = Append(seen[t], arg[t])]
        /\ seen[t] = stack[Key(t)]
    BY <1>6 DEF Push, Leave, SeenInv, Inside
  <2>2. arg[t] \in Entries(nest[t]) /\ arg[t] \in Scopes
    BY <1>0, <2>1 DEF OwnInv
  <2>3. \A u \in Threads : ~Registered(u, arg[t])
    BY <2>1, <2>2 DEF Registered, InRegistry, OwnInv
  <2>4. arg[t] \notin Entries(stack[Key(t)])
    BY <1>0, <2>2, <2>3 DEF StackInv
  <2>5. /\ Entries(stack'[Key(t)]) = Entries(stack[Key(t)]) \union {arg[t]}
        /\ Distinct(stack'[Key(t)])
    BY <1>0, <2>1, <2>2, <2>4, AppendFacts DEF StackInv
  <2>6. \A u \in Threads : \A x \in Scopes :
          Registered(u, x)' <=> Registered(u, x) \/ (u = t /\ x = arg[t])
    BY <1>0, <2>1, <2>2 DEF Registered, InRegistry
  <2>7. \A k \in Keys \ {Key(t)} : stack'[k] = stack[k]
    BY <1>0, <2>1
  <2>8. ASSUME NEW k \in Keys, NEW x \in Scopes
        PROVE  x \in Entries(stack'[k]) <=> \E u \in Threads : Key(u) = k /\ Registered(u, x)'
    <3>1. x \in Entries(stack[k]) <=> \E u \in Threads : Key(u) = k /\ Registered(u, x)
      BY DEF StackInv
    <3>2. x \in Entries(stack'[k]) <=> x \in Entries(stack[k]) \/ (k = Key(t) /\ x = arg[t])
      BY <2>5, <2>7
    <3>. QED
      BY <2>6, <3>1, <3>2
  <2>. QED
    BY <1>1, <1>6, <2>5, <2>7, <2>8 DEF StackInv
<1>7. ASSUME NEW t \in Threads, Pop(t), UNCHANGED setup, ~Abort("order mismatch")
      PROVE  StackInv'
  <2>1. /\ op[t] = "popping" /\ op' = [op EXCEPT ![t] = "leaving"]
        /\ UNCHANGED <<arg, nest>>
        /\ stack' = [stack EXCEPT ![Key(t)] = SubSeq(seen[t], 1, Len(seen[t]) - 1)]
        /\ arg[t] \in Tops(seen[t])
        /\ seen[t] = stack[Key(t)]
    BY <1>7 DEF Pop, Leave, SeenInv, Inside, SameToken
  <2>2. stack[Key(t)] # <<>> /\ Top(stack[Key(t)]) = arg[t]
    BY <2>1 DEF Tops
  <2>3. /\ Entries(stack'[Key(t)]) = Entries(stack[Key(t)]) \ {arg[t]}
        /\ Distinct(stack'[Key(t)])
    BY <1>0, <2>1, <2>2, FrontFacts DEF StackInv
  <2>4. \A u \in Threads : Registered(u, arg[t]) => u = t
    BY <2>1 DEF Registered, InRegistry, OwnInv, Ending
  <2>5. \A u \in Threads : \A x \in Scopes :
          Registered(u, x)' <=> Registered(u, x) /\ x # arg[t]
    <3>1. arg[t] \notin Entries(nest[t])
      BY <2>1 DEF OwnInv
    <3>2. ASSUME NEW x \in Scopes
          PROVE  Registered(t, x)' <=> Registered(t, x) /\ x # arg[t]
      BY <1>0, <2>1, <3>1 DEF Registered, InRegistry
    <3>3. ASSUME NEW u \in Threads \ {t}, NEW x \in Scopes
          PROVE  Registered(u, x)' <=> Registered(u, x)
      BY <1>0, <2>1 DEF Registered, InRegistry
    <3>. QED
      BY <2>4, <3>2, <3>3
  <2>6. \A k \in Keys \ {Key(t)} : stack'[k] = stack[k]
    BY <1>0, <2>1
  <2>7. ASSUME NEW k \in Keys, NEW x \in Scopes
        PROVE  x \in Entries(stack'[k]) <=> \E u \in Threads : Key(u) = k /\ Registered(u, x)'
    <3>1. x \in Entries(stack[k]) <=> \E u \in Threads : Key(u) = k /\ Registered(u, x)
      BY DEF StackInv
    <3>2. Registered(t, arg[t])
      BY <2>1 DEF Registered
    <3>3. x \in Entries(stack'[k]) <=> x \in Entries(stack[k]) /\ x # arg[t]
      BY <2>3, <2>4, <2>6, <3>1
    <3>. QED
      BY <2>5, <3>1, <3>3
  <2>. QED
    BY <1>1, <1>7, <2>3, <2>6, <2>7 DEF StackInv
<1>8. ASSUME NEW t \in Threads,
             Call(t) \/ DestroyMembers(t) \/ Deliver(t) \/ Return(t), UNCHANGED setup
      PROVE  StackInv'
  BY <1>0, <1>3, <1>8 DEF Call, DestroyMembers, Deliver, Return, Enter, Leave
<1>9. ASSUME NEW t \in Threads, Miss(t) \/ ConstructNull(t), UNCHANGED setup
      PROVE  StackInv'
  BY <1>0, <1>3, <1>9 DEF Miss, ConstructNull, Leave, Abort
<1>10. ASSUME Abort("order mismatch"), UNCHANGED setup
       PROVE  StackInv'
  BY <1>3, <1>10 DEF Abort
<1>11. CASE \/ \E m \in Mocks : DropTestReference(m) \/ EndMockLifetime(m)
            \/ UNCHANGED vars
  BY <1>3, <1>11 DEF DropTestReference, EndMockLifetime, Next, vars
<1>. QED
  BY <1>0, <1>4, <1>5, <1>6, <1>7, <1>8, <1>9, <1>10, <1>11 DEF Next, Step
-----------------------------------------------------------------------------
(* In thread-local mode a stack is the scopes of its thread, in order.     *)
LEMMA OrderStep ==
  TypeOK /\ SeenInv /\ OwnInv /\ OrderInv /\ [Next]_vars => OrderInv'
<1>. SUFFICES ASSUME TypeOK, SeenInv, OwnInv, OrderInv, [Next]_vars, ThreadLocal
              PROVE  (\A t \in Threads : Ordered(t)') /\ InnermostOwnMock' /\ LifoNeverAborts'
  <2>1. [Next]_vars => UNCHANGED setup
    BY DEF Next, vars
  <2>. QED
    BY <2>1, SetupFrame DEF OrderInv
<1>. USE DEF clientVars
<1>0. /\ setup.threads \subseteq Threads /\ op \in [Threads -> Ops] /\ Keys = Threads
      /\ \A t : Key(t) = t
      /\ \A t \in Threads : nest[t] \in Seq(Scopes) /\ Entries(nest[t]) \subseteq Scopes
      /\ {"idle", "pushing", "popping", "leaving", "looking", "running"} = Ops
      /\ arg \in [Threads -> Scopes \union {Nobody}] /\ mockOf \in [Scopes -> Mocks \union {NoMock}]
      /\ nest \in [Threads -> Seq(Scopes)] /\ stack \in [Threads -> Seq(Scopes)]
      /\ target \in [Threads -> Mocks \union {NoMock}]
  BY TypeFacts, KeyFacts DEF TypeOK, Ops
<1>1. /\ \A t \in Threads : Ordered(t) /\ (Inside(t) => seen[t] = stack[t])
      /\ InnermostOwnMock /\ LifoNeverAborts
  BY <1>0 DEF OrderInv, SeenInv
<1>2. \A t \in Threads : \A s \in Tops(nest[t]) : s \in Entries(nest[t])
  BY <1>0, TopFacts DEF Tops
(* It is enough to look at the thread that has taken the step. *)
<1>3. ASSUME NEW t \in Threads, Step(t), UNCHANGED setup,
             Ordered(t)',
             op'[t] = "running" => \E s \in Tops(nest'[t]) : target'[t] = mockOf'[s],
             \A s \in Scopes : scope[s] = "open" => mockOf'[s] = mockOf[s],
             setup.lifo => aborted' # "order mismatch"
      PROVE  (\A u \in Threads : Ordered(u)') /\ InnermostOwnMock' /\ LifoNeverAborts'
  <2>1. ASSUME NEW u \in Threads \ {t}
        PROVE  /\ op'[u] = op[u] /\ arg'[u] = arg[u] /\ nest'[u] = nest[u]
               /\ target'[u] = target[u] /\ stack'[u] = stack[u]
    BY <1>0, <1>3, OthersFrame
  <2>2. ASSUME NEW u \in Threads \ {t} PROVE Ordered(u)'
    BY <1>1, <1>3, <2>1 DEF Ordered
  <2>3. ASSUME NEW u \in Threads \ {t}, op'[u] = "running"
        PROVE  \E s \in Tops(nest'[u]) : target'[u] = mockOf'[s]
    <3>1. PICK s \in Tops(nest[u]) : target[u] = mockOf[s]
      BY <1>1, <2>1, <2>3 DEF InnermostOwnMock, ThreadLocal
    <3>2. s \in Scopes /\ scope[s] = "open"
      BY <1>0, <1>2, <3>1 DEF OwnInv
    <3>. QED
      BY <1>3, <2>1, <3>1, <3>2
  <2>. QED
    BY <1>3, <2>2, <2>3 DEF InnermostOwnMock, LifoNeverAborts
<1>4. ASSUME NEW t \in Threads, NEW s \in Scopes, NEW m \in Mocks, Construct(t, s, m),
             UNCHANGED setup
      PROVE  (\A u \in Threads : Ordered(u)') /\ InnermostOwnMock' /\ LifoNeverAborts'
  <2>1. /\ op[t] = "idle" /\ op'[t] = "pushing" /\ arg'[t] = s /\ scope[s] = "unused"
        /\ nest'[t] = Append(nest[t], s) /\ stack' = stack /\ aborted' = aborted
        /\ mockOf' = [mockOf EXCEPT ![s] = m] /\ aborted = "no"
    BY <1>0, <1>4 DEF Construct, Enter, Running
  <2>2. nest[t] = stack[t]
    BY <1>1, <2>1 DEF Ordered
  <2>3. Ordered(t)'
    BY <2>1, <2>2 DEF Ordered
  <2>. QED
    BY <1>0, <1>3, <1>4, <2>1, <2>3 DEF Step
<1>5. ASSUME NEW t \in Threads, Push(t), UNCHANGED setup
      PROVE  (\A u \in Threads : Ordered(u)') /\ InnermostOwnMock' /\ LifoNeverAborts'
  <2>1. /\ op[t] = "pushing" /\ op'[t] = "idle" /\ seen[t] = stack[t]
        /\ nest'[t] = nest[t] /\ stack'[t] = Append(seen[t], arg[t])
        /\ mockOf' = mockOf /\ aborted' = "no"
    BY <1>0, <1>1, <1>5 DEF Push, Leave, Inside, Running
  <2>2. Ordered(t)'
    BY <1>1, <2>1 DEF Ordered
  <2>. QED
    BY <1>3, <1>5, <2>1, <2>2 DEF Step
<1>6. ASSUME NEW t \in Threads, NEW s \in Scopes, Destruct(t, s), UNCHANGED setup
      PROVE  (\A u \in Threads : Ordered(u)') /\ InnermostOwnMock' /\ LifoNeverAborts'
  <2>1. /\ op[t] = "idle" /\ op'[t] = "popping" /\ arg'[t] = s /\ s \in Entries(nest[t])
        /\ setup.lifo => s = Top(nest[t])
        /\ nest'[t] = Without(nest[t], s) /\ stack' = stack /\ aborted' = "no"
        /\ mockOf' = mockOf
    BY <1>0, <1>6 DEF Destruct, Enter, Running
  <2>2. nest[t] = stack[t]
    BY <1>1, <2>1 DEF Ordered
  <2>3. nest[t] # <<>>
    BY <2>1 DEF Entries
  <2>4. Tops(stack[t]) = {Top(nest[t])}
    BY <2>2, <2>3 DEF Tops
  <2>5. s = Top(nest[t]) => stack[t] = Append(nest'[t], s)
    BY <1>0, <2>1, <2>2, WithoutFacts DEF OwnInv
  <2>6. Ordered(t)'
    BY <1>6, <2>1, <2>4, <2>5 DEF Ordered
  <2>. QED
    BY <1>3, <1>6, <2>1, <2>6 DEF Step
<1>7. ASSUME NEW t \in Threads, Pop(t), UNCHANGED setup
      PROVE  (\A u \in Threads : Ordered(u)') /\ InnermostOwnMock' /\ LifoNeverAborts'
  <2>1. op[t] = "popping" /\ seen[t] = stack[t] /\ mockOf' = mockOf /\ Running
    BY <1>1, <1>7 DEF Pop, Inside, Abort
  <2>2. /\ setup.lifo => arg[t] \in Tops(stack[t])
        /\ arg[t] \in Tops(stack[t]) => stack[t] = Append(nest[t], arg[t])
    BY <1>1, <2>1 DEF Ordered
  <2>3. CASE arg[t] \in Tops(seen[t])
    <3>1. /\ op'[t] = "leaving" /\ aborted' = "no" /\ nest'[t] = nest[t]
          /\ stack'[t] = SubSeq(stack[t], 1, Len(stack[t]) - 1)
      <4>1. \E s \in Tops(seen[t]) : SameToken(s, arg[t])
        BY <2>3 DEF SameToken
      <4>2. /\ Leave(t, "leaving") /\ UNCHANGED <<nest, aborted>>
            /\ stack' = [stack EXCEPT ![Key(t)] = SubSeq(seen[t], 1, Len(seen[t]) - 1)]
        BY <1>7, <4>1 DEF Pop
      <4>. QED
        BY <1>0, <2>1, <4>2 DEF Leave, Running
    <3>2. arg[t] \in Scopes
      BY <2>1 DEF OwnInv
    <3>3. stack'[t] = nest[t]
      <4>1. SubSeq(Append(nest[t], arg[t]), 1, Len(Append(nest[t], arg[t])) - 1) = nest[t]
        BY <1>0, <3>2, FrontOfAppend
      <4>. QED
        BY <2>1, <2>2, <2>3, <3>1, <4>1
    <3>4. Ordered(t)'
      BY <3>1, <3>3 DEF Ordered
    <3>. QED
      BY <1>3, <1>7, <2>1, <3>1, <3>4 DEF Step
  <2>4. CASE arg[t] \notin Tops(seen[t])
    <3>1. Abort("order mismatch") /\ ~setup.lifo
      BY <1>7, <2>1, <2>2, <2>4 DEF Pop, SameToken
    <3>2. Ordered(t)' /\ op'[t] = "popping"
      BY <1>1, <1>7, <2>1, <3>1 DEF Abort, Ordered
    <3>. QED
      BY <1>3, <1>7, <2>1, <3>1, <3>2 DEF Step
  <2>. QED
    BY <2>3, <2>4
<1>8. ASSUME NEW t \in Threads, DestroyMembers(t) \/ Call(t) \/ Return(t), UNCHANGED setup
      PROVE  (\A u \in Threads : Ordered(u)') /\ InnermostOwnMock' /\ LifoNeverAborts'
  <2>1. /\ op[t] \notin {"pushing", "popping"} /\ op'[t] \in {"idle", "looking"}
        /\ UNCHANGED <<nest, stack, mockOf>> /\ aborted' = "no"
    BY <1>0, <1>8 DEF DestroyMembers, Call, Return, Enter, Running
  <2>2. Ordered(t)'
    BY <1>1, <2>1 DEF Ordered
  <2>. QED
    BY <1>3, <1>8, <2>1, <2>2 DEF Step
<1>9. ASSUME NEW t \in Threads, Deliver(t), UNCHANGED setup
      PROVE  (\A u \in Threads : Ordered(u)') /\ InnermostOwnMock' /\ LifoNeverAborts'
  <2>1. /\ op[t] = "looking" /\ op'[t] = "running" /\ seen[t] # <<>> /\ seen[t] = stack[t]
        /\ UNCHANGED <<nest, stack, mockOf>> /\ aborted' = "no"
        /\ target'[t] = mockOf[Top(seen[t])]
    BY <1>0, <1>1, <1>9 DEF Deliver, Leave, Running, Inside
  <2>2. nest[t] = stack[t]
    BY <1>1, <2>1 DEF Ordered
  <2>3. Ordered(t)'
    BY <2>1, <2>2 DEF Ordered
  <2>4. Top(seen[t]) \in Tops(nest'[t])
    BY <2>1, <2>2 DEF Tops
  <2>. QED
    BY <1>3, <1>9, <2>1, <2>3, <2>4 DEF Step
<1>10. ASSUME NEW t \in Threads, Miss(t) \/ ConstructNull(t), UNCHANGED setup
       PROVE  (\A u \in Threads : Ordered(u)') /\ InnermostOwnMock' /\ LifoNeverAborts'
  <2>1. /\ op[t] \in {"looking", "idle"} /\ op'[t] \in {"looking", "idle"}
        /\ UNCHANGED <<nest, stack, mockOf>> /\ aborted' # "order mismatch"
    BY <1>0, <1>10 DEF Miss, ConstructNull, Abort, Leave, Running
  <2>2. Ordered(t)'
    BY <1>1, <2>1 DEF Ordered
  <2>. QED
    BY <1>3, <1>10, <2>1, <2>2 DEF Step
<1>11. CASE \/ \E m \in Mocks : DropTestReference(m) \/ EndMockLifetime(m)
            \/ UNCHANGED vars
  <2>1. UNCHANGED <<setup, op, arg, nest, stack, target, mockOf, aborted>>
    BY <1>11 DEF DropTestReference, EndMockLifetime, Next, vars
  <2>2. \A t \in Threads : Ordered(t)'
    BY <1>1, <2>1 DEF Ordered
  <2>. QED
    BY <1>1, <2>1, <2>2 DEF InnermostOwnMock, LifoNeverAborts
<1>. QED
  BY <1>0, <1>4, <1>5, <1>6, <1>7, <1>8, <1>9, <1>10, <1>11 DEF Next, Step
-----------------------------------------------------------------------------
(* What a lookup finds on top of the stack is a scope that nobody is       *)
(* destroying: that would have to wait for the mutex.                      *)
LEMMA TopIsHeld ==
  ASSUME TypeOK, LockInv, SeenInv, OwnInv, StackInv,
         NEW t \in Threads, op[t] = "looking", seen[t] # <<>>
  PROVE  /\ Top(seen[t]) \in Scopes
         /\ mockOf[Top(seen[t])] \in Mocks
         /\ \E u \in Threads : /\ Top(seen[t]) \in Entries(nest[u])
                              /\ InRegistry(u, Top(seen[t])) /\ Key(u) = Key(t)
<1>1. seen[t] = stack[Key(t)] /\ seen[t] \in Seq(Scopes) /\ Key(t) \in Keys
  BY KeyFacts DEF SeenInv, Inside, TypeOK
<1>2. Top(seen[t]) \in Scopes /\ Top(seen[t]) \in Entries(stack[Key(t)])
  BY <1>1, TopFacts
<1>3. PICK u \in Threads : Key(u) = Key(t) /\ Registered(u, Top(seen[t]))
  BY <1>1, <1>2 DEF StackInv
<1>4. op[u] # "popping"
  <2>1. Inside(t) /\ (op[u] = "popping" => Inside(u) /\ u # t)
    BY DEF Inside
  <2>2. ThreadLocal => u = t
    BY <1>3, KeyFacts
  <2>. QED
    BY <2>1, <2>2 DEF LockInv
<1>5. InRegistry(u, Top(seen[t])) /\ Top(seen[t]) \in Entries(nest[u])
  BY <1>3, <1>4 DEF Registered, InRegistry
<1>6. mockOf[Top(seen[t])] \in Mocks
  BY <1>2, <1>5 DEF OwnInv, TypeOK
<1>. QED
  BY <1>2, <1>3, <1>5, <1>6

(* In the global mode a test joins its workers before it destroys a scope:  *)
(* the rule of the user guide without which the mode promises nothing.      *)
Joined == \A u \in Setups : u.mode = "global-mutex" => u.join

LEMMA LifeStep ==
  ASSUME Joined
  PROVE  TypeOK /\ LockInv /\ SeenInv /\ OwnInv /\ StackInv /\ LifeInv /\ [Next]_vars => LifeInv'
<1>. SUFFICES ASSUME TypeOK, LockInv, SeenInv, OwnInv, StackInv, LifeInv, [Next]_vars
              PROVE  LifeInv'
  OBVIOUS
<1>. USE DEF clientVars
<1>0. /\ setup.threads \subseteq Threads /\ op \in [Threads -> Ops]
      /\ \A t \in Threads : nest[t] \in Seq(Scopes) /\ Entries(nest[t]) \subseteq Scopes
      /\ arg \in [Threads -> Scopes \union {Nobody}] /\ nest \in [Threads -> Seq(Scopes)]
      /\ mockOf \in [Scopes -> Mocks \union {NoMock}] /\ scope \in [Scopes -> ScopeStates]
      /\ target \in [Threads -> Mocks \union {NoMock}] /\ destroyed \subseteq Mocks
      /\ {"idle", "pushing", "popping", "leaving", "looking", "running"} = Ops
      /\ ~ThreadLocal /\ ~Shared => setup.join
  BY TypeFacts DEF TypeOK, Ops, Joined
<1>1. UNCHANGED setup => ThreadLocal' = ThreadLocal /\ Shared' = Shared
  BY SetupFrame
<1>2. \A u \in Threads : \A s \in Entries(nest[u]) : s \in Scopes /\ scope[s] = "open"
  BY <1>0 DEF OwnInv
(* The scope a mock was taken from is still held, and nothing dead revives. *)
<1>3. ASSUME UNCHANGED <<setup, destroyed>>,
             \A t \in Threads : op'[t] = "running" => op[t] = "running" /\ target'[t] = target[t],
             ~Shared => \A t \in Threads : op'[t] = "running" =>
               \A u \in Threads : Entries(nest[u]) \subseteq Entries(nest'[u]),
             \A s \in Scopes : scope[s] # "unused" => mockOf'[s] = mockOf[s],
             \A s \in Scopes : scope[s] = "unused" => mockOf'[s] = mockOf[s] \/ mockOf'[s] \notin destroyed \/ Shared,
             \A s \in Scopes : scope[s] = "gone" => scope'[s] = "gone"
      PROVE  LifeInv'
  <2>1. ASSUME NEW t \in Threads, op'[t] = "running" PROVE target'[t] \in Mocks
    BY <1>3, <2>1 DEF LifeInv
  <2>2. ASSUME ~Shared, NEW t \in Threads, op'[t] = "running"
        PROVE  \E u \in Threads : \E s \in Entries(nest'[u]) :
                 target'[t] = mockOf'[s] /\ (ThreadLocal => u = t)
    <3>1. PICK u \in Threads : \E s \in Entries(nest[u]) :
                 target[t] = mockOf[s] /\ (ThreadLocal => u = t)
      BY <1>3, <2>2 DEF LifeInv
    <3>2. PICK s \in Entries(nest[u]) : target[t] = mockOf[s] /\ (ThreadLocal => u = t)
      BY <3>1
    <3>3. s \in Entries(nest'[u]) /\ mockOf'[s] = mockOf[s] /\ target'[t] = target[t]
      BY <1>2, <1>3, <2>2, <3>2
    <3>. QED
      BY <3>2, <3>3
  <2>3. ASSUME ~Shared, NEW m \in destroyed, NEW s \in Scopes, mockOf'[s] = m
        PROVE  scope'[s] = "gone"
    BY <1>3, <2>3 DEF LifeInv
  <2>. QED
    BY <1>1, <1>3, <2>1, <2>2, <2>3 DEF LifeInv
<1>4. ASSUME NEW t \in Threads, NEW s \in Scopes, NEW m \in Mocks, Construct(t, s, m),
             UNCHANGED setup
      PROVE  LifeInv'
  <2>1. /\ op[t] = "idle" /\ op' = [op EXCEPT ![t] = "pushing"] /\ UNCHANGED <<target, destroyed>>
        /\ scope[s] = "unused" /\ scope' = [scope EXCEPT ![s] = "open"]
        /\ mockOf' = [mockOf EXCEPT ![s] = m] /\ nest' = [nest EXCEPT ![t] = Append(@, s)]
        /\ ~Shared => m \notin destroyed
    BY <1>4 DEF Construct, Enter
  <2>2. \A u \in Threads : Entries(nest[u]) \subseteq Entries(nest'[u])
    BY <1>0, <2>1, AppendFacts
  <2>3. \A u \in Threads : op'[u] = "running" => op[u] = "running"
    BY <1>0, <2>1
  <2>4. /\ \A x \in Scopes : scope[x] # "unused" => mockOf'[x] = mockOf[x]
        /\ \A x \in Scopes : mockOf'[x] = mockOf[x] \/ mockOf'[x] \notin destroyed \/ Shared
        /\ \A x \in Scopes : scope[x] = "gone" => scope'[x] = "gone"
    BY <1>0, <2>1
  <2>. QED
    BY <1>3, <1>4, <2>1, <2>2, <2>3, <2>4
<1>5. ASSUME NEW t \in Threads, NEW s \in Scopes, Destruct(t, s), UNCHANGED setup
      PROVE  LifeInv'
  <2>1. /\ op[t] = "idle" /\ op' = [op EXCEPT ![t] = "popping"]
        /\ UNCHANGED <<target, destroyed, scope, mockOf>>
        /\ nest' = [nest EXCEPT ![t] = Without(@, s)] /\ s \in Entries(nest[t])
        /\ setup.join => OthersIdle(t)
    BY <1>5 DEF Destruct, Enter
  <2>2. \A u \in Threads : op'[u] = "running" => u # t /\ op[u] = "running"
    BY <1>0, <2>1
  <2>3. ~ThreadLocal /\ ~Shared => \A u \in Threads : op'[u] # "running"
    BY <1>0, <2>1, <2>2 DEF OthersIdle
  <2>4. CASE ThreadLocal
    <3>1. ~Shared
      BY <2>4 DEF ThreadLocal, Shared
    <3>2. ASSUME NEW u \in Threads, op'[u] = "running"
          PROVE  /\ target'[u] \in Mocks
                 /\ \E v \in Threads : \E x \in Entries(nest'[v]) :
                      target'[u] = mockOf'[x] /\ (ThreadLocal => v = u)
      <4>1. nest'[u] = nest[u]
        BY <1>0, <2>1, <2>2, <3>2
      <4>2. \E v \in Threads : \E x \in Entries(nest[v]) :
              target[u] = mockOf[x] /\ (ThreadLocal => v = u)
        BY <2>2, <3>1, <3>2 DEF LifeInv
      <4>. QED
        BY <2>1, <2>2, <2>4, <3>2, <4>1, <4>2 DEF LifeInv
    <3>. QED
      BY <1>1, <1>5, <2>1, <3>1, <3>2 DEF LifeInv
  <2>5. CASE ~ThreadLocal
    BY <1>3, <1>5, <2>1, <2>2, <2>3, <2>5
  <2>. QED
    BY <2>4, <2>5
<1>6. ASSUME NEW t \in Threads, Pop(t), UNCHANGED setup
      PROVE  LifeInv'
  <2>1. CASE Abort("order mismatch")
    BY <1>3, <1>6, <2>1 DEF Abort
  <2>2. CASE ~Abort("order mismatch")
    <3>1. /\ op[t] = "popping" /\ op' = [op EXCEPT ![t] = "leaving"]
          /\ UNCHANGED <<target, nest, destroyed, mockOf>>
          /\ scope' = [scope EXCEPT ![arg[t]] = "popped"]
      BY <1>6, <2>2 DEF Pop, Leave
    <3>2. arg[t] \in Scopes /\ scope[arg[t]] = "open"
      BY <3>1 DEF OwnInv
    <3>3. /\ \A x \in Scopes : scope[x] = "gone" => scope'[x] = "gone"
          /\ \A u \in Threads : op'[u] = "running" => op[u] = "running"
      BY <1>0, <3>1, <3>2
    <3>. QED
      BY <1>3, <1>6, <3>1, <3>3
  <2>. QED
    BY <2>1, <2>2
<1>7. ASSUME NEW t \in Threads, DestroyMembers(t) \/ Return(t), UNCHANGED setup
      PROVE  LifeInv'
  <2>1. /\ \A x \in Scopes : scope[x] = "gone" => scope'[x] = "gone"
        /\ \A u \in Threads : op'[u] = "running" => op[u] = "running" /\ target'[u] = target[u]
        /\ UNCHANGED <<nest, destroyed, mockOf>>
    BY <1>0, <1>7 DEF DestroyMembers, Return
  <2>. QED
    BY <1>3, <1>7, <2>1
<1>8. ASSUME NEW t \in Threads, Push(t) \/ Call(t), UNCHANGED setup
      PROVE  LifeInv'
  <2>1. /\ \A u \in Threads : op'[u] = "running" => op[u] = "running"
        /\ UNCHANGED <<nest, destroyed, mockOf, scope, target>>
    BY <1>0, <1>8 DEF Push, Call, Enter, Leave
  <2>. QED
    BY <1>3, <1>8, <2>1
<1>9. ASSUME NEW t \in Threads, Deliver(t), UNCHANGED setup
      PROVE  LifeInv'
  <2>1. /\ op[t] = "looking" /\ op' = [op EXCEPT ![t] = "running"] /\ seen[t] # <<>>
        /\ UNCHANGED <<nest, destroyed, mockOf, scope>>
        /\ target' = [target EXCEPT ![t] = mockOf[Top(seen[t])]]
    BY <1>9 DEF Deliver, Leave
  <2>2. target'[t] = mockOf[Top(seen[t])] /\ target'[t] \in Mocks
    BY <1>0, <2>1, TopIsHeld
  <2>3. PICK v \in Threads : Top(seen[t]) \in Entries(nest[v]) /\ Key(v) = Key(t)
    BY <2>1, TopIsHeld
  <2>4. ThreadLocal => v = t
    BY <2>3, KeyFacts
  <2>5. \A u \in Threads \ {t} : op'[u] = op[u] /\ target'[u] = target[u]
    BY <1>0, <2>1
  <2>6. \A u \in Threads : op'[u] = "running" => target'[u] \in Mocks
    BY <2>2, <2>5 DEF LifeInv
  <2>7. ASSUME ~Shared, NEW u \in Threads, op'[u] = "running"
        PROVE  \E w \in Threads : \E s \in Entries(nest'[w]) :
                 target'[u] = mockOf'[s] /\ (ThreadLocal => w = u)
    <3>1. CASE u = t
      BY <2>1, <2>2, <2>3, <2>4, <3>1
    <3>2. CASE u # t
      BY <2>1, <2>5, <2>7, <3>2 DEF LifeInv
    <3>. QED
      BY <3>1, <3>2
  <2>. QED
    BY <1>1, <1>9, <2>1, <2>6, <2>7 DEF LifeInv
<1>10. ASSUME NEW t \in Threads, Miss(t) \/ ConstructNull(t), UNCHANGED setup
       PROVE  LifeInv'
  <2>1. /\ \A u \in Threads : op'[u] = "running" => op[u] = "running"
        /\ UNCHANGED <<nest, destroyed, mockOf, scope, target>>
    BY <1>0, <1>10 DEF Miss, ConstructNull, Leave, Abort
  <2>. QED
    BY <1>3, <1>10, <2>1
<1>11. ASSUME NEW m \in Mocks, EndMockLifetime(m), UNCHANGED setup
       PROVE  LifeInv'
  BY <1>1, <1>11 DEF EndMockLifetime, LifeInv
<1>12. ASSUME NEW m \in Mocks, DropTestReference(m), UNCHANGED setup
       PROVE  LifeInv'
  BY <1>3, <1>12 DEF DropTestReference
<1>13. CASE UNCHANGED vars
  BY <1>3, <1>13 DEF vars
<1>. QED
  BY <1>0, <1>4, <1>5, <1>6, <1>7, <1>8, <1>9, <1>10, <1>11, <1>12, <1>13 DEF Next, Step
-----------------------------------------------------------------------------
LEMMA InitInv == Init => Inv /\ LifeInv
<1>. SUFFICES ASSUME Init PROVE Inv /\ LifeInv
  OBVIOUS
<1>1. Entries(<<>>) = {} /\ Distinct(<<>>) /\ <<>> \in Seq(Scopes)
  BY DEF Entries, Distinct
<1>2. TypeOK
  BY <1>1 DEF Init, TypeOK, Ops, ScopeStates
<1>3. LockInv /\ SeenInv
  BY NamesGiven DEF Init, LockInv, SeenInv, Inside
<1>4. OwnInv
  BY <1>1 DEF Init, OwnInv, Ending
<1>5. StackInv
  BY <1>1 DEF Init, StackInv, Registered, InRegistry
<1>6. OrderInv
  <2>1. ThreadLocal => \A t \in Threads : t \in Keys
    BY KeyFacts
  <2>. QED
    BY <2>1 DEF Init, OrderInv, Ordered, InnermostOwnMock, LifoNeverAborts
<1>7. LifeInv
  BY DEF Init, LifeInv
<1>. QED
  BY <1>2, <1>3, <1>4, <1>5, <1>6, <1>7 DEF Inv

LEMMA InvStep == Inv /\ [Next]_vars => Inv'
BY TypeStep, LockStep, OwnStep, StackStep, OrderStep DEF Inv

LEMMA Invariance == Spec => []Inv
<1>1. Inv /\ [Next]_vars => Inv'
  BY InvStep
<1>2. Init => Inv
  BY InitInv
<1>. QED
  BY <1>1, <1>2, PTL DEF Spec

(* The variables keep their types, for any threads, scopes and mocks and    *)
(* any test programs, in the three modes.                                  *)
THEOREM TypeCorrect == Spec => []TypeOK
<1>1. Inv => TypeOK
  BY DEF Inv
<1>. QED
  BY <1>1, Invariance, PTL

(* No registration is lost, outlives its scope or is doubled, however the   *)
(* operations of any number of threads interleave.                         *)
THEOREM MirrorsScopes == Spec => []RegistryMirrorsScopes
<1>1. Inv => RegistryMirrorsScopes
  <2>. SUFFICES ASSUME Inv, NEW s \in Scopes, NEW k \in Keys
                PROVE  Cardinality({n \in DOMAIN stack[k] : stack[k][n] = s}) =
                         IF \E t \in Threads : Key(t) = k /\ Registered(t, s) THEN 1 ELSE 0
    BY DEF RegistryMirrorsScopes, Registered
  <2>. DEFINE places == {n \in DOMAIN stack[k] : stack[k][n] = s}
  <2>1. /\ Distinct(stack[k])
        /\ s \in Entries(stack[k]) <=> \E t \in Threads : Key(t) = k /\ Registered(t, s)
    BY DEF Inv, StackInv
  <2>2. CASE s \in Entries(stack[k])
    <3>1. PICK n \in DOMAIN stack[k] : stack[k][n] = s
      BY <2>2 DEF Entries
    <3>2. places = {n}
      BY <2>1, <3>1 DEF Distinct
    <3>. QED
      BY <2>1, <2>2, <3>2, FS_Singleton
  <2>3. CASE s \notin Entries(stack[k])
    <3>1. places = {}
      BY <2>3 DEF Entries
    <3>. QED
      BY <2>1, <2>3, <3>1, FS_EmptySet
  <2>. QED
    BY <2>2, <2>3
<1>. QED
  BY <1>1, Invariance, PTL

(* In thread-local mode a fake never runs on the mock of another thread's   *)
(* test, nor of an outer scope.                                            *)
THEOREM OwnMock == Spec => []InnermostOwnMock
<1>1. Inv => InnermostOwnMock
  BY DEF Inv, OrderInv, ThreadLocal, InnermostOwnMock
<1>. QED
  BY <1>1, Invariance, PTL

(* In thread-local mode a test that destroys its scopes in reverse order is *)
(* never told that it did not.                                             *)
THEOREM LifoIsEnough == Spec => []LifoNeverAborts
<1>1. Inv => LifoNeverAborts
  BY DEF Inv, OrderInv, ThreadLocal, LifoNeverAborts
<1>. QED
  BY <1>1, Invariance, PTL

(* If in the global mode workers are joined before a scope is destroyed, no *)
(* fake runs on a mock that has been destroyed, in any mode.               *)
THEOREM MocksOutliveCalls ==
  ASSUME Joined
  PROVE  Spec => []NoUseAfterFree
<1>1. Inv /\ LifeInv /\ [Next]_vars => LifeInv'
  BY LifeStep DEF Inv
<1>2. Inv /\ LifeInv => NoUseAfterFree
  <2>. SUFFICES ASSUME Inv, LifeInv, NEW t \in Threads, op[t] = "running", Gone(target[t])
                PROVE  FALSE
    BY DEF NoUseAfterFree
  <2>1. ~Shared
    BY DEF Gone, Referenced, FakeHoldsCopy
  <2>2. PICK u \in Threads : \E s \in Entries(nest[u]) : target[t] = mockOf[s]
    BY <2>1 DEF LifeInv
  <2>3. PICK s \in Entries(nest[u]) : target[t] = mockOf[s]
    BY <2>2
  <2>4. s \in Scopes /\ scope[s] = "open"
    BY TypeFacts DEF Inv, OwnInv
  <2>. QED
    BY <2>1, <2>3, <2>4 DEF Gone, LifeInv
<1>3. Init => LifeInv
  BY InitInv
<1>. QED
  BY <1>1, <1>2, <1>3, Invariance, PTL DEF Spec
-----------------------------------------------------------------------------
(* What a single step may do. *)

LookupStep ==
  /\ aborted' = "missing mock" =>
       \E t \in Threads : op[t] = "looking" /\ Visible(t) = {}
  /\ \A t \in Threads : op[t] = "looking" =>
       /\ op'[t] = "idle" => Visible(t) = {}
       /\ op'[t] = "running" => \E s \in Visible(t) : target'[t] = mockOf[s]

(* An empty stack is what the registry of a thread without scopes looks like. *)
LEMMA NothingVisible ==
  ASSUME TypeOK, SeenInv, StackInv, NEW t \in Threads, op[t] = "looking", seen[t] = <<>>
  PROVE  Visible(t) = {}
<1>1. stack[Key(t)] = <<>> /\ Key(t) \in Keys
  BY KeyFacts DEF SeenInv, Inside
<1>2. Entries(stack[Key(t)]) = {}
  BY <1>1 DEF Entries
<1>3. \A u \in Threads : \A s \in Entries(nest[u]) :
        Key(u) = Key(t) => ~InRegistry(u, s)
  BY <1>1, <1>2, TypeFacts DEF StackInv, Registered
<1>. QED
  BY <1>3 DEF Visible

LEMMA LookupFacts == Inv /\ [Next]_vars => [LookupStep]_vars
<1>. SUFFICES ASSUME Inv, Next PROVE LookupStep
  OBVIOUS
<1>. USE DEF Inv, clientVars
<1>0. /\ setup.threads \subseteq Threads /\ op \in [Threads -> Ops]
      /\ target \in [Threads -> Mocks \union {NoMock}]
      /\ \A t \in Threads : seen[t] \in Seq(Scopes)
  BY TypeFacts DEF TypeOK
<1>1. ASSUME NEW t \in Threads, Step(t), aborted' = aborted, aborted = "no",
             op[t] = "looking" =>
               /\ op'[t] = "idle" => Visible(t) = {}
               /\ op'[t] = "running" => \E s \in Visible(t) : target'[t] = mockOf[s]
      PROVE  LookupStep
  BY <1>1, OthersFrame DEF LookupStep
<1>2. ASSUME NEW t \in Threads, Deliver(t)
      PROVE  LookupStep
  <2>1. /\ op[t] = "looking" /\ op' = [op EXCEPT ![t] = "running"] /\ seen[t] # <<>>
        /\ aborted' = aborted /\ aborted = "no"
        /\ target' = [target EXCEPT ![t] = mockOf[Top(seen[t])]]
    BY <1>2 DEF Deliver, Leave, Running
  <2>2. PICK u \in Threads : /\ Top(seen[t]) \in Entries(nest[u])
                             /\ InRegistry(u, Top(seen[t])) /\ Key(u) = Key(t)
    BY <2>1, TopIsHeld
  <2>3. Top(seen[t]) \in Visible(t)
    BY <2>2 DEF Visible
  <2>4. op'[t] = "running" /\ target'[t] = mockOf[Top(seen[t])]
    BY <1>0, <2>1
  <2>5. Step(t)
    BY <1>2 DEF Step
  <2>. QED
    BY <1>1, <2>1, <2>3, <2>4, <2>5
<1>3. ASSUME NEW t \in Threads, Miss(t)
      PROVE  LookupStep
  <2>1. op[t] = "looking" /\ seen[t] = <<>> /\ aborted = "no"
    BY <1>3 DEF Miss, Running
  <2>2. Visible(t) = {}
    BY <2>1, NothingVisible
  <2>3. CASE Abort("missing mock")
    BY <2>1, <2>2, <2>3 DEF Abort, LookupStep
  <2>4. CASE ~Abort("missing mock")
    <3>1. aborted' = aborted /\ op' = [op EXCEPT ![t] = "idle"]
      BY <1>3, <2>4 DEF Miss, Leave
    <3>2. op'[t] = "idle"
      BY <1>0, <3>1
    <3>3. Step(t)
      BY <1>3 DEF Step
    <3>. QED
      BY <1>1, <2>1, <2>2, <3>1, <3>2, <3>3
  <2>. QED
    BY <2>3, <2>4
<1>4. ASSUME NEW t \in Threads,
             \/ \E s \in Scopes, m \in Mocks : Construct(t, s, m)
             \/ \E s \in Scopes : Destruct(t, s)
             \/ Push(t) \/ DestroyMembers(t) \/ Call(t) \/ Return(t)
      PROVE  LookupStep
  <2>1. op[t] # "looking" /\ aborted' = aborted /\ aborted = "no"
    BY <1>4 DEF Construct, Destruct, Push, DestroyMembers, Call, Return, Enter, Running
  <2>2. Step(t)
    BY <1>4 DEF Step
  <2>. QED
    BY <1>1, <2>1, <2>2
<1>5. ASSUME NEW t \in Threads, Pop(t) \/ ConstructNull(t)
      PROVE  LookupStep
  <2>1. CASE Abort("order mismatch") \/ Abort("nullptr")
    BY <2>1 DEF Abort, LookupStep
  <2>2. CASE ~Abort("order mismatch") /\ ~Abort("nullptr")
    <3>1. op[t] = "popping" /\ aborted' = aborted /\ aborted = "no"
      BY <1>5, <2>2 DEF Pop, ConstructNull, Running
    <3>2. Step(t)
      BY <1>5 DEF Step
    <3>. QED
      BY <1>1, <3>1, <3>2
  <2>. QED
    BY <2>1, <2>2
<1>6. ASSUME NEW m \in Mocks, DropTestReference(m) \/ EndMockLifetime(m)
      PROVE  LookupStep
  BY <1>6 DEF DropTestReference, EndMockLifetime, Running, LookupStep
<1>. QED
  BY <1>0, <1>2, <1>3, <1>4, <1>5, <1>6 DEF Next, Step

UnlockedStep ==
  \A m \in Mocks : ~Gone(m) /\ Gone(m)' =>
    ~\E t \in Threads : lock = t /\ op'[t] # op[t]

LEMMA UnlockedFacts == Inv /\ [Next]_vars => [UnlockedStep]_vars
<1>. SUFFICES ASSUME Inv, Next, NEW m \in Mocks, Gone(m)',
                     NEW t \in Threads, lock = t, op'[t] # op[t]
              PROVE  Gone(m)
  BY DEF UnlockedStep
<1>. USE DEF Inv, clientVars
<1>0. /\ setup.threads \subseteq Threads /\ op \in [Threads -> Ops]
      /\ scope \in [Scopes -> ScopeStates] /\ stack \in [Keys -> Seq(Scopes)]
      /\ target \in [Threads -> Mocks \union {NoMock}]
      /\ UNCHANGED setup
  BY TypeFacts DEF TypeOK, Next
<1>1. Inside(t)
  BY NamesGiven DEF LockInv
<1>2. seen[t] = stack[Key(t)] /\ stack[Key(t)] \in Seq(Scopes) /\ Key(t) \in Keys
  BY <1>1, TypeFacts, KeyFacts DEF SeenInv
<1>3. Keys' = Keys /\ Shared' = Shared
  BY <1>0, SetupFrame
(* The steps that hold the mutex and change what the holder does *)
<1>4. \/ Push(t) \/ Deliver(t)
      \/ (Pop(t) /\ ~Abort("order mismatch"))
      \/ (Miss(t) /\ ~Abort("missing mock"))
  <2>1. ~\E x \in Mocks : DropTestReference(x) \/ EndMockLifetime(x)
    BY DEF DropTestReference, EndMockLifetime
  <2>2. PICK u \in Threads : Step(u)
    BY <1>0, <2>1 DEF Next
  <2>3. u = t
    BY <2>2, OthersFrame
  <2>4. op[t] \notin {"idle", "leaving", "running"}
    BY <1>1 DEF Inside
  <2>5. ~\E why : Abort(why)
    BY DEF Abort
  <2>. QED
    BY <2>2, <2>3, <2>4, <2>5
    DEF Step, Construct, ConstructNull, Destruct, DestroyMembers, Call, Return, Enter
<1>5. /\ UNCHANGED <<mockOf, testRef, destroyed>>
      /\ \A u \in Threads : op[u] = "running" => op'[u] = "running" /\ target'[u] = target[u]
      /\ \A s \in Scopes : scope[s] \in {"open", "popped"} => scope'[s] \in {"open", "popped"}
      /\ \A k \in Keys : \A s \in Entries(stack[k]) :
           s \in Entries(stack'[k]) \/ (s \in Scopes /\ scope'[s] = "popped")
  <2>1. CASE Push(t)
    <3>1. /\ UNCHANGED <<mockOf, testRef, destroyed, scope, target>>
          /\ stack' = [stack EXCEPT ![Key(t)] = Append(seen[t], arg[t])]
          /\ op' = [op EXCEPT ![t] = "idle"] /\ op[t] = "pushing"
      BY <2>1 DEF Push, Leave
    <3>2. arg[t] \in Scopes
      BY <3>1, TypeFacts DEF OwnInv
    <3>3. Entries(stack[Key(t)]) \subseteq Entries(Append(seen[t], arg[t]))
      BY <1>2, <3>2, AppendFacts
    <3>. QED
      BY <1>0, <1>2, <3>1, <3>3
  <2>2. CASE Pop(t) /\ ~Abort("order mismatch")
    <3>1. /\ UNCHANGED <<mockOf, testRef, destroyed, target>>
          /\ \E s \in Tops(seen[t]) : s = arg[t]
          /\ stack' = [stack EXCEPT ![Key(t)] = SubSeq(seen[t], 1, Len(seen[t]) - 1)]
          /\ scope' = [scope EXCEPT ![arg[t]] = "popped"]
          /\ op' = [op EXCEPT ![t] = "leaving"] /\ op[t] = "popping"
      BY <2>2 DEF Pop, Leave, SameToken
    <3>2. seen[t] # <<>>
      BY <3>1 DEF Tops
    <3>3. Top(seen[t]) = arg[t] /\ arg[t] \in Scopes
      BY <1>2, <3>1, <3>2, TopFacts
    <3>4. Entries(SubSeq(seen[t], 1, Len(seen[t]) - 1)) = Entries(stack[Key(t)]) \ {arg[t]}
      BY <1>2, <3>2, <3>3, FrontFacts DEF StackInv
    <3>5. scope'[arg[t]] = "popped"
      BY <1>0, <3>1, <3>3
    <3>. QED
      BY <1>0, <1>2, <3>1, <3>3, <3>4, <3>5
  <2>3. CASE Deliver(t)
    BY <1>0, <2>3 DEF Deliver, Leave
  <2>4. CASE Miss(t) /\ ~Abort("missing mock")
    BY <1>0, <2>4 DEF Miss, Leave
  <2>. QED
    BY <1>4, <2>1, <2>2, <2>3, <2>4
<1>6. CASE ~Shared
  BY <1>3, <1>5, <1>6 DEF Gone
<1>7. CASE Shared
  <2>1. ~Referenced(m)'
    BY <1>3, <1>7 DEF Gone
  <2>2. m \notin testRef
    BY <1>5, <2>1 DEF Referenced
  <2>3. ~\E s \in Scopes : ScopeHolds(s) /\ mockOf[s] = m
    BY <1>5, <2>1 DEF Referenced, ScopeHolds
  <2>4. ~\E k \in Keys : \E s \in Entries(stack[k]) : mockOf[s] = m
    BY <1>3, <1>5, <2>1 DEF Referenced, ScopeHolds
  <2>5. ~\E u \in Threads : FakeHoldsCopy(u) /\ target[u] = m
    BY <1>5, <2>1 DEF Referenced, FakeHoldsCopy
  <2>. QED
    BY <1>7, <2>2, <2>3, <2>4, <2>5 DEF Gone, Referenced
<1>. QED
  BY <1>6, <1>7

(* A fake falls back only while no scope it can see is there, and otherwise *)
(* runs on the mock of one that is, in every mode.                         *)
THEOREM LookupsSeeScopes == Spec => LookupSeesScopes
<1>1. Inv /\ [Next]_vars => [LookupStep]_vars
  BY LookupFacts
<1>2. Spec => [][LookupStep]_vars
  BY <1>1, Invariance, PTL DEF Spec
<1>. QED
  BY <1>2 DEF LookupSeesScopes, LookupStep

(* No mock dies while the mutex is held by an operation of the registry.   *)
THEOREM NoneDiesLocked == Spec => DestroyedUnlocked
<1>1. Inv /\ [Next]_vars => [UnlockedStep]_vars
  BY UnlockedFacts
<1>2. Spec => [][UnlockedStep]_vars
  BY <1>1, Invariance, PTL DEF Spec
<1>. QED
  BY <1>2 DEF DestroyedUnlocked, UnlockedStep
=============================================================================
