---------------------------- MODULE MockRegistry ----------------------------
(***************************************************************************)
(* The registry of scoped mocks that every generated MockFakeRuntime.h     *)
(* carries (src/src/runtime_template/RuntimeTemplate.cpp) and the lookup   *)
(* every generated fake method makes (BuildFakeSourceContent of            *)
(* src/src/generator/CodeGenerator.cpp), for one mock type, in the three   *)
(* registry modes.                                                         *)
(*                                                                         *)
(* The threads of a test program construct and destroy scoped mocks and    *)
(* call fakes.  A registry operation takes the mutex and copies what it    *)
(* sees of the vector in one step, and changes the vector and lets go of   *)
(* the mutex in another, so that operations which did not exclude each     *)
(* other would lose each other's work.  An entry of the stack is named by  *)
(* the scope whose token it carries; its mock is the scope's mock.         *)
(***************************************************************************)
EXTENDS Integers, Sequences, FiniteSets

CONSTANTS
  Threads,   \* threads of the test program
  Scopes,    \* ScopedMock or ScopedSharedMock objects
  Mocks,     \* mock objects, all alive at the start
  Nobody,    \* no thread
  NoMock,    \* the null pointer
  Setups     \* test programs and the options their registry was generated with

Modes == {"thread-local", "global-mutex", "shared-owner"}

Fallbacks == {"abort", "default-return", "throw"}

(* A test program: the options of its registry header, the threads it starts,
   those of them that construct scoped mocks, whether each thread destroys its
   scopes in reverse order, and whether other threads are joined before that. *)
Setup == [mode : Modes, fallback : Fallbacks, threads : SUBSET Threads,
          scopers : SUBSET Threads, lifo : BOOLEAN, join : BOOLEAN]

ASSUME NamesGiven == Nobody \notin Threads \union Scopes /\ NoMock \notin Mocks

ASSUME SetupsGiven ==
  Setups \subseteq Setup /\ \A u \in Setups : u.scopers \subseteq u.threads

VARIABLES
  setup,     \* the test program, fixed
  op,        \* what each thread is doing
  arg,       \* the scope it is constructing or destroying
  seen,      \* the stack as its registry operation found it
  target,    \* the mock its fake call runs on
  lock,      \* the thread that holds the registry's mutex
  stack,     \* the registry's stacks
  scope,     \* the state of each scope object
  mockOf,    \* the mock each scope was given
  nest,      \* for each thread its scopes in the order of construction
  testRef,   \* shared-owner: mocks to which the test itself has a shared_ptr
  destroyed, \* the other modes: mocks whose lifetime the test has ended
  aborted    \* why the process aborted, or "no"

clientVars == <<nest, testRef, destroyed>>
vars == <<setup, op, arg, seen, target, lock, stack, scope, mockOf, clientVars, aborted>>

Ops == {"idle", "pushing", "popping", "leaving", "looking", "running"}

ScopeStates == {"unused", "open", "popped", "gone"}

Shared == setup.mode = "shared-owner"

(* Stack() is thread_local in one mode and static in the other two. *)
KeyShared(t) == Nobody

Key(t) == IF setup.mode = "thread-local" THEN t ELSE Nobody

Keys == {Key(t) : t \in Threads}

Top(s) == s[Len(s)]

Tops(s) == IF s = <<>> THEN {} ELSE {Top(s)}

PlaceOf(s, x) == CHOOSE n \in DOMAIN s : s[n] = x

Without(s, x) == [n \in 1 .. Len(s) - 1 |-> IF n < PlaceOf(s, x) THEN s[n] ELSE s[n + 1]]

Entries(s) == {s[n] : n \in DOMAIN s}
-----------------------------------------------------------------------------
(* Ownership in shared-owner mode: the scope's mock_ member, the copy in the
   registry's entry, and the copy the fake keeps while the mock runs.       *)

ScopeHoldsNothing(s) == FALSE

ScopeHolds(s) == scope[s] \in {"open", "popped"}

FakeHoldsNothing(t) == FALSE

FakeHoldsCopy(t) == op[t] = "running"

Referenced(m) ==
  \/ m \in testRef
  \/ \E s \in Scopes : ScopeHolds(s) /\ mockOf[s] = m
  \/ \E k \in Keys : \E s \in Entries(stack[k]) : mockOf[s] = m
  \/ \E t \in Threads : FakeHoldsCopy(t) /\ target[t] = m

Gone(m) == IF Shared THEN ~Referenced(m) ELSE m \in destroyed
-----------------------------------------------------------------------------
(* std::lock_guard around each registry operation *)

Running == aborted = "no"

EnterWithoutLock(t, what) ==
  /\ Running /\ op[t] = "idle"
  /\ UNCHANGED lock
  /\ seen' = [seen EXCEPT ![t] = stack[Key(t)]]
  /\ op' = [op EXCEPT ![t] = what]

Enter(t, what) ==
  /\ Running /\ op[t] = "idle"
  /\ IF setup.mode = "thread-local" THEN UNCHANGED lock
     ELSE lock = Nobody /\ lock' = t
  /\ seen' = [seen EXCEPT ![t] = stack[Key(t)]]
  /\ op' = [op EXCEPT ![t] = what]

Leave(t, next) ==
  /\ lock' = IF setup.mode = "thread-local" THEN lock ELSE Nobody
  /\ op' = [op EXCEPT ![t] = next]

OthersIdle(t) == \A u \in Threads \ {t} : op[u] = "idle"

Abort(why) ==
  /\ aborted' = why
  /\ UNCHANGED <<op, arg, seen, target, lock, stack, scope, mockOf, clientVars>>
-----------------------------------------------------------------------------
(* The constructor of ScopedMock or ScopedSharedMock: Push *)

Construct(t, s, m) ==
  /\ t \in setup.scopers
  /\ scope[s] = "unused"
  /\ Enter(t, "pushing")
  /\ IF Shared THEN m \in testRef ELSE m \notin destroyed
  /\ arg' = [arg EXCEPT ![t] = s]
  /\ scope' = [scope EXCEPT ![s] = "open"]
  /\ mockOf' = [mockOf EXCEPT ![s] = m]
  /\ nest' = [nest EXCEPT ![t] = Append(@, s)]
  /\ UNCHANGED <<target, stack, testRef, destroyed, aborted>>

(* A null shared_ptr is refused before the registry is touched. *)
ConstructNull(t) ==
  /\ Running /\ Shared
  /\ t \in setup.scopers /\ op[t] = "idle"
  /\ \E s \in Scopes : scope[s] = "unused"
  /\ Abort("nullptr")

Push(t) ==
  /\ Running /\ op[t] = "pushing"
  /\ stack' = [stack EXCEPT ![Key(t)] = Append(seen[t], arg[t])]
  /\ Leave(t, "idle")
  /\ UNCHANGED <<arg, seen, target, scope, mockOf, clientVars, aborted>>
-----------------------------------------------------------------------------
(* The destructor: Pop, then the members *)

DestructWithoutJoin(t, s) ==
  /\ s \in Entries(nest[t])
  /\ setup.lifo => s = Top(nest[t])
  /\ Enter(t, "popping")
  /\ arg' = [arg EXCEPT ![t] = s]
  /\ nest' = [nest EXCEPT ![t] = Without(@, s)]
  /\ UNCHANGED <<target, stack, scope, mockOf, testRef, destroyed, aborted>>

Destruct(t, s) ==
  /\ s \in Entries(nest[t])
  /\ setup.lifo => s = Top(nest[t])
  /\ setup.join => OthersIdle(t)
  /\ Enter(t, "popping")
  /\ arg' = [arg EXCEPT ![t] = s]
  /\ nest' = [nest EXCEPT ![t] = Without(@, s)]
  /\ UNCHANGED <<target, stack, scope, mockOf, testRef, destroyed, aborted>>

SameMock(s, x) == mockOf[s] = mockOf[x]

(* Pop compares scope tokens, never mocks. *)
SameToken(s, x) == s = x

Pop(t) ==
  /\ Running /\ op[t] = "popping"
  /\ IF \E s \in Tops(seen[t]) : SameToken(s, arg[t])
     THEN /\ stack' = [stack EXCEPT ![Key(t)] = SubSeq(seen[t], 1, Len(seen[t]) - 1)]
          /\ scope' = [scope EXCEPT ![arg[t]] = "popped"]
          /\ Leave(t, "leaving")
          /\ UNCHANGED <<arg, seen, target, mockOf, clientVars, aborted>>
     ELSE Abort("order mismatch")

DestroyMembers(t) ==
  /\ Running /\ op[t] = "leaving"
  /\ scope' = [scope EXCEPT ![arg[t]] = "gone"]
  /\ op' = [op EXCEPT ![t] = "idle"]
  /\ UNCHANGED <<arg, seen, target, lock, stack, mockOf, clientVars, aborted>>
-----------------------------------------------------------------------------
(* A generated fake: CurrentMock, then the mock's method or the fallback *)

Call(t) ==
  /\ setup.join => \A u \in Threads : op[u] \notin {"popping", "leaving"}
  /\ Enter(t, "looking")
  /\ UNCHANGED <<arg, target, stack, scope, mockOf, clientVars, aborted>>

Deliver(t) ==
  /\ Running /\ op[t] = "looking"
  /\ seen[t] # <<>>
  /\ target' = [target EXCEPT ![t] = mockOf[Top(seen[t])]]
  /\ Leave(t, "running")
  /\ UNCHANGED <<arg, seen, stack, scope, mockOf, clientVars, aborted>>

(* MissingMockReturn aborts, or throws, or returns a default value if the
   method's return type has one.                                            *)
Miss(t) ==
  /\ Running /\ op[t] = "looking"
  /\ seen[t] = <<>>
  /\ \/ setup.fallback # "throw" /\ Abort("missing mock")
     \/ /\ setup.fallback # "abort"
        /\ Leave(t, "idle")
        /\ UNCHANGED <<arg, seen, target, stack, scope, mockOf, clientVars, aborted>>

Return(t) ==
  /\ Running /\ op[t] = "running"
  /\ op' = [op EXCEPT ![t] = "idle"]
  /\ target' = [target EXCEPT ![t] = NoMock]
  /\ UNCHANGED <<arg, seen, lock, stack, scope, mockOf, clientVars, aborted>>
-----------------------------------------------------------------------------
(* The test's own handling of its mocks *)

DropTestReference(m) ==
  /\ Running /\ Shared
  /\ m \in testRef
  /\ testRef' = testRef \ {m}
  /\ UNCHANGED <<op, arg, seen, target, lock, stack, scope, mockOf, nest,
                 destroyed, aborted>>

(* A mock taken by reference is declared before its scopes and so dies after
   them.                                                                    *)
EndMockLifetime(m) ==
  /\ Running /\ ~Shared
  /\ m \notin destroyed
  /\ \A s \in Scopes : mockOf[s] = m => scope[s] = "gone"
  /\ destroyed' = destroyed \union {m}
  /\ UNCHANGED <<op, arg, seen, target, lock, stack, scope, mockOf, nest,
                 testRef, aborted>>

Init ==
  /\ setup \in Setups
  /\ op = [t \in Threads |-> "idle"]
  /\ arg = [t \in Threads |-> Nobody]
  /\ seen = [t \in Threads |-> <<>>]
  /\ target = [t \in Threads |-> NoMock]
  /\ lock = Nobody
  /\ stack = [k \in Keys |-> <<>>]
  /\ scope = [s \in Scopes |-> "unused"]
  /\ mockOf = [s \in Scopes |-> NoMock]
  /\ nest = [t \in Threads |-> <<>>]
  /\ testRef = Mocks
  /\ destroyed = {}
  /\ aborted = "no"

Step(t) ==
  \/ \E s \in Scopes, m \in Mocks : Construct(t, s, m)
  \/ ConstructNull(t)
  \/ Push(t)
  \/ \E s \in Scopes : Destruct(t, s)
  \/ Pop(t) \/ DestroyMembers(t)
  \/ Call(t) \/ Deliver(t) \/ Miss(t) \/ Return(t)

Next ==
  /\ \/ \E t \in setup.threads : Step(t)
     \/ \E m \in Mocks : DropTestReference(m) \/ EndMockLifetime(m)
  /\ UNCHANGED setup

Spec == Init /\ [][Next]_vars
-----------------------------------------------------------------------------
TypeOK ==
  /\ setup \in Setups
  /\ op \in [Threads -> Ops]
  /\ arg \in [Threads -> Scopes \union {Nobody}]
  /\ seen \in [Threads -> Seq(Scopes)]
  /\ target \in [Threads -> Mocks \union {NoMock}]
  /\ lock \in Threads \union {Nobody}
  /\ stack \in [Keys -> Seq(Scopes)]
  /\ scope \in [Scopes -> ScopeStates]
  /\ mockOf \in [Scopes -> Mocks \union {NoMock}]
  /\ nest \in [Threads -> Seq(Scopes)]
  /\ testRef \subseteq Mocks /\ destroyed \subseteq Mocks
  /\ aborted \in {"no", "nullptr", "order mismatch", "missing mock"}
  /\ \A s \in Scopes : scope[s] # "unused" => mockOf[s] \in Mocks

(* Between its constructor and its destructor a scope is on the stack of its
   thread exactly once, and nothing else is on a stack: no registration is
   lost to another thread's, none outlives its scope, none is doubled.       *)
InRegistry(t, s) ==
  s \in Entries(nest[t]) /\ ~(op[t] = "pushing" /\ arg[t] = s)

RegistryMirrorsScopes ==
  Running => \A s \in Scopes, k \in Keys :
    Cardinality({n \in DOMAIN stack[k] : stack[k][n] = s}) =
      IF \E t \in Threads : /\ Key(t) = k
                            /\ \/ InRegistry(t, s)
                               \/ op[t] = "popping" /\ arg[t] = s
      THEN 1 ELSE 0

(* In thread-local mode a fake runs on the mock of the innermost scope of its
   own thread, never on that of a parallel test (design section 28.2).      *)
InnermostOwnMock ==
  setup.mode = "thread-local" => \A t \in Threads : op[t] = "running" =>
    \E s \in Tops(nest[t]) : target[t] = mockOf[s]

(* While a fake runs on a mock, the mock is alive, also when another thread
   destroys the scope and everybody else lets go of the mock meanwhile.      *)
NoUseAfterFree ==
  \A t \in Threads : op[t] = "running" => ~Gone(target[t])

(* Tests that destroy their scopes in reverse order are never told that they
   did not, whatever the other threads do.                                  *)
LifoNeverAborts ==
  setup.mode = "thread-local" /\ setup.lifo => aborted # "order mismatch"

(* A registry operation never ends the life of a mock, for the mock's own
   destructor may call a fake, and the mutex is held and is not recursive.   *)
DestroyedUnlocked ==
  [][\A m \in Mocks : ~Gone(m) /\ Gone(m)' =>
       ~\E t \in Threads : lock = t /\ op'[t] # op[t]]_vars

(* A fake reaches its fallback only while no thread whose scopes it can see
   has one between its construction and its destruction, and otherwise runs
   on the mock of such a scope: nothing is missed and nothing is stale.      *)
Visible(t) == UNION {{s \in Entries(nest[u]) : InRegistry(u, s)} :
                       u \in {v \in Threads : Key(v) = Key(t)}}

LookupSeesScopes ==
  [][/\ aborted' = "missing mock" =>
          \E t \in Threads : op[t] = "looking" /\ Visible(t) = {}
     /\ \A t \in Threads : op[t] = "looking" =>
          /\ op'[t] = "idle" => Visible(t) = {}
          /\ op'[t] = "running" => \E s \in Visible(t) : target'[t] = mockOf[s]]_vars
=============================================================================
