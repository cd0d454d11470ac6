--------------------------- MODULE MCMockRegistry ---------------------------
(***************************************************************************)
(* Instances of MockRegistry for TLC: parallel tests in thread-local mode, *)
(* a test with two workers it joins in global-mutex mode, and two threads  *)
(* without any discipline in shared-owner mode.                            *)
(***************************************************************************)
EXTENDS MockRegistry, TLC

CONSTANTS t1, t2, t3

ParallelTests ==
  [mode |-> "thread-local", fallback |-> "throw", threads |-> {t1, t2},
   scopers |-> {t1, t2}, lifo |-> TRUE, join |-> FALSE]

TestWithWorkers ==
  [mode |-> "global-mutex", fallback |-> "abort", threads |-> {t1, t2, t3},
   scopers |-> {t1}, lifo |-> TRUE, join |-> TRUE]

SharedMocks ==
  [mode |-> "shared-owner", fallback |-> "default-return", threads |-> {t1, t2},
   scopers |-> {t1, t2}, lifo |-> FALSE, join |-> FALSE]

Programs == {ParallelTests, TestWithWorkers, SharedMocks}

Symmetric == Permutations(Scopes) \union Permutations(Mocks)
=============================================================================
