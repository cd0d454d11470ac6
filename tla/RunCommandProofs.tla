-------------------------- MODULE RunCommandProofs --------------------------
(***************************************************************************)
(* What holds of RunCommand for pipes, buffers, limits and bursts of any   *)
(* size: its types, the exactness of the captured output, and that success *)
(* is real and nothing is left running when it returns.                    *)
(***************************************************************************)
EXTENDS RunCommand, TLAPS

(* The command is reaped exactly when the loop knows that it has ended.  *)
ReapedInv == childExited <=> proc[Command] = "reaped"

(* Before the return no result is set, and before the deadline nobody    *)
(* has been killed.                                                      *)
ResultInv ==
  /\ pc = "start" => pipeOpen /\ proc[Command] = "none"
  /\ pc # "returned" => exitCode = 1 /\ ~timedOut
  /\ pc \notin {"kill", "returned"} => doomed = {}
  /\ pc \in {"poll", "read"} => pipeOpen

(* The pipe is given up when it fails or when nothing more can come.     *)
PipeInv == ~pipeOpen /\ ~timedOut => broken \/ (pipe = 0 /\ holds = {})

(* Whoever is in the group when its time is up is killed, and so is the  *)
(* command; killed processes start no others.                            *)
DoomInv ==
  pc = "kill" \/ timedOut =>
    \A p \in group \union {Command} : Alive(p) => p \in doomed

LoopInv == TypeOK /\ ReapedInv /\ ResultInv /\ PipeInv /\ DoomInv
             /\ SuccessIsReal /\ NothingLeftRunning
-----------------------------------------------------------------------------
LEMMA DecodeRange ==
  ASSUME NEW s \in Statuses
  PROVE  /\ DecodeExitStatus(s) \in 0 .. 255
         /\ DecodeExitStatus(s) = 0 => s = [how |-> "exit", n |-> 0]
<1>1. CASE s \in [how : {"exit"}, n : 0 .. 255]
  BY <1>1 DEF DecodeExitStatus
<1>2. CASE s \in [how : {"signal"}, n : 1 .. 127]
  BY <1>2 DEF DecodeExitStatus
<1> QED BY <1>1, <1>2 DEF Statuses

(* What a read keeps and counts stays within the limit. *)
LEMMA ReadKeeps ==
  ASSUME TypeOK, ReadSome
  PROVE  /\ taken' \in 0 .. Limit /\ truncated' \in BOOLEAN
         /\ pipe' \in 0 .. PipeCap /\ passed' \in 0 .. Limit + 1
<1> DEFINE n == Least(Buffer, pipe)
<1>1. n \in Nat /\ 1 <= n /\ n <= pipe
  BY SizesPositive DEF TypeOK, ReadSome, Least
<1>2. pipe' = pipe - n /\ AppendOutput(n) /\ passed' = Least(Limit + 1, passed + n)
  BY DEF ReadSome
<1> HIDE DEF n
<1>3. taken' \in 0 .. Limit
  BY <1>1, <1>2, SizesPositive DEF TypeOK, AppendOutput, Least
<1>4. truncated' \in BOOLEAN
  BY <1>2 DEF TypeOK, AppendOutput
<1>5. pipe' \in 0 .. PipeCap /\ passed' \in 0 .. Limit + 1
  BY <1>1, <1>2, SizesPositive DEF TypeOK, Least
<1> QED BY <1>3, <1>4, <1>5

LEMMA ZeroFits == 0 \in 0 .. MaxBurst /\ 0 \in 0 .. PipeCap /\ 0 \in 0 .. Limit
BY SizesPositive

LEMMA InitLoop == Init => LoopInv
<1> SUFFICES ASSUME Init PROVE LoopInv
  OBVIOUS
<1>1. status \in Statuses
  BY DEF Init, Statuses
<1>2. passed \in 0 .. Limit + 1
  BY SizesPositive DEF Init
<1>3. proc \in [Processes -> States]
  BY DEF Init, States
<1>4. TypeOK
  <2>1. taken \in 0 .. Limit /\ exitCode \in 0 .. 255 /\ pipe \in 0 .. PipeCap
          /\ burst \in 0 .. MaxBurst
    BY ZeroFits DEF Init
  <2>2. group \subseteq Processes /\ holds \subseteq Processes /\ doomed \subseteq Processes
    BY DEF Init
  <2>3. pc \in {"start", "group", "loop", "clock", "kill", "poll", "read", "returned"}
          /\ childExited \in BOOLEAN /\ pipeOpen \in BOOLEAN /\ truncated \in BOOLEAN
          /\ timedOut \in BOOLEAN /\ due \in BOOLEAN /\ broken \in BOOLEAN
    BY DEF Init
  <2> QED BY <1>1, <1>2, <1>3, <2>1, <2>2, <2>3 DEF TypeOK
<1>5. ReapedInv /\ ResultInv /\ PipeInv /\ DoomInv /\ SuccessIsReal /\ NothingLeftRunning
  BY DEF Init, ReapedInv, ResultInv, PipeInv, DoomInv, SuccessIsReal,
     NothingLeftRunning, Processes, Command
<1> QED BY <1>4, <1>5 DEF LoopInv

(* A step of the supervising loop. *)
LEMMA SuperviseKeeps ==
  ASSUME LoopInv, Supervise
  PROVE  LoopInv'
<1> USE DEF LoopInv, ReapedInv, ResultInv, PipeInv, DoomInv, SuccessIsReal,
            NothingLeftRunning, Alive, Processes, Command, Helper, States
<1>1. CASE FailToStart
  BY <1>1 DEF FailToStart, TypeOK, resultVars, procVars
<1>2. CASE Fork
  BY <1>2 DEF Fork, TypeOK, resultVars, procVars
<1>3. CASE MoveToOwnProcessGroup
  BY <1>3 DEF MoveToOwnProcessGroup, TypeOK, resultVars, procVars
<1>4. CASE Finish
  BY <1>4, DecodeRange DEF Finish, TypeOK, resultVars, procVars, LoopEnds
<1>5. CASE WaitNoHang
  BY <1>5 DEF WaitNoHang, TypeOK, resultVars, procVars, LoopEnds
<1>6. CASE CheckDeadline
  BY <1>6 DEF CheckDeadline, TypeOK, resultVars, procVars, Expired, KillProcessGroup
<1>7. CASE GiveUp
  <2> USE <1>7 DEF GiveUp, resultVars, procVars
  <2>1. proc' \in [Processes -> States] /\ proc'[Command] = "reaped"
    BY DEF TypeOK
  <2>2. exitCode' = 124 /\ pc' = "returned" /\ timedOut' = TRUE
          /\ childExited' = TRUE /\ pipeOpen' = FALSE
    OBVIOUS
  <2>3. UNCHANGED <<taken, truncated, status, group, holds, doomed, pipe, due, burst,
                    passed, broken>>
    OBVIOUS
  <2>4. TypeOK'
    <3>1. exitCode' \in 0 .. 255
      BY <2>2
    <3>2. timedOut' \in BOOLEAN /\ childExited' \in BOOLEAN /\ pipeOpen' \in BOOLEAN
      BY <2>2
    <3>3. pc' \in {"start", "group", "loop", "clock", "kill", "poll", "read", "returned"}
      BY <2>2
    <3> QED BY <2>1, <2>3, <3>1, <3>2, <3>3 DEF TypeOK
  <2>5. ReapedInv' /\ ResultInv' /\ PipeInv'
    BY <2>1
  <2>6. DoomInv'
    BY DEF TypeOK
  <2>7. SuccessIsReal' /\ NothingLeftRunning'
    BY <2>1, <2>6 DEF TypeOK
  <2> QED BY <2>4, <2>5, <2>6, <2>7
<1>8. CASE Poll
  BY <1>8 DEF Poll, TypeOK, resultVars, procVars
<1>9. CASE ReadSome
  BY <1>9, ReadKeeps DEF ReadSome, TypeOK, resultVars, procVars
<1>10. CASE ReadNothing
  <2> USE <1>10 DEF ReadNothing, resultVars, procVars
  <2>1. TypeOK'
    BY ZeroFits DEF TypeOK
  <2>2. pipeOpen' \/ (pipe' = 0 /\ holds' = {})
    OBVIOUS
  <2>3. ReapedInv' /\ ResultInv' /\ PipeInv' /\ DoomInv' /\ SuccessIsReal'
          /\ NothingLeftRunning'
    BY <2>2 DEF TypeOK
  <2> QED BY <2>1, <2>3
<1>11. CASE PipeFails
  <2> USE <1>11 DEF PipeFails, resultVars, procVars
  <2>1. TypeOK'
    BY ZeroFits DEF TypeOK
  <2>2. ReapedInv' /\ ResultInv' /\ PipeInv' /\ DoomInv' /\ SuccessIsReal'
          /\ NothingLeftRunning'
    BY DEF TypeOK
  <2> QED BY <2>1, <2>2
<1> QED BY <1>1, <1>2, <1>3, <1>4, <1>5, <1>6, <1>7, <1>8, <1>9, <1>10, <1>11 DEF Supervise

(* A step of the command, of its helper or of the clock. *)
LEMMA CommandKeeps ==
  ASSUME LoopInv,
         \/ MoveSelf \/ Exec \/ ForkHelper \/ LeaveGroup
         \/ \E p \in Processes : CloseOutput(p) \/ Write(p) \/ Exit(p) \/ DieOfKill(p)
         \/ Tick
  PROVE  LoopInv'
<1> USE DEF LoopInv, ReapedInv, ResultInv, PipeInv, DoomInv, SuccessIsReal,
            NothingLeftRunning, Alive, Processes, Command, Helper, States
<1>1. CASE MoveSelf
  BY <1>1 DEF MoveSelf, Acts, TypeOK, loopVars, resultVars, procVars
<1>2. CASE Exec
  BY <1>2 DEF Exec, Acts, TypeOK, loopVars, resultVars, procVars
<1>3. CASE ForkHelper
  BY <1>3 DEF ForkHelper, Acts, TypeOK, loopVars, resultVars, procVars
<1>4. CASE LeaveGroup
  BY <1>4 DEF LeaveGroup, Acts, TypeOK, loopVars, resultVars, procVars
<1>5. CASE \E p \in Processes : CloseOutput(p)
  BY <1>5 DEF CloseOutput, Acts, TypeOK, loopVars, resultVars, procVars
<1>6. CASE \E p \in Processes : Write(p)
  BY <1>6, SizesPositive DEF Write, Acts, TypeOK, loopVars, resultVars, procVars
<1>7. ASSUME NEW p \in Processes, NEW s \in Statuses, Alive(p), Ends(p, s)
      PROVE  LoopInv'
  BY <1>7 DEF Ends, TypeOK, loopVars, resultVars, procVars
<1>8. CASE \E p \in Processes : Exit(p)
  BY <1>7, <1>8 DEF Exit, Acts, Statuses
<1>9. CASE \E p \in Processes : DieOfKill(p)
  BY <1>7, <1>9 DEF DieOfKill, Statuses
<1>10. CASE Tick
  BY <1>10 DEF Tick, TypeOK, loopVars, resultVars, procVars
<1> QED BY <1>1, <1>2, <1>3, <1>4, <1>5, <1>6, <1>8, <1>9, <1>10

LEMMA StepLoop == LoopInv /\ [Next]_vars => LoopInv'
<1> SUFFICES ASSUME LoopInv, [Next]_vars PROVE LoopInv'
  OBVIOUS
<1>1. CASE Supervise
  BY <1>1, SuperviseKeeps
<1>2. CASE UNCHANGED vars
  BY <1>2 DEF vars, resultVars, procVars, LoopInv, TypeOK, ReapedInv, ResultInv,
     PipeInv, DoomInv, SuccessIsReal, NothingLeftRunning, Alive
<1>3. CASE Next /\ ~Supervise
  BY <1>3, CommandKeeps DEF Next
<1> QED BY <1>1, <1>2, <1>3

LEMMA LoopAlways == Spec => []LoopInv
<1> QED BY InitLoop, StepLoop, PTL DEF Spec
-----------------------------------------------------------------------------
(* Every variable keeps its range, whatever the sizes: the output that is  *)
(* captured never grows past the limit and the exit code fits in a byte.   *)
THEOREM TypeCorrect == Spec => []TypeOK
<1>1. LoopInv => TypeOK  BY DEF LoopInv
<1> QED BY <1>1, LoopAlways, PTL

(* RunCommand reports zero only for a command that exited with zero by     *)
(* itself and whose output was read to the end, unless reading failed.     *)
THEOREM SuccessReal == Spec => []SuccessIsReal
<1>1. LoopInv => SuccessIsReal  BY DEF LoopInv
<1> QED BY <1>1, LoopAlways, PTL

(* No return leaves a zombie, and none after a timeout leaves a process of *)
(* the command's group without the signal that kills it.                   *)
THEOREM NoneLeftRunning == Spec => []NothingLeftRunning
<1>1. LoopInv => NothingLeftRunning  BY DEF LoopInv
<1> QED BY <1>1, LoopAlways, PTL

LEMMA ReadExact ==
  ASSUME TypeOK, CaptureExact, ReadSome
  PROVE  CaptureExact'
<1> DEFINE n == Least(Buffer, pipe)
<1>1. n \in Nat /\ 1 <= n
  BY SizesPositive DEF TypeOK, ReadSome, Least
<1>2. AppendOutput(n) /\ passed' = Least(Limit + 1, passed + n)
  BY DEF ReadSome
<1> HIDE DEF n
<1>3. taken' = Least(Limit, passed')
  BY <1>1, <1>2, SizesPositive DEF TypeOK, CaptureExact, AppendOutput, Least
<1>4. passed' > Limit <=> passed > Limit \/ Least(Limit - taken, n) < n
  BY <1>1, <1>2, SizesPositive DEF TypeOK, CaptureExact, Least
<1>5. truncated' <=> truncated \/ Least(Limit - taken, n) < n
  BY <1>2 DEF AppendOutput
<1> QED BY <1>3, <1>4, <1>5 DEF CaptureExact

(* AppendOutput keeps exactly what was read up to the limit, and marks the *)
(* result as truncated exactly when more was read, for every limit, buffer *)
(* and split of the output into reads.                                     *)
THEOREM CaptureIsExact == Spec => []CaptureExact
<1>1. Init => CaptureExact
  BY SizesPositive DEF Init, CaptureExact, Least
<1>2. LoopInv /\ CaptureExact /\ [Next]_vars => CaptureExact'
  <2> SUFFICES ASSUME LoopInv, CaptureExact, [Next]_vars PROVE CaptureExact'
    OBVIOUS
  <2>1. CASE ReadSome
    BY <2>1, ReadExact DEF LoopInv
  <2>2. CASE UNCHANGED <<taken, truncated, passed>>
    BY <2>2 DEF CaptureExact
  <2>3. ReadSome \/ UNCHANGED <<taken, truncated, passed>>
    BY DEF Next, Supervise, FailToStart, Fork, MoveToOwnProcessGroup, Finish,
       WaitNoHang, CheckDeadline, GiveUp, Poll, ReadNothing, PipeFails, MoveSelf,
       Exec, ForkHelper, LeaveGroup, CloseOutput, Write, Exit, Ends, DieOfKill,
       Tick, vars, loopVars, resultVars, procVars
  <2> QED BY <2>1, <2>2, <2>3
<1> QED BY <1>1, <1>2, LoopAlways, PTL DEF Spec
=============================================================================
