----------------------------- MODULE RunCommand -----------------------------
(***************************************************************************)
(* RunCommand of src/src/validation/GeneratedCompileValidator.cpp: one     *)
(* compiler command of the compile validation, run as a child process      *)
(* whose output is read from a pipe and which is killed with its process   *)
(* group when its time is up.  The command can fork a helper that outlives *)
(* it, keeps the pipe open or leaves the process group; the processes, the *)
(* clock and the supervising loop take their steps in any order.           *)
(*                                                                         *)
(* The timeout is positive: Config refuses every other value.              *)
(***************************************************************************)
EXTENDS Integers, FiniteSets

CONSTANTS
  PipeCap,   \* bytes the pipe holds
  Buffer,    \* bytes one read takes at most: buffer.size()
  Limit,     \* kProcessOutputCaptureLimit
  Floods,    \* whether the command may write without ever pausing
  MaxBurst   \* bound otherwise: bytes written while the loop reads on

ASSUME SizesPositive ==
  PipeCap \in Nat \ {0} /\ Buffer \in Nat \ {0} /\ Limit \in Nat /\ MaxBurst \in Nat

ASSUME FloodsBoolean == Floods \in BOOLEAN

VARIABLES
  pc,          \* where RunCommand is
  childExited, \* its local child_exited
  pipeOpen,    \* its local pipe_open
  taken,       \* result.output.size()
  truncated,   \* result.output_truncated
  timedOut,    \* result.timed_out
  exitCode,    \* result.exit_code
  proc,        \* the state of the command and of its helper
  status,      \* the wait status of the command
  group,       \* the processes in the command's process group
  holds,       \* the processes that have the pipe open for writing
  doomed,      \* those that SIGKILL was sent to
  pipe,        \* bytes in the pipe
  due,         \* whether the deadline has passed
  burst,       \* bytes written since the loop last stopped reading
  passed,      \* history: bytes read so far, counted up to Limit + 1
  broken       \* history: poll or read failed

resultVars == <<taken, truncated, timedOut, exitCode>>
procVars == <<proc, status, group, holds, doomed>>
vars == <<pc, childExited, pipeOpen, resultVars, procVars, pipe, due, burst,
          passed, broken>>

Command == "command"
Helper == "helper"
Processes == {Command, Helper}

States == {"none", "forked", "grouped", "running", "zombie", "reaped"}

Statuses == [how : {"exit"}, n : 0 .. 255] \union [how : {"signal"}, n : 1 .. 127]

DecodeExitStatus(s) == IF s.how = "exit" THEN s.n ELSE 128 + s.n

Alive(p) == proc[p] \in {"forked", "grouped", "running"}

Least(m, n) == IF m < n THEN m ELSE n
-----------------------------------------------------------------------------
(* The supervising loop *)

(* pipe or fork fails: no process is started. *)
FailToStart ==
  /\ pc = "start"
  /\ pc' = "returned"
  /\ UNCHANGED <<childExited, pipeOpen, resultVars, procVars, pipe, due, burst,
                 passed, broken>>

Fork ==
  /\ pc = "start"
  /\ pc' = "group"
  /\ proc' = [proc EXCEPT ![Command] = "forked"]
  /\ holds' = {Command}
  /\ UNCHANGED <<childExited, pipeOpen, resultVars, status, group, doomed, pipe,
                 due, burst, passed, broken>>

(* The parent's setpgid, which fails once the command has called exec. *)
MoveToOwnProcessGroup ==
  /\ pc = "group"
  /\ pc' = "loop"
  /\ group' = IF proc[Command] \in {"forked", "grouped"} THEN group \union {Command}
              ELSE group
  /\ UNCHANGED <<childExited, pipeOpen, resultVars, proc, status, holds, doomed,
                 pipe, due, burst, passed, broken>>

LoopEndsAtEof == ~pipeOpen

LoopEnds == ~pipeOpen /\ childExited

Finish ==
  /\ pc = "loop" /\ LoopEnds
  /\ pc' = "returned"
  /\ exitCode' = DecodeExitStatus(status)
  /\ UNCHANGED <<childExited, pipeOpen, taken, truncated, timedOut, procVars,
                 pipe, due, burst, passed, broken>>

(* waitpid with WNOHANG *)
WaitNoHang ==
  /\ pc = "loop" /\ ~LoopEnds
  /\ pc' = "clock"
  /\ IF ~childExited /\ proc[Command] = "zombie"
     THEN childExited' = TRUE /\ proc' = [proc EXCEPT ![Command] = "reaped"]
     ELSE UNCHANGED <<childExited, proc>>
  /\ UNCHANGED <<pipeOpen, resultVars, status, group, holds, doomed, pipe, due,
                 burst, passed, broken>>

KillLeaderOnly == {p \in {Command} : Alive(p)}

KillProcessGroup == {p \in group \union {Command} : Alive(p)}

ExpiredWhileRunning == due /\ ~childExited

Expired == due

(* The deadline is looked at once per turn of the loop. *)
CheckDeadline ==
  /\ pc = "clock"
  /\ IF Expired
     THEN /\ doomed' = doomed \union KillProcessGroup
          /\ pc' = "kill"
     ELSE /\ pc' = IF pipeOpen THEN "poll" ELSE "loop"
          /\ UNCHANGED doomed
  /\ UNCHANGED <<childExited, pipeOpen, resultVars, proc, status, group, holds,
                 pipe, due, burst, passed, broken>>

(* WaitForChild blocks until the killed command can be reaped. *)
GiveUp ==
  /\ pc = "kill"
  /\ childExited \/ proc[Command] = "zombie"
  /\ pc' = "returned"
  /\ proc' = [proc EXCEPT ![Command] = "reaped"]
  /\ childExited' = TRUE
  /\ pipeOpen' = FALSE
  /\ timedOut' = TRUE
  /\ exitCode' = 124
  /\ UNCHANGED <<taken, truncated, status, group, holds, doomed, pipe, due, burst,
                 passed, broken>>

(* poll waits 50 ms at most and sees data, the end of all writers, or none. *)
Poll ==
  /\ pc = "poll"
  /\ pc' = IF pipe > 0 \/ holds = {} THEN "read" ELSE "loop"
  /\ UNCHANGED <<childExited, pipeOpen, resultVars, procVars, pipe, due, burst,
                 passed, broken>>

AppendUncapped(n) ==
  /\ taken' = IF taken < Limit THEN taken + n ELSE taken
  /\ truncated' = (truncated \/ taken >= Limit)

AppendOutput(n) ==
  LET keep == Least(Limit - taken, n) IN
  /\ taken' = taken + keep
  /\ truncated' = (truncated \/ keep < n)

(* ReadAvailableOutput reads until the pipe is found empty. *)
ReadSome ==
  /\ pc = "read" /\ pipe > 0
  /\ LET n == Least(Buffer, pipe) IN
     /\ pipe' = pipe - n
     /\ AppendOutput(n)
     /\ passed' = Least(Limit + 1, passed + n)
  /\ UNCHANGED <<pc, childExited, pipeOpen, timedOut, exitCode, procVars, due,
                 burst, broken>>

ReadNothing ==
  /\ pc = "read" /\ pipe = 0
  /\ pc' = "loop"
  /\ pipeOpen' = (holds # {})
  /\ burst' = 0
  /\ UNCHANGED <<childExited, resultVars, procVars, pipe, due, passed, broken>>

PipeFails ==
  /\ pc \in {"poll", "read"}
  /\ pc' = "loop"
  /\ pipeOpen' = FALSE
  /\ broken' = TRUE
  /\ burst' = 0
  /\ UNCHANGED <<childExited, resultVars, procVars, pipe, due, passed>>

Supervise ==
  \/ FailToStart \/ Fork \/ MoveToOwnProcessGroup
  \/ Finish \/ WaitNoHang \/ CheckDeadline \/ GiveUp
  \/ Poll \/ ReadSome \/ ReadNothing \/ PipeFails
-----------------------------------------------------------------------------
(* The command and its helper *)

loopVars == <<pc, childExited, pipeOpen, resultVars, passed, broken>>

Acts(p) == Alive(p) /\ p \notin doomed

(* Between fork and exec the command moves itself to its process group. *)
MoveSelf ==
  /\ Acts(Command) /\ proc[Command] = "forked"
  /\ proc' = [proc EXCEPT ![Command] = "grouped"]
  /\ group' = group \union {Command}
  /\ UNCHANGED <<loopVars, status, holds, doomed, pipe, due, burst>>

Exec ==
  /\ Acts(Command) /\ proc[Command] = "grouped"
  /\ proc' = [proc EXCEPT ![Command] = "running"]
  /\ UNCHANGED <<loopVars, status, group, holds, doomed, pipe, due, burst>>

ForkHelper ==
  /\ Acts(Command) /\ proc[Command] = "running" /\ proc[Helper] = "none"
  /\ proc' = [proc EXCEPT ![Helper] = "running"]
  /\ group' = IF Command \in group THEN group \union {Helper} ELSE group
  /\ holds' = IF Command \in holds THEN holds \union {Helper} ELSE holds
  /\ UNCHANGED <<loopVars, status, doomed, pipe, due, burst>>

LeaveGroup ==
  /\ Acts(Helper) /\ Helper \in group
  /\ group' = group \ {Helper}
  /\ UNCHANGED <<loopVars, proc, status, holds, doomed, pipe, due, burst>>

CloseOutput(p) ==
  /\ Acts(p) /\ proc[p] = "running" /\ p \in holds
  /\ holds' = holds \ {p}
  /\ UNCHANGED <<loopVars, proc, status, group, doomed, pipe, due, burst>>

Write(p) ==
  /\ Acts(p) /\ proc[p] = "running" /\ p \in holds
  /\ pipe < PipeCap
  /\ Floods \/ burst < MaxBurst
  /\ pipe' = pipe + 1
  /\ burst' = IF Floods THEN burst ELSE burst + 1
  /\ UNCHANGED <<loopVars, procVars, due>>

Ends(p, s) ==
  /\ proc' = [proc EXCEPT ![p] = IF p = Command THEN "zombie" ELSE "reaped"]
  /\ status' = IF p = Command THEN s ELSE status
  /\ holds' = holds \ {p}
  /\ group' = group \ {p}
  /\ UNCHANGED <<loopVars, doomed, pipe, due, burst>>

(* The command may exit with any code, the one for a timeout and the one for
   a failed exec included, and may be killed by a signal of its own.        *)
Exit(p) ==
  /\ Acts(p) /\ proc[p] \in {"grouped", "running"}
  /\ \E s \in [how : {"exit"}, n : IF proc[p] = "grouped" THEN {127} ELSE {0, 1, 124}]
              \union [how : {"signal"}, n : {11}] : Ends(p, s)

DieOfKill(p) ==
  /\ Alive(p) /\ p \in doomed
  /\ Ends(p, [how |-> "signal", n |-> 9])

Tick ==
  /\ pc \notin {"start", "group", "returned"} /\ ~due
  /\ due' = TRUE
  /\ UNCHANGED <<loopVars, procVars, pipe, burst>>

Init ==
  /\ pc = "start"
  /\ childExited = FALSE /\ pipeOpen = TRUE
  /\ taken = 0 /\ truncated = FALSE /\ timedOut = FALSE /\ exitCode = 1
  /\ proc = [p \in Processes |-> "none"]
  /\ status = [how |-> "exit", n |-> 0]
  /\ group = {} /\ holds = {} /\ doomed = {}
  /\ pipe = 0 /\ due = FALSE /\ burst = 0
  /\ passed = 0 /\ broken = FALSE

Next ==
  \/ Supervise
  \/ MoveSelf \/ Exec \/ ForkHelper \/ LeaveGroup
  \/ \E p \in Processes : CloseOutput(p) \/ Write(p) \/ Exit(p) \/ DieOfKill(p)
  \/ Tick

(* The supervising thread is scheduled, the clock advances, and the kernel
   carries SIGKILL out; nothing is asked of the command and its helper.     *)
Fairness ==
  /\ WF_vars(Supervise)
  /\ WF_vars(Tick)
  /\ \A p \in Processes : WF_vars(DieOfKill(p))

Spec == Init /\ [][Next]_vars /\ Fairness
-----------------------------------------------------------------------------
TypeOK ==
  /\ pc \in {"start", "group", "loop", "clock", "kill", "poll", "read", "returned"}
  /\ childExited \in BOOLEAN /\ pipeOpen \in BOOLEAN
  /\ taken \in 0 .. Limit /\ truncated \in BOOLEAN
  /\ timedOut \in BOOLEAN /\ exitCode \in 0 .. 255
  /\ proc \in [Processes -> States]
  /\ status \in Statuses
  /\ group \subseteq Processes /\ holds \subseteq Processes
  /\ doomed \subseteq Processes
  /\ pipe \in 0 .. PipeCap /\ due \in BOOLEAN /\ burst \in 0 .. MaxBurst
  /\ passed \in 0 .. Limit + 1 /\ broken \in BOOLEAN

(* Validation believes a zero exit code: it is reported only for a command
   that exited with zero by itself and whose output, its helper's included,
   has been read to the end, unless reading itself failed.                  *)
SuccessIsReal ==
  pc = "returned" /\ exitCode = 0 =>
    /\ ~timedOut
    /\ proc[Command] = "reaped" /\ status = [how |-> "exit", n |-> 0]
    /\ Command \notin doomed
    /\ broken \/ (pipe = 0 /\ holds = {})

(* The captured output is what was read, up to the limit, and is marked as
   truncated exactly when more was read, also where a read ends at the limit. *)
CaptureExact ==
  /\ taken = Least(Limit, passed)
  /\ truncated <=> passed > Limit

(* After a timeout no process of the command's group is left alone, even if
   the command itself ended before, and no return leaves a zombie behind.    *)
NothingLeftRunning ==
  pc = "returned" =>
    /\ proc[Command] \in {"none", "reaped"}
    /\ timedOut => \A p \in group : Alive(p) => p \in doomed

(* The timeout bounds each validation command (user guide line 195): however
   long the command runs or its helper keeps the pipe, RunCommand returns.
   It does if the command pauses now and then; a command that fills the pipe
   whenever it is read keeps the loop from looking at the deadline.          *)
TimeoutBounds == pc = "group" ~> pc = "returned"
=============================================================================
