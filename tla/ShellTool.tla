-------------------------------- MODULE ShellTool --------------------------------
(***************************************************************************)
(* tools/shell.py: a command of the `shell` tool, which may leave a job in *)
(* the background, writes to a pipe (stdout and stderr taken as one) of    *)
(* which nobody reads more than the stream's buffer takes until the shell  *)
(* has ended; then the rest is read up to the end of file, which is when   *)
(* nobody can write any more.  The tool's own timeout is on the shell, the *)
(* executor's on the whole call.                                           *)
(***************************************************************************)
EXTENDS Naturals

CONSTANTS Output, JobOutput,    \* what the shell and the job it may leave would write
          Room,                 \* of the pipe and the buffer of its reader
          Limit                 \* SHELL_MAX_OUTPUT_CHARS

ShellToolAssumption ==
  Output \in Nat /\ JobOutput \in Nat /\ Room \in Nat \ {0} /\ Limit \in Nat

VARIABLES shell, job,           \* the processes
          wrote, jobWrote,      \* what each has written
          taken,                \* what ShellTool.run has read
          shown,                \* what of it is in the answer
          mark,                 \* what the answer ends with
          call                  \* where the call is, or its result

answer == <<shown, mark>>
vars == <<shell, job, wrote, jobWrote, taken, answer, call>>

Results == {"ok", "error", "timeout", "executor_timeout", "cancelled"}

Init ==
  /\ shell = "running" /\ job = "none" /\ wrote = 0 /\ jobWrote = 0
  /\ taken = 0 /\ shown = 0 /\ mark = "whole" /\ call = "waiting"

Unread == wrote + jobWrote - taken

HasRoom == Unread < Room

-----------------------------------------------------------------------------
\* The processes

Write ==
  /\ shell = "running" /\ wrote < Output /\ HasRoom /\ wrote' = wrote + 1
  /\ UNCHANGED <<shell, job, jobWrote, taken, answer, call>>

\* It leaves a job that keeps its pipe.
Fork ==
  /\ shell = "running" /\ job = "none" /\ job' = "running"
  /\ UNCHANGED <<shell, wrote, jobWrote, taken, answer, call>>

JobWrites ==
  /\ job = "running" /\ jobWrote < JobOutput /\ HasRoom /\ jobWrote' = jobWrote + 1
  /\ UNCHANGED <<shell, job, wrote, taken, answer, call>>

JobEnds ==
  /\ job = "running" /\ jobWrote = JobOutput /\ job' = "ended"
  /\ UNCHANGED <<shell, wrote, jobWrote, taken, answer, call>>

\* It ends when all is written, or earlier with an error.
ShellEnds ==
  /\ shell = "running"
  /\ \/ wrote = Output /\ shell' \in {"zero", "other"}
     \/ shell' = "other"
  /\ UNCHANGED <<job, wrote, jobWrote, taken, answer, call>>

-----------------------------------------------------------------------------
\* The call

\* proc.wait() returns.
Waited ==
  /\ call = "waiting" /\ shell # "running" /\ call' = "reading"
  /\ UNCHANGED <<shell, job, wrote, jobWrote, taken, answer>>

Killed == shell' = IF shell = "running" THEN "killed" ELSE shell

\* It does not in time: the shell is killed, a job of it is not.
TimesOut ==
  /\ call = "waiting" /\ call' = "timeout" /\ Killed
  /\ UNCHANGED <<job, wrote, jobWrote, taken, answer>>

Read ==
  /\ call = "reading" /\ Unread > 0 /\ taken' = wrote + jobWrote
  /\ UNCHANGED <<shell, job, wrote, jobWrote, answer, call>>

\* Mutant: what is there is read, and not to its end.
NothingLeft == Unread = 0
EndOfFile == job # "running" /\ Unread = 0

\* _truncate: the first Limit of it, and a mark when there was more.
Truncate == /\ shown' = IF taken <= Limit THEN taken ELSE Limit
            /\ mark' = IF taken <= Limit THEN "whole" ELSE "truncated"

Answered ==
  /\ call = "reading" /\ EndOfFile /\ Truncate
  /\ call' = IF shell = "zero" THEN "ok" ELSE "error"
  /\ UNCHANGED <<shell, job, wrote, jobWrote, taken>>

\* ToolExecutor's timeout, which is longer than the tool's: only the reading is left to
\* cut off.
ExecutorTimesOut ==
  /\ call = "reading" /\ call' = "executor_timeout"
  /\ UNCHANGED <<shell, job, wrote, jobWrote, taken, answer>>

\* The turn is cancelled: the call ends where it waits, and neither the shell nor its job
\* is killed.
Cancelled ==
  /\ call \in {"waiting", "reading"} /\ call' = "cancelled"
  /\ UNCHANGED <<shell, job, wrote, jobWrote, taken, answer>>

-----------------------------------------------------------------------------
Next == \/ Write \/ Fork \/ JobWrites \/ JobEnds \/ ShellEnds
        \/ Waited \/ TimesOut \/ Read \/ Answered \/ ExecutorTimesOut
        \/ Cancelled

Spec == Init /\ [][Next]_vars

\* The timers fire and the loop runs; nothing is assumed of the processes.
FairSpec == /\ Spec /\ WF_vars(Waited) /\ WF_vars(TimesOut) /\ WF_vars(Read)
            /\ WF_vars(Answered) /\ WF_vars(ExecutorTimesOut)

-----------------------------------------------------------------------------
\* Types; nobody writes more than there is room for.
TypeOK ==
  /\ shell \in {"running", "zero", "other", "killed"} /\ job \in {"none", "running", "ended"}
  /\ wrote \in 0..Output /\ jobWrote \in 0..JobOutput /\ taken \in 0..(Output + JobOutput)
  /\ Unread \in 0..Room /\ shown \in 0..Limit /\ mark \in {"whole", "truncated"}
  /\ call \in {"waiting", "reading"} \cup Results

\* A good answer shows all that the command and the background jobs that share its output
\* wrote, or as much of it as is allowed, with a mark; and nothing is still to come.
OkIsWhole ==
  call = "ok" => /\ wrote = Output /\ job # "running"
                 /\ IF mark = "whole" THEN shown = wrote + jobWrote
                                 ELSE shown = Limit /\ wrote + jobWrote > Limit

\* No call is over with its shell still running, unless it was cancelled.
ShellIsGone == call \in Results \ {"cancelled"} => shell # "running"

\* A call ends, whatever its command does and leaves behind.
CallEnds == []<>(call \in Results)

\* Violated: a call does not time out on a shell that only waits for its output to be read.
TimeoutIsTheCommands ==
  [][call' = "timeout" /\ call # "timeout"
       => ~(shell = "running" /\ wrote < Output /\ Unread = Room)]_vars

\* Violated: a cancelled call leaves no shell behind either.
NoShellLeftBehind == call \in Results => shell # "running"
=============================================================================
