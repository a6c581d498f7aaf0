------------------------------ MODULE SystemCmd ------------------------------
(***************************************************************************)
(* SystemCmd::execute (storage/Utils/SystemCmd.cc): a command runs in a    *)
(* child process, which gets a text on a pipe and whose output and errors  *)
(* are read from two others.  The caller is in one of three steps: fork    *)
(* and exec, poll, wait.  The command is any program, with the background  *)
(* processes it may leave: it reads, writes and closes the pipes in any    *)
(* order, between any two system calls of the caller.                      *)
(*                                                                         *)
(* The text for stdin is counted in pieces that are written at once, the   *)
(* output is a sequence of characters.                                     *)
(***************************************************************************)
EXTENDS Integers, Sequences

CONSTANTS Text,      \* stdin_text: the number of pieces
          Room,      \* Room[p]: what fits into a pipe
          Chunk,     \* what is read at once
          Char,      \* Char[s]: the characters of each output
          MaxOut,    \* bound of the characters written, for each output
          ExitCode   \* the exit codes of commands

Output == {"stdout", "stderr"}
Pipe == Output \cup {"stdin"}
NewLine == "newline"

SHELL_RET_COMMAND_NOT_FOUND == 127
SHELL_RET_COMMAND_NOT_EXECUTABLE == 126

Signaled == -127
None == -1

ASSUME SystemCmdAssumption ==
  /\ Text \in Nat
  /\ Room \in [Pipe -> Nat \ {0}]
  /\ Chunk \in Nat \ {0}
  /\ MaxOut \in [Output -> Nat]
  /\ ExitCode \subseteq 0 .. 255

VARIABLES
  at,        \* where the caller is
  held,      \* the pipes of which the caller has its end open
  watched,   \* the pipes whose fd in pollfds is not -1
  revents,   \* what poll() returned for each pipe
  stdin_pos,
  buffer, lines,   \* of each output
  child,     \* "none", "forked", "running", "exited" or "reaped"
  status,    \* exit code of the child, Signaled, or None
  ends,      \* the pipes the command has open
  doing,     \* the pipe the command reads from or writes to at present, "none"
  stdin,     \* pieces in the pipe
  received,  \* pieces the command has read
  eof,       \* the command has seen the end of stdin
  written,   \* history: what the command wrote
  taken,     \* how much of it was read
  retcode,   \* child_retcode
  exception  \* thrown by the call, "none" if there is none

caller == <<at, held, watched, revents, stdin_pos, buffer, lines, taken, retcode, exception>>
command == <<child, status, ends, doing, stdin, received, eof, written>>
vars == <<caller, command>>

Pending(s) == SubSeq(written[s], taken[s] + 1, Len(written[s]))

Init == /\ at = "fork"
        /\ held = Pipe
        /\ watched = Pipe
        /\ revents = [p \in Pipe |-> {}]
        /\ stdin_pos = 0
        /\ buffer = [s \in Output |-> << >>]
        /\ lines = [s \in Output |-> << >>]
        /\ child = "none"
        /\ status = None
        /\ ends = {}
        /\ doing = "none"
        /\ stdin = 0
        /\ received = 0
        /\ eof = FALSE
        /\ written = [s \in Output |-> << >>]
        /\ taken = [s \in Output |-> 0]
        /\ retcode = None
        /\ exception = "none"

-----------------------------------------------------------------------------
(* The command.                                                            *)

ExecSucceeds == /\ child = "forked"
                /\ child' = "running"
                /\ UNCHANGED <<caller, status, ends, doing, stdin, received, eof, written>>

\* Something fails in the child before the command runs.  The caller goes on
\* before the child has exited.
ExecFails == /\ child = "forked"
             /\ child' = "failing"
             /\ status' \in {125, SHELL_RET_COMMAND_NOT_EXECUTABLE, SHELL_RET_COMMAND_NOT_FOUND}
             /\ UNCHANGED <<caller, ends, doing, stdin, received, eof, written>>

ExitFailing == /\ child = "failing"
               /\ child' = "exited"
               /\ ends' = {}
               /\ UNCHANGED <<caller, status, doing, stdin, received, eof, written>>

\* The command starts to read or to write.
StartIO(p) == /\ child \in {"running", "exited", "reaped"}
              /\ doing = "none"
              /\ p \in ends
              /\ p = "stdin" => ~ eof
              /\ p \in Output => Len(written[p]) < MaxOut[p]
              /\ doing' = p
              /\ UNCHANGED <<caller, child, status, ends, stdin, received, eof, written>>

\* read(2) blocks while the pipe is empty and its other end open.
FinishRead == /\ doing = "stdin"
              /\ \/ /\ stdin > 0
                    /\ stdin' = stdin - 1
                    /\ received' = received + 1
                    /\ UNCHANGED eof
                 \/ /\ stdin = 0
                    /\ "stdin" \notin held
                    /\ eof' = TRUE
                    /\ UNCHANGED <<stdin, received>>
              /\ doing' = "none"
              /\ UNCHANGED <<caller, child, status, ends, written>>

\* write(2) blocks while the pipe is full.
FinishWrite == /\ doing \in Output \cap held
               /\ Len(Pending(doing)) < Room[doing]
               /\ \E c \in Char[doing] : written' = [written EXCEPT ![doing] = Append(@, c)]
               /\ doing' = "none"
               /\ UNCHANGED <<caller, child, status, ends, stdin, received, eof>>

\* The command is killed, also by writing to a pipe that nobody reads.
Killed == /\ child' = IF child = "running" THEN "exited" ELSE child
          /\ status' = IF child = "running" THEN Signaled ELSE status
          /\ ends' = {}
          /\ doing' = "none"
          /\ UNCHANGED <<caller, stdin, received, eof, written>>

BrokenPipe == doing \in Output \ held /\ Killed

Kill == child \in {"running", "exited", "reaped"} /\ ends # {} /\ Killed

CloseEnd(p) == /\ child \in {"running", "exited", "reaped"}
               /\ doing = "none"
               /\ p \in ends
               /\ ends' = ends \ {p}
               /\ UNCHANGED <<caller, child, status, doing, stdin, received, eof, written>>

\* The command exits, background processes keep some of the pipes.
ExitCommand == /\ child = "running"
               /\ doing = "none"
               /\ child' = "exited"
               /\ status' \in ExitCode
               /\ ends' \in SUBSET ends
               /\ UNCHANGED <<caller, doing, stdin, received, eof, written>>

Command == \/ ExecSucceeds \/ ExecFails \/ ExitFailing
           \/ \E p \in Pipe : StartIO(p) \/ CloseEnd(p)
           \/ FinishRead \/ FinishWrite \/ BrokenPipe \/ ExitCommand

-----------------------------------------------------------------------------
(* step_fork_and_exec                                                      *)

\* "For fundamental fatal errors ... an exception is thrown in any case."
ForkFails == /\ at = "fork"
             /\ at' = "thrown"
             /\ exception' = "syscall failed"
             /\ held' = {}
             /\ UNCHANGED <<watched, revents, stdin_pos, buffer, lines, taken, retcode, command>>

Fork == /\ at = "fork"
        /\ at' = "info"
        /\ child' = "forked"
        /\ ends' = Pipe
        /\ UNCHANGED <<held, watched, revents, stdin_pos, buffer, lines, taken, retcode, exception,
                       status, doing, stdin, received, eof, written>>

\* A system call of the caller fails after the fork: while the exception unwinds
\* ~Executor closes the pipes first, also stdin with a part of the text unwritten,
\* and then ~Child waits.
SYSCALL_FAILED == /\ at' = "unwind"
                  /\ held' = {}
                  /\ UNCHANGED <<watched, revents, stdin_pos, buffer, lines, taken, retcode, exception,
                                 command>>

\* The ends of the child are closed.  Reading the ChildFailureInfo ends with exec or
\* with its failure.
ReadInfo == /\ at = "info"
            /\ \/ /\ child # "forked"
                  /\ at' = "poll"
                  /\ UNCHANGED <<held, watched, revents, stdin_pos, buffer, lines, taken, retcode,
                                 exception, command>>
               \/ SYSCALL_FAILED

-----------------------------------------------------------------------------
(* step_poll                                                               *)

\* What poll() reports of the pipe: POLLERR is reported for a pipe without
\* readers.
Events(p) == IF p = "stdin"
             THEN {e \in {"OUT", "ERR"} : IF e = "OUT" THEN stdin < Room["stdin"] ELSE "stdin" \notin ends}
             ELSE {e \in {"IN", "HUP"} : IF e = "IN" THEN Pending(p) # << >> ELSE p \notin ends}

Poll == /\ at = "poll"
        /\ watched # {}
        /\ \/ /\ \E p \in watched : Events(p) # {}
              /\ revents' = [p \in Pipe |-> IF p \in watched THEN Events(p) ELSE {}]
              /\ at' = "stdin"
              /\ UNCHANGED <<held, watched, stdin_pos, buffer, lines, taken, retcode, exception,
                             command>>
           \/ SYSCALL_FAILED


\* Mutant of WriteStdin: closed as soon as the pipe is full.
WriteStdinGivesUp ==
  /\ at = "stdin"
  /\ "OUT" \in revents["stdin"]
  /\ \/ /\ stdin_pos = Text \/ stdin = Room["stdin"]
        /\ held' = held \ {"stdin"}
        /\ watched' = watched \ {"stdin"}
        /\ at' = "stdout"
        /\ UNCHANGED <<stdin_pos, stdin>>
     \/ /\ stdin_pos < Text
        /\ stdin < Room["stdin"]
        /\ stdin' = stdin + 1
        /\ stdin_pos' = stdin_pos + 1
        /\ UNCHANGED <<held, watched, at>>
  /\ UNCHANGED <<revents, buffer, lines, taken, retcode, exception,
                 child, status, ends, doing, received, eof, written>>

\* One turn of the loop in write_stdin: the end of the text, a piece that is
\* written, EAGAIN, or another failure, as EPIPE, for which SIGPIPE kills the program
\* unless it ignores it.
WriteUpTo(end) ==
  /\ at = "stdin"
  /\ "OUT" \in revents["stdin"]
  /\ \/ /\ stdin_pos = end
        /\ held' = held \ {"stdin"}
        /\ watched' = watched \ {"stdin"}
        /\ at' = "stdout"
        /\ UNCHANGED <<stdin_pos, stdin>>
     \/ /\ stdin_pos < end
        /\ "stdin" \in ends
        /\ stdin < Room["stdin"]
        /\ stdin' = stdin + 1
        /\ stdin_pos' = stdin_pos + 1
        /\ UNCHANGED <<held, watched, at>>
     \/ /\ stdin_pos < end
        /\ "stdin" \in ends
        /\ stdin = Room["stdin"]
        /\ at' = "stdout"
        /\ UNCHANGED <<held, watched, stdin_pos, stdin>>
     \/ /\ stdin_pos < end
        /\ at' = "unwind" \/ ("stdin" \notin ends /\ at' = "killed")
        /\ held' = {}
        /\ UNCHANGED <<watched, stdin_pos, stdin>>
  /\ UNCHANGED <<revents, buffer, lines, taken, retcode, exception,
                 child, status, ends, doing, received, eof, written>>

WriteStdin == WriteUpTo(Text)

SkipStdin == /\ at = "stdin"
             /\ "OUT" \notin revents["stdin"]
             /\ at' = "stdout"
             /\ UNCHANGED <<held, watched, revents, stdin_pos, buffer, lines, taken, retcode, exception,
                            command>>

\* split_buffer: the complete lines, and what is left in the buffer.
Split(b) ==
  LET split[n \in 0 .. Len(b)] ==
        IF n = 0 THEN [lines |-> << >>, rest |-> << >>]
        ELSE LET s == split[n - 1]
             IN  IF b[n] = NewLine THEN [lines |-> Append(s.lines, s.rest), rest |-> << >>]
                                   ELSE [s EXCEPT !.rest = Append(@, b[n])]
  IN  split[Len(b)]

\* The pipe is not watched any more once it is closed.
Leave(s) == /\ at' = IF s = "stdout" THEN "stderr" ELSE "poll"
            /\ revents' = IF s = "stdout" THEN revents ELSE [p \in Pipe |-> {}]
            /\ watched' = IF "HUP" \in revents[s] THEN watched \ {s} ELSE watched

\* Mutant of ReadOutput: fill_buffer without its loop.
ReadOutputOnce(s) ==
  /\ at = s
  /\ "IN" \in revents[s]
  /\ LET more == SubSeq(Pending(s), 1, IF Len(Pending(s)) < Chunk THEN Len(Pending(s)) ELSE Chunk)
         b == Split(buffer[s] \o more)
     IN  /\ taken' = [taken EXCEPT ![s] = @ + Len(more)]
         /\ lines' = [lines EXCEPT ![s] = @ \o b.lines]
         /\ buffer' = [buffer EXCEPT ![s] = b.rest]
         /\ Leave(s)
  /\ UNCHANGED <<held, stdin_pos, retcode, exception, command>>

\* One turn of the loop in fill_buffer: it ends with a short read (or EAGAIN).
ReadOutput(s) ==
  /\ at = s
  /\ "IN" \in revents[s]
  /\ \/ /\ LET more == SubSeq(Pending(s), 1, IF Len(Pending(s)) < Chunk THEN Len(Pending(s)) ELSE Chunk)
               b == Split(buffer[s] \o more)
           IN  /\ taken' = [taken EXCEPT ![s] = @ + Len(more)]
               /\ lines' = [lines EXCEPT ![s] = @ \o b.lines]
               /\ buffer' = [buffer EXCEPT ![s] = b.rest]
               /\ IF Len(more) < Chunk THEN Leave(s) ELSE UNCHANGED <<at, watched, revents>>
        /\ UNCHANGED <<held, stdin_pos, retcode, exception, command>>
     \/ SYSCALL_FAILED

SkipOutput(s) ==
  /\ at = s
  /\ "IN" \notin revents[s]
  /\ Leave(s)
  /\ UNCHANGED <<held, stdin_pos, buffer, lines, taken, retcode, exception, command>>

\* The read ends are closed, the rest of the buffers are the last lines.
EndPoll ==
  /\ at = "poll"
  /\ watched = {}
  /\ held' = held \ Output
  /\ lines' = [s \in Output |-> IF buffer[s] = << >> THEN lines[s] ELSE Append(lines[s], buffer[s])]
  /\ at' = "wait"
  /\ UNCHANGED <<watched, revents, stdin_pos, buffer, taken, retcode, exception, command>>

-----------------------------------------------------------------------------
(* step_wait, and the rest of the constructor.                             *)

\* The exception for an exit code, "none" if there is none.
Exception(do_throw, code) ==
  CASE ~ do_throw -> "none"
    [] code = SHELL_RET_COMMAND_NOT_FOUND -> "not found"
    [] code \notin {0, SHELL_RET_COMMAND_NOT_FOUND} -> "failed"
    [] OTHER -> "none"

\* waitpid fails if somebody else has waited for the child.
Wait == /\ at = "wait"
        /\ child = "exited"
        /\ child' = "reaped"
        /\ \/ /\ retcode' = status
              /\ \E do_throw \in BOOLEAN : exception' = Exception(do_throw, status)
           \/ /\ exception' = "syscall failed"
              /\ UNCHANGED retcode
        /\ at' = IF exception' = "none" THEN "returned" ELSE "thrown"
        /\ UNCHANGED <<held, watched, revents, stdin_pos, buffer, lines, taken,
                       status, ends, doing, stdin, received, eof, written>>

\* An exception: the pipes are closed before ~Child waits.
Unwind == /\ at = "unwind"
          /\ child = "exited"
          /\ child' = "reaped"
          /\ at' = "thrown"
          /\ exception' = "syscall failed"
          /\ UNCHANGED <<held, watched, revents, stdin_pos, buffer, lines, taken, retcode,
                         status, ends, doing, stdin, received, eof, written>>

Caller == \/ ForkFails \/ Fork \/ ReadInfo
          \/ Poll \/ WriteStdin \/ SkipStdin
          \/ \E s \in Output : ReadOutput(s) \/ SkipOutput(s)
          \/ EndPoll \/ Wait \/ Unwind

Next == Caller \/ Command \/ Kill

Spec == Init /\ [][Next]_vars

\* The caller goes on, and so does the command unless a pipe blocks it: it ends
\* some time.
FairSpec == Spec /\ WF_vars(Caller) /\ WF_vars(Command)

-----------------------------------------------------------------------------

Ended == at \in {"returned", "thrown", "killed"}

TypeOK == /\ at \in {"fork", "info", "poll", "stdin", "stdout", "stderr", "wait", "unwind",
                     "returned", "thrown", "killed"}
          /\ held \subseteq Pipe /\ watched \subseteq Pipe /\ ends \subseteq Pipe
          /\ stdin_pos \in 0 .. Text
          /\ stdin \in 0 .. Room["stdin"]
          /\ received \in 0 .. Text
          /\ doing \in Pipe \cup {"none"}
          /\ child \in {"none", "forked", "failing", "running", "exited", "reaped"}
          /\ eof \in BOOLEAN

\* The lines one after the other.
Flat(ls) ==
  LET flat[n \in 0 .. Len(ls)] == IF n = 0 THEN << >> ELSE flat[n - 1] \o ls[n] \o <<NewLine>>
  IN  flat[Len(ls)]

\* stdout() and stderr() are all that the command wrote, cut into lines, also if
\* it closed the pipe right after writing and if the last line does not end: poll
\* reports data and the end at once, and lines span several reads.
OutputWhole ==
  at = "wait" \/ at = "returned" \/ (at = "thrown" /\ exception # "syscall failed") =>
     \A s \in Output :
        LET w == written[s]
        IN  /\ Flat(lines[s]) = IF w = << >> \/ w[Len(w)] = NewLine THEN w ELSE Append(w, NewLine)
            /\ \A i \in DOMAIN lines[s], j \in 1 .. MaxOut[s] :
                  j \in DOMAIN lines[s][i] => lines[s][i][j] # NewLine

\* A system call of the caller has failed, which is what the call throws.
Failing == at = "unwind" \/ (at = "thrown" /\ exception = "syscall failed")

\* The end of stdin is the end of the text, so that no command takes the beginning
\* of a text (a password) for the whole one, but for a call that itself throws since
\* a system call failed: that one closes stdin early.  No call returns, goes on or
\* throws for an exit code when the command was given only a part.
InputWhole == eof /\ received # Text => Failing

\* No call leaves a zombie, however it ends.
Reaped == at \in {"returned", "thrown"} => child \in {"none", "reaped"}

=============================================================================
