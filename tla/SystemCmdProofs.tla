--------------------------- MODULE SystemCmdProofs ---------------------------
(***************************************************************************)
(* Theorems about SystemCmd.tla, for any text, any size of the pipes and   *)
(* any command.                                                            *)
(***************************************************************************)
EXTENDS SystemCmd, FiniteSetTheorems, SequenceTheorems, WellFoundedInduction, TLAPS

\* Nothing of the text gets lost on its way.
Conserved == stdin_pos = stdin + received

\* The caller closes stdin only at the end of the text, if nobody can read it any
\* more, or if a system call fails.
ClosedAtEnd == "stdin" \notin held => stdin_pos = Text \/ "stdin" \notin ends \/ Failing

\* The command works on pipes it has open, and not before it runs.
DoingOpen == /\ doing # "none" => doing \in ends
             /\ child \in {"none", "forked", "failing"} => doing = "none"

\* Before the fork there is no child, and the caller has all pipes open.
Unforked == at = "fork" => child = "none" /\ held = Pipe /\ ends = {}

IInv == TypeOK /\ Conserved /\ ClosedAtEnd /\ DoingOpen /\ Unforked /\ InputWhole /\ Reaped

LEMMA Bounds == Text \in Nat /\ Room["stdin"] \in Nat /\ Room["stdin"] > 0
BY SystemCmdAssumption DEF Pipe

LEMMA InitIInv == Init => IInv
<1> SUFFICES ASSUME Init PROVE IInv
  OBVIOUS
<1>0. eof \in BOOLEAN
  BY DEF Init
<1>1. TypeOK
  BY <1>0, Bounds DEF Init, TypeOK
<1>2. Conserved /\ ClosedAtEnd /\ DoingOpen /\ Unforked /\ Reaped
  BY DEF Init, Conserved, ClosedAtEnd, DoingOpen, Unforked, Reaped, Pipe
<1>3. InputWhole
  BY DEF Init, InputWhole
<1> QED BY <1>1, <1>2, <1>3 DEF IInv

\* No step of the command breaks the invariant, whatever the command does.
LEMMA CommandIInv == IInv /\ (Command \/ Kill) => IInv'
<1> USE Bounds
    DEF IInv, TypeOK, Conserved, ClosedAtEnd, DoingOpen, Unforked, InputWhole, Reaped,
        Pipe, Output, caller
<1> SUFFICES ASSUME IInv, Command \/ Kill PROVE IInv'
  OBVIOUS
<1>0. Failing' = Failing
  <2>1. UNCHANGED <<at, exception>>
    BY DEF Command, ExecSucceeds, ExecFails, ExitFailing, StartIO, CloseEnd, FinishRead,
           FinishWrite, BrokenPipe, Kill, Killed, ExitCommand
  <2> QED BY <2>1 DEF Failing
<1>1. CASE ExecSucceeds
  BY <1>0, <1>1 DEF ExecSucceeds
<1>2. CASE ExecFails
  BY <1>0, <1>2 DEF ExecFails
<1>3. CASE ExitFailing
  BY <1>0, <1>3 DEF ExitFailing
<1>4. ASSUME NEW p \in Pipe, StartIO(p) PROVE IInv'
  BY <1>0, <1>4 DEF StartIO
<1>5. ASSUME NEW p \in Pipe, CloseEnd(p) PROVE IInv'
  BY <1>0, <1>5 DEF CloseEnd
<1>6. CASE FinishRead
  <2>1. eof' \in BOOLEAN
    BY <1>0, <1>6 DEF FinishRead
  <2> QED BY <1>0, <2>1, <1>6 DEF FinishRead
<1>7. CASE FinishWrite
  BY <1>0, <1>7 DEF FinishWrite
<1>8. CASE BrokenPipe \/ Kill
  <2>1. eof' \in BOOLEAN /\ held' \subseteq Pipe /\ ends' \subseteq Pipe
    BY <1>0, <1>8 DEF BrokenPipe, Kill, Killed
  <2> QED BY <1>0, <2>1, <1>8 DEF BrokenPipe, Kill, Killed
<1>9. CASE ExitCommand
  BY <1>0, <1>9 DEF ExitCommand
<1> QED BY <1>1, <1>2, <1>3, <1>4, <1>5, <1>6, <1>7, <1>8, <1>9 DEF Command

\* A failing system call after the fork gives up the pipes and the call.
LEMMA FailureIInv == IInv /\ at \in {"info", "poll", "stdout", "stderr"} /\ SYSCALL_FAILED => IInv'
<1> SUFFICES ASSUME IInv, at \in {"info", "poll", "stdout", "stderr"}, SYSCALL_FAILED PROVE IInv'
  OBVIOUS
<1>1. /\ at' = "unwind" /\ held' = {} /\ Failing'
      /\ UNCHANGED <<watched, stdin_pos, child, ends, doing, stdin, received, eof>>
  BY DEF SYSCALL_FAILED, Failing, command
<1>2. TypeOK'
  BY <1>1 DEF IInv, TypeOK
<1>3. Conserved' /\ DoingOpen' /\ Unforked' /\ Reaped'
  BY <1>1 DEF IInv, Conserved, DoingOpen, Unforked, Reaped
<1>4. ClosedAtEnd' /\ InputWhole'
  BY <1>1 DEF ClosedAtEnd, InputWhole
<1> QED BY <1>2, <1>3, <1>4 DEF IInv

\* Steps of the caller that leave stdin alone.
LEMMA QuietIInv ==
  ASSUME IInv, at \in {"info", "poll", "stdin", "stdout", "stderr"},
         at' \in {"poll", "stdin", "stdout", "stderr"}, watched' \subseteq watched,
         UNCHANGED <<held, stdin_pos, command>>
  PROVE  IInv'
<1>1. UNCHANGED <<child, ends, doing, stdin, received, eof>>
  BY DEF command
<1>2. TypeOK'
  BY <1>1 DEF IInv, TypeOK
<1>3. Conserved' /\ DoingOpen' /\ Unforked' /\ Reaped'
  BY <1>1 DEF IInv, Conserved, DoingOpen, Unforked, Reaped
<1>4. ClosedAtEnd' /\ InputWhole'
  <2>1. ~ Failing
    BY DEF Failing
  <2> QED BY <1>1, <2>1 DEF IInv, ClosedAtEnd, InputWhole
<1> QED BY <1>2, <1>3, <1>4 DEF IInv

\* No step of the caller breaks it.
LEMMA CallerIInv == IInv /\ Caller => IInv'
<1> USE Bounds
    DEF IInv, TypeOK, Conserved, ClosedAtEnd, DoingOpen, Unforked, InputWhole, Reaped,
        Pipe, Output, command
<1> SUFFICES ASSUME IInv, Caller PROVE IInv'
  OBVIOUS
<1>0. /\ Failing => at = "unwind" \/ at = "thrown"
      /\ at' = "unwind" => Failing'
      /\ at' = "thrown" /\ exception' = "syscall failed" => Failing'
  BY DEF Failing
<1>1. CASE ForkFails
  <2>1. eof' \in BOOLEAN /\ held' \subseteq Pipe /\ ends' \subseteq Pipe
    BY <1>0, <1>1 DEF ForkFails
  <2> QED BY <1>0, <2>1, <1>1 DEF ForkFails
<1>2. CASE Fork
  BY <1>0, <1>2 DEF Fork
<1>3. CASE (ReadInfo \/ Poll) /\ ~ SYSCALL_FAILED
  BY <1>3, QuietIInv DEF ReadInfo, Poll
<1>5. CASE WriteStdin
  <2> USE <1>5 DEF WriteStdin, WriteUpTo
  <2>1. held' \subseteq Pipe /\ watched' \subseteq Pipe /\ at' # "fork"
    OBVIOUS
  <2>2. /\ stdin_pos' \in 0 .. Text /\ stdin' \in 0 .. Room["stdin"]
        /\ stdin_pos' = stdin' + received'
    OBVIOUS
  <2>3. ClosedAtEnd'
    <3>1. /\ at = "stdin" /\ ends' = ends
          /\ \/ held' = held /\ ("stdin" \in ends \/ stdin_pos' = stdin_pos)
             \/ stdin_pos' = Text
             \/ at' = "unwind"
             \/ "stdin" \notin ends
      OBVIOUS
    <3>2. "stdin" \notin held => stdin_pos = Text \/ "stdin" \notin ends
      BY <1>0, <3>1
    <3>3. stdin_pos = Text => stdin_pos' = Text \/ at' = "unwind"
      OBVIOUS
    <3> HIDE DEF WriteStdin
    <3> QED BY <1>0, <3>1, <3>2, <3>3
  <2>4. at' \in {"stdin", "stdout", "killed", "unwind"}
    OBVIOUS
  <2> QED BY <1>0, <2>1, <2>2, <2>3, <2>4
<1>6. CASE SkipStdin
  BY <1>6, QuietIInv DEF SkipStdin
<1>7. ASSUME NEW s \in Output, (ReadOutput(s) /\ ~ SYSCALL_FAILED) \/ SkipOutput(s) PROVE IInv'
  <2>1. /\ at \in {"stdout", "stderr"} /\ at' \in {"stdout", "stderr", "poll"}
        /\ watched' \subseteq watched
        /\ UNCHANGED <<held, stdin_pos, command>>
    BY <1>7 DEF ReadOutput, SkipOutput, Leave
  <2> HIDE DEF IInv, command
  <2> QED BY <2>1, QuietIInv
<1>9. CASE EndPoll
  BY <1>0, <1>9 DEF EndPoll
<1>10. CASE Wait
  BY <1>0, <1>10 DEF Wait
<1>11. CASE Unwind
  BY <1>0, <1>11 DEF Unwind
<1>12. CASE SYSCALL_FAILED /\ at \in {"info", "poll", "stdout", "stderr"}
  BY <1>12, FailureIInv
<1>13. /\ ReadInfo => at = "info"
       /\ Poll => at = "poll"
       /\ \A s \in Output : ReadOutput(s) => at \in {"stdout", "stderr"}
  BY DEF ReadInfo, Poll, ReadOutput
<1> HIDE DEF IInv
<1> QED BY <1>1, <1>2, <1>3, <1>5, <1>6, <1>7, <1>9, <1>10, <1>11, <1>12, <1>13
        DEF Caller

THEOREM Invariance == Spec => []IInv
<1>1. ASSUME IInv, UNCHANGED vars PROVE IInv'
  <2>1. Failing' = Failing
    BY <1>1 DEF vars, caller, Failing
  <2> QED BY <1>1, <2>1 DEF vars, caller, command, IInv, TypeOK, Conserved, ClosedAtEnd, DoingOpen,
                            Unforked, InputWhole, Reaped
<1>2. IInv /\ [Next]_vars => IInv'
  BY <1>1, CommandIInv, CallerIInv DEF Next
<1> QED BY <1>2, InitIInv, PTL DEF Spec

-----------------------------------------------------------------------------

\* The positions in the text and the pipe stay in their bounds.
THEOREM TypeCorrect == Spec => []TypeOK
<1>1. IInv => TypeOK
  BY DEF IInv
<1> QED BY <1>1, Invariance, PTL

\* A command that sees the end of stdin has got the whole text, however the caller
\* and the command interleave and whichever fork, exec or write fails, unless the
\* call throws since one of its system calls failed: a call that is told to the user
\* as done, or as failed by its exit code, has never given the beginning of a text
\* for the whole.
THEOREM InputComplete == Spec => []InputWhole
<1>1. IInv => InputWhole
  BY DEF IInv
<1> QED BY <1>1, Invariance, PTL

\* No call leaves a zombie.
THEOREM NoZombie == Spec => []Reaped
<1>1. IInv => Reaped
  BY DEF IInv
<1> QED BY <1>1, Invariance, PTL

-----------------------------------------------------------------------------
(* Induction                                                               *)

\* A set of natural numbers has a least one.
LEMMA LeastNat ==
  ASSUME NEW T \in SUBSET Nat, T # {}
  PROVE  \E m \in T : \A k \in T : m <= k
<1> DEFINE U == {1 .. k : k \in T}
<1>1. IsWellFoundedOn(StrictSubsetOrdering(Nat), FiniteSubsetsOf(Nat))
  BY FS_StrictSubsetOrderingWellFounded
<1>2. U \subseteq FiniteSubsetsOf(Nat) /\ U # {}
  <2>1. \A k \in T : 1 .. k \in SUBSET Nat /\ IsFiniteSet(1 .. k)
    BY FS_Interval
  <2> QED BY <2>1 DEF FiniteSubsetsOf
<1>3. PICK x \in U : \A y \in U : ~ (<<y, x>> \in StrictSubsetOrdering(Nat))
  <2> HIDE DEF U
  <2> QED BY <1>1, <1>2, WFMin
<1>4. PICK m \in T : x = 1 .. m
  OBVIOUS
<1>5. ASSUME NEW k \in T, ~ m <= k PROVE FALSE
  <2>1. 1 .. k \subseteq 1 .. m /\ m \in 1 .. m /\ m \notin 1 .. k /\ 1 .. m \subseteq Nat
    BY <1>5
  <2>2. <<1 .. k, 1 .. m>> \in StrictSubsetOrdering(Nat)
    BY <2>1 DEF StrictSubsetOrdering
  <2> QED BY <1>3, <1>4, <2>2
<1> QED BY <1>5

-----------------------------------------------------------------------------
(* Descendants: nothing but what is reached, and closed under children.    *)

\* Induction for a set of natural numbers.
LEMMA SetInduction ==
  ASSUME NEW T, 0 \in T, \A n \in Nat : n \in T => n + 1 \in T
  PROVE  Nat \subseteq T
<1> DEFINE U == Nat \ T
<1>1. ASSUME U # {} PROVE FALSE
  <2>1. PICK m \in U : \A k \in U : m <= k
    <3>1. U \in SUBSET Nat
      OBVIOUS
    <3> HIDE DEF U
    <3> QED BY <1>1, <3>1, LeastNat
  <2>2. m \in Nat \ {0} /\ m - 1 \in Nat /\ m - 1 \notin U
    BY <2>1
  <2>3. m - 1 \in T /\ (m - 1) + 1 = m
    BY <2>2
  <2> QED BY <2>1, <2>2, <2>3
<1> QED BY <1>1

Recursive(f, N, x0, step) == f[0] = x0 /\ \A n \in 1 .. N : f[n] = step[n][f[n - 1]]

\* A function that is defined by what it is at 0 and by its step.
LEMMA Recursion ==
  ASSUME NEW X, NEW x0 \in X, NEW N \in Nat, NEW step \in [1 .. N -> [X -> X]]
  PROVE  \E f \in [0 .. N -> X] : Recursive(f, N, x0, step)
<1> USE DEF Recursive
<1> DEFINE Up(k, f) == f[0] = x0 /\ \A n \in 1 .. k : f[n] = step[n][f[n - 1]]
           Q(k) == k <= N => \E f \in [0 .. k -> X] : Up(k, f)
           T == {k \in Nat : Q(k)}
<1>1. 0 \in T
  <2>1. [n \in 0 .. 0 |-> x0] \in [0 .. 0 -> X] /\ Up(0, [n \in 0 .. 0 |-> x0])
    OBVIOUS
  <2> QED BY <2>1
<1>2. ASSUME NEW k \in Nat, k \in T, k + 1 <= N PROVE \E f \in [0 .. k + 1 -> X] : Up(k + 1, f)
  <2>1. PICK f \in [0 .. k -> X] : Up(k, f)
    BY <1>2
  <2> DEFINE h == [n \in 0 .. k + 1 |-> IF n = k + 1 THEN step[k + 1][f[k]] ELSE f[n]]
  <2>2. h \in [0 .. k + 1 -> X]
    <3>1. step[k + 1][f[k]] \in X
      <4>1. k + 1 \in 1 .. N /\ f[k] \in X
        BY <1>2, <2>1
      <4> QED BY <4>1
    <3>2. \A n \in 0 .. k + 1 : n # k + 1 => n \in 0 .. k
      OBVIOUS
    <3> QED BY <2>1, <3>1, <3>2
  <2>3. h[0] = x0
    BY <2>1
  <2>4. ASSUME NEW n \in 1 .. k + 1 PROVE h[n] = step[n][h[n - 1]]
    <3>1. n - 1 \in 0 .. k /\ n - 1 # k + 1 /\ n \in 0 .. k + 1 /\ n - 1 \in 0 .. k + 1
      OBVIOUS
    <3>2. h[n - 1] = f[n - 1]
      BY <3>1
    <3>3. CASE n = k + 1
      <4>1. h[n] = step[k + 1][f[k]] /\ n - 1 = k
        BY <3>1, <3>3
      <4> HIDE DEF h
      <4> QED BY <3>2, <3>3, <4>1
    <3>4. CASE n # k + 1
      <4>1. h[n] = f[n] /\ n \in 1 .. k
        BY <3>1, <3>4
      <4>2. f[n] = step[n][f[n - 1]]
        BY <2>1, <4>1
      <4> HIDE DEF h
      <4> QED BY <3>2, <4>1, <4>2
    <3> QED BY <3>3, <3>4
  <2> HIDE DEF h
  <2> QED BY <2>2, <2>3, <2>4
<1>3. \A k \in Nat : k \in T => k + 1 \in T
  <2> SUFFICES ASSUME NEW k \in Nat, k \in T PROVE Q(k + 1)
    <3> HIDE DEF Q
    <3> QED OBVIOUS
  <2>1. SUFFICES ASSUME k + 1 <= N PROVE \E f \in [0 .. k + 1 -> X] : Up(k + 1, f)
    <3> HIDE DEF Up
    <3> QED BY DEF Q
  <2> HIDE DEF T, Up
  <2> QED BY <1>2, <2>1
<1>4. Nat \subseteq T
  <2> HIDE DEF T
  <2> QED BY <1>1, <1>3, SetInduction
<1> QED BY <1>4

-----------------------------------------------------------------------------
(* Lines                                                                   *)

\* The recursion of Flat as an equation.
LEMMA FlatFunction ==
  ASSUME NEW D, NewLine \in D, NEW ls \in Seq(Seq(D))
  PROVE  \E f \in [0 .. Len(ls) -> Seq(D)] :
            /\ f[0] = << >> /\ Flat(ls) = f[Len(ls)]
            /\ \A n \in 1 .. Len(ls) : f[n] = f[n - 1] \o ls[n] \o <<NewLine>>
<1> DEFINE N == Len(ls)
           X == Seq(D)
           step == [n \in 1 .. N |-> [x \in X |-> x \o ls[n] \o <<NewLine>>]]
           G(g) == g = [n \in 0 .. N |-> IF n = 0 THEN << >> ELSE g[n - 1] \o ls[n] \o <<NewLine>>]
<1>1. N \in Nat /\ << >> \in X /\ step \in [1 .. N -> [X -> X]]
  <2>1. \A n \in 1 .. N, x \in X : x \o ls[n] \o <<NewLine>> \in X
    OBVIOUS
  <2> QED BY <2>1
<1>2. PICK f \in [0 .. N -> X] : f[0] = << >> /\ \A n \in 1 .. N : f[n] = step[n][f[n - 1]]
  <2> DEFINE x0 == << >>
  <2>1. x0 \in X
    BY <1>1
  <2>2. \E f \in [0 .. N -> X] : Recursive(f, N, x0, step)
    <3> HIDE DEF N, X, step, x0, G
    <3> QED BY <1>1, <2>1, Recursion
  <2> QED BY <2>2 DEF Recursive
<1>3. ASSUME NEW n \in 1 .. N PROVE f[n] = f[n - 1] \o ls[n] \o <<NewLine>>
  <2>1. f[n - 1] \in X
    <3>1. n - 1 \in 0 .. N
      BY <1>1
    <3> HIDE DEF N, X, step
    <3> QED BY <1>2, <3>1
  <2>2. step[n][f[n - 1]] = f[n - 1] \o ls[n] \o <<NewLine>>
    BY <2>1
  <2> QED BY <1>2, <2>2
<1>4. G(f)
  <2>1. \A n \in 0 .. N : f[n] = IF n = 0 THEN << >> ELSE f[n - 1] \o ls[n] \o <<NewLine>>
    <3> SUFFICES ASSUME NEW n \in 0 .. N
                 PROVE  f[n] = IF n = 0 THEN << >> ELSE f[n - 1] \o ls[n] \o <<NewLine>>
      OBVIOUS
    <3>1. n # 0 => n \in 1 .. N
      BY <1>1
    <3> HIDE DEF N, X, step
    <3> QED BY <1>2, <1>3, <3>1
  <2>2. f = [n \in 0 .. N |-> f[n]]
    BY <1>2
  <2> QED BY <2>1, <2>2
<1>5. PICK g : g = CHOOSE h : G(h)
  OBVIOUS
<1>6. G(g)
  <2> HIDE DEF G
  <2> QED BY <1>4, <1>5
<1>7. \A n \in 0 .. N : f[n] = g[n]
  <2> DEFINE T == {n \in Nat : n <= N => f[n] = g[n]}
  <2>1. 0 \in T
    BY <1>1, <1>2, <1>6
  <2>2. ASSUME NEW n \in Nat, n \in T PROVE n + 1 \in T
    <3>1. SUFFICES ASSUME n + 1 <= N PROVE f[n + 1] = g[n + 1]
      OBVIOUS
    <3>2. f[n] = g[n] /\ n + 1 \in 1 .. N /\ (n + 1) - 1 = n /\ n + 1 \in 0 .. N /\ n + 1 # 0
      BY <1>1, <2>2, <3>1
    <3>3. g[n + 1] = g[n] \o ls[n + 1] \o <<NewLine>>
      BY <1>6, <3>2
    <3>4. f[n + 1] = f[n] \o ls[n + 1] \o <<NewLine>>
      BY <1>3, <3>2
    <3> QED BY <3>2, <3>3, <3>4
  <2>3. Nat \subseteq T
    <3> HIDE DEF T
    <3> QED BY <2>1, <2>2, SetInduction
  <2> QED BY <2>3
<1>8. Flat(ls) = g[N]
  BY <1>5 DEF Flat
<1>9. f[N] = Flat(ls)
  BY <1>1, <1>7, <1>8
<1> HIDE DEF step, G
<1> QED BY <1>2, <1>3, <1>9

\* Without lines there is nothing, and a line comes at the end.
LEMMA FlatEmpty == Flat(<< >>) = << >>
<1>1. \E f \in [0 .. Len(<< >>) -> Seq({NewLine})] : f[0] = << >> /\ Flat(<< >>) = f[Len(<< >>)]
  <2>1. << >> \in Seq(Seq({NewLine}))
    OBVIOUS
  <2> QED BY <2>1, FlatFunction
<1> QED BY <1>1

LEMMA FlatAppend ==
  ASSUME NEW D, NewLine \in D, NEW ls \in Seq(Seq(D)), NEW l \in Seq(D)
  PROVE  Flat(Append(ls, l)) = Flat(ls) \o l \o <<NewLine>>
<1> DEFINE N == Len(ls)
           ms == Append(ls, l)
<1>1. N \in Nat /\ ms \in Seq(Seq(D)) /\ Len(ms) = N + 1 /\ ms[N + 1] = l
      /\ \A i \in 1 .. N : ms[i] = ls[i]
  OBVIOUS
<1>2. PICK f \in [0 .. N -> Seq(D)] :
            /\ f[0] = << >> /\ Flat(ls) = f[N]
            /\ \A n \in 1 .. N : f[n] = f[n - 1] \o ls[n] \o <<NewLine>>
  BY FlatFunction
<1>3. PICK g \in [0 .. N + 1 -> Seq(D)] :
            /\ g[0] = << >> /\ Flat(ms) = g[N + 1]
            /\ \A n \in 1 .. N + 1 : g[n] = g[n - 1] \o ms[n] \o <<NewLine>>
  <2> HIDE DEF ms
  <2>1. \E g \in [0 .. Len(ms) -> Seq(D)] :
            /\ g[0] = << >> /\ Flat(ms) = g[Len(ms)]
            /\ \A n \in 1 .. Len(ms) : g[n] = g[n - 1] \o ms[n] \o <<NewLine>>
    BY <1>1, FlatFunction
  <2> QED BY <1>1, <2>1
<1> HIDE DEF ms
<1> DEFINE T == {n \in Nat : n <= N => f[n] = g[n]}
<1>4. 0 \in T
  BY <1>2, <1>3
<1>5. ASSUME NEW n \in Nat, n \in T PROVE n + 1 \in T
  <2>1. SUFFICES ASSUME n + 1 <= N PROVE f[n + 1] = g[n + 1]
    OBVIOUS
  <2>2. f[n] = g[n] /\ n + 1 \in 1 .. N /\ (n + 1) - 1 = n /\ n + 1 \in 1 .. N + 1
    BY <1>1, <1>5, <2>1
  <2>3. f[n + 1] = f[n] \o ls[n + 1] \o <<NewLine>> /\ g[n + 1] = g[n] \o ms[n + 1] \o <<NewLine>>
    <3> HIDE DEF N, T
    <3> QED BY <1>2, <1>3, <2>2
  <2>4. ms[n + 1] = ls[n + 1]
    BY <1>1, <2>2
  <2> QED BY <2>2, <2>3, <2>4
<1>6. Nat \subseteq T
  <2> HIDE DEF T
  <2> QED BY <1>4, <1>5, SetInduction
<1>7. f[N] = g[N] /\ N + 1 \in 1 .. N + 1 /\ (N + 1) - 1 = N
  <2> HIDE DEF N
  <2>1. N \in T
    BY <1>1, <1>6
  <2> QED BY <1>1, <2>1
<1>8. g[N + 1] = g[N] \o ms[N + 1] \o <<NewLine>>
  <2> HIDE DEF N
  <2> QED BY <1>3, <1>7
<1> QED BY <1>1, <1>2, <1>3, <1>7, <1>8 DEF ms

LEMMA FlatType ==
  ASSUME NEW D, NewLine \in D, NEW ls \in Seq(Seq(D))
  PROVE  Flat(ls) \in Seq(D)
<1>1. PICK f \in [0 .. Len(ls) -> Seq(D)] : Flat(ls) = f[Len(ls)]
  BY FlatFunction
<1>2. Len(ls) \in 0 .. Len(ls)
  OBVIOUS
<1> QED BY <1>1, <1>2


LEMMA Associative ==
  ASSUME NEW D, NEW x \in Seq(D), NEW y \in Seq(D), NEW z \in Seq(D)
  PROVE  (x \o y) \o z = x \o (y \o z)
OBVIOUS

Regroups(D) == \A x, y, z \in Seq(D) : (x \o y) \o z = x \o (y \o z)

LEMMA AssociativeIn == ASSUME NEW D PROVE Regroups(D)
BY Associative DEF Regroups

Clean(l) == \A i \in DOMAIN l : l[i] # NewLine

\* Splitting cuts at the ends of lines and neither loses nor adds anything.
LEMMA SplitWhole ==
  ASSUME NEW D, NewLine \in D, NEW ls \in Seq(Seq(D)), NEW b \in Seq(D)
  PROVE  /\ Split(b).lines \in Seq(Seq(D)) /\ Split(b).rest \in Seq(D)
         /\ Clean(Split(b).rest) /\ \A i \in DOMAIN Split(b).lines : Clean(Split(b).lines[i])
         /\ Flat(ls \o Split(b).lines) \o Split(b).rest = Flat(ls) \o b
<1>0. Regroups(D)
  BY AssociativeIn, Zenon
<1> DEFINE N == Len(b)
           X == [lines : Seq(Seq(D)), rest : Seq(D)]
           x0 == [lines |-> << >>, rest |-> << >>]
           Cut(n, x) == IF b[n] = NewLine THEN [lines |-> Append(x.lines, x.rest), rest |-> << >>]
                                          ELSE [x EXCEPT !.rest = Append(@, b[n])]
           step == [n \in 1 .. N |-> [x \in X |-> Cut(n, x)]]
           G(g) == g = [n \in 0 .. N |-> IF n = 0 THEN x0 ELSE Cut(n, g[n - 1])]
<1>1. N \in Nat /\ x0 \in X /\ \A n \in 1 .. N : b[n] \in D
  OBVIOUS
<1>2. \A n \in 1 .. N, x \in X : Cut(n, x) \in X
  <2> SUFFICES ASSUME NEW n \in 1 .. N, NEW x \in X PROVE Cut(n, x) \in X
    OBVIOUS
  <2>1. b[n] \in D /\ x.lines \in Seq(Seq(D)) /\ x.rest \in Seq(D)
    BY <1>1
  <2>2. Append(x.lines, x.rest) \in Seq(Seq(D)) /\ Append(x.rest, b[n]) \in Seq(D)
    BY <2>1
  <2>3. CASE b[n] = NewLine
    <3>1. << >> \in Seq(D)
      OBVIOUS
    <3> QED BY <2>2, <2>3, <3>1
  <2>4. CASE b[n] # NewLine
    BY <2>1, <2>2, <2>4
  <2> HIDE DEF Cut
  <2> QED BY <2>3, <2>4
<1>3. step \in [1 .. N -> [X -> X]]
  <2> HIDE DEF Cut, X, N
  <2> QED BY <1>2
<1>4. PICK f \in [0 .. N -> X] : f[0] = x0 /\ \A n \in 1 .. N : f[n] = step[n][f[n - 1]]
  <2>1. \E f \in [0 .. N -> X] : Recursive(f, N, x0, step)
    <3> HIDE DEF N, X, step, x0, G
    <3> QED BY <1>1, <1>3, Recursion
  <2> HIDE DEF N, X, step, x0, G
  <2> QED BY <2>1 DEF Recursive
<1>5. ASSUME NEW n \in 1 .. N PROVE f[n] = Cut(n, f[n - 1]) /\ f[n - 1] \in X
  <2> HIDE DEF N, X, x0, Cut, G
  <2>1. n - 1 \in 0 .. N
    BY <1>1
  <2>2. f[n - 1] \in X
    BY <1>4, <2>1
  <2>3. step[n][f[n - 1]] = Cut(n, f[n - 1])
    BY <2>2
  <2> HIDE DEF step
  <2> QED BY <1>4, <2>2, <2>3
<1>6. G(f)
  <2> HIDE DEF N, X, x0, Cut, step
  <2>1. ASSUME NEW n \in 0 .. N PROVE f[n] = IF n = 0 THEN x0 ELSE Cut(n, f[n - 1])
    <3>1. n # 0 => n \in 1 .. N
      BY <1>1
    <3> QED BY <1>4, <1>5, <3>1
  <2>2. f = [n \in 0 .. N |-> f[n]]
    BY <1>4
  <2> QED BY <2>1, <2>2
<1>7. PICK g : g = CHOOSE h : G(h)
  OBVIOUS
<1>8. G(g)
  <2> HIDE DEF G
  <2> QED BY <1>6, <1>7
<1>9. Split(b) = g[N]
  BY <1>7 DEF Split
<1> DEFINE Sound(n) == /\ g[n] = f[n]
                       /\ Clean(g[n].rest) /\ \A i \in DOMAIN g[n].lines : Clean(g[n].lines[i])
                       /\ Flat(ls \o g[n].lines) \o g[n].rest = Flat(ls) \o SubSeq(b, 1, n)
           T == {n \in Nat : n <= N => Sound(n)}
<1>10. Sound(0)
  <2>1. g[0] = x0 /\ f[0] = x0
    BY <1>1, <1>4, <1>8
  <2>2. Flat(ls) \in Seq(D) /\ ls \o << >> = ls
    BY FlatType
  <2>3. SubSeq(b, 1, 0) = << >>
    BY SubSeqEmpty
  <2>4. Flat(ls) \o << >> = Flat(ls)
    BY <2>2
  <2> QED BY <2>1, <2>2, <2>3, <2>4 DEF Clean
<1>11. ASSUME NEW n \in Nat, n + 1 <= N, Sound(n) PROVE Sound(n + 1)
  <2> DEFINE L == g[n].lines
             r == g[n].rest
             c == b[n + 1]
             F == Flat(ls)
             B == SubSeq(b, 1, n)
             m == n + 1
  <2>1. m \in 1 .. N /\ m \in 0 .. N /\ m # 0 /\ m - 1 = n /\ n \in 0 .. N
    BY <1>1, <1>11
  <2>2. g[n] = f[n] /\ g[n] \in X /\ f[m] = Cut(m, f[n])
    <3> HIDE DEF X, N, Cut, G, m
    <3> QED BY <1>4, <1>5, <1>11, <2>1
  <2>3. g[m] = Cut(m, g[n])
    <3> HIDE DEF X, N, Cut, x0, m
    <3> QED BY <1>8, <2>1
  <2>4. g[m] = f[m]
    <3> HIDE DEF Cut, X, N, m
    <3> QED BY <2>2, <2>3
  <2>5. L \in Seq(Seq(D)) /\ r \in Seq(D) /\ c \in D /\ F \in Seq(D)
    <3>1. m \in 1 .. N => b[m] \in D
      BY <1>1
    <3> HIDE DEF N
    <3> QED BY <2>1, <2>2, <3>1, FlatType
  <2>6. B \in Seq(D) /\ SubSeq(b, 1, m) = B \o <<c>>
    <3>1. m \in 1 .. Len(b) /\ 1 \in 1 .. Len(b) /\ b \in Seq(D)
      BY <2>1
    <3>2. SubSeq(b, 1, m) = SubSeq(b, 1, m - 1) \o <<b[m]>>
      BY <3>1, SubSeqRecursiveSecond
    <3>3. B \in Seq(D)
      <4>1. \A i \in 1 .. n : b[i] \in D
        BY <1>1, <2>1
      <4> QED BY <4>1, SubSeqProperties
    <3> QED BY <2>1, <3>2, <3>3
  <2>7. Clean(r) /\ (\A i \in DOMAIN L : Clean(L[i])) /\ Flat(ls \o L) \o r = F \o B
    BY <1>11
  <2>8. ls \o L \in Seq(Seq(D)) /\ Flat(ls \o L) \in Seq(D) /\ <<c>> \in Seq(D)
    <3>1. ls \o L \in Seq(Seq(D)) /\ <<c>> \in Seq(D)
      BY <2>5
    <3>2. \A x \in Seq(Seq(D)) : Flat(x) \in Seq(D)
      BY FlatType
    <3> QED BY <3>1, <3>2
  <2> HIDE DEF L, r, c, F, B, N, X
  <2>9. (F \o B) \o <<c>> = F \o (B \o <<c>>) /\ F \o B \in Seq(D)
    <3> DEFINE t == <<c>>
    <3>1. t \in Seq(D)
      BY <2>8
    <3> HIDE DEF t
    <3>2. (F \o B) \o t = F \o (B \o t)
      <4>1. F \in Seq(D) /\ B \in Seq(D)
        BY <2>5, <2>6
      <4> HIDE DEF Sound
      <4> QED BY <1>0, <3>1, <4>1, ZenonT(60) DEF Regroups
    <3> QED BY <2>5, <2>6, <3>2, ConcatProperties DEF t
  <2>10. CASE c = NewLine
    <3>1. g[m].lines = Append(L, r) /\ g[m].rest = << >>
      BY <2>3, <2>10 DEF L, r, c
    <3>2. ls \o Append(L, r) = Append(ls \o L, r)
      BY <2>5
    <3>3. Flat(Append(ls \o L, r)) = Flat(ls \o L) \o r \o <<NewLine>>
      BY <2>5, <2>8, FlatAppend
    <3>4. Flat(ls \o g[m].lines) = (F \o B) \o <<c>>
      BY <2>7, <2>10, <3>1, <3>2, <3>3
    <3>5. ((F \o B) \o <<c>>) \o << >> = (F \o B) \o <<c>>
      BY <2>8, <2>9
    <3>6. Flat(ls \o g[m].lines) \o g[m].rest = F \o SubSeq(b, 1, m)
      BY <2>6, <2>9, <3>1, <3>4, <3>5
    <3>7. \A i \in DOMAIN g[m].lines : Clean(g[m].lines[i])
      <4>1. DOMAIN Append(L, r) = 1 .. Len(L) + 1 /\ DOMAIN L = 1 .. Len(L) /\ Len(L) \in Nat
        BY <2>5
      <4>2. \A i \in DOMAIN Append(L, r) : Append(L, r)[i] = IF i \in DOMAIN L THEN L[i] ELSE r
        BY <2>5, <4>1
      <4> QED BY <2>7, <3>1, <4>2
    <3>8. Clean(g[m].rest)
      BY <3>1 DEF Clean
    <3> QED BY <2>4, <3>6, <3>7, <3>8 DEF F
  <2>11. CASE c # NewLine
    <3>1. g[m].lines = L /\ g[m].rest = Append(r, c)
      <4>1. g[n] \in [lines : Seq(Seq(D)), rest : Seq(D)]
        BY <2>2 DEF X
      <4> QED BY <2>3, <2>11, <4>1 DEF L, r, c
    <3>2. Append(r, c) = r \o <<c>>
      BY <2>5, AppendIsConcat
    <3>3. Flat(ls \o L) \o (r \o <<c>>) = (Flat(ls \o L) \o r) \o <<c>>
      BY <2>5, <2>8, ConcatAssociative
    <3>4. Flat(ls \o g[m].lines) \o g[m].rest = F \o SubSeq(b, 1, m)
      BY <2>6, <2>7, <2>9, <3>1, <3>2, <3>3
    <3>5. Clean(Append(r, c))
      <4>1. \A i \in DOMAIN Append(r, c) : Append(r, c)[i] = IF i \in DOMAIN r THEN r[i] ELSE c
        BY <2>5
      <4> QED BY <2>7, <2>11, <4>1 DEF Clean
    <3> QED BY <2>4, <2>7, <3>1, <3>4, <3>5 DEF F
  <2> QED BY <2>10, <2>11
<1>12. N \in T
  <2>1. 0 \in T
    BY <1>10
  <2>2. ASSUME NEW n \in Nat, n \in T PROVE n + 1 \in T
    <3>1. n + 1 <= N => Sound(n)
      <4> HIDE DEF Sound, N
      <4> QED BY <1>1, <2>2
    <3>2. n + 1 <= N => Sound(n + 1)
      <4> HIDE DEF Sound, N
      <4> QED BY <1>11, <3>1
    <3> HIDE DEF Sound, N
    <3> QED BY <3>2
  <2>3. Nat \subseteq T
    <3> HIDE DEF T
    <3> QED BY <2>1, <2>2, SetInduction
  <2> QED BY <1>1, <2>3
<1>13. Sound(N)
  <2> HIDE DEF Sound, N
  <2> QED BY <1>1, <1>12
<1>14. SubSeq(b, 1, N) = b
  BY SubSeqFull
<1>15. g[N] \in X
  BY <1>1, <1>4, <1>13
<1> QED BY <1>9, <1>13, <1>14, <1>15

\* Lines end with the end of a line.
LEMMA FlatEnds ==
  ASSUME NEW D, NewLine \in D, NEW ls \in Seq(Seq(D))
  PROVE  Flat(ls) # << >> => Flat(ls)[Len(Flat(ls))] = NewLine
<1> SUFFICES ASSUME Flat(ls) # << >> PROVE Flat(ls)[Len(Flat(ls))] = NewLine
  OBVIOUS
<1>1. ls # << >>
  BY FlatEmpty
<1>2. PICK ms \in Seq(Seq(D)), l \in Seq(D) : ls = Append(ms, l)
  BY <1>1, SequenceEmptyOrAppend
<1>3. Flat(ls) = Flat(ms) \o l \o <<NewLine>>
  BY <1>2, FlatAppend
<1>4. PICK x \in Seq(D) : x = Flat(ms) \o l
  <2>1. PICK F \in Seq(D) : F = Flat(ms)
    BY FlatType
  <2>2. F \o l \in Seq(D)
    OBVIOUS
  <2> QED BY <2>1, <2>2
<1>5. Flat(ls) = x \o <<NewLine>>
  BY <1>3, <1>4
<1>6. Len(x \o <<NewLine>>) = Len(x) + 1 /\ (x \o <<NewLine>>)[Len(x) + 1] = NewLine
  OBVIOUS
<1> QED BY <1>5, <1>6

\* The rest of the buffer is the last line.
Terminated(w) == IF w = << >> \/ w[Len(w)] = NewLine THEN w ELSE Append(w, NewLine)
Closing(ls, l) == IF l = << >> THEN ls ELSE Append(ls, l)
AllClean(ls) == \A i \in DOMAIN ls : Clean(ls[i])

LEMMA LastLine ==
  ASSUME NEW D, NewLine \in D, NEW ls \in Seq(Seq(D)), NEW l \in Seq(D), Clean(l), AllClean(ls)
  PROVE  Flat(Closing(ls, l)) = Terminated(Flat(ls) \o l) /\ AllClean(Closing(ls, l))
<1> DEFINE w == Flat(ls) \o l
           ms == Closing(ls, l)
<1> SUFFICES /\ Flat(ms) = IF w = << >> \/ w[Len(w)] = NewLine THEN w ELSE Append(w, NewLine)
             /\ \A i \in DOMAIN ms : Clean(ms[i])
  BY DEF Terminated, AllClean
<1>0. ms = IF l = << >> THEN ls ELSE Append(ls, l)
  BY DEF Closing
<1> USE DEF AllClean
<1> HIDE DEF ms
<1>1. PICK F \in Seq(D) : F = Flat(ls)
  BY FlatType
<1>2. CASE l = << >>
  <2>1. w = F /\ ms = ls
    BY <1>0, <1>1, <1>2
  <2>2. w = << >> \/ w[Len(w)] = NewLine
    BY <1>1, <2>1, FlatEnds
  <2> QED BY <1>1, <2>1, <2>2
<1>3. CASE l # << >>
  <2>1. ms = Append(ls, l) /\ Flat(ms) = F \o l \o <<NewLine>>
    BY <1>0, <1>1, <1>3, FlatAppend
  <2>2. w = F \o l /\ w \in Seq(D) /\ Len(w) = Len(F) + Len(l) /\ Len(l) \in Nat \ {0} /\ Len(F) \in Nat
    BY <1>1, <1>3
  <2> HIDE DEF w
  <2>3. w[Len(F) + Len(l)] = l[Len(l)]
    BY <1>3, <2>2
  <2>4. w # << >> /\ w[Len(w)] # NewLine
    BY <2>2, <2>3 DEF Clean
  <2>5. Append(w, NewLine) = w \o <<NewLine>>
    BY <2>2, AppendIsConcat
  <2>6. \A i \in DOMAIN ms : ms[i] = IF i \in DOMAIN ls THEN ls[i] ELSE l
    <3>1. \A i \in DOMAIN Append(ls, l) : Append(ls, l)[i] = IF i \in DOMAIN ls THEN ls[i] ELSE l
      OBVIOUS
    <3> QED BY <2>1, <3>1
  <2> QED BY <2>1, <2>2, <2>4, <2>5, <2>6
<1> QED BY <1>2, <1>3

-----------------------------------------------------------------------------
(* The output                                                              *)

\* What an output consists of.
Of(s) == Char[s] \cup {NewLine}

OutputType ==
  /\ DOMAIN written = Output /\ DOMAIN taken = Output /\ DOMAIN lines = Output
  /\ DOMAIN buffer = Output /\ DOMAIN revents = Pipe
  /\ \A s \in Output : /\ written[s] \in Seq(Of(s)) /\ taken[s] \in 0 .. Len(written[s])
                       /\ lines[s] \in Seq(Seq(Of(s))) /\ buffer[s] \in Seq(Of(s))

\* The lines and the buffer are what was read.
Kept(s) == /\ Flat(lines[s]) \o buffer[s] = SubSeq(written[s], 1, taken[s])
           /\ Clean(buffer[s]) /\ \A i \in DOMAIN lines[s] : Clean(lines[s][i])

Reading == at \in {"fork", "info", "poll", "stdin", "stdout", "stderr"} => \A s \in Output : Kept(s)

\* A pipe that is not watched any more, or of which the end was reported, gets
\* nothing any more; data from before was reported with the end.
HungUp == /\ \A s \in Output : "HUP" \in revents[s] =>
                 s \notin ends /\ ("IN" \in revents[s] \/ taken[s] = Len(written[s]))
          /\ \A s \in Output \ watched : s \notin ends /\ taken[s] = Len(written[s])
          /\ at = "fork" => watched = Pipe /\ revents = [p \in Pipe |-> {}]

\* The call is over, or all that is left is to wait for the child.
Over == at \in {"wait", "returned"} \/ (at = "thrown" /\ exception # "syscall failed")

Complete(s) ==
  LET w == written[s]
  IN  /\ Flat(lines[s]) = IF w = << >> \/ w[Len(w)] = NewLine THEN w ELSE Append(w, NewLine)
      /\ \A i \in DOMAIN lines[s] : Clean(lines[s][i])

AllRead == Over => \A s \in Output : s \notin ends /\ Complete(s)

OInv == OutputType /\ Reading /\ HungUp /\ AllRead

\* What is read next continues what was read before.
LEMMA More ==
  ASSUME NEW D, NEW w \in Seq(D), NEW t \in 0 .. Len(w), NEW k \in 0 .. Len(w) - t
  PROVE  /\ SubSeq(w, t + 1, Len(w)) \in Seq(D) /\ Len(SubSeq(w, t + 1, Len(w))) = Len(w) - t
         /\ SubSeq(SubSeq(w, t + 1, Len(w)), 1, k) \in Seq(D)
         /\ Len(SubSeq(SubSeq(w, t + 1, Len(w)), 1, k)) = k
         /\ SubSeq(w, 1, t) \in Seq(D)
         /\ SubSeq(w, 1, t) \o SubSeq(SubSeq(w, t + 1, Len(w)), 1, k) = SubSeq(w, 1, t + k)
<1> DEFINE p == SubSeq(w, t + 1, Len(w))
           q == SubSeq(p, 1, k)
           b == SubSeq(w, 1, t)
           e == SubSeq(w, 1, t + k)
<1>1. Len(w) \in Nat /\ t \in Nat /\ k \in Nat /\ \A i \in 1 .. Len(w) : w[i] \in D
  OBVIOUS
<1>2. p \in Seq(D) /\ Len(p) = Len(w) - t /\ \A i \in 1 .. Len(w) - t : p[i] = w[t + i]
  <2>1. \A i \in t + 1 .. Len(w) : w[i] \in D
    BY <1>1
  <2> QED BY <1>1, <2>1, SubSeqProperties
<1>3. q \in Seq(D) /\ Len(q) = k /\ \A i \in 1 .. k : q[i] = p[i]
  <2> HIDE DEF p
  <2>1. \A i \in 1 .. k : p[i] \in D
    BY <1>1, <1>2
  <2> QED BY <1>1, <2>1, SubSeqProperties
<1>4. b \in Seq(D) /\ Len(b) = t /\ \A i \in 1 .. t : b[i] = w[i]
  <2>1. \A i \in 1 .. t : w[i] \in D
    BY <1>1
  <2> QED BY <1>1, <2>1, SubSeqProperties
<1>5. e \in Seq(D) /\ Len(e) = t + k /\ \A i \in 1 .. t + k : e[i] = w[i]
  <2>1. \A i \in 1 .. t + k : w[i] \in D
    BY <1>1
  <2> QED BY <1>1, <2>1, SubSeqProperties
<1> HIDE DEF p, q, b, e
<1>6. b \o q \in Seq(D) /\ Len(b \o q) = t + k
      /\ \A i \in 1 .. t + k : (b \o q)[i] = IF i <= t THEN b[i] ELSE q[i - t]
  <2>1. Len(b \o q) = Len(b) + Len(q)
    BY <1>3, <1>4, ConcatProperties
  <2>2. b \o q \in Seq(D)
    BY <1>3, <1>4, ConcatProperties
  <2>3. \A i \in 1 .. Len(b) + Len(q) : (b \o q)[i] = IF i <= Len(b) THEN b[i] ELSE q[i - Len(b)]
    BY <1>3, <1>4, ConcatProperties
  <2> QED BY <1>3, <1>4, <2>1, <2>2, <2>3
<1>7. ASSUME NEW i \in 1 .. t + k PROVE (b \o q)[i] = e[i]
  <2>1. CASE i <= t
    BY <1>4, <1>5, <1>6, <2>1
  <2>2. CASE ~ i <= t
    <3>1. i - t \in 1 .. k /\ i - t \in 1 .. Len(w) - t /\ t + (i - t) = i
      BY <1>1, <2>2
    <3> QED BY <1>2, <1>3, <1>5, <1>6, <2>2, <3>1
  <2> QED BY <2>1, <2>2
<1>8. b \o q = e
  BY <1>5, <1>6, <1>7, SeqEqual
<1> QED BY <1>2, <1>3, <1>4, <1>8 DEF p, q, b, e

LEMMA CommandOInv ==
  ASSUME IInv, OInv, Command \/ Kill
  PROVE  OInv'
<1>1. ASSUME ends' \subseteq ends, UNCHANGED <<caller, written>> PROVE OInv'
  BY <1>1 DEF caller, OInv, OutputType, Reading, Kept, HungUp, AllRead, Complete, Over
<1>2. CASE FinishWrite
  <2> USE DEF OInv
  <2>1. PICK c \in Char[doing] : written' = [written EXCEPT ![doing] = Append(@, c)]
    BY <1>2 DEF FinishWrite
  <2>2. UNCHANGED <<caller, ends>> /\ doing \in Output /\ doing \in ends
    BY <1>2 DEF FinishWrite, IInv, DoingOpen, Output
  <2> DEFINE w == written[doing]
             v == Append(w, c)
  <2>3. c \in Of(doing) /\ w \in Seq(Of(doing)) /\ taken[doing] \in 0 .. Len(w)
    BY <2>2 DEF OutputType, Of
  <2>4. v \in Seq(Of(doing)) /\ Len(v) = Len(w) + 1
    BY <2>3
  <2>5. SubSeq(v, 1, taken[doing]) = SubSeq(w, 1, taken[doing])
    BY <2>3
  <2>6. written'[doing] = v /\ DOMAIN written' = Output
        /\ \A s \in Output : s # doing => written'[s] = written[s]
    BY <2>1, <2>2 DEF OutputType
  <2> HIDE DEF w, v
  <2>7. OutputType'
    <3>1. taken[doing] \in 0 .. Len(v)
      BY <2>3, <2>4
    <3> QED BY <2>2, <2>4, <2>6, <3>1 DEF OutputType, caller
  <2>8. Reading'
    <3>1. ASSUME NEW s \in Output, Kept(s) PROVE Kept(s)'
      <4>1. CASE s = doing
        BY <2>2, <2>5, <2>6, <3>1, <4>1 DEF Kept, caller, w
      <4>2. CASE s # doing
        BY <2>2, <2>6, <3>1, <4>2 DEF Kept, caller
      <4> QED BY <4>1, <4>2
    <3> QED BY <2>2, <3>1 DEF Reading, caller
  <2>9. HungUp'
    BY <2>2, <2>6 DEF HungUp, caller
  <2>10. AllRead'
    BY <2>2 DEF AllRead, Over, caller
  <2> QED BY <2>7, <2>8, <2>9, <2>10
<1>3. CASE ~ FinishWrite
  <2>1. ends' \subseteq ends /\ UNCHANGED <<caller, written>>
    BY <1>3 DEF Command, Kill, Killed, ExecSucceeds, ExecFails, ExitFailing, StartIO, CloseEnd, FinishRead,
         BrokenPipe, ExitCommand
  <2> QED BY <1>1, <2>1
<1> QED BY <1>2, <1>3

LEMMA ReadSound ==
  ASSUME IInv, OInv, NEW s \in Output, ReadOutput(s), ~ SYSCALL_FAILED
  PROVE  OInv'
<1> DEFINE w == written[s]
           t == taken[s]
           p == Pending(s)
           k == IF Len(p) < Chunk THEN Len(p) ELSE Chunk
           more == SubSeq(p, 1, k)
           b == Split(buffer[s] \o more)
<1> USE DEF OInv
<1>1. w \in Seq(Of(s)) /\ t \in 0 .. Len(w) /\ lines[s] \in Seq(Seq(Of(s))) /\ buffer[s] \in Seq(Of(s))
      /\ NewLine \in Of(s) /\ Chunk \in Nat \ {0} /\ Len(w) \in Nat
  BY SystemCmdAssumption DEF OutputType, Of
<1>2. p = SubSeq(w, t + 1, Len(w)) /\ Len(p) = Len(w) - t
  <2>1. 0 \in 0 .. Len(w) - t
    BY <1>1
  <2>2. Len(SubSeq(w, t + 1, Len(w))) = Len(w) - t
    BY <1>1, <2>1, More
  <2> QED BY <2>2 DEF Pending
<1>3. k \in 0 .. Len(w) - t /\ (k < Chunk => t + k = Len(w)) /\ (t = Len(w) => k = 0)
  <2> HIDE DEF w, t, p
  <2>1. k = IF Len(p) < Chunk THEN Len(p) ELSE Chunk
    OBVIOUS
  <2> HIDE DEF k
  <2> QED BY <1>1, <1>2, <2>1
<1> HIDE DEF k
<1>4. more \in Seq(Of(s)) /\ Len(more) = k /\ SubSeq(w, 1, t) \in Seq(Of(s))
      /\ SubSeq(w, 1, t) \o more = SubSeq(w, 1, t + k)
  <2> HIDE DEF w, t, p
  <2> QED BY <1>1, <1>2, <1>3, More
<1>5. /\ at = s /\ "IN" \in revents[s]
      /\ taken' = [taken EXCEPT ![s] = @ + Len(more)]
      /\ lines' = [lines EXCEPT ![s] = @ \o b.lines]
      /\ buffer' = [buffer EXCEPT ![s] = b.rest]
      /\ IF Len(more) < Chunk THEN Leave(s) ELSE UNCHANGED <<at, watched, revents>>
      /\ UNCHANGED <<held, stdin_pos, retcode, exception, command>>
  BY DEF ReadOutput, k
<1> HIDE DEF more
<1>6. \A x \in Output \ {s} : taken'[x] = taken[x] /\ lines'[x] = lines[x] /\ buffer'[x] = buffer[x]
  BY <1>5 DEF OutputType
<1>7. taken'[s] = t + k /\ lines'[s] = lines[s] \o b.lines /\ buffer'[s] = b.rest
  BY <1>4, <1>5 DEF OutputType
<1>8. written' = written /\ ends' = ends
  BY <1>5 DEF command
<1>9. PICK c \in Seq(Of(s)) : c = buffer[s] \o more
  <2>1. PICK x \in Seq(Of(s)) : x = buffer[s]
    BY <1>1
  <2>2. PICK y \in Seq(Of(s)) : y = more
    BY <1>4
  <2>3. x \o y \in Seq(Of(s))
    OBVIOUS
  <2> QED BY <2>1, <2>2, <2>3
<1>10. /\ b.lines \in Seq(Seq(Of(s))) /\ b.rest \in Seq(Of(s))
       /\ Clean(b.rest) /\ \A i \in DOMAIN b.lines : Clean(b.lines[i])
       /\ Flat(lines[s] \o b.lines) \o b.rest = Flat(lines[s]) \o c
  <2>1. b = Split(c)
    BY <1>9
  <2> HIDE DEF b
  <2>2. \A D : NewLine \in D => \A ls \in Seq(Seq(D)), x \in Seq(D) :
          /\ Split(x).lines \in Seq(Seq(D)) /\ Split(x).rest \in Seq(D)
          /\ Clean(Split(x).rest) /\ \A i \in DOMAIN Split(x).lines : Clean(Split(x).lines[i])
          /\ Flat(ls \o Split(x).lines) \o Split(x).rest = Flat(ls) \o x
    BY SplitWhole
  <2>3. PICK ls \in Seq(Seq(Of(s))) : ls = lines[s]
    BY <1>1
  <2>4. /\ Split(c).lines \in Seq(Seq(Of(s))) /\ Split(c).rest \in Seq(Of(s))
        /\ Clean(Split(c).rest) /\ \A i \in DOMAIN Split(c).lines : Clean(Split(c).lines[i])
        /\ Flat(ls \o Split(c).lines) \o Split(c).rest = Flat(ls) \o c
    BY <1>1, <2>2, ZenonT(60)
  <2> QED BY <2>1, <2>3, <2>4
<1> HIDE DEF b
<1>11. Reading => Kept(s)'
  <2> SUFFICES ASSUME Reading PROVE Kept(s)'
    OBVIOUS
  <2>1. Kept(s)
    BY <1>5 DEF Reading, Output
  <2>2. Flat(lines[s]) \o (buffer[s] \o more) = (Flat(lines[s]) \o buffer[s]) \o more
    <3>1. PICK D : D = Of(s)
      OBVIOUS
    <3>2. PICK x \in Seq(D) : x = Flat(lines[s])
      BY <1>1, <3>1, FlatType
    <3>3. PICK y \in Seq(D) : y = buffer[s]
      BY <1>1, <3>1
    <3>4. PICK z \in Seq(D) : z = more
      BY <1>4, <3>1
    <3>5. (x \o y) \o z = x \o (y \o z)
      <4>1. Regroups(D)
        BY AssociativeIn, Zenon
      <4> QED BY <4>1, ZenonT(60) DEF Regroups
    <3> QED BY <3>2, <3>3, <3>4, <3>5
  <2>3. Flat(lines'[s]) \o buffer'[s] = SubSeq(w, 1, t + k)
    BY <1>4, <1>7, <1>9, <1>10, <2>1, <2>2 DEF Kept
  <2>4. ASSUME NEW i \in DOMAIN lines'[s] PROVE Clean(lines'[s][i])
    <3>1. PICK x \in Seq(Seq(Of(s))) : x = lines[s]
      BY <1>1
    <3>2. PICK y \in Seq(Seq(Of(s))) : y = b.lines
      BY <1>10
    <3>3. \A j \in DOMAIN (x \o y) : \/ j \in DOMAIN x /\ (x \o y)[j] = x[j]
                                    \/ \E n \in DOMAIN y : (x \o y)[j] = y[n]
      <4>1. ASSUME NEW j \in DOMAIN (x \o y), ~ j <= Len(x) PROVE \E n \in DOMAIN y : (x \o y)[j] = y[n]
        <5>1. j - Len(x) \in DOMAIN y /\ (x \o y)[j] = y[j - Len(x)]
          BY <4>1
        <5> QED BY <5>1
      <4>2. ASSUME NEW j \in DOMAIN (x \o y), j <= Len(x) PROVE j \in DOMAIN x /\ (x \o y)[j] = x[j]
        BY <4>2
      <4> QED BY <4>1, <4>2
    <3>4. lines'[s] = x \o y
      BY <1>7, <3>1, <3>2
    <3>5. \A j \in DOMAIN x : Clean(x[j])
      BY <2>1, <3>1 DEF Kept
    <3>6. \A j \in DOMAIN y : Clean(y[j])
      BY <1>10, <3>2
    <3>7. i \in DOMAIN (x \o y)
      BY <2>4, <3>4
    <3>8. CASE i \in DOMAIN x /\ (x \o y)[i] = x[i]
      BY <3>4, <3>5, <3>8
    <3>9. CASE \E n \in DOMAIN y : (x \o y)[i] = y[n]
      BY <3>4, <3>6, <3>9
    <3> QED BY <3>3, <3>7, <3>8, <3>9
  <2> QED BY <1>7, <1>8, <1>10, <2>3, <2>4 DEF Kept
<1>12. at' \in {s, "stderr", "poll"} /\ at' # "fork" /\ DOMAIN revents' = Pipe
  BY <1>5 DEF Leave, OutputType, Output
<1>13. OutputType'
  <2>1. lines'[s] \in Seq(Seq(Of(s))) /\ buffer'[s] \in Seq(Of(s)) /\ taken'[s] \in 0 .. Len(w)
    <3>1. PICK x \in Seq(Seq(Of(s))) : x = lines[s]
      BY <1>1
    <3>2. PICK y \in Seq(Seq(Of(s))) : y = b.lines
      BY <1>10
    <3>3. x \o y \in Seq(Seq(Of(s)))
      OBVIOUS
    <3> QED BY <1>1, <1>3, <1>7, <1>10, <3>1, <3>2, <3>3
  <2>2. DOMAIN taken' = Output /\ DOMAIN lines' = Output /\ DOMAIN buffer' = Output
    BY <1>5 DEF OutputType
  <2> QED BY <1>6, <1>8, <1>12, <2>1, <2>2 DEF OutputType
<1>14. Reading'
  <2>1. Reading => \A x \in Output : Kept(x)
    BY <1>5 DEF Reading, Output
  <2>2. \A x \in Output \ {s} : Kept(x) => Kept(x)'
    BY <1>6, <1>8 DEF Kept
  <2> QED BY <1>11, <2>1, <2>2 DEF Reading
<1>15. HungUp'
  <2>1. ASSUME NEW x \in Output, "HUP" \in revents'[x]
        PROVE  x \notin ends' /\ ("IN" \in revents'[x] \/ taken'[x] = Len(written'[x]))
    <3>1. revents' = revents \/ revents' = [y \in Pipe |-> {}]
      BY <1>5 DEF Leave
    <3>2. revents' = revents
      BY <2>1, <3>1 DEF Output, Pipe
    <3>3. x \notin ends /\ ("IN" \in revents[x] \/ taken[x] = Len(written[x]))
      BY <2>1, <3>2 DEF HungUp
    <3> QED BY <1>5, <1>6, <1>8, <3>2, <3>3
  <2>2. ASSUME NEW x \in Output \ watched' PROVE x \notin ends' /\ taken'[x] = Len(written'[x])
    <3>1. CASE x \notin watched
      <4>1. x \notin ends /\ taken[x] = Len(written[x])
        BY <3>1 DEF HungUp
      <4>2. CASE x = s
        <5>1. t + k = Len(w)
          BY <1>1, <1>3, <4>1, <4>2
        <5> QED BY <1>7, <1>8, <4>1, <4>2, <5>1
      <4>3. CASE x # s
        BY <1>6, <1>8, <4>1, <4>3
      <4> QED BY <4>2, <4>3
    <3>2. CASE x \in watched
      <4>1. x = s /\ "HUP" \in revents[s] /\ Len(more) < Chunk
        BY <1>5, <2>2, <3>2 DEF Leave
      <4> QED BY <1>3, <1>4, <1>7, <1>8, <4>1 DEF HungUp
    <3> QED BY <3>1, <3>2
  <2> QED BY <1>12, <2>1, <2>2 DEF HungUp
<1>16. AllRead'
  BY <1>12 DEF AllRead, Over, Output
<1> QED BY <1>13, <1>14, <1>15, <1>16

\* Of a call that fails nothing is said.
LEMMA FailureSound ==
  ASSUME IInv, OInv, SYSCALL_FAILED, at # "fork"
  PROVE  OInv'
<1>1. at' = "unwind" /\ UNCHANGED <<watched, revents, buffer, lines, taken, ends, written>>
  BY DEF SYSCALL_FAILED, command
<1>2. OutputType' /\ Reading' /\ AllRead'
  BY <1>1 DEF OInv, OutputType, Reading, AllRead, Over
<1>3. HungUp'
  BY <1>1 DEF OInv, HungUp
<1> QED BY <1>2, <1>3 DEF OInv

\* Polling, writing to stdin and skipping leave the lines alone.
LEMMA CallerFrame ==
  ASSUME IInv, OInv, NEW s \in Output, ~ SYSCALL_FAILED,
         ForkFails \/ Fork \/ ReadInfo \/ Poll \/ WriteStdin \/ SkipStdin \/ SkipOutput(s)
  PROVE  OInv'
<1> USE DEF OInv
<1>1. UNCHANGED <<buffer, lines, taken, written>> /\ DOMAIN revents' = Pipe
  BY DEF ForkFails, Fork, ReadInfo, Poll, WriteStdin, WriteUpTo, SkipStdin, SkipOutput, Leave, command, OutputType
<1>2. OutputType'
  BY <1>1 DEF OutputType
<1>3. /\ at \in {"fork", "info", "poll", "stdin", "stdout", "stderr"} /\ at' # "fork"
      /\ at' \in {"info", "poll", "stdin", "stdout", "stderr", "killed", "unwind", "thrown"}
      /\ at' = "thrown" => exception' = "syscall failed"
  BY DEF ForkFails, Fork, ReadInfo, Poll, WriteStdin, WriteUpTo, SkipStdin, SkipOutput, Leave, Output
<1>4. Reading'
  BY <1>1, <1>3 DEF Reading, Kept
<1>5. AllRead'
  BY <1>3 DEF AllRead, Over
<1>6. HungUp'
  <2>1. CASE Fork
    BY <1>1, <1>3, <2>1 DEF Fork, HungUp, Output, Pipe
  <2>2. CASE Poll
    <3>1. ASSUME NEW x \in Output, "HUP" \in revents'[x]
          PROVE  x \notin ends /\ ("IN" \in revents'[x] \/ taken[x] = Len(written[x]))
      <4>1. revents'[x] = Events(x) /\ x \in Pipe /\ x # "stdin"
        BY <2>2, <3>1 DEF Poll, Output, Pipe
      <4>2. x \notin ends
        BY <3>1, <4>1 DEF Events
      <4>3. ASSUME "IN" \notin revents'[x] PROVE taken[x] = Len(written[x])
        <5>1. Pending(x) = << >>
          BY <4>1, <4>3 DEF Events
        <5>2. written[x] \in Seq(Of(x)) /\ taken[x] \in 0 .. Len(written[x]) /\ Len(written[x]) \in Nat
          BY DEF OutputType
        <5>3. 0 \in 0 .. Len(written[x]) - taken[x]
          BY <5>2
        <5>4. Len(Pending(x)) = Len(written[x]) - taken[x]
          BY <5>2, <5>3, More DEF Pending
        <5> QED BY <5>1, <5>2, <5>4
      <4> QED BY <4>2, <4>3
    <3>2. UNCHANGED <<ends, watched>>
      BY <2>2 DEF Poll, command
    <3> QED BY <1>1, <1>3, <3>1, <3>2 DEF HungUp
  <2>3. CASE SkipOutput(s)
    <3>1. /\ at = s /\ "IN" \notin revents[s] /\ ends' = ends
          /\ revents' = revents \/ revents' = [p \in Pipe |-> {}]
          /\ watched' = watched \/ (watched' = watched \ {s} /\ "HUP" \in revents[s])
      BY <2>3 DEF SkipOutput, Leave, command
    <3> QED BY <1>1, <1>3, <3>1 DEF HungUp, Output, Pipe
  <2>4. CASE ForkFails \/ ReadInfo \/ WriteStdin \/ SkipStdin
    <3>1. /\ UNCHANGED <<ends, revents>>
          /\ watched' = watched \/ watched' = watched \ {"stdin"}
      BY <2>4 DEF ForkFails, ReadInfo, WriteStdin, WriteUpTo, SkipStdin, command
    <3> QED BY <1>1, <1>3, <3>1 DEF HungUp, Output
  <2> QED BY <2>1, <2>2, <2>3, <2>4
<1> QED BY <1>2, <1>4, <1>5, <1>6

LEMMA EndPollSound ==
  ASSUME IInv, OInv, EndPoll
  PROVE  OInv'
<1> USE DEF OInv
<1>1. /\ at = "poll" /\ watched = {} /\ at' = "wait"
      /\ lines' = [s \in Output |-> IF buffer[s] = << >> THEN lines[s] ELSE Append(lines[s], buffer[s])]
      /\ UNCHANGED <<watched, revents, buffer, taken, written, ends>>
  BY DEF EndPoll, command
<1>2. ASSUME NEW s \in Output
      PROVE  lines'[s] \in Seq(Seq(Of(s))) /\ s \notin ends /\ Complete(s)'
  <2>1. /\ written[s] \in Seq(Of(s)) /\ lines[s] \in Seq(Seq(Of(s))) /\ buffer[s] \in Seq(Of(s))
        /\ NewLine \in Of(s)
    BY DEF OutputType, Of
  <2>2. s \notin ends /\ taken[s] = Len(written[s])
    BY <1>1 DEF HungUp
  <2>3. Kept(s)
    BY <1>1 DEF Reading
  <2>4. SubSeq(written[s], 1, Len(written[s])) = written[s]
    BY <2>1, SubSeqFull
  <2>5. written[s] = Flat(lines[s]) \o buffer[s] /\ Clean(buffer[s]) /\ \A i \in DOMAIN lines[s] : Clean(lines[s][i])
    BY <2>2, <2>3, <2>4 DEF Kept
  <2>6. lines'[s] = IF buffer[s] = << >> THEN lines[s] ELSE Append(lines[s], buffer[s])
    BY <1>1
  <2>7. lines'[s] \in Seq(Seq(Of(s)))
    BY <2>1, <2>6
  <2>8. /\ Flat(lines'[s]) = IF written[s] = << >> \/ written[s][Len(written[s])] = NewLine
                             THEN written[s] ELSE Append(written[s], NewLine)
        /\ \A i \in DOMAIN lines'[s] : Clean(lines'[s][i])
    <3>1. \A D : NewLine \in D =>
            \A ls \in Seq(Seq(D)), l \in Seq(D) :
              Clean(l) /\ AllClean(ls) =>
                Flat(Closing(ls, l)) = Terminated(Flat(ls) \o l) /\ AllClean(Closing(ls, l))
      BY LastLine
    <3>2. AllClean(lines[s])
      BY <2>5 DEF AllClean
    <3>3. /\ Flat(Closing(lines[s], buffer[s])) = Terminated(Flat(lines[s]) \o buffer[s])
          /\ AllClean(Closing(lines[s], buffer[s]))
      BY <2>1, <2>5, <3>1, <3>2, Zenon
    <3>4. lines'[s] = Closing(lines[s], buffer[s]) /\ written[s] = Flat(lines[s]) \o buffer[s]
      BY <2>5, <2>6 DEF Closing
    <3>5. PICK ms : ms = lines'[s]
      OBVIOUS
    <3>6. Flat(ms) = Terminated(written[s]) /\ AllClean(ms)
      BY <3>3, <3>4, <3>5
    <3> QED BY <3>5, <3>6 DEF Terminated, AllClean
  <2> QED BY <1>1, <2>2, <2>7, <2>8 DEF Complete
<1>3. OutputType'
  BY <1>1, <1>2 DEF OutputType
<1>4. Reading' /\ HungUp'
  BY <1>1 DEF Reading, HungUp
<1>5. AllRead'
  BY <1>1, <1>2 DEF AllRead
<1> QED BY <1>3, <1>4, <1>5

\* Nor does the end of the call.
LEMMA WaitSound ==
  ASSUME IInv, OInv, Wait \/ Unwind
  PROVE  OInv'
<1> USE DEF OInv
<1>1. UNCHANGED <<held, watched, revents, buffer, lines, taken, ends, written>> /\ at' \in {"returned", "thrown"}
  BY DEF Wait, Unwind
<1>2. OutputType' /\ Reading' /\ HungUp'
  BY <1>1 DEF OutputType, Reading, HungUp
<1>3. AllRead'
  <2>1. CASE Wait
    <3>1. Over
      BY <2>1 DEF Wait, Over
    <3> QED BY <1>1, <3>1 DEF AllRead, Complete
  <2>2. CASE Unwind
    BY <2>2 DEF Unwind, AllRead, Over
  <2> QED BY <2>1, <2>2
<1> QED BY <1>2, <1>3

LEMMA InitOInv == Init => OInv
<1> SUFFICES ASSUME Init PROVE OInv
  OBVIOUS
<1>1. OutputType
  <2>1. \A s \in Output : 0 \in 0 .. Len(written[s])
    BY DEF Init
  <2> QED BY <2>1 DEF Init, OutputType
<1>2. Reading
  <2> SUFFICES ASSUME NEW s \in Output PROVE Kept(s)
    BY DEF Reading
  <2>1. lines[s] = << >> /\ buffer[s] = << >> /\ written[s] = << >> /\ taken[s] = 0
    BY DEF Init
  <2>2. SubSeq(<< >>, 1, 0) = << >>
    BY SubSeqEmpty
  <2>3. << >> \o << >> = << >>
    OBVIOUS
  <2>4. Flat(lines[s]) \o buffer[s] = SubSeq(written[s], 1, taken[s])
    <3>1. Flat(lines[s]) = << >>
      BY <2>1, FlatEmpty
    <3> QED BY <2>1, <2>2, <2>3, <3>1
  <2>5. DOMAIN buffer[s] = {} /\ DOMAIN lines[s] = {}
    BY <2>1
  <2> QED BY <2>4, <2>5 DEF Kept, Clean
<1>3. HungUp
  BY DEF Init, HungUp, Output, Pipe
<1>4. AllRead
  BY DEF Init, AllRead, Over
<1> QED BY <1>1, <1>2, <1>3, <1>4 DEF OInv

LEMMA StepOInv == IInv /\ OInv /\ [Next]_vars => OInv'
<1>1. ASSUME IInv, OInv, UNCHANGED vars PROVE OInv'
  BY <1>1 DEF vars, caller, command, OInv, OutputType, Reading, Kept, HungUp, AllRead, Complete, Over
<1>2. ASSUME IInv, OInv, Caller PROVE OInv'
  <2>1. "stdout" \in Output
    BY DEF Output
  <2>2. CASE SYSCALL_FAILED /\ at # "fork"
    BY <1>2, <2>2, FailureSound
  <2>3. CASE SYSCALL_FAILED /\ at = "fork"
    <3>1. ForkFails \/ Fork
      BY <1>2, <2>3 DEF Caller, ReadInfo, Poll, WriteStdin, WriteUpTo, SkipStdin, ReadOutput,
                        SkipOutput, EndPoll, Wait, Unwind, Output
    <3> QED BY <2>3, <3>1 DEF ForkFails, Fork, SYSCALL_FAILED
  <2>4. CASE ~ SYSCALL_FAILED
    BY <1>2, <2>1, <2>4, CallerFrame, ReadSound, EndPollSound, WaitSound DEF Caller
  <2> QED BY <2>2, <2>3, <2>4
<1> QED BY <1>1, <1>2, CommandOInv DEF Next

\* Of a call that is over, unless it failed itself, stdout() and stderr() are all
\* that the command wrote, cut into lines: for any command, any sizes of the pipes
\* and of what is read at once, and in any interleaving.
THEOREM OutputComplete == Spec => []OutputWhole
<1>1. OInv => OutputWhole
  <2> SUFFICES ASSUME OInv, Over PROVE OutputWhole
    BY DEF OutputWhole, Over
  <2>1. \A s \in Output : Complete(s)
    BY DEF OInv, AllRead
  <2> QED BY <2>1 DEF OutputWhole, Complete, Clean
<1>2. IInv /\ OInv /\ [Next]_vars => OInv'
  BY StepOInv
<1> QED BY <1>1, <1>2, InitOInv, Invariance, PTL DEF Spec
=============================================================================
