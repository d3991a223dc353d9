------------------------------- MODULE Shell -------------------------------
(***************************************************************************)
(* The shell (userspace/shell/src/lib.rs) running on the kernel's pipes    *)
(* and processes: Pipes.tla supplies every system call on descriptors.     *)
(* The shell reads a line, parses it (ShellInput.tla) and runs the         *)
(* commands: a built-in in the shell itself, one program with fork and     *)
(* waitpid, or a pipeline with one child per command.  Each system call is *)
(* a step, so that the shell, the children of this pipeline and those an   *)
(* earlier one left behind interleave.                                     *)
(*                                                                         *)
(* A descriptor that is not a pipe is Console or File.  What a child runs  *)
(* is chosen when it gets there: a program that exits, one that writes, or *)
(* one that reads its input to the end.                                    *)
(***************************************************************************)
EXTENDS ShellInput

CONSTANTS
  Procs, Root, MAX_FDS, MAX_PIPES, MAX_PIPES_PER_PROCESS, PIPE_SIZE, U32_MAX, U16_MAX,
  Values, MaxWrite, DupWhenFull,     \* of Pipes; Root is the shell
  Sessions,                          \* names of what a user does
  Lines,      \* Lines[s][k]: the k-th line of session s is one of these
  Paths,      \* Paths[s]: the arguments of cd
  MaxOut      \* writes of a program (bound)

VARIABLES
  pipes, fd_types, pipe_count, state, wake, got, unheard,    \* of Pipes
  session,   \* which session this is
  typed,     \* lines read so far
  line,      \* the line being run, until it starts
  cmds,      \* its commands
  sh,        \* where the shell is: its locals in execute_pipeline
  prog,      \* what each child still has to do
  CWD,
  LAST_EXIT_CODE,
  failed     \* whether some pipe or fork of a pipeline failed (history)

K == INSTANCE Pipes
kernel == <<pipes, fd_types, pipe_count, state, wake, got, unheard>>
user == <<session, typed, line, cmds, CWD, LAST_EXIT_CODE, failed>>
vars == <<kernel, user, sh, prog>>

Children == Procs \ {Root}
NoPid == 0
NoFdNum == -1
Console == [pipe |-> -2, writable |-> TRUE]
File == [pipe |-> -3, writable |-> TRUE]
Ends == [pipe : K!PipeIdx, writable : BOOLEAN]

\* pc: "prompt", "execute", "stage", "fork", "close", "wait1", "wait2", "wait",
\* "waiting" (blocked in waitpid), "gone".
AtPrompt == [pc |-> "prompt", i |-> 0, prev |-> NoFdNum, r |-> NoFdNum, w |-> NoFdNum,
             pid |-> NoPid, todo |-> <<>>, code |-> 0]
NoProg == [line |-> 0, stage |-> 0, cmd |-> NewCmd, strict |-> FALSE, todo |-> <<>>,
           runs |-> "none", left |-> 0]

Init ==
  /\ pipes = [i \in K!PipeIdx |-> K!NoPipe]
  /\ pipe_count = [p \in Procs |-> 0]
  /\ state = [p \in Procs |-> IF p = Root THEN "Live" ELSE "Empty"]
  /\ wake = [p \in Procs |-> K!NoFd]
  /\ got = <<>> /\ unheard = {}
  /\ fd_types = [p \in Procs |-> [fd \in K!Fds |->
                   IF p = Root /\ fd < 3 THEN Console ELSE K!NoFd]]
  /\ session \in Sessions
  /\ typed = 0 /\ line = <<>> /\ cmds = <<>>
  /\ sh = AtPrompt
  /\ prog = [c \in Children |-> NoProg]
  /\ CWD = <<"/">>
  /\ LAST_EXIT_CODE = 0
  /\ failed = FALSE

-----------------------------------------------------------------------------
\* shell_main.

ReadLine ==
  /\ sh.pc = "prompt"
  /\ typed < Len(Lines[session])
  /\ \E s \in Lines[session][typed + 1] :
       /\ line' = Trimmed(s)
       /\ cmds' = parse_pipeline(line', tokenize(line'))
  /\ typed' = typed + 1
  /\ sh' = [sh EXCEPT !.pc = IF cmds' = <<>> THEN "prompt" ELSE "execute"]
  /\ UNCHANGED <<kernel, session, CWD, LAST_EXIT_CODE, failed, prog>>

\* Back to the prompt, with the locals gone.
Return ==
  /\ sh' = AtPrompt
  /\ line' = <<>> /\ cmds' = <<>>
  /\ UNCHANGED <<session, typed>>

-----------------------------------------------------------------------------
\* execute_single: a built-in without redirections runs in the shell.

Single == sh.pc = "execute" /\ Len(cmds) = 1
Named == Single /\ cmds[1].args # <<>>
BuiltIn == Named /\ ~Redirects(cmds[1])

cd ==
  /\ BuiltIn
  /\ \/ CWD' = <<"/">>                            \* no argument
     \/ \E path \in Paths[session] :
          LET full == resolve_full_path(CWD, path) IN
          CWD' \in {CWD} \cup (IF full = <<>> THEN {} ELSE {full})   \* chdir may refuse
  /\ Return
  /\ UNCHANGED <<kernel, LAST_EXIT_CODE, failed, prog>>

\* Any other built-in, a name that is no executable, or an empty name.
ReturnsAtOnce ==
  /\ Single
  /\ Return
  /\ UNCHANGED <<kernel, CWD, LAST_EXIT_CODE, failed, prog>>

exit ==
  /\ BuiltIn
  /\ K!die(Root)
  /\ sh' = [AtPrompt EXCEPT !.pc = "gone"]
  /\ line' = <<>> /\ cmds' = <<>>
  /\ UNCHANGED <<session, typed, CWD, LAST_EXIT_CODE, failed, prog>>

\* The redirections of a child, after its pipe ends are in place.
Redirections(c) == (IF c.stdin = <<>> THEN <<>> ELSE <<<<"redirect", 0, 0>>>>)
                   \o (IF c.stdout = <<>> THEN <<>> ELSE <<<<"redirect", 1, 1>>>>)

FreeSlots == {c \in Children : state[c] = "Empty"}
NextChild == K!Lowest(FreeSlots)

\* exec_external up to the fork; a fork that fails is ReturnsAtOnce.
exec_external ==
  /\ Named
  /\ FreeSlots # {}
  /\ K!sys_fork(Root, NextChild)
  /\ prog' = [prog EXCEPT ![NextChild] =
                [NoProg EXCEPT !.line = typed, !.cmd = cmds[1], !.strict = TRUE,
                               !.todo = Redirections(cmds[1])]]
  /\ sh' = [sh EXCEPT !.pc = "wait", !.pid = NextChild]
  /\ line' = <<>>
  /\ UNCHANGED <<session, typed, cmds, CWD, LAST_EXIT_CODE, failed>>

\* waitpid_blocking: a Zombie is reaped at once; otherwise the call blocks, and
\* returns 0 when the child has exited, without reaping it.
waitpid_blocking ==
  /\ sh.pc = "wait"
  /\ IF state[sh.pid] = "Zombie"
     THEN K!drop(sh.pid) /\ prog' = [prog EXCEPT ![sh.pid] = NoProg] /\ Return
     ELSE sh' = [sh EXCEPT !.pc = "waiting"] /\ UNCHANGED <<kernel, prog, session, typed, line, cmds>>
  /\ UNCHANGED <<CWD, LAST_EXIT_CODE, failed>>

ChildExited ==
  /\ sh.pc = "waiting"
  /\ state[sh.pid] = "Zombie"
  /\ Return
  /\ UNCHANGED <<kernel, CWD, LAST_EXIT_CODE, failed, prog>>

-----------------------------------------------------------------------------
\* execute_pipeline.

IsLast == sh.i = Len(cmds)
FreeFds == K!FreeFds(Root)
CanPipe == /\ pipe_count[Root] < MAX_PIPES_PER_PROCESS
           /\ \E i \in K!PipeIdx : ~pipes[i].some
           /\ Cardinality(FreeFds) >= 2

Start ==
  /\ sh.pc = "execute" /\ Len(cmds) > 1
  /\ sh' = [sh EXCEPT !.pc = "stage", !.i = 1]
  /\ line' = <<>>
  /\ UNCHANGED <<kernel, session, typed, cmds, CWD, LAST_EXIT_CODE, failed, prog>>

pipe ==
  /\ sh.pc = "stage" /\ ~IsLast
  /\ K!sys_pipe(Root)
  /\ LET r == K!Lowest(FreeFds)
         w == K!Lowest(FreeFds \ {r})
     IN sh' = [sh EXCEPT !.pc = "fork", !.r = r, !.w = w]
  /\ UNCHANGED <<user, prog>>

\* pipe or fork fails: return 1, with whatever descriptors are open.
GiveUp ==
  /\ \/ sh.pc = "stage" /\ ~IsLast /\ ~CanPipe
     \/ sh.pc = "stage" /\ IsLast /\ FreeSlots = {}
     \/ sh.pc = "fork" /\ FreeSlots = {}
  /\ failed' = TRUE
  /\ Return
  /\ UNCHANGED <<kernel, CWD, LAST_EXIT_CODE, prog>>

ChildCalls_KeepsReader(prev, r, w, c) ==
  (IF prev = NoFdNum THEN <<>> ELSE <<<<"dup2", prev, 0>>, <<"close", prev, prev>>>>)
  \o (IF r = NoFdNum THEN <<>> ELSE <<<<"dup2", w, 1>>, <<"close", w, w>>>>)
  \o Redirections(c)

\* What a child does before it runs its command.
ChildCalls(prev, r, w, c) ==
  (IF prev = NoFdNum THEN <<>> ELSE <<<<"dup2", prev, 0>>, <<"close", prev, prev>>>>)
  \o (IF r = NoFdNum THEN <<>>
      ELSE <<<<"close", r, r>>, <<"dup2", w, 1>>, <<"close", w, w>>>>)
  \o Redirections(c)

\* What the parent closes after a fork.
ParentCloses(prev, w) ==
  (IF w = NoFdNum THEN <<>> ELSE <<w>>) \o (IF prev = NoFdNum THEN <<>> ELSE <<prev>>)

fork ==
  /\ sh.pc = "fork" \/ (sh.pc = "stage" /\ IsLast)
  /\ FreeSlots # {}
  /\ K!sys_fork(Root, NextChild)
  /\ prog' = [prog EXCEPT ![NextChild] =
                [NoProg EXCEPT !.line = typed, !.stage = sh.i, !.cmd = cmds[sh.i],
                               !.todo = ChildCalls(sh.prev, sh.r, sh.w, cmds[sh.i])]]
  /\ sh' = [sh EXCEPT !.pc = "close", !.todo = ParentCloses(sh.prev, sh.w)]
  /\ UNCHANGED user

\* After the last close of this stage: the next stage, or the wait.
close ==
  /\ sh.pc = "close" /\ sh.todo # <<>>
  /\ K!sys_close(Root, Head(sh.todo))
  /\ sh' = [sh EXCEPT !.todo = Tail(@)]
  /\ UNCHANGED <<user, prog>>

StageDone ==
  /\ sh.pc = "close" /\ sh.todo = <<>>
  /\ sh' = IF IsLast THEN [sh EXCEPT !.pc = "wait1"]
           ELSE [sh EXCEPT !.pc = "stage", !.i = @ + 1, !.prev = sh.r,
                           !.r = NoFdNum, !.w = NoFdNum]
  /\ UNCHANGED <<kernel, user, prog>>

\* wifexited, wexitstatus, wifsignaled, wtermsig, wstopsig, on what waitpid returns:
\* the child's PID.
Status(pid) ==
  CASE pid % 128 = 0 -> (pid \div 256) % 256
    [] pid % 128 \notin {0, 127} -> -(pid % 128)
    [] OTHER -> -((pid \div 256) % 128)

Zombies == {c \in Children : state[c] = "Zombie"}

\* waitpid(0, WNOHANG) until it finds no Zombie, a yield, and the same again.
WaitAny ==
  /\ sh.pc \in {"wait1", "wait2"} /\ Zombies # {}
  /\ LET z == K!Lowest(Zombies) IN
       /\ K!drop(z)
       /\ prog' = [prog EXCEPT ![z] = NoProg]
       /\ sh' = [sh EXCEPT !.code = Status(z)]
  /\ UNCHANGED user

WaitDone ==
  /\ sh.pc \in {"wait1", "wait2"} /\ Zombies = {}
  /\ IF sh.pc = "wait1"
     THEN sh' = [sh EXCEPT !.pc = "wait2"] /\ UNCHANGED user
     ELSE LAST_EXIT_CODE' = sh.code /\ Return /\ UNCHANGED <<CWD, failed>>
  /\ UNCHANGED <<kernel, prog>>

-----------------------------------------------------------------------------
\* The children.

Exit(c) == K!die(c) /\ UNCHANGED prog

\* open, dup2 onto fd and close of a file: the end that was at fd is released.
Redirected(c, fd) ==
  /\ fd_types' = [fd_types EXCEPT ![c][fd] = File]
  /\ pipes' = K!Release(pipes, fd_types[c], {fd})
  /\ K!keyboard_wake(pipes')
  /\ UNCHANGED <<pipe_count, got>>

\* The next call of a child's set-up.  A file that does not open ends a command
\* run by exec_external; a pipeline goes on without it.
SetUp(c) ==
  /\ state[c] = "Live" /\ prog[c].todo # <<>>
  /\ LET call == Head(prog[c].todo)
         rest == prog' = [prog EXCEPT ![c].todo = Tail(@)]
     IN \/ call[1] = "dup2" /\ K!sys_dup2(c, call[2], call[3]) /\ rest
        \/ call[1] = "close" /\ K!sys_close(c, call[2]) /\ rest
        \/ call[1] = "redirect" /\ Redirected(c, call[2]) /\ rest
        \/ call[1] = "redirect" /\ ~prog[c].strict /\ rest /\ UNCHANGED kernel
        \/ call[1] = "redirect" /\ prog[c].strict /\ Exit(c)
  /\ UNCHANGED <<user, sh>>

\* The built-in or program a child gets to; a command without a name only exits.
\* Programs that read the console are left to LineDiscipline.
Runnable(c) ==
  {"exits"} \cup (IF prog[c].cmd.args = <<>> THEN {}
                  ELSE {"writes"} \cup (IF fd_types[c][0] = Console THEN {} ELSE {"reads"}))
Exec(c) ==
  /\ state[c] = "Live" /\ prog[c].todo = <<>> /\ prog[c].runs = "none"
  /\ \E k \in Runnable(c) : prog' = [prog EXCEPT ![c].runs = k, ![c].left = MaxOut]
  /\ UNCHANGED <<kernel, user, sh>>

\* One write to fd 1.  The result is not looked at: a write that blocked, or that
\* found no reader, is not repeated.
Writes(c) ==
  LET end == fd_types[c][1]
      dropped == end \in Ends /\ ~pipes[end.pipe].read_open /\ K!Room(pipes[end.pipe]) = 0
  IN IF end \notin Ends \/ dropped THEN UNCHANGED kernel
     ELSE \E v \in Values : K!sys_write(c, 1, <<v>>)

Write(c) ==
  /\ state[c] = "Live"
  /\ \/ prog[c].runs = "writes" /\ prog[c].left > 0 /\ Writes(c)
        /\ prog' = [prog EXCEPT ![c].left = @ - 1]
     \/ prog[c].runs = "forwards" /\ Writes(c) /\ prog' = [prog EXCEPT ![c].runs = "reads"]
  /\ UNCHANGED <<user, sh>>

\* One read of fd 0.  A read that blocked returns 0 when it is woken, and so does
\* the end of file: either ends the program.
Read(c) ==
  LET end == fd_types[c][0]
      to(k) == prog' = [prog EXCEPT ![c].runs = k]
      q == pipes[end.pipe]
  IN /\ state[c] = "Live" /\ prog[c].runs = "reads"
     /\ \/ end \in Ends /\ K!sys_read(c, 0, 1) /\ to(IF q.nread < q.nwrite THEN "forwards" ELSE "exits")
        \/ end \in Ends /\ q.nread >= q.nwrite /\ ~q.write_open /\ to("exits") /\ UNCHANGED kernel
        \/ end = File /\ prog[c].left > 0 /\ UNCHANGED kernel
           /\ prog' = [prog EXCEPT ![c].runs = "forwards", ![c].left = @ - 1]
        \/ end = File /\ to("exits") /\ UNCHANGED kernel
     /\ UNCHANGED <<user, sh>>

Finish(c) ==
  /\ state[c] = "Live"
  /\ prog[c].runs = "exits" \/ (prog[c].runs = "writes" /\ prog[c].left = 0)
  /\ Exit(c)
  /\ UNCHANGED <<user, sh>>

-----------------------------------------------------------------------------

ShellStep ==
  \/ cd \/ ReturnsAtOnce \/ exit \/ exec_external \/ waitpid_blocking \/ ChildExited
  \/ Start \/ pipe \/ GiveUp \/ fork \/ close \/ StageDone \/ WaitAny \/ WaitDone
ChildStep(c) == SetUp(c) \/ Exec(c) \/ Write(c) \/ Read(c) \/ Finish(c)

Next == ReadLine \/ ShellStep \/ \E c \in Children : ChildStep(c)

\* The user need not type; the shell and every child that is not blocked run on
\* (NoStarvation of Scheduler).
Spec ==
  /\ Init /\ [][Next]_vars
  /\ WF_vars(ShellStep)
  /\ \A c \in Children : WF_vars(ChildStep(c))
-----------------------------------------------------------------------------

\* The reference for ParseMatches, one character at a time: after each character the
\* line is in a gap, in a bare word or inside quotes.
Mode[s \in Seq(Characters), i \in Nat] ==
  IF i = 0 THEN "gap"
  ELSE LET m == Mode[s, i - 1] IN
       CASE m = "quoted" -> IF s[i] = "q" THEN "gap" ELSE "quoted"
         [] m # "quoted" /\ s[i] \in {"_", "|", ">", "<"} -> "gap"
         [] m = "gap" /\ s[i] = "q" -> "quoted"
         [] OTHER -> "bare"
Outside(s, c) == {i \in 1..Len(s) : s[i] = c /\ Mode[s, i - 1] # "quoted"}
WordStarts(s) == {i \in 1..Len(s) : Mode[s, i] \in {"bare", "quoted"} /\ Mode[s, i - 1] # Mode[s, i]}
\* Where the text of the word at i begins and ends.
Text(s, i) ==
  LET b == IF Mode[s, i] = "quoted" THEN i + 1 ELSE i
  IN <<b, CHOOSE e \in b..(Len(s) + 1) : /\ e <= Len(s) => Mode[s, e] # Mode[s, i]
                                         /\ \A k \in b..(e - 1) : Mode[s, k] = Mode[s, i]>>
Bars(s) == SetToSortSeq(Outside(s, "|"), <)
Angles(s) == Outside(s, "<") \cup Outside(s, ">")
\* The k-th stretch between bars.
Stretch(s, k) ==
  (IF k = 1 THEN 1 ELSE Bars(s)[k - 1] + 1)..(IF k > Len(Bars(s)) THEN Len(s) ELSE Bars(s)[k] - 1)
Smaller(a, b) == IF a < b THEN a ELSE b

\* A line without redirections is cut into commands at the bars outside quotes,
\* every command gets the words of its stretch, in order and without their quotes,
\* as many as fit, and only an empty last stretch is dropped.  Of a line with
\* redirections only this is claimed: a command redirects exactly what its stretch
\* says (which file is another matter, see parse_pipeline).
ParseMatches ==
  line # <<>> /\ Cardinality(WordStarts(line) \cup Outside(line, "|") \cup Angles(line)) <= MAX_TOKENS =>
    LET n == Len(Bars(line)) + 1
        words(k) == SetToSortSeq(WordStarts(line) \cap Stretch(line, k), <)
        full == IF words(n) = <<>> THEN n - 1 ELSE n
    IN /\ \A k \in DOMAIN cmds :
            /\ cmds[k].stdin # <<>> <=> Outside(line, "<") \cap Stretch(line, k) # {}
            /\ cmds[k].stdout # <<>> <=> Outside(line, ">") \cap Stretch(line, k) # {}
       /\ Angles(line) = {} =>
            /\ Len(cmds) = Smaller(full, MAX_CMDS)
            /\ \A k \in DOMAIN cmds :
                 cmds[k].args = [w \in 1..Smaller(Len(words(k)), MAX_ARGS) |-> Text(line, words(k)[w])]

\* A child of a pipeline that is past its set-up.
Running(c) == prog[c].stage > 0 /\ prog[c].todo = <<>> /\ state[c] \in {"Live", "Blocked", "Zombie"}
HeldBy(c, i) == {fd \in K!Fds : fd_types[c][fd].pipe = i}

\* Neighbours of a pipeline share exactly one pipe: the left one writes it through
\* descriptor 1, the right one reads it through 0 (unless a redirection replaced
\* the descriptor), and no child holds an end anywhere else, so that the two ends
\* close when the neighbours finish, whatever other pipelines are still running.
Wired ==
  /\ \A c \in Children : Running(c) =>
       \A fd \in K!Fds : fd_types[c][fd] \in Ends =>
         fd = (IF fd_types[c][fd].writable THEN 1 ELSE 0) \/ failed
  /\ \A c, d \in Children :
       Running(c) /\ Running(d) /\ prog[c].line = prog[d].line
       /\ prog[d].stage = prog[c].stage + 1
       /\ prog[c].cmd.stdout = <<>> /\ prog[d].cmd.stdin = <<>> =>
         LET i == fd_types[c][1].pipe IN
         /\ fd_types[c][1] = K!End(i, TRUE) /\ fd_types[d][0] = K!End(i, FALSE)
         /\ HeldBy(c, i) = {1} /\ HeldBy(d, i) = {0}

\* Every child ends, whether its neighbours write, read to the end, or exit at once:
\* nobody stays blocked in a pipe for good.
ChildrenEnd ==
  \A c \in Children : state[c] \in {"Live", "Blocked"} ~> state[c] \in {"Zombie", "Empty"}

=============================================================================
