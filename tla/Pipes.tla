------------------------------- MODULE Pipes -------------------------------
(***************************************************************************)
(* Pipes and the descriptors that name them (process/pipe.rs, the pipe     *)
(* table of process/mod.rs, Drop for Process in process/process.rs and the *)
(* calls pipe, read, write, close, dup, dup2, fork of syscall/mod.rs).     *)
(*                                                                         *)
(* Every call is one step, made by any process that is not blocked.  Only  *)
(* pipe descriptors are kept; a call that only returns an error changes    *)
(* nothing and is left out.  The scheduler is in Scheduler.tla: here a     *)
(* process is live, blocked in a pipe call, dead (Zombie) or absent.       *)
(***************************************************************************)
EXTENDS Integers, Sequences, FiniteSets

CONSTANTS
  Procs,                  \* process slots
  Root,                   \* the process that exists first
  MAX_FDS,
  MAX_PIPES,
  MAX_PIPES_PER_PROCESS,
  PIPE_SIZE,
  U32_MAX,                \* largest value of the counters nread and nwrite
  U16_MAX,                \* largest value of refcount
  Values,                 \* bytes
  MaxWrite,               \* longest write (bound)
  DupWhenFull             \* whether programs call dup with a full table

ASSUME PipesAssumption ==
  /\ Root \in Procs
  /\ MAX_FDS \in Nat /\ MAX_PIPES \in Nat /\ MAX_PIPES_PER_PROCESS \in Nat
  /\ PIPE_SIZE \in Nat \ {0}
  /\ U32_MAX \in Nat /\ (U32_MAX + 1) % PIPE_SIZE = 0
  /\ U16_MAX \in Nat \ {0, 1}
  /\ Values # {}
  /\ MaxWrite \in Nat
  /\ DupWhenFull \in BOOLEAN

\* The descriptors of all processes can be counted in refcount.
ASSUME RefcountFits ==
  IsFiniteSet(Procs) /\ Cardinality(Procs \X (0..(MAX_FDS - 1))) <= U16_MAX

Fds == 0..(MAX_FDS - 1)
PipeIdx == 0..(MAX_PIPES - 1)
NoPipeIdx == -1

\* FdType::None and FdType::Pipe
NoFd == [pipe |-> NoPipeIdx, writable |-> FALSE]
End(i, writable) == [pipe |-> i, writable |-> writable]
FdType == [pipe : PipeIdx, writable : BOOLEAN] \cup {NoFd}

\* Option<Pipe>; "some" is FALSE for None
Pipe == [some : BOOLEAN, data : [0..(PIPE_SIZE - 1) -> Values], nread : 0..U32_MAX,
         nwrite : 0..U32_MAX, read_open : BOOLEAN, write_open : BOOLEAN,
         refcount : 0..U16_MAX]
NoPipe == [some |-> FALSE,
           data |-> [k \in 0..(PIPE_SIZE - 1) |-> CHOOSE v \in Values : TRUE],
           nread |-> 0, nwrite |-> 0, read_open |-> FALSE, write_open |-> FALSE,
           refcount |-> 0]
NewPipe == [NoPipe EXCEPT !.some = TRUE, !.read_open = TRUE, !.write_open = TRUE,
                          !.refcount = 2]

VARIABLES
  pipes,       \* PIPES
  fd_types,    \* fd_types of every process
  pipe_count,  \* pipe_count of every process
  state,       \* its scheduling state
  wake,        \* the pipe end it is blocked on (WakeReason), NoFd otherwise
  got,         \* what the last read that found data returned
  unheard      \* history: the ends closed by Drop since the last keyboard_wake

vars == <<pipes, fd_types, pipe_count, state, wake, got, unheard>>

Init ==
  /\ pipes = [i \in PipeIdx |-> NoPipe]
  /\ fd_types = [p \in Procs |-> [fd \in Fds |-> NoFd]]
  /\ pipe_count = [p \in Procs |-> 0]
  /\ state = [p \in Procs |-> IF p = Root THEN "Live" ELSE "Empty"]
  /\ wake = [p \in Procs |-> NoFd]
  /\ got = <<>>
  /\ unheard = {}

-----------------------------------------------------------------------------

FreeFds(p) == {fd \in Fds : fd_types[p][fd] = NoFd}
Lowest(S) == CHOOSE x \in S : \A y \in S : x <= y
On(f, S, i) == {fd \in S : f[fd].pipe = i}

\* AtomicU16 fetch_add, n times.
Retain(pipe, n) == [pipe EXCEPT !.refcount = (@ + n) % (U16_MAX + 1)]

\* Faulty variants, used only to see that the properties can fail, are named
\* <definition>_<fault>.
Release_LeavesEnds(ps, f, S) ==
  [i \in PipeIdx |->
     LET n == Cardinality(On(f, S, i))
         q == ps[i]
     IN IF n = 0 \/ ~q.some THEN q
        ELSE IF q.refcount <= n THEN NoPipe
        ELSE [q EXCEPT !.refcount = @ - n]]

\* pipe_close and the refcount decrement, for descriptors S of table f: an end is
\* marked closed whether or not other descriptors still name it, and the slot is
\* freed when the count reaches 0.
Release(ps, f, S) ==
  [i \in PipeIdx |->
     LET n == Cardinality(On(f, S, i))
         q == ps[i]
     IN IF n = 0 \/ ~q.some THEN q
        ELSE IF q.refcount <= n THEN NoPipe
        ELSE [q EXCEPT !.refcount = @ - n,
                       !.read_open = @ /\ \A fd \in S : f[fd] # End(i, FALSE),
                       !.write_open = @ /\ \A fd \in S : f[fd] # End(i, TRUE)]]

\* The test at the top of sys_write's loop, on wrapping 32-bit counters.
WrappingEnd(q) == (q.nread + PIPE_SIZE) % (U32_MAX + 1)
Full(q) == q.nwrite = U32_MAX \/ q.nwrite >= WrappingEnd(q)

\* Which blocked processes keyboard_wake makes Ready, given the pipe table.
Wakes(ps, p) ==
  LET q == ps[wake[p].pipe] IN
  /\ state[p] = "Blocked"
  /\ q.some
  /\ IF wake[p].writable THEN q.nwrite < WrappingEnd(q) \/ ~q.read_open
                         ELSE q.nread < q.nwrite \/ ~q.write_open

\* The same loop inside send_signal_to_fg: it does not look at read_open.
SignalWakes(ps, p) ==
  LET q == ps[wake[p].pipe] IN
  /\ state[p] = "Blocked"
  /\ q.some
  /\ IF wake[p].writable THEN q.nwrite < WrappingEnd(q)
                         ELSE q.nread < q.nwrite \/ ~q.write_open

WakeAll(S) ==
  /\ state' = [p \in Procs |-> IF p \in S THEN "Live" ELSE state[p]]
  /\ wake' = [p \in Procs |-> IF p \in S THEN NoFd ELSE wake[p]]

keyboard_wake_Skipped(ps) == UNCHANGED <<state, wake, unheard>>
keyboard_wake(ps) == WakeAll({p \in Procs : Wakes(ps, p)}) /\ unheard' = {}

Block(p, end) ==
  /\ state' = [state EXCEPT ![p] = "Blocked"]
  /\ wake' = [wake EXCEPT ![p] = end]

-----------------------------------------------------------------------------

sys_pipe(p) ==
  LET free == {i \in PipeIdx : ~pipes[i].some}
      i == Lowest(free)
      r == Lowest(FreeFds(p))
      w == Lowest(FreeFds(p) \ {r})
  IN /\ state[p] = "Live"
     /\ pipe_count[p] < MAX_PIPES_PER_PROCESS
     /\ free # {}
     /\ Cardinality(FreeFds(p)) >= 2      \* else free_pipe undoes alloc_pipe
     /\ pipes' = [pipes EXCEPT ![i] = NewPipe]
     /\ fd_types' = [fd_types EXCEPT ![p][r] = End(i, FALSE), ![p][w] = End(i, TRUE)]
     /\ pipe_count' = [pipe_count EXCEPT ![p] = @ + 2]
     /\ UNCHANGED <<state, wake, got, unheard>>

sys_read(p, fd, count) ==
  LET end == fd_types[p][fd]
      q == pipes[end.pipe]
      avail == q.nwrite - q.nread
      n == IF count < avail THEN count ELSE avail
  IN /\ state[p] = "Live"
     /\ end # NoFd /\ ~end.writable
     /\ q.some
     /\ \/ /\ q.nread < q.nwrite
           /\ got' = [k \in 1..n |-> q.data[(q.nread + k - 1) % PIPE_SIZE]]
           /\ pipes' = [pipes EXCEPT ![end.pipe].nread = @ + n]
           /\ keyboard_wake(pipes')
        \/ /\ q.nread >= q.nwrite /\ q.write_open      \* otherwise end of file
           /\ Block(p, end)
           /\ UNCHANGED <<pipes, got, unheard>>
     /\ UNCHANGED <<fd_types, pipe_count>>

Stored_FromNread(q, s) ==
  [q EXCEPT !.nwrite = @ + Len(s),
            !.data = [j \in DOMAIN @ |->
                        IF \E k \in 1..Len(s) : (q.nread + k - 1) % PIPE_SIZE = j
                        THEN s[CHOOSE k \in 1..Len(s) : (q.nread + k - 1) % PIPE_SIZE = j]
                        ELSE q.data[j]]]

\* Store s from nwrite on.
Stored(q, s) ==
  [q EXCEPT !.nwrite = @ + Len(s),
            !.data = [j \in DOMAIN @ |->
                        IF \E k \in 1..Len(s) : (q.nwrite + k - 1) % PIPE_SIZE = j
                        THEN s[CHOOSE k \in 1..Len(s) : (q.nwrite + k - 1) % PIPE_SIZE = j]
                        ELSE q.data[j]]]

Room(q) == IF Full(q) THEN 0 ELSE WrappingEnd(q) - q.nwrite

\* As much of buf as fits is stored; a full pipe blocks the writer, or returns 0
\* when the read end is closed.
sys_write(p, fd, buf) ==
  LET end == fd_types[p][fd]
      q == pipes[end.pipe]
      k == IF Len(buf) < Room(q) THEN Len(buf) ELSE Room(q)
  IN /\ state[p] = "Live"
     /\ end # NoFd /\ end.writable
     /\ q.some
     /\ \/ /\ k > 0
           /\ pipes' = [pipes EXCEPT ![end.pipe] = Stored(q, SubSeq(buf, 1, k))]
           /\ keyboard_wake(pipes')
        \/ /\ k = 0 /\ q.read_open
           /\ Block(p, end)
           /\ UNCHANGED <<pipes, unheard>>
     /\ UNCHANGED <<fd_types, pipe_count, got>>

sys_close(p, fd) ==
  /\ state[p] = "Live"
  /\ fd_types[p][fd] # NoFd
  /\ fd_types' = [fd_types EXCEPT ![p][fd] = NoFd]
  /\ pipe_count' = [pipe_count EXCEPT ![p] = IF @ > 0 THEN @ - 1 ELSE 0]
  /\ pipes' = Release(pipes, fd_types[p], {fd})
  /\ keyboard_wake(pipes')
  /\ UNCHANGED got

\* The reference is taken before a free descriptor is looked for, and kept when
\* there is none.
sys_dup(p, fd) ==
  LET end == fd_types[p][fd] IN
  /\ state[p] = "Live"
  /\ end # NoFd
  /\ DupWhenFull \/ FreeFds(p) # {}
  /\ pipes' = [pipes EXCEPT ![end.pipe] = IF @.some THEN Retain(@, 1) ELSE @]
  /\ fd_types' = IF FreeFds(p) = {} THEN fd_types
                 ELSE [fd_types EXCEPT ![p][Lowest(FreeFds(p))] = end]
  /\ UNCHANGED <<pipe_count, state, wake, got, unheard>>

\* The target is closed before the source is retained.
sys_dup2(p, oldfd, newfd) ==
  LET end == fd_types[p][oldfd]
      closed == Release(pipes, fd_types[p], {newfd})
  IN /\ state[p] = "Live"
     /\ end # NoFd /\ oldfd # newfd
     /\ fd_types' = [fd_types EXCEPT ![p][newfd] = end]
     /\ pipes' = [closed EXCEPT ![end.pipe] = IF @.some THEN Retain(@, 1) ELSE @]
     /\ IF fd_types[p][newfd].pipe \in PipeIdx THEN keyboard_wake(pipes')
                                               ELSE UNCHANGED <<state, wake, unheard>>
     /\ UNCHANGED <<pipe_count, got>>

sys_fork_NoRetain(p, child) ==
  /\ state[p] = "Live" /\ state[child] = "Empty"
  /\ state' = [state EXCEPT ![child] = "Live"]
  /\ fd_types' = [fd_types EXCEPT ![child] = fd_types[p]]
  /\ UNCHANGED <<pipes, pipe_count, wake, got, unheard>>

\* The child inherits the descriptors, with a pipe_count of 0.
sys_fork(p, child) ==
  /\ state[p] = "Live" /\ state[child] = "Empty"
  /\ state' = [state EXCEPT ![child] = "Live"]
  /\ fd_types' = [fd_types EXCEPT ![child] = fd_types[p]]
  /\ pipe_count' = [pipe_count EXCEPT ![child] = 0]
  /\ pipes' = [i \in PipeIdx |->
                 IF pipes[i].some
                 THEN Retain(pipes[i], Cardinality(On(fd_types[p], Fds, i)))
                 ELSE pipes[i]]
  /\ UNCHANGED <<wake, got, unheard>>

\* Exit, a fault or a signal: the descriptors stay open in the Zombie.
die(p) ==
  /\ state[p] \in {"Live", "Blocked"}
  /\ state' = [state EXCEPT ![p] = "Zombie"]
  /\ UNCHANGED <<pipes, fd_types, pipe_count, wake, got, unheard>>

\* Drop for Process, when the Zombie is reaped.  Nobody is woken.
drop(p) ==
  /\ state[p] = "Zombie"
  /\ state' = [state EXCEPT ![p] = "Empty"]
  /\ wake' = [wake EXCEPT ![p] = NoFd]
  /\ pipes' = Release(pipes, fd_types[p], Fds)
  /\ fd_types' = [fd_types EXCEPT ![p] = [fd \in Fds |-> NoFd]]
  /\ unheard' = {e \in unheard \cup {fd_types[p][fd] : fd \in Fds} : e.pipe \in PipeIdx /\ pipes'[e.pipe].some}
  /\ UNCHANGED <<pipe_count, got>>

\* Console activity: the timer's keyboard_wake, or the loop of send_signal_to_fg.
ConsoleWake == keyboard_wake(pipes) /\ UNCHANGED <<pipes, fd_types, pipe_count, got>>
SignalWake ==
  /\ WakeAll({p \in Procs : SignalWakes(pipes, p)})
  /\ UNCHANGED <<pipes, fd_types, pipe_count, got, unheard>>

Next ==
  \/ \E p \in Procs : sys_pipe(p) \/ die(p) \/ drop(p)
  \/ \E p \in Procs, fd \in Fds :
       \/ \E count \in 1..MaxWrite : sys_read(p, fd, count)
       \/ \E len \in 1..MaxWrite : \E buf \in [1..len -> Values] : sys_write(p, fd, buf)
       \/ sys_close(p, fd)
       \/ sys_dup(p, fd)
       \/ \E newfd \in Fds : sys_dup2(p, fd, newfd)
  \/ \E p, child \in Procs : sys_fork(p, child)
  \/ ConsoleWake \/ SignalWake

Spec == Init /\ [][Next]_vars
-----------------------------------------------------------------------------

\* Every variable keeps its shape; the counters stay in their width.
TypeOK ==
  /\ pipes \in [PipeIdx -> Pipe]
  /\ fd_types \in [Procs -> [Fds -> FdType]]
  /\ pipe_count \in [Procs -> 0..(MAX_PIPES_PER_PROCESS + 1)]
  /\ state \in [Procs -> {"Empty", "Live", "Blocked", "Zombie"}]
  /\ wake \in [Procs -> FdType]
  /\ got \in Seq(Values)

Holders(end) == {h \in Procs \X Fds : fd_types[h[1]][h[2]] = end}
References(i) == Cardinality(Holders(End(i, FALSE)) \cup Holders(End(i, TRUE)))

\* The reference count of a pipe is the number of descriptors that name it, over
\* all processes, Zombies included; a freed pipe is named by none, so that a
\* descriptor never leads to a pipe somebody else created in the same slot.
RefcountIsExact ==
  \A i \in PipeIdx :
    IF pipes[i].some THEN pipes[i].refcount = References(i) /\ References(i) > 0
                     ELSE References(i) = 0

\* The counters of q are so large that sys_write's test wraps: it then takes an
\* empty pipe for a full one.
AtCounterLimit(q) == q.nread + PIPE_SIZE > U32_MAX

\* Nobody sleeps in a pipe call without a reason, whatever other processes did to
\* the pipe since the process blocked: a blocked reader's pipe is empty and has a
\* writer, a blocked writer's pipe holds PIPE_SIZE bytes and has a reader.  Two
\* exceptions are the code's own: an end that Drop for Process closed stays
\* unnoticed until the next keyboard_wake, and once 2^32 - PIPE_SIZE bytes were read a
\* writer sleeps at a pipe that is not full, for good.
BlockedForAReason ==
  \A p \in Procs :
    state[p] = "Blocked" =>
      LET i == wake[p].pipe
          q == pipes[i]
      IN /\ q.some
         /\ IF wake[p].writable
            THEN /\ q.nwrite - q.nread >= PIPE_SIZE \/ AtCounterLimit(q)
                 /\ q.read_open \/ End(i, FALSE) \in unheard
            ELSE /\ q.nread = q.nwrite
                 /\ q.write_open \/ End(i, TRUE) \in unheard

\* When the last descriptor of an end is gone the end is marked closed, so that
\* readers get end of file and writers do not wait for a reader.
LastCloseIsSeen ==
  \A i \in PipeIdx :
    pipes[i].some =>
      /\ Holders(End(i, TRUE)) = {} => ~pipes[i].write_open
      /\ Holders(End(i, FALSE)) = {} => ~pipes[i].read_open

\* The bytes in pipe i, oldest first.
Content(i) ==
  LET q == pipes[i] IN [k \in 1..(q.nwrite - q.nread) |-> q.data[(q.nread + k - 1) % PIPE_SIZE]]
Queues == INSTANCE PipeQueue WITH queues <- [i \in PipeIdx |-> Content(i)],
                                  Capacity <- PIPE_SIZE

\* The pipes implement the queues of PipeQueue: bytes come out in the order they
\* went in, each once, and at most PIPE_SIZE of them wait.
PipesAreQueues == Queues!Spec
=============================================================================
