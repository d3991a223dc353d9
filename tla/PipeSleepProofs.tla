--------------------------- MODULE PipeSleepProofs --------------------------
(***************************************************************************)
(* Nobody sleeps in a pipe call without a reason, for any number of        *)
(* processes, descriptors and pipes and any pipe size.  The inductive      *)
(* invariant adds to the exact counts of PipesProofs that a sleeper holds  *)
(* the end it sleeps at: its pipe can then not be freed and taken again.   *)
(***************************************************************************)
EXTENDS PipesProofs

(* Nobody sleeps without a reason *)

\* A pipe is never read past what was written.
OrderOK(ps) == \A i \in PipeIdx : ps[i].nread <= ps[i].nwrite

\* A pipe that stays keeps its counters.
NumbersKept(ps, qs) ==
  \A i \in PipeIdx : ps[i].some /\ qs[i].some => qs[i].nread = ps[i].nread /\ qs[i].nwrite = ps[i].nwrite

\* Why a process may sleep at an end with direction w of pipe q.
Reason(q, w) == q.some /\ IF w THEN Full(q) ELSE q.nread = q.nwrite

\* A blocked process holds the end it waits for, and has a reason.
Asleep(p) ==
  state[p] = "Blocked" =>
    /\ wake[p] # NoFd /\ \E fd \in Fds : fd_types[p][fd] = wake[p]
    /\ Reason(pipes[wake[p].pipe], wake[p].writable)

SleepInv == CountInv /\ OrderOK(pipes) /\ \A p \in Procs : Asleep(p)

\* Release keeps the counters of the pipes it leaves.
LEMMA ReleaseNumbers ==
  ASSUME NEW ps \in [PipeIdx -> Pipe], NEW f \in [Fds -> FdType], NEW S \in SUBSET Fds
  PROVE  /\ NumbersKept(ps, Release(ps, f, S))
         /\ OrderOK(ps) => OrderOK(Release(ps, f, S))
<1>1. ASSUME NEW i \in PipeIdx
      PROVE  \/ Release(ps, f, S)[i] = NoPipe
             \/ Release(ps, f, S)[i].nread = ps[i].nread /\ Release(ps, f, S)[i].nwrite = ps[i].nwrite
  <2>1. PICK r, n : r = Release(ps, f, S)[i] /\ ReleasedOne(ps, f, S, i, r, n)
    BY Zenon, ReleaseEffect
  <2>2. n \in Nat /\ ps[i].refcount \in Nat
    BY SMTT(30), <2>1 DEF ReleasedOne, Pipe
  <2>3. CASE n = 0 \/ ~ps[i].some
    BY Zenon, <2>1, <2>3 DEF ReleasedOne
  <2>4. CASE n > 0 /\ ps[i].some /\ ps[i].refcount <= n
    BY Zenon, <2>1, <2>4 DEF ReleasedOne
  <2>5. CASE n > 0 /\ ps[i].some /\ ps[i].refcount > n
    BY Zenon, <2>1, <2>5 DEF ReleasedOne
  <2> QED
    BY SMTT(30), <2>2, <2>3, <2>4, <2>5
<1>2. NoPipe.nread = 0 /\ NoPipe.nwrite = 0 /\ ~NoPipe.some
  BY Zenon DEF NoPipe
<1>3. NumbersKept(ps, Release(ps, f, S))
  BY Zenon, <1>1, <1>2 DEF NumbersKept
<1>4. ASSUME OrderOK(ps), NEW i \in PipeIdx
      PROVE  Release(ps, f, S)[i].nread <= Release(ps, f, S)[i].nwrite
  <2>1. ps[i].nread <= ps[i].nwrite
    BY Zenon, <1>4 DEF OrderOK
  <2>2. CASE Release(ps, f, S)[i] = NoPipe
    BY <1>2, <2>2
  <2>3. CASE Release(ps, f, S)[i].nread = ps[i].nread /\ Release(ps, f, S)[i].nwrite = ps[i].nwrite
    BY Zenon, <2>1, <2>3
  <2> QED
    BY Zenon, <1>1, <2>2, <2>3
<1> QED
  BY Zenon, <1>3, <1>4 DEF OrderOK

\* So does a Retain.
LEMMA RetainNumbers ==
  ASSUME NEW ps \in [PipeIdx -> Pipe], NEW i \in PipeIdx
  PROVE  LET qs == [ps EXCEPT ![i] = IF ps[i].some THEN Retain(ps[i], 1) ELSE ps[i]]
         IN  NumbersKept(ps, qs) /\ (OrderOK(ps) => OrderOK(qs))
<1>1. PICK q : q = IF ps[i].some THEN Retain(ps[i], 1) ELSE ps[i]
  BY Zenon
<1>2. ps[i] \in Pipe
  BY Zenon
<1>3. q.nread = ps[i].nread /\ q.nwrite = ps[i].nwrite
  BY Zenon, <1>1, <1>2, RetainEffect
<1>4. NumbersKept(ps, [ps EXCEPT ![i] = q]) /\ (OrderOK(ps) => OrderOK([ps EXCEPT ![i] = q]))
  BY Zenon, <1>3 DEF NumbersKept, OrderOK
<1> QED
  BY Zenon, <1>1, <1>4

\* A sleeper whose end is still there and whose pipe has not moved sleeps on.
LEMMA SleepsOn ==
  ASSUME SleepInv, TypeOK', CountOK(pipes', fd_types'), NumbersKept(pipes, pipes'),
         NEW p \in Procs, state[p] = "Blocked", wake'[p] = wake[p], fd_types'[p] = fd_types[p]
  PROVE  Asleep(p)'
<1>1. PICK e : e = wake[p]
  BY Zenon
<1>2. e \in FdType /\ e # NoFd /\ Reason(pipes[e.pipe], e.writable)
  BY Zenon, <1>1 DEF SleepInv, Asleep, CountInv, TypeOK
<1>3. PICK fd \in Fds : fd_types[p][fd] = e
  BY Zenon, <1>1 DEF SleepInv, Asleep
<1>4. PICK i \in PipeIdx : i = e.pipe
  BY Zenon, <1>2, Ends
<1>5. <<p, fd>> \in Named(fd_types', i)
  BY Zenon, <1>3, <1>4 DEF Named
<1>6. pipes'[i].some /\ pipes[i].some
  BY Zenon, <1>2, <1>4, <1>5 DEF CountOK, Reason
<1>7. pipes'[i].nread = pipes[i].nread /\ pipes'[i].nwrite = pipes[i].nwrite
  BY Zenon, <1>6 DEF NumbersKept
<1>8. Reason(pipes'[i], e.writable)
  BY Zenon, <1>2, <1>4, <1>6, <1>7 DEF Reason, Full, WrappingEnd
<1> QED
  BY Zenon, <1>1, <1>2, <1>3, <1>4, <1>8 DEF Asleep

\* A sleeper keyboard_wake leaves asleep has a reason in the new table.
LEMMA LeftAsleep ==
  ASSUME SleepInv, TypeOK', CountOK(pipes', fd_types'), OrderOK(pipes'), keyboard_wake(pipes'),
         NEW p \in Procs, state'[p] = "Blocked", fd_types'[p] = fd_types[p]
  PROVE  Asleep(p)'
<1>1. PICK e : e = wake[p]
  BY Zenon 
<1>2. state[p] = "Blocked" /\ ~Wakes(pipes', p) /\ wake'[p] = wake[p]
  BY Zenon DEF keyboard_wake, WakeAll
<1>3. e \in FdType /\ e # NoFd
  BY Zenon, <1>1, <1>2 DEF SleepInv, Asleep, CountInv, TypeOK
<1>4. PICK fd \in Fds : fd_types[p][fd] = e
  BY Zenon, <1>1, <1>2 DEF SleepInv, Asleep
<1>5. PICK i \in PipeIdx : i = e.pipe
  BY Zenon, <1>3, Ends
<1>6. <<p, fd>> \in Named(fd_types', i)
  BY Zenon, <1>4, <1>5 DEF Named
<1>7. pipes'[i].some /\ pipes'[i] \in Pipe /\ pipes'[i].nread <= pipes'[i].nwrite
  BY Zenon, <1>6 DEF CountOK, TypeOK, OrderOK
<1>8. ~(IF e.writable THEN pipes'[i].nwrite < WrappingEnd(pipes'[i]) \/ ~pipes'[i].read_open
                      ELSE pipes'[i].nread < pipes'[i].nwrite \/ ~pipes'[i].write_open)
  BY Zenon, <1>1, <1>2, <1>5, <1>7 DEF Wakes
<1>9. Reason(pipes'[i], e.writable)
  <2>1. PICK q \in Pipe : q = pipes'[i]
    BY Zenon, <1>7
  <2>2. WrappingEnd(q) \in Nat /\ q.nread \in Nat /\ q.nwrite \in Nat
    BY RoomBound, PipesAssumption DEF Pipe
  <2>3. CASE e.writable
    <3>1. ~(q.nwrite < WrappingEnd(q))
      BY Zenon, <1>8, <2>1, <2>3
    <3> QED
      BY SMTT(30), <1>7, <2>1, <2>2, <2>3, <3>1 DEF Reason, Full
  <2>4. CASE ~e.writable
    <3>1. ~(q.nread < q.nwrite) /\ q.nread <= q.nwrite
      BY Zenon, <1>7, <1>8, <2>1, <2>4
    <3>2. q.nread = q.nwrite
      BY <2>2, <3>1
    <3> QED
      BY Zenon, <1>7, <2>1, <2>4, <3>2 DEF Reason
  <2> QED
    BY Zenon, <2>3, <2>4
<1> QED
  BY Zenon, <1>1, <1>2, <1>3, <1>4, <1>5, <1>9 DEF Asleep

\* What a step that wakes whom keyboard_wake wakes has to show.
LEMMA WakingStep ==
  ASSUME SleepInv, TypeOK', CountOK(pipes', fd_types'), OrderOK(pipes'), keyboard_wake(pipes'),
         NEW p, state[p] # "Blocked", \A o \in Procs : o # p => fd_types'[o] = fd_types[o]
  PROVE  \A o \in Procs : Asleep(o)'
<1> SUFFICES ASSUME NEW o \in Procs, state'[o] = "Blocked"
             PROVE  Asleep(o)'
  BY Zenon DEF Asleep
<1>1. state[o] = "Blocked"
  BY Zenon DEF keyboard_wake, WakeAll
<1>2. fd_types'[o] = fd_types[o]
  BY Zenon, <1>1
<1> QED
  BY Zenon, <1>2, LeftAsleep

\* What a step that wakes nobody has to show.
LEMMA QuietStep ==
  ASSUME SleepInv, TypeOK', CountOK(pipes', fd_types'), NumbersKept(pipes, pipes'),
         \A o \in Procs : state'[o] = "Blocked" =>
           state[o] = "Blocked" /\ wake'[o] = wake[o] /\ fd_types'[o] = fd_types[o]
  PROVE  \A o \in Procs : Asleep(o)'
<1> SUFFICES ASSUME NEW o \in Procs, state'[o] = "Blocked"
             PROVE  Asleep(o)'
  BY Zenon DEF Asleep
<1>1. state[o] = "Blocked" /\ wake'[o] = wake[o] /\ fd_types'[o] = fd_types[o]
  BY Zenon
<1> QED
  BY Zenon, <1>1, SleepsOn

\* A process that blocks has a reason, and the others keep theirs.
LEMMA BlockStep ==
  ASSUME SleepInv, TypeOK', CountOK(pipes', fd_types'), NEW p \in Procs, NEW fd \in Fds,
         NEW e, e = fd_types[p][fd], e # NoFd, Block(p, e), UNCHANGED <<pipes, fd_types>>,
         Reason(pipes[e.pipe], e.writable)
  PROVE  \A o \in Procs : Asleep(o)'
<1>1. /\ state'[p] = "Blocked" /\ wake'[p] = e
      /\ \A o \in Procs : o # p => state'[o] = state[o] /\ wake'[o] = wake[o]
  BY Zenon DEF Block, SleepInv, CountInv, TypeOK
<1>2. Asleep(p)'
  BY Zenon, <1>1 DEF Asleep
<1>3. NumbersKept(pipes, pipes')
  BY Zenon DEF NumbersKept
<1>4. ASSUME NEW o \in Procs, o # p
      PROVE  Asleep(o)'
  <2>1. CASE state[o] = "Blocked"
    BY Zenon, <1>1, <1>3, <1>4, <2>1, SleepsOn
  <2>2. CASE state[o] # "Blocked"
    BY Zenon, <1>1, <1>4, <2>2 DEF Asleep
  <2> QED
    BY Zenon, <2>1, <2>2
<1> QED
  BY Zenon, <1>2, <1>4

\* Every step leaves each sleeper awake or with a reason.
LEMMA SleepStep ==
  ASSUME SleepInv, TypeOK', CountOK(pipes', fd_types'), [Next]_vars
  PROVE  OrderOK(pipes') /\ \A o \in Procs : Asleep(o)'
<1> DEFINE Goal == OrderOK(pipes') /\ \A o \in Procs : Asleep(o)'
<1>a. TypeOK /\ CountInv /\ OrderOK(pipes) /\ pipes \in [PipeIdx -> Pipe] /\ fd_types \in Table
  BY Zenon DEF SleepInv, CountInv, TypeOK, Table
<1>b. ASSUME UNCHANGED pipes
      PROVE  OrderOK(pipes') /\ NumbersKept(pipes, pipes')
  BY Zenon, <1>a, <1>b DEF OrderOK, NumbersKept
<1>0. CASE UNCHANGED vars
  <2>1. \A o \in Procs : Asleep(o)'
    BY Zenon, <1>0, <1>b, QuietStep DEF vars
  <2> QED
    BY Zenon, <1>0, <1>b, <2>1 DEF vars
<1>1. ASSUME NEW p \in Procs, sys_pipe(p)
      PROVE  Goal
  <2>1. PICK i \in PipeIdx : ~pipes[i].some /\ pipes' = [pipes EXCEPT ![i] = NewPipe]
    BY Zenon, <1>1, <1>a, PipeEffect
  <2>2. NumbersKept(pipes, pipes')
    BY Zenon, <1>a, <2>1 DEF NumbersKept
  <2>3. OrderOK(pipes')
    BY <1>a, <2>1, Fresh DEF OrderOK
  <2>4. state[p] = "Live" /\ UNCHANGED <<state, wake>> /\ \A o \in Procs : o # p => fd_types'[o] = fd_types[o]
    BY Zenon, <1>1, <1>a DEF sys_pipe, Table
  <2> QED
    BY Zenon, <2>2, <2>3, <2>4, QuietStep
<1>2. ASSUME NEW p \in Procs, die(p)
      PROVE  Goal
  <2>1. UNCHANGED <<pipes, fd_types, wake>> /\ \A o \in Procs : state'[o] = "Blocked" => state[o] = "Blocked"
    BY Zenon, <1>2, <1>a DEF die, TypeOK
  <2> QED
    BY Zenon, <1>b, <2>1, QuietStep
<1>3. ASSUME NEW p \in Procs, drop(p)
      PROVE  Goal
  <2>1. fd_types[p] \in [Fds -> FdType] /\ Fds \in SUBSET Fds
    BY Zenon, <1>a DEF Table
  <2>2. NumbersKept(pipes, pipes') /\ OrderOK(pipes')
    BY Zenon, <1>3, <1>a, <2>1, ReleaseNumbers DEF drop
  <2>3. \A o \in Procs : state'[o] = "Blocked" =>
           state[o] = "Blocked" /\ wake'[o] = wake[o] /\ fd_types'[o] = fd_types[o]
    BY Zenon, <1>3, <1>a DEF drop, TypeOK
  <2> QED
    BY Zenon, <2>2, <2>3, QuietStep
<1>4. ASSUME NEW p \in Procs, NEW fd \in Fds, NEW count \in 1..MaxWrite, sys_read(p, fd, count)
      PROVE  Goal
  <2> DEFINE e == fd_types[p][fd]
  <2> DEFINE q == pipes[e.pipe]
  <2>1. e.pipe \in PipeIdx /\ e = End(e.pipe, FALSE) /\ q.some /\ state[p] = "Live" /\ UNCHANGED fd_types
    BY Zenon, <1>4, <1>a, ReadEffect
  <2>2. CASE /\ \E r \in Pipe : /\ pipes' = [pipes EXCEPT ![e.pipe] = r]
                               /\ r.some /\ r.refcount = q.refcount /\ r.nwrite = q.nwrite
                               /\ r.read_open = q.read_open /\ r.write_open = q.write_open
                               /\ q.nread < r.nread /\ r.nread <= q.nwrite
             /\ keyboard_wake(pipes')
    <3>1. PICK r \in Pipe : pipes' = [pipes EXCEPT ![e.pipe] = r] /\ r.nwrite = q.nwrite /\ r.nread <= q.nwrite
      BY Zenon, <2>2
    <3>2. OrderOK(pipes')
      BY Zenon, <1>a, <2>1, <3>1 DEF OrderOK
    <3> QED
      BY Zenon, <2>1, <2>2, <3>2, WakingStep
  <2>3. CASE q.nread >= q.nwrite /\ Block(p, e) /\ UNCHANGED pipes
    <3>1. q \in Pipe /\ q.nread <= q.nwrite
      BY Zenon, <1>a, <2>1 DEF OrderOK
    <3>2. q.nread = q.nwrite
      <4>1. q.nread \in Int /\ q.nwrite \in Int
        BY Zenon, <3>1, PipeFields
      <4>2. q.nread >= q.nwrite
        BY Zenon, <2>3
      <4>3. \A a, b \in Int : a <= b /\ a >= b => a = b
        OBVIOUS
      <4> QED
        BY Zenon, <3>1, <4>1, <4>2, <4>3
    <3>3. ~e.writable /\ e # NoFd
      <4>1. PICK i \in PipeIdx : i = e.pipe
        BY Zenon, <2>1
      <4>2. End(i, FALSE).writable = FALSE /\ End(i, FALSE) # NoFd
        BY Zenon, Ends
      <4>3. e = End(i, FALSE)
        BY Zenon, <2>1, <4>1
      <4> QED
        BY Zenon, <4>2, <4>3
    <3>4. Reason(q, e.writable)
      BY Zenon, <2>1, <3>2, <3>3 DEF Reason
    <3> QED
      BY Zenon, <1>b, <2>1, <2>3, <3>3, <3>4, BlockStep
  <2> QED
    BY Zenon, <1>4, <1>a, <2>2, <2>3, ReadEffect
<1>5. ASSUME NEW p \in Procs, NEW fd \in Fds, NEW len \in 1..MaxWrite, NEW buf \in [1..len -> Values],
             sys_write(p, fd, buf)
      PROVE  Goal
  <2> DEFINE e == fd_types[p][fd]
  <2> DEFINE q == pipes[e.pipe]
  <2>1. e.pipe \in PipeIdx /\ e = End(e.pipe, TRUE) /\ q.some /\ state[p] = "Live" /\ UNCHANGED fd_types
    BY Zenon, <1>5, <1>a, WriteEffect
  <2>2. CASE /\ \E r \in Pipe : /\ pipes' = [pipes EXCEPT ![e.pipe] = r]
                               /\ r.some /\ r.refcount = q.refcount /\ r.nread = q.nread
                               /\ r.read_open = q.read_open /\ r.write_open = q.write_open
                               /\ q.nwrite < r.nwrite
             /\ keyboard_wake(pipes')
    <3>1. PICK r \in Pipe : pipes' = [pipes EXCEPT ![e.pipe] = r] /\ r.nread = q.nread /\ q.nwrite < r.nwrite
      BY Zenon, <2>2
    <3>2. q \in Pipe /\ q.nread <= q.nwrite
      BY Zenon, <1>a, <2>1 DEF OrderOK
    <3>3. r.nread <= r.nwrite
      <4>1. \A a, b, c \in Int : a <= b /\ b < c => a <= c
        OBVIOUS
      <4> QED
        BY Zenon, <3>1, <3>2, <4>1, PipeFields
    <3>4. OrderOK(pipes')
      BY Zenon, <1>a, <2>1, <3>1, <3>3 DEF OrderOK
    <3> QED
      BY Zenon, <2>1, <2>2, <3>4, WakingStep
  <2>3. CASE Full(q) /\ Block(p, e) /\ UNCHANGED pipes
    <3>1. e.writable /\ e # NoFd
      BY Zenon, <2>1, Ends
    <3>2. Reason(q, e.writable)
      BY Zenon, <2>1, <2>3, <3>1 DEF Reason
    <3> QED
      BY Zenon, <1>b, <2>1, <2>3, <3>1, <3>2, BlockStep
  <2> QED
    BY Zenon, <1>5, <1>a, <2>2, <2>3, WriteEffect
<1>6. ASSUME NEW p \in Procs, NEW fd \in Fds, sys_close(p, fd)
      PROVE  Goal
  <2>1. fd_types[p] \in [Fds -> FdType] /\ {fd} \in SUBSET Fds
    BY Zenon, <1>a DEF Table
  <2>2. OrderOK(pipes')
    BY Zenon, <1>6, <1>a, <2>1, ReleaseNumbers DEF sys_close
  <2>3. state[p] # "Blocked" /\ keyboard_wake(pipes') /\ \A o \in Procs : o # p => fd_types'[o] = fd_types[o]
    BY Zenon, <1>6, <1>a DEF sys_close, Table
  <2> QED
    BY Zenon, <2>2, <2>3, WakingStep
<1>7. ASSUME NEW p \in Procs, NEW fd \in Fds, sys_dup(p, fd)
      PROVE  Goal
  <2>1. PICK i \in PipeIdx : i = fd_types[p][fd].pipe
    <3>1. fd_types[p][fd] \in FdType
      BY Zenon, <1>a DEF TypeOK
    <3>2. fd_types[p][fd] # NoFd
      BY Zenon, <1>7 DEF sys_dup
    <3>3. fd_types[p][fd].pipe \in PipeIdx
      BY Zenon, <3>1, <3>2, Ends
    <3> QED
      BY Zenon, <3>3
  <2>2. pipes' = [pipes EXCEPT ![i] = IF pipes[i].some THEN Retain(pipes[i], 1) ELSE pipes[i]]
    BY Zenon, <1>7, <1>a, <2>1 DEF sys_dup
  <2>3. NumbersKept(pipes, pipes') /\ OrderOK(pipes')
    BY Zenon, <1>a, <2>2, RetainNumbers
  <2>4. state[p] = "Live" /\ UNCHANGED <<state, wake>> /\ \A o \in Procs : o # p => fd_types'[o] = fd_types[o]
    BY Zenon, <1>7, <1>a DEF sys_dup, Table
  <2> QED
    BY Zenon, <2>3, <2>4, QuietStep
<1>8. ASSUME NEW p \in Procs, NEW fd \in Fds, NEW newfd \in Fds, sys_dup2(p, fd, newfd)
      PROVE  Goal
  <2>1. PICK i \in PipeIdx : i = fd_types[p][fd].pipe
    <3>1. fd_types[p][fd] \in FdType
      BY Zenon, <1>a DEF TypeOK
    <3>2. fd_types[p][fd] # NoFd
      BY Zenon, <1>8 DEF sys_dup2
    <3>3. fd_types[p][fd].pipe \in PipeIdx
      BY Zenon, <3>1, <3>2, Ends
    <3> QED
      BY Zenon, <3>3
  <2>2. PICK closed : closed = Release(pipes, fd_types[p], {newfd})
    BY Zenon
  <2>3. closed \in [PipeIdx -> Pipe] /\ NumbersKept(pipes, closed) /\ OrderOK(closed)
    <3>1. {newfd} \in SUBSET Fds /\ fd_types[p] \in [Fds -> FdType]
      BY Zenon, <1>a DEF Table
    <3> QED
      BY Zenon, <1>a, <2>2, <3>1, ReleaseType, ReleaseNumbers
  <2>4. pipes' = [closed EXCEPT ![i] = IF closed[i].some THEN Retain(closed[i], 1) ELSE closed[i]]
    BY Zenon, <1>8, <2>1, <2>2, <2>3 DEF sys_dup2
  <2>5. NumbersKept(closed, pipes') /\ OrderOK(pipes')
    BY Zenon, <2>3, <2>4, RetainNumbers
  <2>6. NumbersKept(pipes, pipes')
    <3>1. \A j \in PipeIdx : pipes'[j].some => closed[j].some
      BY Zenon, <2>3, <2>4, RetainEffect
    <3> QED
      BY Zenon, <2>3, <2>5, <3>1 DEF NumbersKept
  <2>7. state[p] = "Live" /\ \A o \in Procs : o # p => fd_types'[o] = fd_types[o]
    BY Zenon, <1>8, <1>a DEF sys_dup2, Table
  <2>8. CASE keyboard_wake(pipes')
    BY Zenon, <2>5, <2>7, <2>8, WakingStep
  <2>9. CASE UNCHANGED <<state, wake>>
    BY Zenon, <2>5, <2>6, <2>7, <2>9, QuietStep
  <2> QED
    BY Zenon, <1>8, <2>8, <2>9 DEF sys_dup2
<1>9. ASSUME NEW p \in Procs, NEW child \in Procs, sys_fork(p, child)
      PROVE  Goal
  <2>1. ASSUME NEW i \in PipeIdx
        PROVE  pipes'[i].nread = pipes[i].nread /\ pipes'[i].nwrite = pipes[i].nwrite
    <3>1. Cardinality(On(fd_types[p], Fds, i)) \in Nat /\ pipes[i] \in Pipe
      BY Zenon, <1>a, OnFinite
    <3>2. pipes'[i] = pipes[i] \/ pipes'[i] = Retain(pipes[i], Cardinality(On(fd_types[p], Fds, i)))
      BY Zenon, <1>9 DEF sys_fork
    <3> QED
      BY SMTT(30), <3>1, <3>2, RetainEffect
  <2>2. NumbersKept(pipes, pipes') /\ OrderOK(pipes')
    BY Zenon, <1>a, <2>1 DEF NumbersKept, OrderOK
  <2>3. \A o \in Procs : state'[o] = "Blocked" =>
           state[o] = "Blocked" /\ wake'[o] = wake[o] /\ fd_types'[o] = fd_types[o]
    BY Zenon, <1>9, <1>a DEF sys_fork, TypeOK
  <2> QED
    BY Zenon, <2>2, <2>3, QuietStep
<1>10. CASE ConsoleWake
  <2>1. UNCHANGED <<pipes, fd_types>> /\ keyboard_wake(pipes')
    BY Zenon, <1>10 DEF ConsoleWake
  <2>2. \A o \in Procs : state'[o] = "Blocked" => Asleep(o)'
    BY Zenon, <1>b, <2>1, LeftAsleep
  <2> QED
    BY Zenon, <1>b, <2>1, <2>2 DEF Asleep
<1>11. CASE SignalWake
  <2>1. UNCHANGED <<pipes, fd_types>> /\ \A o \in Procs : state'[o] = "Blocked" => state[o] = "Blocked" /\ wake'[o] = wake[o]
    BY Zenon, <1>11 DEF SignalWake, WakeAll
  <2> QED
    BY Zenon, <1>b, <2>1, QuietStep
<1> QED
  BY Zenon, <1>0, <1>1, <1>2, <1>3, <1>4, <1>5, <1>6, <1>7, <1>8, <1>9, <1>10, <1>11 DEF Next

-----------------------------------------------------------------------------
(* Nor without somebody at the other end, but for a Drop nobody was told of *)

\* The other end is open, or its closing by Drop is not known yet.
Faced(q, i, w, u) == Open(q, w) \/ End(i, w) \in u

Heard(p) ==
  state[p] = "Blocked" => Faced(pipes[wake[p].pipe], wake[p].pipe, ~wake[p].writable, unheard)

HeardInv == SleepInv /\ \A p \in Procs : Heard(p)

\* No end of a pipe that stays is closed unnoticed.
Noticed(ps, qs, u, v) ==
  \A i \in PipeIdx, w \in BOOLEAN :
    ps[i].some /\ qs[i].some /\ Faced(ps[i], i, w, u) => Faced(qs[i], i, w, v)

\* Release closes the ends it is given, and no other.
LEMMA ReleasedNamed ==
  ASSUME NEW ps \in [PipeIdx -> Pipe], NEW f \in [Fds -> FdType], NEW S \in SUBSET Fds,
         NEW i \in PipeIdx, NEW w \in BOOLEAN, Open(ps[i], w), Release(ps, f, S)[i].some,
         ~Open(Release(ps, f, S)[i], w)
  PROVE  \E fd \in S : f[fd] = End(i, w)
<1>1. PICK r, n : r = Release(ps, f, S)[i] /\ ReleasedOne(ps, f, S, i, r, n)
  BY Zenon, ReleaseEffect
<1>2. n \in Nat /\ ps[i].refcount \in Nat /\ ps[i].some
  BY SMTT(30), <1>1 DEF ReleasedOne, Pipe, Open
<1>3. CASE n = 0
  BY Zenon, <1>1, <1>3 DEF ReleasedOne
<1>4. CASE n > 0 /\ ps[i].refcount <= n
  BY Zenon, <1>1, <1>2, <1>4, Fresh DEF ReleasedOne
<1>5. CASE n > 0 /\ ps[i].refcount > n
  <2>1. /\ r.some
        /\ r.read_open <=> ps[i].read_open /\ \A fd \in S : f[fd] # End(i, FALSE)
        /\ r.write_open <=> ps[i].write_open /\ \A fd \in S : f[fd] # End(i, TRUE)
    BY Zenon, <1>1, <1>2, <1>5 DEF ReleasedOne
  <2>2. CASE w = TRUE
    BY Zenon, <1>1, <2>1, <2>2 DEF Open
  <2>3. CASE w = FALSE
    BY Zenon, <1>1, <2>1, <2>3 DEF Open
  <2> QED
    BY Zenon, <2>2, <2>3
<1> QED
  BY SMTT(30), <1>2, <1>3, <1>4, <1>5

\* A sleeper's pipe is there as long as the sleeper holds its end.
LEMMA SleeperPipe ==
  ASSUME SleepInv, CountOK(pipes', fd_types'), NEW o \in Procs, state[o] = "Blocked",
         fd_types'[o] = fd_types[o]
  PROVE  /\ wake[o].pipe \in PipeIdx /\ wake[o].writable \in BOOLEAN
         /\ pipes[wake[o].pipe].some /\ pipes'[wake[o].pipe].some
<1>1. PICK e : e = wake[o]
  BY Zenon
<1>2. e \in FdType /\ e # NoFd /\ pipes[e.pipe].some
  BY Zenon, <1>1 DEF SleepInv, Asleep, CountInv, TypeOK, Reason
<1>3. PICK fd \in Fds : fd_types[o][fd] = e
  BY Zenon, <1>1 DEF SleepInv, Asleep
<1>4. e.pipe \in PipeIdx /\ e.writable \in BOOLEAN
  BY Zenon, <1>2, Ends
<1>5. <<o, fd>> \in Named(fd_types', e.pipe)
  BY Zenon, <1>3 DEF Named
<1>6. pipes'[e.pipe].some
  BY Zenon, <1>4, <1>5 DEF CountOK
<1> QED
  BY Zenon, <1>1, <1>2, <1>4, <1>6

\* What a step that wakes nobody has to show.
LEMMA QuietHeard ==
  ASSUME HeardInv, CountOK(pipes', fd_types'), Noticed(pipes, pipes', unheard, unheard'),
         \A o \in Procs : state'[o] = "Blocked" =>
           state[o] = "Blocked" /\ wake'[o] = wake[o] /\ fd_types'[o] = fd_types[o]
  PROVE  \A o \in Procs : Heard(o)'
<1> SUFFICES ASSUME NEW o \in Procs, state'[o] = "Blocked"
             PROVE  Heard(o)'
  BY Zenon DEF Heard
<1>1. state[o] = "Blocked" /\ wake'[o] = wake[o] /\ fd_types'[o] = fd_types[o]
  BY Zenon
<1>2. PICK i, w : i = wake[o].pipe /\ w = ~wake[o].writable
  BY Zenon
<1>3. i \in PipeIdx /\ w \in BOOLEAN /\ pipes[i].some /\ pipes'[i].some
  BY Zenon, <1>1, <1>2, SleeperPipe DEF HeardInv
<1>4. Faced(pipes[i], i, w, unheard)
  BY Zenon, <1>1, <1>2 DEF HeardInv, Heard
<1>5. Faced(pipes'[i], i, w, unheard')
  BY Zenon, <1>3, <1>4 DEF Noticed
<1> QED
  BY Zenon, <1>1, <1>2, <1>5 DEF Heard

\* keyboard_wake leaves nobody asleep whose other end is closed.
LEMMA WakingHeard ==
  ASSUME SleepInv, CountOK(pipes', fd_types'), keyboard_wake(pipes'),
         NEW o \in Procs, state'[o] = "Blocked", fd_types'[o] = fd_types[o]
  PROVE  Heard(o)'
<1>1. state[o] = "Blocked" /\ ~Wakes(pipes', o) /\ wake'[o] = wake[o]
  BY Zenon DEF keyboard_wake, WakeAll
<1>2. PICK i, w : i = wake[o].pipe /\ w = ~wake[o].writable
  BY Zenon
<1>3. pipes'[i].some /\ wake[o].writable \in BOOLEAN
  BY Zenon, <1>1, <1>2, SleeperPipe
<1>4. ~(IF wake[o].writable THEN pipes'[i].nwrite < WrappingEnd(pipes'[i]) \/ ~pipes'[i].read_open
                            ELSE pipes'[i].nread < pipes'[i].nwrite \/ ~pipes'[i].write_open)
  BY Zenon, <1>1, <1>2, <1>3 DEF Wakes
<1>5. Open(pipes'[i], w)
  BY Zenon, <1>2, <1>3, <1>4 DEF Open
<1> QED
  BY Zenon, <1>1, <1>2, <1>5 DEF Heard, Faced

\* What a step that calls keyboard_wake has to show.
LEMMA WakingHeards ==
  ASSUME SleepInv, CountOK(pipes', fd_types'), keyboard_wake(pipes'),
         NEW p, state[p] # "Blocked", \A o \in Procs : o # p => fd_types'[o] = fd_types[o]
  PROVE  \A o \in Procs : Heard(o)'
<1> SUFFICES ASSUME NEW o \in Procs, state'[o] = "Blocked"
             PROVE  Heard(o)'
  BY Zenon DEF Heard
<1>1. state[o] = "Blocked"
  BY Zenon DEF keyboard_wake, WakeAll
<1> QED
  BY Zenon, <1>1, WakingHeard

\* A process blocks only while the other end is open.
LEMMA BlockHeard ==
  ASSUME HeardInv, CountOK(pipes', fd_types'), NEW p \in Procs, NEW e, Block(p, e),
         UNCHANGED <<pipes, fd_types, unheard>>, Open(pipes[e.pipe], ~e.writable)
  PROVE  \A o \in Procs : Heard(o)'
<1>1. /\ state'[p] = "Blocked" /\ wake'[p] = e
      /\ \A o \in Procs : o # p => state'[o] = state[o] /\ wake'[o] = wake[o]
  BY Zenon DEF Block, HeardInv, SleepInv, CountInv, TypeOK
<1>2. Heard(p)'
  BY Zenon, <1>1 DEF Heard, Faced
<1>3. ASSUME NEW o \in Procs, o # p
      PROVE  Heard(o)'
  BY Zenon, <1>1, <1>3 DEF HeardInv, Heard
<1> QED
  BY Zenon, <1>2, <1>3

\* A pipe that only gains references keeps its ends.
LEMMA RetainNoticed ==
  ASSUME NEW ps \in [PipeIdx -> Pipe], NEW i \in PipeIdx, NEW u
  PROVE  Noticed(ps, [ps EXCEPT ![i] = IF ps[i].some THEN Retain(ps[i], 1) ELSE ps[i]], u, u)
<1>1. PICK q : q = IF ps[i].some THEN Retain(ps[i], 1) ELSE ps[i]
  BY Zenon
<1>2. ps[i] \in Pipe
  BY Zenon
<1>3. q.some = ps[i].some /\ q.read_open = ps[i].read_open /\ q.write_open = ps[i].write_open
  BY <1>1, <1>2, RetainEffect
<1>4. Noticed(ps, [ps EXCEPT ![i] = q], u, u)
  BY Zenon, <1>3 DEF Noticed, Faced, Open
<1> QED
  BY Zenon, <1>1, <1>4

\* Every step leaves each sleeper awake, or facing an end that is open or was closed
\* by a Drop since the last keyboard_wake.
LEMMA HeardStep ==
  ASSUME HeardInv, CountOK(pipes', fd_types'), [Next]_vars
  PROVE  \A o \in Procs : Heard(o)'
<1> DEFINE Goal == \A o \in Procs : Heard(o)'
<1>a. SleepInv /\ TypeOK /\ pipes \in [PipeIdx -> Pipe] /\ fd_types \in Table
  BY Zenon DEF HeardInv, SleepInv, CountInv, TypeOK, Table
<1>b. ASSUME UNCHANGED <<pipes, unheard>>
      PROVE  Noticed(pipes, pipes', unheard, unheard')
  BY Zenon, <1>b DEF Noticed
<1>0. CASE UNCHANGED vars
  BY Zenon, <1>0, <1>b, QuietHeard DEF vars
<1>1. ASSUME NEW p \in Procs, sys_pipe(p)
      PROVE  Goal
  <2>1. PICK i \in PipeIdx : ~pipes[i].some /\ pipes' = [pipes EXCEPT ![i] = NewPipe]
    BY Zenon, <1>1, <1>a, PipeEffect
  <2>2. state[p] = "Live" /\ UNCHANGED <<state, wake, unheard>> /\ \A o \in Procs : o # p => fd_types'[o] = fd_types[o]
    BY Zenon, <1>1, <1>a DEF sys_pipe, Table
  <2>3. Noticed(pipes, pipes', unheard, unheard')
    BY Zenon, <1>a, <2>1, <2>2 DEF Noticed
  <2> QED
    BY Zenon, <2>2, <2>3, QuietHeard
<1>2. ASSUME NEW p \in Procs, die(p)
      PROVE  Goal
  <2>1. UNCHANGED <<pipes, fd_types, wake, unheard>> /\ \A o \in Procs : state'[o] = "Blocked" => state[o] = "Blocked"
    BY Zenon, <1>2, <1>a DEF die, TypeOK
  <2> QED
    BY Zenon, <1>b, <2>1, QuietHeard
<1>3. ASSUME NEW p \in Procs, drop(p)
      PROVE  Goal
  <2>1. fd_types[p] \in [Fds -> FdType] /\ Fds \in SUBSET Fds
    BY Zenon, <1>a DEF Table
  <2>2. ASSUME NEW i \in PipeIdx, NEW w \in BOOLEAN, pipes[i].some, pipes'[i].some,
               Faced(pipes[i], i, w, unheard)
        PROVE  Faced(pipes'[i], i, w, unheard')
    <3>1. CASE Open(pipes'[i], w)
      BY Zenon, <3>1 DEF Faced
    <3>2. CASE ~Open(pipes'[i], w)
      <4>1. End(i, w) \in unheard \/ \E fd \in Fds : fd_types[p][fd] = End(i, w)
        <5>1. CASE End(i, w) \in unheard
          BY Zenon, <5>1
        <5>2. CASE Open(pipes[i], w)
          <6>1. PICK f \in [Fds -> FdType], S \in SUBSET Fds : f = fd_types[p] /\ S = Fds
            BY Zenon, <2>1
          <6>2. pipes' = Release(pipes, f, S)
            BY Zenon, <1>3, <6>1 DEF drop
          <6>3. Release(pipes, f, S)[i].some /\ ~Open(Release(pipes, f, S)[i], w)
            BY Zenon, <2>2, <3>2, <6>2
          <6>4. \E fd \in S : f[fd] = End(i, w)
            BY Zenon, <1>a, <5>2, <6>3, ReleasedNamed
          <6> QED
            BY Zenon, <6>1, <6>4
        <5> QED
          BY Zenon, <2>2, <5>1, <5>2 DEF Faced
      <4>2. End(i, w).pipe = i
        BY Zenon, Ends
      <4>3. End(i, w) \in unheard \cup {fd_types[p][fd] : fd \in Fds}
        BY Zenon, <4>1
      <4>4. End(i, w) \in unheard'
        BY Zenon, <1>3, <2>2, <4>2, <4>3 DEF drop
      <4> QED
        BY Zenon, <4>4 DEF Faced
    <3> QED
      BY Zenon, <3>1, <3>2
  <2>3. Noticed(pipes, pipes', unheard, unheard')
    BY Zenon, <2>2 DEF Noticed
  <2>4. \A o \in Procs : state'[o] = "Blocked" =>
           state[o] = "Blocked" /\ wake'[o] = wake[o] /\ fd_types'[o] = fd_types[o]
    BY Zenon, <1>3, <1>a DEF drop, TypeOK
  <2> QED
    BY Zenon, <2>3, <2>4, QuietHeard
<1>4. ASSUME NEW p \in Procs, NEW fd \in Fds, NEW count \in 1..MaxWrite, sys_read(p, fd, count)
      PROVE  Goal
  <2>1. PICK e : e = fd_types[p][fd]
    BY Zenon
  <2>2. state[p] # "Blocked" /\ UNCHANGED fd_types /\ ~e.writable /\ pipes[e.pipe].some
    BY Zenon, <1>4, <2>1 DEF sys_read
  <2>3. CASE keyboard_wake(pipes')
    BY Zenon, <1>a, <2>2, <2>3, WakingHeards
  <2>4. CASE pipes[e.pipe].write_open /\ Block(p, e) /\ UNCHANGED <<pipes, unheard>>
    <3>1. Open(pipes[e.pipe], ~e.writable)
      BY Zenon, <2>2, <2>4 DEF Open
    <3> QED
      BY Zenon, <2>2, <2>4, <3>1, BlockHeard
  <2> QED
    BY Zenon, <1>4, <2>1, <2>3, <2>4 DEF sys_read
<1>5. ASSUME NEW p \in Procs, NEW fd \in Fds, NEW len \in 1..MaxWrite, NEW buf \in [1..len -> Values],
             sys_write(p, fd, buf)
      PROVE  Goal
  <2>1. PICK e : e = fd_types[p][fd]
    BY Zenon
  <2>2. state[p] # "Blocked" /\ UNCHANGED fd_types /\ e.writable /\ pipes[e.pipe].some
    BY Zenon, <1>5, <2>1 DEF sys_write
  <2>3. CASE keyboard_wake(pipes')
    BY Zenon, <1>a, <2>2, <2>3, WakingHeards
  <2>4. CASE pipes[e.pipe].read_open /\ Block(p, e) /\ UNCHANGED <<pipes, unheard>>
    <3>1. Open(pipes[e.pipe], ~e.writable)
      BY Zenon, <2>2, <2>4 DEF Open
    <3> QED
      BY Zenon, <2>2, <2>4, <3>1, BlockHeard
  <2> QED
    BY Zenon, <1>5, <2>1, <2>3, <2>4 DEF sys_write
<1>6. ASSUME NEW p \in Procs, NEW fd \in Fds, sys_close(p, fd)
      PROVE  Goal
  <2>1. state[p] # "Blocked" /\ keyboard_wake(pipes') /\ \A o \in Procs : o # p => fd_types'[o] = fd_types[o]
    BY Zenon, <1>6, <1>a DEF sys_close, Table
  <2> QED
    BY Zenon, <1>a, <2>1, WakingHeards
<1>7. ASSUME NEW p \in Procs, NEW fd \in Fds, sys_dup(p, fd)
      PROVE  Goal
  <2>1. PICK i \in PipeIdx : i = fd_types[p][fd].pipe
    <3>1. fd_types[p][fd] \in FdType /\ fd_types[p][fd] # NoFd
      BY Zenon, <1>7, <1>a DEF TypeOK, sys_dup
    <3>2. fd_types[p][fd].pipe \in PipeIdx
      BY Zenon, <3>1, Ends
    <3> QED
      BY Zenon, <3>2
  <2>2. pipes' = [pipes EXCEPT ![i] = IF pipes[i].some THEN Retain(pipes[i], 1) ELSE pipes[i]]
    BY Zenon, <1>7, <1>a, <2>1 DEF sys_dup
  <2>3. Noticed(pipes, pipes', unheard, unheard)
    BY Zenon, <1>a, <2>2, RetainNoticed
  <2>4. state[p] = "Live" /\ UNCHANGED <<state, wake, unheard>> /\ \A o \in Procs : o # p => fd_types'[o] = fd_types[o]
    BY Zenon, <1>7, <1>a DEF sys_dup, Table
  <2> QED
    BY Zenon, <2>3, <2>4, QuietHeard
<1>8. ASSUME NEW p \in Procs, NEW fd \in Fds, NEW newfd \in Fds, sys_dup2(p, fd, newfd)
      PROVE  Goal
  <2>1. PICK i \in PipeIdx : i = fd_types[p][fd].pipe
    <3>1. fd_types[p][fd] \in FdType /\ fd_types[p][fd] # NoFd
      BY Zenon, <1>8, <1>a DEF TypeOK, sys_dup2
    <3>2. fd_types[p][fd].pipe \in PipeIdx
      BY Zenon, <3>1, Ends
    <3> QED
      BY Zenon, <3>2
  <2>2. state[p] = "Live" /\ \A o \in Procs : o # p => fd_types'[o] = fd_types[o]
    BY Zenon, <1>8, <1>a DEF sys_dup2, Table
  <2>3. CASE keyboard_wake(pipes')
    BY Zenon, <1>a, <2>2, <2>3, WakingHeards
  <2>4. CASE fd_types[p][newfd].pipe \notin PipeIdx /\ UNCHANGED <<state, wake, unheard>>
    <3>1. PICK closed : closed = Release(pipes, fd_types[p], {newfd})
      BY Zenon
    <3>2. {newfd} \in SUBSET Fds /\ fd_types[p] \in [Fds -> FdType]
      BY Zenon, <1>a DEF Table
    <3>3. closed \in [PipeIdx -> Pipe]
      BY Zenon, <1>a, <3>1, <3>2, ReleaseType
    <3>4. ASSUME NEW j \in PipeIdx
          PROVE  closed[j] = pipes[j]
      <4>1. On(fd_types[p], {newfd}, j) = {}
        BY Zenon, <2>4 DEF On
      <4>2. PICK n : ReleasedOne(pipes, fd_types[p], {newfd}, j, closed[j], n)
        BY Zenon, <1>a, <3>1, <3>2, ReleaseEffect
      <4> QED
        BY Zenon, <4>1, <4>2 DEF ReleasedOne
    <3>5. closed = pipes
      BY <1>a, <3>3, <3>4
    <3>6. pipes' = [pipes EXCEPT ![i] = IF pipes[i].some THEN Retain(pipes[i], 1) ELSE pipes[i]]
      BY Zenon, <1>8, <1>a, <2>1, <3>1, <3>5 DEF sys_dup2
    <3>7. Noticed(pipes, pipes', unheard, unheard)
      BY Zenon, <1>a, <3>6, RetainNoticed
    <3> QED
      BY Zenon, <2>2, <2>4, <3>7, QuietHeard
  <2> QED
    BY Zenon, <1>8, <2>3, <2>4 DEF sys_dup2
<1>9. ASSUME NEW p \in Procs, NEW child \in Procs, sys_fork(p, child)
      PROVE  Goal
  <2>1. ASSUME NEW i \in PipeIdx
        PROVE  /\ pipes'[i].some = pipes[i].some /\ pipes'[i].read_open = pipes[i].read_open
               /\ pipes'[i].write_open = pipes[i].write_open
    <3>1. Cardinality(On(fd_types[p], Fds, i)) \in Nat /\ pipes[i] \in Pipe
      BY Zenon, <1>a, OnFinite
    <3>2. pipes'[i] = pipes[i] \/ pipes'[i] = Retain(pipes[i], Cardinality(On(fd_types[p], Fds, i)))
      BY Zenon, <1>9 DEF sys_fork
    <3> QED
      BY SMTT(30), <3>1, <3>2, RetainEffect
  <2>2. UNCHANGED unheard
    BY Zenon, <1>9 DEF sys_fork
  <2>3. Noticed(pipes, pipes', unheard, unheard')
    BY Zenon, <2>1, <2>2 DEF Noticed, Faced, Open
  <2>4. \A o \in Procs : state'[o] = "Blocked" =>
           state[o] = "Blocked" /\ wake'[o] = wake[o] /\ fd_types'[o] = fd_types[o]
    BY Zenon, <1>9, <1>a DEF sys_fork, TypeOK
  <2> QED
    BY Zenon, <2>3, <2>4, QuietHeard
<1>10. CASE ConsoleWake
  <2>1. UNCHANGED <<pipes, fd_types>> /\ keyboard_wake(pipes')
    BY Zenon, <1>10 DEF ConsoleWake
  <2>2. \A o \in Procs : state'[o] = "Blocked" => Heard(o)'
    BY Zenon, <1>a, <2>1, WakingHeard
  <2> QED
    BY Zenon, <2>2 DEF Heard
<1>11. CASE SignalWake
  <2>1. /\ UNCHANGED <<pipes, fd_types, unheard>>
        /\ \A o \in Procs : state'[o] = "Blocked" => state[o] = "Blocked" /\ wake'[o] = wake[o]
    BY Zenon, <1>11 DEF SignalWake, WakeAll
  <2> QED
    BY Zenon, <1>b, <2>1, QuietHeard
<1> QED
  BY Zenon, <1>0, <1>1, <1>2, <1>3, <1>4, <1>5, <1>6, <1>7, <1>8, <1>9, <1>10, <1>11 DEF Next

\* Below the counter limit a pipe that counts as full holds PIPE_SIZE bytes.
LEMMA FullHolds ==
  ASSUME NEW q \in Pipe, Full(q), ~AtCounterLimit(q)
  PROVE  q.nwrite - q.nread >= PIPE_SIZE
<1>1. q.nread \in Nat /\ q.nwrite \in Nat /\ PIPE_SIZE \in Nat /\ U32_MAX \in Nat
  BY PipesAssumption DEF Pipe
<1>2. q.nread + PIPE_SIZE \in Nat /\ U32_MAX + 1 \in Nat \ {0} /\ q.nread + PIPE_SIZE < U32_MAX + 1
  BY <1>1 DEF AtCounterLimit
<1>3. WrappingEnd(q) = q.nread + PIPE_SIZE
  BY Zenon, <1>2, Wraps DEF WrappingEnd
<1>4. q.nwrite >= q.nread + PIPE_SIZE
  BY <1>1, <1>2, <1>3 DEF Full
<1> QED
  BY <1>1, <1>4

\* Nobody sleeps in a pipe call without a reason, whatever other processes do to the
\* pipe meanwhile: every call that could end the reason wakes the sleeper, the
\* closing of the other end included; only a Drop wakes nobody, and only at the
\* counter limit is a writer asleep at a pipe with room (BlockedForAReason).
THEOREM NobodySleepsInVain == ASSUME ~DupWhenFull PROVE Spec => []BlockedForAReason
<1>1. Init => HeardInv
  <2> SUFFICES ASSUME Init PROVE HeardInv
    BY Zenon
  <2>1. CountInv
    BY Zenon, CountInit
  <2>2. OrderOK(pipes)
    BY DEF Init, NoPipe, OrderOK
  <2>3. \A p \in Procs : Asleep(p) /\ Heard(p)
    BY Zenon DEF Init, Asleep, Heard
  <2> QED
    BY Zenon, <2>1, <2>2, <2>3 DEF HeardInv, SleepInv
<1>2. HeardInv /\ [Next]_vars => HeardInv'
  <2> SUFFICES ASSUME HeardInv, [Next]_vars PROVE HeardInv'
    BY Zenon
  <2>1. TypeOK' /\ Unused' /\ CountOK(pipes', fd_types')
    BY Zenon, TypeStep, UnusedStep, CountStep DEF HeardInv, SleepInv, CountInv
  <2>2. OrderOK(pipes') /\ \A o \in Procs : Asleep(o)'
    BY Zenon, <2>1, SleepStep DEF HeardInv
  <2>3. \A o \in Procs : Heard(o)'
    BY Zenon, <2>1, HeardStep
  <2> QED
    BY Zenon, <2>1, <2>2, <2>3 DEF HeardInv, SleepInv, CountInv
<1>3. HeardInv => BlockedForAReason
  <2> SUFFICES ASSUME HeardInv, NEW p \in Procs, state[p] = "Blocked"
               PROVE  LET i == wake[p].pipe
                          q == pipes[i]
                      IN /\ q.some
                         /\ IF wake[p].writable
                            THEN /\ q.nwrite - q.nread >= PIPE_SIZE \/ AtCounterLimit(q)
                                 /\ q.read_open \/ End(i, FALSE) \in unheard
                            ELSE /\ q.nread = q.nwrite
                                 /\ q.write_open \/ End(i, TRUE) \in unheard
    BY Zenon DEF BlockedForAReason
  <2>1. PICK e : e = wake[p]
    BY Zenon
  <2>2. e \in FdType /\ e # NoFd /\ Reason(pipes[e.pipe], e.writable)
    BY Zenon, <2>1 DEF HeardInv, SleepInv, Asleep, CountInv, TypeOK
  <2>3. PICK i \in PipeIdx : i = e.pipe /\ e.writable \in BOOLEAN
    BY Zenon, <2>2, Ends
  <2>4. PICK q \in Pipe : q = pipes[i]
    BY Zenon DEF HeardInv, SleepInv, CountInv, TypeOK
  <2>5. Faced(q, i, ~e.writable, unheard)
    BY Zenon, <2>1, <2>3, <2>4 DEF HeardInv, Heard
  <2>6. CASE e.writable
    <3>1. q.some /\ Full(q)
      BY Zenon, <2>2, <2>3, <2>4, <2>6 DEF Reason
    <3>2. q.nwrite - q.nread >= PIPE_SIZE \/ AtCounterLimit(q)
      BY Zenon, <3>1, FullHolds
    <3>3. (~e.writable) = FALSE
      BY Zenon, <2>3, <2>6
    <3>4. q.read_open \/ End(i, FALSE) \in unheard
      BY Zenon, <2>5, <3>3 DEF Faced, Open
    <3> QED
      BY Zenon, <2>1, <2>3, <2>4, <2>6, <3>1, <3>2, <3>4
  <2>7. CASE ~e.writable
    <3>1. q.some /\ q.nread = q.nwrite
      BY Zenon, <2>2, <2>3, <2>4, <2>7 DEF Reason
    <3>2. (~e.writable) = TRUE
      BY Zenon, <2>3, <2>7
    <3>3. q.write_open \/ End(i, TRUE) \in unheard
      BY Zenon, <2>5, <3>2 DEF Faced, Open
    <3> QED
      BY Zenon, <2>1, <2>3, <2>4, <2>7, <3>1, <3>3
  <2> QED
    BY Zenon, <2>6, <2>7
<1> QED
  BY <1>1, <1>2, <1>3, PTL DEF Spec
=============================================================================
