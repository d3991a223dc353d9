----------------------------- MODULE PipesProofs ----------------------------
(***************************************************************************)
(* Proofs about Pipes, for any number of processes, descriptors and pipes  *)
(* and any pipe size: type correctness, the reference counts, what a close *)
(* leaves to be seen, and that the ring buffers implement the queues of    *)
(* PipeQueue.                                                              *)
(***************************************************************************)
EXTENDS Pipes, FiniteSetTheorems, SequenceTheorems, TLAPS

\* The first free descriptor or pipe slot is one of the free ones.
LEMMA LowestProperty ==
  ASSUME NEW S, S \subseteq Nat, S # {}
  PROVE  Lowest(S) \in S
<1> DEFINE Below == {ss \in Nat \X Nat : ss[1] < ss[2]}
<1>1. IsWellFoundedOn(Below, Nat)
  BY Zenon, NatLessThanWellFounded DEF OpToRel
<1>2. PICK x \in S : \A y \in S : ~(<<y, x>> \in Below)
  BY Zenon, <1>1, WFMin
<1>3. ASSUME NEW y \in S
      PROVE  x <= y
  <2>1. <<y, x>> \in Nat \X Nat /\ <<y, x>>[1] = y /\ <<y, x>>[2] = x
    BY Zenon
  <2>2. ~(y < x)
    BY Zenon, <1>2, <2>1
  <2> QED
    BY <2>2
<1> QED
  BY Zenon, <1>2, <1>3 DEF Lowest

\* Unsigned arithmetic of width b wraps into 0..b-1.
LEMMA Wraps ==
  ASSUME NEW a \in Nat, NEW b \in Nat \ {0}
  PROVE  a % b \in 0..(b - 1) /\ (a < b => a % b = a)
  OBVIOUS

\* Descriptors and pipe slots are naturals, finitely many; -1 is neither.
LEMMA Numbers ==
  /\ Fds \subseteq Nat /\ PipeIdx \subseteq Nat /\ NoPipeIdx \notin PipeIdx
  /\ IsFiniteSet(Fds) /\ Cardinality(Fds) \in Nat
<1>1. IsFiniteSet(Fds)
  BY FS_Interval, PipesAssumption DEF Fds
<1> QED
  BY <1>1, FS_CardinalityType, PipesAssumption DEF Fds, PipeIdx, NoPipeIdx

\* An end names a pipe; no two ends are the same and none is NoFd.
LEMMA Ends ==
  /\ NoFd \in FdType /\ NoFd.pipe \notin PipeIdx
  /\ \A i \in PipeIdx, w \in BOOLEAN : End(i, w) \in FdType /\ End(i, w) # NoFd
                                      /\ End(i, w).pipe = i /\ End(i, w).writable = w
  /\ \A e \in FdType : e # NoFd => /\ e.pipe \in PipeIdx /\ e.writable \in BOOLEAN
                                    /\ e = End(e.pipe, e.writable)
  BY Numbers DEF NoFd, FdType, End

\* The pipe table's empty slot and a new pipe.
LEMMA Fresh ==
  /\ NoPipe \in Pipe /\ ~NoPipe.some
  /\ NewPipe \in Pipe /\ NewPipe.some /\ NewPipe.refcount = 2
  /\ NewPipe.nread = 0 /\ NewPipe.nwrite = 0
<1>1. 0 \in 0..U32_MAX /\ 0 \in 0..U16_MAX /\ 2 \in 0..U16_MAX
  BY PipesAssumption
<1>2. [k \in 0..(PIPE_SIZE - 1) |-> CHOOSE v \in Values : TRUE] \in [0..(PIPE_SIZE - 1) -> Values]
  BY Zenon, PipesAssumption
<1>3. NoPipe \in Pipe /\ ~NoPipe.some /\ NoPipe.nread = 0 /\ NoPipe.nwrite = 0
  BY Zenon, <1>1, <1>2 DEF NoPipe, Pipe
<1>4. NewPipe \in Pipe
  BY Zenon, <1>1, <1>2, <1>3 DEF NewPipe, NoPipe, Pipe
<1>5. NewPipe.some /\ NewPipe.refcount = 2 /\ NewPipe.nread = 0 /\ NewPipe.nwrite = 0
  BY Zenon, <1>3 DEF NewPipe, NoPipe
<1> QED
  BY Zenon, <1>3, <1>4, <1>5

\* fetch_add changes the count only, and keeps it in its width.
LEMMA RetainEffect ==
  ASSUME NEW q \in Pipe, NEW n \in Nat
  PROVE  /\ Retain(q, n) \in Pipe
         /\ Retain(q, n).some = q.some /\ Retain(q, n).nread = q.nread /\ Retain(q, n).nwrite = q.nwrite
         /\ Retain(q, n).read_open = q.read_open /\ Retain(q, n).write_open = q.write_open
         /\ Retain(q, n).data = q.data
         /\ q.refcount + n <= U16_MAX => Retain(q, n).refcount = q.refcount + n
<1> DEFINE c == (q.refcount + n) % (U16_MAX + 1)
<1>1. U16_MAX \in Nat /\ q.refcount \in 0..U16_MAX
  BY Zenon, PipesAssumption DEF Pipe
<1>2. c \in 0..U16_MAX /\ (q.refcount + n <= U16_MAX => c = q.refcount + n)
  <2>1. q.refcount + n \in Nat /\ U16_MAX + 1 \in Nat \ {0}
    BY <1>1
  <2>2. c \in 0..((U16_MAX + 1) - 1) /\ (q.refcount + n < U16_MAX + 1 => c = q.refcount + n)
    BY Zenon, <2>1, Wraps
  <2> QED
    BY <1>1, <2>1, <2>2
<1>4. Retain(q, n) = [q EXCEPT !.refcount = c]
  BY Zenon DEF Retain
<1> HIDE DEF c
<1> QED
  BY Zenon, <1>2, <1>4 DEF Pipe

\* The descriptors of a process that name a pipe can be counted.
LEMMA OnFinite ==
  ASSUME NEW f, NEW S \in SUBSET Fds, NEW i
  PROVE  /\ IsFiniteSet(On(f, S, i)) /\ Cardinality(On(f, S, i)) \in Nat
         /\ Cardinality(On(f, S, i)) = 0 <=> On(f, S, i) = {}
<1>1. On(f, S, i) \in SUBSET Fds
  BY Zenon DEF On
<1>2. IsFiniteSet(On(f, S, i))
  BY Zenon, <1>1, Numbers, FS_Subset
<1> QED
  BY Zenon, <1>2, FS_CardinalityType, FS_EmptySet

\* What Release does to pipe i: nothing when no released descriptor names it;
\* otherwise it frees it, or takes the descriptors off its count and marks the
\* ends closed that were among them.
ReleasedOne(ps, f, S, i, r, n) ==
  /\ n \in Nat
  /\ n = 0 <=> On(f, S, i) = {}
  /\ n = 0 => r = ps[i]
  /\ ~ps[i].some => r = ps[i]
  /\ n > 0 /\ ps[i].some /\ ps[i].refcount <= n => r = NoPipe
  /\ n > 0 /\ ps[i].some /\ ps[i].refcount > n =>
       /\ r.some /\ r.refcount = ps[i].refcount - n /\ r.nread = ps[i].nread /\ r.nwrite = ps[i].nwrite
       /\ r.read_open <=> ps[i].read_open /\ \A fd \in S : f[fd] # End(i, FALSE)
       /\ r.write_open <=> ps[i].write_open /\ \A fd \in S : f[fd] # End(i, TRUE)

\* Release does that, and leaves a pipe table.
LEMMA ReleaseEffect ==
  ASSUME NEW ps \in [PipeIdx -> Pipe], NEW f \in [Fds -> FdType], NEW S \in SUBSET Fds,
         NEW i \in PipeIdx
  PROVE  /\ ReleasedOne(ps, f, S, i, Release(ps, f, S)[i], Cardinality(On(f, S, i)))
         /\ Release(ps, f, S) \in [PipeIdx -> Pipe]
<1> DEFINE N(j) == Cardinality(On(f, S, j))
<1> DEFINE RO(j) == \A fd \in S : f[fd] # End(j, FALSE)
<1> DEFINE WO(j) == \A fd \in S : f[fd] # End(j, TRUE)
<1> DEFINE kept(j) == [ps[j] EXCEPT !.refcount = @ - N(j), !.read_open = @ /\ RO(j), !.write_open = @ /\ WO(j)]
<1>1. ASSUME NEW j \in PipeIdx
      PROVE  N(j) \in Nat /\ (N(j) = 0 <=> On(f, S, j) = {})
  BY Zenon, OnFinite
<1>2. Release(ps, f, S) = [j \in PipeIdx |-> IF N(j) = 0 \/ ~ps[j].some THEN ps[j]
                                            ELSE IF ps[j].refcount <= N(j) THEN NoPipe ELSE kept(j)]
  BY Zenon DEF Release
<1>3. ASSUME NEW j \in PipeIdx, N(j) \in Nat, ps[j].refcount > N(j)
      PROVE  /\ kept(j) \in Pipe /\ kept(j).some = ps[j].some /\ kept(j).refcount = ps[j].refcount - N(j)
             /\ kept(j).nread = ps[j].nread /\ kept(j).nwrite = ps[j].nwrite /\ kept(j).data = ps[j].data
             /\ kept(j).read_open = (ps[j].read_open /\ RO(j))
             /\ kept(j).write_open = (ps[j].write_open /\ WO(j))
  <2> DEFINE n == N(j)
  <2> DEFINE ro == ps[j].read_open /\ RO(j)
  <2> DEFINE wo == ps[j].write_open /\ WO(j)
  <2> DEFINE q == ps[j]
  <2>1. ro \in BOOLEAN /\ wo \in BOOLEAN
    BY Zenon
  <2>2. kept(j) = [q EXCEPT !.refcount = q.refcount - n, !.read_open = ro, !.write_open = wo]
    BY Zenon
  <2>3. q \in Pipe /\ n \in Nat /\ q.refcount > n /\ U16_MAX \in Nat
    BY Zenon, <1>3, PipesAssumption
  <2> HIDE DEF n, ro, wo, q, kept, N, RO, WO
  <2>4. q.refcount - n \in 0..U16_MAX
    BY SMTT(30), <2>3 DEF Pipe
  <2>5. /\ kept(j) \in Pipe /\ kept(j).some = q.some /\ kept(j).refcount = q.refcount - n
        /\ kept(j).nread = q.nread /\ kept(j).nwrite = q.nwrite /\ kept(j).data = q.data
        /\ kept(j).read_open = ro /\ kept(j).write_open = wo
    BY Zenon, <2>1, <2>2, <2>3, <2>4 DEF Pipe
  <2> QED
    BY Zenon, <2>5 DEF n, ro, wo, q
<1> HIDE DEF N, kept, RO, WO
<1>4. Release(ps, f, S) \in [PipeIdx -> Pipe]
  <2>1. \A j \in PipeIdx : ps[j].refcount \in Nat
    BY PipesAssumption DEF Pipe
  <2> QED
    BY <1>1, <1>2, <1>3, <2>1, Fresh
<1>5. /\ N(i) \in Nat /\ (N(i) = 0 <=> On(f, S, i) = {})
      /\ ps[i] \in Pipe /\ ps[i].refcount \in Nat
  BY <1>1, PipesAssumption DEF Pipe
<1>6. N(i) > 0 /\ ps[i].some /\ ps[i].refcount > N(i) => Release(ps, f, S)[i] = kept(i)
  BY <1>2, <1>5
<1>7. /\ N(i) = 0 \/ ~ps[i].some => Release(ps, f, S)[i] = ps[i]
      /\ N(i) > 0 /\ ps[i].some /\ ps[i].refcount <= N(i) => Release(ps, f, S)[i] = NoPipe
  BY <1>2, <1>5
<1> DEFINE r == Release(ps, f, S)[i]
<1>8. ASSUME N(i) > 0, ps[i].some, ps[i].refcount > N(i)
      PROVE  /\ r.some /\ r.refcount = ps[i].refcount - N(i) /\ r.nread = ps[i].nread /\ r.nwrite = ps[i].nwrite
             /\ r.read_open <=> ps[i].read_open /\ \A fd \in S : f[fd] # End(i, FALSE)
             /\ r.write_open <=> ps[i].write_open /\ \A fd \in S : f[fd] # End(i, TRUE)
  <2>1. /\ r = kept(i) /\ kept(i).some = ps[i].some /\ kept(i).refcount = ps[i].refcount - N(i)
        /\ kept(i).nread = ps[i].nread /\ kept(i).nwrite = ps[i].nwrite
        /\ kept(i).read_open = (ps[i].read_open /\ RO(i))
        /\ kept(i).write_open = (ps[i].write_open /\ WO(i))
    BY Zenon, <1>3, <1>5, <1>6, <1>8
  <2> HIDE DEF r
  <2> QED
    BY <1>8, <2>1, Zenon DEF RO, WO
<1> HIDE DEF r
<1>9. ReleasedOne(ps, f, S, i, r, N(i))
  <2>1. N(i) = 0 => r = ps[i]
    BY Zenon, <1>7 DEF r
  <2>2. ~ps[i].some => r = ps[i]
    BY Zenon, <1>7 DEF r
  <2>3. N(i) > 0 /\ ps[i].some /\ ps[i].refcount <= N(i) => r = NoPipe
    BY Zenon, <1>7 DEF r
  <2> QED
    BY <1>5, <1>8, <2>1, <2>2, <2>3, Zenon DEF ReleasedOne
<1> QED
  BY Zenon, <1>4, <1>9 DEF N, r

\* The table that Release leaves has the type of a pipe table.
LEMMA ReleaseType ==
  ASSUME NEW ps \in [PipeIdx -> Pipe], NEW f \in [Fds -> FdType], NEW S \in SUBSET Fds
  PROVE  Release(ps, f, S) \in [PipeIdx -> Pipe]
<1>1. CASE PipeIdx = {}
  BY Zenon, <1>1 DEF Release
<1>2. CASE PipeIdx # {}
  <2>1. PICK i : i \in PipeIdx
    BY Zenon, <1>2
  <2> QED
    BY Zenon, <2>1, ReleaseEffect
<1> QED
  BY Zenon, <1>1, <1>2

\* The room sys_write finds never takes nwrite past its width.
LEMMA RoomBound ==
  ASSUME NEW q \in Pipe
  PROVE  /\ WrappingEnd(q) \in 0..U32_MAX
         /\ Room(q) \in Nat /\ q.nwrite + Room(q) <= U32_MAX
         /\ Room(q) = 0 <=> Full(q)
<1>1. q.nread \in Nat /\ q.nwrite \in 0..U32_MAX /\ U32_MAX \in Nat /\ PIPE_SIZE \in Nat
  BY PipesAssumption DEF Pipe
<1>2. WrappingEnd(q) \in 0..U32_MAX
  <2>1. q.nread + PIPE_SIZE \in Nat /\ U32_MAX + 1 \in Nat \ {0}
    BY <1>1
  <2>2. (q.nread + PIPE_SIZE) % (U32_MAX + 1) \in 0..((U32_MAX + 1) - 1)
    BY Zenon, <2>1, Wraps
  <2> QED
    BY <1>1, <2>2 DEF WrappingEnd
<1> QED
  BY <1>1, <1>2 DEF Room, Full

\* Storing bytes moves nwrite and leaves everything else but the data alone.
LEMMA StoredEffect ==
  ASSUME NEW q \in Pipe, NEW s \in Seq(Values), q.nwrite + Len(s) <= U32_MAX
  PROVE  /\ Stored(q, s) \in Pipe /\ Stored(q, s).nwrite = q.nwrite + Len(s)
         /\ Stored(q, s).some = q.some /\ Stored(q, s).nread = q.nread
         /\ Stored(q, s).read_open = q.read_open /\ Stored(q, s).write_open = q.write_open
         /\ Stored(q, s).refcount = q.refcount
<1> DEFINE At(k, j) == (q.nwrite + k - 1) % PIPE_SIZE = j
<1> DEFINE d == [j \in DOMAIN q.data |-> IF \E k \in 1..Len(s) : At(k, j)
                                        THEN s[CHOOSE k \in 1..Len(s) : At(k, j)] ELSE q.data[j]]
<1>1. q.data \in [0..(PIPE_SIZE - 1) -> Values] /\ q.nwrite \in 0..U32_MAX /\ U32_MAX \in Nat
  BY Zenon, PipesAssumption DEF Pipe
<1>2. ASSUME NEW j, \E k \in 1..Len(s) : At(k, j)
      PROVE  s[CHOOSE k \in 1..Len(s) : At(k, j)] \in Values
  <2>1. (CHOOSE k \in 1..Len(s) : At(k, j)) \in 1..Len(s)
    BY <1>2, Zenon
  <2> HIDE DEF At
  <2> QED
    BY <2>1
<1>3. Stored(q, s) = [q EXCEPT !.nwrite = q.nwrite + Len(s), !.data = d]
  BY Zenon DEF Stored
<1> HIDE DEF At
<1>4. d \in [0..(PIPE_SIZE - 1) -> Values]
  BY Zenon, <1>1, <1>2
<1>5. q.nwrite + Len(s) \in 0..U32_MAX
  BY <1>1
<1> HIDE DEF d
<1> QED
  BY Zenon, <1>3, <1>4, <1>5 DEF Pipe

\* Waking any set of processes keeps the types.
LEMMA WakeAllType ==
  ASSUME TypeOK, NEW S, WakeAll(S)
  PROVE  /\ state' \in [Procs -> {"Empty", "Live", "Blocked", "Zombie"}]
         /\ wake' \in [Procs -> FdType]
  BY Zenon, Ends DEF WakeAll, TypeOK

\* The fields of a pipe
LEMMA PipeFields ==
  ASSUME NEW q \in Pipe
  PROVE  /\ q.data \in [0..(PIPE_SIZE - 1) -> Values]
         /\ q.nread \in 0..U32_MAX /\ q.nread \in Nat /\ q.nread \in Int
         /\ q.nwrite \in 0..U32_MAX /\ q.nwrite \in Nat /\ q.nwrite \in Int
<1>1. \A n \in 0..U32_MAX : n \in Nat /\ n \in Int
  BY PipesAssumption
<1>2. q.data \in [0..(PIPE_SIZE - 1) -> Values] /\ q.nread \in 0..U32_MAX /\ q.nwrite \in 0..U32_MAX
  BY Zenon DEF Pipe
<1> QED
  BY Zenon, <1>1, <1>2

\* The number of bytes a write stores: all of them, or those there is room for
LEMMA Lesser ==
  ASSUME NEW a \in Nat \ {0}, NEW b \in Nat, NEW w \in Nat, NEW u \in Nat, w + b <= u,
         NEW k, k = IF a < b THEN a ELSE b
  PROVE  k \in Nat /\ k <= a /\ w + k <= u /\ (k = 0 => b = 0)
  OBVIOUS

\* A read that finds data takes at least one byte and at most what is there,
\* and wakes whom keyboard_wake wakes; one that finds none blocks.
LEMMA ReadEffect ==
  ASSUME TypeOK, NEW p \in Procs, NEW fd \in Fds, NEW count \in 1..MaxWrite, sys_read(p, fd, count)
  PROVE  LET e == fd_types[p][fd]
             q == pipes[e.pipe]
         IN /\ e.pipe \in PipeIdx /\ e = End(e.pipe, FALSE) /\ q.some
            /\ state[p] = "Live" /\ UNCHANGED <<fd_types, pipe_count>>
            /\ \/ /\ \E r \in Pipe : /\ pipes' = [pipes EXCEPT ![e.pipe] = r]
                                     /\ r.some /\ r.refcount = q.refcount /\ r.nwrite = q.nwrite
                                     /\ r.read_open = q.read_open /\ r.write_open = q.write_open
                                     /\ q.nread < r.nread /\ r.nread <= q.nwrite
                  /\ keyboard_wake(pipes') /\ got' \in Seq(Values)
               \/ /\ q.nread >= q.nwrite /\ q.write_open /\ Block(p, e)
                  /\ UNCHANGED <<pipes, got>>
<1> DEFINE Goal(e, q) ==
      /\ e.pipe \in PipeIdx /\ e = End(e.pipe, FALSE) /\ q.some
      /\ state[p] = "Live" /\ UNCHANGED <<fd_types, pipe_count>>
      /\ \/ /\ \E r \in Pipe : /\ pipes' = [pipes EXCEPT ![e.pipe] = r]
                               /\ r.some /\ r.refcount = q.refcount /\ r.nwrite = q.nwrite
                               /\ r.read_open = q.read_open /\ r.write_open = q.write_open
                               /\ q.nread < r.nread /\ r.nread <= q.nwrite
            /\ keyboard_wake(pipes') /\ got' \in Seq(Values)
         \/ /\ q.nread >= q.nwrite /\ q.write_open /\ Block(p, e)
            /\ UNCHANGED <<pipes, got>>
<1> SUFFICES ASSUME NEW e, e = fd_types[p][fd], NEW q, q = pipes[e.pipe]
             PROVE  Goal(e, q)
  BY Zenon
<1>0. PICK n : n = IF count < q.nwrite - q.nread THEN count ELSE q.nwrite - q.nread
  BY Zenon 
<1>1. e \in FdType /\ e # NoFd /\ ~e.writable /\ q.some /\ state[p] = "Live" /\ UNCHANGED <<fd_types, pipe_count>>
  BY Zenon DEF sys_read, TypeOK
<1>2. e.pipe \in PipeIdx /\ e = End(e.pipe, FALSE)
  <2>1. e.writable = FALSE
    BY Zenon, <1>1, Ends
  <2> QED
    BY Zenon, <1>1, <2>1, Ends
<1>3. q \in Pipe /\ q.nread \in Nat /\ q.nwrite \in 0..U32_MAX /\ count \in Nat \ {0} /\ U32_MAX \in Nat
      /\ PIPE_SIZE \in Nat \ {0} /\ q.data \in [0..(PIPE_SIZE - 1) -> Values]
  <2>1. q \in Pipe
    BY Zenon, <1>2 DEF TypeOK
  <2>2. count \in Nat \ {0} /\ U32_MAX \in Nat /\ PIPE_SIZE \in Nat \ {0}
    BY PipesAssumption
  <2> QED
    BY Zenon, <2>1, <2>2, PipeFields
<1>4. CASE /\ q.nread < q.nwrite
           /\ got' = [k \in 1..n |-> q.data[(q.nread + k - 1) % PIPE_SIZE]]
           /\ pipes' = [pipes EXCEPT ![e.pipe].nread = @ + n]
           /\ keyboard_wake(pipes')
  <2>1. n \in Nat /\ n > 0 /\ q.nread + n <= q.nwrite
    <3> DEFINE nr == q.nread
    <3> DEFINE nw == q.nwrite
    <3>1. nr < nw
      BY <1>4, Zenon
    <3>2. nr \in Nat /\ nw \in Nat /\ count \in Nat \ {0}
      BY Zenon, <1>3, PipeFields
    <3>3. n = IF count < nw - nr THEN count ELSE nw - nr
      BY Zenon, <1>0
    <3> HIDE DEF nr, nw
    <3>4. n \in Nat /\ n > 0 /\ nr + n <= nw
      BY <3>1, <3>2, <3>3
    <3> QED
      BY Zenon, <3>4 DEF nr, nw
  <2> DEFINE m == q.nread + n
  <2> DEFINE r == [q EXCEPT !.nread = m]
  <2>2. pipes' = [pipes EXCEPT ![e.pipe] = r]
    BY <1>4, <1>2, Zenon DEF TypeOK
  <2>3. m \in 0..U32_MAX /\ q.nread < m /\ m <= q.nwrite
    <3> DEFINE nr == q.nread
    <3> DEFINE nw == q.nwrite
    <3>2. nr \in Nat /\ nw \in 0..U32_MAX /\ U32_MAX \in Nat /\ n > 0 /\ nr + n <= nw /\ n \in Nat
      BY Zenon, <1>3, <2>1
    <3> HIDE DEF nr, nw
    <3>3. nr + n \in 0..U32_MAX /\ nr < nr + n
      BY <3>2
    <3> QED
      BY Zenon, <3>2, <3>3 DEF nr, nw
  <2>4. \A k \in 1..n : q.data[(q.nread + k - 1) % PIPE_SIZE] \in Values
    <3>1. SUFFICES ASSUME NEW k \in 1..n PROVE q.data[(q.nread + k - 1) % PIPE_SIZE] \in Values
      BY Zenon
    <3>2. q.nread + k - 1 \in Nat
      <4>1. PICK a : a = q.nread
        BY Zenon
      <4>2. a \in Nat
        BY Zenon, <1>3, <4>1
      <4>3. a + k - 1 \in Nat
        BY <2>1, <4>2
      <4> QED
        BY Zenon, <4>1, <4>3
    <3>3. (q.nread + k - 1) % PIPE_SIZE \in 0..(PIPE_SIZE - 1)
      BY Zenon, <1>3, <3>2, Wraps
    <3> QED
      BY Zenon, <1>3, <3>3
  <2>5. got' \in Seq(Values)
    <3> DEFINE g == [k \in 1..n |-> q.data[(q.nread + k - 1) % PIPE_SIZE]]
    <3>1. got' = g
      BY Zenon, <1>4
    <3>2. g \in [1..n -> Values]
      BY Zenon, <2>4
    <3> HIDE DEF g
    <3> QED
      BY <2>1, <3>1, <3>2
  <2> HIDE DEF m
  <2>6. /\ r \in Pipe /\ r.some = q.some /\ r.refcount = q.refcount /\ r.nwrite = q.nwrite
        /\ r.read_open = q.read_open /\ r.write_open = q.write_open /\ r.nread = m
    BY Zenon, <1>3, <2>3 DEF Pipe
  <2> HIDE DEF r
  <2>7. \E x \in Pipe : /\ pipes' = [pipes EXCEPT ![e.pipe] = x]
                        /\ x.some /\ x.refcount = q.refcount /\ x.nwrite = q.nwrite
                        /\ x.read_open = q.read_open /\ x.write_open = q.write_open
                        /\ q.nread < x.nread /\ x.nread <= q.nwrite
    BY Zenon, <1>1, <2>2, <2>3, <2>6
  <2> QED
    BY Zenon, <1>1, <1>2, <1>4, <2>5, <2>7
<1>5. CASE q.nread >= q.nwrite /\ q.write_open /\ Block(p, e) /\ UNCHANGED <<pipes, got>>
  BY Zenon, <1>1, <1>2, <1>5
<1>6. \/ /\ q.nread < q.nwrite
         /\ got' = [k \in 1..n |-> q.data[(q.nread + k - 1) % PIPE_SIZE]]
         /\ pipes' = [pipes EXCEPT ![e.pipe].nread = @ + n]
         /\ keyboard_wake(pipes')
      \/ q.nread >= q.nwrite /\ q.write_open /\ Block(p, e) /\ UNCHANGED <<pipes, got>>
  BY <1>0, Zenon DEF sys_read
<1> HIDE DEF Goal
<1> QED
  BY Zenon, <1>4, <1>5, <1>6

\* A write stores at least one byte when there is room, and otherwise blocks.
LEMMA WriteEffect ==
  ASSUME TypeOK, NEW p \in Procs, NEW fd \in Fds, NEW len \in 1..MaxWrite, NEW buf \in [1..len -> Values],
         sys_write(p, fd, buf)
  PROVE  LET e == fd_types[p][fd]
             q == pipes[e.pipe]
         IN /\ e.pipe \in PipeIdx /\ e = End(e.pipe, TRUE) /\ q.some
            /\ state[p] = "Live" /\ UNCHANGED <<fd_types, pipe_count, got>>
            /\ \/ /\ \E r \in Pipe : /\ pipes' = [pipes EXCEPT ![e.pipe] = r]
                                     /\ r.some /\ r.refcount = q.refcount /\ r.nread = q.nread
                                     /\ r.read_open = q.read_open /\ r.write_open = q.write_open
                                     /\ q.nwrite < r.nwrite
                  /\ keyboard_wake(pipes')
               \/ /\ Full(q) /\ q.read_open /\ Block(p, e)
                  /\ UNCHANGED pipes
<1> DEFINE e == fd_types[p][fd]
<1> DEFINE q == pipes[e.pipe]
<1> DEFINE k == IF Len(buf) < Room(q) THEN Len(buf) ELSE Room(q)
<1>1. e \in FdType /\ e # NoFd /\ e.writable /\ q.some /\ state[p] = "Live" /\ UNCHANGED <<fd_types, pipe_count, got>>
  BY Zenon DEF sys_write, TypeOK
<1>2. e.pipe \in PipeIdx /\ e = End(e.pipe, TRUE)
  <2>1. e.writable = TRUE
    BY Zenon, <1>1, Ends
  <2> QED
    BY Zenon, <1>1, <2>1, Ends
<1>3. q \in Pipe /\ q.nwrite \in Nat /\ U32_MAX \in Nat
  <2>1. q \in Pipe
    BY Zenon, <1>2 DEF TypeOK
  <2> QED
    BY Zenon, <2>1, PipeFields, PipesAssumption
<1>4. buf \in Seq(Values) /\ Len(buf) = len /\ len \in Nat \ {0}
  BY PipesAssumption
<1>5. Room(q) \in Nat /\ q.nwrite + Room(q) <= U32_MAX /\ (Room(q) = 0 <=> Full(q))
  BY Zenon, <1>3, RoomBound
<1>6. k \in Nat /\ k <= Len(buf) /\ q.nwrite + k <= U32_MAX /\ (k = 0 => Full(q))
  <2>1. PICK a, b, w, j : a = Len(buf) /\ b = Room(q) /\ w = q.nwrite /\ j = k
    BY Zenon
  <2>2. a \in Nat \ {0} /\ b \in Nat /\ w \in Nat /\ U32_MAX \in Nat /\ w + b <= U32_MAX
    BY Zenon, <1>3, <1>4, <1>5, <2>1
  <2>3. j = IF a < b THEN a ELSE b
    BY Zenon, <2>1
  <2>4. j \in Nat /\ j <= a /\ w + j <= U32_MAX /\ (j = 0 => b = 0)
    BY Zenon, <2>2, <2>3, Lesser
  <2> HIDE DEF k
  <2> QED
    BY Zenon, <1>5, <2>1, <2>4
<1>7. CASE k > 0 /\ pipes' = [pipes EXCEPT ![e.pipe] = Stored(q, SubSeq(buf, 1, k))] /\ keyboard_wake(pipes')
  <2> HIDE DEF k
  <2> DEFINE s == SubSeq(buf, 1, k)
  <2>1. s \in Seq(Values) /\ Len(s) = k
    BY <1>4, <1>6
  <2> DEFINE r == Stored(q, s)
  <2> HIDE DEF q, s
  <2>2. q.nwrite + Len(s) <= U32_MAX
    BY Zenon, <1>6, <2>1
  <2>3. /\ r \in Pipe /\ r.nwrite = q.nwrite + Len(s) /\ r.some = q.some /\ r.nread = q.nread
        /\ r.read_open = q.read_open /\ r.write_open = q.write_open /\ r.refcount = q.refcount
    BY Zenon, <1>3, <2>1, <2>2, StoredEffect
  <2>4. pipes' = [pipes EXCEPT ![e.pipe] = r]
    BY Zenon, <1>7 DEF s
  <2> HIDE DEF r
  <2>5. q.nwrite < r.nwrite /\ r.some
    BY <1>1, <1>3, <1>6, <1>7, <2>1, <2>3
  <2> QED
    BY Zenon, <1>1, <1>2, <1>7, <2>3, <2>4, <2>5 DEF q
<1>8. CASE k = 0 /\ q.read_open /\ Block(p, e) /\ UNCHANGED pipes
  BY Zenon, <1>1, <1>2, <1>6, <1>8
<1> QED
  BY Zenon, <1>7, <1>8 DEF sys_write

\* Updating one descriptor, as a function.
LEMMA OneUpdate ==
  ASSUME NEW t, t = [o \in Procs |-> [f \in Fds |-> t[o][f]]],
         NEW p \in Procs, NEW r \in Fds, NEW a
  PROVE  [t EXCEPT ![p][r] = a]
           = [o \in Procs |-> [f \in Fds |-> IF o = p /\ f = r THEN a ELSE t[o][f]]]
  BY Zenon

\* pipe() takes a free slot and two different free descriptors.
LEMMA PipeEffect ==
  ASSUME TypeOK, NEW p \in Procs, sys_pipe(p)
  PROVE  \E i \in PipeIdx : \E r \in Fds : \E w \in Fds :
           /\ ~pipes[i].some /\ r # w /\ fd_types[p][r] = NoFd /\ fd_types[p][w] = NoFd
           /\ pipes' = [pipes EXCEPT ![i] = NewPipe]
           /\ fd_types' = [o \in Procs |-> [f \in Fds |->
               IF o = p /\ f = w THEN End(i, TRUE) ELSE IF o = p /\ f = r THEN End(i, FALSE)
               ELSE fd_types[o][f]]]
<1> DEFINE free == {i \in PipeIdx : ~pipes[i].some}
<1> DEFINE i == Lowest(free)
<1> DEFINE r == Lowest(FreeFds(p))
<1> DEFINE w == Lowest(FreeFds(p) \ {r})
<1>1. /\ free # {} /\ Cardinality(FreeFds(p)) >= 2 /\ pipes' = [pipes EXCEPT ![i] = NewPipe]
      /\ fd_types' = [fd_types EXCEPT ![p][r] = End(i, FALSE), ![p][w] = End(i, TRUE)]
  BY Zenon DEF sys_pipe
<1>2. i \in free
  BY Zenon, <1>1, Numbers, LowestProperty
<1>3. IsFiniteSet(FreeFds(p)) /\ FreeFds(p) \subseteq Nat
  <2>1. FreeFds(p) \in SUBSET Fds
    BY Zenon DEF FreeFds
  <2> QED
    BY Zenon, <2>1, Numbers, FS_Subset
<1>4. FreeFds(p) # {}
  BY <1>1, FS_EmptySet
<1>5. r \in FreeFds(p)
  BY Zenon, <1>3, <1>4, LowestProperty
<1> HIDE DEF r
<1>6. FreeFds(p) \ {r} # {}
  <2>1. Cardinality(FreeFds(p) \ {r}) = Cardinality(FreeFds(p)) - 1
    BY Zenon, <1>3, <1>5, FS_RemoveElement
  <2>2. Cardinality(FreeFds(p)) \in Nat
    BY Zenon, <1>3, FS_CardinalityType
  <2>3. Cardinality(FreeFds(p) \ {r}) # 0
    BY <1>1, <2>1, <2>2
  <2> QED
    BY Zenon, <2>3, FS_EmptySet
<1>7. w \in FreeFds(p) \ {r}
  BY Zenon, <1>3, <1>6, LowestProperty
<1> HIDE DEF i, w
<1>15. i \in PipeIdx /\ r \in Fds /\ w \in Fds
  BY Zenon, <1>2, <1>5, <1>7 DEF FreeFds
<1>8. i \in PipeIdx /\ ~pipes[i].some /\ r \in Fds /\ w \in Fds /\ r # w
      /\ fd_types[p][r] = NoFd /\ fd_types[p][w] = NoFd
  BY Zenon, <1>2, <1>5, <1>7 DEF FreeFds
<1> DEFINE a == End(i, FALSE)
<1> DEFINE b == End(i, TRUE)
<1> DEFINE u == [fd_types EXCEPT ![p][r] = a]
<1>9. fd_types = [o \in Procs |-> [f \in Fds |-> fd_types[o][f]]]
  BY Zenon DEF TypeOK
<1>10. fd_types' = [u EXCEPT ![p][w] = b]
  BY Zenon, <1>1
<1> HIDE DEF a, b
<1>11. u = [o \in Procs |-> [f \in Fds |-> IF o = p /\ f = r THEN a ELSE fd_types[o][f]]]
  BY Zenon, <1>8, <1>9, OneUpdate
<1> HIDE DEF u
<1>12. u = [o \in Procs |-> [f \in Fds |-> u[o][f]]]
  BY Zenon, <1>11
<1>13. fd_types' = [o \in Procs |-> [f \in Fds |-> IF o = p /\ f = w THEN b ELSE u[o][f]]]
  BY Zenon, <1>8, <1>10, <1>12, OneUpdate
<1>14. fd_types' = [o \in Procs |-> [f \in Fds |->
               IF o = p /\ f = w THEN b ELSE IF o = p /\ f = r THEN a ELSE fd_types[o][f]]]
  BY Zenon, <1>11, <1>13
<1> USE <1>15
<1> WITNESS i \in PipeIdx
<1> WITNESS r \in Fds
<1> WITNESS w \in Fds
<1> QED
  BY Zenon, <1>1, <1>8, <1>14 DEF a, b

\* dup adds one descriptor of the same end, when one is free.
LEMMA DupEffect ==
  ASSUME TypeOK, ~DupWhenFull, NEW p \in Procs, NEW fd \in Fds, sys_dup(p, fd)
  PROVE  \E g \in Fds :
           /\ fd_types[p][g] = NoFd /\ fd_types[p][fd].pipe \in PipeIdx
           /\ fd_types' = [fd_types EXCEPT ![p][g] = fd_types[p][fd]]
           /\ pipes' = [pipes EXCEPT ![fd_types[p][fd].pipe] =
                           IF pipes[fd_types[p][fd].pipe].some
                           THEN Retain(pipes[fd_types[p][fd].pipe], 1) ELSE pipes[fd_types[p][fd].pipe]]
<1>1. FreeFds(p) # {} /\ FreeFds(p) \subseteq Nat
  BY Zenon, Numbers DEF sys_dup, FreeFds
<1>2. Lowest(FreeFds(p)) \in FreeFds(p)
  BY Zenon, <1>1, LowestProperty
<1>3. Lowest(FreeFds(p)) \in Fds /\ fd_types[p][Lowest(FreeFds(p))] = NoFd
  BY Zenon, <1>2 DEF FreeFds
<1>4. fd_types[p][fd] \in FdType /\ fd_types[p][fd] # NoFd
  BY Zenon DEF TypeOK, sys_dup
<1>5. fd_types[p][fd].pipe \in PipeIdx
  BY Zenon, <1>4, Ends
<1>6. /\ fd_types' = [fd_types EXCEPT ![p][Lowest(FreeFds(p))] = fd_types[p][fd]]
      /\ pipes' = [pipes EXCEPT ![fd_types[p][fd].pipe] =
                     IF pipes[fd_types[p][fd].pipe].some
                     THEN Retain(pipes[fd_types[p][fd].pipe], 1) ELSE pipes[fd_types[p][fd].pipe]]
  BY <1>1, Zenon DEF sys_dup
<1> QED
  BY Zenon, <1>3, <1>5, <1>6

\* Every step keeps the types.
LEMMA TypeStep == TypeOK /\ [Next]_vars => TypeOK'
<1> SUFFICES ASSUME TypeOK, [Next]_vars
             PROVE  TypeOK'
  BY Zenon
<1> DEFINE States == {"Empty", "Live", "Blocked", "Zombie"}
<1>0. CASE UNCHANGED vars
  BY Zenon, <1>0 DEF vars, TypeOK
<1>1. ASSUME NEW p \in Procs, sys_pipe(p)
      PROVE  TypeOK'
  <2>1. PICK i \in PipeIdx : \E r \in Fds : \E w \in Fds :
           /\ ~pipes[i].some /\ r # w /\ fd_types[p][r] = NoFd /\ fd_types[p][w] = NoFd
           /\ pipes' = [pipes EXCEPT ![i] = NewPipe]
           /\ fd_types' = [o \in Procs |-> [f \in Fds |->
               IF o = p /\ f = w THEN End(i, TRUE) ELSE IF o = p /\ f = r THEN End(i, FALSE)
               ELSE fd_types[o][f]]]
    BY Zenon, <1>1, PipeEffect
  <2>2. pipes' \in [PipeIdx -> Pipe]
    BY Zenon, <2>1, Fresh DEF TypeOK
  <2>3. End(i, FALSE) \in FdType /\ End(i, TRUE) \in FdType
    BY Zenon, Ends
  <2>4. fd_types' \in [Procs -> [Fds -> FdType]]
    <3>1. PICK r \in Fds, w \in Fds :
             fd_types' = [o \in Procs |-> [f \in Fds |->
               IF o = p /\ f = w THEN End(i, TRUE) ELSE IF o = p /\ f = r THEN End(i, FALSE)
               ELSE fd_types[o][f]]]
      BY <2>1, Zenon
    <3> QED
      BY Zenon, <2>3, <3>1 DEF TypeOK
  <2>5. pipe_count' \in [Procs -> 0..(MAX_PIPES_PER_PROCESS + 1)]
    BY SMTT(30), <1>1, PipesAssumption DEF sys_pipe, TypeOK
  <2> QED
    BY Zenon, <1>1, <2>2, <2>4, <2>5 DEF sys_pipe, TypeOK
<1>2. ASSUME NEW p \in Procs, die(p)
      PROVE  TypeOK'
  BY Zenon, <1>2 DEF die, TypeOK
<1>3. ASSUME NEW p \in Procs, drop(p)
      PROVE  TypeOK'
  <2>1. pipes' \in [PipeIdx -> Pipe]
    BY Zenon, <1>3, ReleaseType DEF drop, TypeOK
  <2>2. fd_types' \in [Procs -> [Fds -> FdType]] /\ wake' \in [Procs -> FdType] /\ state' \in [Procs -> States]
    BY Zenon, <1>3, Ends DEF drop, TypeOK
  <2> QED
    BY Zenon, <1>3, <2>1, <2>2 DEF drop, TypeOK
<1>4. ASSUME NEW p \in Procs, NEW fd \in Fds, NEW count \in 1..MaxWrite, sys_read(p, fd, count)
      PROVE  TypeOK'
  <2>1. CASE /\ \E r \in Pipe : pipes' = [pipes EXCEPT ![fd_types[p][fd].pipe] = r]
             /\ keyboard_wake(pipes') /\ got' \in Seq(Values) /\ UNCHANGED <<fd_types, pipe_count>>
    <3>1. pipes' \in [PipeIdx -> Pipe]
      BY Zenon, <2>1 DEF TypeOK
    <3>2. state' \in [Procs -> States] /\ wake' \in [Procs -> FdType]
      BY Zenon, <2>1, WakeAllType DEF keyboard_wake
    <3> QED
      BY Zenon, <2>1, <3>1, <3>2 DEF TypeOK
  <2>2. CASE Block(p, fd_types[p][fd]) /\ UNCHANGED <<pipes, fd_types, pipe_count, got>>
    BY Zenon, <2>2 DEF Block, TypeOK
  <2> QED
    BY Zenon, <1>4, <2>1, <2>2, ReadEffect
<1>5. ASSUME NEW p \in Procs, NEW fd \in Fds, NEW len \in 1..MaxWrite, NEW buf \in [1..len -> Values],
             sys_write(p, fd, buf)
      PROVE  TypeOK'
  <2>1. CASE /\ \E r \in Pipe : pipes' = [pipes EXCEPT ![fd_types[p][fd].pipe] = r]
             /\ keyboard_wake(pipes') /\ UNCHANGED <<fd_types, pipe_count, got>>
    <3>1. pipes' \in [PipeIdx -> Pipe]
      BY Zenon, <2>1 DEF TypeOK
    <3>2. state' \in [Procs -> States] /\ wake' \in [Procs -> FdType]
      BY Zenon, <2>1, WakeAllType DEF keyboard_wake
    <3> QED
      BY Zenon, <2>1, <3>1, <3>2 DEF TypeOK
  <2>2. CASE Block(p, fd_types[p][fd]) /\ UNCHANGED <<pipes, fd_types, pipe_count, got>>
    BY Zenon, <2>2 DEF Block, TypeOK
  <2> QED
    BY Zenon, <1>5, <2>1, <2>2, WriteEffect
<1>6. ASSUME NEW p \in Procs, NEW fd \in Fds, sys_close(p, fd)
      PROVE  TypeOK'
  <2>1. fd_types[p][fd].pipe \in PipeIdx
    BY <1>6, Ends DEF sys_close, TypeOK
  <2>2. pipes' \in [PipeIdx -> Pipe]
    <3>1. {fd} \in SUBSET Fds /\ fd_types[p] \in [Fds -> FdType] /\ pipes \in [PipeIdx -> Pipe]
      BY Zenon DEF TypeOK
    <3> QED
      BY Zenon, <1>6, <3>1, ReleaseType DEF sys_close
  <2>3. state' \in [Procs -> States] /\ wake' \in [Procs -> FdType]
    BY Zenon, <1>6, WakeAllType DEF sys_close, keyboard_wake
  <2>4. fd_types' \in [Procs -> [Fds -> FdType]] /\ got' = got
    BY Zenon, <1>6, Ends DEF sys_close, TypeOK
  <2>5. pipe_count' \in [Procs -> 0..(MAX_PIPES_PER_PROCESS + 1)]
    BY <1>6, PipesAssumption DEF sys_close, TypeOK
  <2> QED
    BY Zenon, <2>2, <2>3, <2>4, <2>5 DEF TypeOK
<1>7. ASSUME NEW p \in Procs, NEW fd \in Fds, sys_dup(p, fd)
      PROVE  TypeOK'
  <2> DEFINE e == fd_types[p][fd]
  <2>1. e \in FdType /\ e.pipe \in PipeIdx
    BY SMTT(30), <1>7, Ends DEF sys_dup, TypeOK
  <2>2. Retain(pipes[e.pipe], 1) \in Pipe /\ pipes[e.pipe] \in Pipe
    BY Zenon, <2>1, RetainEffect DEF TypeOK
  <2>3. pipes' \in [PipeIdx -> Pipe]
    BY Zenon, <1>7, <2>1, <2>2 DEF sys_dup, TypeOK
  <2>4. fd_types' \in [Procs -> [Fds -> FdType]]
    BY Zenon, <1>7, <2>1 DEF sys_dup, TypeOK
  <2> QED
    BY Zenon, <1>7, <2>3, <2>4 DEF sys_dup, TypeOK
<1>8. ASSUME NEW p \in Procs, NEW fd \in Fds, NEW newfd \in Fds, sys_dup2(p, fd, newfd)
      PROVE  TypeOK'
  <2> DEFINE e == fd_types[p][fd]
  <2> DEFINE closed == Release(pipes, fd_types[p], {newfd})
  <2>1. e \in FdType /\ e.pipe \in PipeIdx
    BY SMTT(30), <1>8, Ends DEF sys_dup2, TypeOK
  <2>2. closed \in [PipeIdx -> Pipe]
    <3>1. {newfd} \in SUBSET Fds /\ fd_types[p] \in [Fds -> FdType] /\ pipes \in [PipeIdx -> Pipe]
      BY Zenon DEF TypeOK
    <3> QED
      BY Zenon, <3>1, ReleaseType
  <2> HIDE DEF closed
  <2>3. Retain(closed[e.pipe], 1) \in Pipe /\ closed[e.pipe] \in Pipe
    BY Zenon, <2>1, <2>2, RetainEffect
  <2>4. pipes' = [closed EXCEPT ![e.pipe] = IF closed[e.pipe].some THEN Retain(closed[e.pipe], 1) ELSE closed[e.pipe]]
    BY Zenon, <1>8, <2>1, <2>2 DEF sys_dup2, closed
  <2>5. pipes' \in [PipeIdx -> Pipe]
    BY Zenon, <2>1, <2>2, <2>3, <2>4
  <2>6. fd_types' \in [Procs -> [Fds -> FdType]]
    BY Zenon, <1>8, <2>1 DEF sys_dup2, TypeOK
  <2>7. state' \in [Procs -> States] /\ wake' \in [Procs -> FdType]
    <3>1. CASE keyboard_wake(pipes')
      BY Zenon, <3>1, WakeAllType DEF keyboard_wake
    <3>2. CASE UNCHANGED <<state, wake>>
      BY Zenon, <3>2 DEF TypeOK
    <3> QED
      BY Zenon, <1>8, <3>1, <3>2 DEF sys_dup2
  <2> QED
    BY Zenon, <1>8, <2>5, <2>6, <2>7 DEF sys_dup2, TypeOK
<1>9. ASSUME NEW p \in Procs, NEW child \in Procs, sys_fork(p, child)
      PROVE  TypeOK'
  <2>1. \A i \in PipeIdx : Retain(pipes[i], Cardinality(On(fd_types[p], Fds, i))) \in Pipe /\ pipes[i] \in Pipe
    <3>1. SUFFICES ASSUME NEW i \in PipeIdx
                   PROVE  Retain(pipes[i], Cardinality(On(fd_types[p], Fds, i))) \in Pipe /\ pipes[i] \in Pipe
      BY Zenon
    <3>2. Cardinality(On(fd_types[p], Fds, i)) \in Nat /\ pipes[i] \in Pipe
      BY Zenon, OnFinite DEF TypeOK
    <3> QED
      BY Zenon, <3>2, RetainEffect
  <2>2. pipes' \in [PipeIdx -> Pipe]
    BY Zenon, <1>9, <2>1 DEF sys_fork
  <2>3. pipe_count' \in [Procs -> 0..(MAX_PIPES_PER_PROCESS + 1)]
    BY <1>9, PipesAssumption DEF sys_fork, TypeOK
  <2> QED
    BY Zenon, <1>9, <2>2, <2>3 DEF sys_fork, TypeOK
<1>10. CASE ConsoleWake \/ SignalWake
  <2>1. state' \in [Procs -> States] /\ wake' \in [Procs -> FdType]
    BY Zenon, <1>10, WakeAllType DEF ConsoleWake, SignalWake, keyboard_wake
  <2> QED
    BY Zenon, <1>10, <2>1 DEF ConsoleWake, SignalWake, TypeOK
<1> QED
  BY Zenon, <1>0, <1>1, <1>2, <1>3, <1>4, <1>5, <1>6, <1>7, <1>8, <1>9, <1>10 DEF Next

\* Type correctness: in particular the wrapping counters nread, nwrite and
\* refcount, and pipe_count, stay in range (TypeOK).
THEOREM TypeCorrect == Spec => []TypeOK
<1>1. Init => TypeOK
  BY PipesAssumption, Fresh, Ends DEF Init, TypeOK
<1> QED
  BY <1>1, TypeStep, PTL DEF Spec

-----------------------------------------------------------------------------
(* Who names a pipe *)

\* The descriptors of table t that name pipe i.
Named(t, i) == {h \in Procs \X Fds : t[h[1]][h[2]].pipe = i}

\* The counts are exact: CountOK(pipes, fd_types) is RefcountIsExact.
CountOK(ps, t) ==
  \A i \in PipeIdx : IF ps[i].some THEN ps[i].refcount = Cardinality(Named(t, i)) /\ Named(t, i) # {}
                                   ELSE Named(t, i) = {}

\* An end that is marked open is named by a descriptor.
Held(t, i, w) == \E p \in Procs, fd \in Fds : t[p][fd] = End(i, w)
Open(q, w) == q.some /\ IF w THEN q.write_open ELSE q.read_open
OpenOK(ps, t) == \A i \in PipeIdx : \A w \in BOOLEAN : Open(ps[i], w) => Held(t, i, w)

Table == [Procs -> [Fds -> FdType]]

\* Table t with descriptor fd of p set to e.
Put(t, p, fd, e) == [t EXCEPT ![p][fd] = e]

\* The descriptors that name a pipe can be counted in refcount.
LEMMA NamedFinite ==
  ASSUME NEW t, NEW i
  PROVE  /\ IsFiniteSet(Named(t, i)) /\ Cardinality(Named(t, i)) \in Nat
         /\ Cardinality(Named(t, i)) <= U16_MAX
         /\ Cardinality(Named(t, i)) = 0 <=> Named(t, i) = {}
<1>1. IsFiniteSet(Procs \X Fds)
  BY Zenon, RefcountFits, Numbers, FS_Product
<1>2. Named(t, i) \in SUBSET (Procs \X Fds)
  BY Zenon DEF Named
<1>3. Cardinality(Procs \X Fds) <= U16_MAX
  BY Zenon, RefcountFits DEF Fds
<1>4. IsFiniteSet(Named(t, i)) /\ Cardinality(Named(t, i)) <= Cardinality(Procs \X Fds)
  BY Zenon, <1>1, <1>2, FS_Subset
<1>5. Cardinality(Named(t, i)) \in Nat /\ Cardinality(Procs \X Fds) \in Nat
  BY Zenon, <1>1, <1>4, FS_CardinalityType
<1> QED
  BY <1>3, <1>4, <1>5, FS_EmptySet, PipesAssumption

\* A pair names a pipe when its descriptor does.
LEMMA NamedPair ==
  ASSUME NEW t, NEW i, NEW p \in Procs, NEW fd \in Fds
  PROVE  <<p, fd>> \in Named(t, i) <=> t[p][fd].pipe = i
  BY Zenon DEF Named

\* Changing one descriptor adds it to one pipe and takes it from the others.
LEMMA SetName ==
  ASSUME NEW t \in Table, NEW p \in Procs, NEW fd \in Fds, NEW e \in FdType, NEW i
  PROVE  /\ e.pipe = i => Named(Put(t, p, fd, e), i) = Named(t, i) \cup {<<p, fd>>}
         /\ e.pipe # i => Named(Put(t, p, fd, e), i) = Named(t, i) \ {<<p, fd>>}
<1> DEFINE u == Put(t, p, fd, e)
<1>1. \A o \in Procs, g \in Fds : u[o][g] = IF o = p /\ g = fd THEN e ELSE t[o][g]
  BY Zenon DEF Table, Put
<1>2. ASSUME NEW h \in Procs \X Fds
      PROVE  h \in Named(u, i) <=> IF h = <<p, fd>> THEN e.pipe = i ELSE h \in Named(t, i)
  <2>1. h = <<h[1], h[2]>> /\ h[1] \in Procs /\ h[2] \in Fds
    OBVIOUS
  <2>2. CASE h = <<p, fd>>
    <3>1. u[h[1]][h[2]] = e
      BY Zenon, <1>1, <2>2
    <3> QED
      BY Zenon, <2>2, <3>1 DEF Named
  <2>3. CASE h # <<p, fd>>
    <3>1. ~ (h[1] = p /\ h[2] = fd)
      BY Zenon, <2>1, <2>3
    <3>2. u[h[1]][h[2]] = t[h[1]][h[2]]
      BY Zenon, <1>1, <2>1, <3>1
    <3> QED
      BY Zenon, <2>3, <3>2 DEF Named
  <2> QED
    BY Zenon, <2>2, <2>3
<1> HIDE DEF u
<1>3. Named(u, i) \subseteq Procs \X Fds /\ Named(t, i) \subseteq Procs \X Fds /\ <<p, fd>> \in Procs \X Fds
  BY Zenon DEF Named
<1>4. e.pipe = i => Named(u, i) = Named(t, i) \cup {<<p, fd>>}
  <2> HIDE DEF Named
  <2>1. e.pipe = i => \A h : h \in Named(u, i) <=> h \in Named(t, i) \cup {<<p, fd>>}
    BY Zenon, <1>2, <1>3
  <2> QED
    BY Zenon, <2>1
<1>5. e.pipe # i => Named(u, i) = Named(t, i) \ {<<p, fd>>}
  <2> HIDE DEF Named
  <2>1. e.pipe # i => \A h : h \in Named(u, i) <=> h \in Named(t, i) \ {<<p, fd>>}
    BY Zenon, <1>2, <1>3
  <2> QED
    BY Zenon, <2>1
<1> QED
  BY Zenon, <1>4, <1>5 DEF u

\* close (and the first half of dup2): the counts stay exact.
LEMMA CloseCounts ==
  ASSUME NEW ps \in [PipeIdx -> Pipe], NEW t \in Table, NEW p \in Procs, NEW fd \in Fds, CountOK(ps, t)
  PROVE  CountOK(Release(ps, t[p], {fd}), Put(t, p, fd, NoFd))
<1> DEFINE f == t[p]
<1> DEFINE S == {fd}
<1> DEFINE r == Release(ps, f, S)
<1> DEFINE u == Put(t, p, fd, NoFd)
<1>1. SUFFICES ASSUME NEW i \in PipeIdx
               PROVE  IF r[i].some THEN r[i].refcount = Cardinality(Named(u, i)) /\ Named(u, i) # {}
                                   ELSE Named(u, i) = {}
  BY Zenon DEF CountOK
<1>2. f \in [Fds -> FdType] /\ S \in SUBSET Fds
  BY Zenon DEF Table
<1>3. NoFd.pipe # i
  BY Zenon, Ends
<1>4. Named(u, i) = Named(t, i) \ {<<p, fd>>}
  BY SMTT(30), <1>3, SetName, Ends
<1>5. ps[i].some => ps[i].refcount = Cardinality(Named(t, i)) /\ Named(t, i) # {}
  BY Zenon DEF CountOK
<1>6. ~ps[i].some => Named(t, i) = {}
  BY Zenon DEF CountOK
<1> HIDE DEF S
<1> DEFINE n == Cardinality(On(f, S, i))
<1>7. ReleasedOne(ps, f, S, i, r[i], n)
  <2> HIDE DEF f
  <2> QED
    BY Zenon, <1>2, ReleaseEffect
<1> HIDE DEF r, u
<1>8. CASE f[fd].pipe = i
  <2>1. On(f, S, i) = {fd} /\ On(f, S, i) # {}
    BY Zenon, <1>8 DEF On, S
  <2>2. Cardinality(On(f, S, i)) = 1
    BY Zenon, <2>1, FS_Singleton
  <2>3. <<p, fd>> \in Named(t, i)
    BY Zenon, <1>8, NamedPair
  <2>4. ps[i].some /\ ps[i].refcount = Cardinality(Named(t, i))
    BY Zenon, <1>5, <1>6, <2>3
  <2>5. Cardinality(Named(u, i)) = Cardinality(Named(t, i)) - 1
    <3>1. IsFiniteSet(Named(t, i))
      BY Zenon, NamedFinite
    <3>2. Cardinality(Named(t, i) \ {<<p, fd>>}) = Cardinality(Named(t, i)) - 1
      BY Zenon, <2>3, <3>1, FS_RemoveElement
    <3> QED
      BY Zenon, <1>4, <3>2
  <2>6. /\ Cardinality(Named(t, i)) \in Nat /\ Cardinality(Named(u, i)) \in Nat
        /\ (Cardinality(Named(u, i)) = 0 <=> Named(u, i) = {})
    BY Zenon, NamedFinite
  <2>7. CASE ps[i].refcount <= 1
    <3>1. r[i] = NoPipe
      BY SMTT(30), <1>7, <2>2, <2>4, <2>7 DEF ReleasedOne
    <3>2. Named(u, i) = {}
      BY <2>4, <2>5, <2>6, <2>7
    <3> QED
      BY Zenon, <3>1, <3>2, Fresh
  <2>8. CASE ps[i].refcount > 1
    <3>1. r[i].some /\ r[i].refcount = ps[i].refcount - 1
      BY SMTT(30), <1>7, <2>2, <2>4, <2>8 DEF ReleasedOne
    <3>2. Named(u, i) # {}
      BY <2>4, <2>5, <2>6, <2>8
    <3> QED
      BY Zenon, <2>4, <2>5, <3>1, <3>2
  <2> QED
    BY SMTT(30), <2>4, <2>6, <2>7, <2>8
<1>9. CASE f[fd].pipe # i
  <2>1. On(f, S, i) = {}
    BY Zenon, <1>9 DEF On, S
  <2>2. r[i] = ps[i]
    BY Zenon, <1>7, <2>1 DEF ReleasedOne
  <2>3. <<p, fd>> \notin Named(t, i)
    BY Zenon, <1>9 DEF Named
  <2>4. Named(u, i) = Named(t, i)
    BY Zenon, <1>4, <2>3
  <2> QED
    BY Zenon, <1>5, <1>6, <2>2, <2>4
<1> QED
  BY Zenon, <1>8, <1>9

\* dup (and the second half of dup2): the counts stay exact.
LEMMA AddCounts ==
  ASSUME NEW ps \in [PipeIdx -> Pipe], NEW t \in Table, NEW p \in Procs, NEW g \in Fds, CountOK(ps, t),
         NEW e \in FdType, e.pipe \in PipeIdx, t[p][g] = NoFd, ps[e.pipe].some
  PROVE  CountOK([ps EXCEPT ![e.pipe] = Retain(ps[e.pipe], 1)], Put(t, p, g, e))
<1> DEFINE r == [ps EXCEPT ![e.pipe] = Retain(ps[e.pipe], 1)]
<1> DEFINE u == Put(t, p, g, e)
<1>1. SUFFICES ASSUME NEW i \in PipeIdx
               PROVE  IF r[i].some THEN r[i].refcount = Cardinality(Named(u, i)) /\ Named(u, i) # {}
                                   ELSE Named(u, i) = {}
  BY Zenon DEF CountOK
<1>2. /\ e.pipe = i => Named(u, i) = Named(t, i) \cup {<<p, g>>}
      /\ e.pipe # i => Named(u, i) = Named(t, i) \ {<<p, g>>}
  BY SetName
<1>3. <<p, g>> \notin Named(t, i)
  <2>1. t[p][g].pipe # i
    BY Ends
  <2> QED
    BY Zenon, <2>1 DEF Named
<1>4. CASE e.pipe = i
  <2>1. Named(u, i) = Named(t, i) \cup {<<p, g>>} /\ Named(u, i) # {}
    BY Zenon, <1>2, <1>4
  <2>2. Cardinality(Named(u, i)) = Cardinality(Named(t, i)) + 1
    BY Zenon, <1>3, <2>1, NamedFinite, FS_AddElement
  <2>3. ps[i].refcount = Cardinality(Named(t, i))
    BY Zenon, <1>4 DEF CountOK
  <2>4. ps[i].refcount + 1 <= U16_MAX
    BY Zenon, <2>2, <2>3, NamedFinite
  <2>5. r[i] = Retain(ps[i], 1)
    BY Zenon, <1>4
  <2>6. r[i].some /\ r[i].refcount = ps[i].refcount + 1
    BY <1>4, <2>4, <2>5, RetainEffect
  <2> HIDE DEF r, u
  <2> QED
    BY Zenon, <2>1, <2>2, <2>3, <2>6
<1>5. CASE e.pipe # i
  <2>1. Named(u, i) = Named(t, i)
    BY Zenon, <1>2, <1>3, <1>5
  <2>2. r[i] = ps[i]
    BY Zenon, <1>5
  <2> HIDE DEF r, u
  <2> QED
    BY Zenon, <2>1, <2>2 DEF CountOK
<1> QED
  BY Zenon, <1>4, <1>5

\* The tables after fork and after Drop for Process.
Inherit(t, p, c) == [t EXCEPT ![c] = t[p]]
Cleared(t, p) == [t EXCEPT ![p] = [fd \in Fds |-> NoFd]]
Row(t, p, c, i) == {c} \X On(t[p], Fds, i)

\* The pipes after a fork by a process with table f.
Retained(ps, f) ==
  [i \in PipeIdx |-> IF ps[i].some THEN Retain(ps[i], Cardinality(On(f, Fds, i))) ELSE ps[i]]

\* A row has as many descriptors as the process has of that pipe.
LEMMA RowCount ==
  ASSUME NEW t, NEW p, NEW c, NEW i
  PROVE  /\ IsFiniteSet(Row(t, p, c, i))
         /\ Cardinality(Row(t, p, c, i)) = Cardinality(On(t[p], Fds, i))
<1>1. IsFiniteSet({c}) /\ Cardinality({c}) = 1
  BY Zenon, FS_Singleton
<1>2. IsFiniteSet(On(t[p], Fds, i)) /\ Cardinality(On(t[p], Fds, i)) \in Nat
  BY Zenon, OnFinite
<1>3. /\ IsFiniteSet({c} \X On(t[p], Fds, i))
      /\ Cardinality({c} \X On(t[p], Fds, i)) = Cardinality({c}) * Cardinality(On(t[p], Fds, i))
  BY Zenon, <1>1, <1>2, FS_Product
<1> QED
  BY <1>1, <1>2, <1>3 DEF Row

\* What fork adds: the parent's descriptors, under the child's name.
LEMMA InheritName ==
  ASSUME NEW t \in Table, NEW p \in Procs, NEW c \in Procs, NEW i \in PipeIdx,
         \A fd \in Fds : t[c][fd] = NoFd
  PROVE  /\ Named(Inherit(t, p, c), i) = Named(t, i) \cup Row(t, p, c, i)
         /\ Named(t, i) \cap Row(t, p, c, i) = {}
<1> DEFINE u == Inherit(t, p, c)
<1>1. \A o \in Procs : u[o] = IF o = c THEN t[p] ELSE t[o]
  BY Zenon DEF Table, Inherit
<1>2. ASSUME NEW h
      PROVE  h \in Row(t, p, c, i) <=> h \in Procs \X Fds /\ h[1] = c /\ t[p][h[2]].pipe = i
  BY Zenon DEF Row, On
<1>3. ASSUME NEW h \in Procs \X Fds
      PROVE  t[h[1]][h[2]].pipe = i => h[1] # c
  BY Ends
<1> HIDE DEF u
<1>4. ASSUME NEW h
      PROVE  h \in Named(u, i) <=> h \in Named(t, i) \cup Row(t, p, c, i)
  <2>1. CASE h \in Procs \X Fds
    <3>1. h[1] \in Procs /\ h[2] \in Fds
      BY Zenon, <2>1
    <3>2. u[h[1]] = IF h[1] = c THEN t[p] ELSE t[h[1]]
      BY Zenon, <1>1, <3>1
    <3>3. h \in Named(u, i) <=> u[h[1]][h[2]].pipe = i
      BY Zenon, <2>1 DEF Named
    <3>4. h \in Named(t, i) <=> t[h[1]][h[2]].pipe = i
      BY Zenon, <2>1 DEF Named
    <3> QED
      BY Zenon, <1>2, <1>3, <2>1, <3>2, <3>3, <3>4
  <2>2. CASE h \notin Procs \X Fds
    BY Zenon, <1>2, <2>2 DEF Named
  <2> QED
    BY Zenon, <2>1, <2>2
<1>5. ASSUME NEW h \in Named(t, i), h \in Row(t, p, c, i)
      PROVE  FALSE
  BY Zenon, <1>2, <1>3, <1>5 DEF Named
<1> QED
  BY Zenon, <1>4, <1>5 DEF u

\* What Drop for Process takes away: the descriptors of the process.
LEMMA ClearName ==
  ASSUME NEW t \in Table, NEW p \in Procs, NEW i \in PipeIdx
  PROVE  /\ Named(Cleared(t, p), i) = Named(t, i) \ Row(t, p, p, i)
         /\ Row(t, p, p, i) \subseteq Named(t, i)
<1> DEFINE u == Cleared(t, p)
<1>1. \A o \in Procs, fd \in Fds : u[o][fd] = IF o = p THEN NoFd ELSE t[o][fd]
  BY Zenon DEF Table, Cleared
<1>2. ASSUME NEW h
      PROVE  h \in Row(t, p, p, i) <=> h \in Procs \X Fds /\ h[1] = p /\ t[p][h[2]].pipe = i
  BY Zenon DEF Row, On
<1>3. NoFd.pipe # i
  BY Zenon, Ends
<1> HIDE DEF u
<1>4. ASSUME NEW h
      PROVE  h \in Named(u, i) <=> h \in Named(t, i) \ Row(t, p, p, i)
  <2>1. CASE h \in Procs \X Fds
    <3>1. h[1] \in Procs /\ h[2] \in Fds
      BY Zenon, <2>1
    <3>2. u[h[1]][h[2]] = IF h[1] = p THEN NoFd ELSE t[h[1]][h[2]]
      BY Zenon, <1>1, <3>1
    <3>3. h \in Named(u, i) <=> u[h[1]][h[2]].pipe = i
      BY Zenon, <2>1 DEF Named
    <3>4. h \in Named(t, i) <=> t[h[1]][h[2]].pipe = i
      BY Zenon, <2>1 DEF Named
    <3> QED
      BY Zenon, <1>2, <1>3, <2>1, <3>2, <3>3, <3>4
  <2>2. CASE h \notin Procs \X Fds
    BY Zenon, <1>2, <2>2 DEF Named
  <2> QED
    BY Zenon, <2>1, <2>2
<1>5. ASSUME NEW h \in Row(t, p, p, i)
      PROVE  h \in Named(t, i)
  BY Zenon, <1>2, <1>5 DEF Named
<1> QED
  BY Zenon, <1>4, <1>5 DEF u

\* fork: the counts stay exact.
LEMMA ForkCounts ==
  ASSUME NEW ps \in [PipeIdx -> Pipe], NEW t \in Table, NEW p \in Procs, NEW c \in Procs, CountOK(ps, t),
         \A fd \in Fds : t[c][fd] = NoFd
  PROVE  CountOK(Retained(ps, t[p]), Inherit(t, p, c))
<1> DEFINE r == Retained(ps, t[p])
<1> DEFINE u == Inherit(t, p, c)
<1>1. SUFFICES ASSUME NEW i \in PipeIdx
               PROVE  IF r[i].some THEN r[i].refcount = Cardinality(Named(u, i)) /\ Named(u, i) # {}
                                   ELSE Named(u, i) = {}
  BY Zenon DEF CountOK
<1> DEFINE n == Cardinality(On(t[p], Fds, i))
<1>2. Named(u, i) = Named(t, i) \cup Row(t, p, c, i) /\ Named(t, i) \cap Row(t, p, c, i) = {}
  BY Zenon, InheritName
<1>3. n \in Nat /\ (n = 0 <=> On(t[p], Fds, i) = {})
  BY Zenon, OnFinite
<1>4. Cardinality(Named(u, i)) = Cardinality(Named(t, i)) + n
  <2>1. IsFiniteSet(Row(t, p, c, i)) /\ Cardinality(Row(t, p, c, i)) = n
    BY RowCount
  <2>2. IsFiniteSet(Named(t, i)) /\ Cardinality(Named(t, i)) \in Nat
    BY Zenon, NamedFinite
  <2>3. Cardinality(Named(t, i) \cup Row(t, p, c, i)) =
          Cardinality(Named(t, i)) + Cardinality(Row(t, p, c, i)) - Cardinality(Named(t, i) \cap Row(t, p, c, i))
    BY Zenon, <2>1, <2>2, FS_Union
  <2>4. Cardinality(Named(t, i) \cap Row(t, p, c, i)) = 0
    BY Zenon, <1>2, FS_EmptySet
  <2> HIDE DEF n, u
  <2> QED
    BY <1>2, <1>3, <2>1, <2>2, <2>3, <2>4
<1> HIDE DEF u
<1>5. CASE ps[i].some
  <2>1. ps[i].refcount = Cardinality(Named(t, i)) /\ Named(t, i) # {}
    BY Zenon, <1>5 DEF CountOK
  <2>2. ps[i].refcount + n <= U16_MAX
    BY Zenon, <1>4, <2>1, NamedFinite
  <2>3. r[i] = Retain(ps[i], n)
    BY Zenon, <1>5 DEF Retained
  <2> HIDE DEF n, r
  <2>4. r[i].some /\ r[i].refcount = ps[i].refcount + n
    BY SMTT(30), <1>3, <1>5, <2>2, <2>3, RetainEffect
  <2> QED
    BY Zenon, <1>2, <1>4, <2>1, <2>4
<1>6. CASE ~ps[i].some
  <2>1. r[i] = ps[i] /\ Named(t, i) = {}
    BY Zenon, <1>6 DEF CountOK, Retained
  <2>2. On(t[p], Fds, i) = {}
    <3>1. SUFFICES ASSUME NEW fd \in Fds, t[p][fd].pipe = i PROVE FALSE
      BY Zenon DEF On
    <3>2. <<p, fd>> \in Named(t, i)
      BY Zenon, <3>1, NamedPair
    <3> QED
      BY Zenon, <2>1, <3>2
  <2>3. Row(t, p, c, i) = {}
    BY Zenon, <2>2 DEF Row
  <2> QED
    BY Zenon, <1>2, <1>6, <2>1, <2>3
<1> QED
  BY Zenon, <1>5, <1>6

\* Drop for Process: the counts stay exact.
LEMMA DropCounts ==
  ASSUME NEW ps \in [PipeIdx -> Pipe], NEW t \in Table, NEW p \in Procs, CountOK(ps, t)
  PROVE  CountOK(Release(ps, t[p], Fds), Cleared(t, p))
<1> DEFINE f == t[p]
<1> DEFINE r == Release(ps, f, Fds)
<1> DEFINE u == Cleared(t, p)
<1>1. SUFFICES ASSUME NEW i \in PipeIdx
               PROVE  IF r[i].some THEN r[i].refcount = Cardinality(Named(u, i)) /\ Named(u, i) # {}
                                   ELSE Named(u, i) = {}
  BY Zenon DEF CountOK
<1> DEFINE n == Cardinality(On(f, Fds, i))
<1>2. Named(u, i) = Named(t, i) \ Row(t, p, p, i) /\ Row(t, p, p, i) \subseteq Named(t, i)
  BY Zenon, ClearName
<1>3. ReleasedOne(ps, f, Fds, i, r[i], n)
  <2>1. f \in [Fds -> FdType] /\ Fds \in SUBSET Fds
    BY Zenon DEF Table
  <2> HIDE DEF f
  <2> QED
    BY Zenon, <2>1, ReleaseEffect
<1>4. Cardinality(Named(u, i)) = Cardinality(Named(t, i)) - n
  <2>1. Cardinality(Row(t, p, p, i)) = n
    BY Zenon, RowCount
  <2>2. IsFiniteSet(Named(t, i)) /\ Cardinality(Named(t, i)) \in Nat
    BY Zenon, NamedFinite
  <2>3. Cardinality(Named(t, i) \ Row(t, p, p, i)) = Cardinality(Named(t, i)) - Cardinality(Named(t, i) \cap Row(t, p, p, i))
    BY Zenon, <2>2, FS_Difference
  <2>4. Named(t, i) \cap Row(t, p, p, i) = Row(t, p, p, i)
    BY Zenon, <1>2
  <2> HIDE DEF n, u
  <2> QED
    BY Zenon, <1>2, <2>1, <2>3, <2>4
<1>5. /\ Cardinality(Named(t, i)) \in Nat /\ Cardinality(Named(u, i)) \in Nat
      /\ (Cardinality(Named(u, i)) = 0 <=> Named(u, i) = {}) /\ (Cardinality(Named(t, i)) = 0 <=> Named(t, i) = {})
  BY Zenon, NamedFinite
<1>6. n \in Nat
  BY Zenon, OnFinite
<1> HIDE DEF r, u, n
<1>7. CASE ps[i].some /\ n > 0
  <2>1. ps[i].refcount = Cardinality(Named(t, i)) /\ Named(t, i) # {}
    BY Zenon, <1>7 DEF CountOK
  <2>2. CASE ps[i].refcount <= n
    <3>1. r[i] = NoPipe
      BY Zenon, <1>3, <1>7, <2>2 DEF ReleasedOne
    <3>2. Named(u, i) = {}
      BY <1>4, <1>5, <1>6, <2>1, <2>2
    <3> QED
      BY Zenon, <3>1, <3>2, Fresh
  <2>3. CASE ps[i].refcount > n
    <3>1. r[i].some /\ r[i].refcount = ps[i].refcount - n
      BY Zenon, <1>3, <1>7, <2>3 DEF ReleasedOne
    <3>2. Named(u, i) # {}
      BY <1>4, <1>5, <1>6, <2>1, <2>3
    <3> QED
      BY Zenon, <1>4, <2>1, <3>1, <3>2
  <2> QED
    BY SMTT(30), <1>5, <1>6, <2>1, <2>2, <2>3
<1>8. CASE n = 0
  <2>1. r[i] = ps[i]
    BY Zenon, <1>3, <1>8 DEF ReleasedOne
  <2>2. Cardinality(Named(u, i)) = Cardinality(Named(t, i))
    BY <1>4, <1>5, <1>8
  <2> QED
    BY Zenon, <1>5, <2>1, <2>2 DEF CountOK
<1>9. CASE ~ps[i].some
  <2>1. r[i] = ps[i]
    BY Zenon, <1>3, <1>9 DEF ReleasedOne
  <2>2. Named(t, i) = {}
    BY Zenon, <1>9 DEF CountOK
  <2> QED
    BY Zenon, <1>2, <1>9, <2>1, <2>2
<1> QED
  BY <1>6, <1>7, <1>8, <1>9

\* pipe: the new pipe is named by two descriptors.
LEMMA PipeCounts ==
  ASSUME NEW ps \in [PipeIdx -> Pipe], NEW t \in Table, NEW p \in Procs, CountOK(ps, t),
         NEW i \in PipeIdx, NEW r \in Fds, NEW w \in Fds,
         ~ps[i].some, r # w, t[p][r] = NoFd, t[p][w] = NoFd
  PROVE  CountOK([ps EXCEPT ![i] = NewPipe], Put(Put(t, p, r, End(i, FALSE)), p, w, End(i, TRUE)))
<1>0. PICK a, b : a = End(i, FALSE) /\ b = End(i, TRUE)
  BY Zenon
<1> DEFINE v == Put(t, p, r, a)
<1> DEFINE u == Put(v, p, w, b)
<1>1. a \in FdType /\ b \in FdType /\ a.pipe = i /\ b.pipe = i
  BY Zenon, <1>0, Ends
<1>2. v \in Table
  BY Zenon, <1>1 DEF Put, Table
<1>3. ASSUME NEW j
      PROVE  /\ j = i => Named(v, j) = Named(t, j) \cup {<<p, r>>}
             /\ j # i => Named(v, j) = Named(t, j) \ {<<p, r>>}
  BY SMTT(30), <1>1, SetName
<1> HIDE DEF v
<1>4. ASSUME NEW j
      PROVE  /\ j = i => Named(u, j) = Named(v, j) \cup {<<p, w>>}
             /\ j # i => Named(u, j) = Named(v, j) \ {<<p, w>>}
  BY SMTT(30), <1>1, <1>2, SetName
<1> HIDE DEF u
<1>5. SUFFICES ASSUME NEW j \in PipeIdx, NEW q, q = [ps EXCEPT ![i] = NewPipe][j]
               PROVE  IF q.some THEN q.refcount = Cardinality(Named(u, j)) /\ Named(u, j) # {}
                                ELSE Named(u, j) = {}
  BY Zenon, <1>0 DEF CountOK, u, v
<1>6. CASE j = i
  <2>1. Named(t, j) = {}
    BY Zenon, <1>6 DEF CountOK
  <2>2. Named(u, j) = {<<p, r>>, <<p, w>>}
    BY Zenon, <1>3, <1>4, <1>6, <2>1
  <2>3. Cardinality({<<p, r>>}) = 1 /\ IsFiniteSet({<<p, r>>})
    BY Zenon, FS_Singleton
  <2>4. <<p, w>> \notin {<<p, r>>}
    BY Zenon
  <2>5. Cardinality({<<p, r>>} \cup {<<p, w>>}) = 2
    <3> DEFINE one == {<<p, r>>}
    <3> HIDE DEF one
    <3>1. IsFiniteSet(one) /\ <<p, w>> \notin one /\ Cardinality(one) = 1
      BY Zenon, <2>3, <2>4 DEF one
    <3>2. Cardinality(one \cup {<<p, w>>}) = Cardinality(one) + 1
      BY Zenon, <3>1, FS_AddElement
    <3> QED
      BY <3>1, <3>2 DEF one
  <2>6. {<<p, r>>, <<p, w>>} = {<<p, r>>} \cup {<<p, w>>}
    BY Zenon
  <2>7. q = NewPipe
    BY Zenon, <1>5, <1>6
  <2> QED
    BY Zenon, <2>2, <2>5, <2>6, <2>7, Fresh
<1>7. CASE j # i
  <2>1. t[p][r].pipe # j /\ t[p][w].pipe # j
    BY Zenon, Ends
  <2>2. <<p, r>> \notin Named(t, j) /\ <<p, w>> \notin Named(t, j)
    BY Zenon, <2>1 DEF Named
  <2>3. Named(u, j) = Named(t, j)
    BY SMTT(30), <1>3, <1>4, <1>7, <2>2
  <2>4. q = ps[j]
    BY Zenon, <1>5, <1>7
  <2> QED
    BY Zenon, <2>3, <2>4 DEF CountOK
<1> QED
  BY Zenon, <1>6, <1>7

\* Reads and writes: the counts stay exact.
LEMMA SameCounts ==
  ASSUME NEW ps \in [PipeIdx -> Pipe], NEW t, CountOK(ps, t), NEW i \in PipeIdx, NEW q,
         ps[i].some, q.some, q.refcount = ps[i].refcount
  PROVE  CountOK([ps EXCEPT ![i] = q], t)
  BY Zenon DEF CountOK

\* dup2: the counts stay exact, and the pipe of the source is not freed by the
\* close of the target.
LEMMA Dup2Counts ==
  ASSUME NEW ps \in [PipeIdx -> Pipe], NEW t \in Table, NEW p \in Procs, CountOK(ps, t),
         NEW fd \in Fds, NEW newfd \in Fds, fd # newfd, t[p][fd].pipe \in PipeIdx,
         NEW closed, closed = Release(ps, t[p], {newfd})
  PROVE  /\ closed \in [PipeIdx -> Pipe] /\ closed[t[p][fd].pipe].some
         /\ CountOK([closed EXCEPT ![t[p][fd].pipe] = Retain(closed[t[p][fd].pipe], 1)],
                    Put(t, p, newfd, t[p][fd]))
<1> DEFINE v == Put(t, p, newfd, NoFd)
<1>1. v \in Table /\ v[p][newfd] = NoFd /\ v[p][fd] = t[p][fd]
  BY Ends DEF Put, Table
<1>2. Put(v, p, newfd, t[p][fd]) = Put(t, p, newfd, t[p][fd])
  BY Zenon DEF Put, Table
<1>3. CountOK(closed, v)
  BY Zenon, CloseCounts
<1>4. closed \in [PipeIdx -> Pipe]
  <2>1. {newfd} \in SUBSET Fds /\ t[p] \in [Fds -> FdType]
    BY Zenon DEF Table
  <2> QED
    BY Zenon, <2>1, ReleaseType
<1> HIDE DEF v
<1>5. <<p, fd>> \in Named(v, t[p][fd].pipe)
  BY Zenon, <1>1 DEF Named
<1>6. closed[t[p][fd].pipe].some
  BY Zenon, <1>3, <1>5 DEF CountOK
<1>7. t[p][fd] \in FdType
  BY Zenon DEF Table
<1>8. CountOK([closed EXCEPT ![t[p][fd].pipe] = Retain(closed[t[p][fd].pipe], 1)], Put(v, p, newfd, t[p][fd]))
  BY Zenon, <1>1, <1>3, <1>4, <1>6, <1>7, AddCounts
<1> QED
  BY Zenon, <1>2, <1>4, <1>6, <1>8

-----------------------------------------------------------------------------
(* Slots without a process have no descriptors *)

Unused == \A p \in Procs : state[p] = "Empty" => \A fd \in Fds : fd_types[p][fd] = NoFd

\* Only fork fills an empty slot, and Drop for Process empties one.
LEMMA UnusedStep ==
  ASSUME TypeOK, Unused, [Next]_vars
  PROVE  Unused'
<1>0. CASE UNCHANGED vars
  BY Zenon, <1>0 DEF vars, Unused
<1>1. ASSUME NEW p \in Procs, state[p] # "Empty", state'[p] # "Empty",
             \A o \in Procs : o # p => fd_types'[o] = fd_types[o] /\ (state'[o] = "Empty" => state[o] = "Empty")
      PROVE  Unused'
  BY Zenon, <1>1 DEF Unused
<1>2. ASSUME NEW S, WakeAll(S), NEW o \in Procs, state'[o] = "Empty"
      PROVE  state[o] = "Empty"
  BY Zenon, <1>2 DEF WakeAll
<1>3. ASSUME UNCHANGED fd_types, \A o \in Procs : state'[o] = "Empty" => state[o] = "Empty"
      PROVE  Unused'
  BY Zenon, <1>3 DEF Unused
<1>4. ASSUME NEW p \in Procs, sys_pipe(p)
      PROVE  Unused'
  <2>1. \A o \in Procs : o # p => fd_types'[o] = fd_types[o]
    BY Zenon, <1>4 DEF sys_pipe, TypeOK
  <2>2. state[p] = "Live" /\ state' = state
    BY Zenon, <1>4 DEF sys_pipe
  <2> QED
    BY Zenon, <1>1, <2>1, <2>2
<1>5. ASSUME NEW p \in Procs, die(p)
      PROVE  Unused'
  BY Zenon, <1>5, <1>3 DEF die, TypeOK
<1>6. ASSUME NEW p \in Procs, drop(p)
      PROVE  Unused'
  BY Zenon, <1>6 DEF drop, TypeOK, Unused
<1>7. ASSUME NEW p \in Procs, NEW fd \in Fds, NEW count \in 1..MaxWrite, sys_read(p, fd, count)
      PROVE  Unused'
  <2>1. UNCHANGED fd_types
    BY Zenon, <1>7 DEF sys_read
  <2>2. keyboard_wake(pipes') \/ Block(p, fd_types[p][fd])
    BY Zenon, <1>7 DEF sys_read
  <2>3. \A o \in Procs : state'[o] = "Empty" => state[o] = "Empty"
    BY Zenon, <2>2, <1>2 DEF keyboard_wake, Block, TypeOK
  <2> QED
    BY Zenon, <1>3, <2>1, <2>3
<1>8. ASSUME NEW p \in Procs, NEW fd \in Fds, NEW buf, sys_write(p, fd, buf)
      PROVE  Unused'
  <2>1. UNCHANGED fd_types
    BY Zenon, <1>8 DEF sys_write
  <2>2. keyboard_wake(pipes') \/ Block(p, fd_types[p][fd])
    BY Zenon, <1>8 DEF sys_write
  <2>3. \A o \in Procs : state'[o] = "Empty" => state[o] = "Empty"
    BY Zenon, <2>2, <1>2 DEF keyboard_wake, Block, TypeOK
  <2> QED
    BY Zenon, <1>3, <2>1, <2>3
<1>9. ASSUME NEW p \in Procs, NEW fd \in Fds, sys_close(p, fd)
      PROVE  Unused'
  <2>1. state[p] = "Live" /\ \A o \in Procs : o # p => fd_types'[o] = fd_types[o]
    BY Zenon, <1>9 DEF sys_close, TypeOK
  <2>2. \A o \in Procs : state'[o] = "Empty" => state[o] = "Empty"
    BY Zenon, <1>9, <1>2 DEF sys_close, keyboard_wake
  <2> QED
    BY Zenon, <1>1, <2>1, <2>2
<1>10. ASSUME NEW p \in Procs, NEW fd \in Fds, sys_dup(p, fd)
      PROVE  Unused'
  <2>1. state[p] = "Live" /\ state' = state /\ \A o \in Procs : o # p => fd_types'[o] = fd_types[o]
    BY Zenon, <1>10 DEF sys_dup, TypeOK
  <2> QED
    BY Zenon, <1>1, <2>1
<1>11. ASSUME NEW p \in Procs, NEW fd \in Fds, NEW newfd \in Fds, sys_dup2(p, fd, newfd)
      PROVE  Unused'
  <2>1. state[p] = "Live" /\ \A o \in Procs : o # p => fd_types'[o] = fd_types[o]
    BY Zenon, <1>11 DEF sys_dup2, TypeOK
  <2>2. keyboard_wake(pipes') \/ UNCHANGED <<state, wake>>
    BY Zenon, <1>11 DEF sys_dup2
  <2>3. \A o \in Procs : state'[o] = "Empty" => state[o] = "Empty"
    BY Zenon, <2>2, <1>2 DEF keyboard_wake
  <2> QED
    BY Zenon, <1>1, <2>1, <2>3
<1>12. ASSUME NEW p \in Procs, NEW child \in Procs, sys_fork(p, child)
      PROVE  Unused'
  BY Zenon, <1>12 DEF sys_fork, TypeOK, Unused
<1>13. CASE ConsoleWake \/ SignalWake
  BY Zenon, <1>13, <1>2, <1>3 DEF ConsoleWake, SignalWake, keyboard_wake
<1> QED
  BY Zenon, <1>0, <1>4, <1>5, <1>6, <1>7, <1>8, <1>9, <1>10, <1>11, <1>12, <1>13 DEF Next

-----------------------------------------------------------------------------
(* The counts are exact *)

CountInv == TypeOK /\ Unused /\ CountOK(pipes, fd_types)

\* Every step keeps the counts exact, when no program calls dup with a full table.
LEMMA CountStep ==
  ASSUME ~DupWhenFull, CountInv, [Next]_vars
  PROVE  CountOK(pipes', fd_types')
<1> USE DEF CountInv
<1>0. CASE UNCHANGED vars
  BY Zenon, <1>0 DEF vars
<1>1. pipes \in [PipeIdx -> Pipe] /\ fd_types \in Table
  BY Zenon DEF TypeOK, Table
<1>2. ASSUME NEW p \in Procs, sys_pipe(p)
      PROVE  CountOK(pipes', fd_types')
  <2>1. PICK i \in PipeIdx : \E r \in Fds : \E w \in Fds :
           /\ ~pipes[i].some /\ r # w /\ fd_types[p][r] = NoFd /\ fd_types[p][w] = NoFd
           /\ pipes' = [pipes EXCEPT ![i] = NewPipe]
           /\ fd_types' = [o \in Procs |-> [f \in Fds |->
               IF o = p /\ f = w THEN End(i, TRUE) ELSE IF o = p /\ f = r THEN End(i, FALSE)
               ELSE fd_types[o][f]]]
    BY Zenon, <1>2, PipeEffect
  <2>2. PICK r \in Fds : \E w \in Fds :
           /\ ~pipes[i].some /\ r # w /\ fd_types[p][r] = NoFd /\ fd_types[p][w] = NoFd
           /\ pipes' = [pipes EXCEPT ![i] = NewPipe]
           /\ fd_types' = [o \in Procs |-> [f \in Fds |->
               IF o = p /\ f = w THEN End(i, TRUE) ELSE IF o = p /\ f = r THEN End(i, FALSE)
               ELSE fd_types[o][f]]]
    BY <2>1, Zenon
  <2>3. PICK w \in Fds :
           /\ ~pipes[i].some /\ r # w /\ fd_types[p][r] = NoFd /\ fd_types[p][w] = NoFd
           /\ pipes' = [pipes EXCEPT ![i] = NewPipe]
           /\ fd_types' = [o \in Procs |-> [f \in Fds |->
               IF o = p /\ f = w THEN End(i, TRUE) ELSE IF o = p /\ f = r THEN End(i, FALSE)
               ELSE fd_types[o][f]]]
    BY <2>2, Zenon
  <2>4. fd_types' = Put(Put(fd_types, p, r, End(i, FALSE)), p, w, End(i, TRUE))
    BY Zenon, <1>1, <2>3 DEF Put, Table
  <2>5. ~pipes[i].some /\ r # w /\ fd_types[p][r] = NoFd /\ fd_types[p][w] = NoFd
    BY Zenon, <2>3
  <2>6. CountOK([pipes EXCEPT ![i] = NewPipe], Put(Put(fd_types, p, r, End(i, FALSE)), p, w, End(i, TRUE)))
    BY Zenon, <1>1, <2>5, PipeCounts
  <2> QED
    BY <2>3, <2>4, <2>6, Zenon
<1>3. ASSUME NEW p \in Procs, drop(p)
      PROVE  CountOK(pipes', fd_types')
  BY Zenon, <1>1, <1>3, DropCounts DEF drop, Cleared
<1>4. ASSUME NEW p \in Procs, NEW fd \in Fds, NEW count \in 1..MaxWrite, sys_read(p, fd, count)
      PROVE  CountOK(pipes', fd_types')
  <2> DEFINE e == fd_types[p][fd]
  <2>1. e.pipe \in PipeIdx /\ pipes[e.pipe].some /\ UNCHANGED fd_types
    BY Zenon, <1>4, ReadEffect
  <2>2. CASE UNCHANGED pipes
    BY Zenon, <2>1, <2>2
  <2> DEFINE q == pipes[e.pipe]
  <2>3. CASE \E r \in Pipe : /\ pipes' = [pipes EXCEPT ![e.pipe] = r]
                           /\ r.some /\ r.refcount = q.refcount /\ r.nwrite = q.nwrite
                           /\ r.read_open = q.read_open /\ r.write_open = q.write_open
                           /\ q.nread < r.nread /\ r.nread <= q.nwrite
    <3>1. PICK r \in Pipe : pipes' = [pipes EXCEPT ![e.pipe] = r] /\ r.some /\ r.refcount = pipes[e.pipe].refcount
      BY Zenon, <2>3
    <3> HIDE DEF e
    <3> QED
      BY Zenon, <1>1, <2>1, <3>1, SameCounts
  <2> QED
    BY Zenon, <1>4, <2>2, <2>3, ReadEffect
<1>5. ASSUME NEW p \in Procs, NEW fd \in Fds, NEW len \in 1..MaxWrite, NEW buf \in [1..len -> Values],
             sys_write(p, fd, buf)
      PROVE  CountOK(pipes', fd_types')
  <2> DEFINE e == fd_types[p][fd]
  <2>1. e.pipe \in PipeIdx /\ pipes[e.pipe].some /\ UNCHANGED fd_types
    BY Zenon, <1>5, WriteEffect
  <2>2. CASE UNCHANGED pipes
    BY Zenon, <2>1, <2>2
  <2> DEFINE q == pipes[e.pipe]
  <2>3. CASE \E r \in Pipe : /\ pipes' = [pipes EXCEPT ![e.pipe] = r]
                           /\ r.some /\ r.refcount = q.refcount /\ r.nread = q.nread
                           /\ r.read_open = q.read_open /\ r.write_open = q.write_open
                           /\ q.nwrite < r.nwrite
    <3>1. PICK r \in Pipe : pipes' = [pipes EXCEPT ![e.pipe] = r] /\ r.some /\ r.refcount = pipes[e.pipe].refcount
      BY Zenon, <2>3
    <3> HIDE DEF e
    <3> QED
      BY Zenon, <1>1, <2>1, <3>1, SameCounts
  <2> QED
    BY Zenon, <1>5, <2>2, <2>3, WriteEffect
<1>6. ASSUME NEW p \in Procs, NEW fd \in Fds, sys_close(p, fd)
      PROVE  CountOK(pipes', fd_types')
  BY Zenon, <1>1, <1>6, CloseCounts DEF sys_close, Put
<1>7. ASSUME NEW p \in Procs, NEW fd \in Fds, sys_dup(p, fd)
      PROVE  CountOK(pipes', fd_types')
  <2>1. PICK g \in Fds :
           /\ fd_types[p][g] = NoFd /\ fd_types[p][fd].pipe \in PipeIdx
           /\ fd_types' = [fd_types EXCEPT ![p][g] = fd_types[p][fd]]
           /\ pipes' = [pipes EXCEPT ![fd_types[p][fd].pipe] =
                           IF pipes[fd_types[p][fd].pipe].some
                           THEN Retain(pipes[fd_types[p][fd].pipe], 1) ELSE pipes[fd_types[p][fd].pipe]]
    BY Zenon, <1>7, DupEffect
  <2>2. <<p, fd>> \in Named(fd_types, fd_types[p][fd].pipe)
    BY Zenon, NamedPair
  <2>3. pipes[fd_types[p][fd].pipe].some
    BY Zenon, <2>1, <2>2 DEF CountOK
  <2>4. /\ pipes' = [pipes EXCEPT ![fd_types[p][fd].pipe] = Retain(pipes[fd_types[p][fd].pipe], 1)]
        /\ fd_types' = Put(fd_types, p, g, fd_types[p][fd])
    BY Zenon, <2>1, <2>3 DEF Put
  <2>5. PICK e \in FdType : e = fd_types[p][fd]
    BY Zenon DEF TypeOK
  <2>6. CountOK([pipes EXCEPT ![e.pipe] = Retain(pipes[e.pipe], 1)], Put(fd_types, p, g, e))
    BY Zenon, <1>1, <2>1, <2>3, <2>5, AddCounts
  <2> QED
    BY Zenon, <2>4, <2>5, <2>6
<1>8. ASSUME NEW p \in Procs, NEW fd \in Fds, NEW newfd \in Fds, sys_dup2(p, fd, newfd)
      PROVE  CountOK(pipes', fd_types')
  <2>1. fd_types[p][fd].pipe \in PipeIdx /\ fd # newfd
    BY SMTT(30), <1>8, Ends DEF sys_dup2, TypeOK
  <2>2. PICK closed : closed = Release(pipes, fd_types[p], {newfd})
    BY Zenon
  <2>3. /\ closed \in [PipeIdx -> Pipe] /\ closed[fd_types[p][fd].pipe].some
        /\ CountOK([closed EXCEPT ![fd_types[p][fd].pipe] = Retain(closed[fd_types[p][fd].pipe], 1)],
                   Put(fd_types, p, newfd, fd_types[p][fd]))
    BY Zenon, <1>1, <2>1, <2>2, Dup2Counts
  <2>4. /\ pipes' = [closed EXCEPT ![fd_types[p][fd].pipe] = Retain(closed[fd_types[p][fd].pipe], 1)]
        /\ fd_types' = Put(fd_types, p, newfd, fd_types[p][fd])
    BY Zenon, <1>8, <2>1, <2>2, <2>3 DEF sys_dup2, Put
  <2> QED
    BY Zenon, <2>3, <2>4
<1>9. ASSUME NEW p \in Procs, NEW child \in Procs, sys_fork(p, child)
      PROVE  CountOK(pipes', fd_types')
  <2>1. \A fd \in Fds : fd_types[child][fd] = NoFd
    BY Zenon, <1>9 DEF sys_fork, Unused
  <2>2. pipes' = Retained(pipes, fd_types[p]) /\ fd_types' = Inherit(fd_types, p, child)
    BY Zenon, <1>9 DEF sys_fork, Retained, Inherit
  <2> QED
    BY Zenon, <1>1, <2>1, <2>2, ForkCounts
<1>10. CASE ConsoleWake \/ SignalWake \/ \E p \in Procs : die(p)
  BY Zenon, <1>10 DEF ConsoleWake, SignalWake, die
<1> QED
  BY Zenon, <1>0, <1>2, <1>3, <1>4, <1>5, <1>6, <1>7, <1>8, <1>9, <1>10 DEF Next

\* At boot no pipe exists and no descriptor names one.
LEMMA CountInit == Init => CountInv
<1> SUFFICES ASSUME Init PROVE CountInv
  BY Zenon
<1>1. TypeOK /\ Unused
  BY PipesAssumption, Fresh, Ends DEF Init, TypeOK, Unused
<1>2. ASSUME NEW i \in PipeIdx
      PROVE  ~pipes[i].some /\ Named(fd_types, i) = {}
  <2>1. ~pipes[i].some
    BY Zenon, Fresh DEF Init
  <2>2. \A p \in Procs, fd \in Fds : fd_types[p][fd].pipe # i
    BY Zenon, Ends DEF Init
  <2> QED
    BY Zenon, <2>1, <2>2 DEF Named
<1> QED
  BY Zenon, <1>1, <1>2 DEF CountInv, CountOK

\* A pipe is referenced by the descriptors that name it.
LEMMA ReferencesNamed ==
  ASSUME TypeOK, NEW i \in PipeIdx
  PROVE  References(i) = Cardinality(Named(fd_types, i))
<1>0. /\ End(i, FALSE) # NoFd /\ End(i, TRUE) # NoFd /\ NoFd.pipe # i
      /\ End(i, FALSE).pipe = i /\ End(i, TRUE).pipe = i
  BY Zenon, Ends
<1>1. ASSUME NEW h \in Procs \X Fds
      PROVE  fd_types[h[1]][h[2]].pipe = i <=>
               fd_types[h[1]][h[2]] = End(i, FALSE) \/ fd_types[h[1]][h[2]] = End(i, TRUE)
  <2>1. fd_types[h[1]][h[2]] \in FdType
    BY Zenon DEF TypeOK
  <2>2. PICK e \in FdType : e = fd_types[h[1]][h[2]]
    BY Zenon, <2>1
  <2>3. CASE e = NoFd
    BY Zenon, <1>0, <2>2, <2>3
  <2>4. CASE e # NoFd
    <3>1. e = End(e.pipe, e.writable) /\ (e.writable = TRUE \/ e.writable = FALSE)
      BY Zenon, <2>4, Ends
    <3>2. e.pipe = i => e = End(i, FALSE) \/ e = End(i, TRUE)
      <4>1. CASE e.writable = TRUE
        BY <3>1, <4>1, Zenon
      <4>2. CASE e.writable = FALSE
        BY <3>1, <4>2, Zenon
      <4> QED
        BY Zenon, <3>1, <4>1, <4>2
    <3> QED
      BY Zenon, <1>0, <2>2, <3>2
  <2> QED
    BY Zenon, <2>3, <2>4
<1>2. Holders(End(i, FALSE)) \cup Holders(End(i, TRUE)) = Named(fd_types, i)
  BY Zenon, <1>1 DEF Holders, Named
<1> QED
  BY Zenon, <1>2 DEF References

\* Reference counts are exact, whatever processes do to shared pipes, as long as no
\* program calls dup with a full descriptor table (RefcountIsExact).
THEOREM RefcountExact == ASSUME ~DupWhenFull PROVE Spec => []RefcountIsExact
<1>1. CountInv /\ [Next]_vars => CountInv'
  BY Zenon, TypeStep, UnusedStep, CountStep DEF CountInv
<1>2. CountInv => RefcountIsExact
  <2> SUFFICES ASSUME CountInv, NEW i \in PipeIdx
               PROVE  IF pipes[i].some THEN pipes[i].refcount = References(i) /\ References(i) > 0
                                       ELSE References(i) = 0
    BY Zenon DEF RefcountIsExact
  <2>1. References(i) = Cardinality(Named(fd_types, i))
    BY Zenon, ReferencesNamed DEF CountInv
  <2> QED
    BY <2>1, NamedFinite DEF CountInv, CountOK
<1> QED
  BY <1>1, <1>2, CountInit, PTL DEF Spec

-----------------------------------------------------------------------------
(* An end that is marked open is held *)

\* Pipes qs have no end open that ps has not; tables u keep what t names.
NoneOpened(ps, qs) == \A i \in PipeIdx : \A w \in BOOLEAN : Open(qs[i], w) => Open(ps[i], w)
KeepsEnds(t, u) == \A p \in Procs, fd \in Fds : t[p][fd] # NoFd => u[p][fd] = t[p][fd]

\* dup, fork, read and write open no end and forget no descriptor.
LEMMA OpenKept ==
  ASSUME NEW ps, NEW qs, NEW t, NEW u, OpenOK(ps, t), NoneOpened(ps, qs), KeepsEnds(t, u)
  PROVE  OpenOK(qs, u)
<1> SUFFICES ASSUME NEW i \in PipeIdx, NEW w \in BOOLEAN, Open(qs[i], w)
             PROVE  Held(u, i, w)
  BY Zenon DEF OpenOK
<1>1. Held(t, i, w)
  BY Zenon DEF OpenOK, NoneOpened
<1>2. PICK p \in Procs, fd \in Fds : t[p][fd] = End(i, w)
  BY Zenon, <1>1 DEF Held
<1>3. u[p][fd] = End(i, w)
  BY SMTT(30), <1>2, Ends DEF KeepsEnds
<1> QED
  BY Zenon, <1>3 DEF Held

\* An end that Release leaves open was open, and is not among the released ones.
LEMMA ReleasedOpen ==
  ASSUME NEW ps \in [PipeIdx -> Pipe], NEW f \in [Fds -> FdType], NEW S \in SUBSET Fds,
         NEW i \in PipeIdx, NEW w \in BOOLEAN, Open(Release(ps, f, S)[i], w)
  PROVE  Open(ps[i], w) /\ \A fd \in S : f[fd] # End(i, w)
<1>1. PICK r, n : /\ r = Release(ps, f, S)[i] /\ n = Cardinality(On(f, S, i))
                  /\ ReleasedOne(ps, f, S, i, r, n)
  BY Zenon, ReleaseEffect
<1>2. Open(r, w)
  BY Zenon, <1>1
<1>3. n \in Nat /\ (n = 0 <=> On(f, S, i) = {})
  BY Zenon, <1>1 DEF ReleasedOne
<1>4. CASE n = 0
  <2>1. r = ps[i]
    BY Zenon, <1>1, <1>4 DEF ReleasedOne
  <2>2. ASSUME NEW fd \in S
        PROVE  f[fd] # End(i, w)
    <3>1. f[fd].pipe # i
      BY Zenon, <1>3, <1>4 DEF On
    <3> QED
      BY <3>1, Ends
  <2> QED
    BY Zenon, <1>2, <2>1, <2>2
<1>5. CASE n > 0
  <2>1. ps[i].some
    BY Zenon, <1>1, <1>2 DEF ReleasedOne, Open
  <2>2. ~(ps[i].refcount <= n)
    <3>1. ASSUME ps[i].refcount <= n
          PROVE  FALSE
      <4>1. r = NoPipe
        BY Zenon, <1>1, <1>5, <2>1, <3>1 DEF ReleasedOne
      <4> QED
        BY Zenon, <1>2, <4>1, Fresh DEF Open
    <3> QED
      BY Zenon, <3>1
  <2>3. ps[i].refcount > n
    <3>1. ps[i].refcount \in Nat
      BY DEF Pipe
    <3> QED
      BY <1>3, <2>2, <3>1
  <2>4. /\ r.read_open => ps[i].read_open /\ \A fd \in S : f[fd] # End(i, FALSE)
        /\ r.write_open => ps[i].write_open /\ \A fd \in S : f[fd] # End(i, TRUE)
    BY Zenon, <1>1, <1>5, <2>1, <2>3 DEF ReleasedOne
  <2>5. CASE w = TRUE
    <3>1. r.write_open
      BY <1>2, <2>5, Zenon DEF Open
    <3> QED
      BY <2>1, <2>4, <2>5, <3>1, Zenon DEF Open
  <2>6. CASE w = FALSE
    <3>1. r.read_open
      BY <1>2, <2>6, Zenon DEF Open
    <3> QED
      BY <2>1, <2>4, <2>6, <3>1, Zenon DEF Open
  <2> QED
    BY Zenon, <2>5, <2>6
<1> QED
  BY <1>3, <1>4, <1>5

\* close: an end still marked open is held by another descriptor.
LEMMA CloseOpen ==
  ASSUME NEW ps \in [PipeIdx -> Pipe], NEW t \in Table, NEW p \in Procs, NEW fd \in Fds, OpenOK(ps, t)
  PROVE  OpenOK(Release(ps, t[p], {fd}), Put(t, p, fd, NoFd))
<1> SUFFICES ASSUME NEW i \in PipeIdx, NEW w \in BOOLEAN, Open(Release(ps, t[p], {fd})[i], w)
             PROVE  Held(Put(t, p, fd, NoFd), i, w)
  BY Zenon DEF OpenOK
<1>1. t[p] \in [Fds -> FdType] /\ {fd} \in SUBSET Fds
  BY Zenon DEF Table
<1>2. Open(ps[i], w) /\ t[p][fd] # End(i, w)
  BY <1>1, ReleasedOpen
<1>3. PICK o \in Procs, g \in Fds : t[o][g] = End(i, w)
  BY Zenon, <1>2 DEF OpenOK, Held
<1>4. Put(t, p, fd, NoFd)[o][g] = End(i, w)
  BY Zenon, <1>2, <1>3 DEF Put, Table
<1> QED
  BY Zenon, <1>4 DEF Held

\* Drop for Process: an end still marked open is held by another process.
LEMMA DropOpen ==
  ASSUME NEW ps \in [PipeIdx -> Pipe], NEW t \in Table, NEW p \in Procs, OpenOK(ps, t)
  PROVE  OpenOK(Release(ps, t[p], Fds), Cleared(t, p))
<1> SUFFICES ASSUME NEW i \in PipeIdx, NEW w \in BOOLEAN, Open(Release(ps, t[p], Fds)[i], w)
             PROVE  Held(Cleared(t, p), i, w)
  BY Zenon DEF OpenOK
<1>1. t[p] \in [Fds -> FdType] /\ Fds \in SUBSET Fds
  BY Zenon DEF Table
<1>2. Open(ps[i], w) /\ \A fd \in Fds : t[p][fd] # End(i, w)
  BY <1>1, ReleasedOpen
<1>3. PICK o \in Procs, g \in Fds : t[o][g] = End(i, w)
  BY Zenon, <1>2 DEF OpenOK, Held
<1>4. Cleared(t, p)[o][g] = End(i, w)
  BY Zenon, <1>2, <1>3 DEF Cleared, Table
<1> QED
  BY Zenon, <1>4 DEF Held

\* pipe: both ends of the new pipe are held.
LEMMA PipeOpen ==
  ASSUME NEW ps \in [PipeIdx -> Pipe], NEW t \in Table, NEW p \in Procs, OpenOK(ps, t),
         NEW i \in PipeIdx, NEW r \in Fds, NEW w \in Fds,
         r # w, t[p][r] = NoFd, t[p][w] = NoFd
  PROVE  OpenOK([ps EXCEPT ![i] = NewPipe], Put(Put(t, p, r, End(i, FALSE)), p, w, End(i, TRUE)))
<1>1. PICK u : u = Put(Put(t, p, r, End(i, FALSE)), p, w, End(i, TRUE))
  BY Zenon
<1>2. /\ u[p][r] = End(i, FALSE) /\ u[p][w] = End(i, TRUE)
      /\ \A o \in Procs, g \in Fds : t[o][g] # NoFd => u[o][g] = t[o][g]
  BY Zenon, <1>1 DEF Put, Table
<1> SUFFICES ASSUME NEW j \in PipeIdx, NEW b \in BOOLEAN, Open([ps EXCEPT ![i] = NewPipe][j], b)
             PROVE  Held(u, j, b)
  BY Zenon, <1>1 DEF OpenOK
<1>3. CASE j = i
  <2>1. CASE b = TRUE
    BY <1>2, <1>3, <2>1, Zenon DEF Held
  <2>2. CASE b = FALSE
    BY <1>2, <1>3, <2>2, Zenon DEF Held
  <2> QED
    BY Zenon, <2>1, <2>2
<1>4. CASE j # i
  <2>1. Open(ps[j], b)
    BY Zenon, <1>4
  <2>2. PICK o \in Procs, g \in Fds : t[o][g] = End(j, b)
    BY Zenon, <2>1 DEF OpenOK, Held
  <2>3. u[o][g] = End(j, b)
    BY SMTT(30), <1>2, <2>2, Ends
  <2> QED
    BY Zenon, <2>3 DEF Held
<1> QED
  BY Zenon, <1>3, <1>4

\* Replacing a pipe by one with no other end open.
LEMMA OneOpen ==
  ASSUME NEW ps \in [PipeIdx -> Pipe], NEW i \in PipeIdx, NEW q,
         q.some = ps[i].some, q.read_open = ps[i].read_open, q.write_open = ps[i].write_open
  PROVE  NoneOpened(ps, [ps EXCEPT ![i] = q])
  BY Zenon DEF NoneOpened, Open

OpenInv == TypeOK /\ Unused /\ OpenOK(pipes, fd_types)

\* Every step leaves the open ends held.
LEMMA OpenStep ==
  ASSUME OpenInv, [Next]_vars
  PROVE  OpenOK(pipes', fd_types')
<1> USE DEF OpenInv
<1>0. CASE UNCHANGED vars
  BY Zenon, <1>0 DEF vars
<1>1. pipes \in [PipeIdx -> Pipe] /\ fd_types \in Table
  BY Zenon DEF TypeOK, Table
<1>2. ASSUME NEW p \in Procs, sys_pipe(p)
      PROVE  OpenOK(pipes', fd_types')
  <2>1. PICK i \in PipeIdx : \E r \in Fds : \E w \in Fds :
           /\ ~pipes[i].some /\ r # w /\ fd_types[p][r] = NoFd /\ fd_types[p][w] = NoFd
           /\ pipes' = [pipes EXCEPT ![i] = NewPipe]
           /\ fd_types' = [o \in Procs |-> [f \in Fds |->
               IF o = p /\ f = w THEN End(i, TRUE) ELSE IF o = p /\ f = r THEN End(i, FALSE)
               ELSE fd_types[o][f]]]
    BY Zenon, <1>2, PipeEffect
  <2>2. PICK r \in Fds : \E w \in Fds :
           /\ ~pipes[i].some /\ r # w /\ fd_types[p][r] = NoFd /\ fd_types[p][w] = NoFd
           /\ pipes' = [pipes EXCEPT ![i] = NewPipe]
           /\ fd_types' = [o \in Procs |-> [f \in Fds |->
               IF o = p /\ f = w THEN End(i, TRUE) ELSE IF o = p /\ f = r THEN End(i, FALSE)
               ELSE fd_types[o][f]]]
    BY <2>1, Zenon
  <2>3. PICK w \in Fds :
           /\ ~pipes[i].some /\ r # w /\ fd_types[p][r] = NoFd /\ fd_types[p][w] = NoFd
           /\ pipes' = [pipes EXCEPT ![i] = NewPipe]
           /\ fd_types' = [o \in Procs |-> [f \in Fds |->
               IF o = p /\ f = w THEN End(i, TRUE) ELSE IF o = p /\ f = r THEN End(i, FALSE)
               ELSE fd_types[o][f]]]
    BY <2>2, Zenon
  <2>4. fd_types' = Put(Put(fd_types, p, r, End(i, FALSE)), p, w, End(i, TRUE))
    BY Zenon, <1>1, <2>3 DEF Put, Table
  <2>5. r # w /\ fd_types[p][r] = NoFd /\ fd_types[p][w] = NoFd
    BY Zenon, <2>3
  <2>6. OpenOK([pipes EXCEPT ![i] = NewPipe], Put(Put(fd_types, p, r, End(i, FALSE)), p, w, End(i, TRUE)))
    BY Zenon, <1>1, <2>5, PipeOpen
  <2> QED
    BY <2>3, <2>4, <2>6, Zenon
<1>3. ASSUME NEW p \in Procs, drop(p)
      PROVE  OpenOK(pipes', fd_types')
  BY Zenon, <1>1, <1>3, DropOpen DEF drop, Cleared
<1>4. ASSUME NEW e, e.pipe \in PipeIdx, NEW r,
             pipes' = [pipes EXCEPT ![e.pipe] = r], UNCHANGED fd_types, r.some = pipes[e.pipe].some,
             r.read_open = pipes[e.pipe].read_open, r.write_open = pipes[e.pipe].write_open
      PROVE  OpenOK(pipes', fd_types')
  <2>1. NoneOpened(pipes, pipes')
    BY Zenon, <1>1, <1>4, OneOpen
  <2>2. KeepsEnds(fd_types, fd_types')
    BY Zenon, <1>4 DEF KeepsEnds
  <2> QED
    BY Zenon, <2>1, <2>2, OpenKept
<1>5. ASSUME NEW p \in Procs, NEW fd \in Fds, NEW count \in 1..MaxWrite, sys_read(p, fd, count)
      PROVE  OpenOK(pipes', fd_types')
  <2> DEFINE e == fd_types[p][fd]
  <2> DEFINE q == pipes[e.pipe]
  <2>1. e.pipe \in PipeIdx /\ q.some /\ UNCHANGED fd_types
    BY Zenon, <1>5, ReadEffect
  <2>2. CASE UNCHANGED pipes
    BY Zenon, <2>1, <2>2
  <2>3. CASE \E r \in Pipe : /\ pipes' = [pipes EXCEPT ![e.pipe] = r]
                           /\ r.some /\ r.refcount = q.refcount /\ r.nwrite = q.nwrite
                           /\ r.read_open = q.read_open /\ r.write_open = q.write_open
                           /\ q.nread < r.nread /\ r.nread <= q.nwrite
    <3>1. PICK r \in Pipe : /\ pipes' = [pipes EXCEPT ![e.pipe] = r] /\ r.some
                            /\ r.read_open = q.read_open /\ r.write_open = q.write_open
      BY Zenon, <2>3
    <3>2. r.some = q.some
      BY Zenon, <1>1, <2>1, <3>1 DEF Pipe
    <3> QED
      BY Zenon, <1>4, <2>1, <3>1, <3>2
  <2> QED
    BY Zenon, <1>5, <2>2, <2>3, ReadEffect
<1>6. ASSUME NEW p \in Procs, NEW fd \in Fds, NEW len \in 1..MaxWrite, NEW buf \in [1..len -> Values],
             sys_write(p, fd, buf)
      PROVE  OpenOK(pipes', fd_types')
  <2> DEFINE e == fd_types[p][fd]
  <2> DEFINE q == pipes[e.pipe]
  <2>1. e.pipe \in PipeIdx /\ q.some /\ UNCHANGED fd_types
    BY Zenon, <1>6, WriteEffect
  <2>2. CASE UNCHANGED pipes
    BY Zenon, <2>1, <2>2
  <2>3. CASE \E r \in Pipe : /\ pipes' = [pipes EXCEPT ![e.pipe] = r]
                           /\ r.some /\ r.refcount = q.refcount /\ r.nread = q.nread
                           /\ r.read_open = q.read_open /\ r.write_open = q.write_open
                           /\ q.nwrite < r.nwrite
    <3>1. PICK r \in Pipe : /\ pipes' = [pipes EXCEPT ![e.pipe] = r] /\ r.some
                            /\ r.read_open = q.read_open /\ r.write_open = q.write_open
      BY Zenon, <2>3
    <3>2. r.some = q.some
      BY Zenon, <1>1, <2>1, <3>1 DEF Pipe
    <3> QED
      BY Zenon, <1>4, <2>1, <3>1, <3>2
  <2> QED
    BY Zenon, <1>6, <2>2, <2>3, WriteEffect
<1>7. ASSUME NEW p \in Procs, NEW fd \in Fds, sys_close(p, fd)
      PROVE  OpenOK(pipes', fd_types')
  BY Zenon, <1>1, <1>7, CloseOpen DEF sys_close, Put
<1>8. ASSUME NEW ps \in [PipeIdx -> Pipe], NEW t, OpenOK(ps, t), KeepsEnds(t, fd_types'), NEW e, e.pipe \in PipeIdx,
             pipes' = [ps EXCEPT ![e.pipe] = IF ps[e.pipe].some THEN Retain(ps[e.pipe], 1) ELSE ps[e.pipe]]
      PROVE  OpenOK(pipes', fd_types')
  <2>1. PICK q : q = IF ps[e.pipe].some THEN Retain(ps[e.pipe], 1) ELSE ps[e.pipe]
    BY Zenon
  <2>2. q.some = ps[e.pipe].some /\ q.read_open = ps[e.pipe].read_open /\ q.write_open = ps[e.pipe].write_open
    <3>1. ps[e.pipe] \in Pipe
      BY Zenon, <1>8
    <3> QED
      BY <2>1, <3>1, RetainEffect
  <2>3. pipes' = [ps EXCEPT ![e.pipe] = q]
    BY Zenon, <1>8, <2>1
  <2>4. NoneOpened(ps, pipes')
    <3>1. PICK i \in PipeIdx : i = e.pipe
      BY Zenon, <1>8
    <3>2. NoneOpened(ps, [ps EXCEPT ![i] = q])
      BY Zenon, <2>2, <3>1, OneOpen
    <3> QED
      BY Zenon, <2>3, <3>1, <3>2
  <2> QED
    BY Zenon, <1>8, <2>4, OpenKept
<1>9. ASSUME NEW p \in Procs, NEW fd \in Fds, sys_dup(p, fd)
      PROVE  OpenOK(pipes', fd_types')
  <2>1. PICK e : e = fd_types[p][fd]
    BY Zenon
  <2>2. e.pipe \in PipeIdx
    BY <1>9, <2>1, Ends DEF sys_dup, TypeOK
  <2>3. pipes' = [pipes EXCEPT ![e.pipe] = IF pipes[e.pipe].some THEN Retain(pipes[e.pipe], 1) ELSE pipes[e.pipe]]
    BY Zenon, <1>1, <1>9, <2>1, <2>2 DEF sys_dup
  <2>4. KeepsEnds(fd_types, fd_types')
    <3>1. CASE FreeFds(p) = {}
      BY Zenon, <1>9, <3>1 DEF sys_dup, KeepsEnds
    <3>2. CASE FreeFds(p) # {}
      <4>1. Lowest(FreeFds(p)) \in FreeFds(p)
        BY Zenon, <3>2, LowestProperty, Numbers DEF FreeFds
      <4>2. PICK g \in Fds : g = Lowest(FreeFds(p)) /\ fd_types[p][g] = NoFd
        BY Zenon, <4>1 DEF FreeFds
      <4>3. fd_types' = [fd_types EXCEPT ![p][g] = e]
        BY Zenon, <1>9, <2>1, <3>2, <4>2 DEF sys_dup
      <4> QED
        BY Zenon, <1>1, <4>2, <4>3 DEF KeepsEnds, Table
    <3> QED
      BY Zenon, <3>1, <3>2
  <2> QED
    BY Zenon, <1>1, <1>8, <2>2, <2>3, <2>4
<1>10. ASSUME NEW p \in Procs, NEW fd \in Fds, NEW newfd \in Fds, sys_dup2(p, fd, newfd)
      PROVE  OpenOK(pipes', fd_types')
  <2>1. PICK e, closed : e = fd_types[p][fd] /\ closed = Release(pipes, fd_types[p], {newfd})
    BY Zenon
  <2>2. e.pipe \in PipeIdx
    BY SMTT(90), <1>10, <2>1, Ends DEF sys_dup2, TypeOK
  <2>3. closed \in [PipeIdx -> Pipe]
    <3>1. {newfd} \in SUBSET Fds /\ fd_types[p] \in [Fds -> FdType]
      BY Zenon DEF TypeOK
    <3> QED
      BY Zenon, <1>1, <2>1, <3>1, ReleaseType
  <2>4. pipes' = [closed EXCEPT ![e.pipe] = IF closed[e.pipe].some THEN Retain(closed[e.pipe], 1) ELSE closed[e.pipe]]
    BY Zenon, <1>10, <2>1, <2>2, <2>3 DEF sys_dup2
  <2>5. OpenOK(closed, Put(fd_types, p, newfd, NoFd))
    BY Zenon, <1>1, <2>1, CloseOpen
  <2>6. KeepsEnds(Put(fd_types, p, newfd, NoFd), fd_types')
    BY Zenon, <1>1, <1>10, <2>1 DEF sys_dup2, KeepsEnds, Put, Table
  <2> QED
    BY Zenon, <1>8, <2>2, <2>3, <2>4, <2>5, <2>6
<1>11. ASSUME NEW p \in Procs, NEW child \in Procs, sys_fork(p, child)
      PROVE  OpenOK(pipes', fd_types')
  <2>1. KeepsEnds(fd_types, fd_types')
    BY Zenon, <1>1, <1>11 DEF sys_fork, Unused, KeepsEnds, Table
  <2>2. NoneOpened(pipes, pipes')
    <3> SUFFICES ASSUME NEW i \in PipeIdx, NEW w \in BOOLEAN, Open(pipes'[i], w)
                 PROVE  Open(pipes[i], w)
      BY Zenon DEF NoneOpened
    <3>1. Cardinality(On(fd_types[p], Fds, i)) \in Nat /\ pipes[i] \in Pipe
      BY Zenon, OnFinite DEF TypeOK
    <3>2. pipes'[i] = pipes[i] \/ pipes'[i] = Retain(pipes[i], Cardinality(On(fd_types[p], Fds, i)))
      BY Zenon, <1>11 DEF sys_fork
    <3> QED
      BY SMTT(30), <3>1, <3>2, RetainEffect DEF Open
  <2> QED
    BY Zenon, <2>1, <2>2, OpenKept
<1>12. CASE ConsoleWake \/ SignalWake \/ \E p \in Procs : die(p)
  BY Zenon, <1>12 DEF ConsoleWake, SignalWake, die
<1> QED
  BY Zenon, <1>0, <1>2, <1>3, <1>5, <1>6, <1>7, <1>9, <1>10, <1>11, <1>12 DEF Next

\* When the last descriptor of an end is gone, by close, dup2 or the death of its
\* process, the end is marked closed (LastCloseIsSeen).
THEOREM LastCloseSeen == Spec => []LastCloseIsSeen
<1>1. Init => OpenInv
  <2> SUFFICES ASSUME Init PROVE OpenInv
    BY Zenon
  <2>1. TypeOK /\ Unused
    BY Zenon, CountInit DEF CountInv
  <2>2. \A i \in PipeIdx : ~pipes[i].some
    BY Zenon, Fresh DEF Init
  <2> QED
    BY Zenon, <2>1, <2>2 DEF OpenInv, OpenOK, Open
<1>2. OpenInv /\ [Next]_vars => OpenInv'
  BY Zenon, TypeStep, UnusedStep, OpenStep DEF OpenInv
<1>3. OpenInv => LastCloseIsSeen
  <2> SUFFICES ASSUME OpenInv, NEW i \in PipeIdx, pipes[i].some
               PROVE  /\ Holders(End(i, TRUE)) = {} => ~pipes[i].write_open
                      /\ Holders(End(i, FALSE)) = {} => ~pipes[i].read_open
    BY Zenon DEF LastCloseIsSeen
  <2>1. ASSUME NEW w \in BOOLEAN, Open(pipes[i], w)
        PROVE  Holders(End(i, w)) # {}
    <3>1. PICK p \in Procs, fd \in Fds : fd_types[p][fd] = End(i, w)
      BY Zenon, <2>1 DEF OpenInv, OpenOK, Held
    <3>2. <<p, fd>> \in Holders(End(i, w))
      BY Zenon, <3>1 DEF Holders
    <3> QED
      BY Zenon, <3>2
  <2>2. pipes[i].write_open => Open(pipes[i], TRUE)
    BY Zenon DEF Open
  <2>3. pipes[i].read_open => Open(pipes[i], FALSE)
    BY Zenon DEF Open
  <2>4. Open(pipes[i], TRUE) => Holders(End(i, TRUE)) # {}
    BY Zenon, <2>1
  <2>5. Open(pipes[i], FALSE) => Holders(End(i, FALSE)) # {}
    BY Zenon, <2>1
  <2> QED
    BY Zenon, <2>2, <2>3, <2>4, <2>5
<1> QED
  BY <1>1, <1>2, <1>3, PTL DEF Spec

-----------------------------------------------------------------------------
(* The ring buffers implement the queues of PipeQueue, for every pipe size *)
(* and every width of the counters.  A pipe's bytes are its window, the    *)
(* cells from nread up to nwrite modulo PIPE_SIZE; the inductive invariant *)
(* says the window never exceeds the ring, which makes the cells of a      *)
(* window and of what a write adds to it all different.                    *)
\* Positions of a ring less than its size apart are different cells.
LEMMA RingDistinct ==
  ASSUME NEW n \in Nat \ {0}, NEW a \in Nat, NEW b \in Nat, a < b, b < a + n
  PROVE  a % n # b % n
<1>1. a % n \in 0..(n - 1) /\ b % n \in 0..(n - 1) /\ (a \div n) \in Int /\ (b \div n) \in Int
  OBVIOUS
<1>2. a % n = a - n * (a \div n) /\ b % n = b - n * (b \div n)
  BY SMT
<1> DEFINE x == a \div n
           y == b \div n
           r == a % n
           s == b % n
<1>3. x \in Int /\ y \in Int /\ r \in Int /\ s \in Int /\ r = a - n * x /\ s = b - n * y
  BY <1>1, <1>2
<1> HIDE DEF x, y, r, s
<1>4. ASSUME r = s PROVE FALSE
  <2>1. PICK d \in Int : d = y - x
    BY <1>3
  <2>2. b - a = n * d
    BY <1>3, <1>4, <2>1
  <2>3. n * d > 0 /\ n * d < n
    BY <2>2
  <2>4. CASE d <= 0
    BY <2>3, <2>4
  <2>5. CASE d >= 1
    BY <2>3, <2>5
  <2> QED
    BY <2>4, <2>5
<1> QED
  BY Zenon, <1>4 DEF r, s

\* The bytes of one pipe, oldest first; Content(i) is the window of pipe i.
Window(q) == [k \in 1..(q.nwrite - q.nread) |-> q.data[(q.nread + k - 1) % PIPE_SIZE]]

\* The counters of a pipe bound at most PIPE_SIZE bytes, and none in a free slot.
Filled(q) ==
  /\ q.nread <= q.nwrite /\ q.nwrite <= q.nread + PIPE_SIZE
  /\ ~q.some => q.nread = q.nwrite

\* Every counter value names a cell of data.
LEMMA Cell ==
  ASSUME NEW a \in Nat
  PROVE  a % PIPE_SIZE \in 0..(PIPE_SIZE - 1)
BY Zenon, Wraps, PipesAssumption

\* The parts of a pipe.
LEMMA Parts ==
  ASSUME NEW q \in Pipe
  PROVE  /\ q.data \in [0..(PIPE_SIZE - 1) -> Values] /\ q.nread \in Nat /\ q.nwrite \in Nat
         /\ q.nread <= U32_MAX /\ q.nwrite <= U32_MAX /\ U32_MAX \in Nat /\ PIPE_SIZE \in Nat \ {0}
BY PipesAssumption DEF Pipe

\* The window is a sequence of bytes as long as the counters say.
LEMMA WindowSeq ==
  ASSUME NEW q \in Pipe, Filled(q)
  PROVE  /\ Window(q) \in Seq(Values) /\ Len(Window(q)) = q.nwrite - q.nread
         /\ q.nwrite - q.nread \in Nat /\ q.nwrite - q.nread <= PIPE_SIZE
         /\ \A k \in 1..(q.nwrite - q.nread) : Window(q)[k] = q.data[(q.nread + k - 1) % PIPE_SIZE]
<1>0. /\ q.data \in [0..(PIPE_SIZE - 1) -> Values] /\ q.nread \in Nat /\ q.nwrite \in Nat
      /\ PIPE_SIZE \in Nat
  BY Zenon, Parts
<1>1. q.nwrite - q.nread \in Nat /\ q.nwrite - q.nread <= PIPE_SIZE
  BY <1>0 DEF Filled
<1>2. ASSUME NEW k \in 1..(q.nwrite - q.nread)
      PROVE  q.data[(q.nread + k - 1) % PIPE_SIZE] \in Values
  <2>1. q.nread + k - 1 \in Nat
    BY <1>0, <1>1
  <2>2. (q.nread + k - 1) % PIPE_SIZE \in 0..(PIPE_SIZE - 1)
    BY Zenon, <2>1, Cell
  <2> QED
    BY Zenon, <1>0, <2>2
<1>3. Window(q) \in [1..(q.nwrite - q.nread) -> Values]
  BY Zenon, <1>2 DEF Window
<1>4. \A k \in 1..(q.nwrite - q.nread) : Window(q)[k] = q.data[(q.nread + k - 1) % PIPE_SIZE]
  BY Zenon DEF Window
<1> QED
  BY <1>1, <1>3, <1>4

\* A pipe whose counters are equal holds nothing.
LEMMA WindowEmpty ==
  ASSUME NEW q \in Pipe, q.nread = q.nwrite
  PROVE  Window(q) = <<>> /\ Filled(q)
<1>1. Filled(q) /\ q.nwrite - q.nread = 0
  BY Parts DEF Filled
<1>2. Window(q) \in Seq(Values) /\ Len(Window(q)) = 0
  BY Zenon, <1>1, WindowSeq
<1> QED
  BY Zenon, <1>1, <1>2, EmptySeq

\* What a read takes is the front of the window, and the rest is what it leaves.
LEMMA WindowTake ==
  ASSUME NEW q \in Pipe, NEW r \in Pipe, Filled(q), NEW n \in 1..(q.nwrite - q.nread),
         r.data = q.data, r.nwrite = q.nwrite, r.nread = q.nread + n, r.some = q.some
  PROVE  /\ [k \in 1..n |-> q.data[(q.nread + k - 1) % PIPE_SIZE]] = SubSeq(Window(q), 1, n)
         /\ Window(r) = SubSeq(Window(q), n + 1, Len(Window(q)))
         /\ q.some => Filled(r)
<1> DEFINE L == q.nwrite - q.nread
           D(k) == q.data[(q.nread + k - 1) % PIPE_SIZE]
           w == Window(q)
           g == [k \in 1..n |-> D(k)]
           a == SubSeq(w, 1, n)
           b == SubSeq(w, n + 1, L)
           c == Window(r)
<1>0. /\ q.nread \in Int /\ q.nwrite \in Int /\ L \in Nat /\ n \in Nat /\ n >= 1 /\ n <= L
      /\ PIPE_SIZE \in Nat /\ r.nwrite - r.nread = L - n /\ r.nread = q.nread + n
      /\ n + 1 \in Int /\ 1 \in Int
  BY SMTT(30), Parts DEF Filled
<1>1. q.some => Filled(r)
  BY <1>0 DEF Filled
<1>2. w \in Seq(Values) /\ Len(w) = L /\ \A k \in 1..L : w[k] = D(k)
  BY Zenon, WindowSeq
<1>3. c = [k \in 1..(L - n) |-> D(n + k)]
  <2>1. \A k \in 1..(L - n) : r.nread + k - 1 = q.nread + (n + k) - 1
    BY <1>0
  <2> QED
    BY Zenon, <1>0, <2>1 DEF Window
<1> HIDE DEF w, L, D, c
<1>4. \A k \in 1..L : w[k] \in Values /\ D(k) \in Values
  BY <1>2
<1>5. /\ a \in Seq(Values) /\ Len(a) = IF 1 <= n THEN n - 1 + 1 ELSE 0
      /\ \A k \in 1..(n - 1 + 1) : a[k] = w[1 + k - 1]
  <2>1. \A k \in 1..n : w[k] \in Values
    BY <1>0, <1>4
  <2> QED
    BY <1>0, <2>1, SubSeqProperties
<1>6. /\ b \in Seq(Values) /\ Len(b) = IF n + 1 <= L THEN L - (n + 1) + 1 ELSE 0
      /\ \A k \in 1..(L - (n + 1) + 1) : b[k] = w[(n + 1) + k - 1]
  <2>1. \A k \in (n + 1)..L : w[k] \in Values
    BY <1>0, <1>4
  <2> QED
    BY <1>0, <2>1, SubSeqProperties
<1> HIDE DEF a, b
<1>7. a = g
  <2>1. Len(a) = n /\ \A k \in 1..n : a[k] = D(k)
    BY <1>0, <1>2, <1>5
  <2>2. g \in [1..n -> Values]
    BY <1>0, <1>4
  <2>3. g \in Seq(Values) /\ Len(g) = n /\ \A k \in 1..n : g[k] = D(k)
    BY <1>0, <2>2
  <2> HIDE DEF g
  <2> QED
    BY Zenon, <1>5, <2>1, <2>3, SeqEqual
<1>8. c = b
  <2>1. \A k \in 1..(L - n) : n + k \in 1..L /\ (n + 1) + k - 1 = n + k
    BY <1>0
  <2>2. Len(b) = L - n /\ \A k \in 1..(L - n) : b[k] = D(n + k)
    BY SMTT(30), <1>0, <1>2, <1>6, <2>1
  <2>3. c \in [1..(L - n) -> Values] /\ L - n \in Nat
    BY <1>0, <1>3, <1>4, <2>1
  <2>4. c \in Seq(Values) /\ Len(c) = L - n /\ \A k \in 1..(L - n) : c[k] = D(n + k)
    BY <1>3, <2>3
  <2> QED
    BY Zenon, <1>6, <2>2, <2>4, SeqEqual
<1> QED
  BY Zenon, <1>1, <1>2, <1>7, <1>8 DEF a, b, c, w, L, D

\* As many successive positions as the ring has cells are all different cells.
LEMMA RingInjective ==
  ASSUME NEW n \in Nat \ {0}, NEW x \in Nat, NEW i \in 1..n, NEW j \in 1..n,
         (x + i - 1) % n = (x + j - 1) % n
  PROVE  i = j
<1>1. /\ i \in Nat /\ j \in Nat /\ x + i - 1 \in Nat /\ x + j - 1 \in Nat
      /\ x + j - 1 < (x + i - 1) + n /\ x + i - 1 < (x + j - 1) + n
  OBVIOUS
<1>2. ~(x + i - 1 < x + j - 1) /\ ~(x + j - 1 < x + i - 1)
  BY Zenon, <1>1, RingDistinct
<1> QED
  BY <1>1, <1>2

\* The positions of a pipe: k-th byte of the window, and k-th byte stored behind it.
LEMMA Positions ==
  ASSUME NEW q \in Pipe, Filled(q), NEW m \in Nat, q.nwrite + m <= q.nread + PIPE_SIZE
  PROVE  LET L == q.nwrite - q.nread
             In(k) == (q.nread + k - 1) % PIPE_SIZE
         IN /\ L \in Nat /\ L + m \in Nat /\ L + m <= PIPE_SIZE
            /\ \A k \in 1..(L + m) : In(k) \in 0..(PIPE_SIZE - 1)
            /\ \A i, j \in 1..(L + m) : In(i) = In(j) => i = j
            /\ \A k \in 1..m : (q.nwrite + k - 1) % PIPE_SIZE = In(L + k)
<1>1. PICK x : x = q.nread
  BY Zenon
<1>2. PICK y : y = q.nwrite
  BY Zenon
<1>3. /\ x \in Nat /\ y \in Nat /\ PIPE_SIZE \in Nat \ {0} /\ x <= y /\ y + m <= x + PIPE_SIZE
  BY Zenon, <1>1, <1>2, Parts DEF Filled
<1>4. y - x \in Nat /\ (y - x) + m \in Nat /\ (y - x) + m <= PIPE_SIZE
  BY <1>3
<1>5. ASSUME NEW k \in 1..((y - x) + m)
      PROVE  (x + k - 1) % PIPE_SIZE \in 0..(PIPE_SIZE - 1)
  <2>1. x + k - 1 \in Nat
    BY <1>3
  <2> QED
    BY Zenon, <2>1, Cell
<1>6. ASSUME NEW i \in 1..((y - x) + m), NEW j \in 1..((y - x) + m),
             (x + i - 1) % PIPE_SIZE = (x + j - 1) % PIPE_SIZE
      PROVE  i = j
  <2>1. i \in 1..PIPE_SIZE /\ j \in 1..PIPE_SIZE
    BY <1>3
  <2> QED
    BY Zenon, <1>3, <1>6, <2>1, RingInjective
<1>7. ASSUME NEW k \in 1..m
      PROVE  (y + k - 1) % PIPE_SIZE = (x + ((y - x) + k) - 1) % PIPE_SIZE
  <2>1. y + k - 1 = x + ((y - x) + k) - 1
    BY <1>3
  <2> QED
    BY Zenon, <2>1
<1> QED
  BY <1>1, <1>2, <1>4, <1>5, <1>6, <1>7, Zenon

\* Storing bytes that fit puts them behind the window, over none of it.
LEMMA WindowStore ==
  ASSUME NEW q \in Pipe, Filled(q), q.some, NEW s \in Seq(Values), Len(s) > 0,
         q.nwrite + Len(s) <= U32_MAX, q.nwrite + Len(s) <= q.nread + PIPE_SIZE
  PROVE  Window(Stored(q, s)) = Window(q) \o s /\ Filled(Stored(q, s))
<1> DEFINE L == q.nwrite - q.nread
           m == Len(s)
           At(k) == (q.nwrite + k - 1) % PIPE_SIZE
           In(k) == (q.nread + k - 1) % PIPE_SIZE
           d == [j \in DOMAIN q.data |-> IF \E k \in 1..m : At(k) = j
                                         THEN s[CHOOSE k \in 1..m : At(k) = j] ELSE q.data[j]]
           r == Stored(q, s)
           w == Window(q)
           v == Window(r)
<1>0. DOMAIN q.data = 0..(PIPE_SIZE - 1) /\ m \in Nat
  BY Parts
<1>1. /\ L \in Nat /\ L + m \in Nat /\ L + m <= PIPE_SIZE
      /\ \A k \in 1..(L + m) : In(k) \in 0..(PIPE_SIZE - 1)
      /\ \A i, j \in 1..(L + m) : In(i) = In(j) => i = j
      /\ \A k \in 1..m : At(k) = In(L + k)
  BY Zenon, <1>0, Positions
<1>2. /\ r \in Pipe /\ r.nwrite = q.nwrite + m /\ r.nread = q.nread /\ r.some
  BY Zenon, StoredEffect
<1>3. r.data = d
  BY Zenon DEF Stored, Pipe
<1>4. Filled(r) /\ r.nwrite - r.nread = L + m
  BY <1>0, <1>2, Parts DEF Filled
<1>5. w \in Seq(Values) /\ Len(w) = L /\ \A k \in 1..L : w[k] = q.data[In(k)]
  BY Zenon, WindowSeq
<1>6. v \in Seq(Values) /\ Len(v) = L + m /\ \A k \in 1..(L + m) : v[k] = d[In(k)]
  <2> HIDE DEF r, d
  <2> QED
    BY ZenonT(40), <1>2, <1>3, <1>4, WindowSeq
<1> HIDE DEF In, At, r, w, v, L, m
<1>7. ASSUME NEW k \in 1..L
      PROVE  d[In(k)] = q.data[In(k)]
  <2>1. k \in 1..(L + m) /\ In(k) \in DOMAIN q.data
    BY <1>0, <1>1
  <2>2. ASSUME NEW j \in 1..m
        PROVE  At(j) # In(k)
    <3>1. L + j \in 1..(L + m) /\ L + j # k
      BY <1>0, <1>1
    <3> QED
      BY Zenon, <1>1, <2>1, <3>1
  <2> QED
    BY Zenon, <2>1, <2>2
<1>8. ASSUME NEW k \in 1..m
      PROVE  d[In(L + k)] = s[k]
  <2>1. L + k \in 1..(L + m) /\ In(L + k) \in DOMAIN q.data /\ At(k) = In(L + k)
    BY <1>0, <1>1
  <2>2. ASSUME NEW j \in 1..m, At(j) = At(k)
        PROVE  j = k
    <3>1. L + j \in 1..(L + m) /\ In(L + j) = In(L + k) /\ L + j = L + k
      BY <1>0, <1>1, <2>1, <2>2
    <3> QED
      BY <1>0, <1>1, <3>1
  <2>3. (CHOOSE j \in 1..m : At(j) = At(k)) = k
    <3>1. /\ (CHOOSE j \in 1..m : At(j) = At(k)) \in 1..m
          /\ At(CHOOSE j \in 1..m : At(j) = At(k)) = At(k)
      BY Zenon
    <3> QED
      BY Zenon, <2>2, <3>1
  <2>4. d[At(k)] = s[CHOOSE j \in 1..m : At(j) = At(k)]
    BY Zenon, <2>1
  <2> QED
    BY Zenon, <2>1, <2>3, <2>4
<1> HIDE DEF d
<1>9. /\ w \o s \in Seq(Values) /\ Len(w \o s) = L + m
      /\ \A n \in 1..(L + m) : (w \o s)[n] = IF n <= L THEN w[n] ELSE s[n - L]
  BY Zenon, <1>5, ConcatProperties DEF m
<1>10. ASSUME NEW n \in 1..(L + m)
       PROVE  v[n] = (w \o s)[n]
  <2>1. v[n] = d[In(n)] /\ n \in Int
    BY <1>1, <1>6
  <2>2. CASE n <= L
    <3>1. n \in 1..L
      BY <1>1, <2>2
    <3> QED
      BY Zenon, <1>5, <1>7, <1>9, <2>1, <2>2, <3>1
  <2>3. CASE ~(n <= L)
    <3>1. n - L \in 1..m /\ L + (n - L) = n
      BY <1>0, <1>1, <2>1, <2>3
    <3>2. (w \o s)[n] = s[n - L]
      BY Zenon, <1>9, <2>3
    <3> QED
      BY Zenon, <1>8, <2>1, <3>1, <3>2
  <2> QED
    BY Zenon, <2>2, <2>3
<1>11. v = w \o s
  BY Zenon, <1>6, <1>9, <1>10, SeqEqual
<1> QED
  BY Zenon, <1>4, <1>11 DEF v, w, r

-----------------------------------------------------------------------------
(* What a step does to the windows *)

\* r holds the bytes of q; reference counts and ends may differ.
KeepsBytes(q, r) == r.data = q.data /\ r.nread = q.nread /\ r.nwrite = q.nwrite /\ r.some = q.some

\* Every pipe keeps its bytes or ends up empty.
Discards(ps, qs) == \A i \in PipeIdx : KeepsBytes(ps[i], qs[i]) \/ qs[i].nread = qs[i].nwrite

\* The contents of all pipes; none holds more than its ring
Windows(ps) == [i \in PipeIdx |-> Window(ps[i])]
AllFilled(ps) == \A i \in PipeIdx : Filled(ps[i])

\* Closing descriptors empties the pipes it frees and keeps the bytes of the others.
LEMMA ReleaseDiscards ==
  ASSUME NEW ps \in [PipeIdx -> Pipe], NEW f, NEW S
  PROVE  Discards(ps, Release(ps, f, S))
<1> SUFFICES ASSUME NEW i \in PipeIdx
             PROVE  \/ KeepsBytes(ps[i], Release(ps, f, S)[i])
                    \/ Release(ps, f, S)[i].nread = Release(ps, f, S)[i].nwrite
  BY Zenon DEF Discards
<1>1. PICK n : n = Cardinality(On(f, S, i))
  BY Zenon
<1>2. PICK ro : ro = \A fd \in S : f[fd] # End(i, FALSE)
  BY Zenon
<1>3. PICK wo : wo = \A fd \in S : f[fd] # End(i, TRUE)
  BY Zenon
<1>4. PICK q : q = ps[i]
  BY Zenon
<1>5. Release(ps, f, S)[i] = IF n = 0 \/ ~q.some THEN q
                            ELSE IF q.refcount <= n THEN NoPipe
                            ELSE [q EXCEPT !.refcount = @ - n, !.read_open = @ /\ ro, !.write_open = @ /\ wo]
  BY Zenon, <1>1, <1>2, <1>3, <1>4 DEF Release
<1>6. NoPipe.nread = 0 /\ NoPipe.nwrite = 0
  BY Zenon DEF NoPipe
<1>7. q \in Pipe
  BY Zenon, <1>4
<1>8. KeepsBytes(q, [q EXCEPT !.refcount = @ - n, !.read_open = @ /\ ro, !.write_open = @ /\ wo])
  BY Zenon, <1>7 DEF KeepsBytes, Pipe
<1>9. KeepsBytes(q, q)
  BY Zenon DEF KeepsBytes
<1> QED
  BY Zenon, <1>4, <1>5, <1>6, <1>8, <1>9

\* Taking references keeps the bytes.
LEMMA RetainKeeps ==
  ASSUME NEW q \in Pipe, NEW n \in Nat
  PROVE  KeepsBytes(q, IF q.some THEN Retain(q, n) ELSE q)
BY RetainEffect DEF KeepsBytes

\* One pipe that keeps its bytes, in a table where the others may be emptied.
LEMMA DiscardsOne ==
  ASSUME NEW ps \in [PipeIdx -> Pipe], NEW qs \in [PipeIdx -> Pipe], Discards(ps, qs),
         NEW i \in PipeIdx, NEW r, KeepsBytes(qs[i], r)
  PROVE  Discards(ps, [qs EXCEPT ![i] = r])
BY Zenon DEF Discards, KeepsBytes

\* A table of pipes keeps its own bytes.
LEMMA DiscardsNone ==
  ASSUME NEW ps
  PROVE  Discards(ps, ps)
BY Zenon DEF Discards, KeepsBytes

\* The wrapped end of a pipe's room is never past the cell before nread.
LEMMA WrapsDown ==
  ASSUME NEW q \in Pipe
  PROVE  WrappingEnd(q) \in Nat /\ WrappingEnd(q) <= q.nread + PIPE_SIZE
<1>1. /\ q.nread + PIPE_SIZE \in Nat /\ U32_MAX + 1 \in Nat \ {0}
  BY Parts
<1>2. ASSUME NEW a \in Nat, NEW b \in Nat \ {0}
      PROVE  a % b \in Nat /\ a % b <= a
  OBVIOUS
<1> QED
  BY Zenon, <1>1, <1>2 DEF WrappingEnd

\* A read that takes n bytes from pipe i.
Taken(i, n) ==
  /\ pipes[i].some /\ pipes' = [pipes EXCEPT ![i].nread = @ + n]
  /\ got' = [k \in 1..n |-> pipes[i].data[(pipes[i].nread + k - 1) % PIPE_SIZE]]

\* A write that stores s in pipe i.
Added(i, s) ==
  /\ pipes[i].some /\ Len(s) > 0 /\ pipes[i].nwrite + Len(s) <= U32_MAX
  /\ pipes[i].nwrite + Len(s) <= pipes[i].nread + PIPE_SIZE
  /\ pipes' = [pipes EXCEPT ![i] = Stored(pipes[i], s)] /\ UNCHANGED got

\* What a step does to the bytes: a read, a write, or pipes that go away
Takes == \E i \in PipeIdx : \E n \in 1..(pipes[i].nwrite - pipes[i].nread) : Taken(i, n)
Adds == \E i \in PipeIdx : \E s \in Seq(Values) : Added(i, s)
Loses == Discards(pipes, pipes') /\ UNCHANGED got

\* A read takes from the front or changes no pipe.
LEMMA ReadKind ==
  ASSUME TypeOK, NEW p \in Procs, NEW fd \in Fds, NEW count \in 1..MaxWrite, sys_read(p, fd, count)
  PROVE  Takes \/ Loses
<1>1. PICK i : i = fd_types[p][fd].pipe
  BY Zenon
<1>2. i \in PipeIdx
  <2>1. fd_types[p][fd] \in FdType /\ fd_types[p][fd] # NoFd
    BY Zenon DEF TypeOK, sys_read
  <2> QED
    BY Zenon, <1>1, <2>1, Ends
<1>3. pipes[i] \in Pipe
  BY Zenon, <1>2 DEF TypeOK
<1>4. PICK n : n = IF count < pipes[i].nwrite - pipes[i].nread THEN count ELSE pipes[i].nwrite - pipes[i].nread
  BY Zenon
<1>5. CASE /\ pipes[i].nread < pipes[i].nwrite
           /\ got' = [k \in 1..n |-> pipes[i].data[(pipes[i].nread + k - 1) % PIPE_SIZE]]
           /\ pipes' = [pipes EXCEPT ![i].nread = @ + n]
  <2>1. n \in 1..(pipes[i].nwrite - pipes[i].nread)
    <3>1. pipes[i].nread \in Nat /\ pipes[i].nwrite \in Nat /\ count \in Nat /\ count >= 1
      BY <1>3, Parts, PipesAssumption
    <3> QED
      BY <1>4, <1>5, <3>1
  <2>2. pipes[i].some
    BY Zenon, <1>1 DEF sys_read
  <2>3. Taken(i, n)
    BY <1>5, <2>2, Zenon DEF Taken
  <2> QED
    BY <1>2, <2>1, <2>3, Zenon DEF Takes
<1>6. CASE UNCHANGED <<pipes, got>>
  BY Zenon, <1>6, DiscardsNone DEF Loses
<1> QED
  BY <1>1, <1>4, <1>5, <1>6, Zenon DEF sys_read

\* A write stores bytes that fit or changes no pipe.
LEMMA WriteKind ==
  ASSUME TypeOK, NEW p \in Procs, NEW fd \in Fds, NEW len \in 1..MaxWrite, NEW buf \in [1..len -> Values],
         sys_write(p, fd, buf)
  PROVE  Adds \/ Loses
<1>1. PICK i : i = fd_types[p][fd].pipe
  BY Zenon
<1>2. i \in PipeIdx
  <2>1. fd_types[p][fd] \in FdType /\ fd_types[p][fd] # NoFd
    BY Zenon DEF TypeOK, sys_write
  <2> QED
    BY Zenon, <1>1, <2>1, Ends
<1>3. PICK q \in Pipe : q = pipes[i]
  BY Zenon, <1>2 DEF TypeOK
<1>4. PICK k : k = IF Len(buf) < Room(q) THEN Len(buf) ELSE Room(q)
  BY Zenon
<1>5. q.some /\ UNCHANGED got
  BY Zenon, <1>1, <1>3 DEF sys_write
<1>6. CASE k > 0 /\ pipes' = [pipes EXCEPT ![i] = Stored(q, SubSeq(buf, 1, k))]
  <2>1. buf \in Seq(Values) /\ Len(buf) \in Nat
    BY PipesAssumption
  <2>2. Room(q) \in Nat /\ q.nwrite + Room(q) <= U32_MAX /\ (Room(q) = 0 <=> Full(q))
    BY Zenon, RoomBound
  <2>3. k \in 1..Len(buf) /\ k <= Room(q)
    BY <1>4, <1>6, <2>1, <2>2
  <2>4. PICK s \in Seq(Values) : s = SubSeq(buf, 1, k) /\ Len(s) = k
    <3>1. SubSeq(buf, 1, k) \in Seq(Values) /\ Len(SubSeq(buf, 1, k)) = k
      BY <2>1, <2>3
    <3> QED
      BY <3>1, Zenon
  <2>5. Room(q) = WrappingEnd(q) - q.nwrite
    BY <1>6, <2>2, <2>3 DEF Room
  <2>6. /\ WrappingEnd(q) \in Nat /\ WrappingEnd(q) <= q.nread + PIPE_SIZE /\ U32_MAX \in Nat
        /\ q.nread \in Nat /\ q.nwrite \in Nat /\ PIPE_SIZE \in Nat /\ Room(q) \in Nat /\ k \in Nat
    BY <2>2, <2>3, Parts, WrapsDown
  <2>7. Len(s) > 0 /\ q.nwrite + Len(s) <= U32_MAX /\ q.nwrite + Len(s) <= q.nread + PIPE_SIZE
    BY SMTT(30), <1>6, <2>2, <2>3, <2>4, <2>5, <2>6
  <2>8. Added(i, s)
    BY Zenon, <1>3, <1>5, <1>6, <2>4, <2>7 DEF Added
  <2> QED
    BY <1>2, <2>8, Zenon DEF Adds
<1>7. CASE UNCHANGED pipes
  BY Zenon, <1>5, <1>7, DiscardsNone DEF Loses
<1> QED
  BY <1>1, <1>3, <1>4, <1>6, <1>7, Zenon DEF sys_write

\* Every step takes bytes from the front of one pipe, stores bytes behind one, or
\* moves no byte and empties some pipes.
LEMMA StepKind ==
  ASSUME TypeOK, [Next]_vars
  PROVE  Takes \/ Adds \/ Loses
<1>0. pipes \in [PipeIdx -> Pipe]
  BY Zenon DEF TypeOK
<1>1. ASSUME NEW p \in Procs, sys_pipe(p)
      PROVE  Loses
  <2>1. PICK i \in PipeIdx : pipes' = [pipes EXCEPT ![i] = NewPipe]
    BY Zenon, <1>1, PipeEffect
  <2>2. UNCHANGED got
    BY Zenon, <1>1 DEF sys_pipe
  <2>3. NewPipe.nread = NewPipe.nwrite
    BY Zenon, Fresh
  <2> QED
    BY Zenon, <1>0, <2>1, <2>2, <2>3, DiscardsNone DEF Loses, Discards
<1>2. ASSUME NEW p \in Procs, die(p)
      PROVE  Loses
  BY Zenon, <1>2, DiscardsNone DEF die, Loses
<1>3. ASSUME NEW p \in Procs, drop(p)
      PROVE  Loses
  BY Zenon, <1>0, <1>3, ReleaseDiscards DEF drop, Loses
<1>4. ASSUME NEW p \in Procs, NEW fd \in Fds, sys_close(p, fd)
      PROVE  Loses
  BY Zenon, <1>0, <1>4, ReleaseDiscards DEF sys_close, Loses
<1>5. ASSUME NEW p \in Procs, NEW fd \in Fds, sys_dup(p, fd)
      PROVE  Loses
  <2>1. PICK i : i = fd_types[p][fd].pipe
    BY Zenon
  <2>2. i \in PipeIdx
    <3>1. fd_types[p][fd] \in FdType /\ fd_types[p][fd] # NoFd
      BY Zenon, <1>5 DEF TypeOK, sys_dup
    <3> QED
      BY Zenon, <2>1, <3>1, Ends
  <2>3. PICK r : r = IF pipes[i].some THEN Retain(pipes[i], 1) ELSE pipes[i]
    BY Zenon
  <2>4. KeepsBytes(pipes[i], r)
    BY Zenon, <1>0, <2>2, <2>3, RetainKeeps
  <2>5. pipes' = [pipes EXCEPT ![i] = r] /\ UNCHANGED got
    BY Zenon, <1>0, <1>5, <2>1, <2>2, <2>3 DEF sys_dup
  <2>6. Discards(pipes, [pipes EXCEPT ![i] = r])
    BY Zenon, <1>0, <2>2, <2>4, DiscardsNone, DiscardsOne
  <2> QED
    BY Zenon, <2>5, <2>6 DEF Loses
<1>6. ASSUME NEW p \in Procs, NEW fd \in Fds, NEW newfd \in Fds, sys_dup2(p, fd, newfd)
      PROVE  Loses
  <2>1. PICK i : i = fd_types[p][fd].pipe
    BY Zenon
  <2>2. i \in PipeIdx
    <3>1. fd_types[p][fd] \in FdType /\ fd_types[p][fd] # NoFd
      BY Zenon, <1>6 DEF TypeOK, sys_dup2
    <3> QED
      BY Zenon, <2>1, <3>1, Ends
  <2>3. PICK closed : closed = Release(pipes, fd_types[p], {newfd})
    BY Zenon
  <2>4. closed \in [PipeIdx -> Pipe] /\ Discards(pipes, closed)
    <3>1. fd_types[p] \in [Fds -> FdType] /\ {newfd} \in SUBSET Fds
      BY Zenon DEF TypeOK
    <3> QED
      BY Zenon, <1>0, <2>3, <3>1, ReleaseType, ReleaseDiscards
  <2>5. PICK r : r = IF closed[i].some THEN Retain(closed[i], 1) ELSE closed[i]
    BY Zenon
  <2>6. KeepsBytes(closed[i], r)
    BY Zenon, <2>2, <2>4, <2>5, RetainKeeps
  <2>7. pipes' = [closed EXCEPT ![i] = IF @.some THEN Retain(@, 1) ELSE @] /\ UNCHANGED got
    BY <1>6, <2>1, <2>3, Zenon DEF sys_dup2
  <2>8. pipes' = [closed EXCEPT ![i] = r]
    BY Zenon, <2>2, <2>4, <2>5, <2>7
  <2>9. Discards(pipes, [closed EXCEPT ![i] = r])
    BY Zenon, <1>0, <2>2, <2>4, <2>6, DiscardsOne
  <2> QED
    BY Zenon, <2>7, <2>8, <2>9 DEF Loses
<1>7. ASSUME NEW p \in Procs, NEW child \in Procs, sys_fork(p, child)
      PROVE  Loses
  <2>1. ASSUME NEW i \in PipeIdx
        PROVE  KeepsBytes(pipes[i], pipes'[i])
    <3>1. PICK n \in Nat : n = Cardinality(On(fd_types[p], Fds, i))
      BY Zenon, OnFinite
    <3>2. pipes'[i] = IF pipes[i].some THEN Retain(pipes[i], n) ELSE pipes[i]
      BY Zenon, <1>7, <3>1 DEF sys_fork
    <3>3. pipes[i] \in Pipe
      BY Zenon, <1>0
    <3> QED
      BY Zenon, <3>2, <3>3, RetainKeeps
  <2> QED
    BY Zenon, <1>7, <2>1 DEF sys_fork, Loses, Discards
<1>8. CASE ConsoleWake \/ SignalWake \/ UNCHANGED vars
  BY Zenon, <1>8, DiscardsNone DEF ConsoleWake, SignalWake, vars, Loses
<1>9. CASE \E p \in Procs, fd \in Fds :
             \/ \E count \in 1..MaxWrite : sys_read(p, fd, count)
             \/ \E len \in 1..MaxWrite : \E buf \in [1..len -> Values] : sys_write(p, fd, buf)
  BY <1>9, ReadKind, WriteKind, Zenon
<1> QED
  BY <1>1, <1>2, <1>3, <1>4, <1>5, <1>6, <1>7, <1>8, <1>9, Zenon DEF Next

-----------------------------------------------------------------------------
(* The refinement *)

\* The refinement mapping in terms of windows.
LEMMA QueueMapping ==
  /\ [i \in PipeIdx |-> Content(i)] = Windows(pipes)
  /\ [i \in PipeIdx |-> Content(i)]' = Windows(pipes)'
BY Zenon DEF Content, Windows, Window

\* Replacing one pipe replaces one window.
LEMMA OneWindow ==
  ASSUME NEW ps \in [PipeIdx -> Pipe], NEW i \in PipeIdx, NEW r
  PROVE  Windows([ps EXCEPT ![i] = r]) = [Windows(ps) EXCEPT ![i] = Window(r)]
<1>1. \A j \in PipeIdx : [ps EXCEPT ![i] = r][j] = IF j = i THEN r ELSE ps[j]
  BY Zenon
<1> HIDE DEF Window
<1>2. \A j \in PipeIdx : Window([ps EXCEPT ![i] = r][j]) = IF j = i THEN Window(r) ELSE Window(ps[j])
  BY Zenon, <1>1
<1> QED
  BY Zenon, <1>2 DEF Windows

\* Replacing one pipe by a filled one leaves all filled.
LEMMA OneFilled ==
  ASSUME NEW ps \in [PipeIdx -> Pipe], AllFilled(ps), NEW i \in PipeIdx, NEW r, Filled(r)
  PROVE  AllFilled([ps EXCEPT ![i] = r])
BY Zenon DEF AllFilled

\* Emptying pipes discards their bytes and keeps every pipe filled as it should be.
LEMMA LosesStep ==
  ASSUME TypeOK, TypeOK', AllFilled(pipes), Loses
  PROVE  /\ AllFilled(pipes')
         /\ \E S \in SUBSET PipeIdx :
              Windows(pipes') = [i \in PipeIdx |-> IF i \in S THEN <<>> ELSE Windows(pipes)[i]]
         /\ UNCHANGED got
<1>1. pipes \in [PipeIdx -> Pipe] /\ pipes' \in [PipeIdx -> Pipe]
  BY Zenon DEF TypeOK
<1>2. PICK S \in SUBSET PipeIdx : S = {i \in PipeIdx : pipes'[i].nread = pipes'[i].nwrite}
  BY Zenon
<1>3. ASSUME NEW i \in PipeIdx
      PROVE  /\ Window(pipes'[i]) = IF i \in S THEN <<>> ELSE Window(pipes[i])
             /\ Filled(pipes'[i])
  <2>1. CASE i \in S
    BY Zenon, <1>1, <1>2, <2>1, WindowEmpty
  <2>2. CASE i \notin S
    <3>1. KeepsBytes(pipes[i], pipes'[i])
      BY Zenon, <1>2, <2>2 DEF Loses, Discards
    <3>2. Window(pipes'[i]) = Window(pipes[i])
      BY Zenon, <3>1 DEF KeepsBytes, Window
    <3>3. Filled(pipes[i])
      BY Zenon DEF AllFilled
    <3>4. Filled(pipes'[i])
      BY Zenon, <3>1, <3>3 DEF KeepsBytes, Filled
    <3> QED
      BY Zenon, <2>2, <3>2, <3>4
  <2> QED
    BY Zenon, <2>1, <2>2
<1>4. Windows(pipes') = [i \in PipeIdx |-> IF i \in S THEN <<>> ELSE Windows(pipes)[i]]
  BY <1>3, Zenon DEF Windows
<1>5. UNCHANGED got
  BY Zenon DEF Loses
<1>6. AllFilled(pipes')
  BY Zenon, <1>3 DEF AllFilled
<1> QED
  BY <1>4, <1>5, <1>6, Zenon

\* A read takes from the front of one queue.
LEMMA TakesStep ==
  ASSUME TypeOK, TypeOK', AllFilled(pipes), Takes
  PROVE  /\ AllFilled(pipes')
         /\ \E i \in PipeIdx : \E k \in 1..Len(Windows(pipes)[i]) :
              /\ got' = SubSeq(Windows(pipes)[i], 1, k)
              /\ Windows(pipes') = [Windows(pipes) EXCEPT
                                      ![i] = SubSeq(Windows(pipes)[i], k + 1, Len(Windows(pipes)[i]))]
<1>1. pipes \in [PipeIdx -> Pipe] /\ pipes' \in [PipeIdx -> Pipe]
  BY Zenon DEF TypeOK
<1>2. PICK i \in PipeIdx : \E n \in 1..(pipes[i].nwrite - pipes[i].nread) : Taken(i, n)
  BY Zenon DEF Takes
<1>3. PICK n \in 1..(pipes[i].nwrite - pipes[i].nread) : Taken(i, n)
  BY <1>2, Zenon
<1>4. PICK q \in Pipe : q = pipes[i]
  BY Zenon, <1>1
<1>5. PICK r \in Pipe : r = pipes'[i]
  BY Zenon, <1>1
<1>6. /\ q.some /\ pipes' = [pipes EXCEPT ![i] = r]
      /\ r.data = q.data /\ r.nwrite = q.nwrite /\ r.nread = q.nread + n /\ r.some = q.some
      /\ got' = [k \in 1..n |-> q.data[(q.nread + k - 1) % PIPE_SIZE]]
  <2>1. pipes' = [pipes EXCEPT ![i] = [q EXCEPT !.nread = @ + n]]
    BY Zenon, <1>1, <1>3, <1>4 DEF Taken
  <2>2. r = [q EXCEPT !.nread = @ + n]
    BY Zenon, <1>1, <1>5, <2>1
  <2>3. r.data = q.data /\ r.nwrite = q.nwrite /\ r.nread = q.nread + n /\ r.some = q.some
    BY Zenon, <2>2 DEF Pipe
  <2>4. q.some /\ got' = [k \in 1..n |-> q.data[(q.nread + k - 1) % PIPE_SIZE]]
    BY <1>3, <1>4, Zenon DEF Taken
  <2> QED
    BY Zenon, <2>1, <2>2, <2>3, <2>4
<1>7. Filled(q) /\ n \in 1..(q.nwrite - q.nread)
  BY Zenon, <1>3, <1>4 DEF AllFilled
<1>8. /\ [k \in 1..n |-> q.data[(q.nread + k - 1) % PIPE_SIZE]] = SubSeq(Window(q), 1, n)
      /\ Window(r) = SubSeq(Window(q), n + 1, Len(Window(q))) /\ Filled(r)
  BY Zenon, <1>6, <1>7, WindowTake
<1>9. Windows(pipes)[i] = Window(q) /\ n \in 1..Len(Windows(pipes)[i])
  <2>1. Windows(pipes)[i] = Window(q)
    BY Zenon, <1>4 DEF Windows
  <2> QED
    BY Zenon, <1>7, <2>1, WindowSeq
<1>10. Windows(pipes') = [Windows(pipes) EXCEPT ![i] = Window(r)]
  <2>1. Windows([pipes EXCEPT ![i] = r]) = [Windows(pipes) EXCEPT ![i] = Window(r)]
    BY <1>1, OneWindow, Zenon
  <2> QED
    BY <1>6, <2>1, Zenon
<1>11. AllFilled(pipes')
  BY Zenon, <1>1, <1>6, <1>8, OneFilled
<1>12. /\ got' = SubSeq(Windows(pipes)[i], 1, n)
       /\ Windows(pipes') = [Windows(pipes) EXCEPT
                               ![i] = SubSeq(Windows(pipes)[i], n + 1, Len(Windows(pipes)[i]))]
  BY <1>6, <1>8, <1>9, <1>10, Zenon
<1> QED
  BY <1>9, <1>11, <1>12, Zenon

\* A write appends to one queue what fits.
LEMMA AddsStep ==
  ASSUME TypeOK, TypeOK', AllFilled(pipes), Adds
  PROVE  /\ AllFilled(pipes')
         /\ \E i \in PipeIdx : \E k \in 1..(PIPE_SIZE - Len(Windows(pipes)[i])) :
              \E s \in [1..k -> Values] :
                Windows(pipes') = [Windows(pipes) EXCEPT ![i] = Windows(pipes)[i] \o s]
         /\ UNCHANGED got
<1>1. pipes \in [PipeIdx -> Pipe]
  BY Zenon DEF TypeOK
<1>2. PICK i \in PipeIdx : \E s \in Seq(Values) : Added(i, s)
  BY Zenon DEF Adds
<1>3. PICK s \in Seq(Values) : Added(i, s)
  BY <1>2, Zenon
<1>4. PICK q \in Pipe : q = pipes[i]
  BY Zenon, <1>1
<1>5. /\ q.some /\ Len(s) > 0 /\ q.nwrite + Len(s) <= U32_MAX
      /\ q.nwrite + Len(s) <= q.nread + PIPE_SIZE
      /\ pipes' = [pipes EXCEPT ![i] = Stored(q, s)] /\ UNCHANGED got
  BY <1>3, <1>4, Zenon DEF Added
<1>6. Filled(q)
  BY Zenon, <1>4 DEF AllFilled
<1>7. Window(Stored(q, s)) = Window(q) \o s /\ Filled(Stored(q, s))
  BY Zenon, <1>5, <1>6, WindowStore
<1>8. Windows(pipes)[i] = Window(q)
  BY Zenon, <1>4 DEF Windows
<1>9. PICK k : k = Len(s)
  BY Zenon
<1>10. k \in 1..(PIPE_SIZE - Len(Windows(pipes)[i])) /\ s \in [1..k -> Values]
  <2>1. Len(Window(q)) = q.nwrite - q.nread /\ q.nread \in Nat /\ q.nwrite \in Nat /\ PIPE_SIZE \in Nat
    BY Zenon, <1>6, WindowSeq, Parts
  <2>2. k \in Nat /\ k > 0 /\ q.nwrite + k <= q.nread + PIPE_SIZE /\ s \in [1..k -> Values]
    BY <1>5, <1>9
  <2> QED
    BY SMTT(30), <1>8, <2>1, <2>2
<1>11. Windows(pipes') = [Windows(pipes) EXCEPT ![i] = Windows(pipes)[i] \o s]
  <2>1. Windows([pipes EXCEPT ![i] = Stored(q, s)]) = [Windows(pipes) EXCEPT ![i] = Window(Stored(q, s))]
    BY <1>1, OneWindow, Zenon
  <2> QED
    BY <1>5, <1>7, <1>8, <2>1, Zenon
<1>12. AllFilled(pipes')
  BY Zenon, <1>1, <1>5, <1>7, OneFilled
<1> QED
  BY <1>5, <1>10, <1>11, <1>12, Zenon

\* The inductive invariant: no pipe is read past what was written or overfilled.
QueueInv == TypeOK /\ AllFilled(pipes)

\* Every step keeps the counters of all pipes in order and is a step of the queues.
LEMMA QueueStep ==
  ASSUME QueueInv, [Next]_vars
  PROVE  QueueInv' /\ [Queues!Next]_<<[i \in PipeIdx |-> Content(i)], got>>
<1>0. TypeOK /\ TypeOK' /\ AllFilled(pipes)
  BY Zenon, TypeStep DEF QueueInv
<1> DEFINE Q == [i \in PipeIdx |-> Content(i)]
<1>1. Q = Windows(pipes) /\ Q' = Windows(pipes')
  BY Zenon, QueueMapping DEF Windows
<1>2. \A i \in PipeIdx : Content(i) = Windows(pipes)[i]
  BY Zenon, <1>1
<1> HIDE DEF Q
<1>3. CASE Loses
  <2>1. PICK S \in SUBSET PipeIdx :
          Windows(pipes') = [i \in PipeIdx |-> IF i \in S THEN <<>> ELSE Windows(pipes)[i]]
    BY Zenon, <1>0, <1>3, LosesStep
  <2>2. AllFilled(pipes') /\ UNCHANGED got
    BY Zenon, <1>0, <1>3, LosesStep
  <2>3. Q' = [i \in PipeIdx |-> IF i \in S THEN <<>> ELSE Q[i]]
    BY Zenon, <1>1, <2>1
  <2>4. Queues!Discard(S)
    BY Zenon, <2>2, <2>3 DEF Queues!Discard, Q
  <2> QED
    BY Zenon, <1>0, <2>2, <2>4 DEF QueueInv, Queues!Next
<1>4. CASE Takes
  <2>1. AllFilled(pipes')
    BY Zenon, <1>0, <1>4, TakesStep
  <2>2. PICK i \in PipeIdx : \E k \in 1..Len(Windows(pipes)[i]) :
              /\ got' = SubSeq(Windows(pipes)[i], 1, k)
              /\ Windows(pipes') = [Windows(pipes) EXCEPT
                                      ![i] = SubSeq(Windows(pipes)[i], k + 1, Len(Windows(pipes)[i]))]
    BY <1>0, <1>4, TakesStep, Zenon
  <2>3. \E k \in 1..Len(Q[i]) :
              /\ got' = SubSeq(Q[i], 1, k)
              /\ Q' = [Q EXCEPT ![i] = SubSeq(Q[i], k + 1, Len(Q[i]))]
    BY <1>1, <2>2, Zenon
  <2>4. Queues!Take(i)
    BY Zenon, <2>3 DEF Queues!Take, Q
  <2> QED
    BY Zenon, <1>0, <2>1, <2>4 DEF QueueInv, Queues!Next
<1>5. CASE Adds
  <2>1. AllFilled(pipes') /\ UNCHANGED got
    BY Zenon, <1>0, <1>5, AddsStep
  <2>2. PICK i \in PipeIdx : \E k \in 1..(PIPE_SIZE - Len(Windows(pipes)[i])) :
              \E s \in [1..k -> Values] :
                Windows(pipes') = [Windows(pipes) EXCEPT ![i] = Windows(pipes)[i] \o s]
    BY <1>0, <1>5, AddsStep, Zenon
  <2>3. \E k \in 1..(PIPE_SIZE - Len(Q[i])) :
              \E s \in [1..k -> Values] : Q' = [Q EXCEPT ![i] = Q[i] \o s]
    BY <1>1, <2>2, Zenon
  <2>4. Queues!Put(i)
    BY Zenon, <2>1, <2>3 DEF Queues!Put, Q
  <2> QED
    BY Zenon, <1>0, <2>1, <2>4 DEF QueueInv, Queues!Next
<1> QED
  BY Zenon, <1>0, <1>3, <1>4, <1>5, StepKind

\* The pipe table implements bounded first-in first-out queues, for every pipe size,
\* number of pipes, processes and descriptors and every width of the counters: a byte
\* written is read once, in order, over any interleaving of reads, writes, closes,
\* dups, forks and exits, and however far the counters have run.
THEOREM PipesImplementQueues == Spec => PipesAreQueues
<1>1. Init => QueueInv /\ Queues!Init
  <2> SUFFICES ASSUME Init PROVE QueueInv /\ Queues!Init
    BY Zenon
  <2>1. TypeOK
    BY PipesAssumption, Fresh, Ends DEF Init, TypeOK
  <2>2. \A i \in PipeIdx : pipes[i] = NoPipe
    BY Zenon DEF Init
  <2>3. NoPipe \in Pipe /\ NoPipe.nread = NoPipe.nwrite
    BY Zenon, Fresh DEF NoPipe
  <2>4. Window(NoPipe) = <<>> /\ Filled(NoPipe)
    BY Zenon, <2>3, WindowEmpty
  <2>5. [i \in PipeIdx |-> Content(i)] = [i \in PipeIdx |-> <<>>]
    BY Zenon, <2>2, <2>4, QueueMapping DEF Windows
  <2> QED
    BY Zenon, <2>1, <2>2, <2>4, <2>5 DEF Init, QueueInv, AllFilled, Queues!Init
<1>2. QueueInv /\ [Next]_vars => QueueInv' /\ [Queues!Next]_<<[i \in PipeIdx |-> Content(i)], got>>
  BY Zenon, QueueStep
<1> QED
  BY <1>1, <1>2, PTL DEF Spec, PipesAreQueues, Queues!Spec
=============================================================================
