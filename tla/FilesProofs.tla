---------------------------- MODULE FilesProofs ----------------------------
(***************************************************************************)
(* Proofs about Files: no descriptor dangles, and the names form a tree in *)
(* which every working directory lies, for any number of processes,        *)
(* descriptors, handles, names and files and whatever the programs call.   *)
(***************************************************************************)
EXTENDS Files, SequenceTheorems, WellFoundedInduction, TLAPS

\* Every handle is a record with the four fields of a handle.
HandleShape ==
  handles = [h \in Handles |-> [kind |-> handles[h].kind, ino |-> handles[h].ino,
                                entries |-> handles[h].entries, pos |-> handles[h].pos]]

Tables ==
  /\ live \subseteq Procs
  /\ fd_types \in [Procs -> [Fds -> Slots \cup {None, Std}]]
  /\ file_handles \in [Procs -> [Slots -> Handles \cup {None}]]
  /\ HandleShape

\* The slot a descriptor names is taken.
FdHasSlot ==
  \A p \in Procs, f \in Fds : fd_types[p][f] \in Slots => file_handles[p][fd_types[p][f]] # None

\* A handle that sits in a slot is in use.
SlotHasHandle ==
  \A p \in Procs, s \in Slots :
    file_handles[p][s] # None => handles[file_handles[p][s]].kind # "free"

\* The inductive invariant behind FdHasHandle.
FdInv == Tables /\ FdHasSlot /\ SlotHasHandle

-----------------------------------------------------------------------------

\* A nonempty set of naturals has the least element that Lowest chooses (the
\* first free descriptor, slot or identity).
LEMMA LowestProperty ==
  ASSUME NEW S, S \subseteq Nat, S # {}
  PROVE  Lowest(S) \in S /\ \A y \in S : Lowest(S) <= y
<1> DEFINE Below == {ss \in Nat \X Nat : ss[1] < ss[2]}
<1>1. IsWellFoundedOn(Below, Nat)
  BY Zenon, NatLessThanWellFounded DEF OpToRel
<1>2. PICK x \in S : \A y \in S : ~(<<y, x>> \in Below)
  BY Zenon, <1>1, WFMin
<1>3. ASSUME NEW y \in S
      PROVE  x <= y
  <2>1. <<y, x>> \in Nat \X Nat /\ <<y, x>>[1] = y /\ <<y, x>>[2] = x
    BY Zenon
  <2>2. ~(y < x)
    BY Zenon, <1>2, <2>1
  <2> QED
    BY <2>2
<1> QED
  BY Zenon, <1>2, <1>3 DEF Lowest

\* Induction over the naturals, for a set of them.
LEMMA SetInduction ==
  ASSUME NEW S, 0 \in S, \A n \in Nat : n \in S => n + 1 \in S
  PROVE  Nat \subseteq S
<1> DEFINE Bad == Nat \ S
<1>1. SUFFICES ASSUME Bad # {} PROVE FALSE
  BY Zenon
<1>2. Lowest(Bad) \in Bad /\ \A y \in Bad : Lowest(Bad) <= y
  BY Zenon, <1>1, LowestProperty
<1>3. PICK x \in Nat : x \notin S /\ \A y \in Nat : y \notin S => x <= y
  BY Zenon, <1>2
<1>4. x # 0
  BY Zenon, <1>3
<1>5. x - 1 \in Nat /\ (x - 1) + 1 = x /\ ~ (x <= x - 1)
  BY <1>3, <1>4
<1>6. x - 1 \in S
  BY Zenon, <1>3, <1>5
<1>7. (x - 1) + 1 \in S
  BY Zenon, <1>5, <1>6
<1> QED
  BY Zenon, <1>3, <1>5, <1>7

\* None and Std are no slot, and None is no handle.
LEMMA Distinct ==
  /\ None \notin Slots /\ Std \notin Slots /\ None \notin Handles /\ None # Std
  /\ Fds \subseteq Nat /\ Slots \subseteq Nat
  BY FilesAssumption DEF None, Std, Slots, Fds

\* Install takes a free descriptor, a free slot and a free handle of the caller.
LEMMA InstallChoice ==
  ASSUME NEW p \in Procs, FreeFds(p) # {}, FreeSlots(p) # {}, FreeHandles # {}
  PROVE  /\ Lowest(FreeFds(p)) \in Fds /\ fd_types[p][Lowest(FreeFds(p))] = None
         /\ Lowest(FreeSlots(p)) \in Slots /\ file_handles[p][Lowest(FreeSlots(p))] = None
         /\ Lowest(FreeHandles) \in Handles /\ Lowest(FreeHandles) \notin HeldHandles(file_handles)
<1>1. FreeFds(p) \subseteq Nat /\ FreeSlots(p) \subseteq Nat /\ FreeHandles \subseteq Nat
  BY Zenon, Distinct, FilesAssumption DEF FreeFds, FreeSlots, FreeHandles
<1>2. Lowest(FreeFds(p)) \in FreeFds(p)
  BY Zenon, <1>1, LowestProperty
<1>3. Lowest(FreeSlots(p)) \in FreeSlots(p)
  BY Zenon, <1>1, LowestProperty
<1>4. Lowest(FreeHandles) \in FreeHandles
  BY Zenon, <1>1, LowestProperty
<1> QED
  BY Zenon, <1>2, <1>3, <1>4 DEF FreeFds, FreeSlots, FreeHandles

\* What open hands out is a handle in use.
LEMMA OpenedKind ==
  ASSUME NEW q, NEW i
  PROVE  \E k, n, es : /\ Opened(q, i) = [kind |-> k, ino |-> n, entries |-> es, pos |-> 0]
                       /\ k # "free"
<1>1. ASSUME NEW es
      PROVE  DirHandle("fatdir", es) = [kind |-> "fatdir", ino |-> None, entries |-> es, pos |-> 0]
  BY Zenon DEF DirHandle
<1>2. ASSUME NEW es
      PROVE  DirHandle("dir", es) = [kind |-> "dir", ino |-> None, entries |-> es, pos |-> 0]
  BY Zenon DEF DirHandle
<1>3. ASSUME NEW n
      PROVE  FileHandle(n) = [kind |-> "file", ino |-> n, entries |-> <<>>, pos |-> 0]
  BY Zenon DEF FileHandle
<1>4. \/ \E es : Opened(q, i) = DirHandle("fatdir", es)
      \/ \E es : Opened(q, i) = DirHandle("dir", es)
      \/ \E n : Opened(q, i) = FileHandle(n)
  BY Zenon DEF Opened
<1>5. "fatdir" # "free" /\ "dir" # "free" /\ "file" # "free"
  BY Zenon
<1> QED
  BY <1>1, <1>2, <1>3, <1>4, <1>5, Zenon

\* Installing a handle in use keeps the invariant.
LEMMA InstallKeeps ==
  ASSUME FdInv, NEW p \in Procs, NEW k, NEW n, NEW es, k # "free", live' = live,
         Install(p, [kind |-> k, ino |-> n, entries |-> es, pos |-> 0])
  PROVE  FdInv'
<1> DEFINE new == [kind |-> k, ino |-> n, entries |-> es, pos |-> 0]
<1> DEFINE h == Lowest(FreeHandles)
<1> DEFINE s == Lowest(FreeSlots(p))
<1> DEFINE f == Lowest(FreeFds(p))
<1>1. /\ f \in Fds /\ fd_types[p][f] = None
      /\ s \in Slots /\ file_handles[p][s] = None
      /\ h \in Handles /\ h \notin HeldHandles(file_handles)
  BY Zenon, InstallChoice DEF Install
<1>2. /\ fd_types' = [fd_types EXCEPT ![p][f] = s]
      /\ file_handles' = [file_handles EXCEPT ![p][s] = h]
      /\ handles' = [handles EXCEPT ![h] = new]
  BY Zenon DEF Install
<1> HIDE DEF h, s, f
<1>3. \A q \in Procs, t \in Slots : file_handles[q][t] # h
  <2>1. h # None
    BY Zenon, <1>1, Distinct
  <2>2. ASSUME NEW q \in Procs, NEW t \in Slots, file_handles[q][t] = h
        PROVE  FALSE
    <3>1. file_handles[q][t] \in HeldHandles(file_handles)
      BY <2>1, <2>2 DEF HeldHandles
    <3> QED
      BY <1>1, <2>2, <3>1, Zenon
  <2> QED
    BY <2>2, Zenon
<1>4. Tables'
  <2>1. HandleShape'
    <3>1. handles' = [g \in Handles |-> IF g = h THEN new ELSE handles[g]]
      BY Zenon, <1>2 DEF FdInv, Tables, HandleShape
    <3>2. \A g \in Handles : handles'[g] = [kind |-> handles'[g].kind, ino |-> handles'[g].ino,
                                entries |-> handles'[g].entries, pos |-> handles'[g].pos]
      BY Zenon, <3>1 DEF FdInv, Tables, HandleShape
    <3> QED
      BY Zenon, <3>1, <3>2 DEF HandleShape
  <2> QED
    BY Zenon, <1>1, <1>2, <2>1 DEF FdInv, Tables
<1>5. FdHasSlot'
  BY Zenon, <1>1, <1>2, Distinct DEF FdInv, Tables, FdHasSlot
<1>6. SlotHasHandle'
  <2>1. SUFFICES ASSUME NEW o \in Procs, NEW t \in Slots, file_handles'[o][t] # None
                 PROVE  handles'[file_handles'[o][t]].kind # "free"
    BY Zenon DEF SlotHasHandle
  <2>2. handles' = [g \in Handles |-> IF g = h THEN new ELSE handles[g]]
    BY Zenon, <1>2 DEF FdInv, Tables, HandleShape
  <2>3. CASE o = p /\ t = s
    <3>1. file_handles'[o][t] = h
      BY Zenon, <1>1, <1>2, <2>3 DEF FdInv, Tables
    <3>2. handles'[h] = new
      BY Zenon, <1>1, <2>2
    <3> QED
      BY <3>1, <3>2
  <2>4. CASE ~ (o = p /\ t = s)
    <3>1. file_handles'[o][t] = file_handles[o][t]
      BY Zenon, <1>1, <1>2, <2>4 DEF FdInv, Tables
    <3>2. file_handles[o][t] \in Handles
      BY Zenon, <2>1, <3>1 DEF FdInv, Tables
    <3>3. handles'[file_handles[o][t]] = handles[file_handles[o][t]]
      BY Zenon, <1>3, <2>2, <3>2
    <3> QED
      BY Zenon, <2>1, <3>1, <3>3 DEF FdInv, SlotHasHandle
  <2> QED
    BY Zenon, <2>3, <2>4
<1> QED
  BY Zenon, <1>4, <1>5, <1>6 DEF FdInv

\* Dropping handles that no slot holds any more (the Arc's count reaches zero)
\* takes none that a slot still holds.
LEMMA KeptHandles ==
  ASSUME FdInv, handles' = Kept(file_handles', handles),
         file_handles' \in [Procs -> [Slots -> Handles \cup {None}]],
         \A o \in Procs, t \in Slots : file_handles'[o][t] \in {None, file_handles[o][t]}
  PROVE  HandleShape' /\ SlotHasHandle'
<1> USE DEF FdInv
<1>1. handles' = [h \in Handles |-> IF h \in HeldHandles(file_handles') THEN handles[h] ELSE FreeHandle]
  BY Zenon DEF Kept
<1>2. HandleShape'
  <2>1. ASSUME NEW h \in Handles
        PROVE  handles'[h] = [kind |-> handles'[h].kind, ino |-> handles'[h].ino,
                              entries |-> handles'[h].entries, pos |-> handles'[h].pos]
    <3>1. CASE h \in HeldHandles(file_handles')
      <4>1. handles'[h] = handles[h]
        BY Zenon, <1>1, <3>1
      <4>2. handles[h] = [kind |-> handles[h].kind, ino |-> handles[h].ino,
                          entries |-> handles[h].entries, pos |-> handles[h].pos]
        BY Zenon DEF Tables, HandleShape
      <4> QED
        BY <4>1, <4>2, Zenon
    <3>2. CASE h \notin HeldHandles(file_handles')
      BY <1>1, <3>2 DEF FreeHandle
    <3> QED
      BY Zenon, <3>1, <3>2
  <2> QED
    BY Zenon, <1>1, <2>1 DEF HandleShape
<1>3. SlotHasHandle'
  <2>1. SUFFICES ASSUME NEW o \in Procs, NEW t \in Slots, file_handles'[o][t] # None
                 PROVE  handles'[file_handles'[o][t]].kind # "free"
    BY Zenon DEF SlotHasHandle
  <2>2. file_handles'[o][t] = file_handles[o][t] /\ file_handles'[o][t] \in Handles
    BY <2>1
  <2>3. file_handles'[o][t] \in HeldHandles(file_handles')
    BY <2>1 DEF HeldHandles
  <2>4. handles'[file_handles'[o][t]] = handles[file_handles[o][t]]
    BY <1>1, <2>2, <2>3
  <2> QED
    BY Zenon, <2>1, <2>2, <2>4 DEF SlotHasHandle
<1> QED
  BY Zenon, <1>2, <1>3

\* Handle h is at position v, and nothing else of the handles changed.
MovedTo(h, v) ==
  \A g \in Handles : /\ handles'[g].kind = handles[g].kind
                     /\ handles'[g].ino = handles[g].ino
                     /\ g = h => handles'[g].pos = v
                     /\ g # h => handles'[g].pos = handles[g].pos

\* A call that moves the position of one handle leaves all else of the handles.
LEMMA PositionMoved ==
  ASSUME FdInv, NEW h, NEW v, handles' = [handles EXCEPT ![h].pos = v]
  PROVE  HandleShape' /\ MovedTo(h, v)
<1>1. handles' = [g \in Handles |-> IF g = h THEN [handles[g] EXCEPT !.pos = v] ELSE handles[g]]
  BY Zenon DEF FdInv, Tables, HandleShape
<1>2. \A g \in Handles :
        /\ handles'[g] = [kind |-> handles[g].kind, ino |-> handles[g].ino,
                          entries |-> handles[g].entries, pos |-> IF g = h THEN v ELSE handles[g].pos]
  <2>1. SUFFICES ASSUME NEW g \in Handles
                 PROVE  handles'[g] = [kind |-> handles[g].kind, ino |-> handles[g].ino,
                                       entries |-> handles[g].entries, pos |-> IF g = h THEN v ELSE handles[g].pos]
    BY Zenon
  <2>2. PICK x : x = handles[g]
    BY Zenon
  <2>3. x = [kind |-> x.kind, ino |-> x.ino, entries |-> x.entries, pos |-> x.pos]
    BY Zenon, <2>2 DEF FdInv, Tables, HandleShape
  <2>4. [x EXCEPT !.pos = v] = [kind |-> x.kind, ino |-> x.ino, entries |-> x.entries, pos |-> v]
    BY <2>3
  <2>5. CASE g = h
    BY Zenon, <1>1, <2>2, <2>4, <2>5
  <2>6. CASE g # h
    BY Zenon, <1>1, <2>2, <2>3, <2>6
  <2> QED
    BY Zenon, <2>5, <2>6
<1>3. \A g \in Handles : /\ handles'[g].kind = handles[g].kind /\ handles'[g].ino = handles[g].ino
                         /\ handles'[g].entries = handles[g].entries
                         /\ handles'[g].pos = IF g = h THEN v ELSE handles[g].pos
  <2>1. SUFFICES ASSUME NEW g \in Handles
                 PROVE  /\ handles'[g].kind = handles[g].kind /\ handles'[g].ino = handles[g].ino
                        /\ handles'[g].entries = handles[g].entries
                        /\ handles'[g].pos = IF g = h THEN v ELSE handles[g].pos
    BY Zenon
  <2> DEFINE w == IF g = h THEN v ELSE handles[g].pos
  <2>2. handles'[g] = [kind |-> handles[g].kind, ino |-> handles[g].ino,
                       entries |-> handles[g].entries, pos |-> w]
    BY Zenon, <1>2
  <2> HIDE DEF w
  <2>3. /\ handles'[g].kind = handles[g].kind /\ handles'[g].ino = handles[g].ino
        /\ handles'[g].entries = handles[g].entries /\ handles'[g].pos = w
    BY <2>2
  <2> QED
    BY Zenon, <2>3 DEF w
<1>4. HandleShape'
  <2>1. PICK y : y = handles'
    BY Zenon
  <2>2. \A g \in Handles : y[g] = [kind |-> y[g].kind, ino |-> y[g].ino, entries |-> y[g].entries, pos |-> y[g].pos]
    <3>1. SUFFICES ASSUME NEW g \in Handles
                   PROVE  y[g] = [kind |-> y[g].kind, ino |-> y[g].ino, entries |-> y[g].entries, pos |-> y[g].pos]
      BY Zenon
    <3>2. PICK x, w : x = handles[g] /\ w = IF g = h THEN v ELSE handles[g].pos
      BY Zenon
    <3>3. y[g] = [kind |-> x.kind, ino |-> x.ino, entries |-> x.entries, pos |-> w]
      BY Zenon, <1>2, <2>1, <3>2
    <3> QED
      BY ONLY <3>3
  <2>3. y = [g \in Handles |-> y[g]]
    BY Zenon, <1>1, <2>1
  <2>4. y = [g \in Handles |-> [kind |-> y[g].kind, ino |-> y[g].ino, entries |-> y[g].entries, pos |-> y[g].pos]]
    BY Zenon, <2>2, <2>3
  <2> QED
    BY Zenon, <2>1, <2>4 DEF HandleShape
<1> QED
  BY Zenon, <1>3, <1>4 DEF MovedTo

\* Every step keeps the invariant.
LEMMA FdInvStep == FdInv /\ [Next]_vars => FdInv'
<1> SUFFICES ASSUME FdInv, [Next]_vars
             PROVE  FdInv'
  BY Zenon
<1> USE DEF FdInv
<1>0. CASE UNCHANGED vars
  BY Zenon, <1>0 DEF vars, Tables, HandleShape, FdHasSlot, SlotHasHandle
<1>1. ASSUME NEW p \in Procs, NEW q \in Paths, sys_open(p, q)
      PROVE  FdInv'
  <2>1. PICK i : Install(p, Opened(q, i)) /\ live' = live
    BY Zenon, <1>1 DEF sys_open
  <2>2. PICK k, n, es : /\ Opened(q, i) = [kind |-> k, ino |-> n, entries |-> es, pos |-> 0]
                        /\ k # "free"
    BY Zenon, OpenedKind
  <2>3. Install(p, [kind |-> k, ino |-> n, entries |-> es, pos |-> 0])
    BY Zenon, <2>1, <2>2
  <2> QED
    BY Zenon, <2>1, <2>2, <2>3, InstallKeeps
<1>2. ASSUME NEW p \in Procs, NEW q \in Paths, sys_open_creat(p, q)
      PROVE  FdInv'
  <2>1. CASE UNCHANGED <<live, fd_types, file_handles, handles>>
    BY Zenon, <2>1 DEF Tables, HandleShape, FdHasSlot, SlotHasHandle
  <2>2. CASE \E n : Install(p, FileHandle(n)) /\ live' = live
    <3>1. PICK n : Install(p, FileHandle(n)) /\ live' = live
      BY Zenon, <2>2
    <3>2. Install(p, [kind |-> "file", ino |-> n, entries |-> <<>>, pos |-> 0])
      BY Zenon, <3>1 DEF FileHandle
    <3> QED
      BY Zenon, <3>1, <3>2, InstallKeeps
  <2>3. \/ UNCHANGED <<live, fd_types, file_handles, handles>>
        \/ \E n : Install(p, FileHandle(n)) /\ live' = live
    BY <1>2, Zenon DEF sys_open_creat
  <2> QED
    BY Zenon, <2>1, <2>2, <2>3
\* A call that moves the position of one handle.
<1>3. ASSUME NEW h, NEW v, handles' = [handles EXCEPT ![h].pos = v],
             UNCHANGED <<live, fd_types, file_handles>>
      PROVE  FdInv'
  <2>1. HandleShape' /\ \A g \in Handles : handles'[g].kind = handles[g].kind
    BY Zenon, <1>3, PositionMoved DEF MovedTo
  <2> QED
    BY <1>3, <2>1, Distinct DEF Tables, FdHasSlot, SlotHasHandle
<1>4. ASSUME NEW p \in Procs, NEW f \in Fds, NEW n, sys_read(p, f, n) \/ sys_readdir(p, f, n)
      PROVE  FdInv'
  <2>1. CASE UNCHANGED <<live, fd_types, file_handles, handles>>
    BY Zenon, <2>1 DEF Tables, HandleShape, FdHasSlot, SlotHasHandle
  <2>2. CASE \E h, v : /\ handles' = [handles EXCEPT ![h].pos = v]
                       /\ UNCHANGED <<live, fd_types, file_handles>>
    BY Zenon, <2>2, <1>3
  <2> QED
    BY Zenon, <1>4, <2>1, <2>2 DEF sys_read, sys_readdir
<1>5. ASSUME NEW p \in Procs, NEW f \in Fds, NEW x, sys_write(p, f, x) \/ sys_lseek(p, f, x)
      PROVE  FdInv'
  <2>1. \E h, v : /\ handles' = [handles EXCEPT ![h].pos = v]
                  /\ UNCHANGED <<live, fd_types, file_handles>>
    BY Zenon, <1>5 DEF sys_write, sys_lseek
  <2> QED
    BY Zenon, <2>1, <1>3
<1>6. ASSUME NEW p \in Procs, NEW f \in Fds, sys_close(p, f)
      PROVE  FdInv'
  BY <1>6, Distinct DEF sys_close, Tables, HandleShape, FdHasSlot, SlotHasHandle
<1>7. ASSUME NEW p \in Procs, NEW f \in Fds, sys_dup(p, f)
      PROVE  FdInv'
  <2>1. Lowest(FreeFds(p)) \in FreeFds(p)
    <3>1. FreeFds(p) \subseteq Nat /\ FreeFds(p) # {}
      BY Zenon, <1>7, Distinct DEF sys_dup, FreeFds
    <3> QED
      BY Zenon, <3>1, LowestProperty
  <2>2. Lowest(FreeFds(p)) \in Fds
    BY Zenon, <2>1 DEF FreeFds
  <2> QED
    BY <1>7, <2>2, Distinct DEF sys_dup, Tables, HandleShape, FdHasSlot, SlotHasHandle, IsFile
<1>8. ASSUME NEW p \in Procs, NEW f \in Fds, NEW g \in Fds, sys_dup2(p, f, g)
      PROVE  FdInv'
  <2> DEFINE s == fd_types[p][g]
  <2>1. /\ fd_types' = [fd_types EXCEPT ![p][g] = fd_types[p][f]] /\ live' = live /\ f # g
        /\ file_handles' = Released(p, g) /\ handles' = Kept(file_handles', handles)
    BY Zenon, <1>8 DEF sys_dup2
  <2>2. file_handles' \in [Procs -> [Slots -> Handles \cup {None}]]
    BY Zenon, <2>1 DEF Released, Tables
  <2>3. \A o \in Procs, t \in Slots : file_handles'[o][t] \in {None, file_handles[o][t]}
    BY Zenon, <2>1 DEF Released, Tables
  <2>4. \A o \in Procs, e \in Fds : fd_types'[o][e] \in Slots
           => file_handles'[o][fd_types'[o][e]] = file_handles[o][fd_types'[o][e]]
    BY Zenon, <2>1 DEF Released, StillReferenced, Tables
  <2>5. fd_types' \in [Procs -> [Fds -> Slots \cup {None, Std}]]
    BY <2>1 DEF Tables
  <2>6. FdHasSlot'
    <3>1. SUFFICES ASSUME NEW o \in Procs, NEW e \in Fds, fd_types'[o][e] \in Slots
                   PROVE  file_handles'[o][fd_types'[o][e]] # None
      BY Zenon DEF FdHasSlot
    <3>2. \E d \in Fds : fd_types'[o][e] = fd_types[o][d]
      BY Zenon, <2>1 DEF Tables
    <3> QED
      BY <2>4, <3>1, <3>2 DEF FdHasSlot
  <2>7. HandleShape' /\ SlotHasHandle'
    BY Zenon, <2>1, <2>2, <2>3, KeptHandles
  <2> QED
    BY Zenon, <2>1, <2>2, <2>5, <2>6, <2>7 DEF Tables
<1>9. ASSUME NEW p \in Procs, NEW c \in Procs, sys_fork(p, c)
      PROVE  FdInv'
  BY Zenon, <1>9 DEF sys_fork, Tables, HandleShape, FdHasSlot, SlotHasHandle
<1>10. ASSUME NEW p \in Procs, drop(p)
       PROVE  FdInv'
  <2>1. /\ fd_types' = [fd_types EXCEPT ![p] = [f \in Fds |-> None]] /\ live' = live \ {p}
        /\ file_handles' = [file_handles EXCEPT ![p] = [s \in Slots |-> None]]
        /\ handles' = Kept(file_handles', handles)
    BY Zenon, <1>10 DEF drop
  <2>2. file_handles' \in [Procs -> [Slots -> Handles \cup {None}]]
    BY Zenon, <2>1 DEF Tables
  <2>3. \A o \in Procs, t \in Slots : file_handles'[o][t] \in {None, file_handles[o][t]}
    BY Zenon, <2>1 DEF Tables
  <2>4. fd_types' \in [Procs -> [Fds -> Slots \cup {None, Std}]] /\ FdHasSlot'
    BY Zenon, <2>1, Distinct DEF Tables, FdHasSlot
  <2>5. HandleShape' /\ SlotHasHandle'
    BY Zenon, <2>1, <2>2, <2>3, KeptHandles
  <2> QED
    BY Zenon, <2>1, <2>2, <2>4, <2>5 DEF Tables
<1>11. ASSUME NEW p \in Procs, NEW x, sys_unlink(p, x) \/ sys_mkdir(p, x) \/ sys_chdir(p, x)
       PROVE  FdInv'
  BY Zenon, <1>11 DEF sys_unlink, sys_mkdir, sys_chdir, Tables, HandleShape, FdHasSlot, SlotHasHandle
<1> QED
  BY Zenon, <1>0, <1>1, <1>2, <1>4, <1>5, <1>6, <1>7, <1>8, <1>9, <1>10, <1>11 DEF Next

\* The invariant holds when the first process starts, with no file open.
LEMMA InitFdInv == Init => FdInv
<1> SUFFICES ASSUME Init PROVE FdInv
  BY Zenon
<1>1. Tables
  BY Zenon, FilesAssumption DEF Init, Tables, HandleShape, FreeHandle
<1>2. FdHasSlot /\ SlotHasHandle
  BY Zenon, Distinct DEF Init, FdHasSlot, SlotHasHandle
<1> QED
  BY Zenon, <1>1, <1>2 DEF FdInv

\* No descriptor dangles (FdHasHandle): through every sequence of open, close,
\* dup, dup2, fork and exit the slot a descriptor names holds a live handle.
THEOREM FdsHaveHandles == Spec => []FdHasHandle
<1>1. Init => FdInv
  BY Zenon, InitFdInv
<1>2. FdInv /\ [Next]_vars => FdInv'
  BY Zenon, FdInvStep
<1>3. FdInv => FdHasHandle
  <2>1. SUFFICES ASSUME FdInv, NEW p \in live, NEW f \in Fds, fd_types[p][f] \in Slots
                 PROVE  /\ file_handles[p][fd_types[p][f]] \in Handles
                        /\ handles[HandleOf(p, f)].kind # "free"
    BY Zenon DEF FdHasHandle
  <2>2. p \in Procs /\ file_handles[p][fd_types[p][f]] # None
    BY Zenon, <2>1 DEF FdInv, Tables, FdHasSlot
  <2>3. file_handles[p][fd_types[p][f]] \in Handles
    BY Zenon, <2>1, <2>2 DEF FdInv, Tables
  <2> QED
    BY <2>1, <2>2, <2>3, Zenon DEF FdInv, SlotHasHandle, HandleOf
<1> QED
  BY <1>1, <1>2, <1>3, PTL DEF Spec

-----------------------------------------------------------------------------
(* The tree of names *)

\* A name leads to a directory, to a file or to nothing.
TreeInv ==
  /\ tree \in [Paths -> Inos \cup {None, Dir}]
  /\ live \subseteq Procs

\* None and Dir are no file.
LEMMA DistinctNodes == None \notin Inos /\ Dir \notin Inos /\ None # Dir
  BY FilesAssumption DEF None, Dir

\* Creating a name, and the directories on the way to it, keeps the types.
LEMMA CreateKeeps ==
  ASSUME TreeInv, NEW q \in Paths, NEW x \in Inos \cup {Dir},
         tree' = [WithParents(q) EXCEPT ![q] = x], UNCHANGED live
  PROVE  TreeInv'
  BY Zenon DEF TreeInv, WithParents

\* Every step keeps them.
LEMMA TreeInvStep == TreeInv /\ [Next]_vars => TreeInv'
<1> SUFFICES ASSUME TreeInv, [Next]_vars
             PROVE  TreeInv'
  BY Zenon
<1>0. CASE UNCHANGED <<tree, live>>
  BY Zenon, <1>0 DEF TreeInv
<1>1. ASSUME NEW p \in Procs, NEW q \in Paths, sys_open_creat(p, q)
      PROVE  TreeInv'
  <2> DEFINE i == Lowest(FreeInos)
  <2>1. i \in Inos
    <3>1. FreeInos # {} /\ FreeInos \subseteq Nat /\ FreeInos \subseteq Inos
      BY Zenon, <1>1, FilesAssumption DEF sys_open_creat, FreeInos
    <3> QED
      BY Zenon, <3>1, LowestProperty
  <2>2. tree' = create_file(q, i) /\ UNCHANGED live
    BY Zenon, <1>1 DEF sys_open_creat
  <2> DEFINE x == IF tree[q] = None THEN i ELSE tree[q]
  <2>3. x \in Inos \cup {Dir}
    BY Zenon, <2>1 DEF TreeInv
  <2>4. tree' = [WithParents(q) EXCEPT ![q] = x]
    BY Zenon, <2>2 DEF create_file
  <2> HIDE DEF x, i
  <2> QED
    BY Zenon, <2>2, <2>3, <2>4, CreateKeeps
<1>2. ASSUME NEW p \in Procs, NEW q \in Paths, sys_mkdir(p, q)
      PROVE  TreeInv'
  <2>1. tree' = [WithParents(q) EXCEPT ![q] = Dir] /\ UNCHANGED live
    BY Zenon, <1>2 DEF sys_mkdir, create_dir
  <2> QED
    BY Zenon, <2>1, CreateKeeps
<1>3. ASSUME NEW p \in Procs, NEW q \in Paths, sys_unlink(p, q)
      PROVE  TreeInv'
  BY Zenon, <1>3 DEF sys_unlink, TreeInv
<1>4. ASSUME NEW p \in Procs, NEW c \in Procs, sys_fork(p, c)
      PROVE  TreeInv'
  BY Zenon, <1>4 DEF sys_fork, TreeInv
<1>5. ASSUME NEW p \in Procs, drop(p)
      PROVE  TreeInv'
  BY Zenon, <1>5 DEF drop, TreeInv
<1>6. ASSUME NEW p \in Procs, NEW f, NEW x,
             \/ sys_open(p, x) \/ sys_close(p, f) \/ sys_dup(p, f) \/ sys_dup2(p, f, x)
             \/ sys_read(p, f, x) \/ sys_readdir(p, f, x) \/ sys_write(p, f, x) \/ sys_lseek(p, f, x)
             \/ sys_chdir(p, x)
      PROVE  UNCHANGED <<tree, live>>
  BY <1>6, Zenon DEF sys_open, sys_close, sys_dup, sys_dup2, sys_read, sys_readdir, sys_write, sys_lseek, sys_chdir
<1>7. UNCHANGED vars => UNCHANGED <<tree, live>>
  BY Zenon DEF vars
<1> QED
  BY ZenonT(40), <1>0, <1>1, <1>2, <1>3, <1>4, <1>5, <1>6, <1>7 DEF Next

\* They hold of the empty tree.
LEMMA InitTreeInv == Init => TreeInv
  BY Zenon, FilesAssumption DEF Init, TreeInv

-----------------------------------------------------------------------------
(* Reading through the handle of a file *)

\* How far a read of n bytes moves the position in a file of len bytes.
Advance(from, len, n) == IF from >= len THEN 0 ELSE IF n < len - from THEN n ELSE len - from
\* The furthest position that reading on from there leads to.
Furthest(from, len) == IF from >= len THEN from ELSE len

\* The read of a file moves by what is left of it or by what was asked for,
\* whichever is less.
LEMMA FileRead ==
  ASSUME NEW h, h.kind = "file", Len(content[h.ino]) \in Nat, h.pos \in Nat, NEW n \in Nat
  PROVE  ReadStep(h, n).pos = h.pos + Advance(h.pos, Len(content[h.ino]), n)
<1>0. PICK len \in Nat, from \in Nat : len = Len(content[h.ino]) /\ from = h.pos
  BY Zenon
<1> DEFINE got == IF Available(h) <= 0 THEN 0 ELSE MinOf(n, Available(h))
<1>1. Available(h) = len - from
  BY Zenon, <1>0 DEF Available
<1>2. got = Advance(from, len, n)
  BY <1>1 DEF MinOf, Advance
<1>3. h.kind # "dir"
  BY Zenon
<1> HIDE DEF got
<1>4. [got |-> got, pos |-> IF h.kind = "dir" THEN Consumed(h.entries, h.pos, got) ELSE h.pos + got].pos
        = from + got
  BY Zenon, <1>0, <1>3
<1>5. ReadStep(h, n)
        = [got |-> got, pos |-> IF h.kind = "dir" THEN Consumed(h.entries, h.pos, got) ELSE h.pos + got]
  BY Zenon DEF ReadStep, got
<1> QED
  BY Zenon, <1>0, <1>2, <1>4, <1>5

\* A read moves forward, and not past the end unless it began there.
LEMMA AdvanceBounds ==
  ASSUME NEW from \in Nat, NEW len \in Nat, NEW n \in Nat
  PROVE  /\ from + Advance(from, len, n) \in Nat
         /\ from + Advance(from, len, n) \in from..Furthest(from, len)
         /\ Furthest(from, len) \in Nat
         /\ \A at \in from..Furthest(from, len) :
              at \in Nat /\ at..Furthest(at, len) \subseteq from..Furthest(from, len)
  BY DEF Advance, Furthest

\* The loop of sys_readdir, on the handle of a file, reads on: it never moves
\* back and never past the end of the data.
LEMMA ReaddirReads ==
  ASSUME NEW h, NEW i, NEW es, NEW from \in Nat, NEW count \in Nat,
         h = [kind |-> "file", ino |-> i, entries |-> es, pos |-> from],
         NEW len \in Nat, len = Len(content[i])
  PROVE  ReaddirLoop(h, count).pos \in from..Furthest(from, len)
<1> DEFINE Chunk(s) == ReadStep([h EXCEPT !.pos = s.pos], TMP)
<1> DEFINE Body(s) == IF s.total >= count THEN s
                      ELSE [total |-> s.total + MinOf(Chunk(s).got, count - s.total), pos |-> Chunk(s).pos]
<1> DEFINE start == [total |-> 0, pos |-> h.pos]
<1> DEFINE IsLoop(r, n) == r = [k \in 0..n |-> IF k = 0 THEN start ELSE Body(r[k - 1])]
<1>1. ReaddirLoop(h, count) = (CHOOSE r : IsLoop(r, count))[count]
  BY Zenon DEF ReaddirLoop
<1>2. ASSUME NEW s, s.pos \in from..Furthest(from, len)
      PROVE  Body(s).pos \in from..Furthest(from, len)
  <2> DEFINE g == [h EXCEPT !.pos = s.pos]
  <2>1. g.kind = "file" /\ g.ino = i /\ g.pos = s.pos
    BY Zenon
  <2>2. s.pos \in Nat /\ s.pos..Furthest(s.pos, len) \subseteq from..Furthest(from, len)
    BY Zenon, <1>2, AdvanceBounds, FilesAssumption
  <2>3. TMP \in Nat
    BY Zenon, FilesAssumption
  <2> HIDE DEF g
  <2>4. ReadStep(g, TMP).pos = s.pos + Advance(s.pos, len, TMP)
    <3>1. g.pos \in Nat /\ Len(content[g.ino]) \in Nat
      BY Zenon, <2>1, <2>2
    <3>2. ReadStep(g, TMP).pos = g.pos + Advance(g.pos, Len(content[g.ino]), TMP)
      BY Zenon, <2>1, <2>3, <3>1, FileRead
    <3> QED
      BY Zenon, <2>1, <3>2
  <2>5. ReadStep(g, TMP).pos \in from..Furthest(from, len)
    <3>1. s.pos + Advance(s.pos, len, TMP) \in s.pos..Furthest(s.pos, len)
      BY Zenon, <2>2, <2>3, AdvanceBounds
    <3> QED
      BY Zenon, <2>2, <2>4, <3>1
  <2>6. Chunk(s).pos \in from..Furthest(from, len)
    BY Zenon, <2>5 DEF g
  <2> HIDE DEF Chunk
  <2>7. [total |-> s.total + MinOf(Chunk(s).got, count - s.total), pos |-> Chunk(s).pos].pos = Chunk(s).pos
    BY Zenon
  <2> QED
    BY Zenon, <1>2, <2>6, <2>7
<1>3. start.pos = from
  BY Zenon
<1> HIDE DEF Body, start
<1>4. \A n \in Nat : \E r : IsLoop(r, n)
  <2> DEFINE S == {n \in Nat : \E r : IsLoop(r, n)}
  <2>1. 0 \in S
    <3> DEFINE r == [k \in 0..0 |-> start]
    <3>1. IsLoop(r, 0)
      <4>1. \A k \in 0..0 : k = 0
        OBVIOUS
      <4> QED
        BY Zenon, <4>1
    <3> QED
      BY Zenon, <3>1
  <2>2. ASSUME NEW n \in Nat, n \in S
        PROVE  n + 1 \in S
    <3>1. PICK r : IsLoop(r, n)
      BY Zenon, <2>2
    <3> DEFINE last == Body(r[n])
    <3> DEFINE q == [k \in 0..(n + 1) |-> IF k <= n THEN r[k] ELSE last]
    <3>2. ASSUME NEW k \in 0..(n + 1)
          PROVE  q[k] = IF k = 0 THEN start ELSE Body(q[k - 1])
      <4>1. CASE k = 0
        <5>1. 0 \in 0..n /\ 0 <= n /\ 0 \in 0..(n + 1)
          OBVIOUS
        <5> QED
          BY Zenon, <3>1, <4>1, <5>1
      <4>2. CASE k # 0 /\ k <= n
        <5>1. k \in 0..n /\ k - 1 \in 0..(n + 1) /\ k - 1 <= n
          BY <4>2
        <5>2. q[k] = r[k] /\ q[k - 1] = r[k - 1]
          BY Zenon, <4>2, <5>1
        <5>3. r[k] = Body(r[k - 1])
          BY Zenon, <3>1, <4>2, <5>1
        <5> QED
          BY Zenon, <4>2, <5>2, <5>3
      <4>3. CASE ~ (k <= n)
        <5>1. k # 0 /\ k - 1 = n /\ n <= n /\ n \in 0..(n + 1)
          BY <4>3
        <5>2. q[k] = last /\ q[k - 1] = r[n]
          BY Zenon, <4>3, <5>1
        <5> QED
          BY Zenon, <5>1, <5>2
      <4> QED
        BY Zenon, <4>1, <4>2, <4>3
    <3>3. q = [k \in 0..(n + 1) |-> q[k]]
      BY Zenon
    <3> HIDE DEF q
    <3>4. IsLoop(q, n + 1)
      BY Zenon, <3>2, <3>3
    <3>5. n + 1 \in Nat
      OBVIOUS
    <3> QED
      BY Zenon, <3>4, <3>5
  <2> HIDE DEF S
  <2>3. Nat \subseteq S
    BY Zenon, <2>1, <2>2, SetInduction
  <2> QED
    BY Zenon, <2>3 DEF S
<1>5. PICK r : r = (CHOOSE x : IsLoop(x, count))
  BY Zenon
<1>6. IsLoop(r, count)
  BY Zenon, <1>4, <1>5
<1> DEFINE T == {k \in Nat : k \in 0..count => r[k].pos \in from..Furthest(from, len)}
<1>7. 0 \in T
  <2>1. 0 \in 0..count /\ from \in from..Furthest(from, len)
    BY DEF Furthest
  <2> QED
    BY Zenon, <1>3, <1>6, <2>1
<1>8. ASSUME NEW k \in Nat, k \in T
      PROVE  k + 1 \in T
  <2>1. SUFFICES ASSUME k + 1 \in 0..count
                 PROVE  r[k + 1].pos \in from..Furthest(from, len)
    <3>1. k + 1 \in Nat
      OBVIOUS
    <3> QED
      BY Zenon, <3>1
  <2>2. k \in 0..count /\ k + 1 # 0 /\ (k + 1) - 1 = k
    BY <2>1
  <2>3. r[k + 1] = Body(r[k])
    BY Zenon, <1>6, <2>1, <2>2
  <2> QED
    BY Zenon, <1>2, <1>8, <2>2, <2>3
<1> HIDE DEF T
<1>9. Nat \subseteq T
  BY Zenon, <1>7, <1>8, SetInduction
<1>10. count \in 0..count
  OBVIOUS
<1> QED
  BY Zenon, <1>1, <1>5, <1>9, <1>10 DEF T

-----------------------------------------------------------------------------
(* The descriptions that descriptors share *)

\* A process that is not there has no descriptor.
NoneWhenGone == \A p \in Procs \ live, f \in Fds : fd_types[p][f] = None

\* The handle of a file names data, at a position.
FileHasData ==
  \A h \in Handles : handles[h].kind = "file" => handles[h].ino \in Inos /\ handles[h].pos \in Nat

\* The inductive invariant behind SharedDescriptions.
DescInv ==
  /\ FdInv /\ TreeInv
  /\ programs \in Programs
  /\ content \in [Inos -> Seq(Nat)]
  /\ NoneWhenGone
  /\ FileHasData

\* The identity a new file takes is one nothing refers to.
LEMMA FreshIno ==
  ASSUME FreeInos # {}
  PROVE  Lowest(FreeInos) \in Inos /\ Lowest(FreeInos) \notin HeldInos(tree, handles)
<1>1. FreeInos \subseteq Nat
  BY Zenon, FilesAssumption DEF FreeInos
<1>2. Lowest(FreeInos) \in FreeInos
  BY Zenon, <1>1, LowestProperty
<1> QED
  BY Zenon, <1>2 DEF FreeInos

\* The handle open makes, if of a file, names data.
LEMMA OpenedFile ==
  ASSUME DescInv, NEW q \in Paths, NEW i \in Inos, Resolves(q)
  PROVE  \E k, n, es : /\ Opened(q, i) = [kind |-> k, ino |-> n, entries |-> es, pos |-> 0]
                       /\ k # "free"
                       /\ k = "file" => n \in Inos
<1>1. ASSUME NEW n \in Inos, Opened(q, i) = FileHandle(n)
      PROVE  \E k, m, es : /\ Opened(q, i) = [kind |-> k, ino |-> m, entries |-> es, pos |-> 0]
                           /\ k # "free" /\ (k = "file" => m \in Inos)
  <2>1. Opened(q, i) = [kind |-> "file", ino |-> n, entries |-> <<>>, pos |-> 0]
    BY Zenon, <1>1 DEF FileHandle
  <2>2. "file" # "free"
    BY Zenon
  <2> QED
    BY Zenon, <2>1, <2>2
<1>2. ASSUME NEW k \in {"dir", "fatdir"}, NEW es, Opened(q, i) = DirHandle(k, es)
      PROVE  \E kk, m, ee : /\ Opened(q, i) = [kind |-> kk, ino |-> m, entries |-> ee, pos |-> 0]
                            /\ kk # "free" /\ (kk = "file" => m \in Inos)
  <2>1. Opened(q, i) = [kind |-> k, ino |-> None, entries |-> es, pos |-> 0]
    BY Zenon, <1>2 DEF DirHandle
  <2>2. k # "free" /\ k # "file"
    BY Zenon
  <2> QED
    BY Zenon, <2>1, <2>2
<1>3. CASE UnderMount(q)
  <2>1. Opened(q, i) = FileHandle(i) \/ \E es : Opened(q, i) = DirHandle("fatdir", es)
    BY Zenon, <1>3 DEF Opened
  <2> QED
    BY Zenon, <1>1, <1>2, <2>1
<1>4. CASE ~ UnderMount(q)
  <2>1. tree[q] # None
    BY Zenon, <1>4 DEF Resolves, RamNode
  <2>2. tree[q] = Dir \/ tree[q] \in Inos
    BY Zenon, <2>1 DEF DescInv, TreeInv
  <2>3. (Opened(q, i) = FileHandle(tree[q]) /\ tree[q] \in Inos) \/ \E es : Opened(q, i) = DirHandle("dir", es)
    BY Zenon, <1>4, <2>2 DEF Opened
  <2> QED
    BY Zenon, <1>1, <1>2, <2>3
<1> QED
  BY Zenon, <1>3, <1>4

\* A handle of kind k for data n was put at handle h, slot s, descriptor f.
InstalledAt(p, k, n, f, s, h) ==
  /\ fd_types[p][f] = None /\ file_handles[p][s] = None
  /\ h \notin HeldHandles(file_handles)
  /\ fd_types' = [fd_types EXCEPT ![p][f] = s]
  /\ file_handles' = [file_handles EXCEPT ![p][s] = h]
  /\ \A g \in Handles : g # h => handles'[g] = handles[g]
  /\ handles'[h].kind = k /\ handles'[h].ino = n /\ handles'[h].pos = 0

\* Installing a handle changes that handle and one descriptor of the caller.
LEMMA InstallFacts ==
  ASSUME FdInv, NEW p \in Procs, NEW k, NEW n, NEW es,
         Install(p, [kind |-> k, ino |-> n, entries |-> es, pos |-> 0])
  PROVE  \E f \in Fds, s \in Slots, h \in Handles : InstalledAt(p, k, n, f, s, h)
<1> DEFINE new == [kind |-> k, ino |-> n, entries |-> es, pos |-> 0]
<1> DEFINE h == Lowest(FreeHandles)
<1> DEFINE s == Lowest(FreeSlots(p))
<1> DEFINE f == Lowest(FreeFds(p))
<1>1. /\ f \in Fds /\ fd_types[p][f] = None
      /\ s \in Slots /\ file_handles[p][s] = None
      /\ h \in Handles /\ h \notin HeldHandles(file_handles)
  BY Zenon, InstallChoice DEF Install
<1>2. /\ fd_types' = [fd_types EXCEPT ![p][f] = s]
      /\ file_handles' = [file_handles EXCEPT ![p][s] = h]
      /\ handles' = [handles EXCEPT ![h] = new]
  BY Zenon DEF Install
<1> HIDE DEF h, s, f
<1>3. handles' = [g \in Handles |-> IF g = h THEN new ELSE handles[g]]
  BY Zenon, <1>2 DEF FdInv, Tables, HandleShape
<1>4. handles'[h] = new /\ new.kind = k /\ new.ino = n /\ new.pos = 0
  BY Zenon, <1>1, <1>3
<1> HIDE DEF new
<1>5. \A g \in Handles : g # h => handles'[g] = handles[g]
  BY Zenon, <1>3
<1>6. handles'[h].kind = k /\ handles'[h].ino = n /\ handles'[h].pos = 0
  BY Zenon, <1>4
<1>7. InstalledAt(p, k, n, f, s, h)
  BY Zenon, <1>1, <1>2, <1>5, <1>6 DEF InstalledAt
<1> QED
  BY Zenon, <1>1, <1>7

\* Installing keeps the part of the invariant about handles and descriptors.
LEMMA InstallDescs ==
  ASSUME DescInv, NEW p \in live, NEW k, NEW n, NEW es, k = "file" => n \in Inos, live' = live,
         Install(p, [kind |-> k, ino |-> n, entries |-> es, pos |-> 0])
  PROVE  NoneWhenGone' /\ FileHasData'
<1>0. p \in Procs /\ FdInv
  BY Zenon DEF DescInv, TreeInv
<1>1. PICK f \in Fds, s \in Slots, h \in Handles : InstalledAt(p, k, n, f, s, h)
  BY Zenon, <1>0, InstallFacts
<1>2. /\ fd_types' = [fd_types EXCEPT ![p][f] = s]
      /\ \A g \in Handles : g # h => handles'[g] = handles[g]
      /\ handles'[h].kind = k /\ handles'[h].ino = n /\ handles'[h].pos = 0
  BY Zenon, <1>1 DEF InstalledAt
<1>3. NoneWhenGone'
  BY Zenon, <1>0, <1>2 DEF DescInv, FdInv, Tables, NoneWhenGone
<1>4. 0 \in Nat
  OBVIOUS
<1>5. ASSUME NEW g \in Handles, handles'[g].kind = "file"
      PROVE  handles'[g].ino \in Inos /\ handles'[g].pos \in Nat
  BY Zenon, <1>2, <1>4, <1>5 DEF DescInv, FileHasData
<1> QED
  BY Zenon, <1>3, <1>5 DEF FileHasData

\* Where read and readdir leave the position in a file that is open.
LEMMA FilePosition ==
  ASSUME DescInv, NEW h \in Handles, handles[h].kind = "file", NEW n \in Nat
  PROVE  /\ handles[h].pos \in Nat /\ handles[h].ino \in Inos
         /\ content[handles[h].ino] \in Seq(Nat) /\ Len(content[handles[h].ino]) \in Nat
         /\ ReadStep(handles[h], n).pos
              = handles[h].pos + Advance(handles[h].pos, Len(content[handles[h].ino]), n)
         /\ ReadStep(handles[h], n).pos \in Nat
         /\ ReaddirLoop(handles[h], n).pos \in handles[h].pos..Furthest(handles[h].pos, Len(content[handles[h].ino]))
         /\ ReaddirLoop(handles[h], n).pos \in Nat
<1>0. PICK es : es = handles[h].entries
  BY Zenon
<1>1. PICK i \in Inos, from \in Nat : i = handles[h].ino /\ from = handles[h].pos
  BY Zenon DEF DescInv, FileHasData
<1>2. handles[h] = [kind |-> "file", ino |-> i, entries |-> es, pos |-> from]
  BY Zenon, <1>0, <1>1 DEF DescInv, FdInv, Tables, HandleShape
<1>3. content[i] \in Seq(Nat)
  BY Zenon, <1>1 DEF DescInv
<1>4. PICK len \in Nat : len = Len(content[i])
  BY <1>3
<1>5. ReadStep(handles[h], n).pos = from + Advance(from, len, n)
  <2>1. handles[h].pos \in Nat /\ Len(content[handles[h].ino]) \in Nat
    BY Zenon, <1>1, <1>4
  <2>2. ReadStep(handles[h], n).pos = handles[h].pos + Advance(handles[h].pos, Len(content[handles[h].ino]), n)
    BY Zenon, <2>1, FileRead
  <2> QED
    BY Zenon, <1>1, <1>4, <2>2
<1>6. ReadStep(handles[h], n).pos \in Nat
  BY Zenon, <1>5, AdvanceBounds
<1>7. ReaddirLoop(handles[h], n).pos \in from..Furthest(from, len)
  BY Zenon, <1>2, <1>4, ReaddirReads
<1>8. ReaddirLoop(handles[h], n).pos \in Nat
  BY Zenon, <1>7, AdvanceBounds
<1> QED
  BY Zenon, <1>1, <1>3, <1>4, <1>5, <1>6, <1>7, <1>8

\* Moving the position of a handle keeps the data of every handle.
LEMMA MovedData ==
  ASSUME DescInv, NEW h, NEW v, handles' = [handles EXCEPT ![h].pos = v],
         handles[h].kind = "file" => v \in Nat
  PROVE  FileHasData'
<1>0. FdInv
  BY Zenon DEF DescInv
<1>1. \A g \in Handles : /\ handles'[g].kind = handles[g].kind
                         /\ handles'[g].ino = handles[g].ino
                         /\ g = h => handles'[g].pos = v
                         /\ g # h => handles'[g].pos = handles[g].pos
  <2>1. MovedTo(h, v)
    BY Zenon, <1>0, PositionMoved
  <2> QED
    BY Zenon, <2>1 DEF MovedTo
<1> QED
  BY Zenon, <1>1 DEF DescInv, FileHasData

\* The handle of a descriptor of a file or directory is one of the handles.
LEMMA HandleThere ==
  ASSUME FdInv, NEW p \in Procs, NEW f \in Fds, IsFile(p, f)
  PROVE  HandleOf(p, f) \in Handles
  BY Zenon DEF FdInv, Tables, IsFile, HandleOf

\* Data that loses its last reference goes; the rest keeps its bytes.
LEMMA KeptDataFacts ==
  ASSUME DescInv, NEW t, NEW hs, content' = KeptData(t, hs, content)
  PROVE  /\ content' \in [Inos -> Seq(Nat)]
         /\ \A i \in Inos : i \in HeldInos(t, hs) => content'[i] = content[i]
<1>1. <<>> \in Seq(Nat)
  OBVIOUS
<1> QED
  BY Zenon, <1>1 DEF KeptData, DescInv

\* w is c with the bytes put in after position pos.
Spliced(w, bytes, c, pos) ==
  /\ Len(w) = IF pos + Len(bytes) > Len(c) THEN pos + Len(bytes) ELSE Len(c)
  /\ \A k \in 1..Len(w) : w[k] = IF k > pos /\ k <= pos + Len(bytes) THEN bytes[k - pos]
                                 ELSE IF k <= Len(c) THEN c[k] ELSE 0

\* A write leaves a sequence of bytes: as long as before, or up to the end of
\* what was written; the new bytes in their place, zeros in the gap.
LEMMA WrittenBytes ==
  ASSUME NEW bytes \in Seq(Nat), NEW c \in Seq(Nat), NEW pos \in Nat
  PROVE  Written(bytes, c, pos) \in Seq(Nat) /\ Spliced(Written(bytes, c, pos), bytes, c, pos)
<1> DEFINE to == pos + Len(bytes)
<1> DEFINE n == IF to > Len(c) THEN to ELSE Len(c)
<1> DEFINE w == Written(bytes, c, pos)
<1>1. to \in Nat /\ n \in Nat
  OBVIOUS
<1>2. w = [k \in 1..n |-> IF k > pos /\ k <= to THEN bytes[k - pos] ELSE IF k <= Len(c) THEN c[k] ELSE 0]
  BY Zenon DEF Written
<1>3. ASSUME NEW k \in 1..n
      PROVE  (IF k > pos /\ k <= to THEN bytes[k - pos] ELSE IF k <= Len(c) THEN c[k] ELSE 0) \in Nat
  <2>1. CASE k > pos /\ k <= to
    <3>1. k - pos \in 1..Len(bytes)
      BY <2>1
    <3>2. bytes[k - pos] \in Nat
      BY <3>1
    <3> QED
      BY Zenon, <2>1, <3>2
  <2>2. CASE ~ (k > pos /\ k <= to) /\ k <= Len(c)
    <3>1. k \in 1..Len(c)
      BY <2>2
    <3>2. c[k] \in Nat
      BY <3>1
    <3> QED
      BY Zenon, <2>2, <3>2
  <2>3. CASE ~ (k > pos /\ k <= to) /\ ~ (k <= Len(c))
    BY <2>3
  <2> QED
    BY Zenon, <2>1, <2>2, <2>3
<1> HIDE DEF w, n, to
<1>4. w \in [1..n -> Nat]
  BY Zenon, <1>2, <1>3
<1>5. w \in Seq(Nat) /\ Len(w) = n
  BY <1>1, <1>4, SeqDef
<1>6. \A k \in 1..n : w[k] = IF k > pos /\ k <= to THEN bytes[k - pos] ELSE IF k <= Len(c) THEN c[k] ELSE 0
  BY Zenon, <1>2
<1> QED
  BY Zenon, <1>5, <1>6 DEF w, n, to, Spliced

\* Every step keeps the invariant.
LEMMA DescInvStep == DescInv /\ [Next]_vars => DescInv'
<1> SUFFICES ASSUME DescInv, [Next]_vars
             PROVE  DescInv'
  BY Zenon
<1>a. FdInv /\ TreeInv /\ FdInv' /\ TreeInv'
  BY Zenon, FdInvStep, TreeInvStep DEF DescInv
<1>b. programs \in Programs /\ content \in [Inos -> Seq(Nat)] /\ NoneWhenGone /\ FileHasData
  BY Zenon DEF DescInv
<1>c. live \subseteq Procs /\ fd_types \in [Procs -> [Fds -> Slots \cup {None, Std}]]
  BY Zenon, <1>a DEF FdInv, Tables
<1> DEFINE Rest == /\ programs \in Programs /\ content \in [Inos -> Seq(Nat)]
                   /\ NoneWhenGone /\ FileHasData
<1>0. ASSUME UNCHANGED vars
      PROVE  Rest'
  BY Zenon, <1>0, <1>b DEF vars, NoneWhenGone, FileHasData
<1>1. ASSUME NEW p \in Procs, NEW q \in Paths, sys_open(p, q)
      PROVE  Rest'
  <2>1. PICK i \in Inos : /\ Install(p, Opened(q, i)) /\ content' = Loaded(q, i)
                          /\ live' = live /\ programs' = programs /\ p \in live /\ Resolves(q)
    BY Zenon, <1>1, FreshIno DEF sys_open, Call
  <2>2. PICK k, n, es : /\ Opened(q, i) = [kind |-> k, ino |-> n, entries |-> es, pos |-> 0]
                        /\ k # "free" /\ (k = "file" => n \in Inos)
    BY Zenon, <2>1, OpenedFile
  <2>3. Install(p, [kind |-> k, ino |-> n, entries |-> es, pos |-> 0])
    BY Zenon, <2>1, <2>2
  <2>4. NoneWhenGone' /\ FileHasData'
    BY Zenon, <2>1, <2>2, <2>3, InstallDescs
  <2>5. content' \in [Inos -> Seq(Nat)]
    BY Zenon, <1>b, <2>1, FilesAssumption DEF Loaded
  <2> QED
    BY Zenon, <1>b, <2>1, <2>4, <2>5
<1>2. ASSUME NEW p \in Procs, NEW q \in Paths, sys_open_creat(p, q)
      PROVE  Rest'
  <2>1. /\ programs' = programs /\ content' = content /\ live' = live /\ p \in live
        /\ FreeInos # {} /\ CreateAllowed(q)
    BY Zenon, <1>2 DEF sys_open_creat, Call
  <2>2. create_file(q, Lowest(FreeInos))[q] \in Inos
    <3>1. Lowest(FreeInos) \in Inos
      BY Zenon, <2>1, FreshIno
    <3>2. tree[q] \in Inos \cup {None}
      BY Zenon, <1>a, <2>1 DEF TreeInv, CreateAllowed
    <3>3. create_file(q, Lowest(FreeInos))[q] = IF tree[q] = None THEN Lowest(FreeInos) ELSE tree[q]
      BY Zenon DEF create_file, WithParents
    <3> QED
      BY Zenon, <3>1, <3>2, <3>3
  <2>3. CASE UNCHANGED <<fd_types, file_handles, handles>>
    BY Zenon, <1>b, <2>1, <2>3 DEF NoneWhenGone, FileHasData
  <2>4. CASE Install(p, FileHandle(create_file(q, Lowest(FreeInos))[q]))
    <3>1. PICK n \in Inos : n = create_file(q, Lowest(FreeInos))[q]
      BY Zenon, <2>2
    <3>2. Install(p, [kind |-> "file", ino |-> n, entries |-> <<>>, pos |-> 0])
      BY Zenon, <2>4, <3>1 DEF FileHandle
    <3>3. NoneWhenGone' /\ FileHasData'
      BY Zenon, <2>1, <3>2, InstallDescs
    <3> QED
      BY Zenon, <1>b, <2>1, <3>3
  <2>5. \/ UNCHANGED <<fd_types, file_handles, handles>>
        \/ Install(p, FileHandle(create_file(q, Lowest(FreeInos))[q]))
    BY Zenon, <1>2 DEF sys_open_creat
  <2> QED
    BY Zenon, <2>3, <2>4, <2>5
<1>3. ASSUME NEW p \in Procs, NEW f \in Fds, NEW n, sys_read(p, f, n) \/ sys_readdir(p, f, n)
      PROVE  Rest'
  <2>1. /\ UNCHANGED <<programs, live, fd_types, content>> /\ IsFile(p, f)
        /\ n \in programs[p].read \/ n \in programs[p].readdir
    BY Zenon, <1>3 DEF sys_read, sys_readdir, Call
  <2>2. n \in Nat
    <3>1. programs[p].read \cup programs[p].readdir \subseteq Nat \ {0}
      BY Zenon, <1>b, FilesAssumption
    <3> QED
      BY Zenon, <2>1, <3>1
  <2>3. HandleOf(p, f) \in Handles
    BY Zenon, <1>a, <2>1, HandleThere
  <2>4. FileHasData'
    <3>1. PICK h \in Handles : h = HandleOf(p, f)
      BY Zenon, <2>3
    <3>2. CASE UNCHANGED handles
      BY Zenon, <1>b, <3>2 DEF FileHasData
    <3>3. CASE handles' = [handles EXCEPT ![h].pos = ReadStep(handles[h], n).pos]
      <4>1. handles[h].kind = "file" => ReadStep(handles[h], n).pos \in Nat
        BY Zenon, <2>2, FilePosition
      <4> QED
        BY Zenon, <3>3, <4>1, MovedData
    <3>4. CASE handles' = [handles EXCEPT ![h].pos = ReaddirLoop(handles[h], n).pos]
      <4>1. handles[h].kind = "file" => ReaddirLoop(handles[h], n).pos \in Nat
        BY Zenon, <2>2, FilePosition
      <4> QED
        BY Zenon, <3>4, <4>1, MovedData
    <3> QED
      BY Zenon, <1>3, <3>1, <3>2, <3>3, <3>4 DEF sys_read, sys_readdir
  <2> QED
    BY Zenon, <1>b, <2>1, <2>4 DEF NoneWhenGone
<1>4. ASSUME NEW p \in Procs, NEW f \in Fds, NEW bytes, sys_write(p, f, bytes)
      PROVE  Rest'
  <2>1. PICK h : h = HandleOf(p, f)
    BY Zenon
  <2>2. /\ UNCHANGED <<programs, live, fd_types>> /\ IsFile(p, f) /\ bytes \in programs[p].write
        /\ handles[h].kind = "file"
        /\ content' = [content EXCEPT ![handles[h].ino] = Written(bytes, @, handles[h].pos)]
        /\ handles' = [handles EXCEPT ![h].pos = @ + Len(bytes)]
    BY Zenon, <1>4, <2>1 DEF sys_write, Call
  <2>3. bytes \in Seq(Nat)
    BY Zenon, <1>b, <2>2, FilesAssumption
  <2>4. h \in Handles
    BY Zenon, <1>a, <2>1, <2>2, HandleThere
  <2>5. handles[h].ino \in Inos /\ handles[h].pos \in Nat
    BY Zenon, <1>b, <2>2, <2>4 DEF FileHasData
  <2>6. handles[h].pos + Len(bytes) \in Nat
    BY <2>3, <2>5
  <2>7. handles' = [handles EXCEPT ![h].pos = handles[h].pos + Len(bytes)]
    BY Zenon, <2>2
  <2>8. FileHasData'
    BY Zenon, <2>6, <2>7, MovedData
  <2>9. Written(bytes, content[handles[h].ino], handles[h].pos) \in Seq(Nat)
    BY Zenon, <1>b, <2>3, <2>5, WrittenBytes
  <2>10. content' \in [Inos -> Seq(Nat)]
    BY Zenon, <1>b, <2>2, <2>9
  <2> QED
    BY Zenon, <1>b, <2>2, <2>8, <2>10 DEF NoneWhenGone
<1>5. ASSUME NEW p \in Procs, NEW f \in Fds, NEW off, sys_lseek(p, f, off)
      PROVE  Rest'
  <2>1. /\ UNCHANGED <<programs, live, fd_types, content>> /\ off \in programs[p].lseek
        /\ handles' = [handles EXCEPT ![HandleOf(p, f)].pos = off]
    BY Zenon, <1>5 DEF sys_lseek, Call
  <2>2. off \in Nat
    BY Zenon, <1>b, <2>1, FilesAssumption
  <2>3. FileHasData'
    BY Zenon, <2>1, <2>2, MovedData
  <2> QED
    BY Zenon, <1>b, <2>1, <2>3 DEF NoneWhenGone
<1>6. ASSUME NEW p \in Procs, NEW f \in Fds, sys_close(p, f) \/ sys_dup(p, f)
      PROVE  Rest'
  <2>1. UNCHANGED <<programs, live, handles, content>> /\ p \in live
    BY Zenon, <1>6 DEF sys_close, sys_dup, Call
  <2>2. \E e, x : fd_types' = [fd_types EXCEPT ![p][e] = x]
    BY Zenon, <1>6 DEF sys_close, sys_dup
  <2>3. NoneWhenGone'
    BY Zenon, <1>b, <1>c, <2>1, <2>2 DEF NoneWhenGone
  <2> QED
    BY Zenon, <1>b, <2>1, <2>3 DEF FileHasData
\* Dropping handles that no slot holds any more.
<1>7. ASSUME handles' = Kept(file_handles', handles)
      PROVE  FileHasData'
  <2>1. \A h \in Handles : handles'[h] = handles[h] \/ handles'[h] = FreeHandle
    BY Zenon, <1>7 DEF Kept
  <2>2. FreeHandle.kind # "file"
    BY Zenon DEF FreeHandle
  <2> QED
    BY Zenon, <1>b, <2>1, <2>2 DEF FileHasData
<1>8. ASSUME NEW p \in Procs, NEW f \in Fds, NEW g \in Fds, sys_dup2(p, f, g)
      PROVE  Rest'
  <2>1. /\ programs' = programs /\ live' = live /\ p \in live
        /\ handles' = Kept(file_handles', handles) /\ content' = KeptData(tree, handles', content)
        /\ fd_types' = [fd_types EXCEPT ![p][g] = fd_types[p][f]]
    BY Zenon, <1>8 DEF sys_dup2, Call
  <2>2. NoneWhenGone'
    BY Zenon, <1>b, <1>c, <2>1 DEF NoneWhenGone
  <2>3. content' \in [Inos -> Seq(Nat)]
    BY Zenon, <2>1, KeptDataFacts
  <2> QED
    BY Zenon, <1>b, <1>7, <2>1, <2>2, <2>3
<1>9. ASSUME NEW p \in Procs, NEW c \in Procs, sys_fork(p, c)
      PROVE  Rest'
  <2>1. /\ UNCHANGED <<programs, handles, content>> /\ live' = live \cup {c}
        /\ fd_types' = [fd_types EXCEPT ![c] = fd_types[p]]
    BY Zenon, <1>9 DEF sys_fork
  <2>2. NoneWhenGone'
    BY Zenon, <1>b, <1>c, <2>1 DEF NoneWhenGone
  <2> QED
    BY Zenon, <1>b, <2>1, <2>2 DEF FileHasData
<1>10. ASSUME NEW p \in Procs, drop(p)
       PROVE  Rest'
  <2>1. /\ programs' = programs /\ live' = live \ {p}
        /\ handles' = Kept(file_handles', handles) /\ content' = KeptData(tree, handles', content)
        /\ fd_types' = [fd_types EXCEPT ![p] = [f \in Fds |-> None]]
    BY Zenon, <1>10 DEF drop
  <2>2. NoneWhenGone'
    BY Zenon, <1>b, <1>c, <2>1 DEF NoneWhenGone
  <2>3. content' \in [Inos -> Seq(Nat)]
    BY Zenon, <2>1, KeptDataFacts
  <2> QED
    BY Zenon, <1>b, <1>7, <2>1, <2>2, <2>3
<1>11. ASSUME NEW p \in Procs, NEW x, sys_unlink(p, x) \/ sys_mkdir(p, x) \/ sys_chdir(p, x)
       PROVE  Rest'
  <2>1. UNCHANGED <<programs, live, fd_types, handles>>
    BY Zenon, <1>11 DEF sys_unlink, sys_mkdir, sys_chdir
  <2>2. content' = content \/ content' = KeptData(tree', handles, content)
    BY Zenon, <1>11 DEF sys_unlink, sys_mkdir, sys_chdir
  <2>3. content' \in [Inos -> Seq(Nat)]
    BY Zenon, <1>b, <2>2, KeptDataFacts
  <2> QED
    BY Zenon, <1>b, <2>1, <2>3 DEF NoneWhenGone, FileHasData
<1> HIDE DEF Rest
<1>12. Rest'
  BY Zenon, <1>0, <1>1, <1>2, <1>3, <1>4, <1>5, <1>6, <1>8, <1>9, <1>10, <1>11 DEF Next
<1> QED
  BY Zenon, <1>a, <1>12 DEF Rest, DescInv

\* A handle in a slot is held.
LEMMA SlotHolds ==
  ASSUME NEW fh, NEW p \in Procs, NEW s \in Slots, fh[p][s] # None
  PROVE  fh[p][s] \in HeldHandles(fh)
  BY SMT DEF HeldHandles

\* The type of a descriptor.
LEMMA FdTyped ==
  ASSUME FdInv, NEW p \in Procs, NEW f \in Fds
  PROVE  fd_types[p][f] \in Slots \cup {None, Std}
  BY ZenonT(40) DEF FdInv, Tables

\* The arguments of a program's calls are among those of all programs.
LEMMA CallArguments ==
  ASSUME NEW w \in Programs, NEW p \in Procs
  PROVE  /\ w[p].read \subseteq CallCounts /\ w[p].lseek \subseteq CallCounts
         /\ w[p].write \subseteq CallTexts
<1> DEFINE Numbers(v) == UNION {v[q].read \cup v[q].lseek : q \in Procs}
           Texts(v) == UNION {v[q].write : q \in Procs}
<1>1. w[p].read \subseteq Numbers(w) /\ w[p].lseek \subseteq Numbers(w) /\ w[p].write \subseteq Texts(w)
  BY Zenon
<1>2. CallCounts = UNION {Numbers(v) : v \in Programs} /\ CallTexts = UNION {Texts(v) : v \in Programs}
  BY Zenon DEF CallCounts, CallTexts
<1> HIDE DEF Numbers, Texts
<1> QED
  BY Zenon, <1>1, <1>2

\* What a descriptor leads to, by its type.
LEMMA DescCases ==
  ASSUME FdInv, NEW p \in Procs, NEW f \in Fds
  PROVE  /\ fd_types[p][f] = None => DescOf(p, f) = None
         /\ fd_types[p][f] = Std => DescOf(p, f) = Std
         /\ fd_types[p][f] \in Slots =>
              /\ HandleOf(p, f) \in Handles
              /\ DescOf(p, f) = IF handles[HandleOf(p, f)].kind = "file" THEN HandleOf(p, f) ELSE Std
         /\ fd_types[p][f] # None => DescOf(p, f) # None
<1>1. fd_types[p][f] \in Slots => IsFile(p, f)
  BY Zenon DEF FdInv, FdHasSlot, IsFile
<1>2. fd_types[p][f] \in Slots => HandleOf(p, f) \in Handles
  BY Zenon, <1>1, HandleThere
<1>3. fd_types[p][f] \in Slots \cup {None, Std}
  BY ZenonT(40) DEF FdInv, Tables
<1>4. fd_types[p][f] \notin Slots => ~ IsFile(p, f)
  BY Zenon DEF IsFile
<1>5. fd_types[p][f] = None => DescOf(p, f) = None
  BY Zenon, <1>4, Distinct DEF DescOf
<1>6. fd_types[p][f] = Std => DescOf(p, f) = Std
  BY Zenon, <1>4, Distinct DEF DescOf
<1>7. fd_types[p][f] \in Slots =>
        DescOf(p, f) = IF handles[HandleOf(p, f)].kind = "file" THEN HandleOf(p, f) ELSE Std
  BY Zenon, <1>1 DEF DescOf
<1>8. fd_types[p][f] \in Slots => DescOf(p, f) # None
  BY Zenon, <1>2, <1>7, Distinct
<1> QED
  BY Zenon, <1>2, <1>3, <1>5, <1>6, <1>7, <1>8, Distinct

\* A description some descriptor names is the handle of a file, and a slot
\* holds it.
LEMMA NamedIsHeld ==
  ASSUME DescInv, NEW h \in Open!Named(DescTable)
  PROVE  /\ h \in Handles /\ h \in HeldHandles(file_handles) /\ handles[h].kind = "file"
         /\ handles[h].ino \in Inos /\ handles[h].ino \in HeldInos(tree, handles)
<1>0. FdInv
  BY Zenon DEF DescInv
<1>1. h \in Handles /\ \E p \in Procs, f \in Fds : DescTable[p][f] = h
  BY Zenon DEF Open!Named
<1>2. PICK p \in Procs, f \in Fds : DescOf(p, f) = h
  BY Zenon, <1>1 DEF DescTable
<1>3. h # None /\ h # Std
  BY <1>1, FilesAssumption DEF None, Std
<1>4. fd_types[p][f] \in Slots
  BY Zenon, <1>0, <1>2, <1>3, DescCases, FdTyped
<1>5. h = HandleOf(p, f) /\ handles[h].kind = "file"
  BY Zenon, <1>0, <1>2, <1>3, <1>4, DescCases
<1>6. h \in HeldHandles(file_handles)
  BY Zenon, <1>3, <1>4, <1>5, SlotHolds DEF HandleOf
<1>7. handles[h].ino \in Inos
  BY Zenon, <1>1, <1>5 DEF DescInv, FileHasData
<1>8. handles[h].ino \in HeldInos(tree, handles)
  BY Zenon, <1>1, <1>7, DistinctNodes DEF HeldInos
<1> QED
  BY Zenon, <1>1, <1>5, <1>6, <1>7, <1>8

\* The descriptor of a file names its description.
LEMMA FileIsNamed ==
  ASSUME DescInv, NEW p \in Procs, NEW f \in Fds, IsFile(p, f), handles[HandleOf(p, f)].kind = "file"
  PROVE  HandleOf(p, f) \in Open!Named(DescTable)
<1>1. HandleOf(p, f) \in Handles
  BY Zenon, HandleThere DEF DescInv
<1>2. DescTable[p][f] = HandleOf(p, f)
  BY Zenon DEF DescTable, DescOf
<1> QED
  BY Zenon, <1>1, <1>2 DEF Open!Named

\* The data of a description some descriptor names is held.
LEMMA HeldIsHeld ==
  ASSUME DescInv, NEW i \in Open!Held(DescTable, Descriptions)
  PROVE  i \in Inos /\ i \in HeldInos(tree, handles)
<1>1. PICK h \in Open!Named(DescTable) : i = Descriptions[h].ino
  BY Zenon DEF Open!Held
<1>2. h \in Handles /\ handles[h].ino \in Inos /\ handles[h].ino \in HeldInos(tree, handles)
  BY Zenon, NamedIsHeld
<1>3. Descriptions[h] = [ino |-> handles[h].ino, pos |-> handles[h].pos]
  BY Zenon, <1>2 DEF Descriptions
<1>4. i = handles[h].ino
  BY <1>1, <1>3
<1> QED
  BY Zenon, <1>2, <1>4

\* A descriptor leads where another led before the step when it has that one's
\* type, its slot that one's handle, and the handle its kind.
LEMMA SameDesc ==
  ASSUME FdInv, FdInv', NEW o \in Procs, NEW e \in Fds, NEW p \in Procs, NEW f \in Fds,
         fd_types'[o][e] = fd_types[p][f],
         fd_types[p][f] \in Slots =>
           /\ file_handles'[o][fd_types[p][f]] = HandleOf(p, f)
           /\ handles'[HandleOf(p, f)].kind = handles[HandleOf(p, f)].kind
  PROVE  DescOf(o, e)' = DescOf(p, f)
<1>1. /\ fd_types'[o][e] = None => DescOf(o, e)' = None
      /\ fd_types'[o][e] = Std => DescOf(o, e)' = Std
      /\ fd_types'[o][e] \in Slots =>
           DescOf(o, e)' = IF handles'[file_handles'[o][fd_types'[o][e]]].kind = "file"
                           THEN file_handles'[o][fd_types'[o][e]] ELSE Std
  <2>1. fd_types'[o][e] \in Slots => IsFile(o, e)'
    BY Zenon DEF FdInv, FdHasSlot, IsFile
  <2>2. fd_types'[o][e] \notin Slots => ~ IsFile(o, e)'
    BY Zenon DEF IsFile
  <2>3. fd_types'[o][e] = None => DescOf(o, e)' = None
    BY Zenon, <2>2, Distinct DEF DescOf
  <2>4. fd_types'[o][e] = Std => DescOf(o, e)' = Std
    BY Zenon, <2>2, Distinct DEF DescOf
  <2>5. fd_types'[o][e] \in Slots =>
           DescOf(o, e)' = IF handles'[file_handles'[o][fd_types'[o][e]]].kind = "file"
                           THEN file_handles'[o][fd_types'[o][e]] ELSE Std
    BY Zenon, <2>1 DEF DescOf, HandleOf
  <2> QED
    BY Zenon, <2>3, <2>4, <2>5
<1>2. fd_types[p][f] \in Slots \cup {None, Std}
  BY Zenon, FdTyped
<1> QED
  BY ZenonT(40), <1>1, <1>2, DescCases

\* One descriptor changes and no other: the table is updated there.
LEMMA TableAssign ==
  ASSUME NEW p \in Procs, NEW f \in Fds, NEW x, DescOf(p, f)' = x,
         \A o \in Procs : \A e \in Fds : (o # p \/ e # f) => DescOf(o, e)' = DescOf(o, e)
  PROVE  Open!Assign(p, f, x)
<1>1. DescTable' = [o \in Procs |-> [e \in Fds |-> DescOf(o, e)']]
  BY Zenon DEF DescTable
<1>2. [DescTable EXCEPT ![p][f] = x]
        = [o \in Procs |-> [e \in Fds |-> IF o = p /\ e = f THEN x ELSE DescOf(o, e)]]
  BY Zenon DEF DescTable
<1>3. \A o \in Procs : \A e \in Fds : DescOf(o, e)' = IF o = p /\ e = f THEN x ELSE DescOf(o, e)
  BY Zenon
<1>4. \A o \in Procs : [e \in Fds |-> DescOf(o, e)']
                         = [e \in Fds |-> IF o = p /\ e = f THEN x ELSE DescOf(o, e)]
  BY Zenon, <1>3
<1> QED
  BY Zenon, <1>1, <1>2, <1>4 DEF Open!Assign

\* No descriptor changes: the table stays.
LEMMA TableSame ==
  ASSUME \A o \in Procs : \A e \in Fds : DescOf(o, e)' = DescOf(o, e)
  PROVE  DescTable' = DescTable
<1>1. DescTable' = [o \in Procs |-> [e \in Fds |-> DescOf(o, e)']]
  BY Zenon DEF DescTable
<1>2. \A o \in Procs : [e \in Fds |-> DescOf(o, e)'] = [e \in Fds |-> DescOf(o, e)]
  BY Zenon
<1> QED
  BY Zenon, <1>1, <1>2 DEF DescTable

\* The same of the state after a step.
LEMMA NamedPrimed ==
  (DescInv => \A h \in Open!Named(DescTable) : h \in Handles /\ h \in HeldHandles(file_handles))'
<1>1. DescInv => \A h \in Open!Named(DescTable) : h \in Handles /\ h \in HeldHandles(file_handles)
  BY Zenon, NamedIsHeld
<1> QED
  BY <1>1, PTL

\* The same of the state after a step.
LEMMA HeldPrimed ==
  (DescInv => \A i \in Open!Held(DescTable, Descriptions) : i \in Inos /\ i \in HeldInos(tree, handles))'
<1>1. DescInv => \A i \in Open!Held(DescTable, Descriptions) : i \in Inos /\ i \in HeldInos(tree, handles)
  BY Zenon, HeldIsHeld
<1> QED
  BY <1>1, PTL

\* A step that leaves the handles in slots and the data held as they were keeps
\* what descriptors observe.
LEMMA KeepLemma ==
  ASSUME DescInv, DescInv',
         \A h \in HeldHandles(file_handles) \cap HeldHandles(file_handles') : h \in Handles => handles'[h] = handles[h],
         \A i \in Inos : i \in HeldInos(tree, handles) \cap HeldInos(tree', handles') => content'[i] = content[i]
  PROVE  Open!Keep
<1>1. ASSUME NEW h \in Open!Named(DescTable), h \in Open!Named(DescTable')
      PROVE  Descriptions'[h] = Descriptions[h]
  <2>1. h \in Handles /\ h \in HeldHandles(file_handles)
    BY Zenon, NamedIsHeld
  <2>2. h \in HeldHandles(file_handles')
    BY Zenon, <1>1, NamedPrimed
  <2>3. handles'[h] = handles[h]
    BY Zenon, <2>1, <2>2
  <2> QED
    BY Zenon, <2>1, <2>3 DEF Descriptions
<1>2. ASSUME NEW i \in Open!Held(DescTable, Descriptions), i \in Open!Held(DescTable', Descriptions')
      PROVE  content'[i] = content[i]
  <2>1. i \in Inos /\ i \in HeldInos(tree, handles)
    BY Zenon, HeldIsHeld
  <2>2. i \in HeldInos(tree', handles')
    BY Zenon, <1>2, HeldPrimed
  <2> QED
    BY Zenon, <2>1, <2>2
<1> QED
  BY Zenon, <1>1, <1>2 DEF Open!Keep

\* Opening makes a description nobody named, or a descriptor of a directory.
LEMMA InstallOpens ==
  ASSUME DescInv, DescInv', NEW p \in Procs, NEW k, NEW n, NEW es,
         Install(p, [kind |-> k, ino |-> n, entries |-> es, pos |-> 0]),
         \A i \in Inos : i \in HeldInos(tree, handles) => content'[i] = content[i]
  PROVE  Open!Next
<1>0. FdInv /\ FdInv'
  BY Zenon DEF DescInv
<1>1. PICK f \in Fds, s \in Slots, h \in Handles : InstalledAt(p, k, n, f, s, h)
  BY Zenon, <1>0, InstallFacts
<1>2. /\ fd_types[p][f] = None /\ file_handles[p][s] = None
      /\ h \notin HeldHandles(file_handles)
      /\ fd_types' = [fd_types EXCEPT ![p][f] = s]
      /\ file_handles' = [file_handles EXCEPT ![p][s] = h]
      /\ \A g \in Handles : g # h => handles'[g] = handles[g]
      /\ handles'[h].kind = k /\ handles'[h].ino = n /\ handles'[h].pos = 0
  BY Zenon, <1>1 DEF InstalledAt
<1>3. ASSUME NEW o \in Procs, NEW e \in Fds, o # p \/ e # f
      PROVE  DescOf(o, e)' = DescOf(o, e)
  <2>1. fd_types'[o][e] = fd_types[o][e]
    BY Zenon, <1>0, <1>2, <1>3 DEF FdInv, Tables
  <2>2. ASSUME fd_types[o][e] \in Slots
        PROVE  /\ file_handles'[o][fd_types[o][e]] = HandleOf(o, e)
               /\ handles'[HandleOf(o, e)].kind = handles[HandleOf(o, e)].kind
    <3>1. file_handles[o][fd_types[o][e]] # None /\ HandleOf(o, e) \in Handles
      BY Zenon, <1>0, <2>2, DescCases DEF FdInv, FdHasSlot
    <3>2. o # p \/ fd_types[o][e] # s
      BY Zenon, <1>2, <3>1
    <3>3. file_handles'[o][fd_types[o][e]] = file_handles[o][fd_types[o][e]]
      BY Zenon, <1>0, <1>2, <2>2, <3>2 DEF FdInv, Tables
    <3>4. HandleOf(o, e) \in HeldHandles(file_handles)
      BY Zenon, <2>2, <3>1, SlotHolds DEF HandleOf
    <3> QED
      BY Zenon, <1>2, <3>1, <3>3, <3>4 DEF HandleOf
  <2> QED
    BY ZenonT(40), <1>0, <2>1, <2>2, SameDesc
<1>4. Open!Keep
  <2>1. \A g \in HeldHandles(file_handles) \cap HeldHandles(file_handles') :
          g \in Handles => handles'[g] = handles[g]
    BY Zenon, <1>2
  <2> QED
    BY Zenon, <2>1, KeepLemma
<1>5. DescTable[p][f] = None
  BY Zenon, <1>0, <1>2, DescCases DEF DescTable
<1>6. /\ fd_types'[p][f] = s /\ file_handles'[p][s] = h
  BY Zenon, <1>0, <1>2 DEF FdInv, Tables
<1>7. DescOf(p, f)' = IF k = "file" THEN h ELSE Std
  <2>1. IsFile(p, f)' /\ HandleOf(p, f)' = h
    BY ZenonT(40), <1>2, <1>6, Distinct DEF IsFile, HandleOf
  <2> QED
    BY Zenon, <1>2, <2>1 DEF DescOf
<1>8. CASE k = "file"
  <2>1. Open!Assign(p, f, h)
    BY Zenon, <1>3, <1>7, <1>8, TableAssign
  <2>2. h \notin Open!Named(DescTable)
    BY Zenon, <1>2, NamedIsHeld
  <2>3. Descriptions'[h].pos = 0
    <3>1. Descriptions'[h] = [ino |-> handles'[h].ino, pos |-> handles'[h].pos]
      BY Zenon DEF Descriptions
    <3>2. [ino |-> handles'[h].ino, pos |-> handles'[h].pos].pos = handles'[h].pos
      BY Zenon
    <3> QED
      BY Zenon, <1>2, <3>1, <3>2
  <2>4. Open!Open(p, f, h)
    BY Zenon, <1>4, <1>5, <2>1, <2>2, <2>3 DEF Open!Open
  <2> QED
    BY Zenon, <2>4 DEF Open!Next
<1>9. CASE k # "file"
  <2>1. Open!Assign(p, f, Std)
    BY Zenon, <1>3, <1>7, <1>9, TableAssign
  <2>2. Open!OpenOther(p, f)
    BY Zenon, <1>4, <1>5, <2>1 DEF Open!OpenOther
  <2> QED
    BY Zenon, <2>2 DEF Open!Next
<1> QED
  BY Zenon, <1>8, <1>9

\* A step that leaves descriptors and handles alone and no held data changed is
\* one of the namespace.
LEMMA NamesOnly ==
  ASSUME DescInv, DescInv', UNCHANGED <<fd_types, file_handles, handles>>,
         \A i \in Inos : i \in HeldInos(tree, handles) \cap HeldInos(tree', handles') => content'[i] = content[i]
  PROVE  Open!Next
<1>1. DescTable' = DescTable
  BY Zenon DEF DescTable, DescOf, IsFile, HandleOf
<1>2. Open!Keep
  BY Zenon, KeepLemma
<1> QED
  BY Zenon, <1>1, <1>2 DEF Open!Next, Open!Namespace

\* What moving the position of one handle is to the descriptions.
LEMMA MoveFacts ==
  ASSUME DescInv, DescInv', NEW h \in Handles, NEW v, handles' = [handles EXCEPT ![h].pos = v],
         UNCHANGED <<fd_types, file_handles>>
  PROVE  /\ DescTable' = DescTable
         /\ Descriptions'[h] = [Descriptions[h] EXCEPT !.pos = v]
         /\ \A g \in Handles : g # h => Descriptions'[g] = Descriptions[g]
<1>0. FdInv
  BY Zenon DEF DescInv
<1>1. \A g \in Handles : /\ handles'[g].kind = handles[g].kind
                         /\ handles'[g].ino = handles[g].ino
                         /\ g = h => handles'[g].pos = v
                         /\ g # h => handles'[g].pos = handles[g].pos
  <2>1. MovedTo(h, v)
    BY Zenon, <1>0, PositionMoved
  <2> QED
    BY Zenon, <2>1 DEF MovedTo
<1>2. ASSUME NEW o \in Procs, NEW e \in Fds
      PROVE  DescOf(o, e)' = DescOf(o, e)
  <2>1. fd_types[o][e] \in Slots => HandleOf(o, e) \in Handles
    BY Zenon, DescCases DEF DescInv
  <2>2. fd_types[o][e] \in Slots =>
           /\ file_handles'[o][fd_types[o][e]] = HandleOf(o, e)
           /\ handles'[HandleOf(o, e)].kind = handles[HandleOf(o, e)].kind
    BY Zenon, <1>1, <2>1 DEF HandleOf
  <2> QED
    BY Zenon, <2>2, SameDesc DEF DescInv
<1>3. DescTable' = DescTable
  BY Zenon, <1>2, TableSame
<1>4. \A g \in Handles : /\ Descriptions[g] = [ino |-> handles[g].ino, pos |-> handles[g].pos]
                         /\ Descriptions'[g] = [ino |-> handles'[g].ino, pos |-> handles'[g].pos]
  BY Zenon DEF Descriptions
<1>5. Descriptions'[h] = [Descriptions[h] EXCEPT !.pos = v]
  <2>1. PICK i, w : i = handles[h].ino /\ w = handles[h].pos
    BY Zenon
  <2>2. Descriptions[h] = [ino |-> i, pos |-> w] /\ Descriptions'[h] = [ino |-> i, pos |-> v]
    <3>1. handles'[h].ino = i /\ handles'[h].pos = v
      BY Zenon, <1>1, <2>1
    <3> QED
      BY Zenon, <1>4, <2>1, <3>1
  <2> QED
    BY <2>2
<1>6. ASSUME NEW g \in Handles, g # h
      PROVE  Descriptions'[g] = Descriptions[g]
  <2>1. handles'[g].ino = handles[g].ino /\ handles'[g].pos = handles[g].pos
    BY Zenon, <1>1, <1>6
  <2>2. /\ Descriptions[g] = [ino |-> handles[g].ino, pos |-> handles[g].pos]
        /\ Descriptions'[g] = [ino |-> handles'[g].ino, pos |-> handles'[g].pos]
    BY Zenon, <1>4
  <2> QED
    BY <2>1, <2>2
<1> QED
  BY Zenon, <1>3, <1>5, <1>6

\* Moving the position of a directory's handle is no step of any description.
LEMMA DirMoves ==
  ASSUME DescInv, DescInv', NEW h \in Handles, NEW v, handles' = [handles EXCEPT ![h].pos = v],
         UNCHANGED <<fd_types, file_handles, content>>, handles[h].kind # "file"
  PROVE  Open!Next
<1>1. /\ DescTable' = DescTable
      /\ \A g \in Handles : g # h => Descriptions'[g] = Descriptions[g]
  BY Zenon, MoveFacts
<1>2. \A g \in Open!Named(DescTable) : Descriptions'[g] = Descriptions[g]
  BY Zenon, <1>1, NamedIsHeld
<1>3. Open!Keep
  BY Zenon, <1>1, <1>2 DEF Open!Keep
<1> QED
  BY Zenon, <1>1, <1>3 DEF Open!Next, Open!Namespace

\* A call that copies a descriptor over another one, and drops the handles
\* and data that nothing refers to any more.
LEMMA CopyKeeps ==
  ASSUME DescInv, DescInv', NEW p \in Procs, NEW f \in Fds, NEW g \in Fds, fd_types[p][f] # None,
         fd_types' = [fd_types EXCEPT ![p][g] = fd_types[p][f]],
         \A o \in Procs : \A e \in Fds : fd_types'[o][e] \in Slots =>
           file_handles'[o][fd_types'[o][e]] = file_handles[o][fd_types'[o][e]],
         \A h \in HeldHandles(file_handles') : h \in Handles => handles'[h] = handles[h],
         \A i \in Inos : i \in HeldInos(tree', handles') => content'[i] = content[i]
  PROVE  Open!Next
<1>0. FdInv /\ FdInv'
  BY Zenon DEF DescInv
<1>1. ASSUME NEW o \in Procs, NEW e \in Fds, NEW d \in Fds, fd_types'[o][e] = fd_types[o][d]
      PROVE  DescOf(o, e)' = DescOf(o, d)
  <2>1. ASSUME fd_types[o][d] \in Slots
        PROVE  /\ file_handles'[o][fd_types[o][d]] = HandleOf(o, d)
               /\ handles'[HandleOf(o, d)].kind = handles[HandleOf(o, d)].kind
    <3>1. file_handles'[o][fd_types[o][d]] = HandleOf(o, d)
      <4>1. fd_types'[o][e] \in Slots
        BY Zenon, <1>1, <2>1
      <4>2. file_handles'[o][fd_types'[o][e]] = file_handles[o][fd_types'[o][e]]
        BY Zenon, <4>1
      <4> QED
        BY Zenon, <1>1, <4>2 DEF HandleOf
    <3>2. HandleOf(o, d) \in Handles /\ HandleOf(o, d) # None
      BY ZenonT(40), <1>0, <2>1, DescCases, Distinct
    <3>3. HandleOf(o, d) \in HeldHandles(file_handles')
      <4>1. file_handles'[o][fd_types[o][d]] # None
        BY Zenon, <3>1, <3>2
      <4> QED
        BY ZenonT(40), <2>1, <3>1, <4>1, SlotHolds
    <3> QED
      BY Zenon, <3>1, <3>2, <3>3
  <2> QED
    BY ZenonT(40), <1>0, <1>1, <2>1, SameDesc
<1>2. fd_types'[p][g] = fd_types[p][f]
  BY Zenon, <1>0 DEF FdInv, Tables
<1>3. \A o \in Procs : \A e \in Fds : (o # p \/ e # g) => fd_types'[o][e] = fd_types[o][e]
  BY ZenonT(40), <1>0 DEF FdInv, Tables
<1>4. Open!Assign(p, g, DescOf(p, f))
  BY Zenon, <1>1, <1>2, <1>3, TableAssign
<1>5. DescTable[p][f] = DescOf(p, f) /\ DescOf(p, f) # None
  BY Zenon, <1>0, DescCases DEF DescTable
<1>6. Open!Keep
  BY Zenon, KeepLemma
<1>7. Open!Copy(p, f, g)
  BY Zenon, <1>4, <1>5, <1>6 DEF Open!Copy
<1> QED
  BY Zenon, <1>7 DEF Open!Next

\* Every step of the kernel is a step of the shared descriptions, or none.
LEMMA DescStep == DescInv /\ DescInv' /\ [Next]_vars => [Open!Next]_(Open!vars)
<1> SUFFICES ASSUME DescInv, DescInv', [Next]_vars
             PROVE  Open!Next \/ UNCHANGED Open!vars
  BY Zenon
<1>a. /\ FdInv /\ FdInv' /\ programs \in Programs
      /\ fd_types \in [Procs -> [Fds -> Slots \cup {None, Std}]]
      /\ file_handles \in [Procs -> [Slots -> Handles \cup {None}]]
  BY Zenon DEF DescInv, FdInv, Tables
<1>0. CASE UNCHANGED vars
  <2>1. DescTable' = DescTable /\ Descriptions' = Descriptions /\ content' = content
    BY Zenon, <1>0 DEF vars, DescTable, Descriptions, DescOf, IsFile, HandleOf
  <2> QED
    BY Zenon, <2>1 DEF Open!vars
<1>1. ASSUME NEW p \in Procs, NEW q \in Paths, sys_open(p, q)
      PROVE  Open!Next
  <2>1. PICK i \in Inos : /\ Install(p, Opened(q, i)) /\ content' = Loaded(q, i)
                          /\ Resolves(q) /\ i \notin HeldInos(tree, handles)
    BY Zenon, <1>1, FreshIno DEF sys_open
  <2>2. PICK k, n, es : /\ Opened(q, i) = [kind |-> k, ino |-> n, entries |-> es, pos |-> 0]
                        /\ k # "free" /\ (k = "file" => n \in Inos)
    BY Zenon, <2>1, OpenedFile
  <2>3. Install(p, [kind |-> k, ino |-> n, entries |-> es, pos |-> 0])
    BY Zenon, <2>1, <2>2
  <2>4. \A j \in Inos : j \in HeldInos(tree, handles) => content'[j] = content[j]
    BY Zenon, <2>1 DEF Loaded, DescInv
  <2> QED
    BY Zenon, <2>3, <2>4, InstallOpens
<1>2. ASSUME NEW p \in Procs, NEW q \in Paths, sys_open_creat(p, q)
      PROVE  Open!Next
  <2>1. content' = content
    BY Zenon, <1>2 DEF sys_open_creat
  <2>2. CASE UNCHANGED <<fd_types, file_handles, handles>>
    BY Zenon, <2>1, <2>2, NamesOnly
  <2>3. CASE \E n : Install(p, FileHandle(n))
    <3>1. PICK n : Install(p, [kind |-> "file", ino |-> n, entries |-> <<>>, pos |-> 0])
      BY Zenon, <2>3 DEF FileHandle
    <3> QED
      BY Zenon, <2>1, <3>1, InstallOpens
  <2> QED
    BY Zenon, <1>2, <2>2, <2>3 DEF sys_open_creat
<1>3. ASSUME NEW p \in Procs, NEW f \in Fds, NEW n, sys_read(p, f, n)
      PROVE  Open!Next
  <2>1. /\ UNCHANGED <<fd_types, file_handles, content>> /\ IsFile(p, f) /\ n \in programs[p].read
    BY Zenon, <1>3 DEF sys_read, Call
  <2>2. n \in Nat /\ n \in CallCounts
    <3>1. programs[p].read \cup programs[p].readdir \subseteq Nat \ {0}
      BY Zenon, <1>a, FilesAssumption
    <3> QED
      BY Zenon, <1>a, <2>1, <3>1, CallArguments
  <2>3. PICK h \in Handles : h = HandleOf(p, f)
    BY Zenon, <1>a, <2>1, HandleThere
  <2>4. CASE UNCHANGED handles
    BY Zenon, <2>1, <2>4, NamesOnly
  <2>5. CASE handles' = [handles EXCEPT ![h].pos = ReadStep(handles[h], n).pos]
    <3>1. CASE handles[h].kind # "file"
      BY Zenon, <2>1, <2>5, <3>1, DirMoves
    <3>2. CASE handles[h].kind = "file"
      <4>1. h \in Open!Named(DescTable)
        BY Zenon, <2>1, <2>3, <3>2, FileIsNamed
      <4>2. PICK v : v = ReadStep(handles[h], n).pos
        BY Zenon
      <4>3. /\ DescTable' = DescTable
            /\ Descriptions'[h] = [Descriptions[h] EXCEPT !.pos = v]
            /\ \A g \in Handles : g # h => Descriptions'[g] = Descriptions[g]
        BY Zenon, <2>1, <2>5, <4>2, MoveFacts
      <4>4. Descriptions[h].ino = handles[h].ino /\ Descriptions[h].pos = handles[h].pos
        BY Zenon DEF Descriptions
      <4>5. v = handles[h].pos + Advance(handles[h].pos, Len(content[handles[h].ino]), n)
        BY Zenon, <2>2, <3>2, <4>2, FilePosition
      <4>6. Descriptions'[h] = [Descriptions[h] EXCEPT !.pos =
              Descriptions[h].pos + Advance(Descriptions[h].pos, Len(content[Descriptions[h].ino]), n)]
        BY Zenon, <4>3, <4>4, <4>5
      <4>7. \A g \in Open!Named(DescTable) \ {h} : Descriptions'[g] = Descriptions[g]
        BY Zenon, <4>3, NamedIsHeld
      <4>8. Open!Read(h, n)
        BY Zenon, <2>1, <4>1, <4>3, <4>6, <4>7 DEF Open!Read, Advance
      <4> QED
        BY Zenon, <2>2, <4>8 DEF Open!Next
    <3> QED
      BY Zenon, <3>1, <3>2
  <2> QED
    BY Zenon, <1>3, <2>3, <2>4, <2>5 DEF sys_read
<1>4. ASSUME NEW p \in Procs, NEW f \in Fds, NEW n, sys_readdir(p, f, n)
      PROVE  Open!Next
  <2>1. /\ UNCHANGED <<fd_types, file_handles, content>> /\ IsFile(p, f) /\ n \in programs[p].readdir
    BY Zenon, <1>4 DEF sys_readdir, Call
  <2>2. n \in Nat
    <3>1. programs[p].read \cup programs[p].readdir \subseteq Nat \ {0}
      BY Zenon, <1>a, FilesAssumption
    <3> QED
      BY Zenon, <2>1, <3>1
  <2>3. PICK h \in Handles : h = HandleOf(p, f)
    BY Zenon, <1>a, <2>1, HandleThere
  <2>4. CASE UNCHANGED handles
    BY Zenon, <2>1, <2>4, NamesOnly
  <2>5. CASE handles' = [handles EXCEPT ![h].pos = ReaddirLoop(handles[h], n).pos]
    <3>1. CASE handles[h].kind # "file"
      BY Zenon, <2>1, <2>5, <3>1, DirMoves
    <3>2. CASE handles[h].kind = "file"
      <4>1. h \in Open!Named(DescTable)
        BY Zenon, <2>1, <2>3, <3>2, FileIsNamed
      <4>2. PICK v : v = ReaddirLoop(handles[h], n).pos
        BY Zenon
      <4>3. /\ DescTable' = DescTable
            /\ Descriptions'[h] = [Descriptions[h] EXCEPT !.pos = v]
            /\ \A g \in Handles : g # h => Descriptions'[g] = Descriptions[g]
        BY Zenon, <2>1, <2>5, <4>2, MoveFacts
      <4>4. Descriptions[h].ino = handles[h].ino /\ Descriptions[h].pos = handles[h].pos
        BY Zenon DEF Descriptions
      <4>5. v \in handles[h].pos..Furthest(handles[h].pos, Len(content[handles[h].ino]))
        BY Zenon, <2>2, <3>2, <4>2, FilePosition
      <4>6. v \in Descriptions[h].pos..Furthest(Descriptions[h].pos, Len(content[Descriptions[h].ino]))
        BY Zenon, <4>4, <4>5
      <4>7. \A g \in Open!Named(DescTable) \ {h} : Descriptions'[g] = Descriptions[g]
        BY Zenon, <4>3, NamedIsHeld
      <4>8. Open!Skim(h)
        BY Zenon, <2>1, <4>1, <4>3, <4>6, <4>7 DEF Open!Skim, Furthest
      <4> QED
        BY Zenon, <4>8 DEF Open!Next
    <3> QED
      BY Zenon, <3>1, <3>2
  <2> QED
    BY Zenon, <1>4, <2>3, <2>4, <2>5 DEF sys_readdir
<1>5. ASSUME NEW p \in Procs, NEW f \in Fds, NEW off, sys_lseek(p, f, off)
      PROVE  Open!Next
  <2>1. /\ UNCHANGED <<fd_types, file_handles, content>> /\ IsFile(p, f) /\ off \in programs[p].lseek
        /\ handles' = [handles EXCEPT ![HandleOf(p, f)].pos = off]
    BY Zenon, <1>5 DEF sys_lseek, Call
  <2>2. off \in CallCounts
    BY Zenon, <1>a, <2>1, CallArguments
  <2>3. PICK h \in Handles : h = HandleOf(p, f)
    BY Zenon, <1>a, <2>1, HandleThere
  <2>4. CASE handles[h].kind # "file"
    BY Zenon, <2>1, <2>3, <2>4, DirMoves
  <2>5. CASE handles[h].kind = "file"
    <3>1. h \in Open!Named(DescTable)
      BY Zenon, <2>1, <2>3, <2>5, FileIsNamed
    <3>2. /\ DescTable' = DescTable
          /\ Descriptions'[h] = [Descriptions[h] EXCEPT !.pos = off]
          /\ \A g \in Handles : g # h => Descriptions'[g] = Descriptions[g]
      BY Zenon, <2>1, <2>3, MoveFacts
    <3>3. \A g \in Open!Named(DescTable) \ {h} : Descriptions'[g] = Descriptions[g]
      BY Zenon, <3>2, NamedIsHeld
    <3>4. Open!Seek(h, off)
      BY Zenon, <2>1, <3>1, <3>2, <3>3 DEF Open!Seek
    <3> QED
      BY Zenon, <2>2, <3>4 DEF Open!Next
  <2> QED
    BY Zenon, <2>4, <2>5
<1>6. ASSUME NEW p \in Procs, NEW f \in Fds, NEW bytes, sys_write(p, f, bytes)
      PROVE  Open!Next
  <2>1. PICK h : h = HandleOf(p, f)
    BY Zenon
  <2>2. /\ UNCHANGED <<fd_types, file_handles>> /\ IsFile(p, f) /\ bytes \in programs[p].write
        /\ handles[h].kind = "file"
        /\ content' = [content EXCEPT ![handles[h].ino] = Written(bytes, @, handles[h].pos)]
        /\ handles' = [handles EXCEPT ![h].pos = @ + Len(bytes)]
    BY Zenon, <1>6, <2>1 DEF sys_write, Call
  <2>3. bytes \in Seq(Nat) /\ bytes \in CallTexts
    BY Zenon, <1>a, <2>2, FilesAssumption, CallArguments
  <2>4. h \in Handles
    BY Zenon, <1>a, <2>1, <2>2, HandleThere
  <2>5. h \in Open!Named(DescTable)
    BY Zenon, <2>1, <2>2, FileIsNamed
  <2>6. PICK i \in Inos, from \in Nat : i = handles[h].ino /\ from = handles[h].pos
    BY Zenon, <2>2, <2>4 DEF DescInv, FileHasData
  <2>7. Descriptions[h].ino = i /\ Descriptions[h].pos = from
    BY Zenon, <2>4, <2>6 DEF Descriptions
  <2>8. handles' = [handles EXCEPT ![h].pos = from + Len(bytes)]
    BY Zenon, <2>2, <2>6
  <2>9. /\ DescTable' = DescTable
        /\ Descriptions'[h] = [Descriptions[h] EXCEPT !.pos = from + Len(bytes)]
        /\ \A g \in Handles : g # h => Descriptions'[g] = Descriptions[g]
    BY Zenon, <2>2, <2>4, <2>8, MoveFacts
  <2>10. \A g \in Open!Named(DescTable) \ {h} : Descriptions'[g] = Descriptions[g]
    BY Zenon, <2>9, NamedIsHeld
  <2>11. content[i] \in Seq(Nat) /\ content \in [Inos -> Seq(Nat)]
    BY Zenon, <2>6 DEF DescInv
  <2>12. content'[i] = Written(bytes, content[i], from)
    BY Zenon, <2>2, <2>6, <2>11
  <2>13. /\ Len(content'[i]) = IF from + Len(bytes) > Len(content[i]) THEN from + Len(bytes) ELSE Len(content[i])
         /\ \A k \in 1..Len(content'[i]) :
              content'[i][k] = IF k > from /\ k <= from + Len(bytes) THEN bytes[k - from]
                               ELSE IF k <= Len(content[i]) THEN content[i][k] ELSE 0
    <3>1. Spliced(content'[i], bytes, content[i], from)
      BY Zenon, <2>3, <2>6, <2>11, <2>12, WrittenBytes
    <3> QED
      BY Zenon, <3>1 DEF Spliced
  <2>14. \A j \in Open!Held(DescTable, Descriptions) \ {i} : content'[j] = content[j]
    BY Zenon, <2>2, <2>6, <2>11, HeldIsHeld
  <2>15. Open!Write(h, bytes)
    BY Zenon, <2>5, <2>7, <2>9, <2>10, <2>13, <2>14 DEF Open!Write
  <2> QED
    BY Zenon, <2>3, <2>4, <2>15 DEF Open!Next
<1>7. ASSUME NEW p \in Procs, NEW f \in Fds, sys_close(p, f)
      PROVE  Open!Next
  <2>1. /\ UNCHANGED <<file_handles, handles, tree, content>>
        /\ fd_types' = [fd_types EXCEPT ![p][f] = None]
    BY Zenon, <1>7 DEF sys_close
  <2>2. fd_types'[p][f] = None
    BY Zenon, <1>a, <2>1
  <2>3. DescOf(p, f)' = None
    BY Zenon, <2>2, Distinct DEF DescOf, IsFile
  <2>4. ASSUME NEW o \in Procs, NEW e \in Fds, o # p \/ e # f
        PROVE  DescOf(o, e)' = DescOf(o, e)
    <3>1. fd_types'[o][e] = fd_types[o][e]
      BY Zenon, <1>a, <2>1, <2>4
    <3>2. IsFile(o, e)' = IsFile(o, e) /\ HandleOf(o, e)' = HandleOf(o, e)
      BY Zenon, <2>1, <3>1 DEF IsFile, HandleOf
    <3> QED
      BY Zenon, <2>1, <3>1, <3>2 DEF DescOf
  <2>5. Open!Assign(p, f, None)
    BY Zenon, <2>3, <2>4, TableAssign
  <2>6. Open!Keep
    BY Zenon, <2>1, KeepLemma
  <2>7. Open!Close(p, f)
    BY Zenon, <2>5, <2>6 DEF Open!Close
  <2> QED
    BY Zenon, <2>7 DEF Open!Next
<1>8. ASSUME NEW p \in Procs, NEW f \in Fds, sys_dup(p, f)
      PROVE  Open!Next
  <2>1. /\ UNCHANGED <<file_handles, handles, tree, content>> /\ fd_types[p][f] # None
        /\ fd_types' = [fd_types EXCEPT ![p][Lowest(FreeFds(p))] = fd_types[p][f]]
        /\ FreeFds(p) # {}
    BY Zenon, <1>8 DEF sys_dup
  <2>2. FreeFds(p) \subseteq Nat /\ FreeFds(p) \subseteq Fds
    BY Zenon, Distinct DEF FreeFds
  <2>3. PICK g \in Fds : g = Lowest(FreeFds(p))
    BY Zenon, <2>1, <2>2, LowestProperty
  <2>4. fd_types' = [fd_types EXCEPT ![p][g] = fd_types[p][f]]
    BY Zenon, <2>1, <2>3
  <2>5. \A o \in Procs : \A e \in Fds : fd_types'[o][e] \in Slots =>
           file_handles'[o][fd_types'[o][e]] = file_handles[o][fd_types'[o][e]]
    BY Zenon, <2>1
  <2> QED
    BY ZenonT(40), <2>1, <2>4, <2>5, CopyKeeps
\* The handles and the data that are still held are as they were.
<1>9. ASSUME handles' = Kept(file_handles', handles), content' = KeptData(tree, handles', content), tree' = tree
      PROVE  /\ \A h \in HeldHandles(file_handles') : h \in Handles => handles'[h] = handles[h]
             /\ \A i \in Inos : i \in HeldInos(tree', handles') => content'[i] = content[i]
  BY Zenon, <1>9 DEF Kept, KeptData
<1>10. ASSUME NEW p \in Procs, NEW f \in Fds, NEW g \in Fds, sys_dup2(p, f, g)
       PROVE  Open!Next
  <2>1. /\ fd_types' = [fd_types EXCEPT ![p][g] = fd_types[p][f]] /\ f # g /\ fd_types[p][f] # None
        /\ file_handles' = Released(p, g) /\ tree' = tree
        /\ handles' = Kept(file_handles', handles) /\ content' = KeptData(tree, handles', content)
    BY Zenon, <1>10 DEF sys_dup2
  <2>2. \A o \in Procs : \A e \in Fds : fd_types'[o][e] \in Slots
           => file_handles'[o][fd_types'[o][e]] = file_handles[o][fd_types'[o][e]]
    BY Zenon, <1>a, <2>1 DEF Released, StillReferenced
  <2> QED
    BY Zenon, <1>9, <2>1, <2>2, CopyKeeps
<1>11. ASSUME NEW p \in Procs, NEW c \in Procs, sys_fork(p, c)
       PROVE  Open!Next
  <2>1. /\ UNCHANGED <<handles, tree, content>> /\ p \in live /\ c \notin live
        /\ fd_types' = [fd_types EXCEPT ![c] = fd_types[p]]
        /\ file_handles' = [file_handles EXCEPT ![c] = file_handles[p]]
    BY Zenon, <1>11 DEF sys_fork, Call
  <2>2. p # c
    BY Zenon, <2>1
  <2>3. ASSUME NEW o \in Procs, NEW e \in Fds
        PROVE  DescOf(o, e)' = IF o = c THEN DescOf(p, e) ELSE DescOf(o, e)
    <3>1. CASE o = c
      <4>1. fd_types'[o][e] = fd_types[p][e] /\ \A t : file_handles'[o][t] = file_handles[p][t]
        BY Zenon, <1>a, <2>1, <3>1
      <4> QED
        BY Zenon, <2>1, <3>1, <4>1 DEF DescOf, IsFile, HandleOf
    <3>2. CASE o # c
      <4>1. fd_types'[o][e] = fd_types[o][e] /\ \A t : file_handles'[o][t] = file_handles[o][t]
        BY Zenon, <1>a, <2>1, <3>2
      <4> QED
        BY Zenon, <2>1, <3>2, <4>1 DEF DescOf, IsFile, HandleOf
    <3> QED
      BY Zenon, <3>1, <3>2
  <2>4. DescTable' = [DescTable EXCEPT ![c] = DescTable[p]]
    <3>1. DescTable' = [o \in Procs |-> [e \in Fds |-> DescOf(o, e)']]
      BY Zenon DEF DescTable
    <3>2. \A o \in Procs : [e \in Fds |-> DescOf(o, e)'] = IF o = c THEN DescTable[p] ELSE DescTable[o]
      BY Zenon, <2>3 DEF DescTable
    <3>3. [DescTable EXCEPT ![c] = DescTable[p]] = [o \in Procs |-> IF o = c THEN DescTable[p] ELSE DescTable[o]]
      BY Zenon DEF DescTable
    <3> QED
      BY Zenon, <3>1, <3>2, <3>3
  <2>5. \A e \in Fds : DescTable[c][e] = None
    <3>1. \A e \in Fds : fd_types[c][e] = None
      BY Zenon, <2>1 DEF DescInv, NoneWhenGone
    <3> QED
      BY Zenon, <1>a, <3>1, DescCases DEF DescTable
  <2>6. Open!Keep
    BY Zenon, <2>1, KeepLemma
  <2>7. Open!Fork(p, c)
    BY Zenon, <2>4, <2>5, <2>6 DEF Open!Fork
  <2> QED
    BY Zenon, <2>7 DEF Open!Next
<1>12. ASSUME NEW p \in Procs, drop(p)
       PROVE  Open!Next
  <2>1. /\ fd_types' = [fd_types EXCEPT ![p] = [f \in Fds |-> None]] /\ tree' = tree
        /\ file_handles' = [file_handles EXCEPT ![p] = [s \in Slots |-> None]]
        /\ handles' = Kept(file_handles', handles) /\ content' = KeptData(tree, handles', content)
    BY Zenon, <1>12 DEF drop
  <2>2. /\ \A h \in HeldHandles(file_handles') : h \in Handles => handles'[h] = handles[h]
        /\ \A i \in Inos : i \in HeldInos(tree', handles') => content'[i] = content[i]
    BY Zenon, <1>9, <2>1
  <2>3. ASSUME NEW o \in Procs, NEW e \in Fds
        PROVE  DescOf(o, e)' = IF o = p THEN None ELSE DescOf(o, e)
    <3>1. CASE o = p
      <4>1. fd_types'[o][e] = None
        BY Zenon, <1>a, <2>1, <3>1
      <4> QED
        BY Zenon, <3>1, <4>1, Distinct DEF DescOf, IsFile
    <3>2. CASE o # p
      <4>1. fd_types'[o][e] = fd_types[o][e] /\ \A t : file_handles'[o][t] = file_handles[o][t]
        BY Zenon, <1>a, <2>1, <3>2
      <4>2. ASSUME fd_types[o][e] \in Slots
            PROVE  /\ file_handles'[o][fd_types[o][e]] = HandleOf(o, e)
                   /\ handles'[HandleOf(o, e)].kind = handles[HandleOf(o, e)].kind
        <5>1. HandleOf(o, e) \in Handles /\ HandleOf(o, e) # None
          BY Zenon, <1>a, <4>2, DescCases, Distinct
        <5>2. file_handles'[o][fd_types[o][e]] = HandleOf(o, e)
          BY Zenon, <4>1 DEF HandleOf
        <5>3. HandleOf(o, e) \in HeldHandles(file_handles')
          <6>1. file_handles'[o][fd_types[o][e]] # None
            BY Zenon, <5>1, <5>2
          <6> QED
            BY Zenon, <4>2, <5>2, <6>1, SlotHolds
        <5> QED
          BY Zenon, <2>2, <5>1, <5>2, <5>3
      <4>3. DescOf(o, e)' = DescOf(o, e)
        BY Zenon, <1>a, <4>1, <4>2, SameDesc
      <4> QED
        BY Zenon, <3>2, <4>3
    <3> QED
      BY Zenon, <3>1, <3>2
  <2>4. DescTable' = [DescTable EXCEPT ![p] = [f \in Fds |-> None]]
    <3>1. DescTable' = [o \in Procs |-> [e \in Fds |-> DescOf(o, e)']]
      BY Zenon DEF DescTable
    <3>2. \A o \in Procs : [e \in Fds |-> DescOf(o, e)'] = IF o = p THEN [f \in Fds |-> None] ELSE DescTable[o]
      BY Zenon, <2>3 DEF DescTable
    <3>3. [DescTable EXCEPT ![p] = [f \in Fds |-> None]]
            = [o \in Procs |-> IF o = p THEN [f \in Fds |-> None] ELSE DescTable[o]]
      BY Zenon DEF DescTable
    <3> QED
      BY Zenon, <3>1, <3>2, <3>3
  <2>5. Open!Keep
    BY Zenon, <2>2, KeepLemma
  <2>6. Open!Drop(p)
    BY Zenon, <2>4, <2>5 DEF Open!Drop
  <2> QED
    BY Zenon, <2>6 DEF Open!Next
<1>13. ASSUME NEW p \in Procs, NEW x, sys_unlink(p, x) \/ sys_mkdir(p, x) \/ sys_chdir(p, x)
       PROVE  Open!Next
  <2>1. UNCHANGED <<fd_types, file_handles, handles>>
    BY Zenon, <1>13 DEF sys_unlink, sys_mkdir, sys_chdir
  <2>2. content' = content \/ content' = KeptData(tree', handles', content)
    BY Zenon, <1>13 DEF sys_unlink, sys_mkdir, sys_chdir
  <2>3. \A i \in Inos : i \in HeldInos(tree', handles') => content'[i] = content[i]
    BY Zenon, <2>2 DEF KeptData
  <2> QED
    BY Zenon, <2>1, <2>3, NamesOnly
<1> QED
  BY Zenon, <1>0, <1>1, <1>2, <1>3, <1>4, <1>5, <1>6, <1>7, <1>8, <1>10, <1>11, <1>12, <1>13 DEF Next

\* The descriptor tables implement shared open file descriptions
\* (SharedDescriptions): open, close, dup, dup2, fork, exit and unlink do to
\* them what OpenFiles says, and reads, writes and seeks move and change only
\* the description they name.
THEOREM DescriptionsShared == Spec => SharedDescriptions
<1>1. Init => DescInv
  <2> SUFFICES ASSUME Init PROVE DescInv
    BY Zenon
  <2>1. FdInv /\ TreeInv
    BY Zenon, InitFdInv, InitTreeInv
  <2>2. <<>> \in Seq(Nat)
    OBVIOUS
  <2>3. programs \in Programs /\ content \in [Inos -> Seq(Nat)] /\ NoneWhenGone
    BY Zenon, <2>2 DEF Init, NoneWhenGone
  <2>4. FreeHandle.kind # "file"
    BY Zenon DEF FreeHandle
  <2>5. FileHasData
    BY Zenon, <2>4 DEF Init, FileHasData
  <2> QED
    BY Zenon, <2>1, <2>3, <2>5 DEF DescInv
<1>2. Init => Open!Init
  <2> SUFFICES ASSUME Init, NEW p \in Procs, NEW f \in Fds
               PROVE  DescTable[p][f] \in {None, Std}
    BY Zenon DEF Open!Init
  <2>1. fd_types[p][f] \in {None, Std}
    BY Zenon DEF Init
  <2> QED
    BY Zenon, <2>1, Distinct DEF DescTable, DescOf, IsFile
<1> QED
  BY <1>1, <1>2, DescInvStep, DescStep, PTL DEF Spec, SharedDescriptions, Open!Spec
=============================================================================
