---------------------------- MODULE MemoryProofs ----------------------------
(***************************************************************************)
(* Proofs about AddressSpaces, for any number of processes, frames, pages  *)
(* and tables: the reference counts are those of the leaves that map each  *)
(* frame, and a frame that is mapped writable is mapped once.  Every       *)
(* action keeps the invariant MemInv of FrameProofs (lemmas ...Keeps).     *)
(***************************************************************************)
EXTENDS FrameProofs

-----------------------------------------------------------------------------
(* What one step does to the parts of MemInv *)

\* A step that leaves the counts, the spaces and the call alone
LEMMA MemSame ==
  ASSUME MemInv, UNCHANGED <<refcount, table_frames, space, heap, regions, dead, lost, op>>
  PROVE  MemInv'
  BY Zenon DEF MemInv

\* A space in the place of process p's
LEMMA OnlyIs ==
  ASSUME NEW sp \in [Procs -> Space \cup {NoSpace}], NEW p \in Procs, NEW t \in Space \cup {NoSpace}
  PROVE  Only(sp, [sp EXCEPT ![p] = t], p, t)
  BY Zenon DEF Only

\* The same, one space after another
LEMMA OnlyTwice ==
  ASSUME NEW sp, NEW sp2, NEW sp3, NEW p \in Procs, NEW s, NEW t, Only(sp, sp2, p, s), Only(sp, sp3, p, t)
  PROVE  Only(sp2, sp3, p, t)
  BY Zenon DEF Only

\* A process's space changes behind its PML4, and the counts follow.
LEMMA SoundProc ==
  ASSUME NEW sp, NEW d, NEW l, NEW n, NEW rc, NEW tf, SoundAt(sp, d, l, n, rc, tf),
         NEW p \in Procs, sp[p] # NoSpace, NEW t \in Space, t.pml4 = sp[p].pml4,
         NEW sp2, Only(sp, sp2, p, t), NEW rc2, NEW m,
         Balanced(Swap(AllSpaces(sp, d, l, n), sp[p], t), rc2, m), Room(rc2, m)
  PROVE  SoundAt(sp2, d, l, n, rc2, m)
<1>1. Owners(sp, d, l, n) /\ ApartOf(sp, d, l, n) /\ OneRoot(AllSpaces(sp, d, l, n))
  BY Zenon DEF SoundAt, Balanced, Kin
<1>2. /\ Owners(sp2, d, l, n) /\ ApartOf(sp2, d, l, n)
      /\ AllSpaces(sp2, d, l, n) = Swap(AllSpaces(sp, d, l, n), sp[p], t)
  BY SMTT(30), <1>1, ChangeProc
<1> QED
  BY Zenon, <1>2 DEF SoundAt

\* The space of the call in progress changes behind its PML4.
LEMMA SoundNew ==
  ASSUME NEW sp, NEW d, NEW l, NEW n, NEW rc, NEW tf, SoundAt(sp, d, l, n, rc, tf),
         n # NoSpace, NEW t \in Space, t.pml4 = n.pml4, NEW rc2, NEW m,
         Balanced(Swap(AllSpaces(sp, d, l, n), n, t), rc2, m), Room(rc2, m)
  PROVE  SoundAt(sp, d, l, t, rc2, m)
<1>1. Owners(sp, d, l, n) /\ ApartOf(sp, d, l, n) /\ OneRoot(AllSpaces(sp, d, l, n))
  BY Zenon DEF SoundAt, Balanced, Kin
<1>2. /\ Owners(sp, d, l, t) /\ ApartOf(sp, d, l, t)
      /\ AllSpaces(sp, d, l, t) = Swap(AllSpaces(sp, d, l, n), n, t)
  BY SMTT(30), <1>1, ChangeNew
<1> QED
  BY Zenon, <1>2 DEF SoundAt

\* The spaces of the processes and of the call are among all of them.
LEMMA IsReal ==
  ASSUME NEW sp, NEW d, NEW l, NEW n
  PROVE  /\ \A p \in Procs : sp[p] # NoSpace => sp[p] \in AllSpaces(sp, d, l, n)
         /\ n # NoSpace => n \in AllSpaces(sp, d, l, n)
  BY Zenon DEF AllSpaces

\* The call in progress ends.
LEMMA UnderNoOp ==
  ASSUME NEW sp
  PROVE  UnderAt(NoOp, sp) /\ NoOp.new = NoSpace
<1>1. /\ NoOp.kind = "none" /\ NoOp.new = NoSpace /\ NoOp \in Calls
  BY Zenon DEF NoOp, Calls
<1> QED
  BY Zenon, <1>1 DEF UnderAt

\* Without a call, what happens to the spaces does not matter to op.
LEMMA UnderCalm ==
  ASSUME NEW o, NEW sp, NEW sp2, UnderAt(o, sp), o.kind = "none"
  PROVE  UnderAt(o, sp2) /\ o.new = NoSpace
  BY Zenon DEF UnderAt

\* The break of p changes.
LEMMA HeldHeap ==
  ASSUME NEW hp, NEW rg, HeldAt(hp, rg), NEW p \in Procs, NEW b \in Breaks,
         b.end <= NPages + 1, b.start # 0 => b.end >= 1
  PROVE  HeldAt([hp EXCEPT ![p] = b], rg)
<1>1. /\ hp \in [Procs -> Breaks] /\ rg \in [Procs -> Seq(RegionSet)]
      /\ \A q \in Procs : hp[q].end <= NPages + 1 /\ (hp[q].start # 0 => hp[q].end >= 1)
  BY Zenon DEF HeldAt
<1> DEFINE h == [hp EXCEPT ![p] = b]
<1>2. h \in [Procs -> Breaks] /\ h[p] = b /\ \A q \in Procs : q # p => h[q] = hp[q]
  BY Zenon, <1>1
<1> HIDE DEF h
<1>3. \A q \in Procs : h[q].end <= NPages + 1 /\ (h[q].start # 0 => h[q].end >= 1)
  BY Zenon, <1>1, <1>2
<1>4. HeldAt(h, rg)
  BY Zenon, <1>1, <1>2, <1>3 DEF HeldAt
<1> QED
  BY Zenon, <1>4 DEF h

\* The regions of p change.
LEMMA HeldRegions ==
  ASSUME NEW hp, NEW rg, HeldAt(hp, rg), NEW p \in Procs, NEW s \in Seq(RegionSet)
  PROVE  HeldAt(hp, [rg EXCEPT ![p] = s])
<1>1. rg \in [Procs -> Seq(RegionSet)]
  BY Zenon DEF HeldAt
<1>2. [rg EXCEPT ![p] = s] \in [Procs -> Seq(RegionSet)]
  BY Zenon, <1>1
<1> QED
  BY Zenon, <1>2 DEF HeldAt

-----------------------------------------------------------------------------
(* The actions *)

\* exit and the end of a process the page fault handler kills
LEMMA DiesKeeps ==
  ASSUME MemInv, NEW p \in Procs, Runs(p), Dies(p)
  PROVE  MemInv'
<1>1. /\ SoundAt(space, dead, lost, op.new, refcount, table_frames) /\ HeldAt(heap, regions)
      /\ UnderAt(op, space) /\ space[p] # NoSpace /\ op.kind = "none"
  BY Zenon DEF MemInv, Runs, Calm, Alive
<1>2. Owners(space, dead, lost, op.new) /\ ApartOf(space, dead, lost, op.new)
  BY Zenon, <1>1 DEF SoundAt
<1>3. Only(space, space', p, NoSpace)
  <2>1. space \in [Procs -> Space \cup {NoSpace}] /\ NoSpace \in Space \cup {NoSpace}
    BY Zenon, <1>2 DEF Owners
  <2>2. space' = [space EXCEPT ![p] = NoSpace]
    BY Zenon DEF Dies
  <2> QED
    BY Zenon, <2>1, <2>2, OnlyIs
<1>4. dead' = dead \cup {space[p]} /\ UNCHANGED <<refcount, table_frames, lost, op>>
  BY Zenon DEF Dies
<1>5. SoundAt(space', dead', lost', op'.new, refcount', table_frames')
  <2>1. /\ Owners(space', dead \cup {space[p]}, lost, op.new)
        /\ ApartOf(space', dead \cup {space[p]}, lost, op.new)
        /\ AllSpaces(space', dead \cup {space[p]}, lost, op.new) = AllSpaces(space, dead, lost, op.new)
    BY SMTT(30), <1>1, <1>2, <1>3, ProcToDead
  <2>2. SoundAt(space', dead \cup {space[p]}, lost, op.new, refcount, table_frames)
    BY Zenon, <1>1, <2>1 DEF SoundAt
  <2> QED
    BY Zenon, <1>4, <2>2
<1>6. HeldAt(heap', regions')
  <2>1. HeldAt([heap EXCEPT ![p] = [start |-> 0, end |-> 0]], regions)
    <3>1. /\ [start |-> 0, end |-> 0] \in Breaks /\ [start |-> 0, end |-> 0].start = 0
          /\ [start |-> 0, end |-> 0].end <= NPages + 1
      BY SpacesAssumption DEF Breaks
    <3> QED
      BY Zenon, <1>1, <3>1, HeldHeap
  <2>2. <<>> \in Seq(RegionSet)
    BY Zenon, EmptySeq
  <2>3. heap' = [heap EXCEPT ![p] = [start |-> 0, end |-> 0]] /\ regions' = [regions EXCEPT ![p] = <<>>]
    BY Zenon DEF Dies
  <2> QED
    BY Zenon, <2>1, <2>2, <2>3, HeldRegions
<1>7. UnderAt(op', space')
  BY Zenon, <1>1, <1>4, UnderCalm
<1> QED
  BY Zenon, <1>5, <1>6, <1>7 DEF MemInv

\* drain_deferred_free and Drop
LEMMA FreeDeadKeeps ==
  ASSUME MemInv, NEW s \in dead, free_dead(s)
  PROVE  MemInv'
<1>1. CASE FreePanics(s)
  BY Zenon, <1>1, MemSame DEF free_dead, Halt
<1>2. CASE ~FreePanics(s)
  <2>1. /\ refcount' = decref(refcount, DataFrames(s, Pages))
        /\ table_frames' = table_frames - Cardinality(s.tables) - 1
        /\ dead' = dead \ {s} /\ UNCHANGED <<space, heap, regions, lost, op>>
    BY Zenon, <1>2 DEF free_dead, free_user_address_space
  <2>2. /\ SoundAt(space, dead, lost, op.new, refcount, table_frames)
        /\ HeldAt(heap, regions) /\ UnderAt(op, space)
    BY Zenon DEF MemInv
  <2>3. Owners(space, dead, lost, op.new) /\ ApartOf(space, dead, lost, op.new)
    BY Zenon, <2>2 DEF SoundAt
  <2>4. /\ Owners(space, dead \ {s}, lost, op.new) /\ ApartOf(space, dead \ {s}, lost, op.new)
        /\ s \in AllSpaces(space, dead, lost, op.new)
        /\ AllSpaces(space, dead \ {s}, lost, op.new) = AllSpaces(space, dead, lost, op.new) \ {s}
    BY SMTT(30), <2>3, DropDead
  <2>5. Balanced(AllSpaces(space, dead, lost, op.new) \ {s}, refcount', table_frames') /\ Room(refcount', table_frames')
    BY Zenon, <2>1, <2>2, <2>4, Freed DEF SoundAt
  <2>6. SoundAt(space, dead \ {s}, lost, op.new, refcount', table_frames')
    BY Zenon, <2>4, <2>5 DEF SoundAt
  <2> QED
    BY Zenon, <2>1, <2>2, <2>6 DEF MemInv
<1> QED
  BY Zenon, <1>1, <1>2

\* A leaf of p's space changes.
LEMMA OnlyLeaf ==
  ASSUME NEW sp \in [Procs -> Space \cup {NoSpace}], NEW p \in Procs, sp[p] \in Space, NEW g \in Pages, NEW e \in Pte
  PROVE  Only(sp, [sp EXCEPT ![p].pte[g] = e], p, [sp[p] EXCEPT !.pte[g] = e])
<1>1. [sp[p] EXCEPT !.pte[g] = e] \in Space
  BY Zenon, LeafIs
<1>2. [sp EXCEPT ![p].pte[g] = e] = [sp EXCEPT ![p] = [sp[p] EXCEPT !.pte[g] = e]]
  BY Zenon
<1>3. Only(sp, [sp EXCEPT ![p] = [sp[p] EXCEPT !.pte[g] = e]], p, [sp[p] EXCEPT !.pte[g] = e])
  <2> DEFINE t == [sp[p] EXCEPT !.pte[g] = e]
  <2>1. t \in Space \cup {NoSpace}
    BY Zenon, <1>1
  <2> HIDE DEF t
  <2>2. Only(sp, [sp EXCEPT ![p] = t], p, t)
    BY Zenon, <2>1, OnlyIs
  <2> QED
    BY Zenon, <2>2 DEF t
<1> QED
  BY Zenon, <1>2, <1>3

\* page_fault_handler
LEMMA PageFaultKeeps ==
  ASSUME MemInv, NEW p \in Procs, NEW g \in Pages, NEW user \in BOOLEAN, page_fault(p, g, user)
  PROVE  MemInv'
<1>1. Runs(p)
  BY Zenon DEF page_fault
<1>2. CASE CowOk(p, g)
  <2> DEFINE old == space[p].pte[g].frame
             new == IF CowCopies(p, g) THEN alloc_frame ELSE old
             e == [frame |-> new, writable |-> TRUE]
             t == [space[p] EXCEPT !.pte[g] = e]
             R == AllSpaces(space, dead, lost, op.new)
  <2>1. /\ space' = [space EXCEPT ![p].pte[g] = e] /\ refcount' = CopyRefcount(old, new)
        /\ UNCHANGED <<table_frames, heap, regions, dead, lost, op>>
    BY Zenon, <1>2 DEF page_fault, handle_cow_fault
  <2>2. /\ SoundAt(space, dead, lost, op.new, refcount, table_frames) /\ HeldAt(heap, regions)
        /\ UnderAt(op, space) /\ space[p] # NoSpace /\ op.kind = "none"
    BY Zenon, <1>1 DEF MemInv, Runs, Calm, Alive
  <2>3. Balanced(R, refcount, table_frames) /\ Room(refcount, table_frames) /\ space[p] \in R
    BY Zenon, <2>2, IsReal DEF SoundAt
  <2>4. /\ Balanced(Swap(R, space[p], t), refcount', table_frames) /\ Room(refcount', table_frames)
        /\ t \in Space /\ t.pml4 = space[p].pml4
    BY Zenon, <1>2, <2>1, <2>3, Faulted
  <2>5. space \in [Procs -> Space \cup {NoSpace}] /\ space[p] \in Space
    <3>1. space \in [Procs -> Space \cup {NoSpace}]
      BY Zenon, <2>2 DEF SoundAt, Owners
    <3> QED
      BY Zenon, <3>1, <2>2
  <2>6. e \in Pte
    <3>1. new \in Frames
      <4>1. t.pte[g] = e
        <5>1. space[p].pte \in [Pages -> Pte] /\ space[p] = [pml4 |-> space[p].pml4, tables |-> space[p].tables, pte |-> space[p].pte]
          BY Zenon, <2>5, SpaceFields
        <5> HIDE DEF e
        <5> QED
          BY Zenon, <5>1
      <4>2. e.writable /\ e.frame = new
        BY Zenon
      <4>3. t \in Space
        BY Zenon, <2>4
      <4> HIDE DEF e, t, new, old, R
      <4>4. e \in Pte
        BY Zenon, <4>1, <4>3, SpaceFields
      <4> QED
        BY Zenon, <4>2, <4>4, PteFields
    <3> HIDE DEF new
    <3> QED
      BY Zenon, <3>1 DEF Pte
  <2> HIDE DEF e
  <2>7. Only(space, space', p, t)
    BY Zenon, <2>1, <2>5, <2>6, OnlyLeaf
  <2> HIDE DEF t
  <2>8. SoundAt(space', dead, lost, op.new, refcount', table_frames)
    BY Zenon, <2>2, <2>4, <2>7, SoundProc
  <2>9. UnderAt(op, space')
    BY Zenon, <2>2, UnderCalm
  <2> QED
    BY Zenon, <2>1, <2>2, <2>8, <2>9 DEF MemInv
<1>3. CASE ~CowOk(p, g) /\ user
  BY Zenon, <1>1, <1>3, DiesKeeps DEF page_fault
<1>4. CASE ~CowOk(p, g) /\ ~user
  BY Zenon, <1>4, MemSame DEF page_fault, Halt
<1> QED
  BY Zenon, <1>2, <1>3, <1>4

\* create_user_pml4 at the start of fork and exec
LEMMA BeginKeeps ==
  ASSUME MemInv, NEW p \in Procs, NEW kind \in {"fork", "exec"}, Begin(p, kind)
  PROVE  MemInv'
<1>1. CASE FreeFrames = 0
  BY Zenon, <1>1, MemSame DEF Begin, Halt
<1>2. CASE FreeFrames # 0
  <2> DEFINE c == create_user_pml4
             R == AllSpaces(space, dead, lost, NoSpace)
  <2>1. /\ table_frames' = table_frames + 1
        /\ op' = [NoOp EXCEPT !.kind = kind, !.proc = p, !.new = c, !.at = 1]
        /\ UNCHANGED <<refcount, space, heap, regions, dead, lost>> /\ Runs(p)
    BY Zenon, <1>2 DEF Begin
  <2>2. /\ SoundAt(space, dead, lost, op.new, refcount, table_frames) /\ HeldAt(heap, regions)
        /\ UnderAt(op, space) /\ space[p] # NoSpace /\ op.kind = "none"
    BY Zenon, <2>1 DEF MemInv, Runs, Calm, Alive
  <2>3. op.new = NoSpace
    BY Zenon, <2>2, UnderCalm
  <2>4. /\ Balanced(Real, refcount, table_frames) /\ Room(refcount, table_frames) /\ Real = R
        /\ Owners(space, dead, lost, NoSpace) /\ ApartOf(space, dead, lost, NoSpace)
    BY Zenon, <2>2, <2>3 DEF SoundAt, Real
  <2>5. table_frames \in Nat
    BY Zenon, <2>4, CountIsNat
  <2>6. FreeFrames >= 1 /\ Room(refcount, table_frames + 1)
    <3>1. /\ FreeFrames = NFrames - table_frames - Cardinality(InUse(refcount)) /\ FreeFrames \in Int
          /\ Cardinality(InUse(refcount)) \in Nat /\ NFrames \in Nat /\ FreeFrames >= 0
      BY Zenon, <2>4, <2>5, FreeIs
    <3> HIDE DEF c, R
    <3> QED
      BY <1>2, <2>5, <3>1 DEF Room
  <2>7. /\ c \in Space /\ c.tables = {} /\ \A g \in Pages : ~Present(c, g)
        /\ \A s \in Real : s.pml4 # c.pml4
    BY Zenon, <2>4, <2>6, FreshSpace
  <2> HIDE DEF c
  <2>8. Balanced(Real \cup {c}, refcount, table_frames + 1)
    BY Zenon, <2>4, <2>7, BalancedAdd
  <2>9. /\ Owners(space, dead, lost, c) /\ ApartOf(space, dead, lost, c)
        /\ AllSpaces(space, dead, lost, c) = Real \cup {c}
    <3>1. \A s \in R : s.pml4 # c.pml4
      BY Zenon, <2>4, <2>7
    <3>2. /\ Owners(space, dead, lost, c) /\ ApartOf(space, dead, lost, c)
          /\ AllSpaces(space, dead, lost, c) = R \cup {c}
      BY SMTT(30), <2>4, <2>7, <3>1, AddNew
    <3> QED
      BY Zenon, <2>4, <3>2
  <2>10. SoundAt(space, dead, lost, c, refcount, table_frames + 1)
    BY Zenon, <2>6, <2>8, <2>9 DEF SoundAt
  <2>11. /\ op'.kind = kind /\ op'.proc = p /\ op'.new = c /\ op'.at = 1 /\ op' \in Calls
    <3>1. p \in Nat
      BY DEF Procs
    <3> QED
      BY Zenon, <2>1, <2>7, <3>1 DEF NoOp, Calls
  <2>12. UnderAt(op', space)
    <3>1. Forking(op', space) /\ Loading(op')
      <4>1. op'.at >= 1
        BY <2>11
      <4> QED
        BY Zenon, <2>7, <2>11, <4>1 DEF Forking, Loading
    <3>2. c # NoSpace
      BY Zenon, <2>7, NoSpaceApart
    <3> QED
      BY Zenon, <2>2, <2>11, <3>1, <3>2 DEF UnderAt
  <2> QED
    BY Zenon, <2>1, <2>2, <2>10, <2>11, <2>12 DEF MemInv
<1> QED
  BY Zenon, <1>1, <1>2

\* The loop of a call moves on, with c for the space it builds.
Moved(o, c, o2) ==
  /\ o2 \in Calls /\ o2.kind = o.kind /\ o2.proc = o.proc /\ o2.new = c
  /\ o2.from = o.from /\ o2.at = o.at + 1 /\ o2.to = o.to

\* A call with these fields is one the loop moved on to.
LEMMA MovedIs ==
  ASSUME NEW o \in Calls, NEW c \in Space \cup {NoSpace}, NEW o2,
         o2 = [kind |-> o.kind, proc |-> o.proc, new |-> c, from |-> o.from, at |-> o.at + 1, to |-> o.to]
  PROVE  Moved(o, c, o2)
<1>1. /\ o.at \in Nat /\ o.at + 1 \in Nat /\ o.kind \in {"none", "fork", "exec", "grow", "mmap"}
      /\ o.proc \in Nat /\ o.from \in Nat /\ o.to \in Nat
  BY DEF Calls
<1>2. PICK k, q, f, i, j : k = o.kind /\ q = o.proc /\ f = o.from /\ i = o.at + 1 /\ j = o.to
  BY Zenon
<1>3. o2 = [kind |-> k, proc |-> q, new |-> c, from |-> f, at |-> i, to |-> j]
  BY Zenon, <1>2
<1>4. o2.kind = k /\ o2.proc = q /\ o2.new = c /\ o2.from = f /\ o2.at = i /\ o2.to = j
  BY <1>3
<1>5. o2 \in Calls
  BY <1>1, <1>2, <1>3 DEF Calls
<1> QED
  BY Zenon, <1>2, <1>4, <1>5 DEF Moved

\* The fields of a call
LEMMA CallParts ==
  ASSUME NEW o \in Calls
  PROVE  \E k, q, n, f, i, j : o = [kind |-> k, proc |-> q, new |-> n, from |-> f, at |-> i, to |-> j]
  BY Zenon DEF Calls

\* The loop moves on.
LEMMA AtIs ==
  ASSUME NEW o \in Calls, NEW o2, o2 = [o EXCEPT !.at = @ + 1]
  PROVE  Moved(o, o.new, o2)
<1>1. PICK k, q, n, f, i, j : o = [kind |-> k, proc |-> q, new |-> n, from |-> f, at |-> i, to |-> j]
  BY Zenon, CallParts
<1>2. o2 = [kind |-> o.kind, proc |-> o.proc, new |-> o.new, from |-> o.from, at |-> o.at + 1, to |-> o.to]
  BY Zenon, <1>1
<1>3. o.new \in Space \cup {NoSpace}
  BY Zenon DEF Calls
<1> QED
  BY Zenon, <1>2, <1>3, MovedIs

\* The same with another space
LEMMA AtNewIs ==
  ASSUME NEW o \in Calls, NEW c \in Space, NEW o2, o2 = [o EXCEPT !.new = c, !.at = @ + 1]
  PROVE  Moved(o, c, o2)
<1>1. PICK k, q, n, f, i, j : o = [kind |-> k, proc |-> q, new |-> n, from |-> f, at |-> i, to |-> j]
  BY Zenon, CallParts
<1>2. o2 = [kind |-> o.kind, proc |-> o.proc, new |-> c, from |-> o.from, at |-> o.at + 1, to |-> o.to]
  BY Zenon, <1>1
<1> QED
  BY Zenon, <1>2, MovedIs

\* What copy_user_pages makes of the call
CopyStep(o, s, t, o2) ==
  o2 = [o EXCEPT !.at = @ + 1, !.new.tables = @ \cup {t},
                 !.new.pte = [g \in Pages |-> IF g \in SharedPages(s, t)
                                              THEN WriteProtected(s, SharedPages(s, t)).pte[g] ELSE @[g]]]

\* copy_user_pages moves the call on, with the child it has built so far.
LEMMA CopyOpIs ==
  ASSUME NEW o \in Calls, o.new \in Space, NEW s, NEW t, NEW o2, Child(o.new, s, t) \in Space, CopyStep(o, s, t, o2)
  PROVE  Moved(o, Child(o.new, s, t), o2)
<1>1. PICK a, b, c : o.new = [pml4 |-> a, tables |-> b, pte |-> c]
  BY Zenon, SpaceParts
<1>2. PICK k, q, n, f, i, j : o = [kind |-> k, proc |-> q, new |-> n, from |-> f, at |-> i, to |-> j]
  BY Zenon, CallParts
<1>3. PICK S, w : S = SharedPages(s, t) /\ w = WriteProtected(s, S)
  BY Zenon
<1>4. PICK d : d = [g \in Pages |-> IF g \in S THEN w.pte[g] ELSE c[g]]
  BY Zenon
<1>5. PICK z : z = [pml4 |-> a, tables |-> b \cup {t}, pte |-> d]
  BY Zenon
<1>6. Child(o.new, s, t) = z
  BY <1>1, <1>3, <1>4, <1>5 DEF Child
<1>7. o2 = [kind |-> k, proc |-> q, new |-> z, from |-> f, at |-> i + 1, to |-> j]
  <2>1. n = [pml4 |-> a, tables |-> b, pte |-> c]
    BY Zenon, <1>1, <1>2
  <2>2. o2 = [o EXCEPT !.at = @ + 1, !.new.tables = @ \cup {t},
                 !.new.pte = [g \in Pages |-> IF g \in S THEN w.pte[g] ELSE @[g]]]
    BY Zenon, <1>3 DEF CopyStep
  <2> QED
    BY ZenonT(40), <1>2, <1>4, <1>5, <2>1, <2>2
<1>8. o2 = [kind |-> o.kind, proc |-> o.proc, new |-> z, from |-> o.from, at |-> o.at + 1, to |-> o.to]
  BY Zenon, <1>2, <1>7
<1>9. z \in Space \cup {NoSpace}
  BY Zenon, <1>6
<1> QED
  BY Zenon, <1>6, <1>8, <1>9, MovedIs

\* The space of the call in progress is lost.
LEMMA SoundLost ==
  ASSUME NEW sp, NEW d, NEW l, NEW n, NEW rc, NEW tf, SoundAt(sp, d, l, n, rc, tf), n # NoSpace
  PROVE  SoundAt(sp, d, l \cup {n}, NoSpace, rc, tf)
<1>1. Owners(sp, d, l, n) /\ ApartOf(sp, d, l, n)
  BY Zenon DEF SoundAt
<1>2. /\ Owners(sp, d, l \cup {n}, NoSpace) /\ ApartOf(sp, d, l \cup {n}, NoSpace)
      /\ AllSpaces(sp, d, l \cup {n}, NoSpace) = AllSpaces(sp, d, l, n)
  BY SMTT(30), <1>1, NewToLost
<1> QED
  BY Zenon, <1>2 DEF SoundAt

\* One table of fork's loop
LEMMA ForkTableKeeps ==
  ASSUME MemInv, Unsaturated, NEW p \in Procs, fork_table(p)
  PROVE  MemInv'
<1> DEFINE s == space[p]
           c == op.new
           t == op.at
           R == AllSpaces(space, dead, lost, c)
<1>1. op.kind = "fork" /\ op.proc = p /\ t \in Tables
  BY Zenon DEF fork_table, Within
<1>2. /\ SoundAt(space, dead, lost, c, refcount, table_frames) /\ HeldAt(heap, regions) /\ UnderAt(op, space)
  BY Zenon DEF MemInv
<1>3. op \in Calls /\ s # NoSpace /\ c # NoSpace /\ Forking(op, space)
  BY Zenon, <1>1, <1>2 DEF UnderAt
<1>4. /\ Owners(space, dead, lost, c) /\ ApartOf(space, dead, lost, c)
      /\ Balanced(R, refcount, table_frames) /\ Room(refcount, table_frames)
  BY Zenon, <1>2 DEF SoundAt
<1>5. space \in [Procs -> Space \cup {NoSpace}] /\ s \in Space /\ c \in Space
  <2>1. space \in [Procs -> Space \cup {NoSpace}] /\ c \in Space \cup {NoSpace}
    BY Zenon, <1>4 DEF Owners
  <2> QED
    BY Zenon, <1>3, <2>1
<1>6. s \in R /\ c \in R /\ s # c
  BY Zenon, <1>3, <1>4, IsReal DEF ApartOf
<1>7. t \in Nat /\ c.tables \subseteq Nat /\ \A g \in Pages : TableOf[g] \in Nat
  <2>1. Tables \subseteq Nat /\ \A g \in Pages : TableOf[g] \in Nat
    BY Zenon, TableOfPage DEF Tables
  <2>2. c.tables \in SUBSET Tables
    BY Zenon, <1>5, SpaceFields
  <2> QED
    BY Zenon, <1>1, <2>1, <2>2
<1>8. /\ \A x \in c.tables : x < t
      /\ \A g \in Pages : Present(c, g) => c.pte[g].frame = s.pte[g].frame /\ TableOf[g] < t
      /\ t >= 1
  BY Zenon, <1>1, <1>3 DEF Forking
<1>9. CASE t \notin s.tables
  <2>1. op' = [op EXCEPT !.at = @ + 1] /\ UNCHANGED <<refcount, table_frames, space, heap, regions, dead, lost>>
    BY Zenon, <1>9 DEF fork_table
  <2>2. op' \in Calls /\ op'.kind = op.kind /\ op'.proc = op.proc /\ op'.new = c /\ op'.at = t + 1
    BY Zenon, <1>3, <2>1, AtIs DEF Moved
  <2>3. /\ \A x \in c.tables : x < t + 1
        /\ \A g \in Pages : Present(c, g) => TableOf[g] < t + 1
        /\ t + 1 >= 1
    <3>1. \A x \in Nat : x < t => x < t + 1
      BY <1>7
    <3>2. t + 1 >= 1
      BY <1>7
    <3> QED
      BY Zenon, <1>7, <1>8, <3>1, <3>2
  <2>4. Forking(op', space)
    BY Zenon, <1>1, <1>8, <2>2, <2>3 DEF Forking
  <2>5. UnderAt(op', space)
    BY Zenon, <1>1, <1>3, <2>2, <2>4 DEF UnderAt
  <2> QED
    BY Zenon, <1>2, <2>1, <2>2, <2>5 DEF MemInv
<1>10. CASE t \in s.tables /\ FreeFrames > 0
  <2> DEFINE S == SharedPages(s, t)
             parent == WriteProtected(s, S)
             child == Child(c, s, t)
             m == table_frames + 1
  <2>1. copy_user_pages(p, t)
    BY Zenon, <1>10 DEF fork_table
  <2>2. /\ refcount' = incref(DataFrames(s, S)) /\ table_frames' = m
        /\ space' = [space EXCEPT ![p] = parent]
        /\ CopyStep(op, s, t, op')
        /\ UNCHANGED <<heap, regions, dead, lost>>
    BY Zenon, <2>1 DEF copy_user_pages, SharedPages, CopyStep
  <2>3. Splits(R, s, c, t, parent, child, refcount', m)
    <3>1. t \in Tables /\ FreeFrames > 0 /\ Behind(c, s, t)
      BY Zenon, <1>1, <1>8, <1>10 DEF Behind
    <3>2. Balanced(R, refcount, table_frames)
      BY Zenon, <1>4
    <3>3. Splits(R, s, c, t, parent, child, incref(DataFrames(s, S)), m)
      BY Zenon, <1>6, <3>1, <3>2, Shared
    <3> QED
      BY Zenon, <2>2, <3>3
  <2>4. /\ Balanced(Swap(R, s, parent), refcount, table_frames)
        /\ Balanced(Swap(Swap(R, s, parent), c, child), refcount', m) /\ Room(refcount', m)
        /\ parent \in Space /\ parent.pml4 = s.pml4 /\ child \in Space /\ child.pml4 = c.pml4
        /\ child.tables = c.tables \cup {t}
        /\ \A h \in Pages : parent.pte[h].frame = s.pte[h].frame
        /\ \A h \in Pages : Present(child, h) =>
               child.pte[h].frame = s.pte[h].frame /\ (TableOf[h] < t \/ TableOf[h] = t)
    BY Zenon, <2>3 DEF Splits
  <2>5. op' \in Calls /\ op'.kind = op.kind /\ op'.proc = op.proc /\ op'.new = child /\ op'.at = t + 1
    <3>1. Moved(op, child, op')
      BY Zenon, <1>3, <1>5, <2>2, <2>4, CopyOpIs
    <3> QED
      BY Zenon, <3>1 DEF Moved
  <2> HIDE DEF S, parent, child, m
  <2>6. Only(space, space', p, parent)
    BY Zenon, <1>5, <2>2, <2>4, OnlyIs
  <2>7. SoundAt(space', dead, lost, c, refcount, table_frames)
    BY Zenon, <1>2, <1>3, <1>4, <2>4, <2>6, SoundProc
  <2>8. AllSpaces(space', dead, lost, c) = Swap(R, s, parent)
    <3>1. OneRoot(AllSpaces(space, dead, lost, c))
      BY Zenon, <1>4 DEF Balanced, Kin
    <3> QED
      BY SMTT(90), <1>3, <1>4, <2>4, <2>6, <3>1, ChangeProc
  <2>9. SoundAt(space', dead, lost, child, refcount', m)
    <3>1. Balanced(Swap(AllSpaces(space', dead, lost, c), c, child), refcount', m)
      BY Zenon, <2>4, <2>8
    <3> QED
      BY Zenon, <1>3, <2>4, <2>7, <3>1, SoundNew
  <2>10. space'[p] = parent /\ parent # NoSpace /\ child # NoSpace
    BY Zenon, <2>4, <2>6, NoSpaceApart DEF Only
  <2>11. Forking(op', space')
    <3>1. \A x \in Nat : x < t \/ x = t => x < t + 1
      BY <1>7
    <3>2. t + 1 >= 1
      BY <1>7
    <3>3. \A x \in child.tables : x < t + 1
      BY Zenon, <1>7, <1>8, <2>4, <3>1
    <3>4. \A g \in Pages : Present(child, g) => child.pte[g].frame = parent.pte[g].frame /\ TableOf[g] < t + 1
      BY Zenon, <1>7, <2>4, <3>1
    <3> QED
      BY Zenon, <1>1, <2>5, <2>10, <3>2, <3>3, <3>4 DEF Forking
  <2>12. UnderAt(op', space')
    BY Zenon, <1>1, <2>5, <2>10, <2>11 DEF UnderAt
  <2> QED
    BY Zenon, <1>2, <2>2, <2>5, <2>9, <2>12 DEF MemInv
<1>11. CASE t \in s.tables /\ ~(FreeFrames > 0)
  <2> DEFINE e == EmptySpace(c.pml4)
  <2>1. /\ refcount' = decref(refcount, DataFrames(c, Pages))
        /\ table_frames' = table_frames - Cardinality(c.tables)
        /\ lost' = lost \cup {e} /\ op' = NoOp /\ UNCHANGED <<space, heap, regions, dead>>
    BY Zenon, <1>11 DEF fork_table, fork_rollback
  <2>2. Balanced(Swap(R, c, e), refcount', table_frames') /\ Room(refcount', table_frames')
    BY Zenon, <1>4, <1>6, <2>1, Stripped
  <2>3. c.pml4 \in Frames
    BY Zenon, <1>5, SpaceFields
  <2>4. e \in Space /\ e.pml4 = c.pml4
    BY Zenon, <2>3, EmptySpaceIs
  <2> HIDE DEF e
  <2>5. e # NoSpace
    BY Zenon, <2>4, NoSpaceApart
  <2>6. SoundAt(space, dead, lost, e, refcount', table_frames')
    BY Zenon, <1>2, <1>3, <2>2, <2>4, SoundNew
  <2>7. SoundAt(space, dead, lost \cup {e}, NoSpace, refcount', table_frames')
    BY Zenon, <2>5, <2>6, SoundLost
  <2>8. UnderAt(op', space) /\ op'.new = NoSpace
    BY Zenon, <2>1, UnderNoOp
  <2> QED
    BY Zenon, <1>2, <2>1, <2>7, <2>8 DEF MemInv
<1> QED
  BY Zenon, <1>9, <1>10, <1>11

\* The space of the call in progress becomes that of a process without one.
LEMMA SoundAdopt ==
  ASSUME NEW sp, NEW d, NEW l, NEW n, NEW rc, NEW tf, SoundAt(sp, d, l, n, rc, tf), n # NoSpace,
         NEW c \in Procs, sp[c] = NoSpace, NEW sp2, Only(sp, sp2, c, n)
  PROVE  SoundAt(sp2, d, l, NoSpace, rc, tf)
<1>1. Owners(sp, d, l, n) /\ ApartOf(sp, d, l, n)
  BY Zenon DEF SoundAt
<1>2. /\ Owners(sp2, d, l, NoSpace) /\ ApartOf(sp2, d, l, NoSpace)
      /\ AllSpaces(sp2, d, l, NoSpace) = AllSpaces(sp, d, l, n)
  BY SMTT(30), <1>1, NewToProc
<1> QED
  BY Zenon, <1>2 DEF SoundAt

\* The space of the call in progress is freed.
LEMMA SoundAbandon ==
  ASSUME NEW sp, NEW d, NEW l, NEW n, NEW rc, NEW tf, SoundAt(sp, d, l, n, rc, tf), n # NoSpace
  PROVE  SoundAt(sp, d, l, NoSpace, decref(rc, DataFrames(n, Pages)), tf - Cardinality(n.tables) - 1)
<1> DEFINE R == AllSpaces(sp, d, l, n)
           rc2 == decref(rc, DataFrames(n, Pages))
           m == tf - Cardinality(n.tables) - 1
<1>1. Owners(sp, d, l, n) /\ ApartOf(sp, d, l, n) /\ Balanced(R, rc, tf) /\ Room(rc, tf)
  BY Zenon DEF SoundAt
<1>2. /\ Owners(sp, d, l, NoSpace) /\ ApartOf(sp, d, l, NoSpace) /\ n \in R
      /\ AllSpaces(sp, d, l, NoSpace) = R \ {n}
  BY SMTT(30), <1>1, DropNew
<1>3. Balanced(R \ {n}, rc2, m) /\ Room(rc2, m)
  BY Zenon, <1>1, <1>2, Freed
<1> QED
  BY Zenon, <1>2, <1>3 DEF SoundAt

\* A process's space is freed.
LEMMA SoundDrop ==
  ASSUME NEW sp, NEW d, NEW l, NEW n, NEW rc, NEW tf, SoundAt(sp, d, l, n, rc, tf),
         NEW p \in Procs, sp[p] # NoSpace, NEW sp2, Only(sp, sp2, p, NoSpace)
  PROVE  SoundAt(sp2, d, l, n, decref(rc, DataFrames(sp[p], Pages)), tf - Cardinality(sp[p].tables) - 1)
<1> DEFINE R == AllSpaces(sp, d, l, n)
           rc2 == decref(rc, DataFrames(sp[p], Pages))
           m == tf - Cardinality(sp[p].tables) - 1
<1>1. Owners(sp, d, l, n) /\ ApartOf(sp, d, l, n) /\ Balanced(R, rc, tf) /\ Room(rc, tf)
  BY Zenon DEF SoundAt
<1>2. /\ Owners(sp2, d, l, n) /\ ApartOf(sp2, d, l, n) /\ sp[p] \in R
      /\ AllSpaces(sp2, d, l, n) = R \ {sp[p]}
  BY SMTT(30), <1>1, DropProc
<1>3. Balanced(R \ {sp[p]}, rc2, m) /\ Room(rc2, m)
  BY Zenon, <1>1, <1>2, Freed
<1> QED
  BY Zenon, <1>2, <1>3 DEF SoundAt

\* sys_fork after the copy
LEMMA ForkEndKeeps ==
  ASSUME MemInv, NEW p \in Procs, fork_end(p)
  PROVE  MemInv'
<1> DEFINE slots == {c \in Procs : ~Alive(c)}
           child == CHOOSE c \in slots : \A d \in slots : c <= d
<1>1. op.kind = "fork" /\ op' = NoOp /\ UNCHANGED <<refcount, table_frames, heap, regions, dead>>
  BY Zenon DEF fork_end, Within
<1>2. /\ SoundAt(space, dead, lost, op.new, refcount, table_frames) /\ HeldAt(heap, regions) /\ UnderAt(op, space)
  BY Zenon DEF MemInv
<1>3. op.new # NoSpace
  BY Zenon, <1>1, <1>2 DEF UnderAt
<1>4. UnderAt(op', space') /\ op'.new = NoSpace
  BY Zenon, <1>1, UnderNoOp
<1>5. CASE slots # {} /\ space' = [space EXCEPT ![child] = op.new] /\ UNCHANGED lost
  <2>1. child \in slots
    <3>1. slots \subseteq Nat
      BY DEF Procs
    <3>2. \E c \in slots : \A d \in slots : c <= d
      BY Zenon, <1>5, <3>1, LeastElement
    <3> QED
      BY Zenon, <3>2
  <2>2. child \in Procs /\ space[child] = NoSpace
    BY Zenon, <2>1 DEF Alive
  <2> HIDE DEF child
  <2>3. space \in [Procs -> Space \cup {NoSpace}] /\ op.new \in Space \cup {NoSpace}
    BY Zenon, <1>2 DEF SoundAt, Owners
  <2>4. Only(space, space', child, op.new)
    BY Zenon, <1>5, <2>2, <2>3, OnlyIs
  <2>5. SoundAt(space', dead, lost, NoSpace, refcount, table_frames)
    BY Zenon, <1>2, <1>3, <2>2, <2>4, SoundAdopt
  <2> QED
    BY Zenon, <1>1, <1>2, <1>4, <1>5, <2>5 DEF MemInv
<1>6. CASE lost' = lost \cup {op.new} /\ UNCHANGED space
  <2>1. SoundAt(space, dead, lost \cup {op.new}, NoSpace, refcount, table_frames)
    BY Zenon, <1>2, <1>3, SoundLost
  <2> QED
    BY Zenon, <1>1, <1>2, <1>4, <1>6, <2>1 DEF MemInv
<1> QED
  BY Zenon, <1>5, <1>6 DEF fork_end

\* exec gives up.
LEMMA AbandonsKeeps ==
  ASSUME MemInv, NEW p \in Procs, Abandons(p)
  PROVE  MemInv'
<1>1. /\ op.kind \in {"exec", "execve"} /\ op' = NoOp /\ UNCHANGED <<space, heap, regions, dead, lost>>
      /\ refcount' = decref(refcount, DataFrames(op.new, Pages))
      /\ table_frames' = table_frames - Cardinality(op.new.tables) - 1
  BY Zenon DEF Abandons, Within, free_user_address_space
<1>2. /\ SoundAt(space, dead, lost, op.new, refcount, table_frames) /\ HeldAt(heap, regions) /\ UnderAt(op, space)
  BY Zenon DEF MemInv
<1>3. op.new # NoSpace
  BY Zenon, <1>1, <1>2 DEF UnderAt, Calls
<1>4. UnderAt(op', space') /\ op'.new = NoSpace
  BY Zenon, <1>1, UnderNoOp
<1>5. SoundAt(space, dead, lost, NoSpace, refcount', table_frames')
  BY Zenon, <1>1, <1>2, <1>3, SoundAbandon
<1> QED
  BY Zenon, <1>1, <1>2, <1>4, <1>5 DEF MemInv

\* One page of the image
LEMMA ExecPageKeeps ==
  ASSUME MemInv, NEW p \in Procs, exec_page(p)
  PROVE  MemInv'
<1> DEFINE c == op.new
           g == Image[op.at]
           w == g \notin ReadOnly
           t == map_page(c, g, w)
           R == AllSpaces(space, dead, lost, c)
<1>1. op.kind \in {"exec", "execve"} /\ op.at <= Len(Image)
  BY Zenon DEF exec_page, Within
<1>2. /\ SoundAt(space, dead, lost, c, refcount, table_frames) /\ HeldAt(heap, regions) /\ UnderAt(op, space)
  BY Zenon DEF MemInv
<1>3. /\ op.kind = "exec" /\ op \in Calls /\ c # NoSpace /\ Loading(op) /\ op.at \in Nat
      /\ op.proc \in Procs /\ space[op.proc] # NoSpace
  BY Zenon, <1>1, <1>2 DEF UnderAt, Calls
<1>4. CASE FreeFrames = 0
  BY Zenon, <1>4, AbandonsKeeps DEF exec_page
<1>5. CASE FreeFrames # 0 /\ MapFails(c, g)
  BY Zenon, <1>5, MemSame DEF exec_page, Halt
<1>6. CASE FreeFrames # 0 /\ ~MapFails(c, g)
  <2>1. /\ refcount' = [refcount EXCEPT ![alloc_frame] = 1] /\ table_frames' = table_frames + NewTables(c, g)
        /\ op' = [op EXCEPT !.new = t, !.at = @ + 1]
        /\ UNCHANGED <<space, heap, regions, dead, lost>>
    BY Zenon, <1>6 DEF exec_page, TakesFrames
  <2>2. op.at \in 1..Len(Image) /\ g \in Pages
    <3>1. op.at >= 1
      BY Zenon, <1>3 DEF Loading
    <3>2. Image \in Seq(Pages)
      BY Zenon, SpacesAssumption DEF Pages
    <3>3. Len(Image) \in Nat
      BY Zenon, <3>2, LenProperties
    <3>4. op.at \in 1..Len(Image)
      BY <1>1, <1>3, <3>1, <3>3
    <3> QED
      BY Zenon, <3>2, <3>4, ElementOfSeq
  <2>3. ~Present(c, g)
    <3>1. SUFFICES ASSUME Present(c, g) PROVE FALSE
      BY Zenon
    <3>2. PICK i \in 1..Len(Image) : i < op.at /\ Image[i] = g
      BY Zenon, <1>3, <2>2, <3>1 DEF Loading
    <3>3. i = op.at
      BY Zenon, <2>2, <3>2, SpacesAssumption
    <3> QED
      BY <1>3, <3>2, <3>3
  <2>4. Balanced(R, refcount, table_frames) /\ c \in R /\ w \in BOOLEAN
    BY Zenon, <1>2, <1>3, IsReal DEF SoundAt
  <2>5. /\ Balanced(Swap(R, c, t), refcount', table_frames') /\ Room(refcount', table_frames')
        /\ t \in Space /\ t.pml4 = c.pml4 /\ \A h \in Pages : h # g => t.pte[h] = c.pte[h]
    <3> HIDE DEF c, g, w, R
    <3>1. ~MapFails(c, g)
      BY Zenon, <1>6
    <3>2. Grows(R, c, g, map_page(c, g, w), [refcount EXCEPT ![alloc_frame] = 1], table_frames + NewTables(c, g))
      BY Zenon, <2>2, <2>3, <2>4, <3>1, Mapped
    <3>3. Grows(R, c, g, t, refcount', table_frames')
      BY Zenon, <2>1, <3>2
    <3> QED
      BY Zenon, <3>3 DEF Grows
  <2>6. Moved(op, t, op')
    <3>1. t \in Space
      BY Zenon, <2>5
    <3> HIDE DEF t
    <3> QED
      BY Zenon, <1>3, <2>1, <3>1, AtNewIs
  <2> HIDE DEF t
  <2>7. SoundAt(space, dead, lost, t, refcount', table_frames')
    BY Zenon, <1>2, <1>3, <2>5, SoundNew
  <2>8. op' \in Calls /\ op'.kind = op.kind /\ op'.proc = op.proc /\ op'.new = t /\ op'.at = op.at + 1
    BY Zenon, <2>6 DEF Moved
  <2>9. Loading(op')
    <3>1. op.at + 1 >= 1 /\ op.at < op.at + 1
      BY <1>3
    <3>2. ASSUME NEW h \in Pages, Present(t, h)
          PROVE  \E i \in 1..Len(Image) : i < op.at + 1 /\ Image[i] = h
      <4>1. CASE h = g
        BY Zenon, <2>2, <3>1, <4>1
      <4>2. CASE h # g
        <5>1. Present(c, h)
          BY Zenon, <2>5, <3>2, <4>2 DEF Present
        <5>2. PICK i \in 1..Len(Image) : i < op.at /\ Image[i] = h
          BY Zenon, <1>3, <5>1 DEF Loading
        <5>3. i < op.at + 1
          BY <1>3, <5>2
        <5> QED
          BY Zenon, <5>2, <5>3
      <4> QED
        BY Zenon, <4>1, <4>2
    <3> QED
      BY Zenon, <2>8, <3>1, <3>2 DEF Loading
  <2>10. t # NoSpace
    BY Zenon, <2>5, NoSpaceApart
  <2>11. UnderAt(op', space)
    BY Zenon, <1>3, <2>8, <2>9, <2>10 DEF UnderAt
  <2> QED
    BY Zenon, <1>2, <2>1, <2>7, <2>8, <2>11 DEF MemInv
<1> QED
  BY Zenon, <1>4, <1>5, <1>6

\* The end of sys_exec
LEMMA ExecEndKeeps ==
  ASSUME MemInv, NEW p \in Procs, exec_end(p)
  PROVE  MemInv'
<1>1. op.kind \in {"exec", "execve"} /\ op.proc = p
  BY Zenon DEF exec_end, Within
<1>2. /\ SoundAt(space, dead, lost, op.new, refcount, table_frames) /\ HeldAt(heap, regions) /\ UnderAt(op, space)
  BY Zenon DEF MemInv
<1>3. op.kind = "exec" /\ op.new # NoSpace /\ space[p] # NoSpace
  BY Zenon, <1>1, <1>2 DEF UnderAt, Calls
<1>4. op.kind # "execve"
  BY Zenon, <1>3
<1>5. CASE FreePanics(space[p])
  BY Zenon, <1>5, MemSame DEF exec_end, Halt
<1>6. CASE ~FreePanics(space[p])
  <2> DEFINE sp == [space EXCEPT ![p] = NoSpace]
             rc2 == decref(refcount, DataFrames(space[p], Pages))
             m == table_frames - Cardinality(space[p].tables) - 1
  <2>1. /\ refcount' = rc2 /\ table_frames' = m
        /\ space' = [space EXCEPT ![p] = op.new] /\ op' = NoOp
        /\ UNCHANGED <<heap, regions, dead, lost>>
    BY Zenon, <1>3, <1>4, <1>6 DEF exec_end, free_user_address_space
  <2>2. space \in [Procs -> Space \cup {NoSpace}] /\ op.new \in Space \cup {NoSpace}
    BY Zenon, <1>2 DEF SoundAt, Owners
  <2>3. Only(space, sp, p, NoSpace) /\ Only(space, space', p, op.new)
    BY Zenon, <2>1, <2>2, OnlyIs
  <2> HIDE DEF sp
  <2>4. SoundAt(sp, dead, lost, op.new, rc2, m)
    BY Zenon, <1>2, <1>3, <2>3, SoundDrop
  <2>5. Only(sp, space', p, op.new) /\ sp[p] = NoSpace
    BY Zenon, <2>3, OnlyTwice DEF Only
  <2> HIDE DEF rc2, m
  <2>6. SoundAt(space', dead, lost, NoSpace, rc2, m)
    BY Zenon, <1>3, <2>4, <2>5, SoundAdopt
  <2>7. UnderAt(op', space') /\ op'.new = NoSpace
    BY Zenon, <2>1, UnderNoOp
  <2> QED
    BY Zenon, <1>2, <2>1, <2>6, <2>7 DEF MemInv
<1> QED
  BY Zenon, <1>5, <1>6

\* A page of p's heap or of a new region gets a frame.
LEMMA SoundTakes ==
  ASSUME SoundAt(space, dead, lost, op.new, refcount, table_frames), NEW p \in Procs, space[p] # NoSpace,
         NEW g \in Pages, ~Present(space[p], g), ~MapFails(space[p], g),
         NEW v, TakesFrames(space[p], g, v), space' = [space EXCEPT ![p] = map_page(@, g, TRUE)]
  PROVE  /\ SoundAt(space', dead, lost, op.new, refcount', table_frames')
         /\ space'[p] # NoSpace
         /\ \A h \in Pages : h # g => space'[p].pte[h] = space[p].pte[h]
<1> DEFINE R == AllSpaces(space, dead, lost, op.new)
           t == map_page(space[p], g, TRUE)
<1>1. Balanced(R, refcount, table_frames) /\ space[p] \in R
  BY Zenon, IsReal DEF SoundAt
<1>2. Grows(R, space[p], g, t, [refcount EXCEPT ![alloc_frame] = 1], table_frames + NewTables(space[p], g))
  BY Zenon, <1>1, Mapped
<1>3. Grows(R, space[p], g, t, refcount', table_frames')
  BY Zenon, <1>2 DEF TakesFrames
<1>4. /\ Balanced(Swap(R, space[p], t), refcount', table_frames') /\ Room(refcount', table_frames')
      /\ t \in Space /\ t.pml4 = space[p].pml4 /\ \A h \in Pages : h # g => t.pte[h] = space[p].pte[h]
  BY Zenon, <1>3 DEF Grows
<1>5. Only(space, space', p, t)
  <2>1. space \in [Procs -> Space \cup {NoSpace}]
    BY Zenon DEF SoundAt, Owners
  <2> QED
    BY Zenon, <1>4, <2>1, OnlyIs
<1> HIDE DEF t
<1>6. SoundAt(space', dead, lost, op.new, refcount', table_frames')
  BY Zenon, <1>4, <1>5, SoundProc
<1>7. space'[p] = t
  BY Zenon, <1>5 DEF Only
<1> QED
  BY Zenon, <1>4, <1>6, <1>7, NoSpaceApart

\* p gives up pages of its space.
LEMMA SoundReleases ==
  ASSUME SoundAt(space, dead, lost, op.new, refcount, table_frames), NEW p \in Procs, space[p] # NoSpace,
         NEW S, S \subseteq Pages, Releases(p, S)
  PROVE  SoundAt(space', dead', lost', op.new, refcount', table_frames')
<1> DEFINE R == AllSpaces(space, dead, lost, op.new)
           t == unmap_page(space[p], S)
<1>1. /\ refcount' = decref(refcount, DataFrames(space[p], S)) /\ space' = [space EXCEPT ![p] = t]
      /\ UNCHANGED <<table_frames, dead, lost>>
  BY Zenon DEF Releases
<1>2. Balanced(R, refcount, table_frames) /\ Room(refcount, table_frames) /\ space[p] \in R
  BY Zenon, IsReal DEF SoundAt
<1>3. S \in SUBSET Pages
  BY Zenon
<1>4. Balanced(Swap(R, space[p], t), refcount', table_frames) /\ Room(refcount', table_frames)
  BY Zenon, <1>1, <1>2, <1>3, Unmapped
<1>5. space \in [Procs -> Space \cup {NoSpace}] /\ space[p] \in Space
  <2>1. space \in [Procs -> Space \cup {NoSpace}]
    BY Zenon DEF SoundAt, Owners
  <2> QED
    BY Zenon, <2>1
<1>6. t \in Space /\ t.pml4 = space[p].pml4
  BY Zenon, <1>3, <1>5, UnmapPageIs
<1> HIDE DEF t
<1>7. Only(space, space', p, t)
  BY Zenon, <1>1, <1>5, <1>6, OnlyIs
<1>8. SoundAt(space', dead, lost, op.new, refcount', table_frames)
  BY Zenon, <1>4, <1>6, <1>7, SoundProc
<1> QED
  BY Zenon, <1>1, <1>8

\* The end of p's break changes.
LEMMA BreakMoves ==
  ASSUME HeldAt(heap, regions), NEW p \in Procs, NEW e \in Nat, e >= 1, e <= NPages + 1
  PROVE  HeldAt([heap EXCEPT ![p].end = e], regions)
<1>1. heap \in [Procs -> Breaks]
  BY Zenon DEF HeldAt
<1>2. heap[p] \in Breaks
  BY Zenon, <1>1
<1> DEFINE b == [heap[p] EXCEPT !.end = e]
<1>3. b \in Breaks /\ b.end = e
  BY Zenon, <1>2 DEF Breaks
<1>4. [heap EXCEPT ![p].end = e] = [heap EXCEPT ![p] = b]
  BY Zenon
<1> HIDE DEF b
<1>5. HeldAt([heap EXCEPT ![p] = b], regions)
  BY Zenon, <1>3, HeldHeap
<1> QED
  BY Zenon, <1>4, <1>5

\* brk, growing
LEMMA BrkBeginKeeps ==
  ASSUME MemInv, NEW p \in Procs, NEW b \in HeapPages, NEW g \in HeapPages, brk_begin(p, b, g + 1)
  PROVE  MemInv'
<1> DEFINE h == HeapOf(p, b)
<1>1. /\ heap' = [heap EXCEPT ![p] = h]
      /\ op' = [NoOp EXCEPT !.kind = "grow", !.proc = p, !.at = h.end, !.to = g + 1]
      /\ UNCHANGED <<refcount, table_frames, space, regions, dead, lost>>
      /\ op.kind = "none" /\ space[p] # NoSpace /\ g + 1 > h.end
  BY Zenon DEF brk_begin, Runs, Calm, Alive
<1>2. /\ SoundAt(space, dead, lost, op.new, refcount, table_frames) /\ HeldAt(heap, regions) /\ UnderAt(op, space)
  BY Zenon DEF MemInv
<1>3. op.new = NoSpace
  BY Zenon, <1>1, <1>2, UnderCalm
<1>4. /\ b \in Nat /\ b >= 1 /\ b <= NPages + 1 /\ g \in Nat /\ g + 1 \in Nat /\ g + 1 <= NPages + 1
      /\ g >= 1 /\ p \in Nat /\ NPages \in Nat
  BY SMTT(30), SpacesAssumption DEF Procs
<1>5. /\ h \in Breaks /\ h.end <= NPages + 1 /\ h.end >= 1 /\ h.end \in Nat
  <2>1. CASE heap[p].start = 0
    <3>1. h = [start |-> b, end |-> b]
      BY Zenon, <2>1 DEF HeapOf
    <3> HIDE DEF h
    <3> QED
      BY Zenon, <1>4, <3>1 DEF Breaks
  <2>2. CASE heap[p].start # 0
    <3>1. h = heap[p]
      BY Zenon, <2>2 DEF HeapOf
    <3>2. heap[p] \in Breaks /\ heap[p].end <= NPages + 1 /\ heap[p].end >= 1
      BY Zenon, <1>2, <2>2 DEF HeldAt
    <3>3. heap[p].end \in Nat
      BY Zenon, <3>2 DEF Breaks
    <3> QED
      BY Zenon, <3>1, <3>2, <3>3
  <2> QED
    BY Zenon, <2>1, <2>2
<1> HIDE DEF h
<1>6. HeldAt(heap', regions')
  BY Zenon, <1>1, <1>2, <1>5, HeldHeap
<1>7. op' = [kind |-> "grow", proc |-> p, new |-> NoSpace, from |-> 0, at |-> h.end, to |-> g + 1]
  BY Zenon, <1>1 DEF NoOp
<1>8. op' \in Calls /\ op'.kind = "grow" /\ op'.proc = p /\ op'.new = NoSpace /\ op'.at = h.end /\ op'.to = g + 1
  <2>1. PICK j, n : j = g + 1 /\ n = NoSpace
    BY Zenon
  <2>2. op' = [kind |-> "grow", proc |-> p, new |-> n, from |-> 0, at |-> h.end, to |-> j]
    BY Zenon, <1>7, <2>1
  <2>3. j \in Nat /\ n \in Space \cup {NoSpace}
    BY Zenon, <1>4, <2>1
  <2>4. op' \in Calls /\ op'.kind = "grow" /\ op'.proc = p /\ op'.new = n /\ op'.at = h.end /\ op'.to = j
    BY Zenon, <1>4, <1>5, <2>2, <2>3 DEF Calls
  <2> QED
    BY Zenon, <2>1, <2>4
<1>9. Growing(op')
  BY <1>1, <1>4, <1>5, <1>8 DEF Growing
<1>10. UnderAt(op', space)
  BY Zenon, <1>1, <1>8, <1>9 DEF UnderAt
<1> QED
  BY Zenon, <1>1, <1>2, <1>3, <1>6, <1>8, <1>10 DEF MemInv

\* One page of a growing heap
LEMMA BrkPageKeeps ==
  ASSUME MemInv, NEW p \in Procs, brk_page(p)
  PROVE  MemInv'
<1>1. op.kind = "grow" /\ op.proc = p
  BY Zenon DEF brk_page, Within
<1>2. /\ SoundAt(space, dead, lost, op.new, refcount, table_frames) /\ HeldAt(heap, regions) /\ UnderAt(op, space)
  BY Zenon DEF MemInv
<1>3. op \in Calls /\ op.new = NoSpace /\ space[p] # NoSpace /\ Growing(op)
  BY Zenon, <1>1, <1>2 DEF UnderAt
<1>4. /\ op.at \in Nat /\ op.to \in Nat /\ NPages \in Nat /\ op.at >= 1 /\ op.at <= op.to /\ op.to <= NPages + 1
  BY Zenon, <1>3, SpacesAssumption DEF Calls, Growing
<1>5. ASSUME NEW o, Moved(op, op.new, o), NEW sp, sp[p] # NoSpace, op.at < op.to
      PROVE  UnderAt(o, sp) /\ o.new = op.new
  <2>1. /\ o \in Calls /\ o.kind = op.kind /\ o.proc = op.proc /\ o.new = op.new /\ o.at = op.at + 1 /\ o.to = op.to
    BY Zenon, <1>5 DEF Moved
  <2>2. Growing(o)
    BY <1>4, <1>5, <2>1 DEF Growing
  <2> QED
    BY Zenon, <1>1, <1>3, <1>5, <2>1, <2>2 DEF UnderAt
<1>6. CASE op.at < op.to /\ Present(space[p], op.at)
  <2>1. op' = [op EXCEPT !.at = @ + 1] /\ UNCHANGED <<refcount, table_frames, space, heap, regions, dead, lost>>
    BY Zenon, <1>6 DEF brk_page
  <2>2. Moved(op, op.new, op')
    BY Zenon, <1>3, <2>1, AtIs
  <2>3. UnderAt(op', space) /\ op'.new = op.new
    BY Zenon, <1>3, <1>5, <1>6, <2>2
  <2> QED
    BY Zenon, <1>2, <2>1, <2>3 DEF MemInv
<1>7. CASE ~(op.at < op.to /\ Present(space[p], op.at)) /\ (op.at = op.to \/ FreeFrames = 0)
  <2>1. /\ heap' = [heap EXCEPT ![p].end = op.at] /\ op' = NoOp
        /\ UNCHANGED <<refcount, table_frames, space, regions, dead, lost>>
    BY Zenon, <1>7 DEF brk_page
  <2>2. op.at <= NPages + 1
    BY <1>4
  <2>3. HeldAt([heap EXCEPT ![p].end = op.at], regions)
    BY Zenon, <1>2, <1>4, <2>2, BreakMoves
  <2>4. UnderAt(op', space) /\ op'.new = NoSpace
    BY Zenon, <2>1, UnderNoOp
  <2> QED
    BY Zenon, <1>2, <1>3, <2>1, <2>3, <2>4 DEF MemInv
<1>8. CASE /\ ~(op.at < op.to /\ Present(space[p], op.at)) /\ ~(op.at = op.to \/ FreeFrames = 0)
           /\ MapFails(space[p], op.at)
  BY Zenon, <1>8, MemSame DEF brk_page, Halt
<1>9. CASE /\ ~(op.at < op.to /\ Present(space[p], op.at)) /\ ~(op.at = op.to \/ FreeFrames = 0)
           /\ ~MapFails(space[p], op.at)
  <2>1. /\ \E v \in Values : TakesFrames(space[p], op.at, v)
        /\ space' = [space EXCEPT ![p] = map_page(@, op.at, TRUE)]
        /\ op' = [op EXCEPT !.at = @ + 1]
        /\ UNCHANGED <<heap, regions, dead, lost>>
    BY Zenon, <1>9 DEF brk_page
  <2>2. op.at < op.to /\ op.at \in Pages
    BY <1>4, <1>9 DEF Pages
  <2>3. ~Present(space[p], op.at) /\ ~MapFails(space[p], op.at)
    BY Zenon, <1>9, <2>2
  <2>4. PICK v \in Values : TakesFrames(space[p], op.at, v)
    BY Zenon, <2>1
  <2>5. SoundAt(space', dead, lost, op.new, refcount', table_frames') /\ space'[p] # NoSpace
    BY Zenon, <1>2, <1>3, <2>1, <2>2, <2>3, <2>4, SoundTakes
  <2>6. Moved(op, op.new, op')
    BY Zenon, <1>3, <2>1, AtIs
  <2>7. UnderAt(op', space') /\ op'.new = op.new
    BY Zenon, <1>5, <2>2, <2>5, <2>6
  <2> QED
    BY Zenon, <1>2, <2>1, <2>5, <2>7 DEF MemInv
<1> QED
  BY Zenon, <1>6, <1>7, <1>8, <1>9

\* brk, shrinking
LEMMA BrkShrinkKeeps ==
  ASSUME MemInv, NEW p \in Procs, NEW g \in HeapPages, brk_shrink(p, g)
  PROVE  MemInv'
<1> DEFINE gone == g..(heap[p].end - 1)
<1>1. /\ op.kind = "none" /\ space[p] # NoSpace /\ heap[p].start # 0 /\ g \in heap[p].start..(heap[p].end - 1)
  BY Zenon DEF brk_shrink, Runs, Calm, Alive
<1>2. /\ SoundAt(space, dead, lost, op.new, refcount, table_frames) /\ HeldAt(heap, regions) /\ UnderAt(op, space)
  BY Zenon DEF MemInv
<1>3. CASE ~CanFree(DataFrames(space[p], gone))
  BY Zenon, <1>3, MemSame DEF brk_shrink, Halt
<1>4. CASE CanFree(DataFrames(space[p], gone))
  <2>1. Releases(p, gone) /\ heap' = [heap EXCEPT ![p].end = g] /\ UNCHANGED <<regions, op>>
    BY Zenon, <1>4 DEF brk_shrink
  <2>2. heap[p] \in Breaks /\ heap[p].end <= NPages + 1
    BY Zenon, <1>2 DEF HeldAt
  <2>3. g \in Nat /\ g >= 1 /\ g <= NPages + 1 /\ NPages \in Nat
    BY SpacesAssumption
  <2>4. gone \subseteq Pages
    <3>1. heap[p].end \in Nat
      BY Zenon, <2>2 DEF Breaks
    <3> QED
      BY <2>2, <2>3, <3>1 DEF Pages
  <2> HIDE DEF gone
  <2>5. SoundAt(space', dead', lost', op.new, refcount', table_frames')
    BY Zenon, <1>1, <1>2, <2>1, <2>4, SoundReleases
  <2>6. HeldAt(heap', regions)
    BY Zenon, <1>2, <2>1, <2>3, BreakMoves
  <2>7. UnderAt(op, space')
    BY Zenon, <1>1, <1>2, UnderCalm
  <2> QED
    BY Zenon, <2>1, <2>5, <2>6, <2>7 DEF MemInv
<1> QED
  BY Zenon, <1>3, <1>4

\* The search of mmap found a hole.
LEMMA MmapBeginKeeps ==
  ASSUME MemInv, NEW p \in Procs, NEW base \in MmapPages, NEW n \in 1..MaxPages, mmap_begin(p, base, n)
  PROVE  MemInv'
<1>1. /\ op' = [NoOp EXCEPT !.kind = "mmap", !.proc = p, !.from = base, !.at = base, !.to = base + n]
      /\ UNCHANGED <<refcount, table_frames, space, heap, regions, dead, lost>>
      /\ op.kind = "none" /\ space[p] # NoSpace
      /\ base..(base + n - 1) \subseteq MmapPages
      /\ \A g \in base..(base + n - 1) : ~Present(space[p], g)
  BY Zenon DEF mmap_begin, Runs, Calm, Alive
<1>2. /\ SoundAt(space, dead, lost, op.new, refcount, table_frames) /\ HeldAt(heap, regions) /\ UnderAt(op, space)
  BY Zenon DEF MemInv
<1>3. op.new = NoSpace
  BY Zenon, <1>1, <1>2, UnderCalm
<1>4. /\ base \in Pages /\ base \in Nat /\ n \in Nat /\ n >= 1 /\ p \in Nat /\ NPages \in Nat
      /\ MmapPages \subseteq 1..NPages
  BY SpacesAssumption DEF Procs, Pages
<1>5. base + n \in Nat /\ base < base + n /\ base + n <= NPages + 1
  <2>1. base + n - 1 \in base..(base + n - 1)
    BY <1>4
  <2>2. base + n - 1 \in 1..NPages
    BY Zenon, <1>1, <1>4, <2>1
  <2> QED
    BY <1>4, <2>2
<1>6. op' = [kind |-> "mmap", proc |-> p, new |-> NoSpace, from |-> base, at |-> base, to |-> base + n]
  BY Zenon, <1>1 DEF NoOp
<1>7. /\ op' \in Calls /\ op'.kind = "mmap" /\ op'.proc = p /\ op'.new = NoSpace
      /\ op'.from = base /\ op'.at = base /\ op'.to = base + n
  <2>1. PICK j, m : j = base + n /\ m = NoSpace
    BY Zenon
  <2>2. op' = [kind |-> "mmap", proc |-> p, new |-> m, from |-> base, at |-> base, to |-> j]
    BY Zenon, <1>6, <2>1
  <2>3. j \in Nat /\ m \in Space \cup {NoSpace}
    BY Zenon, <1>5, <2>1
  <2>4. /\ op' \in Calls /\ op'.kind = "mmap" /\ op'.proc = p /\ op'.new = m
        /\ op'.from = base /\ op'.at = base /\ op'.to = j
    BY Zenon, <1>4, <2>2, <2>3 DEF Calls
  <2> QED
    BY Zenon, <2>1, <2>4
<1>8. Mapping(op', space)
  <2>1. \A g \in Pages : base <= g /\ g < base + n => g \in base..(base + n - 1)
    BY <1>4 DEF Pages
  <2>2. \A g \in Pages : base <= g /\ g < base + n => ~Present(space[p], g)
    BY Zenon, <1>1, <2>1
  <2>3. base <= base /\ base <= base + n
    BY <1>4
  <2> QED
    BY Zenon, <1>4, <1>5, <1>7, <2>2, <2>3 DEF Mapping
<1>9. UnderAt(op', space)
  BY Zenon, <1>1, <1>7, <1>8 DEF UnderAt
<1> QED
  BY Zenon, <1>1, <1>2, <1>3, <1>7, <1>9 DEF MemInv

\* One page of a new region
LEMMA MmapPageKeeps ==
  ASSUME MemInv, NEW p \in Procs, mmap_page(p)
  PROVE  MemInv'
<1>1. op.kind = "mmap" /\ op.proc = p
  BY Zenon DEF mmap_page, Within
<1>2. /\ SoundAt(space, dead, lost, op.new, refcount, table_frames) /\ HeldAt(heap, regions) /\ UnderAt(op, space)
  BY Zenon DEF MemInv
<1>3. op \in Calls /\ op.new = NoSpace /\ space[p] # NoSpace /\ Mapping(op, space)
  BY Zenon, <1>1, <1>2 DEF UnderAt
<1>4. /\ op.at \in Nat /\ op.to \in Nat /\ op.from \in Nat /\ NPages \in Nat /\ op.from \in Pages
      /\ op.from < op.to /\ op.to <= NPages + 1 /\ op.from <= op.at /\ op.at <= op.to /\ op.from >= 1
  BY <1>3, SpacesAssumption DEF Calls, Mapping, Pages
<1>5. CASE op.at = op.to
  <2>1. /\ regions' = [regions EXCEPT ![p] = Append(@, NewRegion)] /\ op' = NoOp
        /\ UNCHANGED <<refcount, table_frames, space, heap, dead, lost>>
    BY Zenon, <1>5 DEF mmap_page
  <2>2. NewRegion \in RegionSet
    <3>1. PICK r : r = [base |-> op.from, pages |-> op.to - op.from]
      BY Zenon
    <3>2. r.base = op.from /\ r.pages = op.to - op.from /\ r \in [base : Pages, pages : Nat]
      BY <1>4, <3>1
    <3>3. Region(r) \subseteq Pages
      BY <1>4, <3>2 DEF Region, Pages
    <3> QED
      BY Zenon, <3>1, <3>2, <3>3 DEF RegionSet, NewRegion
  <2>3. regions[p] \in Seq(RegionSet)
    BY Zenon, <1>2 DEF HeldAt
  <2>4. Append(regions[p], NewRegion) \in Seq(RegionSet)
    BY Zenon, <2>2, <2>3, AppendProperties
  <2>5. HeldAt(heap, regions')
    BY Zenon, <1>2, <2>1, <2>4, HeldRegions
  <2>6. UnderAt(op', space) /\ op'.new = NoSpace
    BY Zenon, <2>1, UnderNoOp
  <2> QED
    BY Zenon, <1>2, <1>3, <2>1, <2>5, <2>6 DEF MemInv
<1>6. CASE op.at # op.to /\ FreeFrames = 0
  <2> DEFINE gone == op.from..(op.at - 1)
  <2>1. Releases(p, gone) /\ op' = NoOp /\ UNCHANGED <<heap, regions>>
    BY Zenon, <1>6 DEF mmap_page
  <2>2. gone \subseteq Pages
    BY <1>4 DEF Pages
  <2> HIDE DEF gone
  <2>3. SoundAt(space', dead', lost', op.new, refcount', table_frames')
    BY Zenon, <1>2, <1>3, <2>1, <2>2, SoundReleases
  <2>4. UnderAt(op', space') /\ op'.new = NoSpace
    BY Zenon, <2>1, UnderNoOp
  <2> QED
    BY Zenon, <1>2, <1>3, <2>1, <2>3, <2>4 DEF MemInv
<1>7. CASE op.at # op.to /\ FreeFrames # 0 /\ MapFails(space[p], op.at)
  BY Zenon, <1>7, MemSame DEF mmap_page, Halt
<1>8. CASE op.at # op.to /\ FreeFrames # 0 /\ ~MapFails(space[p], op.at)
  <2>1. /\ \E v \in Values : TakesFrames(space[p], op.at, v)
        /\ space' = [space EXCEPT ![p] = map_page(@, op.at, TRUE)]
        /\ op' = [op EXCEPT !.at = @ + 1]
        /\ UNCHANGED <<heap, regions, dead, lost>>
    BY Zenon, <1>8 DEF mmap_page
  <2>2. op.at < op.to /\ op.at \in Pages /\ op.at <= op.at
    BY <1>4, <1>8 DEF Pages
  <2>3. ~Present(space[p], op.at) /\ ~MapFails(space[p], op.at)
    BY Zenon, <1>1, <1>3, <1>8, <2>2 DEF Mapping
  <2>4. PICK v \in Values : TakesFrames(space[p], op.at, v)
    BY Zenon, <2>1
  <2>5. /\ SoundAt(space', dead, lost, op.new, refcount', table_frames') /\ space'[p] # NoSpace
        /\ \A h \in Pages : h # op.at => space'[p].pte[h] = space[p].pte[h]
    BY Zenon, <1>2, <1>3, <2>1, <2>2, <2>3, <2>4, SoundTakes
  <2>6. /\ op' \in Calls /\ op'.kind = op.kind /\ op'.proc = op.proc /\ op'.new = op.new
        /\ op'.from = op.from /\ op'.at = op.at + 1 /\ op'.to = op.to
    BY Zenon, <1>3, <2>1, AtIs DEF Moved
  <2>7. Mapping(op', space')
    <3>1. op.from <= op.at + 1 /\ op.at + 1 <= op.to
      BY <1>4, <2>2
    <3>2. \A h \in Pages : op.at + 1 <= h /\ h < op.to => h # op.at /\ op.at <= h
      BY <1>4 DEF Pages
    <3>3. ASSUME NEW h \in Pages, op.at + 1 <= h /\ h < op.to
          PROVE  ~Present(space'[p], h)
      <4>1. h # op.at /\ op.at <= h /\ h < op.to
        BY Zenon, <3>2, <3>3
      <4>2. ~Present(space[p], h)
        BY Zenon, <1>1, <1>3, <4>1 DEF Mapping
      <4> QED
        BY Zenon, <2>5, <4>1, <4>2 DEF Present
    <3> QED
      BY Zenon, <1>1, <1>4, <2>6, <3>1, <3>3 DEF Mapping
  <2>8. UnderAt(op', space')
    BY Zenon, <1>1, <1>3, <2>5, <2>6, <2>7 DEF UnderAt
  <2> QED
    BY Zenon, <1>2, <2>1, <2>5, <2>6, <2>8 DEF MemInv
<1> QED
  BY Zenon, <1>5, <1>6, <1>7, <1>8

\* munmap
LEMMA MunmapKeeps ==
  ASSUME MemInv, NEW p \in Procs, NEW addr \in MmapPages, NEW n \in 1..MaxPages, munmap(p, addr, n)
  PROVE  MemInv'
<1>1. op.kind = "none" /\ space[p] # NoSpace
  BY Zenon DEF munmap, Runs, Calm, Alive
<1>2. /\ SoundAt(space, dead, lost, op.new, refcount, table_frames) /\ HeldAt(heap, regions) /\ UnderAt(op, space)
  BY Zenon DEF MemInv
<1>3. PICK i \in 1..Len(regions[p]) :
          IF ~CanDecref(DataFrames(space[p], Region(regions[p][i]))) THEN Halt("bad_free")
          ELSE /\ Releases(p, Region(regions[p][i]))
               /\ regions' = [regions EXCEPT ![p] = SubSeq(@, 1, i - 1) \o SubSeq(@, i + 1, Len(@))]
               /\ UNCHANGED <<heap, op>>
  BY Zenon DEF munmap
<1>4. CASE ~CanDecref(DataFrames(space[p], Region(regions[p][i])))
  BY Zenon, <1>3, <1>4, MemSame DEF Halt
<1>5. CASE CanDecref(DataFrames(space[p], Region(regions[p][i])))
  <2> DEFINE q == regions[p]
             q2 == SubSeq(q, 1, i - 1) \o SubSeq(q, i + 1, Len(q))
  <2>1. Releases(p, Region(q[i])) /\ regions' = [regions EXCEPT ![p] = q2] /\ UNCHANGED <<heap, op>>
    BY Zenon, <1>3, <1>5
  <2>2. q \in Seq(RegionSet)
    BY Zenon, <1>2 DEF HeldAt
  <2>3. q[i] \in RegionSet
    BY Zenon, <2>2, ElementOfSeq
  <2>4. Region(q[i]) \subseteq Pages
    BY Zenon, <2>3 DEF RegionSet
  <2>5. q2 \in Seq(RegionSet)
    <3>1. Len(q) \in Nat
      BY Zenon, <2>2, LenProperties
    <3>2. \A a \in 1..(i - 1) : a \in 1..Len(q)
      BY <3>1
    <3>3. \A a \in (i + 1)..Len(q) : a \in 1..Len(q)
      BY <3>1
    <3>4. i \in Int /\ i - 1 \in Int /\ i + 1 \in Int /\ Len(q) \in Int /\ 1 \in Int
      BY <3>1
    <3>5. SubSeq(q, 1, i - 1) \in Seq(RegionSet)
      <4>1. \A a \in 1..(i - 1) : q[a] \in RegionSet
        BY Zenon, <2>2, <3>2, ElementOfSeq
      <4> QED
        BY Zenon, <3>4, <4>1, SubSeqProperties
    <3>6. SubSeq(q, i + 1, Len(q)) \in Seq(RegionSet)
      <4>1. \A a \in (i + 1)..Len(q) : q[a] \in RegionSet
        BY Zenon, <2>2, <3>3, ElementOfSeq
      <4> QED
        BY Zenon, <3>4, <4>1, SubSeqProperties
    <3> QED
      BY Zenon, <3>5, <3>6, ConcatProperties
  <2> HIDE DEF q2
  <2>6. SoundAt(space', dead', lost', op.new, refcount', table_frames')
    BY Zenon, <1>1, <1>2, <2>1, <2>4, SoundReleases
  <2>7. HeldAt(heap, regions')
    BY Zenon, <1>2, <2>1, <2>5, HeldRegions
  <2>8. UnderAt(op, space')
    BY Zenon, <1>1, <1>2, UnderCalm
  <2> QED
    BY Zenon, <2>1, <2>6, <2>7, <2>8 DEF MemInv
<1> QED
  BY Zenon, <1>4, <1>5

-----------------------------------------------------------------------------
(* The first program *)

\* The frame of an image page in the first program's space
LEMMA FirstFrames ==
  /\ Len(Image) \in Nat /\ Image \in Seq(Pages)
  /\ \A g \in ImagePages : LET f == CHOOSE i \in 1..Len(Image) : Image[i] = g
                           IN  f \in 1..Len(Image) /\ Image[f] = g
  /\ \A f \in 1..Len(Image) : Image[f] \in ImagePages /\ f = CHOOSE i \in 1..Len(Image) : Image[i] = Image[f]
<1>1. Image \in Seq(Pages)
  BY Zenon, SpacesAssumption DEF Pages
<1>2. Len(Image) \in Nat
  BY Zenon, <1>1, LenProperties
<1>3. ASSUME NEW g \in ImagePages
      PROVE  LET f == CHOOSE i \in 1..Len(Image) : Image[i] = g
             IN  f \in 1..Len(Image) /\ Image[f] = g
  <2>1. \E i \in 1..Len(Image) : Image[i] = g
    BY Zenon DEF ImagePages
  <2> QED
    BY Zenon, <2>1
<1>4. ASSUME NEW f \in 1..Len(Image)
      PROVE  Image[f] \in ImagePages /\ f = CHOOSE i \in 1..Len(Image) : Image[i] = Image[f]
  <2>1. Image[f] \in ImagePages
    BY Zenon DEF ImagePages
  <2> DEFINE c == CHOOSE i \in 1..Len(Image) : Image[i] = Image[f]
  <2>2. c \in 1..Len(Image) /\ Image[c] = Image[f]
    BY Zenon, <1>3, <2>1
  <2> HIDE DEF c
  <2>3. c = f
    BY Zenon, <2>2, SpacesAssumption
  <2> QED
    BY Zenon, <2>1, <2>3 DEF c
<1> QED
  BY Zenon, <1>1, <1>2, <1>3, <1>4

\* The first program has as many frames as the image has pages.
LEMMA FirstIs ==
  /\ FirstSpace \in Space /\ FirstSpace.tables = ImageTables /\ FirstSpace.pml4 = 1
  /\ \A g \in Pages : Present(FirstSpace, g) =>
        FirstSpace.pte[g].frame \in 1..Len(Image) /\ Image[FirstSpace.pte[g].frame] = g
  /\ \A f \in 1..Len(Image) : Image[f] \in Pages /\ FirstSpace.pte[Image[f]].frame = f
  /\ \A g \in Pages : FirstSpace.pte[g].writable => FirstSpace.pte[g].frame \in 1..Len(Image)
  /\ 1..Len(Image) \subseteq Frames
<1> DEFINE F == FirstSpace
           fr(g) == CHOOSE i \in 1..Len(Image) : Image[i] = g
           d == [g \in Pages |-> IF g \in ImagePages THEN [frame |-> fr(g), writable |-> g \notin ReadOnly] ELSE NoPte]
<1>1. Len(Image) \in Nat /\ Image \in Seq(Pages)
  BY Zenon, FirstFrames
<1>2. /\ \A g \in ImagePages : fr(g) \in 1..Len(Image) /\ Image[fr(g)] = g
      /\ \A f \in 1..Len(Image) : Image[f] \in ImagePages /\ f = fr(Image[f])
  BY Zenon, FirstFrames
<1>3. ImagePages \subseteq Pages
  BY Zenon, <1>1, ElementOfSeq DEF ImagePages
<1>4. ImageTables \subseteq Tables
  BY Zenon, <1>3 DEF ImageTables, Tables
<1>5. 1 \in Frames /\ 1..Len(Image) \subseteq Frames
  <2>1. IsFiniteSet(ImageTables)
    BY Zenon, <1>4, FiniteStock, FS_Subset
  <2>2. Cardinality(ImageTables) \in Nat
    BY Zenon, <2>1, FS_CardinalityType
  <2> QED
    BY <1>1, <2>2, FirstFits, SpacesAssumption DEF Frames
<1>6. F = [pml4 |-> 1, tables |-> ImageTables, pte |-> d]
  BY Zenon DEF FirstSpace
<1> HIDE DEF F, fr
<1>7. d \in [Pages -> Pte]
  <2>1. ASSUME NEW g \in ImagePages
        PROVE  [frame |-> fr(g), writable |-> g \notin ReadOnly] \in Pte
    <3>1. fr(g) \in Frames
      BY Zenon, <1>2, <1>5
    <3>2. (g \notin ReadOnly) \in BOOLEAN
      BY Zenon
    <3> QED
      BY Zenon, <3>1, <3>2 DEF Pte
  <2>2. NoPte \in Pte
    BY Zenon DEF Pte
  <2> QED
    BY Zenon, <2>1, <2>2
<1>8. \A g \in Pages : d[g] = IF g \in ImagePages THEN [frame |-> fr(g), writable |-> g \notin ReadOnly] ELSE NoPte
  BY Zenon
<1>9. /\ \A g \in Pages : g \in ImagePages => d[g].frame = fr(g)
      /\ \A g \in Pages : g \notin ImagePages => d[g].frame = NoFrame /\ ~d[g].writable
  BY Zenon, <1>8 DEF NoPte
<1> HIDE DEF d
<1>10. F \in Space /\ F.tables = ImageTables /\ F.pml4 = 1 /\ F.pte = d
  BY <1>4, <1>5, <1>6, <1>7 DEF Space, Frames
<1>11. \A g \in Pages : Present(F, g) => F.pte[g].frame \in 1..Len(Image) /\ Image[F.pte[g].frame] = g
  BY Zenon, <1>2, <1>9, <1>10 DEF Present
<1>12. \A f \in 1..Len(Image) : Image[f] \in Pages /\ F.pte[Image[f]].frame = f
  BY Zenon, <1>2, <1>3, <1>9, <1>10
<1>13. \A g \in Pages : F.pte[g].writable => F.pte[g].frame \in 1..Len(Image)
  BY Zenon, <1>2, <1>9, <1>10
<1> QED
  BY Zenon, <1>5, <1>10, <1>11, <1>12, <1>13 DEF F

\* The counts of one space alone
LEMMA BalancedOne ==
  ASSUME NEW s \in Space, Once(s), NEW rc \in [Frames -> Nat],
         \A f \in Frames : rc[f] = Share(s, f), Sole(s, rc),
         NEW n, n = 1 + Cardinality(s.tables)
  PROVE  Balanced({s}, rc, n)
<1> DEFINE R == {s}
<1>1. Kin(R) /\ s \in R /\ R \ {s} = {} /\ Cardinality(R) = 1
  BY Zenon, FS_Singleton DEF Kin, OneRoot
<1>2. ASSUME NEW f \in Frames
      PROVE  rc[f] = Cardinality(UsersOf(R, f))
  <2>1. UsersOf(R, f) = Uses(s, f)
    BY Zenon DEF UsersOf
  <2> QED
    BY Zenon, <2>1, UsesCount
<1>3. Counted(R, n)
  <2>1. TablesOf(R) = TableUses(s)
    BY Zenon DEF TablesOf
  <2>2. Cardinality(TableUses(s)) = Cardinality(s.tables)
    BY Zenon, TableUsesCount
  <2> QED
    BY Zenon, <1>1, <2>1, <2>2 DEF Counted
<1> QED
  BY Zenon, <1>1, <1>2, <1>3 DEF Balanced, Exact

\* The first program's space is accounted for.
LEMMA InitSound ==
  ASSUME Init
  PROVE  MemInv
<1> DEFINE F == FirstSpace
<1>1. /\ refcount = [f \in Frames |-> IF f <= Len(Image) THEN 1 ELSE 0]
      /\ table_frames = 1 + Cardinality(ImageTables)
      /\ space = [p \in Procs |-> IF p = 1 THEN F ELSE NoSpace]
      /\ heap = [p \in Procs |-> [start |-> 0, end |-> 0]] /\ regions = [p \in Procs |-> <<>>]
      /\ dead = {} /\ lost = {} /\ op = NoOp
  BY Zenon DEF Init
<1>2. /\ F \in Space /\ F.tables = ImageTables
      /\ \A g \in Pages : Present(F, g) => F.pte[g].frame \in 1..Len(Image) /\ Image[F.pte[g].frame] = g
      /\ \A f \in 1..Len(Image) : Image[f] \in Pages /\ F.pte[Image[f]].frame = f
      /\ \A g \in Pages : F.pte[g].writable => F.pte[g].frame \in 1..Len(Image)
      /\ 1..Len(Image) \subseteq Frames
  BY Zenon, FirstIs
<1> HIDE DEF F
<1>3. Len(Image) \in Nat
  BY Zenon, FirstFrames
<1>4. 1 \in Procs
  BY SpacesAssumption DEF Procs
<1>5. /\ refcount \in [Frames -> Nat]
      /\ \A f \in Frames : f \in 1..Len(Image) => refcount[f] = 1
      /\ \A f \in Frames : f \notin 1..Len(Image) => refcount[f] = 0
  <2> DEFINE n == Len(Image)
  <2>1. /\ refcount = [f \in Frames |-> IF f <= n THEN 1 ELSE 0] /\ n \in Nat
    BY Zenon, <1>1, <1>3
  <2> HIDE DEF n
  <2>2. /\ refcount \in [Frames -> Nat]
        /\ \A f \in Frames : f \in 1..n => refcount[f] = 1
        /\ \A f \in Frames : f \notin 1..n => refcount[f] = 0
    BY <2>1 DEF Frames
  <2> QED
    BY Zenon, <2>2 DEF n
<1>6. Once(F)
  <2>1. ASSUME NEW g \in Pages, NEW h \in Pages, F.pte[g].frame = F.pte[h].frame, F.pte[g].frame # NoFrame
        PROVE  g = h
    <3>1. Present(F, g) /\ Present(F, h)
      BY Zenon, <2>1 DEF Present
    <3>2. Image[F.pte[g].frame] = g /\ Image[F.pte[h].frame] = h
      BY Zenon, <1>2, <3>1
    <3> QED
      BY Zenon, <2>1, <3>2
  <2> QED
    BY Zenon, <2>1 DEF Once
<1>7. \A f \in Frames : refcount[f] = Share(F, f)
  <2>1. ASSUME NEW f \in Frames
        PROVE  Maps(F, f) <=> f \in 1..Len(Image)
    <3>1. f # NoFrame
      BY SpacesAssumption DEF Frames, NoFrame
    <3> QED
      BY Zenon, <1>2, <3>1 DEF Maps, Present
  <2> QED
    BY Zenon, <1>5, <2>1 DEF Share
<1>8. Sole(F, refcount)
  BY Zenon, <1>2, <1>5 DEF Sole
<1>9. Balanced({F}, refcount, table_frames)
  BY Zenon, <1>1, <1>2, <1>5, <1>6, <1>7, <1>8, BalancedOne
<1>10. Room(refcount, table_frames)
  <2>1. InUse(refcount) = 1..Len(Image)
    <3>1. ASSUME NEW f \in Frames
          PROVE  refcount[f] > 0 <=> f \in 1..Len(Image)
      <4>1. 1 > 0 /\ ~(0 > 0)
        OBVIOUS
      <4> QED
        BY Zenon, <1>5, <4>1
    <3> QED
      BY Zenon, <1>2, <3>1 DEF InUse
  <2>2. Cardinality(1..Len(Image)) = Len(Image)
    <3>1. PICK n \in Nat : n = Len(Image)
      BY Zenon, <1>3
    <3>2. Cardinality(1..n) = n
      BY FS_Interval
    <3> QED
      BY Zenon, <3>1, <3>2
  <2>3. Cardinality(InUse(refcount)) = Len(Image)
    BY Zenon, <2>1, <2>2
  <2>4. Cardinality(ImageTables) \in Nat
    <3>1. IsFiniteSet(F.tables) /\ Cardinality(F.tables) \in Nat
      BY Zenon, <1>2, TableUsesCount
    <3> QED
      BY Zenon, <1>2, <3>1
  <2> QED
    BY Zenon, <1>1, <1>3, <2>3, <2>4, FirstFits, SpacesAssumption DEF Room
<1>11. F # NoSpace /\ op.new = NoSpace /\ UnderAt(op, space)
  BY Zenon, <1>1, <1>2, NoSpaceApart, UnderNoOp
<1>12. space[1] = F /\ \A p \in Procs : p # 1 => space[p] = NoSpace
  BY Zenon, <1>1, <1>4
<1>13. Owners(space, dead, lost, op.new)
  BY Zenon, <1>1, <1>2, <1>11 DEF Owners
<1>14. ApartOf(space, dead, lost, op.new)
  BY Zenon, <1>1, <1>4, <1>11, <1>12 DEF ApartOf
<1>15. AllSpaces(space, dead, lost, op.new) = {F}
  BY Zenon, <1>1, <1>4, <1>11, <1>12 DEF AllSpaces
<1>16. HeldAt(heap, regions)
  <2>1. /\ [start |-> 0, end |-> 0] \in Breaks /\ [start |-> 0, end |-> 0].start = 0
        /\ [start |-> 0, end |-> 0].end <= NPages + 1
    BY SpacesAssumption DEF Breaks
  <2>2. <<>> \in Seq(RegionSet)
    BY Zenon, EmptySeq
  <2>3. \A p \in Procs : heap[p] = [start |-> 0, end |-> 0]
    BY Zenon, <1>1
  <2>4. heap \in [Procs -> Breaks] /\ regions \in [Procs -> Seq(RegionSet)]
    BY Zenon, <1>1, <2>1, <2>2
  <2> QED
    BY Zenon, <2>1, <2>3, <2>4 DEF HeldAt
<1> QED
  BY Zenon, <1>9, <1>10, <1>11, <1>13, <1>14, <1>15, <1>16 DEF MemInv, SoundAt

-----------------------------------------------------------------------------
(* The theorems *)

\* Every action keeps the accounts, with no refcount at its limit and without execve.
LEMMA NextKeeps ==
  ASSUME "execve" \notin Workload, MemInv, Unsaturated, [Next]_vars
  PROVE  MemInv'
<1>1. CASE UNCHANGED vars
  BY Zenon, <1>1, MemSame DEF vars
<1>2. ASSUME NEW s \in dead, free_dead(s)
      PROVE  MemInv'
  BY Zenon, <1>2, FreeDeadKeeps
<1>3. ASSUME NEW p \in Procs, exit(p)
      PROVE  MemInv'
  BY Zenon, <1>3, DiesKeeps DEF exit
<1>4. ASSUME NEW p \in Procs, NEW g \in Pages, NEW v \in Values \ {0}, store(p, g, v)
      PROVE  MemInv'
  BY Zenon, <1>4, MemSame DEF store
<1>5. ASSUME NEW p \in Procs, NEW g \in Pages, NEW user \in BOOLEAN, page_fault(p, g, user)
      PROVE  MemInv'
  BY Zenon, <1>5, PageFaultKeeps
<1>6. ASSUME NEW p \in Procs, fork_begin(p)
      PROVE  MemInv'
  <2>1. "fork" \in {"fork", "exec"}
    BY Zenon
  <2> QED
    BY Zenon, <1>6, <2>1, BeginKeeps DEF fork_begin
<1>7. ASSUME NEW p \in Procs, fork_table(p)
      PROVE  MemInv'
  BY Zenon, <1>7, ForkTableKeeps
<1>8. ASSUME NEW p \in Procs, fork_end(p)
      PROVE  MemInv'
  BY Zenon, <1>8, ForkEndKeeps
<1>9. ASSUME NEW p \in Procs, NEW kind \in {"exec", "execve"}, exec_begin(p, kind)
      PROVE  MemInv'
  <2>1. kind \in Workload /\ Begin(p, kind)
    BY Zenon, <1>9 DEF exec_begin, Begin
  <2>2. kind \in {"fork", "exec"}
    BY Zenon, <2>1
  <2> QED
    BY Zenon, <2>1, <2>2, BeginKeeps
<1>10. ASSUME NEW p \in Procs, exec_page(p)
       PROVE  MemInv'
  BY Zenon, <1>10, ExecPageKeeps
<1>11. ASSUME NEW p \in Procs, exec_bad_elf(p)
       PROVE  MemInv'
  BY Zenon, <1>11, AbandonsKeeps DEF exec_bad_elf
<1>12. ASSUME NEW p \in Procs, exec_end(p)
       PROVE  MemInv'
  BY Zenon, <1>12, ExecEndKeeps
<1>13. ASSUME NEW p \in Procs, NEW b \in HeapPages, NEW g \in HeapPages, brk_begin(p, b, g + 1)
       PROVE  MemInv'
  BY Zenon, <1>13, BrkBeginKeeps
<1>14. ASSUME NEW p \in Procs, brk_page(p)
       PROVE  MemInv'
  BY Zenon, <1>14, BrkPageKeeps
<1>15. ASSUME NEW p \in Procs, NEW g \in HeapPages, brk_shrink(p, g)
       PROVE  MemInv'
  BY Zenon, <1>15, BrkShrinkKeeps
<1>16. ASSUME NEW p \in Procs, NEW g \in MmapPages, NEW n \in 1..MaxPages, mmap_begin(p, g, n)
       PROVE  MemInv'
  BY Zenon, <1>16, MmapBeginKeeps
<1>17. ASSUME NEW p \in Procs, mmap_page(p)
       PROVE  MemInv'
  BY Zenon, <1>17, MmapPageKeeps
<1>18. ASSUME NEW p \in Procs, NEW g \in MmapPages, NEW n \in 1..MaxPages, munmap(p, g, n)
       PROVE  MemInv'
  BY Zenon, <1>18, MunmapKeeps
<1>19. CASE Next
  BY ZenonT(40), <1>19, <1>2, <1>3, <1>4, <1>5, <1>6, <1>7, <1>8, <1>9, <1>10, <1>11, <1>12, <1>13, <1>14,
     <1>15, <1>16, <1>17, <1>18 DEF Next
<1> QED
  BY Zenon, <1>1, <1>19

\* The inductive invariant: every space has one owner, refcounts and table
\* frames are those of the spaces, and the calls that loop over pages have done
\* what their position says.
THEOREM MemInvariance ==
  ASSUME "execve" \notin Workload
  PROVE  Spec /\ []Unsaturated => []MemInv
<1>1. Init => MemInv
  BY Zenon, InitSound
<1>2. MemInv /\ Unsaturated /\ [Next]_vars => MemInv'
  BY Zenon, NextKeeps
<1> QED
  BY <1>1, <1>2, PTL DEF Spec

\* NoSpace maps nothing.
LEMMA NoSpaceIs ==
  /\ NoSpace.tables = {} /\ NoSpace.pml4 = 0
  /\ \A g \in Pages : NoSpace.pte[g].frame = NoFrame /\ ~NoSpace.pte[g].writable
  BY Zenon DEF NoSpace, EmptySpace, NoPte

\* The refcount of every frame is the number of leaves that map it, in the
\* spaces of all owners, and the table frames in use are those of these spaces,
\* as long as incref does not saturate and no program uses execve: fork, the
\* copy on a write fault, exec, brk, mmap, munmap, every rollback and the two
\* ways to free a space balance.
THEOREM RefcountsExact ==
  ASSUME "execve" \notin Workload
  PROVE  Spec /\ []Unsaturated => []RefcountIsExact
<1>1. ASSUME MemInv
      PROVE  RefcountIsExact
  <2> DEFINE R == AllSpaces(space, dead, lost, op.new)
  <2>1. Balanced(R, refcount, table_frames)
    BY Zenon, <1>1 DEF MemInv, SoundAt
  <2>2. R = Spaces \ {NoSpace}
    BY Zenon DEF AllSpaces, Spaces
  <2> HIDE DEF R
  <2>3. ASSUME NEW f \in Frames
        PROVE  Users(f) = UsersOf(R, f)
    <3>1. Uses(NoSpace, f) = {}
      <4>1. f # NoFrame
        BY SpacesAssumption DEF Frames, NoFrame
      <4> QED
        BY Zenon, <4>1, NoSpaceIs DEF Uses
    <3>2. Users(f) = UsersOf(Spaces, f)
      BY Zenon DEF Users, UsersOf, Uses
    <3> QED
      BY Zenon, <2>2, <3>1, <3>2 DEF UsersOf
  <2>4. UNION {{<<s.pml4, t>> : t \in s.tables} : s \in Spaces} = TablesOf(R)
    <3>1. TableUses(NoSpace) = {}
      BY Zenon, NoSpaceIs DEF TableUses
    <3>2. UNION {{<<s.pml4, t>> : t \in s.tables} : s \in Spaces} = TablesOf(Spaces)
      BY Zenon DEF TablesOf, TableUses
    <3> QED
      BY Zenon, <2>2, <3>1, <3>2 DEF TablesOf
  <2>5. \A f \in Frames : refcount[f] = Cardinality(Users(f))
    BY Zenon, <2>1, <2>3 DEF Balanced, Exact
  <2>6. table_frames = Cardinality(R) + Cardinality(TablesOf(R))
    BY Zenon, <2>1 DEF Balanced, Counted
  <2> QED
    BY Zenon, <2>2, <2>4, <2>5, <2>6 DEF RefcountIsExact
<1> QED
  BY <1>1, MemInvariance, PTL

\* Under the same conditions, a frame that a process can write to is mapped
\* nowhere else, not even by the half-built child of a fork in progress: what
\* copy_user_pages write-protects and handle_cow_fault copies is all there is.
THEOREM WritableIsPrivate ==
  ASSUME "execve" \notin Workload
  PROVE  Spec /\ []Unsaturated => []NoWritableSharing
<1>1. ASSUME MemInv
      PROVE  NoWritableSharing
  <2> DEFINE R == AllSpaces(space, dead, lost, op.new)
  <2>1. Balanced(R, refcount, table_frames)
    BY Zenon, <1>1 DEF MemInv, SoundAt
  <2>2. R = Spaces \ {NoSpace} /\ \A p \in Procs : space[p] \in Spaces
    BY Zenon DEF AllSpaces, Spaces
  <2>3. R \subseteq Space
    BY Zenon, <2>1 DEF Balanced, Kin
  <2> HIDE DEF R
  <2>4. ASSUME NEW p \in Procs, NEW g \in Pages, space[p].pte[g].writable,
               NEW s \in Spaces, NEW h \in Pages, s.pte[h].frame = space[p].pte[g].frame
        PROVE  s = space[p] /\ h = g
    <3>1. space[p] \in R /\ space[p] \in Space
      BY Zenon, <2>2, <2>3, <2>4, NoSpaceIs
    <3>2. space[p].pte[g].frame \in Frames
      BY Zenon, <2>4, <3>1, SpaceFields, PteFields
    <3>3. s # NoSpace
      <4>1. NoFrame \notin Frames
        BY SpacesAssumption DEF Frames, NoFrame
      <4> QED
        BY Zenon, <2>4, <3>2, <4>1, NoSpaceIs
    <3>4. s \in R
      BY Zenon, <2>2, <3>3
    <3>5. refcount[space[p].pte[g].frame] = 1
      BY Zenon, <2>1, <2>4, <3>1 DEF Balanced, Sole
    <3> QED
      BY SMTT(30), <2>1, <2>4, <3>1, <3>2, <3>4, <3>5, SoleUser
  <2> QED
    BY Zenon, <2>4 DEF NoWritableSharing
<1> QED
  BY <1>1, MemInvariance, PTL
=============================================================================
