---------------------------- MODULE FrameProofs -----------------------------
(***************************************************************************)
(* What the operations of memory/pmm.rs and memory/vmm.rs do to the frames *)
(* they touch, for any number of processes, frames, pages and tables.      *)
(*                                                                         *)
(* The invariant MemInv is about the set of all spaces there are, whoever  *)
(* owns them: counts and table frames balance against that set (Balanced), *)
(* each space in it has one owner (Owners, ApartOf), and the frames in use *)
(* never exceed the frames there are (Room), which is why the allocator's  *)
(* free frames are really unused.  Here every operation is shown to keep   *)
(* the balance; MemoryProofs shows that every action keeps the invariant.  *)
(***************************************************************************)
EXTENDS AddressSpaces, FiniteSetTheorems, SequenceTheorems, TLAPS

-----------------------------------------------------------------------------
(* Counting the users of a set of spaces *)

\* The leaves of s that map f, and those of a set of spaces; the tables alike
Maps(s, f) == \E g \in Pages : s.pte[g].frame = f
Share(s, f) == IF Maps(s, f) THEN 1 ELSE 0
Uses(s, f) == {<<s.pml4, g>> : g \in {h \in Pages : s.pte[h].frame = f}}
UsersOf(R, f) == UNION {Uses(s, f) : s \in R}
TableUses(s) == {<<s.pml4, t>> : t \in s.tables}
TablesOf(R) == UNION {TableUses(s) : s \in R}

\* A PML4 belongs to one space of R; a space maps no frame twice.
OneRoot(R) == \A s, t \in R : s.pml4 = t.pml4 => s = t
Once(s) == \A g, h \in Pages : s.pte[g].frame = s.pte[h].frame /\ s.pte[g].frame # NoFrame => g = h

\* A writable leaf is the only user of its frame.
Sole(s, rc) == \A g \in Pages : s.pte[g].writable => rc[s.pte[g].frame] = 1

\* The refcounts rc and the number n of table frames are those of the spaces R.
Kin(R) == R \subseteq Space /\ IsFiniteSet(R) /\ OneRoot(R) /\ \A s \in R : Once(s)
Exact(R, rc) == rc \in [Frames -> Nat] /\ \A f \in Frames : rc[f] = Cardinality(UsersOf(R, f))
Counted(R, n) == n = Cardinality(R) + Cardinality(TablesOf(R))
Balanced(R, rc, n) == Kin(R) /\ Exact(R, rc) /\ Counted(R, n) /\ \A s \in R : Sole(s, rc)

\* The data frames in use; with the table frames they are no more than there are.
InUse(rc) == {f \in Frames : rc[f] > 0}
Room(rc, n) == n + Cardinality(InUse(rc)) <= NFrames

\* The spaces of the processes sp, of the dead d, the lost l and the call's n
AllSpaces(sp, d, l, n) == ({sp[p] : p \in Procs} \cup d \cup l \cup {n}) \ {NoSpace}

\* Each is a space or none, and no space has two owners.
Owners(sp, d, l, n) ==
  /\ sp \in [Procs -> Space \cup {NoSpace}] /\ d \subseteq Space /\ l \subseteq Space
  /\ n \in Space \cup {NoSpace}
ApartOf(sp, d, l, n) ==
  /\ \A p, q \in Procs : p # q /\ sp[p] # NoSpace => sp[p] # sp[q]
  /\ \A p \in Procs : sp[p] # NoSpace => sp[p] \notin d /\ sp[p] \notin l /\ sp[p] # n
  /\ d \cap l = {} /\ n \notin d /\ n \notin l

\* The state sp2 of the processes is sp with t for p.
Only(sp, sp2, p, t) ==
  /\ sp2 \in [Procs -> Space \cup {NoSpace}] /\ sp2[p] = t
  /\ \A q \in Procs : q # p => sp2[q] = sp[q]

\* All spaces there are
Real == AllSpaces(space, dead, lost, op.new)

\* Every space has one owner, the counts are exact and the frames suffice.
SoundAt(sp, d, l, n, rc, tf) ==
  /\ Owners(sp, d, l, n) /\ ApartOf(sp, d, l, n)
  /\ Balanced(AllSpaces(sp, d, l, n), rc, tf) /\ Room(rc, tf)

\* Breaks and regions lie within the pages.
Breaks == [start : Nat, end : Nat]
RegionSet == {r \in [base : Pages, pages : Nat] : Region(r) \subseteq Pages}
HeldAt(hp, rg) ==
  /\ hp \in [Procs -> Breaks]
  /\ \A p \in Procs : hp[p].end <= NPages + 1 /\ (hp[p].start # 0 => hp[p].end >= 1)
  /\ rg \in [Procs -> Seq(RegionSet)]

\* How far the call in progress has come: fork's child has the parent's frames
\* in the tables copied so far, exec's new space the image pages before op.at,
\* grow and mmap are within their range and mmap's pages ahead are not mapped.
Calls == [kind : {"none", "fork", "exec", "grow", "mmap"}, proc : Nat, new : Space \cup {NoSpace},
          from : Nat, at : Nat, to : Nat]
Forking(o, sp) ==
  /\ o.at >= 1
  /\ \A t \in o.new.tables : t < o.at
  /\ \A g \in Pages : Present(o.new, g) =>
       o.new.pte[g].frame = sp[o.proc].pte[g].frame /\ TableOf[g] < o.at
Loading(o) ==
  /\ o.at >= 1
  /\ \A g \in Pages : Present(o.new, g) => \E i \in 1..Len(Image) : i < o.at /\ Image[i] = g
Growing(o) == o.at >= 1 /\ o.at <= o.to /\ o.to <= NPages + 1
Mapping(o, sp) ==
  /\ o.from \in Pages /\ o.from < o.to /\ o.to <= NPages + 1 /\ o.from <= o.at /\ o.at <= o.to
  /\ \A g \in Pages : o.at <= g /\ g < o.to => ~Present(sp[o.proc], g)
UnderAt(o, sp) ==
  /\ o \in Calls
  /\ o.kind # "none" => o.proc \in Procs /\ sp[o.proc] # NoSpace
  /\ o.new = NoSpace <=> o.kind \notin {"fork", "exec"}
  /\ o.kind = "fork" => Forking(o, sp)
  /\ o.kind = "exec" => Loading(o)
  /\ o.kind = "grow" => Growing(o)
  /\ o.kind = "mmap" => Mapping(o, sp)

\* The inductive invariant: spaces and counts, breaks and regions, and the call
\* in progress
MemInv ==
  /\ SoundAt(space, dead, lost, op.new, refcount, table_frames)
  /\ HeldAt(heap, regions)
  /\ UnderAt(op, space)

-----------------------------------------------------------------------------

\* Page tables, frames and pages are finitely many.
LEMMA FiniteStock ==
  /\ IsFiniteSet(Frames) /\ Cardinality(Frames) = NFrames
  /\ IsFiniteSet(Pages) /\ IsFiniteSet(Tables)
<1>1. NFrames \in Nat /\ NPages \in Nat
  BY Zenon, SpacesAssumption
<1>2. IsFiniteSet(1..NFrames) /\ Cardinality(1..NFrames) = NFrames
  BY <1>1, FS_Interval
<1>3. IsFiniteSet(Pages)
  BY <1>1, FS_Interval DEF Pages
<1>4. TableOf \in Surjection(Pages, Tables)
  <2>1. TableOf \in [Pages -> Nat \ {0}]
    BY Zenon, SpacesAssumption DEF Pages
  <2> QED
    BY Zenon, <2>1 DEF Surjection, Tables
<1>5. IsFiniteSet(Tables)
  BY Zenon, <1>3, <1>4, FS_Surjection
<1> QED
  BY Zenon, <1>2, <1>3, <1>5 DEF Frames

\* The fields of a space
LEMMA SpaceFields ==
  ASSUME NEW s \in Space
  PROVE  /\ s.pml4 \in Frames /\ s.tables \in SUBSET Tables /\ s.pte \in [Pages -> Pte]
         /\ s = [pml4 |-> s.pml4, tables |-> s.tables, pte |-> s.pte]
         /\ \A g \in Pages : s.pte[g] \in Pte
  BY Zenon DEF Space, Frames

\* The fields of a leaf: a frame, or none and then not writable
LEMMA PteFields ==
  ASSUME NEW e \in Pte
  PROVE  /\ e.frame \in Frames \cup {NoFrame} /\ e.writable \in BOOLEAN
         /\ e.frame = NoFrame => e = NoPte /\ ~e.writable
         /\ e.writable => e.frame \in Frames
<1>1. NoPte.frame = NoFrame /\ NoPte.writable = FALSE
  BY Zenon DEF NoPte
<1>2. CASE e \in [frame : Frames, writable : BOOLEAN]
  <2>1. e.frame \in Frames /\ e.writable \in BOOLEAN
    BY Zenon, <1>2
  <2>2. NoFrame \notin Frames
    BY SpacesAssumption DEF Frames, NoFrame
  <2> QED
    BY Zenon, <2>1, <2>2
<1>3. CASE e = NoPte
  BY Zenon, <1>1, <1>3
<1> QED
  BY Zenon, <1>2, <1>3 DEF Pte

\* A space that maps no frame twice has one leaf for a frame or none.
LEMMA UsesCount ==
  ASSUME NEW s \in Space, Once(s), NEW f \in Frames
  PROVE  IsFiniteSet(Uses(s, f)) /\ Cardinality(Uses(s, f)) = Share(s, f)
<1>1. f # NoFrame
  BY SpacesAssumption DEF Frames, NoFrame
<1>2. CASE Maps(s, f)
  <2>1. PICK g \in Pages : s.pte[g].frame = f
    BY Zenon, <1>2 DEF Maps
  <2>2. {h \in Pages : s.pte[h].frame = f} = {g}
    BY Zenon, <2>1, <1>1 DEF Once
  <2>3. Uses(s, f) = {<<s.pml4, g>>}
    BY Zenon, <2>2 DEF Uses
  <2> QED
    BY Zenon, <2>3, <1>2, FS_Singleton DEF Share
<1>3. CASE ~Maps(s, f)
  <2>1. Uses(s, f) = {}
    BY Zenon, <1>3 DEF Uses, Maps
  <2> QED
    BY Zenon, <2>1, <1>3, FS_EmptySet DEF Share
<1> QED
  BY Zenon, <1>2, <1>3

\* The users of f among spaces are finitely many.
LEMMA UsersFinite ==
  ASSUME NEW R, R \subseteq Space, NEW f
  PROVE  IsFiniteSet(UsersOf(R, f)) /\ UsersOf(R, f) \in SUBSET (Frames \X Pages)
<1>1. ASSUME NEW s \in R
      PROVE  Uses(s, f) \subseteq Frames \X Pages
  <2>1. s.pml4 \in Frames
    BY Zenon, SpaceFields
  <2> QED
    BY <2>1 DEF Uses
<1>2. UsersOf(R, f) \in SUBSET (Frames \X Pages)
  BY Zenon, <1>1 DEF UsersOf
<1>3. IsFiniteSet(Frames \X Pages)
  BY Zenon, FiniteStock, FS_Product
<1> QED
  BY Zenon, <1>2, <1>3, FS_Subset

\* Two spaces with PML4s of their own have no user in common.
LEMMA UsesApart ==
  ASSUME NEW s, NEW t, s.pml4 # t.pml4, NEW f
  PROVE  Uses(s, f) \cap Uses(t, f) = {} /\ TableUses(s) \cap TableUses(t) = {}
  BY DEF Uses, TableUses

\* The users of f in R are those in the other spaces and in s.
LEMMA UsersCount ==
  ASSUME NEW R, Kin(R), NEW s \in R, NEW f \in Frames
  PROVE  /\ Cardinality(UsersOf(R, f)) = Cardinality(UsersOf(R \ {s}, f)) + Share(s, f)
         /\ Cardinality(UsersOf(R \ {s}, f)) \in Nat /\ Cardinality(UsersOf(R, f)) \in Nat
<1>1. R \subseteq Space /\ s \in Space /\ Once(s)
  BY Zenon DEF Kin
<1>2. UsersOf(R, f) = UsersOf(R \ {s}, f) \cup Uses(s, f)
  BY Zenon DEF UsersOf
<1>3. UsersOf(R \ {s}, f) \cap Uses(s, f) = {}
  <2>1. ASSUME NEW t \in R \ {s}
        PROVE  Uses(t, f) \cap Uses(s, f) = {}
    <3>1. t.pml4 # s.pml4
      BY Zenon DEF Kin, OneRoot
    <3> QED
      BY Zenon, <3>1, UsesApart
  <2> QED
    BY Zenon, <2>1 DEF UsersOf
<1>4. IsFiniteSet(UsersOf(R \ {s}, f)) /\ IsFiniteSet(UsersOf(R, f))
  <2>1. R \ {s} \subseteq Space
    BY Zenon, <1>1
  <2> QED
    BY Zenon, <1>1, <2>1, UsersFinite
<1>5. IsFiniteSet(Uses(s, f)) /\ Cardinality(Uses(s, f)) = Share(s, f)
  BY Zenon, <1>1, UsesCount
<1>6. Cardinality(UsersOf(R \ {s}, f) \cup Uses(s, f)) =
        Cardinality(UsersOf(R \ {s}, f)) + Cardinality(Uses(s, f))
          - Cardinality(UsersOf(R \ {s}, f) \cap Uses(s, f))
  BY Zenon, <1>4, <1>5, FS_Union
<1>7. Cardinality(UsersOf(R \ {s}, f) \cap Uses(s, f)) = 0
  BY Zenon, <1>3, FS_EmptySet
<1>8. Cardinality(UsersOf(R \ {s}, f)) \in Nat /\ Cardinality(UsersOf(R, f)) \in Nat
  BY Zenon, <1>4, FS_CardinalityType
<1>9. Share(s, f) \in Nat
  BY Zenon DEF Share
<1> QED
  BY <1>2, <1>5, <1>6, <1>7, <1>8, <1>9

\* A space has as many table users as tables.
LEMMA TableUsesCount ==
  ASSUME NEW s \in Space
  PROVE  /\ IsFiniteSet(TableUses(s)) /\ Cardinality(TableUses(s)) = Cardinality(s.tables)
         /\ IsFiniteSet(s.tables) /\ Cardinality(s.tables) \in Nat
<1> DEFINE F == [t \in s.tables |-> <<s.pml4, t>>]
<1>1. IsFiniteSet(s.tables)
  BY Zenon, SpaceFields, FiniteStock, FS_Subset
<1>2. F \in Bijection(s.tables, TableUses(s))
  BY Zenon DEF Bijection, Injection, Surjection, IsInjective, TableUses
<1>3. ExistsBijection(s.tables, TableUses(s))
  BY Zenon, <1>2 DEF ExistsBijection
<1> QED
  BY Zenon, <1>1, <1>3, FS_Bijection, FS_CardinalityType

\* The tables of R are finitely many.
LEMMA TablesFinite ==
  ASSUME NEW R, R \subseteq Space
  PROVE  IsFiniteSet(TablesOf(R))
<1>1. ASSUME NEW s \in R
      PROVE  TableUses(s) \subseteq Frames \X Tables
  <2>1. s.pml4 \in Frames /\ s.tables \subseteq Tables
    BY Zenon, SpaceFields
  <2> QED
    BY <2>1 DEF TableUses
<1>2. TablesOf(R) \in SUBSET (Frames \X Tables)
  BY Zenon, <1>1 DEF TablesOf
<1>3. IsFiniteSet(Frames \X Tables)
  BY Zenon, FiniteStock, FS_Product
<1> QED
  BY Zenon, <1>2, <1>3, FS_Subset

\* The tables of R are those of the other spaces and of s.
LEMMA TablesCount ==
  ASSUME NEW R, Kin(R), NEW s \in R
  PROVE  /\ Cardinality(TablesOf(R)) = Cardinality(TablesOf(R \ {s})) + Cardinality(s.tables)
         /\ Cardinality(R) = Cardinality(R \ {s}) + 1
         /\ Cardinality(TablesOf(R \ {s})) \in Nat /\ Cardinality(R \ {s}) \in Nat
         /\ Cardinality(s.tables) \in Nat
<1>1. R \subseteq Space /\ s \in Space
  BY Zenon DEF Kin
<1>2. TablesOf(R) = TablesOf(R \ {s}) \cup TableUses(s)
  BY Zenon DEF TablesOf
<1>3. TablesOf(R \ {s}) \cap TableUses(s) = {}
  <2>1. ASSUME NEW t \in R \ {s}
        PROVE  TableUses(t) \cap TableUses(s) = {}
    <3>1. t.pml4 # s.pml4
      BY Zenon DEF Kin, OneRoot
    <3> QED
      BY Zenon, <3>1, UsesApart
  <2> QED
    BY Zenon, <2>1 DEF TablesOf
<1>4. IsFiniteSet(TablesOf(R \ {s})) /\ IsFiniteSet(R) /\ IsFiniteSet(R \ {s})
  <2>1. R \ {s} \subseteq Space
    BY Zenon, <1>1
  <2> QED
    BY Zenon, <2>1, TablesFinite, FS_RemoveElement DEF Kin
<1>5. /\ IsFiniteSet(TableUses(s)) /\ Cardinality(TableUses(s)) = Cardinality(s.tables)
      /\ Cardinality(s.tables) \in Nat
  BY Zenon, <1>1, TableUsesCount
<1>6. Cardinality(TablesOf(R \ {s}) \cup TableUses(s)) =
        Cardinality(TablesOf(R \ {s})) + Cardinality(TableUses(s))
          - Cardinality(TablesOf(R \ {s}) \cap TableUses(s))
  BY Zenon, <1>4, <1>5, FS_Union
<1>7. Cardinality(TablesOf(R \ {s}) \cap TableUses(s)) = 0
  BY Zenon, <1>3, FS_EmptySet
<1>8. Cardinality(TablesOf(R \ {s})) \in Nat /\ Cardinality(R) \in Nat /\ Cardinality(R \ {s}) \in Nat
  BY Zenon, <1>4, FS_CardinalityType
<1>9. Cardinality(R \ {s}) = Cardinality(R) - 1
  BY Zenon, <1>4, FS_RemoveElement
<1> QED
  BY <1>2, <1>5, <1>6, <1>7, <1>8, <1>9

\* R with t in the place of s
Swap(R, s, t) == (R \ {s}) \cup {t}

\* A space gives way to one with the same PML4.
LEMMA KinSwap ==
  ASSUME NEW R, Kin(R), NEW s \in R, NEW t \in Space, t.pml4 = s.pml4, Once(t)
  PROVE  Kin(Swap(R, s, t)) /\ Swap(R, s, t) \ {t} = R \ {s} /\ t \in Swap(R, s, t)
<1>1. ASSUME NEW u \in R \ {s}
      PROVE  u.pml4 # t.pml4
  BY Zenon DEF Kin, OneRoot
<1>2. IsFiniteSet(Swap(R, s, t))
  BY Zenon, FS_RemoveElement, FS_AddElement DEF Kin, Swap
<1>3. OneRoot(Swap(R, s, t))
  BY Zenon, <1>1 DEF Kin, OneRoot, Swap
<1>4. t \notin R \ {s}
  BY Zenon, <1>1
<1> QED
  BY Zenon, <1>2, <1>3, <1>4 DEF Kin, Swap

\* A space goes.
LEMMA KinDrop ==
  ASSUME NEW R, Kin(R), NEW s \in R
  PROVE  Kin(R \ {s})
<1>1. IsFiniteSet(R \ {s})
  BY Zenon, FS_RemoveElement DEF Kin
<1> QED
  BY Zenon, <1>1 DEF Kin, OneRoot

\* A space with a PML4 of its own comes.
LEMMA KinAdd ==
  ASSUME NEW R, Kin(R), NEW t \in Space, \A s \in R : s.pml4 # t.pml4, Once(t)
  PROVE  Kin(R \cup {t}) /\ (R \cup {t}) \ {t} = R
<1>1. IsFiniteSet(R \cup {t})
  BY Zenon, FS_AddElement DEF Kin
<1>2. t \notin R
  BY Zenon
<1> QED
  BY Zenon, <1>1, <1>2 DEF Kin, OneRoot

\* Refcounts that follow what one space gives up and takes
LEMMA BalancedSwap ==
  ASSUME NEW R, NEW rc, NEW n, Balanced(R, rc, n), NEW s \in R,
         NEW t \in Space, t.pml4 = s.pml4, Once(t),
         NEW rc2 \in [Frames -> Nat], \A f \in Frames : rc2[f] = rc[f] + Share(t, f) - Share(s, f),
         NEW m, m = n + Cardinality(t.tables) - Cardinality(s.tables),
         Sole(t, rc2), \A u \in R \ {s} : Sole(u, rc2)
  PROVE  Balanced(Swap(R, s, t), rc2, m)
<1> DEFINE Q == Swap(R, s, t)
<1>1. Kin(R) /\ Exact(R, rc) /\ Counted(R, n)
  BY Zenon DEF Balanced
<1>2. Kin(Q) /\ Q \ {t} = R \ {s} /\ t \in Q
  BY Zenon, <1>1, KinSwap
<1> HIDE DEF Q
<1>3. ASSUME NEW f \in Frames
      PROVE  rc2[f] = Cardinality(UsersOf(Q, f))
  <2>1. /\ Cardinality(UsersOf(R, f)) = Cardinality(UsersOf(R \ {s}, f)) + Share(s, f)
        /\ Cardinality(UsersOf(R \ {s}, f)) \in Nat
    BY Zenon, <1>1, UsersCount
  <2> DEFINE rest == Q \ {t}
  <2>0. Cardinality(UsersOf(Q, f)) = Cardinality(UsersOf(rest, f)) + Share(t, f)
    BY Zenon, <1>2, UsersCount
  <2>2. Cardinality(UsersOf(Q, f)) = Cardinality(UsersOf(R \ {s}, f)) + Share(t, f)
    BY Zenon, <1>2, <2>0
  <2>3. rc[f] = Cardinality(UsersOf(R, f)) /\ rc2[f] = rc[f] + Share(t, f) - Share(s, f)
    BY Zenon, <1>1 DEF Exact
  <2>4. Share(s, f) \in Nat /\ Share(t, f) \in Nat
    BY Zenon DEF Share
  <2> QED
    BY <2>1, <2>2, <2>3, <2>4
<1>4. Counted(Q, m)
  <2>1. /\ Cardinality(TablesOf(R)) = Cardinality(TablesOf(R \ {s})) + Cardinality(s.tables)
        /\ Cardinality(R) = Cardinality(R \ {s}) + 1
        /\ Cardinality(TablesOf(R \ {s})) \in Nat /\ Cardinality(R \ {s}) \in Nat
        /\ Cardinality(s.tables) \in Nat
    BY Zenon, <1>1, TablesCount
  <2> DEFINE rest == Q \ {t}
  <2>0. /\ Cardinality(TablesOf(Q)) = Cardinality(TablesOf(rest)) + Cardinality(t.tables)
        /\ Cardinality(Q) = Cardinality(rest) + 1
        /\ Cardinality(t.tables) \in Nat
    BY Zenon, <1>2, TablesCount
  <2>2. /\ Cardinality(TablesOf(Q)) = Cardinality(TablesOf(R \ {s})) + Cardinality(t.tables)
        /\ Cardinality(Q) = Cardinality(R \ {s}) + 1
        /\ Cardinality(t.tables) \in Nat
    BY Zenon, <1>2, <2>0
  <2>3. n = Cardinality(R) + Cardinality(TablesOf(R))
    BY Zenon, <1>1 DEF Counted
  <2> QED
    BY <2>1, <2>2, <2>3 DEF Counted
<1>5. \A u \in Q : Sole(u, rc2)
  BY Zenon DEF Q, Swap
<1>6. Exact(Q, rc2)
  BY Zenon, <1>3 DEF Exact
<1> QED
  BY Zenon, <1>2, <1>4, <1>5, <1>6 DEF Balanced, Q

\* A space that maps nothing goes.
LEMMA BalancedDrop ==
  ASSUME NEW R, NEW rc, NEW n, Balanced(R, rc, n), NEW s \in R,
         NEW rc2 \in [Frames -> Nat], \A f \in Frames : rc2[f] = rc[f] - Share(s, f),
         NEW m, m = n - Cardinality(s.tables) - 1,
         \A u \in R \ {s} : Sole(u, rc2)
  PROVE  Balanced(R \ {s}, rc2, m)
<1>1. Kin(R) /\ Exact(R, rc) /\ Counted(R, n)
  BY Zenon DEF Balanced
<1>2. Kin(R \ {s})
  BY Zenon, <1>1, KinDrop
<1>3. ASSUME NEW f \in Frames
      PROVE  rc2[f] = Cardinality(UsersOf(R \ {s}, f))
  <2>1. /\ Cardinality(UsersOf(R, f)) = Cardinality(UsersOf(R \ {s}, f)) + Share(s, f)
        /\ Cardinality(UsersOf(R \ {s}, f)) \in Nat
    BY Zenon, <1>1, UsersCount
  <2>2. rc[f] = Cardinality(UsersOf(R, f)) /\ rc2[f] = rc[f] - Share(s, f)
    BY Zenon, <1>1 DEF Exact
  <2>3. Share(s, f) \in Nat
    BY Zenon DEF Share
  <2> QED
    BY <2>1, <2>2, <2>3
<1>4. Counted(R \ {s}, m)
  <2>1. /\ Cardinality(TablesOf(R)) = Cardinality(TablesOf(R \ {s})) + Cardinality(s.tables)
        /\ Cardinality(R) = Cardinality(R \ {s}) + 1
        /\ Cardinality(TablesOf(R \ {s})) \in Nat /\ Cardinality(R \ {s}) \in Nat
        /\ Cardinality(s.tables) \in Nat
    BY Zenon, <1>1, TablesCount
  <2>2. n = Cardinality(R) + Cardinality(TablesOf(R))
    BY Zenon, <1>1 DEF Counted
  <2> QED
    BY <2>1, <2>2 DEF Counted
<1>5. Exact(R \ {s}, rc2)
  BY Zenon, <1>3 DEF Exact
<1> QED
  BY Zenon, <1>2, <1>4, <1>5 DEF Balanced

\* create_user_pml4: a space that maps nothing comes.
LEMMA BalancedAdd ==
  ASSUME NEW R, NEW rc, NEW n, Balanced(R, rc, n),
         NEW t \in Space, \A s \in R : s.pml4 # t.pml4,
         \A g \in Pages : ~Present(t, g), t.tables = {}
  PROVE  Balanced(R \cup {t}, rc, n + 1)
<1> DEFINE Q == R \cup {t}
<1>1. Kin(R) /\ Exact(R, rc) /\ Counted(R, n)
  BY Zenon DEF Balanced
<1>2. Once(t)
  BY Zenon DEF Once, Present
<1>3. Kin(Q) /\ Q \ {t} = R /\ t \in Q
  BY Zenon, <1>1, <1>2, KinAdd
<1> HIDE DEF Q
<1>4. ASSUME NEW f \in Frames
      PROVE  rc[f] = Cardinality(UsersOf(Q, f))
  <2>1. /\ Cardinality(UsersOf(Q, f)) = Cardinality(UsersOf(R, f)) + Share(t, f)
        /\ Cardinality(UsersOf(R, f)) \in Nat
    BY Zenon, <1>3, UsersCount
  <2>2. rc[f] = Cardinality(UsersOf(R, f))
    BY Zenon, <1>1 DEF Exact
  <2>3. f # NoFrame
    BY SpacesAssumption DEF Frames, NoFrame
  <2>4. Share(t, f) = 0
    BY Zenon, <2>3 DEF Share, Maps, Present
  <2> QED
    BY <2>1, <2>2, <2>4
<1>5. Counted(Q, n + 1)
  <2>1. /\ Cardinality(TablesOf(Q)) = Cardinality(TablesOf(R)) + Cardinality(t.tables)
        /\ Cardinality(Q) = Cardinality(R) + 1
        /\ Cardinality(TablesOf(R)) \in Nat /\ Cardinality(R) \in Nat
    BY Zenon, <1>3, TablesCount
  <2>2. Cardinality(t.tables) = 0
    BY Zenon, FS_EmptySet
  <2>3. n = Cardinality(R) + Cardinality(TablesOf(R))
    BY Zenon, <1>1 DEF Counted
  <2> QED
    BY <2>1, <2>2, <2>3 DEF Counted
<1>6. Sole(t, rc)
  <2>1. ASSUME NEW g \in Pages
        PROVE  ~t.pte[g].writable
    BY Zenon, SpaceFields, PteFields DEF Present
  <2> QED
    BY Zenon, <2>1 DEF Sole
<1>7. \A u \in Q : Sole(u, rc)
  BY Zenon, <1>6 DEF Q, Balanced
<1>8. Exact(Q, rc)
  BY Zenon, <1>1, <1>4 DEF Exact
<1> QED
  BY Zenon, <1>3, <1>5, <1>7, <1>8 DEF Balanced, Q

\* A frame that a space maps has a reference.
LEMMA MappedIsCounted ==
  ASSUME NEW R, NEW rc, NEW n, Balanced(R, rc, n), NEW s \in R, NEW f \in Frames, Maps(s, f)
  PROVE  rc[f] \in Nat /\ rc[f] >= 1
<1>1. Kin(R) /\ rc[f] = Cardinality(UsersOf(R, f))
  BY Zenon DEF Balanced, Exact
<1>2. /\ Cardinality(UsersOf(R, f)) = Cardinality(UsersOf(R \ {s}, f)) + Share(s, f)
      /\ Cardinality(UsersOf(R \ {s}, f)) \in Nat
  BY Zenon, <1>1, UsersCount
<1>3. Share(s, f) = 1
  BY Zenon DEF Share
<1> QED
  BY <1>1, <1>2, <1>3

\* A frame with one reference is mapped by one leaf.
LEMMA SoleUser ==
  ASSUME NEW R, NEW rc, NEW n, Balanced(R, rc, n), NEW s \in R, NEW u \in R,
         NEW g \in Pages, NEW h \in Pages, s.pte[g].frame \in Frames,
         u.pte[h].frame = s.pte[g].frame, rc[s.pte[g].frame] = 1
  PROVE  u = s /\ h = g
<1> DEFINE f == s.pte[g].frame
<1>1. Kin(R) /\ Cardinality(UsersOf(R, f)) = 1
  BY Zenon DEF Balanced, Exact
<1>2. R \subseteq Space
  BY Zenon, <1>1 DEF Kin
<1>3. IsFiniteSet(UsersOf(R, f))
  BY Zenon, <1>2, UsersFinite
<1>4. PICK x : UsersOf(R, f) = {x}
  BY Zenon, <1>1, <1>3, FS_Singleton
<1>5. <<s.pml4, g>> \in Uses(s, f) /\ <<u.pml4, h>> \in Uses(u, f)
  BY Zenon DEF Uses
<1>6. <<s.pml4, g>> = x /\ <<u.pml4, h>> = x
  BY Zenon, <1>4, <1>5 DEF UsersOf
<1>7. s.pml4 = u.pml4 /\ g = h
  BY <1>6
<1> QED
  BY Zenon, <1>1, <1>7 DEF Kin, OneRoot

-----------------------------------------------------------------------------
(* What the operations on one space do to the balance *)

\* No frame is 0.
LEMMA NoFrameIsNone ==
  NoFrame \notin Frames
  BY SpacesAssumption DEF Frames, NoFrame

\* A free frame is mapped by no space.
LEMMA FreeIsUnmapped ==
  ASSUME NEW R, NEW rc, NEW n, Balanced(R, rc, n), NEW s \in R, NEW f \in Frames, rc[f] = 0
  PROVE  ~Maps(s, f)
<1>1. ASSUME Maps(s, f)
      PROVE  FALSE
  <2>1. rc[f] \in Nat /\ rc[f] >= 1
    BY Zenon, <1>1, MappedIsCounted
  <2> QED
    BY <2>1
<1> QED
  BY Zenon, <1>1

\* The frame of a writable leaf is a frame.
LEMMA WritableIsMapped ==
  ASSUME NEW s \in Space, NEW g \in Pages, s.pte[g].writable
  PROVE  s.pte[g].frame \in Frames
<1>1. s.pte[g] \in Pte
  BY Zenon, SpaceFields
<1> QED
  BY Zenon, <1>1, PteFields

\* Changes of flags only: handle_cow_fault with a single owner, the parent's
\* leaves in copy_user_pages.
LEMMA BalancedFlags ==
  ASSUME NEW R, NEW rc, NEW n, Balanced(R, rc, n), NEW s \in R, NEW t \in Space,
         t.pml4 = s.pml4, t.tables = s.tables,
         \A h \in Pages : t.pte[h].frame = s.pte[h].frame, Sole(t, rc)
  PROVE  Balanced(Swap(R, s, t), rc, n)
<1>1. Kin(R) /\ Exact(R, rc) /\ Counted(R, n) /\ s \in Space /\ Once(s) /\ rc \in [Frames -> Nat]
  BY Zenon DEF Balanced, Kin, Exact
<1>2. Once(t)
  BY Zenon, <1>1 DEF Once
<1>3. ASSUME NEW f \in Frames
      PROVE  rc[f] = rc[f] + Share(t, f) - Share(s, f)
  <2>1. Share(t, f) = Share(s, f)
    BY Zenon DEF Share, Maps
  <2>2. Share(s, f) \in Nat
    BY Zenon DEF Share
  <2>3. rc[f] \in Nat
    BY Zenon, <1>1
  <2> QED
    BY <2>1, <2>2, <2>3
<1>4. n = n + Cardinality(t.tables) - Cardinality(s.tables)
  <2>1. Cardinality(s.tables) \in Nat
    BY Zenon, <1>1, TableUsesCount
  <2>2. n = Cardinality(R) + Cardinality(TablesOf(R)) /\ Cardinality(R) \in Nat /\ Cardinality(TablesOf(R)) \in Nat
    BY Zenon, <1>1, TablesFinite, FS_CardinalityType DEF Counted, Kin
  <2>3. n \in Int
    BY <2>2
  <2>4. n = n + Cardinality(s.tables) - Cardinality(s.tables)
    BY <2>1, <2>3
  <2> QED
    BY Zenon, <2>4
<1>5. \A u \in R \ {s} : Sole(u, rc)
  BY Zenon DEF Balanced
<1> QED
  BY Zenon, <1>1, <1>2, <1>3, <1>4, <1>5, BalancedSwap

\* A page that was absent gets a free frame: map_page.
LEMMA BalancedMap ==
  ASSUME NEW R, NEW rc, NEW n, Balanced(R, rc, n), NEW s \in R, NEW t \in Space,
         NEW g \in Pages, ~Present(s, g), NEW a \in Frames, rc[a] = 0, t.pml4 = s.pml4,
         t.pte[g].frame = a, \A h \in Pages : h # g => t.pte[h] = s.pte[h],
         NEW m, m = n + Cardinality(t.tables) - Cardinality(s.tables)
  PROVE  Balanced(Swap(R, s, t), [rc EXCEPT ![a] = 1], m)
<1> DEFINE rc2 == [rc EXCEPT ![a] = 1]
<1>1. Kin(R) /\ s \in Space /\ Once(s) /\ rc \in [Frames -> Nat] /\ R \subseteq Space
  BY Zenon DEF Balanced, Kin, Exact
<1>2. rc2 \in [Frames -> Nat] /\ rc2[a] = 1 /\ \A f \in Frames : f # a => rc2[f] = rc[f]
  BY Zenon, <1>1
<1> HIDE DEF rc2
<1>3. \A u \in R : ~Maps(u, a)
  BY Zenon, FreeIsUnmapped
<1>4. Once(t)
  <2>1. ASSUME NEW h \in Pages, NEW k \in Pages, t.pte[h].frame = t.pte[k].frame, t.pte[h].frame # NoFrame
        PROVE  h = k
    <3>1. CASE h = g /\ k # g
      BY Zenon, <1>3, <2>1, <3>1 DEF Maps
    <3>2. CASE h # g /\ k = g
      BY Zenon, <1>3, <2>1, <3>2 DEF Maps
    <3>3. CASE h # g /\ k # g
      BY Zenon, <1>1, <2>1, <3>3 DEF Once
    <3> QED
      BY Zenon, <3>1, <3>2, <3>3
  <2> QED
    BY Zenon, <2>1 DEF Once
<1>5. ASSUME NEW f \in Frames
      PROVE  rc2[f] = rc[f] + Share(t, f) - Share(s, f)
  <2>1. CASE f = a
    <3>1. Share(t, f) = 1 /\ Share(s, f) = 0
      BY Zenon, <1>3, <2>1 DEF Share, Maps
    <3> QED
      BY <1>2, <2>1, <3>1
  <2>2. CASE f # a
    <3>1. Maps(t, f) <=> Maps(s, f)
      <4>1. s.pte[g].frame # f
        BY Zenon, NoFrameIsNone DEF Present
      <4> QED
        BY Zenon, <2>2, <4>1 DEF Maps
    <3>2. Share(t, f) = Share(s, f) /\ Share(s, f) \in Nat
      BY Zenon, <3>1 DEF Share
    <3>3. rc[f] \in Nat /\ rc2[f] = rc[f]
      BY Zenon, <1>1, <1>2, <2>2
    <3> QED
      BY <3>2, <3>3
  <2> QED
    BY Zenon, <2>1, <2>2
<1>6. ASSUME NEW u \in R, NEW h \in Pages, u.pte[h].writable
      PROVE  rc2[u.pte[h].frame] = 1
  <2>1. u.pte[h].frame \in Frames
    BY Zenon, <1>1, <1>6, WritableIsMapped
  <2>2. u.pte[h].frame # a
    BY Zenon, <1>3 DEF Maps
  <2>3. rc[u.pte[h].frame] = 1
    BY Zenon, <1>6 DEF Balanced, Sole
  <2> QED
    BY Zenon, <1>2, <2>1, <2>2, <2>3
<1>7. Sole(t, rc2)
  <2>1. ASSUME NEW h \in Pages, t.pte[h].writable
        PROVE  rc2[t.pte[h].frame] = 1
    <3>1. CASE h = g
      BY Zenon, <1>2, <3>1
    <3>2. CASE h # g
      <4>1. t.pte[h] = s.pte[h] /\ s.pte[h].writable
        BY Zenon, <2>1, <3>2
      <4>2. rc2[s.pte[h].frame] = 1
        BY Zenon, <1>6, <4>1
      <4> QED
        BY Zenon, <4>1, <4>2
    <3> QED
      BY Zenon, <3>1, <3>2
  <2> QED
    BY Zenon, <2>1 DEF Sole
<1>8. \A u \in R \ {s} : Sole(u, rc2)
  BY Zenon, <1>6 DEF Sole
<1>9. rc2 \in [Frames -> Nat]
  BY Zenon, <1>2
<1>10. Balanced(Swap(R, s, t), rc2, m)
  BY Zenon, <1>9, <1>4, <1>5, <1>7, <1>8, BalancedSwap
<1> QED
  BY Zenon, <1>10 DEF rc2

\* What s gives up with the pages S
GaveUp(s, S, rc, rc2) ==
  /\ rc2 \in [Frames -> Nat]
  /\ \A f \in Frames : f \in DataFrames(s, S) => rc2[f] = rc[f] - 1
  /\ \A f \in Frames : f \notin DataFrames(s, S) => rc2[f] = rc[f]

\* The frames of pages are data frames when they are frames.
LEMMA DataFramesOf ==
  ASSUME NEW s \in Space, NEW S \in SUBSET Pages, NEW f \in Frames
  PROVE  f \in DataFrames(s, S) <=> \E g \in S : s.pte[g].frame = f
  BY Zenon, NoFrameIsNone DEF DataFrames

\* decref of every frame that a space maps at the pages S
LEMMA DecrefGivesUp ==
  ASSUME NEW R, NEW rc, NEW n, Balanced(R, rc, n), NEW s \in R, NEW S \in SUBSET Pages
  PROVE  GaveUp(s, S, rc, decref(rc, DataFrames(s, S)))
<1>1. rc \in [Frames -> Nat] /\ s \in Space
  BY Zenon DEF Balanced, Kin, Exact
<1>2. ASSUME NEW f \in Frames, f \in DataFrames(s, S)
      PROVE  rc[f] \in Nat /\ rc[f] >= 1
  <2>1. Maps(s, f)
    BY Zenon, <1>1, <1>2, DataFramesOf DEF Maps
  <2> QED
    BY Zenon, <2>1, MappedIsCounted
<1> DEFINE D == DataFrames(s, S)
<1>3. \A f \in Frames : f \in D => rc[f] \in Nat /\ rc[f] >= 1
  BY Zenon, <1>2
<1> HIDE DEF D
<1>4. /\ decref(rc, D) \in [Frames -> Nat]
      /\ \A f \in Frames : f \in D => decref(rc, D)[f] = rc[f] - 1
      /\ \A f \in Frames : f \notin D => decref(rc, D)[f] = rc[f]
  BY <1>1, <1>3 DEF decref
<1> QED
  BY Zenon, <1>4 DEF D, GaveUp

\* The other spaces keep their writable leaves to themselves when s gives up pages.
LEMMA OthersSole ==
  ASSUME NEW R, NEW rc, NEW n, Balanced(R, rc, n), NEW s \in R, NEW S \in SUBSET Pages,
         NEW rc2, GaveUp(s, S, rc, rc2), NEW u \in R \ {s}
  PROVE  Sole(u, rc2)
<1>1. s \in Space /\ u \in Space
  BY Zenon DEF Balanced, Kin
<1>2. ASSUME NEW h \in Pages, u.pte[h].writable
      PROVE  rc2[u.pte[h].frame] = 1
  <2>1. u.pte[h].frame \in Frames
    BY Zenon, <1>1, <1>2, WritableIsMapped
  <2>2. rc[u.pte[h].frame] = 1
    BY Zenon, <1>2 DEF Balanced, Sole
  <2>3. ASSUME NEW g \in S, s.pte[g].frame = u.pte[h].frame
        PROVE  FALSE
    <3>1. g \in Pages
      BY Zenon
    <3>2. u \in R
      BY Zenon
    <3>3. s.pte[g].frame \in Frames /\ rc[s.pte[g].frame] = 1 /\ u.pte[h].frame = s.pte[g].frame
      BY Zenon, <2>1, <2>2, <2>3
    <3>4. u = s
      BY SMTT(30), <3>1, <3>2, <3>3, SoleUser
    <3> QED
      BY Zenon, <3>4
  <2>4. u.pte[h].frame \notin DataFrames(s, S)
    <3> DEFINE f == u.pte[h].frame
    <3>1. f \in DataFrames(s, S) <=> \E g \in S : s.pte[g].frame = f
      BY ZenonT(40), <1>1, <2>1, DataFramesOf
    <3> QED
      BY Zenon, <2>3, <3>1
  <2> QED
    BY Zenon, <2>1, <2>2, <2>4 DEF GaveUp
<1> QED
  BY Zenon, <1>2 DEF Sole

\* A space gives up the pages S: unmap_page with decref, the rollback of fork.
LEMMA BalancedUnmap ==
  ASSUME NEW R, NEW rc, NEW n, Balanced(R, rc, n), NEW s \in R, NEW t \in Space,
         NEW S \in SUBSET Pages, t.pml4 = s.pml4,
         \A h \in S : t.pte[h] = NoPte, \A h \in Pages : h \notin S => t.pte[h] = s.pte[h],
         NEW m, m = n + Cardinality(t.tables) - Cardinality(s.tables),
         NEW rc2, GaveUp(s, S, rc, rc2)
  PROVE  Balanced(Swap(R, s, t), rc2, m)
<1>1. Kin(R) /\ s \in Space /\ Once(s) /\ rc \in [Frames -> Nat] /\ R \subseteq Space
  BY Zenon DEF Balanced, Kin, Exact
<1>2. NoPte.frame = NoFrame /\ NoPte.writable = FALSE
  BY Zenon DEF NoPte
<1>3. Once(t)
  BY ZenonT(40), <1>1, <1>2 DEF Once
<1>4. ASSUME NEW f \in Frames
      PROVE  rc2[f] = rc[f] + Share(t, f) - Share(s, f)
  <2>0. rc[f] \in Nat
    BY Zenon, <1>1
  <2>1. CASE f \in DataFrames(s, S)
    <3>1. PICK g \in S : s.pte[g].frame = f
      BY Zenon, <1>1, <2>1, DataFramesOf
    <3>2. ASSUME NEW h \in Pages, t.pte[h].frame = f
          PROVE  FALSE
      <4>1. h \notin S
        BY Zenon, <1>2, <3>2, NoFrameIsNone
      <4>2. s.pte[h].frame = f
        BY Zenon, <3>2, <4>1
      <4>3. h = g
        BY Zenon, <1>1, <3>1, <4>2, NoFrameIsNone DEF Once
      <4> QED
        BY Zenon, <4>1, <4>3
    <3>3. Share(t, f) = 0 /\ Share(s, f) = 1
      BY Zenon, <3>1, <3>2 DEF Share, Maps
    <3>4. rc2[f] = rc[f] - 1
      BY Zenon, <2>1 DEF GaveUp
    <3> QED
      BY <2>0, <3>3, <3>4
  <2>2. CASE f \notin DataFrames(s, S)
    <3>1. \A h \in S : s.pte[h].frame # f /\ t.pte[h].frame # f
      BY Zenon, <1>1, <1>2, <2>2, DataFramesOf, NoFrameIsNone
    <3>2. Maps(t, f) <=> Maps(s, f)
      BY Zenon, <3>1 DEF Maps
    <3>3. Share(t, f) = Share(s, f) /\ Share(s, f) \in Nat
      BY Zenon, <3>2 DEF Share
    <3>4. rc2[f] = rc[f]
      BY Zenon, <2>2 DEF GaveUp
    <3> QED
      BY <2>0, <3>3, <3>4
  <2> QED
    BY Zenon, <2>1, <2>2
<1>5. Sole(t, rc2)
  <2>1. ASSUME NEW h \in Pages, t.pte[h].writable
        PROVE  rc2[t.pte[h].frame] = 1
    <3>1. h \notin S
      BY Zenon, <1>2, <2>1
    <3>2. t.pte[h] = s.pte[h] /\ s.pte[h].writable
      BY Zenon, <2>1, <3>1
    <3>3. s.pte[h].frame \in Frames
      BY Zenon, <1>1, <3>2, WritableIsMapped
    <3>4. rc[s.pte[h].frame] = 1
      BY Zenon, <3>2 DEF Balanced, Sole
    <3>5. s.pte[h].frame \notin DataFrames(s, S)
      <4>1. ASSUME NEW g \in S, s.pte[g].frame = s.pte[h].frame
            PROVE  FALSE
        BY Zenon, <1>1, <3>1, <3>3, <4>1, NoFrameIsNone DEF Once
      <4> QED
        BY ZenonT(40), <1>1, <3>3, <4>1, DataFramesOf
    <3> QED
      BY ZenonT(40), <3>2, <3>3, <3>4, <3>5 DEF GaveUp
  <2> QED
    BY Zenon, <2>1 DEF Sole
<1>6. \A u \in R \ {s} : Sole(u, rc2)
  BY Zenon, OthersSole
<1>7. rc2 \in [Frames -> Nat]
  BY Zenon DEF GaveUp
<1> QED
  BY Zenon, <1>3, <1>4, <1>5, <1>6, <1>7, BalancedSwap

\* free_user_address_space
LEMMA BalancedFree ==
  ASSUME NEW R, NEW rc, NEW n, Balanced(R, rc, n), NEW s \in R
  PROVE  Balanced(R \ {s}, decref(rc, DataFrames(s, Pages)), n - Cardinality(s.tables) - 1)
<1> DEFINE rc2 == decref(rc, DataFrames(s, Pages))
           m == n - Cardinality(s.tables) - 1
<1>1. s \in Space /\ rc \in [Frames -> Nat]
  BY Zenon DEF Balanced, Kin, Exact
<1>2. GaveUp(s, Pages, rc, rc2)
  BY Zenon, DecrefGivesUp
<1> HIDE DEF rc2, m
<1>3. ASSUME NEW f \in Frames
      PROVE  rc2[f] = rc[f] - Share(s, f)
  <2>0. rc[f] \in Nat
    BY Zenon, <1>1
  <2>1. CASE Maps(s, f)
    <3>1. f \in DataFrames(s, Pages)
      BY Zenon, <1>1, <2>1, DataFramesOf DEF Maps
    <3> QED
      BY Zenon, <1>2, <2>1, <3>1 DEF GaveUp, Share
  <2>2. CASE ~Maps(s, f)
    <3>1. f \notin DataFrames(s, Pages)
      BY Zenon, <1>1, <2>2, DataFramesOf DEF Maps
    <3>2. rc2[f] = rc[f] /\ Share(s, f) = 0
      BY Zenon, <1>2, <2>2, <3>1 DEF GaveUp, Share
    <3> QED
      BY <2>0, <3>2
  <2> QED
    BY Zenon, <2>1, <2>2
<1>4. \A u \in R \ {s} : Sole(u, rc2)
  BY Zenon, <1>2, OthersSole
<1>5. rc2 \in [Frames -> Nat]
  BY Zenon, <1>2 DEF GaveUp
<1>6. Balanced(R \ {s}, rc2, m)
  BY Zenon, <1>3, <1>4, <1>5, BalancedDrop DEF m
<1> QED
  BY Zenon, <1>6 DEF rc2, m

\* The table frames are counted by a natural number, one at least for every space.
LEMMA CountIsNat ==
  ASSUME NEW R, NEW rc, NEW n, Balanced(R, rc, n)
  PROVE  n \in Nat /\ Cardinality(R) \in Nat /\ Cardinality(R) <= n /\ IsFiniteSet(R)
<1>1. /\ n = Cardinality(R) + Cardinality(TablesOf(R))
      /\ Cardinality(R) \in Nat /\ Cardinality(TablesOf(R)) \in Nat /\ IsFiniteSet(R)
  BY Zenon, TablesFinite, FS_CardinalityType DEF Balanced, Counted, Kin
<1> QED
  BY <1>1

\* Two changes of one space are one.
LEMMA SwapTwice ==
  ASSUME NEW R, Kin(R), NEW s \in R, NEW u, u.pml4 = s.pml4, NEW t
  PROVE  Swap(Swap(R, s, u), u, t) = Swap(R, s, t)
<1>1. u \notin R \ {s}
  BY Zenon DEF Kin, OneRoot
<1> QED
  BY Zenon, <1>1 DEF Swap

\* handle_cow_fault of a shared page: s gives up the old frame and maps a copy.
LEMMA BalancedCopy ==
  ASSUME NEW R, NEW rc, NEW n, Balanced(R, rc, n), NEW s \in R, NEW t \in Space,
         NEW g \in Pages, NEW old \in Frames, s.pte[g].frame = old,
         NEW a \in Frames, rc[a] = 0, t.pml4 = s.pml4, t.tables = s.tables,
         t.pte[g].frame = a, \A h \in Pages : h # g => t.pte[h] = s.pte[h]
  PROVE  Balanced(Swap(R, s, t), decref([rc EXCEPT ![a] = 1], {old}), n)
<1> DEFINE u == [pml4 |-> s.pml4, tables |-> s.tables,
                 pte |-> [h \in Pages |-> IF h = g THEN NoPte ELSE s.pte[h]]]
           rc1 == decref(rc, {old})
<1>1. Kin(R) /\ s \in Space /\ rc \in [Frames -> Nat] /\ Cardinality(s.tables) \in Nat /\ n \in Nat
  BY Zenon, CountIsNat, TableUsesCount DEF Balanced, Kin, Exact
<1>2. /\ u \in Space /\ u.pml4 = s.pml4 /\ u.tables = s.tables
      /\ \A h \in Pages : u.pte[h] = IF h = g THEN NoPte ELSE s.pte[h]
  <2>1. NoPte \in Pte
    BY Zenon DEF Pte
  <2>2. s.pml4 \in Frames /\ s.tables \in SUBSET Tables /\ \A h \in Pages : s.pte[h] \in Pte
    BY Zenon, <1>1, SpaceFields
  <2> QED
    BY Zenon, <2>1, <2>2 DEF Space, Frames
<1>3. DataFrames(s, {g}) = {old} /\ {g} \in SUBSET Pages
  <2>1. old # NoFrame
    BY Zenon, NoFrameIsNone
  <2> QED
    BY Zenon, <2>1 DEF DataFrames
<1>4. GaveUp(s, {g}, rc, rc1)
  BY Zenon, <1>3, DecrefGivesUp
<1>5. old # a
  <2>1. ~Maps(s, a)
    BY Zenon, FreeIsUnmapped
  <2> QED
    BY Zenon, <2>1 DEF Maps
<1>6. rc1[a] = 0 /\ [rc1 EXCEPT ![a] = 1] = decref([rc EXCEPT ![a] = 1], {old})
  BY Zenon, <1>1, <1>5 DEF decref
<1>7. n = n + Cardinality(s.tables) - Cardinality(s.tables)
  BY <1>1
<1>8. u.pml4 = s.pml4 /\ u.tables = s.tables /\ u.pte[g] = NoPte /\ \A h \in Pages : h # g => u.pte[h] = s.pte[h]
  BY Zenon, <1>2
<1>9. NoPte.frame = NoFrame
  BY Zenon DEF NoPte
<1> HIDE DEF u, rc1
<1>10. Balanced(Swap(R, s, u), rc1, n)
  <2>1. \A h \in {g} : u.pte[h] = NoPte
    BY Zenon, <1>8
  <2>2. \A h \in Pages : h \notin {g} => u.pte[h] = s.pte[h]
    BY Zenon, <1>8
  <2>3. n = n + Cardinality(u.tables) - Cardinality(s.tables)
    BY Zenon, <1>7, <1>8
  <2>4. u \in Space /\ u.pml4 = s.pml4
    BY Zenon, <1>2
  <2> QED
    BY Zenon, <1>3, <1>4, <2>1, <2>2, <2>3, <2>4, BalancedUnmap
<1>11. Balanced(Swap(Swap(R, s, u), u, t), [rc1 EXCEPT ![a] = 1], n)
  <2> DEFINE Q == Swap(R, s, u)
  <2>1. u \in Q
    BY Zenon DEF Swap
  <2> HIDE DEF Q
  <2>2. ~Present(u, g)
    BY Zenon, <1>8, <1>9 DEF Present
  <2>3. \A h \in Pages : h # g => t.pte[h] = u.pte[h]
    BY Zenon, <1>8
  <2>4. n = n + Cardinality(t.tables) - Cardinality(u.tables)
    BY Zenon, <1>7, <1>8
  <2>5. t.pml4 = u.pml4 /\ Balanced(Q, rc1, n) /\ rc1[a] = 0
    BY Zenon, <1>6, <1>8, <1>10 DEF Q
  <2>6. Balanced(Swap(Q, u, t), [rc1 EXCEPT ![a] = 1], n)
    BY Zenon, <2>1, <2>2, <2>3, <2>4, <2>5, BalancedMap
  <2> QED
    BY Zenon, <2>6 DEF Q
<1>12. Swap(Swap(R, s, u), u, t) = Swap(R, s, t)
  <2>1. Kin(R) /\ u.pml4 = s.pml4
    BY Zenon, <1>1, <1>8
  <2> QED
    BY SMTT(30), <2>1, SwapTwice
<1> QED
  BY Zenon, <1>6, <1>11, <1>12

\* Refcounts after one more reference to the frames that s maps at the pages S
GotMore(s, S, rc, rc2) ==
  /\ rc2 \in [Frames -> Nat]
  /\ \A f \in Frames : f \in DataFrames(s, S) => rc2[f] = rc[f] + 1
  /\ \A f \in Frames : f \notin DataFrames(s, S) => rc2[f] = rc[f]

\* copy_user_pages of one table: the child c takes the leaves of its parent s
\* at the pages S, none of them writable.
LEMMA BalancedShare ==
  ASSUME NEW R, NEW rc, NEW n, Balanced(R, rc, n), NEW s \in R, NEW c \in R, NEW t \in Space,
         NEW S \in SUBSET Pages, t.pml4 = c.pml4,
         \A h \in S : Present(s, h) /\ ~Present(c, h) /\ ~s.pte[h].writable /\ t.pte[h] = s.pte[h],
         \A h \in Pages : h \notin S => t.pte[h] = c.pte[h],
         \A h \in Pages : Present(c, h) => c.pte[h].frame = s.pte[h].frame,
         NEW m, m = n + Cardinality(t.tables) - Cardinality(c.tables),
         NEW rc2, GotMore(s, S, rc, rc2)
  PROVE  Balanced(Swap(R, c, t), rc2, m)
<1>1. s \in Space /\ c \in Space /\ Once(s) /\ rc \in [Frames -> Nat] /\ R \subseteq Space
  BY Zenon DEF Balanced, Kin, Exact
<1>2. ASSUME NEW h \in Pages, t.pte[h].frame # NoFrame
      PROVE  t.pte[h].frame = s.pte[h].frame
  <2>1. CASE h \in S
    BY Zenon, <2>1
  <2>2. CASE h \notin S
    BY Zenon, <1>2, <2>2 DEF Present
  <2> QED
    BY Zenon, <2>1, <2>2
<1>3. Once(t)
  BY ZenonT(40), <1>1, <1>2 DEF Once
<1>4. ASSUME NEW f \in Frames, NEW h \in Pages, c.pte[h].frame = f
      PROVE  f \notin DataFrames(s, S) /\ h \notin S
  <2>1. f # NoFrame
    BY Zenon, NoFrameIsNone
  <2>2. Present(c, h)
    BY Zenon, <1>4, <2>1 DEF Present
  <2>3. s.pte[h].frame = f /\ h \notin S
    BY Zenon, <1>4, <2>2
  <2>4. ASSUME NEW k \in S, s.pte[k].frame = f
        PROVE  FALSE
    BY Zenon, <1>1, <2>1, <2>3, <2>4 DEF Once
  <2>5. f \in DataFrames(s, S) <=> \E k \in S : s.pte[k].frame = f
    BY ZenonT(40), <1>1, DataFramesOf
  <2> QED
    BY Zenon, <2>3, <2>4, <2>5
<1>5. ASSUME NEW f \in Frames
      PROVE  rc2[f] = rc[f] + Share(t, f) - Share(c, f)
  <2>0. rc[f] \in Nat
    BY Zenon, <1>1
  <2>1. CASE f \in DataFrames(s, S)
    <3>1. PICK k \in S : s.pte[k].frame = f
      BY ZenonT(40), <1>1, <2>1, DataFramesOf
    <3>2. k \in Pages /\ t.pte[k].frame = f
      BY Zenon, <3>1
    <3>3. Share(t, f) = 1 /\ Share(c, f) = 0
      BY Zenon, <1>4, <2>1, <3>2 DEF Share, Maps
    <3>4. rc2[f] = rc[f] + 1
      BY Zenon, <2>1 DEF GotMore
    <3> QED
      BY <2>0, <3>3, <3>4
  <2>2. CASE f \notin DataFrames(s, S)
    <3>1. \A h \in S : s.pte[h].frame # f
      BY Zenon, <1>1, <2>2, DataFramesOf
    <3>2. \A h \in S : t.pte[h].frame # f /\ c.pte[h].frame # f
      BY Zenon, <1>4, <3>1
    <3>3. Maps(t, f) <=> Maps(c, f)
      BY Zenon, <3>2 DEF Maps
    <3>4. Share(t, f) = Share(c, f) /\ Share(c, f) \in Nat
      BY Zenon, <3>3 DEF Share
    <3>5. rc2[f] = rc[f]
      BY Zenon, <2>2 DEF GotMore
    <3> QED
      BY <2>0, <3>4, <3>5
  <2> QED
    BY Zenon, <2>1, <2>2
<1>6. Sole(t, rc2)
  <2>1. ASSUME NEW h \in Pages, t.pte[h].writable
        PROVE  rc2[t.pte[h].frame] = 1
    <3>1. h \notin S
      BY Zenon, <2>1
    <3>2. t.pte[h] = c.pte[h] /\ c.pte[h].writable
      BY Zenon, <2>1, <3>1
    <3>3. c.pte[h].frame \in Frames
      BY Zenon, <1>1, <3>2, WritableIsMapped
    <3>4. rc[c.pte[h].frame] = 1
      BY Zenon, <3>2 DEF Balanced, Sole
    <3>5. c.pte[h].frame \notin DataFrames(s, S)
      BY Zenon, <1>4, <3>3
    <3>6. rc2[c.pte[h].frame] = rc[c.pte[h].frame]
      BY Zenon, <3>3, <3>5 DEF GotMore
    <3> QED
      BY Zenon, <3>2, <3>4, <3>6
  <2> QED
    BY Zenon, <2>1 DEF Sole
<1>7. ASSUME NEW u \in R \ {c}
      PROVE  Sole(u, rc2)
  <2>1. ASSUME NEW h \in Pages, u.pte[h].writable
        PROVE  rc2[u.pte[h].frame] = 1
    <3>0. u \in R /\ u \in Space
      BY Zenon, <1>1
    <3>1. u.pte[h].frame \in Frames
      BY Zenon, <2>1, <3>0, WritableIsMapped
    <3>2. rc[u.pte[h].frame] = 1
      BY Zenon, <2>1, <3>0 DEF Balanced, Sole
    <3>3. ASSUME NEW k \in S, s.pte[k].frame = u.pte[h].frame
          PROVE  FALSE
      <4>1. k \in Pages
        BY Zenon
      <4>2. s.pte[k].frame \in Frames /\ rc[s.pte[k].frame] = 1 /\ u.pte[h].frame = s.pte[k].frame
        BY Zenon, <3>1, <3>2, <3>3
      <4>3. u = s /\ h = k
        BY SMTT(30), <3>0, <4>1, <4>2, SoleUser
      <4>4. ~s.pte[k].writable
        BY Zenon
      <4> QED
        BY Zenon, <2>1, <4>3, <4>4
    <3>4. u.pte[h].frame \notin DataFrames(s, S)
      <4>1. ASSUME NEW f \in Frames
            PROVE  f \in DataFrames(s, S) <=> \E k \in S : s.pte[k].frame = f
        BY SMTT(30), <1>1, DataFramesOf
      <4>2. u.pte[h].frame \in DataFrames(s, S) => \E k \in S : s.pte[k].frame = u.pte[h].frame
        BY Zenon, <3>1, <4>1
      <4> QED
        BY Zenon, <3>3, <4>2
    <3> QED
      BY Zenon, <3>1, <3>2, <3>4 DEF GotMore
  <2> QED
    BY Zenon, <2>1 DEF Sole
<1>8. rc2 \in [Frames -> Nat]
  BY Zenon DEF GotMore
<1> QED
  BY Zenon, <1>3, <1>5, <1>6, <1>7, <1>8, BalancedSwap

-----------------------------------------------------------------------------
(* Who owns a space *)

\* NoSpace has no PML4.
LEMMA NoSpaceApart ==
  NoSpace \notin Space
<1>1. NoSpace.pml4 = 0
  BY Zenon DEF NoSpace, EmptySpace
<1>2. 0 \notin Frames
  BY SpacesAssumption DEF Frames
<1> QED
  BY Zenon, <1>1, <1>2, SpaceFields

\* A process's space changes behind its PML4.
LEMMA ChangeProc ==
  ASSUME NEW sp, NEW d, NEW l, NEW n, Owners(sp, d, l, n), ApartOf(sp, d, l, n),
         OneRoot(AllSpaces(sp, d, l, n)), NEW p \in Procs, sp[p] # NoSpace,
         NEW t \in Space, t.pml4 = sp[p].pml4, NEW sp2, Only(sp, sp2, p, t)
  PROVE  /\ Owners(sp2, d, l, n) /\ ApartOf(sp2, d, l, n) /\ sp[p] \in AllSpaces(sp, d, l, n)
         /\ AllSpaces(sp2, d, l, n) = Swap(AllSpaces(sp, d, l, n), sp[p], t)
<1> DEFINE A == AllSpaces(sp, d, l, n)
<1>1. t # NoSpace
  BY Zenon, NoSpaceApart
<1>2. sp[p] \in A
  BY Zenon DEF AllSpaces
<1>3. ASSUME NEW u \in A, u # sp[p]
      PROVE  u # t
  BY Zenon, <1>2, <1>3 DEF OneRoot
<1>4. \A q \in Procs : q # p => sp2[q] # t
  <2>1. ASSUME NEW q \in Procs, q # p, sp[q] = t
        PROVE  FALSE
    <3>1. sp[q] \in A
      BY Zenon, <1>1, <2>1 DEF AllSpaces
    <3>2. sp[q] # sp[p]
      BY Zenon, <2>1 DEF ApartOf
    <3> QED
      BY Zenon, <1>3, <2>1, <3>1, <3>2
  <2> QED
    BY Zenon, <2>1 DEF Only
<1>5. t \notin d /\ t \notin l /\ t # n
  <2>1. ASSUME NEW u, u \in d \/ u \in l \/ u = n
        PROVE  u # t
    <3>1. CASE u = NoSpace
      BY Zenon, <1>1, <3>1
    <3>2. CASE u # NoSpace
      <4>1. u \in A
        BY Zenon, <2>1, <3>2 DEF AllSpaces
      <4>2. u # sp[p]
        BY Zenon, <2>1 DEF ApartOf
      <4> QED
        BY Zenon, <1>3, <4>1, <4>2
    <3> QED
      BY Zenon, <3>1, <3>2
  <2> QED
    BY Zenon, <2>1
<1>6. ApartOf(sp2, d, l, n)
  BY Zenon, <1>4, <1>5 DEF ApartOf, Only
<1>7. ASSUME NEW x
      PROVE  x \in AllSpaces(sp2, d, l, n) <=> x \in Swap(A, sp[p], t)
  <2>1. ASSUME x \in AllSpaces(sp2, d, l, n)
        PROVE  x \in Swap(A, sp[p], t)
    <3>1. CASE x = t
      BY Zenon, <3>1 DEF Swap
    <3>2. CASE x # t
      <4>1. x \in A
        BY Zenon, <2>1, <3>2 DEF AllSpaces, Only
      <4>2. x # sp[p]
        BY Zenon, <2>1, <3>2 DEF AllSpaces, Only, ApartOf
      <4> QED
        BY Zenon, <4>1, <4>2 DEF Swap
    <3> QED
      BY Zenon, <3>1, <3>2
  <2>2. ASSUME x \in Swap(A, sp[p], t)
        PROVE  x \in AllSpaces(sp2, d, l, n)
    <3>1. CASE x = t
      BY Zenon, <1>1, <3>1 DEF AllSpaces, Only
    <3>2. CASE x # t
      <4>1. x \in A /\ x # sp[p]
        BY Zenon, <2>2, <3>2 DEF Swap
      <4> QED
        BY Zenon, <4>1 DEF AllSpaces, Only
    <3> QED
      BY Zenon, <3>1, <3>2
  <2> QED
    BY Zenon, <2>1, <2>2
<1>8. AllSpaces(sp2, d, l, n) = Swap(A, sp[p], t)
  BY Zenon, <1>7
<1>9. Owners(sp2, d, l, n)
  BY Zenon DEF Owners, Only
<1> QED
  BY Zenon, <1>2, <1>6, <1>8, <1>9

\* The space of the call in progress changes behind its PML4.
LEMMA ChangeNew ==
  ASSUME NEW sp, NEW d, NEW l, NEW n, Owners(sp, d, l, n), ApartOf(sp, d, l, n),
         OneRoot(AllSpaces(sp, d, l, n)), n # NoSpace, NEW t \in Space, t.pml4 = n.pml4
  PROVE  /\ Owners(sp, d, l, t) /\ ApartOf(sp, d, l, t) /\ n \in AllSpaces(sp, d, l, n)
         /\ AllSpaces(sp, d, l, t) = Swap(AllSpaces(sp, d, l, n), n, t)
<1> DEFINE A == AllSpaces(sp, d, l, n)
<1>1. t # NoSpace
  BY Zenon, NoSpaceApart
<1>2. n \in A
  BY Zenon DEF AllSpaces
<1>3. ASSUME NEW u \in A, u # n
      PROVE  u # t
  BY Zenon, <1>2, <1>3 DEF OneRoot
<1>4. \A q \in Procs : sp[q] # NoSpace => sp[q] # t
  <2>1. ASSUME NEW q \in Procs, sp[q] # NoSpace
        PROVE  sp[q] # t
    <3>1. sp[q] \in A
      BY Zenon, <2>1 DEF AllSpaces
    <3>2. sp[q] # n
      BY Zenon, <2>1 DEF ApartOf
    <3> QED
      BY Zenon, <1>3, <3>1, <3>2
  <2> QED
    BY Zenon, <2>1
<1>5. t \notin d /\ t \notin l
  <2>1. ASSUME NEW u, u \in d \/ u \in l
        PROVE  u # t
    <3>1. u # NoSpace
      BY Zenon, <2>1, NoSpaceApart DEF Owners
    <3>2. u \in A
      BY Zenon, <2>1, <3>1 DEF AllSpaces
    <3>3. u # n
      BY Zenon, <2>1 DEF ApartOf
    <3> QED
      BY Zenon, <1>3, <3>2, <3>3
  <2> QED
    BY Zenon, <2>1
<1>6. ApartOf(sp, d, l, t)
  BY Zenon, <1>4, <1>5 DEF ApartOf
<1>7. ASSUME NEW x
      PROVE  x \in AllSpaces(sp, d, l, t) <=> x \in Swap(A, n, t)
  BY Zenon, <1>1, <1>4, <1>5 DEF AllSpaces, Swap, ApartOf
<1>8. AllSpaces(sp, d, l, t) = Swap(A, n, t)
  BY Zenon, <1>7
<1>9. Owners(sp, d, l, t)
  BY Zenon DEF Owners
<1> QED
  BY Zenon, <1>2, <1>6, <1>8, <1>9

\* A dead process's space is freed.
LEMMA DropDead ==
  ASSUME NEW sp, NEW d, NEW l, NEW n, Owners(sp, d, l, n), ApartOf(sp, d, l, n), NEW s \in d
  PROVE  /\ Owners(sp, d \ {s}, l, n) /\ ApartOf(sp, d \ {s}, l, n) /\ s \in AllSpaces(sp, d, l, n)
         /\ AllSpaces(sp, d \ {s}, l, n) = AllSpaces(sp, d, l, n) \ {s}
<1>1. s # NoSpace
  BY Zenon, NoSpaceApart DEF Owners
<1>2. \A q \in Procs : sp[q] # s
  BY Zenon, <1>1 DEF ApartOf
<1>3. s # n /\ s \notin l
  BY Zenon DEF ApartOf
<1>4. AllSpaces(sp, d \ {s}, l, n) = AllSpaces(sp, d, l, n) \ {s}
  BY Zenon, <1>1, <1>2, <1>3 DEF AllSpaces
<1>5. Owners(sp, d \ {s}, l, n) /\ ApartOf(sp, d \ {s}, l, n)
  BY Zenon DEF Owners, ApartOf
<1>6. s \in AllSpaces(sp, d, l, n)
  BY Zenon, <1>1 DEF AllSpaces
<1> QED
  BY Zenon, <1>4, <1>5, <1>6

\* A call begins to build a space.
LEMMA AddNew ==
  ASSUME NEW sp, NEW d, NEW l, NEW t \in Space, Owners(sp, d, l, NoSpace), ApartOf(sp, d, l, NoSpace),
         \A s \in AllSpaces(sp, d, l, NoSpace) : s.pml4 # t.pml4
  PROVE  /\ Owners(sp, d, l, t) /\ ApartOf(sp, d, l, t)
         /\ AllSpaces(sp, d, l, t) = AllSpaces(sp, d, l, NoSpace) \cup {t}
<1>1. t # NoSpace
  BY Zenon, NoSpaceApart
<1>2. ASSUME NEW u, u \in d \/ u \in l \/ \E q \in Procs : u = sp[q]
      PROVE  u # t
  <2>1. CASE u = NoSpace
    BY Zenon, <1>1, <2>1
  <2>2. CASE u # NoSpace
    <3>1. u \in AllSpaces(sp, d, l, NoSpace)
      BY Zenon, <1>2, <2>2 DEF AllSpaces
    <3> QED
      BY Zenon, <3>1
  <2> QED
    BY Zenon, <2>1, <2>2
<1>3. AllSpaces(sp, d, l, t) = AllSpaces(sp, d, l, NoSpace) \cup {t}
  BY Zenon, <1>1 DEF AllSpaces
<1>4. Owners(sp, d, l, t)
  BY Zenon DEF Owners
<1>5. ApartOf(sp, d, l, t)
  BY Zenon, <1>2 DEF ApartOf
<1> QED
  BY Zenon, <1>3, <1>4, <1>5

\* The space of the call in progress is freed.
LEMMA DropNew ==
  ASSUME NEW sp, NEW d, NEW l, NEW n, Owners(sp, d, l, n), ApartOf(sp, d, l, n), n # NoSpace
  PROVE  /\ Owners(sp, d, l, NoSpace) /\ ApartOf(sp, d, l, NoSpace) /\ n \in AllSpaces(sp, d, l, n)
         /\ AllSpaces(sp, d, l, NoSpace) = AllSpaces(sp, d, l, n) \ {n}
<1>1. \A q \in Procs : sp[q] # n
  BY Zenon DEF ApartOf
<1>2. n \notin d /\ n \notin l
  BY Zenon DEF ApartOf
<1>3. NoSpace \notin d /\ NoSpace \notin l
  BY Zenon, NoSpaceApart DEF Owners
<1>4. AllSpaces(sp, d, l, NoSpace) = AllSpaces(sp, d, l, n) \ {n}
  BY Zenon, <1>1, <1>2 DEF AllSpaces
<1>5. Owners(sp, d, l, NoSpace) /\ ApartOf(sp, d, l, NoSpace)
  BY Zenon, <1>3 DEF Owners, ApartOf
<1>6. n \in AllSpaces(sp, d, l, n)
  BY Zenon DEF AllSpaces
<1> QED
  BY Zenon, <1>4, <1>5, <1>6

\* The space of the call in progress is lost.
LEMMA NewToLost ==
  ASSUME NEW sp, NEW d, NEW l, NEW n, Owners(sp, d, l, n), ApartOf(sp, d, l, n), n # NoSpace
  PROVE  /\ Owners(sp, d, l \cup {n}, NoSpace) /\ ApartOf(sp, d, l \cup {n}, NoSpace)
         /\ AllSpaces(sp, d, l \cup {n}, NoSpace) = AllSpaces(sp, d, l, n)
<1>1. n \in Space
  BY Zenon DEF Owners
<1>2. NoSpace \notin d /\ NoSpace \notin l
  BY Zenon, NoSpaceApart DEF Owners
<1>3. AllSpaces(sp, d, l \cup {n}, NoSpace) = AllSpaces(sp, d, l, n)
  BY Zenon DEF AllSpaces
<1>4. Owners(sp, d, l \cup {n}, NoSpace)
  BY Zenon, <1>1 DEF Owners
<1>5. ApartOf(sp, d, l \cup {n}, NoSpace)
  BY Zenon, <1>2 DEF ApartOf
<1> QED
  BY Zenon, <1>3, <1>4, <1>5

\* The space of the call in progress becomes that of a process without one.
LEMMA NewToProc ==
  ASSUME NEW sp, NEW d, NEW l, NEW n, Owners(sp, d, l, n), ApartOf(sp, d, l, n), n # NoSpace,
         NEW c \in Procs, sp[c] = NoSpace, NEW sp2, Only(sp, sp2, c, n)
  PROVE  /\ Owners(sp2, d, l, NoSpace) /\ ApartOf(sp2, d, l, NoSpace)
         /\ AllSpaces(sp2, d, l, NoSpace) = AllSpaces(sp, d, l, n)
<1>1. NoSpace \notin d /\ NoSpace \notin l
  BY Zenon, NoSpaceApart DEF Owners
<1>2. \A q \in Procs : sp[q] # n
  BY Zenon DEF ApartOf
<1>3. ASSUME NEW x
      PROVE  x \in AllSpaces(sp2, d, l, NoSpace) <=> x \in AllSpaces(sp, d, l, n)
  BY Zenon DEF AllSpaces, Only
<1>4. AllSpaces(sp2, d, l, NoSpace) = AllSpaces(sp, d, l, n)
  BY Zenon, <1>3
<1>5. Owners(sp2, d, l, NoSpace)
  BY Zenon DEF Owners, Only
<1>6. ApartOf(sp2, d, l, NoSpace)
  BY Zenon, <1>1, <1>2 DEF ApartOf, Only
<1> QED
  BY Zenon, <1>4, <1>5, <1>6

\* A process dies.
LEMMA ProcToDead ==
  ASSUME NEW sp, NEW d, NEW l, NEW n, Owners(sp, d, l, n), ApartOf(sp, d, l, n),
         NEW p \in Procs, sp[p] # NoSpace, NEW sp2, Only(sp, sp2, p, NoSpace)
  PROVE  /\ Owners(sp2, d \cup {sp[p]}, l, n) /\ ApartOf(sp2, d \cup {sp[p]}, l, n)
         /\ AllSpaces(sp2, d \cup {sp[p]}, l, n) = AllSpaces(sp, d, l, n)
<1>1. sp[p] \in Space
  BY Zenon DEF Owners
<1>2. ASSUME NEW x
      PROVE  x \in AllSpaces(sp2, d \cup {sp[p]}, l, n) <=> x \in AllSpaces(sp, d, l, n)
  BY Zenon DEF AllSpaces, Only
<1>3. AllSpaces(sp2, d \cup {sp[p]}, l, n) = AllSpaces(sp, d, l, n)
  BY Zenon, <1>2
<1>4. Owners(sp2, d \cup {sp[p]}, l, n)
  BY Zenon, <1>1 DEF Owners, Only
<1>5. ApartOf(sp2, d \cup {sp[p]}, l, n)
  BY Zenon DEF ApartOf, Only
<1> QED
  BY Zenon, <1>3, <1>4, <1>5

\* A process's space is freed.
LEMMA DropProc ==
  ASSUME NEW sp, NEW d, NEW l, NEW n, Owners(sp, d, l, n), ApartOf(sp, d, l, n),
         NEW p \in Procs, sp[p] # NoSpace, NEW sp2, Only(sp, sp2, p, NoSpace)
  PROVE  /\ Owners(sp2, d, l, n) /\ ApartOf(sp2, d, l, n) /\ sp[p] \in AllSpaces(sp, d, l, n)
         /\ AllSpaces(sp2, d, l, n) = AllSpaces(sp, d, l, n) \ {sp[p]}
<1>1. ASSUME NEW x
      PROVE  x \in AllSpaces(sp2, d, l, n) <=> x \in AllSpaces(sp, d, l, n) \ {sp[p]}
  <2>1. ASSUME x \in AllSpaces(sp2, d, l, n)
        PROVE  x \in AllSpaces(sp, d, l, n) /\ x # sp[p]
    BY ZenonT(40), <2>1 DEF AllSpaces, Only, ApartOf
  <2>2. ASSUME x \in AllSpaces(sp, d, l, n), x # sp[p]
        PROVE  x \in AllSpaces(sp2, d, l, n)
    BY Zenon, <2>2 DEF AllSpaces, Only
  <2> QED
    BY Zenon, <2>1, <2>2
<1>2. AllSpaces(sp2, d, l, n) = AllSpaces(sp, d, l, n) \ {sp[p]}
  BY Zenon, <1>1
<1>3. Owners(sp2, d, l, n)
  BY Zenon DEF Owners, Only
<1>4. ApartOf(sp2, d, l, n)
  BY Zenon DEF ApartOf, Only
<1>5. sp[p] \in AllSpaces(sp, d, l, n)
  BY Zenon DEF AllSpaces
<1> QED
  BY Zenon, <1>2, <1>3, <1>4, <1>5

-----------------------------------------------------------------------------
(* Frames to take *)

\* A nonempty set of naturals has a least element.
LEMMA LeastElement ==
  ASSUME NEW S, S \subseteq Nat, S # {}
  PROVE  \E x \in S : \A y \in S : x <= y
<1> DEFINE Below == {ss \in Nat \X Nat : ss[1] < ss[2]}
<1>1. IsWellFoundedOn(Below, Nat)
  BY Zenon, NatLessThanWellFounded DEF OpToRel
<1>2. PICK x \in S : \A y \in S : ~(<<y, x>> \in Below)
  BY Zenon, <1>1, WFMin
<1>3. ASSUME NEW y \in S
      PROVE  x <= y
  <2>1. <<y, x>> \in Nat \X Nat /\ <<y, x>>[1] = y /\ <<y, x>>[2] = x
    BY Zenon
  <2>2. ~(y < x)
    BY Zenon, <1>2, <2>1
  <2> QED
    BY <2>2
<1> QED
  BY Zenon, <1>3

\* The frames in use are finitely many.
LEMMA InUseFinite ==
  ASSUME NEW rc
  PROVE  IsFiniteSet(InUse(rc)) /\ Cardinality(InUse(rc)) \in Nat
<1>1. InUse(rc) \in SUBSET Frames
  BY Zenon DEF InUse
<1> QED
  BY Zenon, <1>1, FiniteStock, FS_Subset, FS_CardinalityType

\* alloc_frame, with a frame left, takes a free one.
LEMMA AllocFrame ==
  ASSUME refcount \in [Frames -> Nat], table_frames \in Nat, FreeFrames >= 1
  PROVE  alloc_frame \in Frames /\ refcount[alloc_frame] = 0
<1> DEFINE Z == Frames \ InUse(refcount)
<1>1. NFrames - table_frames - Cardinality(InUse(refcount)) >= 1
  BY Zenon DEF FreeFrames, InUse
<1>2. Cardinality(InUse(refcount)) \in Nat /\ NFrames \in Nat
  BY Zenon, InUseFinite, SpacesAssumption
<1>3. Cardinality(InUse(refcount)) # NFrames
  BY <1>1, <1>2
<1>4. InUse(refcount) # Frames
  BY Zenon, <1>3, FiniteStock
<1>5. Z # {} /\ Z \subseteq Nat
  <2>1. InUse(refcount) \subseteq Frames /\ Frames \subseteq Nat
    BY SpacesAssumption DEF InUse, Frames
  <2> QED
    BY Zenon, <1>4, <2>1
<1>6. PICK f \in Z : \A y \in Z : f <= y
  BY Zenon, <1>5, LeastElement
<1>7. f \in Frames /\ refcount[f] = 0
  BY <1>6 DEF InUse
<1>8. ASSUME NEW g \in 1..(f - 1)
      PROVE  refcount[g] # 0
  <2>1. g \in Frames /\ ~(f <= g)
    BY <1>7, SpacesAssumption DEF Frames
  <2>2. g \notin Z
    BY Zenon, <1>6, <2>1
  <2> QED
    BY <2>1, <2>2 DEF InUse
<1>9. \E x \in Frames : refcount[x] = 0 /\ \A g \in 1..(x - 1) : refcount[g] # 0
  BY Zenon, <1>7, <1>8
<1> QED
  BY Zenon, <1>9 DEF alloc_frame

\* No frame comes into use.
LEMMA RoomKept ==
  ASSUME NEW rc, NEW rc2, NEW m \in Int, m + Cardinality(InUse(rc)) <= NFrames,
         \A f \in Frames : rc2[f] > 0 => rc[f] > 0
  PROVE  Room(rc2, m)
<1>1. InUse(rc2) \in SUBSET InUse(rc)
  BY Zenon DEF InUse
<1>2. Cardinality(InUse(rc2)) <= Cardinality(InUse(rc))
  BY Zenon, <1>1, InUseFinite, FS_Subset
<1>3. Cardinality(InUse(rc2)) \in Nat /\ Cardinality(InUse(rc)) \in Nat /\ NFrames \in Nat
  BY Zenon, InUseFinite, SpacesAssumption
<1> QED
  BY <1>2, <1>3 DEF Room

\* One frame comes into use.
LEMMA RoomTaken ==
  ASSUME NEW rc, NEW rc2, NEW a, NEW m \in Int, m + 1 + Cardinality(InUse(rc)) <= NFrames,
         \A f \in Frames : rc2[f] > 0 => rc[f] > 0 \/ f = a
  PROVE  Room(rc2, m)
<1>1. InUse(rc2) \in SUBSET (InUse(rc) \cup {a})
  BY Zenon DEF InUse
<1>2. IsFiniteSet(InUse(rc) \cup {a})
  BY Zenon, InUseFinite, FS_AddElement
<1>3. Cardinality(InUse(rc2)) <= Cardinality(InUse(rc) \cup {a})
  BY Zenon, <1>1, <1>2, FS_Subset
<1>4. Cardinality(InUse(rc) \cup {a}) = IF a \in InUse(rc) THEN Cardinality(InUse(rc)) ELSE Cardinality(InUse(rc)) + 1
  BY Zenon, InUseFinite, FS_AddElement
<1>5. Cardinality(InUse(rc2)) \in Nat /\ Cardinality(InUse(rc)) \in Nat /\ NFrames \in Nat
  BY Zenon, InUseFinite, SpacesAssumption
<1>6. Cardinality(InUse(rc) \cup {a}) <= Cardinality(InUse(rc)) + 1
  BY <1>4, <1>5
<1> QED
  BY <1>3, <1>4, <1>5, <1>6 DEF Room

\* create_user_pml4, with a frame left, makes an empty space with a new PML4.
LEMMA FreshSpace ==
  ASSUME Balanced(Real, refcount, table_frames), FreeFrames >= 1
  PROVE  /\ create_user_pml4 \in Space
         /\ create_user_pml4.tables = {} /\ \A g \in Pages : ~Present(create_user_pml4, g)
         /\ \A s \in Real : s.pml4 # create_user_pml4.pml4
<1> DEFINE used == {s.pml4 : s \in Spaces}
           taken == {s.pml4 : s \in Real}
           F == [s \in Real |-> s.pml4]
<1>1. table_frames \in Nat /\ Cardinality(Real) \in Nat /\ Cardinality(Real) <= table_frames /\ IsFiniteSet(Real)
  BY Zenon, CountIsNat
<1>2. NFrames - table_frames - Cardinality(InUse(refcount)) >= 1
  BY Zenon DEF FreeFrames, InUse
<1>3. Cardinality(InUse(refcount)) \in Nat /\ NFrames \in Nat
  BY Zenon, InUseFinite, SpacesAssumption
<1>4. Cardinality(Real) < NFrames
  BY <1>1, <1>2, <1>3
<1>5. F \in Surjection(Real, taken)
  BY Zenon DEF Surjection
<1>6. IsFiniteSet(taken) /\ Cardinality(taken) <= Cardinality(Real)
  BY Zenon, <1>1, <1>5, FS_Surjection
<1>7. ~(Frames \in SUBSET taken)
  <2>1. ASSUME Frames \in SUBSET taken
        PROVE  FALSE
    <3>1. Cardinality(Frames) <= Cardinality(taken)
      BY Zenon, <1>6, <2>1, FS_Subset
    <3>2. Cardinality(taken) \in Nat
      BY Zenon, <1>6, FS_CardinalityType
    <3>3. NFrames <= Cardinality(taken)
      BY Zenon, <3>1, FiniteStock
    <3> HIDE DEF taken
    <3> QED
      BY <1>1, <1>3, <1>4, <1>6, <3>2, <3>3
  <2> QED
    BY Zenon, <2>1
<1>8. used \subseteq taken \cup {0} /\ taken \subseteq used
  <2>1. NoSpace.pml4 = 0
    BY Zenon DEF NoSpace, EmptySpace
  <2>2. \A s \in Spaces : s = NoSpace \/ s \in Real
    BY Zenon DEF Spaces, Real, AllSpaces
  <2>3. \A s \in Real : s \in Spaces
    BY Zenon DEF Spaces, Real, AllSpaces
  <2> QED
    BY Zenon, <2>1, <2>2, <2>3
<1> DEFINE Z == Frames \ used
<1>9. Z # {} /\ Z \subseteq Nat
  <2>1. 0 \notin Frames /\ Frames \subseteq Nat
    BY SpacesAssumption DEF Frames
  <2> QED
    BY Zenon, <1>7, <1>8, <2>1
<1>10. PICK r \in Z : \A y \in Z : r <= y
  BY Zenon, <1>9, LeastElement
<1> HIDE DEF used, taken
<1>11. r \in Frames /\ r \notin used
  BY Zenon, <1>10
<1>12. ASSUME NEW q \in 1..(r - 1)
       PROVE  q \in used
  <2>1. q \in Frames /\ ~(r <= q)
    BY <1>11, SpacesAssumption DEF Frames
  <2> QED
    BY Zenon, <1>10, <2>1
<1>13. \E x \in Frames : x \notin used /\ \A q \in 1..(x - 1) : q \in used
  BY Zenon, <1>11, <1>12
<1>14. PICK x \in Frames : x = (CHOOSE y \in Frames : y \notin used /\ \A q \in 1..(y - 1) : q \in used) /\ x \notin used
  BY Zenon, <1>13
<1>15. create_user_pml4 = EmptySpace(x)
  BY Zenon, <1>14 DEF create_user_pml4, used
<1>16. /\ EmptySpace(x) \in Space /\ EmptySpace(x).pml4 = x /\ EmptySpace(x).tables = {}
       /\ \A g \in Pages : ~Present(EmptySpace(x), g)
  BY Zenon DEF EmptySpace, Space, Pte, NoPte, Present, Frames
<1>17. \A s \in Real : s.pml4 # x
  BY Zenon, <1>8, <1>14 DEF taken
<1> QED
  BY Zenon, <1>15, <1>16, <1>17

-----------------------------------------------------------------------------
(* The operations of vmm.rs on one space *)

\* A space is its three fields.
LEMMA SpaceParts ==
  ASSUME NEW s \in Space
  PROVE  \E a, b, c : s = [pml4 |-> a, tables |-> b, pte |-> c] /\ c \in [Pages -> Pte]
  BY Zenon, SpaceFields

\* A table covers a page.
LEMMA TableOfPage ==
  ASSUME NEW g \in Pages
  PROVE  TableOf[g] \in Tables /\ TableOf[g] \in Nat \ {0}
  BY Zenon, SpacesAssumption DEF Tables, Pages

\* map_page
LEMMA MapPageIs ==
  ASSUME NEW s \in Space, NEW g \in Pages, alloc_frame \in Frames, NEW w \in BOOLEAN
  PROVE  LET t == map_page(s, g, w)
         IN  /\ t \in Space /\ t.pml4 = s.pml4 /\ t.tables = s.tables \cup {TableOf[g]}
             /\ t.pte[g].frame = alloc_frame /\ \A h \in Pages : h # g => t.pte[h] = s.pte[h]
             /\ \A n \in Int : n + NewTables(s, g) = n + Cardinality(t.tables) - Cardinality(s.tables)
<1> DEFINE t == map_page(s, g, w)
<1>1. PICK f \in Frames : f = alloc_frame
  BY Zenon
<1>2. PICK e : e = [frame |-> f, writable |-> w]
  BY Zenon
<1>3. e \in Pte /\ e.frame = f
  BY Zenon, <1>2 DEF Pte
<1>4. PICK a, b, c : s = [pml4 |-> a, tables |-> b, pte |-> c] /\ c \in [Pages -> Pte]
  BY Zenon, SpaceParts
<1>5. PICK x : x = TableOf[g]
  BY Zenon
<1>6. t = [s EXCEPT !.tables = @ \cup {x}, !.pte[g] = e]
  BY Zenon, <1>1, <1>2, <1>5 DEF map_page
<1>7. t = [pml4 |-> a, tables |-> b \cup {x}, pte |-> [c EXCEPT ![g] = e]]
  BY Zenon, <1>4, <1>6
<1>8. x \in Tables
  BY Zenon, <1>5, TableOfPage
<1> HIDE DEF t
<1>9. t.pml4 = s.pml4 /\ t.tables = s.tables \cup {x} /\ t.pte = [c EXCEPT ![g] = e] /\ s.pte = c
  BY Zenon, <1>4, <1>7
<1>10. t.pte \in [Pages -> Pte] /\ t.pte[g] = e /\ \A h \in Pages : h # g => t.pte[h] = s.pte[h]
  BY Zenon, <1>3, <1>4, <1>9
<1>11. t \in Space
  <2>1. s.pml4 \in Frames /\ s.tables \in SUBSET Tables
    BY Zenon, SpaceFields
  <2>2. t.pml4 \in Frames /\ t.tables \in SUBSET Tables
    BY Zenon, <1>8, <1>9, <2>1
  <2>3. t = [pml4 |-> t.pml4, tables |-> t.tables, pte |-> t.pte]
    BY Zenon, <1>7
  <2> QED
    BY Zenon, <2>2, <2>3, <1>10 DEF Space, Frames
<1>12. ASSUME NEW n \in Int
       PROVE  n + NewTables(s, g) = n + Cardinality(t.tables) - Cardinality(s.tables)
  <2>1. IsFiniteSet(s.tables) /\ Cardinality(s.tables) \in Nat
    BY Zenon, TableUsesCount
  <2>2. Cardinality(s.tables \cup {x}) = IF x \in s.tables THEN Cardinality(s.tables) ELSE Cardinality(s.tables) + 1
    BY Zenon, <2>1, FS_AddElement
  <2>3. Cardinality(t.tables) = Cardinality(s.tables \cup {x})
    BY Zenon, <1>9
  <2>4. NewTables(s, g) = IF x \in s.tables THEN 0 ELSE 1
    BY Zenon, <1>5 DEF NewTables
  <2> QED
    BY <2>1, <2>2, <2>3, <2>4
<1>13. t.tables = s.tables \cup {TableOf[g]} /\ t.pte[g].frame = alloc_frame
  BY Zenon, <1>1, <1>3, <1>5, <1>9, <1>10
<1> QED
  BY Zenon, <1>9, <1>10, <1>11, <1>12, <1>13 DEF t

\* A leaf is replaced: handle_cow_fault.
LEMMA LeafIs ==
  ASSUME NEW s \in Space, NEW g \in Pages, NEW e \in Pte
  PROVE  LET t == [s EXCEPT !.pte[g] = e]
         IN  /\ t \in Space /\ t.pml4 = s.pml4 /\ t.tables = s.tables
             /\ t.pte[g] = e /\ \A h \in Pages : h # g => t.pte[h] = s.pte[h]
<1> DEFINE t == [s EXCEPT !.pte[g] = e]
<1>1. PICK a, b, c : s = [pml4 |-> a, tables |-> b, pte |-> c] /\ c \in [Pages -> Pte]
  BY Zenon, SpaceParts
<1>2. t = [pml4 |-> a, tables |-> b, pte |-> [c EXCEPT ![g] = e]]
  BY <1>1
<1> HIDE DEF t
<1>3. t.pml4 = s.pml4 /\ t.tables = s.tables /\ t.pte = [c EXCEPT ![g] = e] /\ s.pte = c
  BY Zenon, <1>1, <1>2
<1>4. t.pte \in [Pages -> Pte] /\ t.pte[g] = e /\ \A h \in Pages : h # g => t.pte[h] = s.pte[h]
  BY Zenon, <1>1, <1>3
<1>5. t \in Space
  <2>1. t.pml4 \in Frames /\ t.tables \in SUBSET Tables
    BY Zenon, <1>3, SpaceFields
  <2>2. t = [pml4 |-> t.pml4, tables |-> t.tables, pte |-> t.pte]
    BY Zenon, <1>2
  <2> QED
    BY Zenon, <2>1, <2>2, <1>4 DEF Space, Frames
<1> QED
  BY Zenon, <1>3, <1>4, <1>5 DEF t

\* unmap_page
LEMMA UnmapPageIs ==
  ASSUME NEW s \in Space, NEW S \in SUBSET Pages
  PROVE  LET t == unmap_page(s, S)
         IN  /\ t \in Space /\ t.pml4 = s.pml4 /\ t.tables = s.tables
             /\ \A h \in S : t.pte[h] = NoPte
             /\ \A h \in Pages : h \notin S => t.pte[h] = s.pte[h]
<1> DEFINE t == unmap_page(s, S)
<1>1. PICK a, b, c : s = [pml4 |-> a, tables |-> b, pte |-> c] /\ c \in [Pages -> Pte]
  BY Zenon, SpaceParts
<1>2. PICK d : d = [g \in Pages |-> IF g \in S THEN NoPte ELSE c[g]]
  BY Zenon
<1>3. t = [pml4 |-> a, tables |-> b, pte |-> d]
  BY <1>1, <1>2 DEF unmap_page
<1> HIDE DEF t
<1>4. t.pml4 = s.pml4 /\ t.tables = s.tables /\ t.pte = d /\ s.pte = c
  BY Zenon, <1>1, <1>3
<1>5. NoPte \in Pte
  BY Zenon DEF Pte
<1>6. t.pte \in [Pages -> Pte] /\ \A h \in Pages : t.pte[h] = IF h \in S THEN NoPte ELSE s.pte[h]
  BY Zenon, <1>1, <1>2, <1>4, <1>5
<1>7. t \in Space
  <2>1. t.pml4 \in Frames /\ t.tables \in SUBSET Tables
    BY Zenon, <1>4, SpaceFields
  <2>2. t = [pml4 |-> t.pml4, tables |-> t.tables, pte |-> t.pte]
    BY Zenon, <1>3
  <2> QED
    BY Zenon, <2>1, <2>2, <1>6 DEF Space, Frames
<1> QED
  BY Zenon, <1>4, <1>6, <1>7 DEF t

\* WRITABLE is removed from leaves.
LEMMA WriteProtectedIs ==
  ASSUME NEW s \in Space, NEW S \in SUBSET Pages, \A g \in S : Present(s, g)
  PROVE  LET t == WriteProtected(s, S)
         IN  /\ t \in Space /\ t.pml4 = s.pml4 /\ t.tables = s.tables
             /\ \A h \in Pages : t.pte[h].frame = s.pte[h].frame
             /\ \A h \in S : ~t.pte[h].writable
             /\ \A h \in Pages : h \notin S => t.pte[h] = s.pte[h]
<1> DEFINE t == WriteProtected(s, S)
<1>1. PICK a, b, c : s = [pml4 |-> a, tables |-> b, pte |-> c] /\ c \in [Pages -> Pte]
  BY Zenon, SpaceParts
<1>2. PICK d : d = [g \in Pages |-> IF g \in S THEN [c[g] EXCEPT !.writable = FALSE] ELSE c[g]]
  BY Zenon
<1>3. t = [pml4 |-> a, tables |-> b, pte |-> d]
  <2>1. s.pte = c
    BY Zenon, <1>1
  <2>2. t = [s EXCEPT !.pte = d]
    BY Zenon, <1>2, <2>1 DEF WriteProtected
  <2> HIDE DEF t
  <2> QED
    BY Zenon, <1>1, <2>2
<1> HIDE DEF t
<1>4. t.pml4 = s.pml4 /\ t.tables = s.tables /\ t.pte = d /\ s.pte = c
  BY Zenon, <1>1, <1>3
<1>5. ASSUME NEW e \in Pte, e.frame # NoFrame
      PROVE  /\ [e EXCEPT !.writable = FALSE] \in Pte
             /\ [e EXCEPT !.writable = FALSE].frame = e.frame /\ ~[e EXCEPT !.writable = FALSE].writable
  <2>1. e \in [frame : Frames, writable : BOOLEAN]
    BY <1>5 DEF Pte, NoPte
  <2> QED
    BY Zenon, <2>1 DEF Pte
<1>6. ASSUME NEW h \in Pages
      PROVE  /\ d[h] \in Pte /\ d[h].frame = c[h].frame
             /\ h \in S => ~d[h].writable
             /\ h \notin S => d[h] = c[h]
  <2>1. c[h] \in Pte
    BY Zenon, <1>1
  <2>2. CASE h \in S
    <3>1. d[h] = [c[h] EXCEPT !.writable = FALSE]
      BY Zenon, <1>2, <2>2
    <3>2. c[h].frame # NoFrame
      BY Zenon, <1>4, <2>2 DEF Present
    <3> QED
      BY Zenon, <1>5, <2>1, <2>2, <3>1, <3>2
  <2>3. CASE h \notin S
    <3>1. d[h] = c[h]
      BY Zenon, <1>2, <2>3
    <3> QED
      BY Zenon, <2>1, <2>3, <3>1
  <2> QED
    BY Zenon, <2>2, <2>3
<1>7. t.pte \in [Pages -> Pte]
  <2>1. DOMAIN d = Pages
    BY Zenon, <1>2
  <2>2. d = [h \in Pages |-> d[h]]
    BY Zenon, <1>2
  <2> QED
    BY Zenon, <1>4, <1>6, <2>2
<1>8. t \in Space
  <2>1. t.pml4 \in Frames /\ t.tables \in SUBSET Tables
    BY Zenon, <1>4, SpaceFields
  <2>2. t = [pml4 |-> t.pml4, tables |-> t.tables, pte |-> t.pte]
    BY Zenon, <1>3
  <2> QED
    BY Zenon, <2>1, <2>2, <1>7 DEF Space, Frames
<1>9. /\ \A h \in Pages : t.pte[h].frame = s.pte[h].frame
      /\ \A h \in S : ~t.pte[h].writable
      /\ \A h \in Pages : h \notin S => t.pte[h] = s.pte[h]
  BY Zenon, <1>4, <1>6
<1> QED
  BY Zenon, <1>4, <1>8, <1>9 DEF t

\* EmptySpace
LEMMA EmptySpaceIs ==
  ASSUME NEW r \in Frames
  PROVE  /\ EmptySpace(r) \in Space /\ EmptySpace(r).pml4 = r /\ EmptySpace(r).tables = {}
         /\ \A g \in Pages : EmptySpace(r).pte[g] = NoPte
  BY Zenon DEF EmptySpace, Space, Pte, NoPte, Frames

-----------------------------------------------------------------------------
(* The balance and the room after the operations of vmm.rs *)

\* The room after frames were given up
LEMMA RoomAfter ==
  ASSUME NEW R, NEW rc, NEW n, Balanced(R, rc, n), Room(rc, n), NEW s, NEW S, NEW rc2, GaveUp(s, S, rc, rc2),
         NEW m \in Int, m <= n
  PROVE  Room(rc2, m)
<1>1. n \in Nat /\ Cardinality(InUse(rc)) \in Nat /\ NFrames \in Nat
  BY Zenon, CountIsNat, InUseFinite, SpacesAssumption
<1>2. n + Cardinality(InUse(rc)) <= NFrames
  BY Zenon DEF Room
<1>3. m + Cardinality(InUse(rc)) <= NFrames
  BY <1>1, <1>2
<1>4. ASSUME NEW f \in Frames, rc2[f] > 0
      PROVE  rc[f] > 0
  <2>1. rc \in [Frames -> Nat] /\ rc2 \in [Frames -> Nat]
    BY Zenon DEF Balanced, Exact, GaveUp
  <2>2. rc[f] \in Nat /\ rc2[f] \in Nat
    BY Zenon, <2>1
  <2>3. rc2[f] = rc[f] - 1 \/ rc2[f] = rc[f]
    BY Zenon DEF GaveUp
  <2> QED
    BY <1>4, <2>2, <2>3
<1> QED
  BY Zenon, <1>3, <1>4, RoomKept

\* free_user_address_space
LEMMA Freed ==
  ASSUME NEW R, NEW rc, NEW n, Balanced(R, rc, n), Room(rc, n), NEW s \in R
  PROVE  LET rc2 == decref(rc, DataFrames(s, Pages))
             m == n - Cardinality(s.tables) - 1
         IN  Balanced(R \ {s}, rc2, m) /\ Room(rc2, m)
<1> DEFINE rc2 == decref(rc, DataFrames(s, Pages))
           m == n - Cardinality(s.tables) - 1
<1>1. Balanced(R \ {s}, rc2, m)
  BY Zenon, BalancedFree
<1>2. GaveUp(s, Pages, rc, rc2)
  BY Zenon, DecrefGivesUp
<1>3. s \in Space /\ n \in Nat
  BY Zenon, CountIsNat DEF Balanced, Kin
<1>4. Cardinality(s.tables) \in Nat
  BY Zenon, <1>3, TableUsesCount
<1>5. m \in Int /\ m <= n
  BY <1>3, <1>4
<1> HIDE DEF rc2, m
<1>6. Room(rc2, m)
  BY Zenon, <1>2, <1>5, RoomAfter
<1> QED
  BY Zenon, <1>1, <1>6 DEF rc2, m

\* unmap_page with decref
LEMMA Unmapped ==
  ASSUME NEW R, NEW rc, NEW n, Balanced(R, rc, n), Room(rc, n), NEW s \in R, NEW S \in SUBSET Pages
  PROVE  LET rc2 == decref(rc, DataFrames(s, S))
         IN  Balanced(Swap(R, s, unmap_page(s, S)), rc2, n) /\ Room(rc2, n)
<1> DEFINE rc2 == decref(rc, DataFrames(s, S))
           t == unmap_page(s, S)
<1>1. GaveUp(s, S, rc, rc2)
  BY Zenon, DecrefGivesUp
<1>2. s \in Space /\ n \in Nat
  BY Zenon, CountIsNat DEF Balanced, Kin
<1>3. /\ t \in Space /\ t.pml4 = s.pml4 /\ t.tables = s.tables
      /\ \A h \in S : t.pte[h] = NoPte
      /\ \A h \in Pages : h \notin S => t.pte[h] = s.pte[h]
  BY Zenon, <1>2, UnmapPageIs
<1> HIDE DEF rc2, t
<1>4. Cardinality(s.tables) \in Nat
  BY Zenon, <1>2, TableUsesCount
<1>5. n = n + Cardinality(s.tables) - Cardinality(s.tables) /\ n <= n /\ n \in Int
  BY <1>2, <1>4
<1>6. n = n + Cardinality(t.tables) - Cardinality(s.tables)
  BY Zenon, <1>3, <1>5
<1>7. Balanced(Swap(R, s, t), rc2, n)
  BY Zenon, <1>1, <1>3, <1>6, BalancedUnmap
<1>8. Room(rc2, n)
  BY Zenon, <1>1, <1>5, RoomAfter
<1> QED
  BY Zenon, <1>7, <1>8 DEF rc2, t

\* The rollback of copy_user_pages leaves the PML4.
LEMMA Stripped ==
  ASSUME NEW R, NEW rc, NEW n, Balanced(R, rc, n), Room(rc, n), NEW s \in R
  PROVE  LET rc2 == decref(rc, DataFrames(s, Pages))
             m == n - Cardinality(s.tables)
         IN  Balanced(Swap(R, s, EmptySpace(s.pml4)), rc2, m) /\ Room(rc2, m)
<1> DEFINE rc2 == decref(rc, DataFrames(s, Pages))
           t == EmptySpace(s.pml4)
           m == n - Cardinality(s.tables)
<1>1. GaveUp(s, Pages, rc, rc2)
  BY Zenon, DecrefGivesUp
<1>2. s \in Space /\ n \in Nat
  BY Zenon, CountIsNat DEF Balanced, Kin
<1>3. s.pml4 \in Frames
  BY Zenon, <1>2, SpaceFields
<1>4. t \in Space /\ t.pml4 = s.pml4 /\ t.tables = {} /\ \A h \in Pages : t.pte[h] = NoPte
  BY Zenon, <1>3, EmptySpaceIs
<1>5. Cardinality(s.tables) \in Nat
  BY Zenon, <1>2, TableUsesCount
<1>6. Cardinality(t.tables) = 0
  BY Zenon, <1>4, FS_EmptySet
<1> HIDE DEF rc2, t
<1>7. m = n + Cardinality(t.tables) - Cardinality(s.tables) /\ m \in Int /\ m <= n
  BY <1>2, <1>5, <1>6
<1> HIDE DEF m
<1>8. Balanced(Swap(R, s, t), rc2, m)
  <2>1. \A h \in Pages : h \notin Pages => t.pte[h] = s.pte[h]
    BY Zenon
  <2> QED
    BY Zenon, <1>1, <1>4, <1>7, <2>1, BalancedUnmap
<1>9. Room(rc2, m)
  BY Zenon, <1>1, <1>7, RoomAfter
<1> QED
  BY Zenon, <1>8, <1>9 DEF rc2, t, m

\* What is free, in terms of the room
LEMMA FreeIs ==
  ASSUME table_frames \in Nat
  PROVE  /\ FreeFrames = NFrames - table_frames - Cardinality(InUse(refcount)) /\ FreeFrames \in Int
         /\ Cardinality(InUse(refcount)) \in Nat /\ NFrames \in Nat
         /\ Room(refcount, table_frames) => FreeFrames >= 0
<1>1. FreeFrames = NFrames - table_frames - Cardinality(InUse(refcount))
  BY Zenon DEF FreeFrames, InUse
<1>2. Cardinality(InUse(refcount)) \in Nat /\ NFrames \in Nat
  BY Zenon, InUseFinite, SpacesAssumption
<1> QED
  BY <1>1, <1>2 DEF Room

\* s is replaced by t, which has a leaf for g.
Grows(R, s, g, t, rc2, m) ==
  /\ Balanced(Swap(R, s, t), rc2, m) /\ Room(rc2, m)
  /\ t \in Space /\ t.pml4 = s.pml4 /\ \A h \in Pages : h # g => t.pte[h] = s.pte[h]

\* map_page, with the frames it needs
LEMMA Mapped ==
  ASSUME NEW R, Balanced(R, refcount, table_frames), NEW s \in R, NEW g \in Pages, ~Present(s, g),
         ~MapFails(s, g), NEW w \in BOOLEAN
  PROVE  Grows(R, s, g, map_page(s, g, w), [refcount EXCEPT ![alloc_frame] = 1], table_frames + NewTables(s, g))
<1> DEFINE a == alloc_frame
           rc2 == [refcount EXCEPT ![a] = 1]
           m == table_frames + NewTables(s, g)
           t == map_page(s, g, w)
<1>1. s \in Space /\ table_frames \in Nat /\ refcount \in [Frames -> Nat]
  BY Zenon, CountIsNat DEF Balanced, Kin, Exact
<1>2. NewTables(s, g) \in Nat
  BY Zenon DEF NewTables
<1>3. FreeFrames >= 1 + NewTables(s, g) /\ FreeFrames >= 1
  <2>1. FreeFrames \in Int /\ ~(FreeFrames < 1 + NewTables(s, g))
    BY Zenon, <1>1, FreeIs DEF MapFails
  <2> QED
    BY <1>2, <2>1
<1>4. a \in Frames /\ refcount[a] = 0
  BY Zenon, <1>1, <1>3, AllocFrame
<1>5. /\ t \in Space /\ t.pml4 = s.pml4
      /\ t.pte[g].frame = a /\ \A h \in Pages : h # g => t.pte[h] = s.pte[h]
      /\ \A n \in Int : n + NewTables(s, g) = n + Cardinality(t.tables) - Cardinality(s.tables)
  BY SMTT(30), <1>1, <1>4, MapPageIs
<1> HIDE DEF t
<1>6. m = table_frames + Cardinality(t.tables) - Cardinality(s.tables) /\ m \in Int
  <2>1. table_frames \in Int
    BY <1>1
  <2>2. m \in Int
    BY <1>1, <1>2
  <2> QED
    BY Zenon, <1>5, <2>1, <2>2
<1>7. m + 1 + Cardinality(InUse(refcount)) <= NFrames
  <2>1. /\ FreeFrames = NFrames - table_frames - Cardinality(InUse(refcount))
        /\ Cardinality(InUse(refcount)) \in Nat /\ NFrames \in Nat
    BY Zenon, <1>1, FreeIs
  <2> QED
    BY <1>1, <1>2, <1>3, <2>1
<1> HIDE DEF m, a
<1>8. \A f \in Frames : rc2[f] > 0 => refcount[f] > 0 \/ f = a
  BY Zenon, <1>1, <1>4
<1>9. Balanced(Swap(R, s, t), rc2, m)
  BY Zenon, <1>4, <1>5, <1>6, BalancedMap
<1> HIDE DEF rc2
<1>10. Room(rc2, m)
  BY Zenon, <1>6, <1>7, <1>8, RoomTaken
<1> QED
  BY Zenon, <1>5, <1>9, <1>10 DEF rc2, m, t, a, Grows

\* handle_cow_fault
LEMMA Faulted ==
  ASSUME NEW R, Balanced(R, refcount, table_frames), Room(refcount, table_frames),
         NEW p \in Procs, space[p] \in R, NEW g \in Pages, CowOk(p, g)
  PROVE  LET old == space[p].pte[g].frame
             new == IF CowCopies(p, g) THEN alloc_frame ELSE old
             t == [space[p] EXCEPT !.pte[g] = [frame |-> new, writable |-> TRUE]]
         IN  /\ Balanced(Swap(R, space[p], t), CopyRefcount(old, new), table_frames)
             /\ Room(CopyRefcount(old, new), table_frames)
             /\ t \in Space /\ t.pml4 = space[p].pml4
<1>0. PICK s \in R : s = space[p]
  BY Zenon
<1> DEFINE old == s.pte[g].frame
           new == IF CowCopies(p, g) THEN alloc_frame ELSE old
           e == [frame |-> new, writable |-> TRUE]
           t == [s EXCEPT !.pte[g] = e]
<1>1. s \in Space /\ table_frames \in Nat /\ refcount \in [Frames -> Nat]
  BY Zenon, CountIsNat DEF Balanced, Kin, Exact
<1>2. Present(s, g)
  BY Zenon, <1>0 DEF CowOk, CowCopies
<1>3. old \in Frames
  BY Zenon, <1>1, <1>2, SpaceFields, PteFields DEF Present
<1>4. Maps(s, old)
  BY Zenon DEF Maps
<1>5. refcount[old] \in Nat /\ refcount[old] >= 1
  BY Zenon, <1>3, <1>4, MappedIsCounted
<1>6. CASE CowCopies(p, g)
  <2>1. FreeFrames > 0 /\ new = alloc_frame
    BY Zenon, <1>6 DEF CowOk
  <2>2. FreeFrames \in Int
    BY Zenon, <1>1, FreeIs
  <2>3. FreeFrames >= 1
    BY <2>1, <2>2
  <2>4. new \in Frames /\ refcount[new] = 0
    BY Zenon, <1>1, <2>1, <2>3, AllocFrame
  <2>5. e \in Pte /\ e.frame = new
    BY Zenon, <2>4 DEF Pte
  <2>6. new # old
    BY <1>5, <2>4
  <2>7. /\ t \in Space /\ t.pml4 = s.pml4 /\ t.tables = s.tables
        /\ t.pte[g] = e /\ \A h \in Pages : h # g => t.pte[h] = s.pte[h]
    BY ZenonT(40), <1>1, <2>5, LeafIs
  <2>8. t.pte[g].frame = new
    BY Zenon, <2>5, <2>7
  <2>9. CopyRefcount(old, new) = decref([refcount EXCEPT ![new] = 1], {old})
    BY Zenon, <2>6 DEF CopyRefcount
  <2>10. Balanced(Swap(R, s, t), CopyRefcount(old, new), table_frames)
    <3>1. PICK a \in Frames : a = new
      BY Zenon, <2>4
    <3>2. PICK b \in Frames : b = old
      BY Zenon, <1>3
    <3>3. refcount[a] = 0 /\ t.pte[g].frame = a /\ s.pte[g].frame = b
      BY Zenon, <2>4, <2>8, <3>1, <3>2
    <3>4. \A h \in Pages : h # g => t.pte[h] = s.pte[h]
      BY Zenon, <2>7
    <3>5. t \in Space /\ t.pml4 = s.pml4 /\ t.tables = s.tables
      BY Zenon, <2>7
    <3> HIDE DEF t
    <3>6. Balanced(Swap(R, s, t), decref([refcount EXCEPT ![a] = 1], {b}), table_frames)
      BY Zenon, <3>3, <3>4, <3>5, BalancedCopy
    <3> QED
      BY Zenon, <2>9, <3>1, <3>2, <3>6
  <2>11. Room(CopyRefcount(old, new), table_frames)
    <3>1. table_frames + 1 + Cardinality(InUse(refcount)) <= NFrames
      <4>1. /\ FreeFrames = NFrames - table_frames - Cardinality(InUse(refcount))
            /\ Cardinality(InUse(refcount)) \in Nat /\ NFrames \in Nat
        BY Zenon, <1>1, FreeIs
      <4> QED
        BY <1>1, <2>3, <4>1
    <3>2. PICK a \in Frames : a = new
      BY Zenon, <2>4
    <3>3. PICK b \in Frames : b = old
      BY Zenon, <1>3
    <3>4. PICK rc2 : rc2 = decref([refcount EXCEPT ![a] = 1], {b})
      BY Zenon
    <3>5. \A f \in Frames : rc2[f] > 0 => refcount[f] > 0 \/ f = a
      BY <1>1, <3>4 DEF decref
    <3>6. rc2 = CopyRefcount(old, new)
      BY Zenon, <2>9, <3>2, <3>3, <3>4
    <3>7. table_frames \in Int
      BY <1>1
    <3>8. Room(rc2, table_frames)
      BY Zenon, <3>1, <3>5, <3>7, RoomTaken
    <3> QED
      BY Zenon, <3>6, <3>8
  <2> QED
    BY Zenon, <1>0, <2>7, <2>10, <2>11
<1>7. CASE ~CowCopies(p, g)
  <2>1. new = old /\ ~(refcount[old] > 1)
    BY Zenon, <1>0, <1>2, <1>7 DEF CowCopies
  <2>2. refcount[old] = 1
    BY <1>5, <2>1
  <2>3. e \in Pte /\ e.frame = old
    BY Zenon, <1>3, <2>1 DEF Pte
  <2>4. /\ t \in Space /\ t.pml4 = s.pml4 /\ t.tables = s.tables
        /\ t.pte[g] = e /\ \A h \in Pages : h # g => t.pte[h] = s.pte[h]
    BY ZenonT(40), <1>1, <2>3, LeafIs
  <2>5. \A h \in Pages : t.pte[h].frame = s.pte[h].frame
    BY Zenon, <2>3, <2>4
  <2>6. CopyRefcount(old, new) = refcount
    BY Zenon, <2>1 DEF CopyRefcount
  <2>7. Sole(t, refcount)
    <3>1. ASSUME NEW h \in Pages, t.pte[h].writable
          PROVE  refcount[t.pte[h].frame] = 1
      <4>1. CASE h = g
        BY ZenonT(40), <2>2, <2>3, <2>4, <4>1
      <4>2. CASE h # g
        <5>1. t.pte[h] = s.pte[h]
          BY Zenon, <2>4, <4>2
        <5>2. refcount[s.pte[h].frame] = 1
          BY Zenon, <3>1, <5>1 DEF Balanced, Sole
        <5> QED
          BY Zenon, <5>1, <5>2
      <4> QED
        BY Zenon, <4>1, <4>2
    <3> QED
      BY Zenon, <3>1 DEF Sole
  <2>8. Balanced(Swap(R, s, t), refcount, table_frames)
    <3> HIDE DEF t
    <3> QED
      BY Zenon, <2>4, <2>5, <2>7, BalancedFlags
  <2> QED
    BY Zenon, <1>0, <2>4, <2>6, <2>8
<1> QED
  BY Zenon, <1>6, <1>7

\* The pages of table t that copy_user_pages shares, and the child it makes of c
SharedPages(s, t) == {g \in Pages : TableOf[g] = t /\ Present(s, g)}
Child(c, s, t) ==
  [pml4 |-> c.pml4, tables |-> c.tables \cup {t},
   pte |-> [g \in Pages |-> IF g \in SharedPages(s, t) THEN WriteProtected(s, SharedPages(s, t)).pte[g] ELSE c.pte[g]]]

\* No refcount is at the value where incref stops counting.
Unsaturated == \A f \in Frames : refcount[f] < RC_MAX

\* The child c has leaves of s in the tables below t only.
Behind(c, s, t) ==
  /\ \A x \in c.tables : x < t
  /\ \A g \in Pages : Present(c, g) => c.pte[g].frame = s.pte[g].frame /\ TableOf[g] < t

\* s and c are replaced by parent and child, which share the pages of table t.
Splits(R, s, c, t, parent, child, rc2, m) ==
  /\ Balanced(Swap(R, s, parent), refcount, table_frames)
  /\ Balanced(Swap(Swap(R, s, parent), c, child), rc2, m) /\ Room(rc2, m)
  /\ parent \in Space /\ parent.pml4 = s.pml4 /\ child \in Space /\ child.pml4 = c.pml4
  /\ child.tables = c.tables \cup {t}
  /\ \A h \in Pages : parent.pte[h].frame = s.pte[h].frame
  /\ \A h \in Pages : Present(child, h) =>
         child.pte[h].frame = s.pte[h].frame /\ (TableOf[h] < t \/ TableOf[h] = t)

\* copy_user_pages of table t
LEMMA Shared ==
  ASSUME NEW R, Balanced(R, refcount, table_frames), NEW s \in R, NEW c \in R, s # c,
         NEW t \in Tables, FreeFrames > 0, Unsaturated, Behind(c, s, t)
  PROVE  Splits(R, s, c, t, WriteProtected(s, SharedPages(s, t)), Child(c, s, t),
                incref(DataFrames(s, SharedPages(s, t))), table_frames + 1)
<1> DEFINE S == SharedPages(s, t)
           parent == WriteProtected(s, S)
           child == Child(c, s, t)
           rc2 == incref(DataFrames(s, S))
           m == table_frames + 1
           Q == Swap(R, s, parent)
<1>0. /\ \A x \in c.tables : x < t
      /\ \A g \in Pages : Present(c, g) => c.pte[g].frame = s.pte[g].frame /\ TableOf[g] < t
  BY Zenon DEF Behind
<1>1. s \in Space /\ c \in Space /\ table_frames \in Nat /\ refcount \in [Frames -> Nat] /\ Kin(R)
  BY Zenon, CountIsNat DEF Balanced, Kin, Exact
<1>2. S \in SUBSET Pages /\ \A g \in S : Present(s, g) /\ TableOf[g] = t
  BY Zenon DEF SharedPages
<1>3. /\ parent \in Space /\ parent.pml4 = s.pml4 /\ parent.tables = s.tables
      /\ \A h \in Pages : parent.pte[h].frame = s.pte[h].frame
      /\ \A h \in S : ~parent.pte[h].writable
      /\ \A h \in Pages : h \notin S => parent.pte[h] = s.pte[h]
  BY Zenon, <1>1, <1>2, WriteProtectedIs
<1>4. child = [pml4 |-> c.pml4, tables |-> c.tables \cup {t},
               pte |-> [g \in Pages |-> IF g \in S THEN parent.pte[g] ELSE c.pte[g]]]
  BY Zenon DEF Child
<1> HIDE DEF S, parent, child
<1>5. /\ child \in Space /\ child.pml4 = c.pml4 /\ child.tables = c.tables \cup {t}
      /\ \A h \in Pages : child.pte[h] = IF h \in S THEN parent.pte[h] ELSE c.pte[h]
  <2>1. c.pml4 \in Frames /\ c.tables \in SUBSET Tables /\ \A h \in Pages : c.pte[h] \in Pte
    BY Zenon, <1>1, SpaceFields
  <2>2. \A h \in Pages : parent.pte[h] \in Pte
    BY Zenon, <1>3, SpaceFields
  <2>3. c.tables \cup {t} \in SUBSET Tables
    BY Zenon, <2>1
  <2> QED
    BY Zenon, <1>4, <2>1, <2>2, <2>3 DEF Space, Frames
<1>6. Balanced(Q, refcount, table_frames)
  <2>1. Sole(parent, refcount)
    <3>1. ASSUME NEW h \in Pages, parent.pte[h].writable
          PROVE  refcount[parent.pte[h].frame] = 1
      <4>1. parent.pte[h] = s.pte[h]
        BY Zenon, <1>3, <3>1
      <4>2. refcount[s.pte[h].frame] = 1
        BY Zenon, <3>1, <4>1 DEF Balanced, Sole
      <4> QED
        BY Zenon, <4>1, <4>2
    <3> QED
      BY Zenon, <3>1 DEF Sole
  <2> QED
    BY Zenon, <1>3, <2>1, BalancedFlags
<1>7. c \in Q /\ parent \in Q
  BY Zenon DEF Swap
<1> HIDE DEF Q
<1>8. ASSUME NEW h \in S
      PROVE  Present(parent, h) /\ ~Present(c, h) /\ ~parent.pte[h].writable /\ child.pte[h] = parent.pte[h]
  <2>1. h \in Pages /\ Present(s, h) /\ TableOf[h] = t
    BY Zenon, <1>2
  <2>2. t \in Nat
    <3>1. Tables \subseteq Nat
      BY Zenon, TableOfPage DEF Tables
    <3> QED
      BY Zenon, <3>1
  <2>3. ~(TableOf[h] < t)
    BY <2>1, <2>2
  <2> QED
    BY Zenon, <1>0, <1>3, <1>5, <2>1, <2>3 DEF Present
<1>9. \A h \in Pages : h \notin S => child.pte[h] = c.pte[h]
  BY Zenon, <1>5
<1>10. \A h \in Pages : Present(c, h) => c.pte[h].frame = parent.pte[h].frame
  BY Zenon, <1>0, <1>3
<1>11. DataFrames(s, S) = DataFrames(parent, S)
  BY ZenonT(40), <1>2, <1>3 DEF DataFrames
<1>12. ASSUME NEW f \in Frames, f \in DataFrames(s, S)
       PROVE  refcount[f] >= 1
  <2>1. Maps(s, f)
    BY ZenonT(40), <1>1, <1>2, <1>12, DataFramesOf DEF Maps
  <2> QED
    BY Zenon, <2>1, MappedIsCounted
<1>13. GotMore(parent, S, refcount, rc2) /\ \A f \in Frames : rc2[f] > 0 => refcount[f] > 0
  <2> DEFINE D == DataFrames(s, S)
  <2> HIDE DEF D
  <2>1. /\ rc2 \in [Frames -> Nat]
        /\ \A f \in Frames : f \in D => rc2[f] = refcount[f] + 1
        /\ \A f \in Frames : f \notin D => rc2[f] = refcount[f]
    BY <1>1 DEF incref, Unsaturated, D
  <2>2. \A f \in Frames : f \in D => refcount[f] >= 1
    BY Zenon, <1>12 DEF D
  <2>3. \A f \in Frames : rc2[f] > 0 => refcount[f] > 0
    BY <1>1, <2>1, <2>2
  <2> QED
    BY Zenon, <1>11, <2>1, <2>3 DEF GotMore, D
<1> HIDE DEF rc2
<1>14. m = table_frames + Cardinality(child.tables) - Cardinality(c.tables) /\ m \in Int
  <2>1. IsFiniteSet(c.tables) /\ Cardinality(c.tables) \in Nat
    BY Zenon, <1>1, TableUsesCount
  <2>2. t \notin c.tables
    <3>1. ~(t < t)
      <4>1. t \in Nat
        <5>1. Tables \subseteq Nat
          BY Zenon, TableOfPage DEF Tables
        <5> QED
          BY Zenon, <5>1
      <4> QED
        BY <4>1
    <3> QED
      BY Zenon, <1>0, <3>1
  <2>3. Cardinality(c.tables \cup {t}) = Cardinality(c.tables) + 1
    BY Zenon, <2>1, <2>2, FS_AddElement
  <2>4. Cardinality(child.tables) = Cardinality(c.tables) + 1
    BY Zenon, <1>5, <2>3
  <2> QED
    BY <1>1, <2>1, <2>4
<1>15. m + Cardinality(InUse(refcount)) <= NFrames
  <2>1. /\ FreeFrames = NFrames - table_frames - Cardinality(InUse(refcount))
        /\ Cardinality(InUse(refcount)) \in Nat /\ NFrames \in Nat
    BY Zenon, <1>1, FreeIs
  <2> QED
    BY <1>1, <2>1
<1> HIDE DEF m
<1>16. Balanced(Swap(Q, c, child), rc2, m)
  <2>1. GotMore(parent, S, refcount, rc2)
    BY Zenon, <1>13
  <2>2. \A h \in S : Present(parent, h) /\ ~Present(c, h) /\ ~parent.pte[h].writable /\ child.pte[h] = parent.pte[h]
    BY Zenon, <1>8
  <2>3. child \in Space /\ child.pml4 = c.pml4 /\ S \in SUBSET Pages
    BY Zenon, <1>2, <1>5
  <2>4. m = table_frames + Cardinality(child.tables) - Cardinality(c.tables)
    BY Zenon, <1>14
  <2> QED
    BY Zenon, <1>6, <1>7, <1>9, <1>10, <2>1, <2>2, <2>3, <2>4, BalancedShare
<1>17. Room(rc2, m)
  BY Zenon, <1>13, <1>14, <1>15, RoomKept
<1>18. ASSUME NEW h \in Pages, Present(child, h)
       PROVE  child.pte[h].frame = s.pte[h].frame /\ (TableOf[h] < t \/ TableOf[h] = t)
  <2>1. CASE h \in S
    BY Zenon, <1>2, <1>3, <1>5, <2>1
  <2>2. CASE h \notin S
    BY Zenon, <1>0, <1>5, <1>18, <2>2 DEF Present
  <2> QED
    BY Zenon, <2>1, <2>2
<1> QED
  BY Zenon, <1>3, <1>5, <1>6, <1>16, <1>17, <1>18 DEF S, parent, child, rc2, m, Q, Splits

=============================================================================
