--------------------------- MODULE AddressSpaces ---------------------------
(***************************************************************************)
(* Physical frames and the address spaces built from them: memory/pmm.rs,  *)
(* memory/vmm.rs, the write half of the page fault handler (idt.rs), the   *)
(* calls fork, exec, execve, brk, mmap and munmap (syscall/mod.rs), and    *)
(* the two places that free a dead process's space.                        *)
(*                                                                         *)
(* Calls run with interrupts off.  One that loops over pages is a first    *)
(* step, one step per iteration and a last step, with the variable op      *)
(* saying where it is: no other action is enabled in between.  Between     *)
(* calls any process may be the one that runs.                             *)
(*                                                                         *)
(* Data frames have an identity and a refcount.  The frames of page tables *)
(* are never shared and are only counted: table t of a space stands for    *)
(* the chain PDPT-PD-PT of a region, and a PML4 has a name of its own.  A  *)
(* call that only returns an error is left out.                            *)
(***************************************************************************)
EXTENDS Integers, Sequences, FiniteSets

CONSTANTS
  MAX_PROCESSES,  \* slots for user processes
  NFrames,        \* physical frames managed by the PMM (bound)
  RC_MAX,         \* largest refcount, 255 for u8
  NPages,         \* pages of the modelled part of an address space (bound)
  TableOf,        \* the table that covers a page
  Image,          \* the pages load_elf and exec map, in order
  ReadOnly,       \* image pages mapped without WRITABLE
  HeapPages,      \* where brk may place pages
  MmapPages,      \* where mmap may place regions
  MaxRegions,     \* MAX_MMAP_REGIONS
  MaxPages,       \* longest region, in pages (bound)
  MaxLost,        \* forks are made until so many have failed (bound)
  Values,         \* contents of a page: 0 as loaded, the others as written
  Workload,       \* the calls the programs make
  CR0_WP          \* whether the firmware left CR0.WP set; no code here sets it

ASSUME SpacesAssumption ==
  /\ MAX_PROCESSES \in Nat \ {0} /\ NFrames \in Nat /\ RC_MAX \in Nat \ {0}
  /\ NPages \in Nat /\ MaxRegions \in Nat /\ MaxLost \in Nat /\ MaxPages \in Nat
  /\ TableOf \in [1..NPages -> Nat \ {0}]
  /\ Image \in Seq(1..NPages)
  /\ \A i, j \in 1..Len(Image) : Image[i] = Image[j] => i = j
  /\ {TableOf[g] : g \in 1..NPages} = 1..Cardinality({TableOf[g] : g \in 1..NPages})
  /\ ReadOnly \subseteq 1..NPages
  /\ HeapPages \subseteq 1..NPages /\ MmapPages \subseteq 1..NPages
  /\ 0 \in Values /\ Values \subseteq Nat
  /\ CR0_WP \in BOOLEAN

Procs == 1..MAX_PROCESSES
Frames == 1..NFrames
NoFrame == 0
Pages == 1..NPages
Tables == {TableOf[g] : g \in Pages}

\* A leaf entry, and an address space: its PML4, the tables it has, its leaves
NoPte == [frame |-> NoFrame, writable |-> FALSE]
Pte == [frame : Frames, writable : BOOLEAN] \cup {NoPte}
Space == [pml4 : 1..NFrames, tables : SUBSET Tables, pte : [Pages -> Pte]]
EmptySpace(root) == [pml4 |-> root, tables |-> {}, pte |-> [g \in Pages |-> NoPte]]
NoSpace == EmptySpace(0)

VARIABLES
  refcount,      \* REFCOUNTS of data frames; the bitmap bit is refcount > 0
  table_frames,  \* how many frames hold page tables
  mem,           \* contents of data frames; a free frame's are normalised to 0
  space,         \* the space that pml4_phys of every process leads to
  cr3,           \* the PML4 a process runs on: CR3, or saved_cr3 while it waits
  heap,          \* heap_start and heap_end, 0 before the first brk
  regions,       \* mmap_regions
  dead,          \* spaces of dead processes not yet freed
  lost,          \* spaces no process and no list refers to any more
  op,            \* the call in progress
  halted         \* why the kernel stopped, "no" while it runs

vars == <<refcount, table_frames, mem, space, cr3, heap, regions, dead, lost, op, halted>>

NoOp == [kind |-> "none", proc |-> 0, new |-> NoSpace, from |-> 0, at |-> 0, to |-> 0]

TypeOK ==
  /\ refcount \in [Frames -> 0..RC_MAX]
  /\ table_frames \in 0..NFrames
  /\ mem \in [Frames -> Values]
  /\ space \in [Procs -> Space \cup {NoSpace}]
  /\ cr3 \in [Procs -> 0..NFrames]
  /\ heap \in [Procs -> [start : 0..NPages, end : 0..(NPages + 1)]]
  /\ regions \in [Procs -> Seq([base : Pages, pages : 1..NPages])]
  /\ \A p \in Procs : Len(regions[p]) <= MaxRegions
  /\ dead \subseteq Space /\ lost \subseteq Space
  /\ op \in [kind : {"none", "fork", "exec", "execve", "grow", "mmap"}, proc : Procs \cup {0},
             new : Space \cup {NoSpace}, from : 0..NPages, at : 0..(NPages + 1), to : 0..(NPages + 1)]
  /\ halted \in {"no", "oom", "bad_free", "brk_shared", "kernel_fault"}
----------------------------------------------------------------------------
(* memory/pmm.rs *)

FreeFrames == NFrames - table_frames - Cardinality({f \in Frames : refcount[f] > 0})
alloc_frame == CHOOSE f \in Frames : refcount[f] = 0 /\ \A g \in 1..(f - 1) : refcount[g] # 0
incref(S) == [f \in Frames |-> IF f \in S /\ refcount[f] < RC_MAX THEN refcount[f] + 1 ELSE refcount[f]]
decref(rc, S) == [f \in Frames |-> IF f \in S THEN rc[f] - 1 ELSE rc[f]]
CanDecref(S) == \A f \in S : refcount[f] > 0
CanFree(S) == \A f \in S : refcount[f] = 1

\* What a free frame held no longer matters: whoever takes it without zeroing
\* it gets an arbitrary value.
Settled(rc, m) == [f \in Frames |-> IF rc[f] = 0 THEN 0 ELSE m[f]]
----------------------------------------------------------------------------
(* memory/vmm.rs *)

Present(s, g) == s.pte[g].frame # NoFrame
DataFrames(s, S) == {s.pte[g].frame : g \in S} \ {NoFrame}

\* A PML4's name: the lowest that no space has
Spaces == {space[p] : p \in Procs} \cup dead \cup lost \cup {op.new}
create_user_pml4 ==
    LET used == {s.pml4 : s \in Spaces}
    IN  EmptySpace(CHOOSE r \in Frames : r \notin used /\ \A q \in 1..(r - 1) : q \in used)

\* map_page with a data frame taken just before; the missing table, if any,
\* takes one more frame, and there may be none.
NewTables(s, g) == IF TableOf[g] \in s.tables THEN 0 ELSE 1
MapFails(s, g) == FreeFrames < 1 + NewTables(s, g)
map_page(s, g, writable) ==
    [s EXCEPT !.tables = @ \cup {TableOf[g]}, !.pte[g] = [frame |-> alloc_frame, writable |-> writable]]
unmap_page(s, S) == [s EXCEPT !.pte = [g \in Pages |-> IF g \in S THEN NoPte ELSE @[g]]]

\* Takes the frames of map_page; v is what the data frame holds.
TakesFrames(s, g, v) ==
    /\ refcount' = [refcount EXCEPT ![alloc_frame] = 1]
    /\ mem' = [mem EXCEPT ![alloc_frame] = v]
    /\ table_frames' = table_frames + NewTables(s, g)

\* free_user_address_space: decref of every data frame, free_frame of every
\* table and of the PML4; decref panics on a frame that is free already.
free_user_address_space(s) ==
    /\ refcount' = decref(refcount, DataFrames(s, Pages))
    /\ mem' = Settled(refcount', mem)
    /\ table_frames' = table_frames - Cardinality(s.tables) - 1
FreePanics(s) == ~CanDecref(DataFrames(s, Pages))
----------------------------------------------------------------------------
Alive(p) == space[p] # NoSpace
Calm == op.kind = "none" /\ halted = "no"

\* Process p runs in user mode or makes a call, on its own page tables.
Runs(p) == Calm /\ Alive(p) /\ cr3[p] = space[p].pml4

\* The call in progress is of this kind and p makes it.
Within(p, kinds) == op.kind \in kinds /\ op.proc = p /\ halted = "no"

Halt(why) ==
    /\ halted' = why
    /\ UNCHANGED <<refcount, table_frames, mem, space, cr3, heap, regions, dead, lost, op>>

ImagePages == {Image[i] : i \in 1..Len(Image)}
ImageTables == {TableOf[g] : g \in ImagePages}

\* Memory holds the first program: its PML4, its tables and its pages.
ASSUME FirstFits == 1 + Cardinality(ImageTables) + Len(Image) <= NFrames

\* The space spawn_user builds for the first program
FirstSpace ==
    [pml4 |-> 1, tables |-> ImageTables,
     pte |-> [g \in Pages |->
        IF g \in ImagePages
        THEN [frame |-> CHOOSE i \in 1..Len(Image) : Image[i] = g, writable |-> g \notin ReadOnly]
        ELSE NoPte]]

Init ==
  /\ refcount = [f \in Frames |-> IF f <= Len(Image) THEN 1 ELSE 0]
  /\ table_frames = 1 + Cardinality(ImageTables)
  /\ mem = [f \in Frames |-> 0]
  /\ space = [p \in Procs |-> IF p = 1 THEN FirstSpace ELSE NoSpace]
  /\ cr3 = [p \in Procs |-> IF p = 1 THEN 1 ELSE 0]
  /\ heap = [p \in Procs |-> [start |-> 0, end |-> 0]]
  /\ regions = [p \in Procs |-> <<>>]
  /\ dead = {} /\ lost = {}
  /\ op = NoOp
  /\ halted = "no"
----------------------------------------------------------------------------
(* The end of a process *)

\* force_switch and kill_process put the space of the process they leave on
\* the deferred list; one that dies of a signal while it waits keeps its space
\* until Drop.  The slot's fields become those of Process::new_kernel.
Dies(p) ==
    /\ dead' = dead \cup {space[p]}
    /\ space' = [space EXCEPT ![p] = NoSpace]
    /\ cr3' = [cr3 EXCEPT ![p] = 0]
    /\ heap' = [heap EXCEPT ![p] = [start |-> 0, end |-> 0]]
    /\ regions' = [regions EXCEPT ![p] = <<>>]
    /\ UNCHANGED <<refcount, table_frames, mem, lost, op, halted>>

exit(p) == "exit" \in Workload /\ Runs(p) /\ Dies(p)

\* drain_deferred_free and Drop for Process free the space of a dead process.
free_dead(s) ==
    /\ Calm /\ s \in dead
    /\ IF FreePanics(s) THEN Halt("bad_free")
       ELSE /\ free_user_address_space(s)
            /\ dead' = dead \ {s}
            /\ UNCHANGED <<space, cr3, heap, regions, lost, op, halted>>
----------------------------------------------------------------------------
(* Writes and the page fault handler *)

\* A write through a present and writable leaf, by the program or by a call
\* that fills a buffer of its caller.  Calls mind WRITABLE only when CR0.WP is
\* set.
store(p, g, v) ==
    /\ Runs(p)
    /\ Present(space[p], g)
    /\ CR0_WP => space[p].pte[g].writable
    /\ mem' = [mem EXCEPT ![space[p].pte[g].frame] = v]
    /\ UNCHANGED <<refcount, table_frames, space, cr3, heap, regions, dead, lost, op, halted>>

\* handle_cow_fault: a shared page is copied, one with a single owner becomes
\* writable; Err when there is no frame for the copy, or no such page.
CowCopies(p, g) == Present(space[p], g) /\ refcount[space[p].pte[g].frame] > 1
CowOk(p, g) ==
    IF CowCopies(p, g) THEN FreeFrames > 0
    ELSE Present(space[p], g) /\ ~space[p].pte[g].writable
\* The refcounts and contents after old was replaced by new
\* Variants: the old frame keeps its reference; the new frame is not filled.
OldKept(old, new) == IF new = old THEN refcount ELSE [refcount EXCEPT ![new] = 1]
CopyRefcount(old, new) ==
    IF new = old THEN refcount ELSE decref([refcount EXCEPT ![new] = 1], {old})
NotCopied(old, new) == mem
CopyMem(old, new) == [mem EXCEPT ![new] = mem[old]]
handle_cow_fault(p, g) ==
    LET old == space[p].pte[g].frame
        new == IF CowCopies(p, g) THEN alloc_frame ELSE old
    IN  /\ space' = [space EXCEPT ![p].pte[g] = [frame |-> new, writable |-> TRUE]]
        /\ refcount' = CopyRefcount(old, new)
        /\ mem' = CopyMem(old, new)
        /\ UNCHANGED <<table_frames, cr3, heap, regions, dead, lost, op, halted>>

\* page_fault_handler after a write that the tables do not allow.  The kernel
\* only writes to user pages it found present.
page_fault(p, g, user) ==
    /\ Runs(p)
    /\ ~(Present(space[p], g) /\ space[p].pte[g].writable)
    /\ ~user => CR0_WP /\ Present(space[p], g)
    /\ IF CowOk(p, g) THEN handle_cow_fault(p, g)
       ELSE IF user THEN Dies(p) ELSE Halt("kernel_fault")
----------------------------------------------------------------------------
(* fork: create_user_pml4, copy_user_pages table by table, then the child *)

\* create_user_pml4 at the start of a call, which panics without a frame
Begin(p, kind) ==
    /\ kind \in Workload /\ Runs(p)
    /\ IF FreeFrames = 0 THEN Halt("oom")
       ELSE /\ table_frames' = table_frames + 1
            /\ op' = [NoOp EXCEPT !.kind = kind, !.proc = p, !.new = create_user_pml4, !.at = 1]
            /\ UNCHANGED <<refcount, mem, space, cr3, heap, regions, dead, lost, halted>>

fork_begin(p) == Cardinality(lost) < MaxLost /\ Begin(p, "fork")

\* One table of the parent: a table of the child, whose leaves are the parent's
\* with WRITABLE removed on both sides.
\* Variant: both sides keep the leaves writable.
LeftWritable(s, S) == s
WriteProtected(s, S) ==
    [s EXCEPT !.pte = [g \in Pages |-> IF g \in S THEN [@[g] EXCEPT !.writable = FALSE] ELSE @[g]]]
copy_user_pages(p, t) ==
    LET shared == {g \in Pages : TableOf[g] = t /\ Present(space[p], g)}
        parent == WriteProtected(space[p], shared)
    IN  /\ refcount' = incref(DataFrames(space[p], shared))
        /\ table_frames' = table_frames + 1
        /\ space' = [space EXCEPT ![p] = parent]
        /\ op' = [op EXCEPT !.at = @ + 1, !.new.tables = @ \cup {t},
                            !.new.pte = [g \in Pages |-> IF g \in shared THEN parent.pte[g] ELSE @[g]]]
        /\ UNCHANGED <<mem, cr3, heap, regions, dead, lost, halted>>

\* The rollback of copy_user_pages frees the child's tables and takes the
\* references back.  The PML4 is not among the frames it frees, and sys_fork
\* returns without freeing it.
fork_rollback ==
    /\ refcount' = decref(refcount, DataFrames(op.new, Pages))
    /\ table_frames' = table_frames - Cardinality(op.new.tables)
    /\ lost' = lost \cup {EmptySpace(op.new.pml4)}
    /\ op' = NoOp
    /\ UNCHANGED <<mem, space, cr3, heap, regions, dead, halted>>

fork_table(p) ==
    /\ Within(p, {"fork"}) /\ op.at \in Tables
    /\ IF op.at \notin space[p].tables
       THEN /\ op' = [op EXCEPT !.at = @ + 1]
            /\ UNCHANGED <<refcount, table_frames, mem, space, cr3, heap, regions, dead, lost, halted>>
       ELSE IF FreeFrames > 0 THEN copy_user_pages(p, op.at) ELSE fork_rollback

\* The child takes the lowest free slot.  When there is none, or no kernel
\* stack, sys_fork returns ENOMEM and nothing refers to the child's space.
fork_end(p) ==
    LET slots == {c \in Procs : ~Alive(c)}
        child == CHOOSE c \in slots : \A d \in slots : c <= d
    IN  /\ Within(p, {"fork"}) /\ op.at \notin Tables
        /\ \/ /\ slots # {}
              /\ space' = [space EXCEPT ![child] = op.new]
              /\ cr3' = [cr3 EXCEPT ![child] = op.new.pml4]
              /\ UNCHANGED lost
           \/ /\ lost' = lost \cup {op.new}
              /\ UNCHANGED <<space, cr3>>
        /\ op' = NoOp
        /\ UNCHANGED <<refcount, table_frames, mem, heap, regions, dead, halted>>
----------------------------------------------------------------------------
(* exec and execve: a new space is built, then replaces the old one *)

exec_begin(p, kind) == Begin(p, kind)

\* A call that fails frees the new space and returns to the old program.
Abandons(p) ==
    /\ Within(p, {"exec", "execve"}) /\ op.at <= Len(Image)
    /\ free_user_address_space(op.new)
    /\ op' = NoOp
    /\ UNCHANGED <<space, cr3, heap, regions, dead, lost, halted>>

\* load_elf finds a segment it cannot load.
exec_bad_elf(p) == Abandons(p)

\* One page of load_elf and of the stack, from zeroed frames.  Without a frame
\* the call fails; without one for the table map_page panics.
exec_page(p) ==
    /\ Within(p, {"exec", "execve"}) /\ op.at <= Len(Image)
    /\ IF FreeFrames = 0
       THEN Abandons(p)
       ELSE IF MapFails(op.new, Image[op.at]) THEN Halt("oom")
       ELSE /\ TakesFrames(op.new, Image[op.at], 0)
            /\ op' = [op EXCEPT !.new = map_page(@, Image[op.at], Image[op.at] \notin ReadOnly), !.at = @ + 1]
            /\ UNCHANGED <<space, cr3, heap, regions, dead, lost, halted>>

\* The end of sys_exec: the old space is freed, pml4_phys is set and CR3 is
\* loaded from it.  sys_execve also sets the heap, and loads the CR3 it had on
\* entry; when the arguments are too long it returns after the free, before
\* pml4_phys is set.
USER_HEAP_BASE == CHOOSE b \in HeapPages : \A g \in HeapPages : b <= g
RestoredCr3(p) == IF op.kind = "exec" THEN op.new.pml4 ELSE cr3[p]
exec_end(p) ==
    \E too_big \in IF op.kind = "execve" THEN BOOLEAN ELSE {FALSE} :
    /\ Within(p, {"exec", "execve"}) /\ op.at > Len(Image)
    /\ IF FreePanics(space[p]) THEN Halt("bad_free")
       ELSE /\ free_user_address_space(space[p])
            /\ space' = IF too_big THEN space ELSE [space EXCEPT ![p] = op.new]
            /\ lost' = IF too_big THEN lost \cup {op.new} ELSE lost
            /\ heap' = IF op.kind = "exec" \/ too_big THEN heap
                       ELSE [heap EXCEPT ![p] = [start |-> USER_HEAP_BASE, end |-> USER_HEAP_BASE]]
            /\ cr3' = [cr3 EXCEPT ![p] = RestoredCr3(p)]
            /\ op' = NoOp
            /\ UNCHANGED <<regions, dead, halted>>
----------------------------------------------------------------------------
(* brk, with page-aligned breaks *)

\* The heap base is drawn at the first call, for a forked child too.
HeapOf(p, b) == IF heap[p].start = 0 THEN [start |-> b, end |-> b] ELSE heap[p]

brk_begin(p, b, new_end) ==
    /\ "brk" \in Workload /\ Runs(p)
    /\ heap[p].start # 0 => b = heap[p].start
    /\ new_end > HeapOf(p, b).end /\ new_end - 1 \in HeapPages
    /\ heap' = [heap EXCEPT ![p] = HeapOf(p, b)]
    /\ op' = [NoOp EXCEPT !.kind = "grow", !.proc = p, !.at = HeapOf(p, b).end, !.to = new_end]
    /\ UNCHANGED <<refcount, table_frames, mem, space, cr3, regions, dead, lost, halted>>

\* One page of a growing heap, not zeroed; a page that is mapped already is
\* kept.  Out of frames, the break stays where the loop stopped.
brk_page(p) ==
    /\ Within(p, {"grow"})
    /\ IF op.at < op.to /\ Present(space[p], op.at)
       THEN /\ op' = [op EXCEPT !.at = @ + 1]
            /\ UNCHANGED <<refcount, table_frames, mem, space, cr3, heap, regions, dead, lost, halted>>
       ELSE IF op.at = op.to \/ FreeFrames = 0
       THEN /\ heap' = [heap EXCEPT ![p].end = op.at]
            /\ op' = NoOp
            /\ UNCHANGED <<refcount, table_frames, mem, space, cr3, regions, dead, lost, halted>>
       ELSE IF MapFails(space[p], op.at) THEN Halt("oom")
       ELSE /\ \E v \in Values : TakesFrames(space[p], op.at, v)
            /\ space' = [space EXCEPT ![p] = map_page(@, op.at, TRUE)]
            /\ op' = [op EXCEPT !.at = @ + 1]
            /\ UNCHANGED <<cr3, heap, regions, dead, lost, halted>>

\* p gives up the pages S of its space.
Releases(p, S) ==
    /\ refcount' = decref(refcount, DataFrames(space[p], S))
    /\ mem' = Settled(refcount', mem)
    /\ space' = [space EXCEPT ![p] = unmap_page(@, S)]
    /\ UNCHANGED <<table_frames, cr3, dead, lost, halted>>

\* A shrinking heap: free_frame, which panics on a frame that is still shared
brk_shrink(p, new_end) ==
    LET gone == new_end..(heap[p].end - 1)
    IN  /\ "brk" \in Workload /\ Runs(p)
        /\ heap[p].start # 0 /\ new_end \in heap[p].start..(heap[p].end - 1)
        /\ IF ~CanFree(DataFrames(space[p], gone)) THEN Halt("brk_shared")
           ELSE /\ Releases(p, gone)
                /\ heap' = [heap EXCEPT ![p].end = new_end]
                /\ UNCHANGED <<regions, op>>
----------------------------------------------------------------------------
(* mmap and munmap *)

Region(r) == r.base..(r.base + r.pages - 1)

\* The search starts at a random base and moves past regions and mapped pages:
\* it ends at some hole, or finds none and returns ENOMEM.
mmap_begin(p, base, n) ==
    /\ "mmap" \in Workload /\ Runs(p)
    /\ Len(regions[p]) < MaxRegions
    /\ base..(base + n - 1) \subseteq MmapPages
    /\ \A g \in base..(base + n - 1) :
          ~Present(space[p], g) /\ \A i \in 1..Len(regions[p]) : g \notin Region(regions[p][i])
    /\ op' = [NoOp EXCEPT !.kind = "mmap", !.proc = p, !.from = base, !.at = base, !.to = base + n]
    /\ UNCHANGED <<refcount, table_frames, mem, space, cr3, heap, regions, dead, lost, halted>>

\* One page of the region, not zeroed.  Out of frames, the pages mapped so far
\* are freed and no region is recorded.
NewRegion == [base |-> op.from, pages |-> op.to - op.from]
mmap_page(p) ==
    /\ Within(p, {"mmap"})
    /\ IF op.at = op.to
       THEN /\ regions' = [regions EXCEPT ![p] = Append(@, NewRegion)]
            /\ op' = NoOp
            /\ UNCHANGED <<refcount, table_frames, mem, space, cr3, heap, dead, lost, halted>>
       ELSE IF FreeFrames = 0
       THEN /\ Releases(p, op.from..(op.at - 1))
            /\ op' = NoOp
            /\ UNCHANGED <<heap, regions>>
       ELSE IF MapFails(space[p], op.at) THEN Halt("oom")
       ELSE /\ \E v \in Values : TakesFrames(space[p], op.at, v)
            /\ space' = [space EXCEPT ![p] = map_page(@, op.at, TRUE)]
            /\ op' = [op EXCEPT !.at = @ + 1]
            /\ UNCHANGED <<cr3, heap, regions, dead, lost, halted>>

\* munmap gives up the whole first region that contains the range, with decref.
munmap(p, addr, n) ==
    LET fits == {i \in 1..Len(regions[p]) : addr..(addr + n - 1) \subseteq Region(regions[p][i])}
    IN  /\ "munmap" \in Workload /\ Runs(p)
        /\ \E i \in fits :
            /\ \A j \in fits : i <= j
            /\ IF ~CanDecref(DataFrames(space[p], Region(regions[p][i]))) THEN Halt("bad_free")
               ELSE /\ Releases(p, Region(regions[p][i]))
                    /\ regions' = [regions EXCEPT ![p] = SubSeq(@, 1, i - 1) \o SubSeq(@, i + 1, Len(@))]
                    /\ UNCHANGED <<heap, op>>
----------------------------------------------------------------------------
Next ==
  \/ \E s \in dead : free_dead(s)
  \/ \E p \in Procs :
      \/ exit(p)
      \/ \E g \in Pages, v \in Values \ {0} : store(p, g, v)
      \/ \E g \in Pages, user \in BOOLEAN : page_fault(p, g, user)
      \/ fork_begin(p) \/ fork_table(p) \/ fork_end(p)
      \/ \E kind \in {"exec", "execve"} : exec_begin(p, kind)
      \/ exec_page(p) \/ exec_bad_elf(p) \/ exec_end(p)
      \/ \E b \in HeapPages, g \in HeapPages : brk_begin(p, b, g + 1)
      \/ brk_page(p)
      \/ \E g \in HeapPages : brk_shrink(p, g)
      \/ \E g \in MmapPages, n \in 1..MaxPages : mmap_begin(p, g, n)
      \/ mmap_page(p)
      \/ \E g \in MmapPages, n \in 1..MaxPages : munmap(p, g, n)

Spec == Init /\ [][Next]_vars
----------------------------------------------------------------------------
(* Properties *)

\* The refcount of every frame is the number of leaves that map it, in the
\* spaces of processes, of dead processes, of the call in progress and in those
\* that were lost, and the table frames in use are those of the same spaces:
\* fork's increments, the copy on a write fault, the rollbacks of calls that ran
\* out of memory and the two ways to free a space balance.
Users(f) == UNION {{<<s.pml4, g>> : g \in {h \in Pages : s.pte[h].frame = f}} : s \in Spaces}
RefcountIsExact ==
  /\ \A f \in Frames : refcount[f] = Cardinality(Users(f))
  /\ table_frames = Cardinality(Spaces \ {NoSpace})
                    + Cardinality(UNION {{<<s.pml4, t>> : t \in s.tables} : s \in Spaces})

\* A frame that a process can write to is mapped nowhere else: not by another
\* process, not by the child that a fork is building, not by a dead process.
NoWritableSharing ==
  \A p \in Procs, g \in Pages : space[p].pte[g].writable =>
    \A s \in Spaces, h \in Pages :
      s.pte[h].frame = space[p].pte[g].frame => s = space[p] /\ h = g

\* Every process has a memory of its own: shared frames, copies on a write and
\* page tables give the programs what PrivateMemory promises.
Absent == -1   \* not one of Values
View == [p \in Procs |-> [g \in Pages |-> IF Present(space[p], g) THEN mem[space[p].pte[g].frame] ELSE Absent]]
Private == INSTANCE PrivateMemory WITH
    view <- View, First <- 1, FreshImage <- [g \in Pages |-> IF g \in ImagePages THEN 0 ELSE Absent]
MemoryIsPrivate == Private!Spec
============================================================================
