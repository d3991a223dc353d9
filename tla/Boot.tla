-------------------------------- MODULE Boot --------------------------------
(***************************************************************************)
(* The boot of the system, from the UEFI loader to the first user          *)
(* instruction: efi_main of indo-boot and kernel_main of indo-kernel, one  *)
(* action for each call kernel_main makes.                                 *)
(*                                                                         *)
(* What makes the order matter: the kernel is linked at KERNEL_VIRT_BASE,  *)
(* loaded anywhere, and runs kernel_main at PHYSICAL addresses through an  *)
(* identity map that no user page table has.  Whatever the processor or    *)
(* an interrupt handler will reach later - descriptor tables, stacks,      *)
(* handlers, relocated pointers, device registers - must have been turned  *)
(* into an upper-half address that every page table maps.                  *)
(*                                                                         *)
(* Addresses are in words.  The low half of the address space holds the    *)
(* identity map of IDENTITY pages (4 GiB in the code); the upper half      *)
(* starts at MMIO_UPPER_BASE, the image lies in its middle and the heap    *)
(* three quarters up, as 0xFFFFFFFF_00000000, _80000000 and _C0000000 do.  *)
(* The four levels of a page table are abstracted to one table per half;   *)
(* a process shares the kernel's upper table and owns its lower one.       *)
(***************************************************************************)
EXTENDS Loader, Platform, Initrd

CONSTANTS
    IDENTITY,        \* pages below 4 GiB
    MAX_FRAMES,      \* frames the PMM's bitmap can track
    HEAP_PAGES,      \* pages of the initial kernel heap
    HARDEN_PAGES,    \* pages harden_identity_map leaves executable (1 MiB)
    STACK_PAGES,     \* pages of a user stack
    FALLBACK_TESTS,  \* test programs spawned when there is no shell
    Machines         \* the machines and boot media considered

VARIABLES
    env,     \* the machine: never changes
    at,      \* [stage, pc]: how far the boot has come
    ram,     \* physical word -> contents (the kernel's image)
    cpu,     \* the processor's registers
    mem,     \* PMM and page tables
    k,       \* the kernel's statics
    io       \* IO-APIC redirection table and LAPIC timer

vars == <<env, at, ram, cpu, mem, k, io>>

-----------------------------------------------------------------------------
(* Addresses. *)

MMIO_UPPER_BASE  == IDENTITY * PAGE
KERNEL_VIRT_BASE == MMIO_UPPER_BASE + (IDENTITY \div 2) * PAGE
KERNEL_HEAP_BASE == MMIO_UPPER_BASE + 3 * (IDENTITY \div 4) * PAGE
ADDRESSES        == 2 * IDENTITY * PAGE

LAPIC_PHYS  == (IDENTITY - 1) * PAGE
IOAPIC_PHYS == (IDENTITY - 2) * PAGE

(* The timer handler's own address of the EOI register. *)
LAPIC_EOI_VIRT == MMIO_UPPER_BASE + LAPIC_PHYS

FIRMWARE == -1     \* CR3 of the firmware's identity-mapped tables
UNSET    == -1     \* a register nobody has loaded yet
UNMAPPED == -2

PageOf(a) == a \div PAGE
Half(p) == IF p < IDENTITY THEN "low" ELSE "high"

(* Where the loader put a symbol of the kernel. *)
PhysOf(sym) == env.base * PAGE + env.elf.sym[sym] - KERNEL_VIRT_BASE

(* phys_to_kernel_virt, in the width of an address. *)
phys_to_kernel_virt(a) == (a + KERNEL_VIRT_BASE - k.kps) % ADDRESSES

-----------------------------------------------------------------------------
(* Page tables: m.pml4s maps a root frame to its tables (0: not present),  *)
(* m.tables a table frame to page -> [frame, nx].                          *)

Entry(m, root, p) ==
    LET t == m.pml4s[root][Half(p)]
    IN  IF t # 0 /\ p \in DOMAIN m.tables[t] THEN m.tables[t][p] ELSE [frame |-> UNMAPPED, nx |-> FALSE]

Translate(m, root, a) ==
    IF root = FIRMWARE THEN (IF a < ADDRESSES \div 2 THEN a ELSE UNMAPPED)
    ELSE LET f == Entry(m, root, PageOf(a)).frame
         IN  IF f = UNMAPPED THEN UNMAPPED ELSE f * PAGE + (a % PAGE)

(* alloc_frame: the lowest free frame; FREE_FRAMES follows the bitmap. *)
FreeFrames(m) == (0 .. m.total - 1) \ m.used

alloc_frame(m) == MinOf(FreeFrames(m))

Take(m, f) == [m EXCEPT !.used = @ \union {f}, !.free = @ - 1]

(* create_empty_pml4 panics without a frame. *)
create_empty_pml4(m) ==
    IF m.panic \/ FreeFrames(m) = {} THEN [m EXCEPT !.panic = TRUE]
    ELSE LET f == alloc_frame(m)
         IN  [Take(m, f) EXCEPT !.pml4s = (f :> [low |-> 0, high |-> 0]) @@ @]

(* map_page takes a frame for a missing table, and panics when there is    *)
(* none or when the page is mapped already.                                *)
WithTable(m, root, h) ==
    IF m.panic \/ m.pml4s[root][h] # 0 THEN m
    ELSE IF FreeFrames(m) = {} THEN [m EXCEPT !.panic = TRUE]
    ELSE LET f == alloc_frame(m)
         IN  [Take(m, f) EXCEPT !.pml4s[root][h] = f, !.tables = (f :> <<>>) @@ @]

map_page(m, root, p, frame, nx) ==
    LET w == WithTable(m, root, Half(p))
    IN  IF w.panic \/ Entry(w, root, p).frame # UNMAPPED THEN [w EXCEPT !.panic = TRUE]
        ELSE [w EXCEPT !.tables[w.pml4s[root][Half(p)]] =
                  (p :> [frame |-> frame, nx |-> nx]) @@ @]

(* A frame from the allocator, mapped at p; panics without one. *)
MapFresh(m, root, p, nx) ==
    IF m.panic \/ FreeFrames(m) = {} THEN [m EXCEPT !.panic = TRUE]
    ELSE LET f == alloc_frame(m) IN map_page(Take(m, f), root, p, f, nx)

(* A loop of map_page over consecutive pages of one half, onto consecutive *)
(* frames from "first" on.                                                 *)
MapAll(m, root, pages, first) ==
    LET low == MinOf(pages)
        h == Half(low)
        w == WithTable(m, root, h)
        t == w.pml4s[root][h]
    IN  IF w.panic \/ pages \intersect DOMAIN w.tables[t] # {} THEN [w EXCEPT !.panic = TRUE]
        ELSE [w EXCEPT !.tables[t] = [p \in pages |-> [frame |-> first + (p - low), nx |-> FALSE]] @@ @]

-----------------------------------------------------------------------------
(* Progress: kernel_main's calls, in its order. *)

Order == <<"phys_start", "gdt", "pmm", "page_tables", "fixup", "gdt_virtual", "heap", "idt", "acpi",
           "pci", "ahci", "block_test", "interrupts", "keyboard", "serial_rx", "syscall", "harden",
           "process", "vfs", "fat", "initrd", "cleanup", "init", "shell", "scheduler">>

(* The timer handler from the EOI on: acknowledge, leave the boot stack,   *)
(* then load the page table schedule() deferred.                           *)
TickOrder_Cr3First == <<"eoi", "cr3", "stack">>

TickOrder == <<"eoi", "stack", "cr3">>

Running(step) == at.stage = "kernel" /\ Order[at.pc] = step
Done == at' = [at EXCEPT !.pc = @ + 1]
Stop(stage) == at' = [at EXCEPT !.stage = stage]

(* An allocation that panicked ends the boot. *)
DoneWith(m) == mem' = m /\ IF m.panic THEN Stop("panic") ELSE Done

-----------------------------------------------------------------------------
(* The loader. *)

(* efi_main up to the exit from boot services: the kernel is in memory.    *)
(* The firmware leaves interrupts off.                                     *)
LoadKernel ==
    /\ at.stage = "loader"
    /\ ram' = load_elf(ram, env.elf, env.base * PAGE)
    /\ Stop("loaded")
    /\ UNCHANGED <<env, cpu, mem, k, io>>

(* The rest of efi_main: build BootInfo and jump to the kernel's entry, at *)
(* its physical address.                                                   *)
ExitBootServices ==
    /\ at.stage = "loaded"
    /\ k' = [k EXCEPT !.info = BootInfo(env.elf, env.base * PAGE),
                      !.map = build_memory_map(env.descriptors),
                      !.rsdp = find_rsdp(env.acpi)]
    /\ cpu' = [cpu EXCEPT !.rip = PhysOf("kernel_main")]
    /\ at' = [stage |-> "kernel", pc |-> 1]
    /\ UNCHANGED <<env, ram, mem, io>>

-----------------------------------------------------------------------------
(* kernel_main, one action per call. *)

SetPhysStart ==
    /\ Running("phys_start")
    /\ k' = [k EXCEPT !.kps = k.info.kernel_phys_start]
    /\ Done
    /\ UNCHANGED <<env, ram, cpu, mem, io>>

(* gdt::init: the double-fault stack is already an upper-half address, the *)
(* GDT and the TSS are still physical ones.                                *)
gdt_init ==
    /\ Running("gdt")
    /\ cpu' = [cpu EXCEPT !.ist = phys_to_kernel_virt(PhysOf("DOUBLE_FAULT_STACK")),
                          !.gdtr = PhysOf("GDT"), !.tr = PhysOf("TSS")]
    /\ Done
    /\ UNCHANGED <<env, ram, mem, k, io>>

(* pmm::init: everything used, then the usable regions free, frame 0 used. *)
pmm_init(map) ==
    LET total  == MinOf({MAX_FRAMES, MaxOf({map[i].start + map[i].length : i \in DOMAIN map})})
        usable == {i \in DOMAIN map : map[i].kind = "Usable"}
        clear  == UNION {map[i].start .. MinOf({map[i].start + map[i].length, total}) - 1 : i \in usable}
    IN  [mem EXCEPT !.total = total,
                    !.used = (0 .. MAX_FRAMES - 1) \ (clear \ {0}),
                    !.free = Cardinality(clear \ {0})]

(* mark_region_used: whole pages, those the bitmap tracks. *)
mark_region_used(m, start, end) ==
    LET more == ((start \div PAGE) .. (PagesFor(end) - 1)) \intersect FreeFrames(m)
    IN  [m EXCEPT !.used = @ \union more, !.free = @ - Cardinality(more)]

InitPmm ==
    /\ Running("pmm")
    /\ mem' = mark_region_used(pmm_init(k.map), k.info.kernel_phys_start, k.info.kernel_phys_end)
    /\ Done
    /\ UNCHANGED <<env, ram, cpu, k, io>>

(* init_kernel_page_tables: the image, the heap, the identity map, and the *)
(* LAPIC's page in the upper half.                                         *)
init_kernel_page_tables(m, start, end) ==
    LET root  == alloc_frame(m)
        image == {PageOf(KERNEL_VIRT_BASE) + i : i \in 0 .. PagesFor(end) - 1 - (start \div PAGE)}
        heap  == {PageOf(KERNEL_HEAP_BASE) + i : i \in 0 .. HEAP_PAGES - 1}
        m1 == create_empty_pml4(m)
        m2 == MapAll(m1, root, image, start \div PAGE)
        m3 == FoldLeft(LAMBDA w, p : MapFresh(w, root, p, FALSE), m2, Ascending(heap))
        m4 == MapAll(m3, root, 0 .. IDENTITY - 1, 0)
    IN  IF m4.panic THEN m4
        ELSE map_page(m4, root, PageOf(LAPIC_EOI_VIRT), PageOf(LAPIC_PHYS), FALSE)

InitPageTables ==
    /\ Running("page_tables")
    /\ LET m == init_kernel_page_tables(mem, k.info.kernel_phys_start, k.info.kernel_phys_end)
       IN  /\ DoneWith(m)
           /\ cpu' = IF m.panic THEN cpu ELSE [cpu EXCEPT !.cr3 = alloc_frame(mem)]
           /\ k' = IF m.panic THEN k ELSE [k EXCEPT !.kpml4 = alloc_frame(mem)]
    /\ UNCHANGED <<env, ram, io>>

(* fixup_pic_relocations reads the table and patches the words through the *)
(* upper-half mapping; a value is converted whatever it was.               *)
Fixed(r, e) ==
    LET w == Translate(mem, cpu.cr3, e.offset)
    IN  IF w \notin DOMAIN r THEN r
        ELSE [r EXCEPT ![w] = <<@[1], (@[2] - k.kps + KERNEL_VIRT_BASE) % ADDRESSES>>]

fixup_pic_relocations_SkipsLast ==
    IF k.kps = 0 \/ k.info.rela_dyn_vaddr = 0 \/ k.info.rela_dyn = <<>> THEN ram
    ELSE FoldLeft(LAMBDA r, e : Fixed(r, e), ram, Relatives(Front(k.info.rela_dyn)))

fixup_pic_relocations ==
    IF k.kps = 0 \/ k.info.rela_dyn_vaddr = 0 \/ k.info.rela_dyn = <<>> THEN ram
    ELSE FoldLeft(LAMBDA r, e : Fixed(r, e), ram, Relatives(k.info.rela_dyn))

Fixup ==
    /\ Running("fixup")
    /\ ram' = fixup_pic_relocations
    /\ Done
    /\ UNCHANGED <<env, cpu, mem, k, io>>

switch_gdt_to_virtual_NoLtr == [cpu EXCEPT !.gdtr = phys_to_kernel_virt(PhysOf("GDT"))]

(* switch_gdt_to_virtual: patch the TSS descriptor, reload GDTR and TR. *)
switch_gdt_to_virtual ==
    [cpu EXCEPT !.gdtr = phys_to_kernel_virt(PhysOf("GDT")),
                !.tr = phys_to_kernel_virt(PhysOf("TSS"))]

SwitchGdt ==
    /\ Running("gdt_virtual")
    /\ cpu' = switch_gdt_to_virtual
    /\ Done
    /\ UNCHANGED <<env, ram, mem, k, io>>

init_heap ==
    /\ Running("heap")
    /\ k' = [k EXCEPT !.heap = KERNEL_HEAP_BASE]
    /\ Done
    /\ UNCHANGED <<env, ram, cpu, mem, io>>

(* idt::init: exceptions and vectors 32..47, all by upper-half address. *)
GATES == {0, 2, 3, 6, 7, 8, 10, 12, 13, 14, 17, 18} \union 32 .. 47

idt_init ==
    /\ Running("idt")
    /\ cpu' = [cpu EXCEPT !.idtr = phys_to_kernel_virt(PhysOf("IDT")),
                          !.gates = [g \in GATES |-> phys_to_kernel_virt(PhysOf("handlers"))]]
    /\ Done
    /\ UNCHANGED <<env, ram, mem, k, io>>

-----------------------------------------------------------------------------
(* Devices. *)

FindAcpi ==
    /\ Running("acpi")
    /\ k' = [k EXCEPT !.acpi = acpi_init(env.acpi, k.rsdp)]
    /\ Done
    /\ UNCHANGED <<env, ram, cpu, mem, io>>

EnumeratePci ==
    /\ Running("pci")
    /\ k' = [k EXCEPT !.devices = enumerate(env.pci)]
    /\ Done
    /\ UNCHANGED <<env, ram, cpu, mem, io>>

mmio_to_virt(a) == MMIO_UPPER_BASE + a

(* map_mmio_page: a page that is mapped already is taken to be the one     *)
(* wanted; MmioRegion::new drops the offset in the page.                   *)
map_mmio_page(m, a) ==
    LET p == PageOf(mmio_to_virt(a))
    IN  IF Entry(m, k.kpml4, p).frame # UNMAPPED THEN m
        ELSE map_page(m, k.kpml4, p, PageOf(a), FALSE)

Region(regions, a) == (PageOf(a) :> PageOf(mmio_to_virt(a))) @@ regions

(* ahci::init up to the registered disk (the driver is module Ahci): the   *)
(* first AHCI function, unless its BAR 5 is zero.                          *)
ahci_init ==
    /\ Running("ahci")
    /\ LET found == SelectSeq(k.devices, LAMBDA d : d.class = "ahci")
           usable == found # <<>> /\ Head(found).bar5 # 0
       IN  IF ~usable THEN Done /\ UNCHANGED <<mem, k>>
           ELSE /\ DoneWith(map_mmio_page(mem, Head(found).bar5))
                /\ k' = [k EXCEPT !.regions = Region(@, Head(found).bar5),
                                  !.registry = IF env.disk THEN register_device(@, "ahci0") ELSE @]
    /\ UNCHANGED <<env, ram, cpu, io>>

(* phase91_block_test registers a RAM disk and removes it again. *)
phase91_block_test ==
    /\ Running("block_test")
    /\ k' = [k EXCEPT !.registry = unregister_device(register_device(@, "ramdisk"), FirstSlot(@))]
    /\ Done
    /\ UNCHANGED <<env, ram, cpu, mem, io>>

(* interrupts::init: LAPIC with its periodic timer on vector 32, IO-APIC,  *)
(* PIT, and the routes of timer, keyboard and serial line.                 *)
interrupts_init ==
    /\ Running("interrupts")
    /\ LET madt   == k.acpi.madt
           lapic  == IF madt.present THEN madt.local_apic ELSE LAPIC_PHYS
           ioapic == IF madt.present /\ madt.io_apic # 0 THEN madt.io_apic ELSE IOAPIC_PHYS
           base   == IF madt.present THEN madt.gsi_base ELSE 0
       IN  /\ DoneWith(map_mmio_page(map_mmio_page(mem, lapic), ioapic))
           /\ k' = [k EXCEPT !.regions = Region(Region(@, lapic), ioapic)]
           /\ io' = [redir |-> RoutedTable(io.redir, madt, base), timer |-> lapic_init]
    /\ UNCHANGED <<env, ram, cpu>>

(* keyboard::init and serial::init_rx register their interrupt handlers. *)
keyboard_init ==
    /\ Running("keyboard")
    /\ k' = [k EXCEPT !.handlers = @ \union {1}]
    /\ Done
    /\ UNCHANGED <<env, ram, cpu, mem, io>>

serial_init_rx ==
    /\ Running("serial_rx")
    /\ k' = [k EXCEPT !.handlers = @ \union {4}]
    /\ Done
    /\ UNCHANGED <<env, ram, cpu, mem, io>>

(* syscall::init: LSTAR, KERNEL_GS_BASE and EFER.NXE. *)
syscall_init ==
    /\ Running("syscall")
    /\ cpu' = [cpu EXCEPT !.lstar = phys_to_kernel_virt(PhysOf("handlers")),
                          !.gs = phys_to_kernel_virt(PhysOf("PER_CPU")), !.nxe = TRUE]
    /\ Done
    /\ UNCHANGED <<env, ram, mem, k, io>>

(* harden_identity_map: no execution through the lower half, except from   *)
(* the first HARDEN_PAGES pages of the image, where kernel_main runs.      *)
harden_identity_map ==
    /\ Running("harden")
    /\ LET t    == mem.pml4s[k.kpml4].low
           kept == PageOf(k.kps) .. PageOf(k.kps) + HARDEN_PAGES - 1
       IN  mem' = [mem EXCEPT !.tables[t] =
                       [p \in DOMAIN @ |-> [@[p] EXCEPT !.nx = @ \/ mem.tables[t][p].frame \notin kept]]]
    /\ Done
    /\ UNCHANGED <<env, ram, cpu, k, io>>

-----------------------------------------------------------------------------
(* Processes and files. *)

(* process::init: idle in slot 0 and the kernel's init thread in slot 1,   *)
(* both on the kernel's page table; interrupts off.                        *)
process_init ==
    /\ Running("process")
    /\ cpu' = [cpu EXCEPT !.if = FALSE]
    /\ k' = [k EXCEPT !.tasks = (0 :> k.kpml4) @@ (1 :> k.kpml4)]
    /\ Done
    /\ UNCHANGED <<env, ram, mem, io>>

(* vfs::init: an empty ramfs at /. *)
vfs_init ==
    /\ Running("vfs")
    /\ k' = [k EXCEPT !.mounts = {"/"}]
    /\ Done
    /\ UNCHANGED <<env, ram, cpu, mem, io>>

(* phase94_fat32_init mounts device 0 at /disk if there is one and it      *)
(* holds a FAT file system.                                                *)
phase94_fat32_init ==
    /\ Running("fat")
    /\ k' = [k EXCEPT !.mounts = IF k.registry[0] # NoDevice /\ env.fat THEN @ \union {"/disk"} ELSE @]
    /\ Done
    /\ UNCHANGED <<env, ram, cpu, mem, io>>

(* Where the loop of load_initrd continues after an entry. *)
NextOffset(h, off) == h.next

(* What an entry does to the file system.  A skipped one does nothing; one *)
(* that would replace a directory, or lies below a file, is refused; a     *)
(* missing parent is made; data overwrites a file of that name from its    *)
(* start and leaves the rest of it.                                        *)
IsDir(fs, name) == name \in DOMAIN fs /\ fs[name] = <<"dir">>

Overwritten(old, data) ==
    [i \in 1 .. MaxOf({Len(old), Len(data)}) |-> IF i <= Len(data) THEN data[i].of ELSE old[i]]

Unpacked(fs, h) ==
    LET n    == h.name
        old  == IF n.name \in DOMAIN fs THEN fs[n.name] ELSE <<>>
        made == IF n.parent = "" THEN fs ELSE (n.parent :> <<"dir">>) @@ fs
    IN  IF ~n.utf8 \/ n.dotdot \/ n.name = "/" THEN fs
        ELSE IF n.parent # "" /\ n.parent \in DOMAIN fs /\ ~IsDir(fs, n.parent) THEN fs
        ELSE IF n.dir THEN made @@ (n.name :> <<"dir">>)
        ELSE IF IsDir(fs, n.name) THEN fs
        ELSE (n.name :> Overwritten(old, h.data)) @@ made

(* One turn of load_initrd's loop. *)
load_initrd ==
    /\ Running("initrd")
    /\ LET d == env.archive
           h == parse_header(d, k.offset)
       IN  IF k.offset + HEADER > Len(d) THEN Done /\ UNCHANGED k
           ELSE IF IsPadding(d, k.offset)
           THEN k' = [k EXCEPT !.offset = @ + 1] /\ UNCHANGED at
           ELSE IF ~h.ok \/ (h.name.utf8 /\ h.name.name = "TRAILER!!!") THEN Done /\ UNCHANGED k
           ELSE /\ k' = [k EXCEPT !.offset = NextOffset(h, @), !.files = Unpacked(@, h)]
                /\ IF NextOffset(h, k.offset) >= Len(d) /\ h.name.utf8 /\ ~h.name.dotdot
                   THEN Done ELSE UNCHANGED at
    /\ UNCHANGED <<env, ram, cpu, mem, io>>

(* kernel_main clears every slot but the idle one. *)
CleanUp ==
    /\ Running("cleanup")
    /\ k' = [k EXCEPT !.tasks = (0 :> @[0])]
    /\ Done
    /\ UNCHANGED <<env, ram, cpu, mem, io>>

(* free_user_address_space: the lower half's pages, its table, the root. *)
free_user_address_space(m, root) ==
    LET t    == m.pml4s[root].low
        gone == {root} \union (IF t = 0 THEN {} ELSE {t} \union {m.tables[t][p].frame : p \in DOMAIN m.tables[t]})
    IN  [m EXCEPT !.used = @ \ gone, !.free = @ + Cardinality(gone),
                  !.pml4s = [r \in DOMAIN @ \ {root} |-> @[r]],
                  !.tables = [f \in DOMAIN @ \ {t} |-> @[f]]]

(* The pages of a new process: its code, the guard page and the stack. *)
UserPages == 1 .. 2 + STACK_PAGES

(* A page of a process: without a frame the process is given up, without   *)
(* one for a page table the kernel panics.                                 *)
MapUser(s, root, p) ==
    IF s.failed \/ s.m.panic THEN s
    ELSE IF FreeFrames(s.m) = {} THEN [s EXCEPT !.failed = TRUE]
    ELSE [s EXCEPT !.m = MapFresh(s.m, root, p, p > 2)]

(* create_user_pml4: the new root shares the upper half of the CURRENT     *)
(* page table, and has nothing of its lower half.                          *)
create_user_pml4(m) ==
    [create_empty_pml4(m) EXCEPT !.pml4s[alloc_frame(m)].high = m.pml4s[cpu.cr3].high]

(* process::spawn_user: a program that is no ELF file, or memory that runs *)
(* out, gives everything back.                                             *)
spawn_user(m, image) ==
    IF FreeFrames(m) = {} THEN [m |-> [m EXCEPT !.panic = TRUE], root |-> UNSET]
    ELSE LET root == alloc_frame(m)
             m1 == create_user_pml4(m)
             s  == FoldLeft(LAMBDA x, p : MapUser(x, root, p), [m |-> m1, failed |-> FALSE],
                            Ascending(UserPages))
         IN  IF image = <<>> \/ image[1] # "elf"
             THEN [m |-> free_user_address_space(m1, root), root |-> UNSET]
             ELSE IF s.m.panic THEN [m |-> s.m, root |-> UNSET]
             ELSE IF s.failed THEN [m |-> free_user_address_space(s.m, root), root |-> UNSET]
             ELSE [m |-> s.m, root |-> root]

FreeSlot(tasks) == MinOf({i \in 1 .. Cardinality(DOMAIN tasks) + 1 : i \notin DOMAIN tasks})

Spawned(tasks, root) == IF root = UNSET THEN tasks ELSE (FreeSlot(tasks) :> root) @@ tasks

HasFile(name) == name \in DOMAIN k.files /\ k.files[name] # <<"dir">>

(* /bin/init: a missing file is only warned about, a failed spawn halts. *)
SpawnInit ==
    /\ Running("init")
    /\ IF ~HasFile("bin/init") THEN Done /\ UNCHANGED <<mem, k>>
       ELSE LET s == spawn_user(mem, k.files["bin/init"])
            IN  /\ mem' = s.m
                /\ k' = [k EXCEPT !.tasks = Spawned(@, s.root),
                                  !.init_pid = IF s.root = UNSET THEN @ ELSE FreeSlot(k.tasks)]
                /\ IF s.m.panic THEN Stop("panic") ELSE IF s.root = UNSET THEN Stop("halted") ELSE Done
    /\ UNCHANGED <<env, ram, cpu, io>>

(* /bin/indosh; without it /indosh and, whether or not that is there, the  *)
(* built-in test programs.                                                 *)
ShellImages ==
    IF HasFile("bin/indosh") THEN <<k.files["bin/indosh"]>>
    ELSE (IF HasFile("indosh") THEN <<k.files["indosh"]>> ELSE <<>>)
         \o [i \in 1 .. FALLBACK_TESTS |-> <<"elf">>]

SpawnShell ==
    /\ Running("shell")
    /\ LET r == FoldLeft(LAMBDA x, image :
                            IF x.m.panic THEN x
                            ELSE LET s == spawn_user(x.m, image)
                                 IN  [m |-> s.m, tasks |-> Spawned(x.tasks, s.root)],
                         [m |-> mem, tasks |-> k.tasks], ShellImages)
       IN  /\ DoneWith(r.m)
           /\ k' = [k EXCEPT !.tasks = r.tasks]
    /\ UNCHANGED <<env, ram, cpu, io>>

(* start_scheduler: sti, and halt until the first tick. *)
start_scheduler ==
    /\ Running("scheduler")
    /\ cpu' = [cpu EXCEPT !.if = TRUE]
    /\ at' = [stage |-> "scheduler", pc |-> 1]
    /\ UNCHANGED <<env, ram, mem, k, io>>

(* The first tick, in the timer handler: schedule() picks the first ready  *)
(* process, idle only if there is none.                                    *)
FirstTask == IF DOMAIN k.tasks = {0} THEN 0 ELSE MinOf(DOMAIN k.tasks \ {0})

Ticking(step) == at.stage = "scheduler" /\ TickOrder[at.pc] = step

Ticked == at' = IF at.pc = Len(TickOrder) THEN [at EXCEPT !.stage = "running"] ELSE [at EXCEPT !.pc = @ + 1]

TimerEntry ==
    /\ Ticking("eoi")
    /\ cpu' = [cpu EXCEPT !.if = FALSE, !.rip = cpu.gates[io.timer]]
    /\ Ticked
    /\ UNCHANGED <<env, ram, mem, k, io>>

(* mov rsp, r12: the stack the process got from the kernel heap. *)
TimerStack ==
    /\ Ticking("stack")
    /\ cpu' = [cpu EXCEPT !.stack = k.heap]
    /\ Ticked
    /\ UNCHANGED <<env, ram, mem, k, io>>

TimerCr3 ==
    /\ Ticking("cr3")
    /\ cpu' = [cpu EXCEPT !.cr3 = k.tasks[FirstTask]]
    /\ Ticked
    /\ UNCHANGED <<env, ram, mem, k, io>>

(* The boot is over, one way or another. *)
Over ==
    /\ at.stage \in {"running", "halted", "panic"}
    /\ UNCHANGED vars

-----------------------------------------------------------------------------
NoInfo == [kernel_phys_start |-> 0, kernel_phys_end |-> 0, rela_dyn_vaddr |-> 0, rela_dyn |-> <<>>]

Init ==
    /\ env \in Machines
    /\ at = [stage |-> "loader", pc |-> 1]
    /\ ram = [w \in 0 .. (IDENTITY \div 2) * PAGE - 1 |-> Junk]
    /\ cpu = [cr3 |-> FIRMWARE, rip |-> UNSET, stack |-> env.stack * PAGE, if |-> FALSE, nxe |-> FALSE,
              gdtr |-> UNSET, tr |-> UNSET, ist |-> UNSET, idtr |-> UNSET, gates |-> <<>>,
              lstar |-> UNSET, gs |-> UNSET]
    /\ mem = [total |-> 0, used |-> {}, free |-> 0, pml4s |-> <<>>, tables |-> <<>>, panic |-> FALSE]
    /\ k = [kps |-> 0, kpml4 |-> UNSET, info |-> NoInfo, map |-> <<>>, rsdp |-> 0, heap |-> UNSET,
            acpi |-> [tables |-> <<>>, madt |-> NoMadt], devices |-> <<>>, regions |-> <<>>,
            registry |-> EmptyRegistry, handlers |-> {}, tasks |-> <<>>, mounts |-> {},
            offset |-> 0, files |-> <<>>, init_pid |-> 1]
    /\ io = [redir |-> env.redir, timer |-> UNSET]

Next ==
    \/ LoadKernel \/ ExitBootServices
    \/ SetPhysStart \/ gdt_init \/ InitPmm \/ InitPageTables \/ Fixup \/ SwitchGdt \/ init_heap \/ idt_init
    \/ FindAcpi \/ EnumeratePci \/ ahci_init \/ phase91_block_test \/ interrupts_init
    \/ keyboard_init \/ serial_init_rx \/ syscall_init \/ harden_identity_map
    \/ process_init \/ vfs_init \/ phase94_fat32_init \/ load_initrd \/ CleanUp
    \/ SpawnInit \/ SpawnShell \/ start_scheduler
    \/ TimerEntry \/ TimerStack \/ TimerCr3
    \/ Over

(* kernel_main runs with interrupts off on the only processor, and the     *)
(* LAPIC timer ticks periodically once it is programmed: every step that   *)
(* can be taken is taken.  The second conjunct is weak fairness of the     *)
(* calls outside the loop of load_initrd, each of which is enabled and     *)
(* moves on when its turn has come.                                        *)
Working == at.stage \notin {"running", "halted", "panic"} /\ ~Running("initrd")

Spec == /\ Init /\ [][Next]_vars
        /\ WF_vars(load_initrd)
        /\ <>[]Working => []<><<Next>>_vars

-----------------------------------------------------------------------------
(* Properties. *)

(* The roots the processor may find itself on from now on: the current one *)
(* and, once interrupts were enabled, every process's.                     *)
Roots == {cpu.cr3} \union (IF at.stage \in {"scheduler", "running"} THEN DOMAIN mem.pml4s ELSE {})

(* An address can be used on a root: it is mapped to the right word, by an *)
(* entry that is legal (a no-execute bit is a reserved bit until EFER.NXE  *)
(* is set).                                                                *)
Reaches(root, a, phys) ==
    /\ Translate(mem, root, a) = phys
    /\ root # FIRMWARE => (Entry(mem, root, PageOf(a)).nx => cpu.nxe)

Executes(root, a, phys) ==
    Reaches(root, a, phys) /\ (root # FIRMWARE => ~Entry(mem, root, PageOf(a)).nx)

(* Every relocated pointer of the kernel names, on every page table the    *)
(* processor may be on, the word its relocation says: physical under the   *)
(* firmware's and the kernel's own tables, and an upper-half address       *)
(* before a process's tables are loaded.  (apply_relocations,              *)
(* fixup_pic_relocations)                                                  *)
PointersReachable ==
    at.stage # "loader" =>
        \A i \in DOMAIN RelaSections(env.elf) :
            \A e \in Range(Relatives(RelaSections(env.elf)[i].entries)) :
                \A root \in Roots :
                    Translate(mem, root, ram[env.base * PAGE + e.offset - min_vaddr(env.elf)][2])
                        = env.base * PAGE + e.addend - min_vaddr(env.elf)

(* Whatever the processor or an interrupt needs can be reached on every    *)
(* page table it may be on: GDT, TSS, IDT and its gates, the double-fault  *)
(* stack, the syscall entry and its per-CPU data, the LAPIC's EOI          *)
(* register, the kernel heap.  (gdt.rs, idt.rs, syscall::init, vmm.rs)     *)
HandlersReachable ==
    \A root \in Roots :
        /\ cpu.gdtr # UNSET => Reaches(root, cpu.gdtr, PhysOf("GDT"))
        /\ cpu.tr # UNSET => Reaches(root, cpu.tr, PhysOf("TSS"))
        /\ cpu.idtr # UNSET => /\ Reaches(root, cpu.idtr, PhysOf("IDT"))
                               /\ Reaches(root, cpu.ist, PhysOf("DOUBLE_FAULT_STACK"))
        /\ \A g \in DOMAIN cpu.gates : Executes(root, cpu.gates[g], PhysOf("handlers"))
        /\ cpu.lstar # UNSET => /\ Executes(root, cpu.lstar, PhysOf("handlers"))
                                /\ Reaches(root, cpu.gs, PhysOf("PER_CPU"))
        /\ k.heap # UNSET => Translate(mem, root, k.heap) # UNMAPPED
        /\ io.timer # UNSET => Reaches(root, LAPIC_EOI_VIRT, LAPIC_PHYS)

(* The processor can go on at every step: the code it runs is mapped and   *)
(* executable and the stack it runs on is mapped, across the switch to the *)
(* kernel's tables, the hardening of the identity map, and the first tick, *)
(* which leaves a boot stack that no process's tables map.                 *)
(* (switch_page_table, harden_identity_map, timer_interrupt_handler)       *)
ExecutionContinues ==
    at.stage \in {"kernel", "scheduler", "running"} =>
        /\ Executes(cpu.cr3, cpu.rip,
                    IF cpu.rip < MMIO_UPPER_BASE THEN cpu.rip ELSE PhysOf("handlers"))
        /\ LET s == Translate(mem, cpu.cr3, cpu.stack)
           IN  s # UNMAPPED /\ (cpu.stack < MMIO_UPPER_BASE => s = env.stack * PAGE)

(* Memory the firmware handed over at exit_boot_services. *)
Conventional(f) ==
    \E i \in DOMAIN env.descriptors :
        /\ env.descriptors[i].ty = "CONVENTIONAL"
        /\ f \in env.descriptors[i].start .. env.descriptors[i].start + env.descriptors[i].pages - 1

(* What each frame in use is for: <<kind, owner, page, frame>>. *)
LowTable(r) == IF mem.pml4s[r].low = 0 THEN <<>> ELSE mem.tables[mem.pml4s[r].low]

Uses ==
    {<<"pml4", r, 0, r>> : r \in DOMAIN mem.pml4s}
    \union {<<"table", t, 0, t>> : t \in DOMAIN mem.tables}
    \union UNION {{<<"user", r, p, LowTable(r)[p].frame>> : p \in DOMAIN LowTable(r)} :
                     r \in DOMAIN mem.pml4s \ {k.kpml4}}
    \union (IF k.kpml4 = UNSET THEN {}
            ELSE {<<"heap", 0, p, Entry(mem, k.kpml4, p).frame>> :
                     p \in PageOf(KERNEL_HEAP_BASE) .. PageOf(KERNEL_HEAP_BASE) + HEAP_PAGES - 1})

(* No frame has two uses, none is the kernel's image, frame 0, or memory   *)
(* the firmware did not hand over (its stack, which kernel_main runs on,   *)
(* its tables, the ACPI data), the page tables stay within reach of the    *)
(* identity map, and FREE_FRAMES is the number of clear bits.              *)
(* (build_memory_map, pmm::init, mark_region_used, alloc_frame, spawn_user)*)
FramesAreDisjoint ==
    /\ at.stage # "panic" => \A u, v \in Uses : u[4] = v[4] => u = v
    /\ \A u \in Uses :
          /\ u[4] \in mem.used \ {0}
          /\ Conventional(u[4])
          /\ u[4] \notin PageOf(k.kps) .. PagesFor(k.info.kernel_phys_end) - 1
          /\ u[1] \in {"pml4", "table"} => u[4] < IDENTITY
    /\ mem.free = Cardinality(FreeFrames(mem))

(* The entries in front of the first bad header that are no root directory *)
(* and have a name that is accepted.                                       *)
Readable ==
    LET bad == {i \in DOMAIN env.entries : env.entries[i].fault \in {"magic", "nul"}}
    IN  SelectSeq(SubSeq(env.entries, 1, MinOf(bad \union {Len(env.entries) + 1}) - 1),
                  LAMBDA e : e.fault \notin {"utf8", "dotdot"} /\ e.name # "/")

(* The initrd in memory is what went into the archive: every entry in      *)
(* front of the first bad header, a path with ".." or an invalid name      *)
(* skipped, the directories on the way made; a file that comes again has   *)
(* the data of its last entry, and nothing else.  Two kinds of archive are *)
(* not claimed for: one with zeros between its entries, which the loop     *)
(* does not get across, and a file that comes again with less data, which  *)
(* keeps the end of the old one.  (make_initrd.py, parse_header,           *)
(* load_initrd, write_file)                                                *)
InitrdComplete ==
    at.stage = "kernel" /\ at.pc > 21 /\ (\A i \in DOMAIN env.entries : env.entries[i].pad = 0) =>
        LET named(n) == {i \in DOMAIN Readable : Readable[i].name = n}
            last(n)  == Readable[MaxOf(named(n))]
            files    == {Readable[i].name : i \in DOMAIN Readable}
        IN  /\ DOMAIN k.files = files \union ({Readable[i].parent : i \in DOMAIN Readable} \ {""})
            /\ \A n \in DOMAIN k.files : IsDir(k.files, n) <=> (n \in files => last(n).dir)
            /\ \A n \in files :
                  ~last(n).dir /\ (\A i \in named(n) : Readable[i].datalen <= last(n).datalen)
                  => k.files[n] = [j \in 1 .. last(n).datalen |-> last(n).data]

=============================================================================
