------------------------------- MODULE Loader -------------------------------
(***************************************************************************)
(* The UEFI boot loader (indo-boot/src/main.rs) as pure operators: it      *)
(* copies the kernel's segments into one block of physical memory,         *)
(* relocates the words that hold addresses, and translates the firmware's  *)
(* memory map.                                                             *)
(*                                                                         *)
(* Memory is counted in words, PAGE words to a page.  A physical word      *)
(* holds a tagged pair: <<"junk", 0>> before anything wrote it,            *)
(* <<"zero", 0>>, <<"file", v>> for the byte the ELF file has at linked    *)
(* address v, or <<"ptr", a>> for a word that holds the address a.         *)
(*                                                                         *)
(* An ELF file is a record:                                                *)
(*   segs     a sequence of [type, vaddr, filesz, memsz]                   *)
(*   sections a sequence of [rela, addr, entries], entries a sequence of   *)
(*            [offset, type, addend]                                       *)
(*   entry    the linked address of kernel_main                            *)
(***************************************************************************)
EXTENDS Integers, Sequences, FiniteSets, SequencesExt, Numbers

CONSTANTS PAGE,                 \* words in a page (4096 bytes in the code)
          MAX_MEMORY_REGIONS    \* slots of BootInfo's memory map

PT_LOAD == 1
R_X86_64_RELATIVE == 8

Junk == <<"junk", 0>>
Zero == <<"zero", 0>>

(* Pages that hold n words. *)
PagesFor(n) == (n + PAGE - 1) \div PAGE

(* The PT_LOAD segments, and the linked range they span. *)
Loads(elf) == {elf.segs[i] : i \in {j \in DOMAIN elf.segs : elf.segs[j].type = PT_LOAD}}

min_vaddr(elf) == MinOf({s.vaddr : s \in Loads(elf)})

max_vaddr(elf) == MaxOf({s.vaddr + s.memsz : s \in Loads(elf)})

(* Size of the block asked from the firmware: the SUM of the segments'     *)
(* sizes, not the span they occupy.                                        *)
total_pages(elf) ==
    PagesFor(FoldLeft(LAMBDA n, s : IF s.type = PT_LOAD THEN n + s.memsz ELSE n, 0, elf.segs))

(* The file's contents land at base + (vaddr - min_vaddr); the block was   *)
(* zeroed before.  Words outside both keep what they held.                 *)
Copied(ram, elf, base) ==
    [w \in DOMAIN ram |->
        LET v == w - base + min_vaddr(elf)
        IN  IF \E s \in Loads(elf) : v \in s.vaddr .. s.vaddr + s.filesz - 1
            THEN <<"file", v>>
            ELSE IF w \in base .. base + total_pages(elf) * PAGE - 1 THEN Zero ELSE ram[w]]

(* All R_X86_64_RELATIVE entries of the RELA sections, in order. *)
Relatives(entries) == SelectSeq(entries, LAMBDA e : e.type = R_X86_64_RELATIVE)

RelaSections(elf) == SelectSeq(elf.sections, LAMBDA s : s.rela)

(* One relocation: *P = B + A, unless P lies outside the block. *)
Relocated(ram, elf, base, e) ==
    LET target_offset == e.offset - min_vaddr(elf)
    IN  IF target_offset + 1 > total_pages(elf) * PAGE
        THEN ram
        ELSE [ram EXCEPT ![base + target_offset] = <<"ptr", base + e.addend - min_vaddr(elf)>>]

apply_relocations(ram, elf, base) ==
    FoldLeft(LAMBDA r, s : FoldLeft(LAMBDA q, e : Relocated(q, elf, base, e), r,
                                    Relatives(s.entries)),
             ram, RelaSections(elf))

(* What load_elf tells kernel_main: the image's physical range and the     *)
(* LAST section of type SHT_RELA.                                          *)
BootInfo(elf, base) ==
    LET relas == RelaSections(elf)
    IN  [kernel_phys_start |-> base + MinOf({s.vaddr : s \in Loads(elf)}) - min_vaddr(elf),
         kernel_phys_end   |-> base + max_vaddr(elf) - min_vaddr(elf),
         rela_dyn_vaddr    |-> IF relas = <<>> THEN 0 ELSE Last(relas).addr,
         rela_dyn          |-> IF relas = <<>> THEN <<>> ELSE Last(relas).entries]

load_elf(ram, elf, base) == apply_relocations(Copied(ram, elf, base), elf, base)

-----------------------------------------------------------------------------
(* The firmware's memory map.  A descriptor is [start, pages, ty]. *)

(* A plausible slip: the pages of the boot services handed out as RAM,     *)
(* though the kernel still runs on the firmware's stack.                   *)
Kind_BootServicesFree(ty) ==
    IF ty \in {"CONVENTIONAL", "BOOT_SERVICES_DATA", "BOOT_SERVICES_CODE"}
    THEN "Usable" ELSE "Reserved"

Kind(ty) ==
    CASE ty = "CONVENTIONAL" -> "Usable"
      [] ty \in {"BOOT_SERVICES_CODE", "BOOT_SERVICES_DATA"} -> "BootloaderCode"
      [] ty \in {"LOADER_CODE", "LOADER_DATA"} -> "KernelCode"
      [] ty = "ACPI_RECLAIM" -> "AcpiReclaimable"
      [] ty = "ACPI_NON_VOLATILE" -> "AcpiNvs"
      [] ty = "MMIO" -> "Mmio"
      [] OTHER -> "Reserved"

(* Descriptors beyond MAX_MEMORY_REGIONS are dropped. *)
build_memory_map(descriptors) ==
    [i \in 1 .. MinOf({Len(descriptors), MAX_MEMORY_REGIONS}) |->
        [start |-> descriptors[i].start, length |-> descriptors[i].pages,
         kind |-> Kind(descriptors[i].ty)]]

(* The firmware's answer to find_rsdp: the ACPI 2 table if there is one,   *)
(* else the ACPI 1 table, else 0.                                          *)
find_rsdp(config_table) ==
    IF config_table.acpi2 # 0 THEN config_table.acpi2 ELSE config_table.acpi1
=============================================================================
