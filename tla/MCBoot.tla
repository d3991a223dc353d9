------------------------------- MODULE MCBoot -------------------------------
(***************************************************************************)
(* Small machines for module Boot: every combination of image, place of    *)
(* the block, memory map and archive, and variations of the rest one at a  *)
(* time.  2 words to a page, 64 pages (a page stands for 64 MiB) below     *)
(* 4 GiB, RAM in the first 32 and in pages 64..67, above 4 GiB.            *)
(***************************************************************************)
EXTENDS Boot

(* The kernel: text, then data with a gap of one word in front of it; the  *)
(* block of 4 pages (sum of the sizes) holds the whole span.               *)
V == KERNEL_VIRT_BASE
Syms(text, data) ==
    [kernel_main |-> V + text, handlers |-> V + text + 1, GDT |-> V + data, TSS |-> V + data + 1,
     IDT |-> V + data + 2, DOUBLE_FAULT_STACK |-> V + data + 3, PER_CPU |-> V + data + 3]

Seg(type, v, f, m) == [type |-> type, vaddr |-> V + v, filesz |-> f, memsz |-> m]
Rela(off, type, add) == [offset |-> V + off, type |-> type, addend |-> V + add]

Kernel ==
    [segs |-> <<Seg(PT_LOAD, 0, 3, 3), Seg(PT_LOAD, 4, 2, 4)>>,
     sections |-> <<[rela |-> FALSE, addr |-> V, entries |-> <<>>],
                    [rela |-> TRUE, addr |-> V + 2,
                     entries |-> <<Rela(4, 8, 1), Rela(6, 1, 5), Rela(7, 8, 6)>>]>>,
     sym |-> Syms(0, 4)]

(* No relocations; an odd end; a note segment that is not loaded. *)
PlainKernel ==
    [segs |-> <<Seg(PT_LOAD, 0, 4, 4), Seg(4, 0, 2, 2), Seg(PT_LOAD, 4, 1, 5)>>,
     sections |-> <<>>, sym |-> Syms(0, 4)]

-----------------------------------------------------------------------------
PagesOfRam(f(_)) == [p \in 0 .. 67 |-> f(p)]

Ordinary(p) ==
    CASE p \in {1, 2} -> "BOOT_SERVICES_DATA"
      [] p = 3 -> "LOADER_CODE"
      [] p = 30 -> "ACPI_RECLAIM"
      [] p = 31 -> "RUNTIME_SERVICES_DATA"
      [] p \in 32 .. 67 -> "MMIO"
      [] OTHER -> "CONVENTIONAL"

HighRam(p) == IF p >= 64 THEN "CONVENTIONAL" ELSE Ordinary(p)

(* More runs than the map has room for: the later ones are lost. *)
Scattered(p) == IF p \in {8, 17, 19, 24} THEN "ACPI_NON_VOLATILE" ELSE Ordinary(p)

(* Too little memory: the n usable frames after the loader's page. *)
ScarceRam(n) == [p \in 0 .. 67 |-> IF p \in 4 + n .. 29 THEN "RESERVED" ELSE Ordinary(p)]

(* The map the firmware reports once it has given the loader its block:    *)
(* one descriptor per run of pages of one type.                            *)
Descriptors(types, base, n) ==
    LET t      == [p \in 0 .. 67 |-> IF p \in base .. base + n - 1 THEN "LOADER_DATA" ELSE types[p]]
        starts == {p \in 0 .. 67 : p = 0 \/ t[p] # t[p - 1]}
        end(p) == MinOf({q \in starts \union {68} : q > p})
        order  == Ascending(starts)
    IN  [i \in 1 .. Cardinality(starts) |->
            [start |-> order[i], pages |-> end(order[i]) - order[i], ty |-> t[order[i]]]]

-----------------------------------------------------------------------------
Table(sig, sum) == [signature |-> sig, ascii |-> TRUE, length |-> 44, sum |-> sum, madt |-> NoMadt]
NoScan == [r \in Range(ScanOrder) |-> 0]
Acpi(a2, a1, scan) ==
    [acpi2 |-> a2, acpi1 |-> a1, scan |-> scan,
     rsdp |-> 0 :> [revision |-> 0, xsdt |-> 0, rsdt |-> 0]
              @@ 60 :> [revision |-> 2, xsdt |-> 61, rsdt |-> 62]
              @@ 63 :> [revision |-> 0, xsdt |-> 61, rsdt |-> 62],
     root |-> 61 :> [addrs |-> <<70, 0, 71, 72>>] @@ 62 :> [addrs |-> <<70, 72>>],
     table |-> 70 :> Table("FACP", 0) @@ 71 :> Table("HPET", 1) @@ 72 :> Table("APIC", 0)]

Fn(b, d, f, multi, class, bar) ==
    [bus |-> b, device |-> d, function |-> f, multi |-> multi, class |-> class, bar5 |-> bar]
Q35 == {Fn(0, 0, 0, FALSE, "bridge", 0), Fn(0, 1, 0, TRUE, "bridge", 0), Fn(0, 1, 2, FALSE, "ahci", 33 * 2 + 16)}
Sparse == Q35 \union {Fn(2, 0, 0, FALSE, "net", 0), Fn(2, 0, 1, FALSE, "net", 0), Fn(3, 1, 1, TRUE, "net", 0),
                      Fn(5, 0, 0, FALSE, "net", 0)}
NoBar == {Fn(0, 0, 0, FALSE, "ahci", 0)}

-----------------------------------------------------------------------------
E(name, len, parent, data, dlen, fault, pad) ==
    [name |-> name, namelen |-> len, parent |-> parent, dir |-> data = "dir", data |-> data, datalen |-> dlen,
     fault |-> fault, pad |-> pad]
Dirs == <<E("/", 1, "", "dir", 0, "none", 0), E("bin", 4, "", "dir", 0, "none", 0)>>
InitFile(data, n) == E("bin/init", 8, "bin", data, n, "none", 0)
ShellFile(pad) == E("bin/indosh", 10, "bin", "elf", 5, "none", pad)
Odd(fault) == E("odd", 3, "", "text", 1, fault, 0)
Empty == E("motd", 4, "", "text", 0, "none", 0)

Archives ==
    [whole |-> Dirs \o <<InitFile("elf", 3), Empty, ShellFile(0)>>,
     again |-> Dirs \o <<InitFile("text", 5), Odd("utf8"), InitFile("elf", 3), ShellFile(0)>>,
     longer |-> Dirs \o <<InitFile("text", 3), InitFile("elf", 5), ShellFile(0)>>,
     dotdot |-> Dirs \o <<Odd("dotdot"), InitFile("elf", 4), ShellFile(0)>>,
     magic |-> Dirs \o <<InitFile("elf", 3), Odd("magic"), ShellFile(0)>>,
     nul |-> Dirs \o <<Odd("nul"), InitFile("elf", 3)>>,
     padded |-> Dirs \o <<InitFile("elf", 3), ShellFile(7)>>,
     broken |-> Dirs \o <<InitFile("text", 3), ShellFile(0)>>,
     flat |-> <<InitFile("elf", 3), E("indosh", 6, "", "elf", 2, "none", 0)>>]

Machine(elf, base, types, acpi, pci, disk, fat, name) ==
    [elf |-> elf, base |-> base, descriptors |-> Descriptors(types, base, total_pages(elf)), stack |-> 1, acpi |-> acpi, pci |-> pci,
     disk |-> disk, fat |-> fat, entries |-> Archives[name], archive |-> build_initrd(Archives[name]),
     redir |-> [e \in 0 .. IOAPIC_ENTRIES |-> [vector |-> 0, masked |-> e # 2]]]

Uefi == Acpi(60, 63, NoScan)

MCMachines ==
    {Machine(e, b, t, Uefi, Q35, TRUE, TRUE, n) :
        e \in {Kernel, PlainKernel}, b \in {4, 12, 20, 26},
        t \in {PagesOfRam(Ordinary), PagesOfRam(HighRam), PagesOfRam(Scattered)}, n \in DOMAIN Archives}
    \union {Machine(Kernel, 4, ScarceRam(n), Uefi, Q35, TRUE, TRUE, a) : n \in 4 .. 22, a \in {"whole", "flat"}}
    \union {Machine(Kernel, 20, PagesOfRam(Ordinary), a, Q35, TRUE, TRUE, "whole") :
               a \in {Acpi(0, 63, NoScan), Acpi(0, 0, NoScan), Acpi(0, 0, [NoScan EXCEPT !["E0000"] = 60])}}
    \union {Machine(Kernel, 20, PagesOfRam(Ordinary), Uefi, p, d, f, "whole") :
               p \in {Q35, Sparse, NoBar, {}}, d \in BOOLEAN, f \in BOOLEAN}
=============================================================================
