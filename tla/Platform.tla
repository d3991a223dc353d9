------------------------------ MODULE Platform ------------------------------
(***************************************************************************)
(* What the kernel learns about the machine and how it programs it, as     *)
(* operators: the ACPI tables (acpi/), the PCI scan (pci/mod.rs), the      *)
(* IO-APIC's redirection table (interrupts/ioapic.rs), the routing of ISA  *)
(* interrupts (interrupts/mod.rs) and the block device registry            *)
(* (block/registry.rs).                                                    *)
(*                                                                         *)
(* A firmware's ACPI data is a record:                                     *)
(*   scan   memory range -> address of an RSDP whose checksums are right,  *)
(*          or 0; the ranges are those of find_rsdp                        *)
(*   rsdp   address -> [revision, xsdt, rsdt]                              *)
(*   root   address -> [length, addrs] of an XSDT or RSDT                  *)
(*   table  address -> [signature, ascii, length, sum, madt]               *)
(* A PCI machine is a set of functions [bus, device, function, multi,      *)
(* class, bar5].                                                           *)
(***************************************************************************)
EXTENDS Integers, Sequences, FiniteSets, SequencesExt, Numbers

CONSTANTS LAST_BUS,        \* 255
          DEVICES,         \* devices on a bus: 0..31
          FUNCTIONS,       \* functions of a device: 0..7
          EMPTY_BUSES,     \* empty buses in a row that end the scan: 8
          IOAPIC_ENTRIES,  \* redirection entries 0..max_entries
          MAX_DEVICES      \* slots of the block device registry: 16

(* No MADT: the `None` of madt_info. *)
NoMadt == [present |-> FALSE]

-----------------------------------------------------------------------------
(* ACPI. *)

(* find_rsdp tries these ranges in this order; the first only when the     *)
(* BIOS data area points into it.                                          *)
ScanOrder == <<"ebda", "E0000", "80000", "A0000", "1000", "C0000">>

FindRsdp(acpi) ==
    LET hits == SelectSeq(ScanOrder, LAMBDA r : acpi.scan[r] # 0)
    IN  IF hits = <<>> THEN 0 ELSE acpi.scan[Head(hits)]

(* parse_rsdp: the XSDT counts only from revision 2 on. *)
parse_rsdp(rsdp) == [xsdt |-> IF rsdp.revision >= 2 THEN rsdp.xsdt ELSE 0, rsdt |-> rsdp.rsdt]

(* parse_xsdt and parse_rsdt: a header without one entry gives no tables;  *)
(* zero entries are skipped.                                               *)
TableAddrs(acpi, at) ==
    IF at.xsdt # 0 THEN SelectSeq(acpi.root[at.xsdt].addrs, LAMBDA a : a # 0)
    ELSE IF at.rsdt # 0 THEN SelectSeq(acpi.root[at.rsdt].addrs, LAMBDA a : a # 0)
    ELSE <<>>

(* read_table: signature characters, length and checksum. *)
read_table(t) == t.ascii /\ t.length >= 36 /\ t.sum = 0

(* acpi::init: the loader's RSDP if it gave one, else the scan; the MADT   *)
(* is looked up under the signature "MADT".                                *)
acpi_init(acpi, bootloader_rsdp) ==
    LET rsdp   == IF bootloader_rsdp # 0 THEN bootloader_rsdp ELSE FindRsdp(acpi)
        tables == SelectSeq(TableAddrs(acpi, parse_rsdp(acpi.rsdp[rsdp])),
                            LAMBDA a : read_table(acpi.table[a]))
        madts  == SelectSeq(tables, LAMBDA a : acpi.table[a].signature = "MADT")
    IN  IF rsdp = 0 THEN [tables |-> <<>>, madt |-> NoMadt]
        ELSE [tables |-> tables,
              madt |-> IF madts = <<>> THEN NoMadt ELSE acpi.table[Head(madts)].madt]

-----------------------------------------------------------------------------
(* PCI. *)

(* read_device: a vendor of 0xFFFF means nobody answered. *)
Answers(pci, b, d, f) == {x \in pci : x.bus = b /\ x.device = d /\ x.function = f}

(* One device: functions 1..7 of a multi-function device are pushed before *)
(* function 0, and none are looked for when function 0 does not answer.    *)
OnDevice(pci, b, d) ==
    LET zero   == Answers(pci, b, d, 0)
        others == {f \in FUNCTIONS \ {0} : Answers(pci, b, d, f) # {} /\ \E x \in zero : x.multi}
        found  == Ascending(others) \o <<0>>
    IN  IF zero = {} THEN <<>>
        ELSE [i \in DOMAIN found |-> CHOOSE x \in Answers(pci, b, d, found[i]) : TRUE]

OnBus(pci, b) ==
    FoldLeft(LAMBDA s, d : s \o OnDevice(pci, b, d), <<>>, Ascending(DEVICES))

(* The whole scan, bus by bus, with its streak of empty buses. *)
ScanBus(pci, s, b) ==
    IF s.done THEN s
    ELSE LET found == OnBus(pci, b)
         IN  IF found # <<>> THEN [devices |-> s.devices \o found, streak |-> 0, done |-> FALSE]
             ELSE [s EXCEPT !.streak = @ + 1, !.done = s.streak + 1 >= EMPTY_BUSES]

enumerate(pci) ==
    FoldLeft(LAMBDA s, b : ScanBus(pci, s, b), [devices |-> <<>>, streak |-> 0, done |-> FALSE],
             [i \in 1 .. LAST_BUS + 1 |-> i - 1]).devices

-----------------------------------------------------------------------------
(* Interrupt routing.  An IO-APIC is a function entry -> [vector, masked]. *)

(* lapic::init: the vector its periodic timer interrupts on. *)
lapic_init == 32

ioapic_init(io) == [e \in DOMAIN io |-> [io[e] EXCEPT !.masked = TRUE]]

(* set_irq writes the vector with a clear mask bit; unmask_irq clears it   *)
(* again.  A register beyond the table is not there to be written.         *)
set_irq(io, e, v) == [i \in DOMAIN io |-> IF i = e THEN [vector |-> v, masked |-> FALSE] ELSE io[i]]

(* gsi_for_irq: 1:1 unless the MADT overrides an ISA (bus 0) interrupt. *)
gsi_for_irq(madt, irq) ==
    IF ~madt.present THEN irq
    ELSE LET over == SelectSeq(madt.overrides, LAMBDA o : o.bus = 0 /\ o.source = irq)
         IN  IF over = <<>> THEN irq ELSE Last(over).global

(* The three lines interrupts::init routes: timer, keyboard, COM1. *)
ROUTED == {0, 1, 4}

RoutedTable(io, madt, gsi_base) ==
    FoldLeft(LAMBDA t, irq : set_irq(t, gsi_for_irq(madt, irq) - gsi_base, 32 + irq),
             ioapic_init(io), Ascending(ROUTED))

-----------------------------------------------------------------------------
(* Block devices: the first free slot, or no change when there is none. *)
NoDevice == "none"

EmptyRegistry == [i \in 0 .. MAX_DEVICES - 1 |-> NoDevice]

FirstSlot(reg) == CHOOSE i \in 0 .. MAX_DEVICES :
                      /\ i < MAX_DEVICES => reg[i] = NoDevice
                      /\ \A j \in 0 .. i - 1 : reg[j] # NoDevice

register_device(reg, d) ==
    IF FirstSlot(reg) = MAX_DEVICES THEN reg ELSE [reg EXCEPT ![FirstSlot(reg)] = d]

unregister_device(reg, id) == [reg EXCEPT ![id] = NoDevice]
=============================================================================
