# A TLA+ verification of INDOMINUS

TLA+ models of the kernel, its boot loader and its shell, TLC configurations
that check them on small instances, and TLAPS proofs of the most important
facts for every instance. File names below without a directory are under
`src/indo-kernel/src/`; *the shell* is `src/userspace/shell/src/lib.rs`.
`PROJECT.json` maps each definition to the lines it translates.

## 1. The system

INDOMINUS is a kernel for one x86-64 CPU. `indo-boot` loads and relocates it,
`main.rs` sets up the hardware, unpacks the initrd, mounts a disk, spawns
`/bin/init` and the shell, and starts the scheduler. From then on everything is
driven by system calls, the timer, the console interrupts and exceptions.

**What is atomic.** `SFMASK` clears IF on `syscall`, and interrupt gates clear
it on entry, so a system call or an interrupt handler runs to its end,
including the context switch at its exit. Interleaving happens between calls:
a timer tick or a keystroke can come between any two calls of a program, and
any ready process can be the next to run. Devices are not bound by this: the
disk moves data while the driver polls, and the power may fail between any two
sector writes.

| part | state | operations | what makes it hard |
|---|---|---|---|
| process table, scheduler (`process/`) | slots, states, wake reasons, parents, generations, current PID, quantum | spawn, fork, exit, waitpid, kill, sleep, yield, timer | slots are reused; a process dies on the stack it is using; wake sites are spread over five functions |
| deferred freeing (`context_switch.rs`) | list of stacks and page tables | queue on death, drain at a tick | three places can free the same resource |
| kernel entry and exit (`context_switch.rs`, `syscall/mod.rs`, `idt.rs`) | registers, frames on kernel stacks, FPU buffers, RSP0, CR3 | timer, system call, fork, faults, forced switch | frames made by one path are consumed by another |
| signals, job control (`scheduler.rs`, `process/mod.rs`) | pending sets, handlers, groups, stop signal | kill, sigaction, setpgid, Ctrl+C and Ctrl+Z | the target may be on the CPU, asleep, dead or waiting |
| console (`keyboard.rs`, `tty.rs`, `serial.rs`) | line buffer with three indices, terminal flags, wake flag | a byte arrives, read, tcsetattr, wake at a tick | handler and reader share the indices; the wake-up is deferred |
| pipes, descriptors (`pipe.rs`, `syscall/mod.rs`) | pipe table, descriptor tables, reference counts | pipe, read, write, close, dup, dup2, fork, exit, Drop | references held by Zombies; wrapping counters; blocking at both ends |
| files (`vfs/`, `syscall/mod.rs`) | inode tree, mounts, handles, descriptors, working directories | open, read, write, lseek, readdir, unlink, mkdir, chdir, close, dup, dup2, fork | handles shared by fork and dup; names removed while open |
| FAT (`fat32.rs`) | FAT copies, directory, clusters, handles with their own data | create, open, write, close, delete, mkdir | several sector writes per operation, each of which may be the last |
| AHCI (`ahci/`) | port registers, command table, DMA buffer | port set-up, IDENTIFY, read, write | one buffer for all requests; errors stop the engine; retries, timeouts |
| frames (`memory/pmm.rs`) | bitmap, reference counts | init, alloc, free, incref, decref | counts must match the page tables |
| address spaces (`memory/vmm.rs`, `idt.rs`) | page tables, CR3 | fork copy, write fault, free | copy on write decided by a count; rollback half-way |
| memory calls (`syscall/mod.rs`) | heap, mmap regions | brk, mmap, munmap, exec, execve | out of memory at each page; replacing the space one runs on |
| boot (`indo-boot/`, `main.rs` and the `init` functions) | image, memory map, page tables, descriptor tables, interrupt routing, devices | once, in order | physical addresses taken early are used after the page tables changed |
| shell | commands, jobs, working directory | read a line, parse, run a built-in, a program or a pipeline | children interleave with it; descriptors must be closed in the right process |

The parts meet in `exit` and `waitpid` (scheduler, deferred freeing, pipes,
address spaces, files), in `fork` (all of them), in the page fault handler
(address spaces and scheduler), in the wake functions of `process/mod.rs`
(console, pipes, scheduler), and in the shell, which runs on pipes, descriptors
and processes at once.

## 2. The modules

| module | models | role |
|---|---|---|
| `Scheduler` | process table, scheduler, signals, process calls, boot steps, `/bin/init` | the core |
| `Context` | registers, stacks, frames, FPU, CR3 across every kernel entry | below `Scheduler` |
| `LineDiscipline` | console line buffer | implements `ConsoleStream` |
| `ConsoleStream` | what readers are promised: committed bytes, in order, once | abstract |
| `Pipes` | pipes and descriptors | implements `PipeQueue` |
| `PipeQueue` | a bounded queue per pipe | abstract |
| `Files` | VFS, ramfs, file handles, file calls | implements `OpenFiles` |
| `OpenFiles` | open file descriptions shared by dup and fork | abstract |
| `AddressSpaces` | frames, page tables, copy on write, memory calls | implements `PrivateMemory` |
| `PrivateMemory` | every process has a memory of its own | abstract |
| `Fat32` | a FAT volume, one step per sector write | |
| `Ahci` | driver and (external) device, one step per register access | |
| `Loader`, `Platform`, `Initrd`, `Numbers` | ELF loading and relocation; ACPI, PCI, IO-APIC, registry; cpio archive | operators for `Boot` |
| `Boot` | `efi_main` and `kernel_main` up to the first user instruction | composes the three above |
| `ShellInput` | tokens, commands, paths | operators for `Shell` |
| `Shell` | the shell and its children | instantiates `Pipes` for every system call |
| `SchedulerProofs` | | proofs about `Scheduler` and its instance `MCProcesses` |
| `PipesProofs`, `PipeSleepProofs` | | proofs about `Pipes`: reference counts, last closes, that it implements `PipeQueue`; why who sleeps sleeps |
| `LineDisciplineProofs` | | proofs about `LineDiscipline`; that it implements `ConsoleStream` |
| `FilesProofs` | | proofs about `Files`; that it implements `OpenFiles` |
| `AhciProofs` | | proofs about `Ahci` |
| `FrameProofs`, `MemoryProofs` | | proofs about `AddressSpaces`: counting users of frames; the invariant and the theorems |
| `MC...` | instances for TLC | |

**Scheduler.** One record per slot. A kernel stack and the page tables that
come and go with it are one resource with a number, so a double free is a
number in two places. Every system call is one action that ends in
`syscall_return`, which contains the forced switch of `schedule_force`; the
timer is `schedule`, in three cases (first dispatch, tick inside the quantum,
switch). `halted` is the `hlt` loop taken when the deferred list is full. Sleep
deadlines count down. `orphaned` is a history field that says that the slot of
the recorded parent was emptied.

**Context.** The same handlers one level down. A handler is a composition of
operators on a machine, one for each stretch of assembly: what is pushed on
which stack, what is loaded into RSP, CR3, RSP0, PER_CPU and the FPU pointer. A
word is a number that records where it came from, so "the process gets its
registers back" is an equality. Which process is next is any Ready one. The
actions `exec` and `execve` are defined and left out of the run, because both
end in the observations of section 3.

**LineDiscipline.** The buffer and `LINE_R`, `LINE_W`, `LINE_E` as in the code;
one action per kind of byte. The serial handler asks for a wake-up at every
byte and the keyboard handler does not, so the source of a byte is a parameter.

**Pipes.** Counters keep a width (`U32_MAX`, scaled down) because `sys_write`
tests for the largest value. Every call that wakes calls `keyboard_wake`, as in
the code; `send_signal_to_fg` has a wake loop of its own, which is a separate
definition here too. `unheard` records the ends that Drop closed since the last
`keyboard_wake`: Drop wakes nobody.

**Files.** A descriptor holds an index into the handle table of its process; a
handle is shared by dup (through the index) and by fork (through the `Arc`).
Directories of the RAM file system are never removed, so a directory is its
path, and a file has an identity that a handle keeps alive after unlink. The
working directory keeps only the bytes that `set_cwd` has room for. The
mounted volume is seen as the tree its reads return. `Panics` is the slice out
of range that a seek on a directory leads to. In `OpenFiles` a file without a
name lives as long as a description of it, and listing a file as a directory
(`Skim`) moves its position forward, at most to the end.

**Fat32.** `op` says where in an operation the driver is; every sector write is
a step, before which the power may fail (`crash`) or the device refuse. `torn`
records a delete cut short between its two halves, `misgrown` the files that
close grew wrongly: an entry without first cluster that got a size, and a chain of
two clusters or more, which close cuts behind the first.

**Ahci.** `todo` is what the driver still does before the function returns. The
device fetches the command table, moves the sector, fails or stops at any time
between two accesses of the driver, also after the driver has given up on the
command. `clean` says that the request in progress found the engine running and
the slot free and that no poll ran out since, `left` which requests were given up
with their command in the slot; the driver knows neither.

**AddressSpaces.** Data frames have an identity, a refcount and a content;
page-table frames are only counted, since they are never shared. A table stands
for a chain PDPT-PD-PT. Calls that loop over pages are cut into one step per
iteration (`op` holds the loop's state and disables everything else), so that
running out of memory can happen at each iteration. Contents of frames that are
not zeroed when they are handed out are arbitrary. The places where the code
panics or halts are values of `halted`.

**Boot.** One action per call that `kernel_main` makes; `env` is the machine.
Addresses are in words. Every pointer that the processor or a handler follows
later is a value of the model, physical or in the upper half, and page tables
say which addresses exist.

**Shell.** Lines are sequences of characters that the tokenizer tells apart; an
argument is where its text begins and ends in the line.
Every system call of the shell and of its children is a step and a call of
`Pipes`. What a program does after `execve` is chosen: it exits, writes, or
reads its input to the end.

Definitions named `<definition>_<fault>` or called faulty in their comments are
not part of any specification; each is a plausible slip that one of the
properties rejects.

## 3. What TLC checks

All runs are exhaustive. Deadlock is not checked where the system may stop:
in `Scheduler`, `Context` and `AddressSpaces` after a halt, in `Pipes` and
`Files` when everybody is blocked or dead, in `Ahci` after the last request, in
`Shell` after the last line.

| run | instance | properties |
|---|---|---|
| `processes` | 5 slots, 5 stacks, deferred list of 2, quantum 2; four workloads (`Families`, `Signals`, `Handlers`, `Console`), one per behaviour | `StackOwnership`: no stack is owned or queued twice; `Rsp0IsCurrentStack`: interrupts enter on a live stack; `CpuOwner`: one process is Running; `StrippedStaysDead`: who lost the stack is never woken; `NoLostConsoleWake`; until the first signal `NoOrphansUnsignalled` |
| `liveness` | 4 slots; exit, waitpid, fork, sleep, yield, under fairness | `NoStarvation`, `WaitEnds`: a waiting parent gets its child; `InitReaps`: orphans are reaped |
| `line` | buffer of 3, one character, one reader, raw and cooked | `PointerOrder`: one kind of step breaks the order of the indices; `NoLostWake`; `StreamSpec` (refinement): while they are in order, committed bytes are read in order and once |
| `pipes` | 2 processes, 2 descriptors each, 1 pipe of 2 bytes, counters to 5 | `RefcountIsExact`, `BlockedForAReason`, `LastCloseIsSeen`, `PipesAreQueues` (refinement) |
| `memory` | 2 processes, 7 frames, 3 pages in 2 tables | `RefcountIsExact`, `NoWritableSharing`, `MemoryIsPrivate` (refinement) |
| `files` | 2 processes, 2 descriptors, 2 handles; one set of calls per behaviour (`MCFiles`), with a mounted volume and a path longer than a working directory | `FdHasHandle`, `SharedDescriptions` (refinement) |
| `fat` | a file of one cluster, one of two, an empty one and a new name; 5 clusters of 2 bytes, files up to 6 bytes, 2 FATs, 1 handle, 3 operations, 1 power loss or I/O error, directory in the FAT16 root or in a chain | `ChainsAreSound`, `SizeIsCovered`, `OthersUntouched`, `ReadBack` |
| `ahci` | 2 ports, memory for one or both, 2 sectors, 3 requests of 2 attempts, 3 device errors, timeouts, late completions | `AnswerIsTrue`: what returned Ok was done, if the port was clean; `SectorsChangeByRequest` |
| `context` | idle and 2 processes, 8 system calls, 5 kinds of exceptions | `ContextKept`, `FpuKept`, `EntryReady` |
| `boot` | 64 pages, the images, memory maps, ACPI and PCI configurations and archives of `MCBoot` | `PointersReachable`, `HandlersReachable`, `ExecutionContinues`, `FramesAreDisjoint`, `InitrdComplete` |
| `shell` | 4 processes, 7 descriptors, 2 pipes of 1 byte, the sessions of `MCShell` | `ParseMatches`, `Wired`: every stage reads and writes its own pipes; `ChildrenEnd` |
| `rax` (violation) | one system call, the timer | `RaxKept` |

The `TypeOK` of `Scheduler`, `LineDiscipline` and `Pipes` is proved (section 4), so
the runs spend their properties on the rest.

Why the bounds are enough for the cases that matter. Four slots are idle, init,
the shell and one child; the fifth gives a grandchild, so that a parent dies
before its child and a slot is reused while its old children live. Two entries
in the deferred list let it overflow. A quantum of 2 has a tick that does not
switch and one that does. A buffer of 3 can be full with committed and typed
bytes in it. Counters to 5 over a pipe of 2 reach the largest value in the third
lap. Seven frames hold one process with all its pages, or two with one page
each and room for a copy, but not two full processes: every allocation
succeeds in some states and fails in others. Five clusters and four names let
a file grow into what another one freed, and fill the volume; three operations
are create, grow and delete; six bytes make the file of two clusters grow. Two
errors use up the attempts of a request, one lets it succeed at the last one; three
requests are one given up, one it disturbs and one after that. Two
processes besides idle are enough for every pair of kernel entries, one of
which leaves a frame that the other one resumes. Three children and two pipes
are a pipeline of three, or the end of one pipeline beside the start of the
next.

**Fairness.** `Scheduler`: weak fairness of the boot steps (straight-line code)
and of `schedule` (the timer is periodic); strong fairness of `init_main`
(init is a loop around one call, so each time slice it gets is used for it; it
is not always on the CPU, hence strong). Nothing is assumed of other programs.
`Shell`: weak fairness of every process that is not blocked, which `NoStarvation`
justifies; the user may stop typing. The specifications of `Fat32` and `Boot`
state that a started operation goes on (straight-line code); the properties checked
of them are safety properties, which do not use it.

**What the runs leave out.** Each item says what TLC finds when it is let in; the
next part describes the behaviour.

- `DupWhenFull = FALSE` (`Pipes`): nobody calls `dup` with a full table. With TRUE
  `RefcountIsExact` is violated.
- no `execve` in `MCMemory.cfg` (`Workload`): with it `RefcountIsExact` is violated.
- no `exec`, no `execve` in `MCContext.cfg` (`Calls`): with exec `ContextKept` is
  violated. With execve nothing is violated, because every execve halts the machine
  and the properties say nothing of a halted one.
- no `kill_process` in `LiveNext` (`MCLiveness`): with it, and `fault` in `Workload`,
  the temporal properties are violated.
- one handle in `MCFat32.cfg` (`Handles`). Files are deleted while it is open
  (`DeleteOpenFiles`), but nobody else takes the freed clusters before it is closed.
  With two handles and no faults `OthersUntouched` is violated; with
  `DeleteOpenFiles = FALSE` as well, the four properties hold (6.3 million states, 5
  minutes, which is why this is not one of the runs).
- `CR0_WP = TRUE` (`AddressSpaces`): no code of the repository sets CR0.WP, so
  this is an assumption on the firmware. Without it kernel writes bypass copy on
  write, and `MemoryIsPrivate` is violated.

**What the properties except.** Here the runs contain what the code does, and the
property names the case it does not hold in; the next part describes each.

- `PointerOrder`, `StreamSpec`: a backspace at the start of a line (`TakesBack`).
- `BlockedForAReason`: ends closed by Drop (`unheard`), the counter limit.
- `ChainsAreSound`: a delete cut short (`torn`). `SizeIsCovered`, `ReadBack`: the
  same, I/O errors, and the files that close grows wrongly (`misgrown`).
- `AnswerIsTrue`, `SectorsChangeByRequest`: requests that do not find the port
  clean (`clean`).
- `InitrdComplete`: archives with padding, a file that comes again with less data.
- `ParseMatches`: which words of a command are arguments if its line redirects.
- `Wired`: pipelines after a pipe or fork failed (`failed`).

### Disagreements between code and comments

The run `rax`: the timer handler says that it saves the interrupted program's
registers (`process/context_switch.rs:176`), but it loads the address of the FPU
buffer into RAX first (line 170).

The following were met with the constants named above, in the cases that
properties except, or while reading.

*Processes.*

- Generations prevent "cross-family reaping when PIDs are recycled"
  (`process/scheduler.rs:39`), but `sys_fork` reuses a slot without a new
  generation and death by signal does not hand children to init.
- waitpid "blocks until child exits" (`syscall/mod.rs:759`), but `kill_process`
  wakes nobody: a parent already blocked stays blocked when its child faults.
- `send_signal_to_fg` (`process/mod.rs:436`) wakes by wake reason alone and can
  make a Zombie Ready, against "zombie never scheduled" in
  `docs/architecture.md:755`. Its stack is still there (`StrippedStaysDead`).
- `context_switch.rs:102` says that `MAX_DEFERRED=4` is enough; it is 8.

*Kernel entry.*

- `sys_exec` and `sys_execve` write the new RIP, CS, RFLAGS, RSP and SS at
  positions counted from the stack pointer of the last context switch. The
  frame of a system call has another length. What `sys_exec` writes arrives in other
  registers, or, after a forced switch, where `dispatch` keeps its return address.
  `sys_execve` also writes RDI and RSI, and hits the return address in both cases.
- The general protection fault handler resumes the next process without
  restoring its FPU state; fork copies the parent's FPU buffer as of the last
  switch; a new buffer has MXCSR = 0 where `cpu.rs` speaks of 0x1F80.
- Delivering a signal overwrites RDI and there is no sigreturn.
- User programs that divide by zero or execute an invalid opcode halt the
  kernel (the fault `fatal` of `Context`).

*Console, pipes, descriptors.*

- "Invariant: r <= w <= e" (`keyboard.rs:34`): backspace compares `e` with `r`
  (line 147), so at the start of a line that follows an unread one it moves `e` below
  `w`. Readers still get the byte taken back; after they did, `r` is above `e`. What
  is typed before the read overwrites committed bytes.
- A pipe's refcount is the "number of FDs (read + write) referencing this pipe"
  (`process/pipe.rs:27`), but `sys_dup` counts before it finds a descriptor and
  keeps the count on EMFILE.
- `pipe_close` marks an end closed although other descriptors of that end
  exist; a read that blocked returns 0 when it is woken, which looks like the end
  of the file; a blocked write returns 0. `sys_write` never returns EPIPE.
- "Buffer full = nwrite == nread + PIPE_SIZE" (`process/pipe.rs:14`): the test of
  `sys_write` wraps once `nread + PIPE_SIZE` exceeds `u32::MAX`; then an empty pipe is
  taken for a full one, and a writer sleeps there for ever.
- `Drop for Process` closes pipe ends (`process/process.rs:372`) and wakes nobody: a
  reader whose last writer goes this way sleeps until some other event wakes all.
- `sys_open` accepts flags within 0xFF (`syscall/mod.rs:2125`), where its comment
  lists O_TRUNC, O_APPEND and O_CLOEXEC. They are 0x200, 0x400 and 0x80000: such an
  open returns EINVAL, and no descriptor is ever closed by exec. The shell's `>` and
  `>>` (its lines 879-881) and test T7 of `test_fat_write` ("O_TRUNC truncates existing
  file") pass these flags.
- "When the last FD is closed, the Arc refcount drops to 0 and the File is dropped"
  (`syscall/mod.rs:1840`): `sys_close` collects the slots to clear in
  `fs_close_indices` (line 1795) and never uses the list. Handles stay until the
  process ends or dup2 clears them, and open fails when the slots are used up.
- `sys_chdir` accepts paths of up to 4096 bytes and `set_cwd` keeps the first 255
  (`process/process.rs:308`): after a longer one relative paths start from a cut name,
  which need not exist.

*Memory.*

- "Restore original CR3 (back to user PML4)" (`syscall/mod.rs:2723`): the
  original is the root of the space just freed, and so it is when E2BIG is returned
  at line 2633; `sys_exec` handles this. Every program the shell starts goes this
  way, so nothing is claimed of a process after `execve`.
- `vmm.rs:587` says that a write fault on a page with refcount 1 kills;
  `handle_cow_fault` makes a read-only page writable.
- brk shrinks with `free_frame`, which panics on a page still shared with a
  child; munmap uses `decref` for that reason.
- fork's error paths do not free the child's PML4 or space (`lost` in
  `AddressSpaces`); execve with too many arguments returns after freeing the
  old space; `Process::new_user` leaves its page tables behind when it fails.

*FAT and disk.*

- "crash-safe: old data intact on crash" (`fat32.rs:25`): overwriting happens in
  place, and delete frees the chain before it removes the entry.
- "size LAST = crash-safe" (`fat32.rs:1580`): the directory entry gets the size
  only. A file that was empty keeps first cluster 0: its entry promises bytes and has
  no chain, without any fault, and it reads back as zeros.
- close extends a file from its first cluster (`fat32.rs:1533`), so growing a
  file of two clusters or more cuts off its tail: the clusters behind the first are
  lost, and the size is more than the chain holds. Other files are not affected
  (`OthersUntouched`, with one handle).
- `delete_child_file` (`fat32.rs:1357`) does not look for open handles. A handle
  keeps the first cluster of the file that is gone; when it is closed after another
  file has grown into that cluster, it cuts or overwrites the chain of that file.
- In the FAT16 root the size is not updated: what a file grew by is lost.
- New files get no directory entry; mkdir allocates a cluster and then always
  fails. No system call reaches the write side of the driver.
- An I/O error in `extend_chain` ends the loop, and the size is updated all the
  same. `allocate_cluster` looks past the end of the volume.
- After a timeout the AHCI driver does not reset the port (`ahci/mod.rs:812`). The
  command it gave up may complete later: a write then stores, in its own sector, what
  the shared buffer holds for the next request, and its completion is taken for the
  next request's, against "Command succeeded [...] Trust the DMA buffer contents"
  (line 885).
- A task file error must be followed by a restart of the command engine, or
  "PxCI writes are silently accepted but no DMA transfer occurs"
  (`ahci/mod.rs:9`). `last_was_tfes` is local to a request: when the last attempt
  fails, the next request finds the engine stopped, and a read then succeeds with
  the probe pattern as its data.
- `Vfs::create_file` "truncates if exists" (`vfs/mod.rs:159`) and `write_file` is to
  "overwrite" (line 244): the data of the old file stays, so that a file of the initrd
  that comes again with less data keeps the end of the longer one.

*Boot.*

- The block for the image is as large as the sum of its segments, not their span
  (`indo-boot/src/main.rs:368`), and only the last relocation section is fixed up.
- `harden_identity_map` leaves 1 MiB executable whatever the size of the image.
- The MADT is looked up as "MADT" (`acpi/mod.rs:125`); its signature is "APIC".
  So the defaults are always used.
- LAPIC timer and PIT both tick vector 32. Init need not get PID 1
  (`main.rs:2965`); without `/bin/init` the shell does, and is its own parent.
- "Check for zero padding between archives (skip it)" (`initrd.rs:99`): the
  last five bytes of such padding, or less than six, are taken for a bad header, and
  what follows is not unpacked. `BootInfo::validate` is never called.
- The allocator tracks 16 GiB while 4 GiB are identity-mapped.

*Shell.*

- "`ls > output.txt` writes stdout to a file" (`docs/PHASE9_PLAN.md:46`, and
  `docs/ERRORS_AND_FIXES.md:73`): the parser takes the text of the operator for the name
  (lines 284-306), so the file is called `>`, and `output.txt` is an argument.
- "Wait for all children" (line 1006): the loop polls with WNOHANG, and the prompt
  returns while children run. waitpid returns a PID, which the shell decodes as a
  status; a waitpid that blocked does not reap.
- When pipe or fork fails in a pipeline, the ends made so far stay open. `add_job`
  is unreachable, against `docs/KERNEL_CONFIDENCE_REPORT.md:212` ("handles background
  jobs").

## 4. What is proved

The eight `...Proofs` modules are checked by TLAPS with no gaps. Their theorems
hold for all values of the constants that satisfy the named assumptions
(`SchedulerAssumption`, `LineAssumption`, `PipesAssumption`,
`FilesAssumption`, `AhciAssumption`, `SpacesAssumption`, `FirstFits`), which TLC
evaluates in the runs. A theorem that needs a constant to exclude something the
code can do says so in its `ASSUME`; section 3 says what the code does there.

- **`StacksOwnedOnce`**: `Spec => []StackOwnership`, with `TypeCorrect`. The
  inductive invariant is `TypeOK /\ StackOwnership`. Ownership alone is not
  inductive: types are needed so that the process that dies is a slot of the
  table and the stack it leaves is one of the heap's. The argument: every
  function on the table maps tables to tables and leaves all stacks where they
  are (lemmas `...Table`). Stacks move in four ways only: a spawn or fork takes
  a stack that is not allocated (`OwnedSpawn`), a dying process's stack goes
  from its slot to the list in one step (`DeferFree`), a drain gives the whole
  list back (`OwnedDrain`), and a reap frees what the slot still owns.
- **`OneOnCpu`, `Rsp0Valid`, `StrippedIsDead`, `ConsoleWakeKept`**: the process
  on the CPU is the only Running one, TSS.RSP0 is its stack and that stack is
  allocated, a process that lost its stack stays a Zombie, and a console reader
  with a line ready has a wake-up pending. The four need one another, so one
  invariant `CpuInv` carries them: ownership of stacks from above; every slot is
  fit to be scheduled (one that can run has no wake-up reason, one without a
  stack is dead and no wake site finds it), idle can always run, nobody is its own
  parent, and init has its slot and no parent (`Family`, so that the one reaped
  or woken by an exit is not the one that exits).
  The argument: every function that wakes, stops or kills processes is gentle
  (`Gentle`): it makes nobody Running, takes nobody's stack and revives nobody.
  Only the switches make a process Running, and they load RSP0 in the same step.
- **`NobodyOrphaned`, `NobodyOrphanedUnsignalled`**: without signals, no process
  keeps a parent whose slot was emptied. `QuietInv` strengthens this: no Zombie is
  anybody's recorded parent, nothing is pending, and idle, init and the process on
  the CPU are alive. The argument: `sys_exit` and `kill_process` hand the children
  to init before the process is a Zombie, only the living fork, and a slot is
  emptied only for a Zombie. The second theorem is about `MCProcesses`, whose
  history variable `signalled` says when the first signal was sent.
- **`NoWakeIsLost`** and `TypeCorrect` of the line buffer: the invariant is
  `TypeOK /\ NoLostWake`, for any buffer size, alphabet and set of readers.
- **`OrderKept`**: one kind of step breaks the order of the indices, the backspace
  that takes back a committed byte. It needs the invariant above for the ranges of
  the indices; the argument is a case per kind of byte and per mode.
- **`BufferIsStream`**: as long as the indices are in order, the buffer implements
  `ConsoleStream`. The mapping takes the bytes from `LINE_R` to `LINE_W` as the
  committed stream and those up to `LINE_E` as the line being edited; every step
  between two ordered states is one of the stream's.
- **`RefcountExact`**: under `~DupWhenFull` the reference count of a pipe is the
  number of descriptors that name it. The invariant `CountInv` adds to the
  types that slots without a process hold no descriptor (`Unused`), without
  which fork would overwrite references that were counted. The argument follows
  the set of descriptors that name a pipe: one call adds or removes one or two
  of them, and fork, exit and Drop a whole table at a time, which is where the
  theorems on finite cardinalities come in.
- **`LastCloseSeen`**: an end that is marked open is held by a descriptor. Its
  invariant `OpenInv` needs neither exact counts nor the assumption on dup,
  because `pipe_close` marks an end closed at the first close.
- **`NobodySleepsInVain`**: under `~DupWhenFull` a process blocked on a pipe has
  its reason. `SleepInv` strengthens this by what makes it inductive: the
  sleeper still holds the end it waits for, so that (with `CountInv`) the pipe
  cannot be freed and reused under it, and the pipe is not read past what was
  written. Then the only calls that could take the reason away are a read and
  a write of the same pipe, and both wake everybody who waits there. `HeardInv` adds
  the other end: whatever closes it, Drop excepted, wakes the sleeper in the same
  step. At the counter limit the code's test is true although the pipe has room, which
  is why that case is part of the statement.
- **`PipesImplementQueues`**: every pipe implements a bounded queue, with no
  assumption about dup. `QueueInv` adds to the types that a pipe is never read
  past what was written and never holds more than its buffer; the lemmas show
  that a window of the ring moves by one at each byte, at the wrap too.
- **`FdsHaveHandles`**: no descriptor dangles. `FdInv` splits the path from the
  descriptor to the handle: the named slot is taken, and a handle in a slot is in
  use. The case that matters is close: a slot is cleared only when no other
  descriptor of the process names it, and a handle goes when no slot of any
  process holds it.
- **`DescriptionsShared`**: `Files` implements `OpenFiles`. A description is a
  handle that some descriptor reaches through its process's slot table; its data
  is the content of the handle's inode. `DescInv` adds to the two invariants above
  that processes that are gone hold nothing and that the handle of a file has data
  and a position. The proof goes call by call: what open installs was named by
  nobody, close and dup2 clear a slot only with its last descriptor, an
  inode that is created is one no handle holds, and what a write leaves in the
  file is the old content with the bytes spliced in at the position.
- **`OkIsTrue`, `SectorsAsAsked`**: for a request that found the port clean, an
  answer Ok means that it was carried out, and no sector changes but by it; what was
  given up before touches no sector but its own. No behaviour of the device is
  assumed away. The invariant `PortInv` says for every place in the driver's sequence
  of register accesses what the registers and the device can be while `clean` holds
  (nothing in the slot while the engine starts, nothing in flight outside the wait,
  the command in flight is the request), and that otherwise the command table and what
  is in flight belong to a request that is served or in `left`.
- **`RefcountsExact`, `WritableIsPrivate`**: the refcount of a frame is the number
  of leaves that map it, and a writable leaf is the only one. The inductive
  invariant `MemInv` follows all spaces there are (of processes, of the dead, of
  the fork or exec in progress, and those a failure lost): each has one owner
  and a PML4 of its own and maps no frame twice, the counts of data frames and
  of table frames are those of the spaces, and frames in use fit in memory, so
  that `alloc_frame` returns one nobody maps. The call in progress adds what its
  loop has done so far (`UnderAt`): a half-copied child has leaves of its parent
  only in the tables already copied. `execve` is excluded by
  `"execve" \notin Workload`, because its path for too many arguments frees the
  space the process keeps; and the theorems assume `[]Unsaturated` (no refcount
  reaches `RC_MAX`), because `incref` stops counting there. With `RC_MAX` above
  the number of leaves there can be, as in the run, that assumption is met.

Only model-checked:

- liveness (`NoStarvation`, `WaitEnds`, `InitReaps`, `ChildrenEnd`): fairness is
  outside the prover's reach;
- `ParseMatches`, `Wired`: the shell's tokens are defined by recursive operators;
- `InitrdComplete` and the four properties of `Fat32`: archives and cluster
  chains are followed by recursion over data, which needs induction;
- the refinement `MemoryIsPrivate`, the other properties of `Boot` and those of
  `Context`: within the prover's reach and not yet proved.

## 5. Not modelled

- *Output and diagnostics*: serial output, the paging audit, the panic handler,
  the frame buffer and the console's echo. They print and change nothing else.
- *Self-tests of `main.rs`* that print PASS or FAIL, and the embedded test
  programs (byte arrays generated by the build). The two tests that leave state
  behind are part of `Boot` (block registry) and `Scheduler` (spawned processes).
- *Formats*: scan codes, BPB and directory entry layout, long names, ELF headers,
  the fields of a MADT, CPUID. They are decoded data; what the code decides
  from them is in the models.
- *The heap allocator* inside the kernel heap: a library. Its wrapper, which
  switches CR3, is not modelled.
- *The RAM disk*: a byte array under a bounds check, used by one self-test.
- *Utilities* (`cat`, `ls`, ...): straight-line programs; in `Shell` a program is
  any sequence of writes, reads or an exit.
- *Parts of the shell*: built-ins that only print, history, line editing, the
  64-part limit of `normalize_path`; job control, which cannot be reached.
- *A second CPU*: the kernel starts none.
