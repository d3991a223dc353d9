----------------------------- MODULE Scheduler -----------------------------
(***************************************************************************)
(* The process table and the scheduler of the INDOMINUS kernel             *)
(* (indo-kernel/src/process/{process,scheduler,mod,context_switch}.rs) and *)
(* the system calls that change them (indo-kernel/src/syscall/mod.rs).     *)
(*                                                                         *)
(* One CPU.  A system call runs with interrupts masked from entry to       *)
(* return (SFMASK clears IF), so it is one atomic step, including the      *)
(* context switch it may force on its way out.  The timer and the console  *)
(* interrupt only user code and the idle loop.                             *)
(*                                                                         *)
(* Abstractions.  A kernel stack and the page tables handed out with it    *)
(* are one resource, named by a stack number (this module has no exec).    *)
(* A sleep deadline is the number of ticks still to go.  The console line  *)
(* buffer is one bit, "a committed line can be read".  Pipes, descriptors  *)
(* and exit codes (which waitpid does not return) are left out.            *)
(***************************************************************************)
EXTENDS Integers, FiniteSets, Sequences

CONSTANTS
  MaxProcs,     \* MAX_PROCESSES, slot 0 (idle) included
  MaxDeferred,  \* MAX_DEFERRED, length of the deferred-free list
  Quantum,      \* DEFAULT_QUANTUM, ticks per time slice
  NStacks,      \* how many kernel stacks the heap can hold
  MaxSleep,     \* longest sleep a program asks for (bound)
  BootTests,    \* how many processes the boot-time tests spawn (bound)
  Regression,   \* how many regression programs the initrd holds
  Sigs,         \* the signals programs and the console use
  Workload      \* the operations that programs and the console perform

Operations == {"exit", "yield", "waitpid", "sleep", "read", "fork", "kill",
               "sigaction", "setpgid", "fault", "enter", "ctrl"}

ASSUME SchedulerAssumption ==
  /\ MaxProcs \in Nat /\ MaxProcs >= 4
  /\ MaxDeferred \in Nat
  /\ Quantum \in Nat \ {0}
  /\ NStacks \in Nat /\ NStacks >= 2
  /\ MaxSleep \in Nat
  /\ BootTests \in Nat
  /\ Regression \in Nat
  /\ Sigs \subseteq 1..31
  /\ Workload \subseteq Operations

Pids == 0..(MaxProcs - 1)
IdlePid == 0
UserPids == 1..(MaxProcs - 1)
NoPid == -1              \* Option<Pid>::None
Stacks == 1..NStacks
NoStack == 0             \* kernel_stack_base = pml4_phys = 0

SIGINT == 2
SIGQUIT == 3
SIGCONT == 18
SIGSTOP == 19
SIGTSTP == 20

VARIABLES
  procs,                  \* Scheduler.processes
  generations,            \* Scheduler.generations
  INIT_PID,               \* the reaper's PID, 0 until boot sets it
  current_pid,            \* Scheduler.current_pid
  tick_counter,           \* Scheduler.tick_counter
  deferred,               \* DEFERRED_SLOTS[0 .. DEFERRED_COUNT)
  allocated,              \* kernel stacks the heap has handed out
  rsp0,                   \* TSS.RSP0 = PER_CPU.kernel_rsp
  force_switch,           \* PER_CPU.force_switch
  KEYBOARD_WAKE_PENDING,  \* set by the console interrupt, drained by the timer
  line_ready,             \* a committed console line is waiting
  boot,                   \* how far kernel_main has come
  halted                  \* the kernel stopped in a hlt loop

vars == <<procs, generations, INIT_PID, current_pid, tick_counter, deferred,
          allocated, rsp0, force_switch, KEYBOARD_WAKE_PENDING, line_ready,
          boot, halted>>

-----------------------------------------------------------------------------
(* The process table *)

WakeReason == [kind : {"None", "Sleep", "Keyboard", "WaitForChild"}, arg : Nat]
NoWake == [kind |-> "None", arg |-> 0]
Sleep(n) == [kind |-> "Sleep", arg |-> n]
Keyboard == [kind |-> "Keyboard", arg |-> 0]
WaitForChild(c) == [kind |-> "WaitForChild", arg |-> c]

ProcessState == {"Empty", "Ready", "Running", "Blocked", "Zombie"}
Handler == {"Default", "Ignore", "User"}

\* A slot of the table; state "Empty" is the slot None.  "orphaned" is a history
\* field: the slot of the recorded parent was emptied after the link was made.
Process ==
  [state : ProcessState, wake : WakeReason, parent : Pids \cup {NoPid},
   parent_gen : Nat, gen : Nat, pgid : Nat, pending : SUBSET Sigs,
   handlers : [Sigs -> Handler], stop : Nat, kstack : Stacks \cup {NoStack},
   orphaned : BOOLEAN]

NewProcess(parent, parent_gen, gen, pgid, kstack) ==
  [state |-> "Ready", wake |-> NoWake, parent |-> parent,
   parent_gen |-> parent_gen, gen |-> gen, pgid |-> pgid, pending |-> {},
   handlers |-> [s \in Sigs |-> "Default"], stop |-> 0, kstack |-> kstack,
   orphaned |-> FALSE]

EmptySlot == [NewProcess(NoPid, 0, 0, 0, NoStack) EXCEPT !.state = "Empty"]

IsSome(ps, p) == ps[p].state # "Empty"
Least(S) == CHOOSE x \in S : \A y \in S : x <= y
FreeSlots(ps) == {p \in UserPids : ~IsSome(ps, p)}
FreeStacks == Stacks \ allocated

\* The heap hands out its first free block that fits.
alloc_kernel_stack == {k \in FreeStacks : \A j \in FreeStacks : k <= j}

\* Faulty variants, used only to see that the properties can fail, are named
\* <definition>_<fault>.
Woken_KeepsReason(pr) == [pr EXCEPT !.state = "Ready"]

\* What every wake site does to a process.
Woken(pr) == [pr EXCEPT !.state = "Ready", !.wake = NoWake]

\* Stopped by signal s.
Suspend(pr, s) == [pr EXCEPT !.state = "Blocked", !.wake = NoWake, !.stop = s]

\* The table in which p sleeps until w.
BlockOn(ps, p, w) == [ps EXCEPT ![p] = [@ EXCEPT !.state = "Blocked", !.wake = w]]

-----------------------------------------------------------------------------
(* Scheduler methods, as functions of the table *)

ReadyUsers(ps) == {p \in UserPids : ps[p].state = "Ready"}

Distance_FromSlotOne(a, p) == p

\* Position of p in the scan that starts just after PID a.
Distance(a, p) == (p - a - 1) % MaxProcs

\* Scheduler::find_next_ready(a).unwrap_or(idle_pid)
find_next_ready(ps, a) ==
  IF ReadyUsers(ps) = {} THEN IdlePid
  ELSE CHOOSE p \in ReadyUsers(ps) :
         \A q \in ReadyUsers(ps) : Distance(a, p) <= Distance(a, q)

Preempt_Forgotten(ps, p) == ps

\* First half of switch_next and switch_next_force: a Running process is
\* preempted, a process in any other state keeps it.
Preempt(ps, p) ==
  IF ps[p].state = "Running" THEN [ps EXCEPT ![p].state = "Ready"] ELSE ps

Dispatch(ps, p) == [ps EXCEPT ![p].state = "Running"]

\* Default action of signal s on process p.
DefaultAction(ps, p, s) ==
  CASE s = SIGTSTP -> [ps EXCEPT ![p] = Suspend(@, s)]
    [] s \in {SIGCONT, SIGSTOP} -> ps
    [] OTHER -> [ps EXCEPT ![p].state = "Zombie"]

\* End of deliver_signal's default branch: a parent waiting for exactly this
\* child becomes Ready, whatever its state and whatever the action was.
WakeParent(ps, p) ==
  LET par == ps[p].parent IN
  IF /\ par # NoPid
     /\ IsSome(ps, par)
     /\ ps[par].gen = ps[p].parent_gen
     /\ ps[par].wake = WaitForChild(p)
  THEN [ps EXCEPT ![par] = Woken(ps[par])]
  ELSE ps

\* Scheduler::deliver_signal.  The lowest pending signal; rspOk is whether the
\* interrupted user stack pointer can take the handler's return address.
deliver_signal(ps, p, rspOk) ==
  LET sig == Least(ps[p].pending)
      cleared == [ps EXCEPT ![p].pending = @ \ {sig}]
  IN IF p = IdlePid \/ ~IsSome(ps, p) \/ ps[p].pending = {} THEN ps
     ELSE CASE ps[p].handlers[sig] = "Default" ->
                 WakeParent(DefaultAction(cleared, p, sig), p)
            [] ps[p].handlers[sig] = "Ignore" -> cleared
            [] OTHER -> IF ps[p].kstack = NoStack THEN ps
                        ELSE IF rspOk THEN cleared
                        ELSE [cleared EXCEPT ![p].state = "Zombie"]

reparent_orphans_to_init_SkipsZombies(ps, old) ==
  [p \in Pids |->
     IF ps[p].state \notin {"Empty", "Zombie"} /\ ps[p].parent = old
     THEN [ps[p] EXCEPT !.parent = INIT_PID,
                        !.parent_gen = generations[INIT_PID],
                        !.orphaned = FALSE]
     ELSE ps[p]]

\* Scheduler::reparent_orphans_to_init
reparent_orphans_to_init(ps, old) ==
  [p \in Pids |->
     IF IsSome(ps, p) /\ ps[p].parent = old
     THEN [ps[p] EXCEPT !.parent = INIT_PID,
                        !.parent_gen = generations[INIT_PID],
                        !.orphaned = FALSE]
     ELSE ps[p]]

reap_zombie_KeepsSlot(ps, c) == ps

\* Scheduler::reap_zombie: the slot becomes None, its Process is dropped.
reap_zombie(ps, c) ==
  [p \in Pids |->
     IF p = c THEN EmptySlot
     ELSE IF IsSome(ps, p) /\ ps[p].parent = c
          THEN [ps[p] EXCEPT !.orphaned = TRUE]
          ELSE ps[p]]

\* The sleepers' loop of Scheduler::on_tick, after pit::on_tick.
WakeSleepers(ps) ==
  [p \in Pids |->
     IF ps[p].state = "Blocked" /\ ps[p].wake.kind = "Sleep"
     THEN IF ps[p].wake.arg <= 1 THEN Woken(ps[p])
          ELSE [ps[p] EXCEPT !.wake = Sleep(ps[p].wake.arg - 1)]
     ELSE ps[p]]

\* process::keyboard_wake
keyboard_wake(ps) ==
  [p \in Pids |->
     IF /\ ps[p].state = "Blocked"
        /\ \/ ps[p].wake.kind = "Keyboard"
           \/ /\ ps[p].wake.kind = "WaitForChild"
              /\ ps[p].wake.arg \in Pids
              /\ ps[ps[p].wake.arg].state = "Zombie"
     THEN Woken(ps[p])
     ELSE ps[p]]

wake_wait_for_child_NotAny(ps, z) ==
  [p \in Pids |->
     IF p # IdlePid /\ ps[p].state = "Blocked" /\ ps[p].wake = WaitForChild(z)
     THEN Woken(ps[p])
     ELSE ps[p]]

\* process::wake_wait_for_child
wake_wait_for_child(ps, z) ==
  [p \in Pids |->
     IF /\ p # IdlePid
        /\ ps[p].state = "Blocked"
        /\ ps[p].wake.kind = "WaitForChild"
        /\ ps[p].wake.arg \in {z, 0}
     THEN Woken(ps[p])
     ELSE ps[p]]

\* The foreground group of send_signal_to_fg: the group of the lowest Running
\* user process, failing that of the lowest Ready one.
InState(ps, st) == {p \in UserPids : ps[p].state = st}
Foreground(ps) ==
  CASE InState(ps, "Running") # {} -> {ps[Least(InState(ps, "Running"))].pgid}
    [] InState(ps, "Running") = {} /\ InState(ps, "Ready") # {} ->
         {ps[Least(InState(ps, "Ready"))].pgid}
    [] OTHER -> {}

\* The live members of the foreground group.
Targets(ps) ==
  {p \in UserPids : ps[p].state \notin {"Empty", "Zombie"} /\ ps[p].pgid \in Foreground(ps)}

\* First loop of send_signal_to_fg: kill or stop each member.
SignalGroup(ps, s) ==
  [p \in Pids |->
     IF p \notin Targets(ps) THEN ps[p]
     ELSE IF s = SIGTSTP
          THEN Suspend(ps[p], s)
          ELSE [ps[p] EXCEPT !.state = "Zombie"]]

\* Second loop: whoever waits for a killed process is made Ready, with no look
\* at its state.
WakeWaiters(ps, killed) ==
  [p \in Pids |->
     IF /\ p # IdlePid
        /\ IsSome(ps, p)
        /\ ps[p].wake.kind = "WaitForChild"
        /\ ps[p].wake.arg \in killed \cup (IF killed = {} THEN {} ELSE {0})
     THEN Woken(ps[p])
     ELSE ps[p]]

\* Third loop: readers of the console.
WakeReaders(ps) ==
  [p \in Pids |->
     IF ps[p].state = "Blocked" /\ ps[p].wake.kind = "Keyboard"
     THEN Woken(ps[p])
     ELSE ps[p]]

\* process::send_signal_to_fg for the signals the console sends.
send_signal_to_fg(ps, s) ==
  LET killed == IF s \in {SIGINT, SIGQUIT} THEN Targets(ps) ELSE {}
  IN WakeReaders(WakeWaiters(SignalGroup(ps, s), killed))

-----------------------------------------------------------------------------
(* Boot: kernel_main up to start_scheduler *)

\* Scheduler::spawn_user into the first free slot, with stack k.
spawn_user(parent, k) ==
  LET pid == Least(FreeSlots(procs))
      parent_gen == IF parent # NoPid /\ IsSome(procs, parent)
                    THEN procs[parent].gen ELSE 0
      g == generations[pid] + 1
  IN /\ procs' = [procs EXCEPT ![pid] = NewProcess(parent, parent_gen, g, pid, k)]
     /\ generations' = [generations EXCEPT ![pid] = g]
     /\ allocated' = allocated \cup {k}

Spawnable == FreeSlots(procs) # {} /\ FreeStacks # {}
Spawn(parent) == \E k \in alloc_kernel_stack : spawn_user(parent, k)

\* After process::init: idle in slot 0, the kernel-mode reaper in slot 1.
Init ==
  /\ procs = [p \in Pids |->
                CASE p = IdlePid -> NewProcess(NoPid, 0, 1, 0, 1)
                  [] p = 1 -> NewProcess(NoPid, 0, 1, 0, 2)
                  [] OTHER -> EmptySlot]
  /\ allocated = {1, 2}
  /\ generations = [p \in Pids |-> IF p = 1 THEN 1 ELSE 0]
  /\ INIT_PID = 0
  /\ current_pid = NoPid
  /\ tick_counter = 0
  /\ deferred = <<>>
  /\ rsp0 = NoStack
  /\ force_switch = FALSE
  /\ KEYBOARD_WAKE_PENDING = FALSE
  /\ line_ready = FALSE
  /\ boot = "tests"
  /\ halted = FALSE

\* A boot-time test spawns a process that never gets to run.
BootTestSpawn ==
  /\ boot = "tests"
  /\ Cardinality(InState(procs, "Ready")) <= BootTests
  /\ Spawnable
  /\ Spawn(1)
  /\ UNCHANGED <<INIT_PID, current_pid, tick_counter, deferred, rsp0,
                 force_switch, KEYBOARD_WAKE_PENDING, line_ready, boot, halted>>

\* kernel_main drops every process but idle, the kernel-mode reaper included.
BootClear ==
  /\ boot = "tests"
  /\ procs' = [p \in Pids |-> IF p = IdlePid THEN procs[p] ELSE EmptySlot]
  /\ allocated' = allocated \ {procs[p].kstack : p \in UserPids}
  /\ boot' = "regression"
  /\ UNCHANGED <<generations, INIT_PID, current_pid, tick_counter, deferred, rsp0,
                 force_switch, KEYBOARD_WAKE_PENDING, line_ready, halted>>

\* The regression programs are spawned with parent 1: the first of them takes
\* slot 1 and so is its own parent.
RegressionLeft == Cardinality(InState(procs, "Ready")) < Regression /\ Spawnable

BootRegression ==
  /\ boot = "regression"
  /\ RegressionLeft
  /\ Spawn(1)
  /\ UNCHANGED <<INIT_PID, current_pid, tick_counter, deferred, rsp0, force_switch,
                 KEYBOARD_WAKE_PENDING, line_ready, boot, halted>>

\* The last regression program is "given the CPU" with set_force_switch, which
\* before start_scheduler only leaves the flag set.
BootForceSwitch ==
  /\ boot = "regression"
  /\ ~RegressionLeft
  /\ force_switch' = (Regression > 0)
  /\ boot' = "init"
  /\ UNCHANGED <<procs, generations, INIT_PID, current_pid, tick_counter, deferred,
                 allocated, rsp0, KEYBOARD_WAKE_PENDING, line_ready, halted>>

\* /bin/init; without it the kernel halts.
BootInit ==
  /\ boot = "init"
  /\ IF Spawnable
     THEN /\ Spawn(NoPid)
          /\ INIT_PID' = Least(FreeSlots(procs))
          /\ boot' = "shell"
          /\ UNCHANGED halted
     ELSE /\ halted' = TRUE
          /\ boot' = "halt"
          /\ UNCHANGED <<procs, generations, allocated, INIT_PID>>
  /\ UNCHANGED <<current_pid, tick_counter, deferred, rsp0, force_switch,
                 KEYBOARD_WAKE_PENDING, line_ready>>

\* /bin/indosh with parent 1, then start_scheduler.
BootShell ==
  /\ boot = "shell"
  /\ IF Spawnable THEN Spawn(1) ELSE UNCHANGED <<procs, generations, allocated>>
  /\ boot' = "run"
  /\ UNCHANGED <<INIT_PID, current_pid, tick_counter, deferred, rsp0, force_switch,
                 KEYBOARD_WAKE_PENDING, line_ready, halted>>

-----------------------------------------------------------------------------
(* Context switches *)

Live == boot = "run" /\ ~halted

defer_free_KeepsStack(ps, old, k) ==
  /\ procs' = ps
  /\ IF k # NoStack /\ Len(deferred) < MaxDeferred
     THEN deferred' = Append(deferred, k) /\ UNCHANGED halted
     ELSE halted' = (k # NoStack) /\ UNCHANGED deferred

\* context_switch::defer_free, for the stack of the process that was current:
\* queue it and zero the slot's fields, or halt when the list is full.
defer_free(ps, old, k) ==
  IF k = NoStack
  THEN procs' = ps /\ UNCHANGED <<deferred, halted>>
  ELSE IF Len(deferred) < MaxDeferred
  THEN /\ procs' = [ps EXCEPT ![old].kstack = NoStack]
       /\ deferred' = Append(deferred, k)
       /\ UNCHANGED halted
  ELSE procs' = ps /\ halted' = TRUE /\ UNCHANGED deferred

\* Scheduler::switch_next and switch_next_force, with the signal delivery that
\* follows the first and ends the second.
next_pid(ps) == find_next_ready(Preempt(ps, current_pid), current_pid)
switch_next(ps, rspOk) ==
  deliver_signal(Dispatch(Preempt(ps, current_pid), next_pid(ps)), next_pid(ps), rspOk)

schedule_force_OldStack(ps) ==
  /\ \E rspOk \in BOOLEAN :
       defer_free(switch_next(ps, rspOk), current_pid,
                  IF ps[current_pid].state = "Zombie" THEN ps[current_pid].kstack
                                                      ELSE NoStack)
  /\ current_pid' = next_pid(ps)
  /\ UNCHANGED rsp0

\* context_switch::schedule_force, with ps the table the system call left.
schedule_force(ps) ==
  /\ \E rspOk \in BOOLEAN :
       defer_free(switch_next(ps, rspOk), current_pid,
                  IF ps[current_pid].state = "Zombie" THEN ps[current_pid].kstack
                                                      ELSE NoStack)
  /\ current_pid' = next_pid(ps)
  /\ rsp0' = ps[next_pid(ps)].kstack

\* The way out of syscall_entry: switch if the call, or an earlier one, asked.
syscall_return(ps, force) ==
  /\ force_switch' = FALSE
  /\ IF force \/ force_switch
     THEN schedule_force(ps)
     ELSE procs' = ps /\ UNCHANGED <<current_pid, rsp0, deferred, halted>>

\* context_switch::schedule, from the timer interrupt.  It first frees what is
\* queued and does the wake-ups the console interrupt asked for.
DrainAndWake ==
  /\ Live
  /\ deferred' = <<>>
  /\ allocated' = allocated \ {deferred[i] : i \in DOMAIN deferred}
  /\ KEYBOARD_WAKE_PENDING' = FALSE
  /\ UNCHANGED <<generations, INIT_PID, force_switch, line_ready, boot, halted>>

AfterConsole == IF KEYBOARD_WAKE_PENDING THEN keyboard_wake(procs) ELSE procs

\* The first tick gives the CPU to the first Ready process.
schedule_first ==
  /\ DrainAndWake
  /\ current_pid = NoPid
  /\ current_pid' = find_next_ready(AfterConsole, IdlePid)
  /\ procs' = Dispatch(AfterConsole, find_next_ready(AfterConsole, IdlePid))
  /\ tick_counter' = 0
  /\ rsp0' = procs[find_next_ready(AfterConsole, IdlePid)].kstack

\* Within the quantum, on_tick only wakes sleepers.
schedule_tick ==
  /\ DrainAndWake
  /\ current_pid # NoPid
  /\ tick_counter + 1 < Quantum
  /\ procs' = WakeSleepers(AfterConsole)
  /\ tick_counter' = tick_counter + 1
  /\ rsp0' = procs[current_pid].kstack
  /\ UNCHANGED current_pid

\* At the end of the quantum it switches and delivers a signal.
schedule_switch ==
  /\ DrainAndWake
  /\ current_pid # NoPid
  /\ tick_counter + 1 >= Quantum
  /\ current_pid' = next_pid(WakeSleepers(AfterConsole))
  /\ rsp0' = procs[next_pid(WakeSleepers(AfterConsole))].kstack
  /\ tick_counter' = 0
  /\ \E rspOk \in BOOLEAN : procs' = switch_next(WakeSleepers(AfterConsole), rspOk)

schedule == schedule_first \/ schedule_tick \/ schedule_switch

-----------------------------------------------------------------------------
(* System calls of the process on the CPU *)

\* An ordinary program is on the CPU and performs op.  The process on the CPU
\* need not be Running: a signal may have stopped or killed it there.
Program(op) ==
  /\ Live
  /\ op \in Workload
  /\ current_pid \notin {NoPid, IdlePid, INIT_PID}

sys_exit ==
  /\ Program("exit")
  /\ LET ps == reparent_orphans_to_init(procs, current_pid)
         dead == [ps EXCEPT ![current_pid].state = "Zombie"]
     IN syscall_return(wake_wait_for_child(dead, current_pid), TRUE)
  /\ UNCHANGED <<generations, INIT_PID, tick_counter, allocated,
                 KEYBOARD_WAKE_PENDING, line_ready, boot>>

sys_yield ==
  /\ Program("yield")
  /\ syscall_return(procs, TRUE)
  /\ UNCHANGED <<generations, INIT_PID, tick_counter, allocated,
                 KEYBOARD_WAKE_PENDING, line_ready, boot>>

sys_sleep ==
  /\ Program("sleep")
  /\ \E n \in 0..MaxSleep :
       syscall_return(BlockOn(procs, current_pid, Sleep(n)), TRUE)
  /\ UNCHANGED <<generations, INIT_PID, tick_counter, allocated,
                 KEYBOARD_WAKE_PENDING, line_ready, boot>>

\* Scheduler::is_child_of, with the generation of the caller's slot.
is_child_of(c, p) ==
  /\ IsSome(procs, c)
  /\ procs[c].parent = p
  /\ procs[c].parent_gen = generations[p]

Children(p) == {c \in Pids : is_child_of(c, p)}
ZombieChildren(p) == {c \in Children(p) : procs[c].state = "Zombie"}
StoppedChildren(p) ==
  {c \in Children(p) : /\ procs[c].state = "Blocked"
                       /\ procs[c].wake = NoWake
                       /\ procs[c].stop # 0}

BlockFor(c) ==
  syscall_return(BlockOn(procs, current_pid, WaitForChild(c)), TRUE)

Reap(c) ==
  /\ syscall_return(reap_zombie(procs, c), FALSE)
  /\ allocated' = allocated \ {procs[c].kstack}

\* sys_waitpid(c, flags) by the process on the CPU; c = 0 waits for any child.
waitpid(c, WNOHANG, WUNTRACED) ==
  LET me == current_pid
      zombies == IF c = 0 THEN ZombieChildren(me) ELSE ZombieChildren(me) \cap {c}
      stopped == c = 0 /\ WUNTRACED /\ StoppedChildren(me) # {}
      waitable == IF c = 0 THEN Children(me) \ {IdlePid} ELSE Children(me) \cap {c}
  IN \/ /\ zombies # {}
        /\ Reap(Least(zombies))
     \/ /\ zombies = {}
        /\ stopped \/ WNOHANG \/ waitable = {}
        /\ syscall_return(procs, FALSE)
        /\ UNCHANGED allocated
     \/ /\ zombies = {} /\ ~stopped /\ ~WNOHANG /\ waitable # {}
        /\ BlockFor(c)
        /\ UNCHANGED allocated

sys_waitpid ==
  /\ Program("waitpid")
  /\ \E c \in Pids, WNOHANG, WUNTRACED \in BOOLEAN : waitpid(c, WNOHANG, WUNTRACED)
  /\ UNCHANGED <<generations, INIT_PID, tick_counter, KEYBOARD_WAKE_PENDING,
                 line_ready, boot>>

\* The loop of /bin/init: waitpid(0, WNOHANG); it never answers an error then,
\* so the yield that follows an error is not reached.
init_main ==
  /\ Live
  /\ current_pid = INIT_PID
  /\ waitpid(0, TRUE, FALSE)
  /\ UNCHANGED <<generations, INIT_PID, tick_counter, KEYBOARD_WAKE_PENDING,
                 line_ready, boot>>

sys_read_BlocksFirst ==
  /\ Program("read")
  /\ syscall_return(BlockOn(procs, current_pid, Keyboard), TRUE)
  /\ UNCHANGED <<generations, INIT_PID, tick_counter, allocated,
                 KEYBOARD_WAKE_PENDING, line_ready, boot>>

\* sys_read on standard input (keyboard::read_line): part of the line may stay.
sys_read ==
  /\ Program("read")
  /\ IF line_ready
     THEN /\ syscall_return(procs, FALSE)
          /\ line_ready' \in BOOLEAN
     ELSE /\ syscall_return(BlockOn(procs, current_pid, Keyboard), TRUE)
          /\ UNCHANGED line_ready
  /\ UNCHANGED <<generations, INIT_PID, tick_counter, allocated,
                 KEYBOARD_WAKE_PENDING, boot>>

\* sys_fork.  Copying the address space or taking the child's stack may fail.
\* When the table is full, or the second stack that Process::new_kernel takes for
\* a moment cannot be had, the call fails and keeps the first.  The child has
\* generation 0 and the slot's counter does not move.
ForkChild(k) ==
  LET me == procs[current_pid]
  IN NewProcess(current_pid, me.gen, 0, me.pgid, k)

sys_fork ==
  /\ Program("fork")
  /\ \/ /\ syscall_return(procs, FALSE)
        /\ UNCHANGED allocated
     \/ \E k \in alloc_kernel_stack :
          /\ allocated' = allocated \cup {k}
          /\ IF FreeSlots(procs) = {} \/ FreeStacks = {k}
             THEN syscall_return(procs, FALSE)
             ELSE syscall_return([procs EXCEPT ![Least(FreeSlots(procs))] = ForkChild(k)],
                                 FALSE)
  /\ UNCHANGED <<generations, INIT_PID, tick_counter, KEYBOARD_WAKE_PENDING,
                 line_ready, boot>>

\* sys_kill only marks the signal pending.
sys_kill ==
  /\ Program("kill")
  /\ \E t \in Pids, s \in Sigs :
       IF procs[t].state \in {"Empty", "Zombie"}
       THEN syscall_return(procs, FALSE)
       ELSE syscall_return([procs EXCEPT ![t].pending = @ \cup {s}], FALSE)
  /\ UNCHANGED <<generations, INIT_PID, tick_counter, allocated,
                 KEYBOARD_WAKE_PENDING, line_ready, boot>>

sys_sigaction ==
  /\ Program("sigaction")
  /\ \E s \in Sigs, h \in Handler :
       syscall_return([procs EXCEPT ![current_pid].handlers[s] = h], FALSE)
  /\ UNCHANGED <<generations, INIT_PID, tick_counter, allocated,
                 KEYBOARD_WAKE_PENDING, line_ready, boot>>

sys_setpgid ==
  /\ Program("setpgid")
  /\ \E t, g \in UserPids :
       IF IsSome(procs, t)
       THEN syscall_return([procs EXCEPT ![t].pgid = g], FALSE)
       ELSE syscall_return(procs, FALSE)
  /\ UNCHANGED <<generations, INIT_PID, tick_counter, allocated,
                 KEYBOARD_WAKE_PENDING, line_ready, boot>>

\* A page fault or #GP of user code: kill_process of scheduler.rs and of
\* context_switch.rs.  No parent is woken and no signal is delivered.
kill_process ==
  /\ Program("fault")
  /\ LET ps == reparent_orphans_to_init(procs, current_pid)
         dead == [ps EXCEPT ![current_pid].state = "Zombie"]
         next == find_next_ready(dead, current_pid)
     IN /\ defer_free(Dispatch(dead, next), current_pid, procs[current_pid].kstack)
        /\ current_pid' = next
        /\ rsp0' = procs[next].kstack
  /\ UNCHANGED <<generations, INIT_PID, tick_counter, allocated, force_switch,
                 KEYBOARD_WAKE_PENDING, line_ready, boot>>

-----------------------------------------------------------------------------
(* Console interrupts *)

\* A byte that makes line_discipline_input or the serial handler ask for a
\* wake-up.  Enter may commit a line, and (after a backspace) may commit less
\* than before; the wake-up itself is left to the timer.
ConsoleInput ==
  /\ Live
  /\ "enter" \in Workload
  /\ line_ready' \in BOOLEAN
  /\ KEYBOARD_WAKE_PENDING' = TRUE
  /\ UNCHANGED <<procs, generations, INIT_PID, current_pid, tick_counter, deferred,
                 allocated, rsp0, force_switch, boot, halted>>

\* Ctrl+C, Ctrl+\ and Ctrl+Z; only the serial line can send them.
ConsoleSignal ==
  /\ Live
  /\ "ctrl" \in Workload
  /\ \E s \in Sigs \cap {SIGINT, SIGQUIT, SIGTSTP} :
       procs' = send_signal_to_fg(procs, s)
  /\ KEYBOARD_WAKE_PENDING' = TRUE
  /\ UNCHANGED <<generations, INIT_PID, current_pid, tick_counter, deferred,
                 allocated, rsp0, force_switch, line_ready, boot, halted>>

-----------------------------------------------------------------------------

Boot == \/ BootTestSpawn \/ BootClear \/ BootRegression \/ BootForceSwitch
        \/ BootInit \/ BootShell
Syscall == \/ sys_exit \/ sys_yield \/ sys_sleep \/ sys_waitpid \/ init_main
           \/ sys_read \/ sys_fork \/ sys_kill \/ sys_sigaction \/ sys_setpgid
Interrupt == schedule \/ kill_process \/ ConsoleInput \/ ConsoleSignal

Next == Boot \/ Syscall \/ Interrupt

\* kernel_main runs to start_scheduler; the timer keeps ticking; /bin/init makes
\* its call in the time slices it is given.
Fairness == WF_vars(Boot) /\ WF_vars(schedule) /\ SF_vars(init_main)

Spec == Init /\ [][Next]_vars
-----------------------------------------------------------------------------
(* Safety *)

\* Every variable keeps its shape: indices stay in their tables, the tick counter
\* stays inside the quantum.
TypeOK ==
  /\ procs \in [Pids -> Process]
  /\ generations \in [Pids -> Nat]
  /\ INIT_PID \in Pids
  /\ current_pid \in Pids \cup {NoPid}
  /\ tick_counter \in 0..(Quantum - 1)
  /\ deferred \in Seq(Stacks)
  /\ allocated \subseteq Stacks
  /\ rsp0 \in Stacks \cup {NoStack}
  /\ force_switch \in BOOLEAN
  /\ KEYBOARD_WAKE_PENDING \in BOOLEAN
  /\ line_ready \in BOOLEAN
  /\ boot \in {"tests", "regression", "init", "shell", "run", "halt"}
  /\ halted \in BOOLEAN

\* No kernel stack is owned twice: two slots never share one, no stack waits to
\* be freed while a slot still names it or waits twice, and what is owned or
\* waiting has not been given back to the heap (schedule_force, kill_process,
\* drain_deferred_free, reap_zombie and sys_fork never free twice).
StackOwnership ==
  /\ \A p, q \in Pids :
       p # q /\ procs[p].kstack # NoStack => procs[p].kstack # procs[q].kstack
  /\ \A i \in DOMAIN deferred, p \in Pids : deferred[i] # procs[p].kstack
  /\ \A i, j \in DOMAIN deferred : i # j => deferred[i] # deferred[j]
  /\ \A p \in Pids : procs[p].kstack \in allocated \cup {NoStack}
  /\ \A i \in DOMAIN deferred : deferred[i] \in allocated

\* While the kernel runs, TSS.RSP0 and the system-call stack are the current
\* process's own kernel stack, which is still allocated: no switch leaves them
\* at zero or at the stack of a process that left the CPU.
Rsp0IsCurrentStack ==
  current_pid # NoPid /\ ~halted =>
    rsp0 = procs[current_pid].kstack /\ rsp0 \in allocated

\* Only the process on the CPU is Running.  If it is not Running then a signal
\* has hit it there: it is Zombie, or stopped with no wake-up reason.
CpuOwner ==
  /\ \A p \in Pids : procs[p].state = "Running" => p = current_pid
  /\ current_pid # NoPid /\ ~halted =>
       /\ procs[current_pid].state \in {"Running", "Zombie", "Blocked"}
       /\ procs[current_pid].wake = NoWake

\* A process whose stack has been queued for freeing is a Zombie with no wake-up
\* reason left, so that no wake site can make it Ready and run it on freed memory.
StrippedStaysDead ==
  \A p \in Pids :
    IsSome(procs, p) /\ procs[p].kstack = NoStack =>
      procs[p].state = "Zombie" /\ procs[p].wake = NoWake

\* A reader blocked on the console while a committed line waits always has a
\* wake-up on the way: the flag set by the interrupt is not lost between the
\* check in read_line and the block that follows it.
NoLostConsoleWake ==
  \A p \in Pids :
    procs[p].state = "Blocked" /\ procs[p].wake = Keyboard /\ line_ready =>
      KEYBOARD_WAKE_PENDING

-----------------------------------------------------------------------------
(* Families *)

\* Nobody is left behind by a reap: the recorded parent of a process is always
\* still there, because an exiting process first hands its children to init.
NoOrphans == \A p \in Pids : IsSome(procs, p) => ~procs[p].orphaned

-----------------------------------------------------------------------------
(* Liveness *)

\* Round robin starves nobody: a Ready process reaches the CPU (or is killed or
\* stopped by a signal first).
NoStarvation ==
  \A p \in UserPids :
    (procs[p].state = "Ready") ~> (current_pid = p \/ procs[p].state # "Ready" \/ halted)

\* p sits in waitpid although child c, which it waits for, is dead.
WaitsForDead(p, c) ==
  /\ procs[p].state = "Blocked"
  /\ procs[p].wake \in {WaitForChild(c), WaitForChild(0)}
  /\ procs[c].state = "Zombie"
  /\ is_child_of(c, p)

\* A blocking waitpid returns once the child has exited.
WaitEnds == \A p, c \in UserPids : WaitsForDead(p, c) ~> (~WaitsForDead(p, c) \/ halted)

\* /bin/init keeps reaping: the lowest-numbered dead process it has adopted is
\* reaped, unless a lower-numbered one dies first.
LowestDead(c) == boot = "run" /\ c \in ZombieChildren(INIT_PID)
                 /\ \A d \in ZombieChildren(INIT_PID) : c <= d
InitReaps == \A c \in UserPids : LowestDead(c) ~> (~LowestDead(c) \/ halted)
=============================================================================
